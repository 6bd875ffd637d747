------------------------------ MODULE Lifecycle ------------------------------
(***************************************************************************)
(* One process from main() to its exit: warming the scripts, binding the   *)
(* two transports one after the other, serving, and the shutdown that a    *)
(* signal starts.  Requests and dashboard streams are opened by clients at *)
(* any time a transport listens.  Only what waits for somebody else takes  *)
(* time: a handler up to CallTime; a client that sends its request, or     *)
(* reads a stream, as long as it likes: no timeout is set on either server.*)
(***************************************************************************)
EXTENDS Naturals

CONSTANTS
  RestCalls, GrpcCalls,  \* requests of either transport
  Streams,               \* dashboards that follow /v1/events
  CallTime,              \* no handler takes longer
  Deadline               \* the hard deadline of a shutdown

\* A check awaits a handful of commands of 50 ms each; the largest batch, 50 items
\* run again one by one with up to three commands, about 7.5 seconds; the deadline
\* is ten.  REDIS_COMMAND_TIMEOUT_MS has no upper bound: from about 66 ms on, the
\* assumption does not hold of such a batch.
ASSUME LifecycleAssumption ==
  /\ RestCalls \cap GrpcCalls = {}
  /\ CallTime \in Nat /\ Deadline \in Nat /\ CallTime < Deadline

Calls == RestCalls \cup GrpcCalls

VARIABLES
  boot,          \* how far main() has come
  redisUp,       \* Redis can be reached
  shas,          \* scripts preloaded by LuaScripts.load
  linkOpen,      \* the process has not disconnected from Redis
  call,          \* call[c]: "unsent", "arriving", "inFlight", "answered" or "gone"
  left,          \* left[c]: time by which c, once in flight, is answered
  stream,        \* stream[s]: "unopened", "open" or "closed"
  lingered,      \* requests sent, and streams read, past the signal and now ended (observer)
  shuttingDown,  \* the flag of shutdown()
  waited,        \* time since it was set
  closed,        \* the transports whose drain has completed
  exit           \* the exit status: "none" while the process runs

vars == <<boot, redisUp, shas, linkOpen, call, left, stream, lingered, shuttingDown, waited, closed, exit>>

Init ==
  /\ boot = "warming"
  /\ redisUp \in BOOLEAN
  /\ shas = {}
  /\ linkOpen = TRUE
  /\ call = [c \in Calls |-> "unsent"]
  /\ left = [c \in Calls |-> CallTime]
  /\ stream = [s \in Streams |-> "unopened"]
  /\ lingered = {}
  /\ shuttingDown = FALSE
  /\ waited = 0
  /\ closed = {}
  /\ exit = "none"

Running == exit = "none"

Exit(code) == exit' = code

-----------------------------------------------------------------------------
WarmTogether ==
  /\ Running /\ boot = "warming"
  /\ shas' \in SUBSET {"token_bucket", "sliding_window"}
  /\ ~redisUp => shas' = {}
  /\ boot' = "warmed"
  /\ UNCHANGED <<redisUp, linkOpen, call, left, stream, lingered, shuttingDown, waited, closed, exit>>

WarmOnlyWithRedis ==
  /\ Running /\ boot = "warming"
  /\ redisUp
  /\ shas' = {"token_bucket", "sliding_window"}
  /\ boot' = "warmed"
  /\ UNCHANGED <<redisUp, linkOpen, call, left, stream, lingered, shuttingDown, waited, closed, exit>>

\* waitForReady gives up after two seconds; load() stops at the first command
\* that fails, and main() goes on without.
Warm ==
  /\ Running /\ boot = "warming"
  /\ shas' \in {{}, {"token_bucket"}, {"token_bucket", "sliding_window"}}
  /\ ~redisUp => shas' = {}
  /\ boot' = "warmed"
  /\ UNCHANGED <<redisUp, linkOpen, call, left, stream, lingered, shuttingDown, waited, closed, exit>>

\* A port that is taken rejects, and main().catch ends the process.
ListenRest ==
  /\ Running /\ boot = "warmed"
  /\ \/ boot' = "rest" /\ UNCHANGED exit
     \/ boot' = boot /\ Exit("failed")
  /\ UNCHANGED <<redisUp, shas, linkOpen, call, left, stream, lingered, shuttingDown, waited, closed>>

\* The second transport listens; the signal handlers are installed with it.
ListenGrpc ==
  /\ Running /\ boot = "rest"
  /\ \/ boot' = "serving" /\ UNCHANGED exit
     \/ boot' = boot /\ Exit("failed")
  /\ UNCHANGED <<redisUp, shas, linkOpen, call, left, stream, lingered, shuttingDown, waited, closed>>

RedisComesOrGoes ==
  /\ Running
  /\ redisUp' = ~redisUp
  /\ UNCHANGED <<boot, shas, linkOpen, call, left, stream, lingered, shuttingDown, waited, closed, exit>>

-----------------------------------------------------------------------------
RestAccepts == Running /\ boot \in {"rest", "serving"} /\ ~shuttingDown
GrpcAccepts == Running /\ boot = "serving" /\ ~shuttingDown

\* A connection is accepted, or a stream of an open one, and its request begins.
Receive(c) ==
  /\ call[c] = "unsent"
  /\ IF c \in RestCalls THEN RestAccepts ELSE GrpcAccepts
  /\ call' = [call EXCEPT ![c] = "arriving"]
  /\ UNCHANGED <<boot, redisUp, shas, linkOpen, left, stream, lingered, shuttingDown, waited, closed, exit>>

\* What a client ends after the signal has lingered.
Ends(client) == lingered' = IF shuttingDown THEN lingered \cup {client} ELSE lingered

\* The body is there and the handler starts, shutdown or not.
Complete(c) ==
  /\ Running /\ call[c] = "arriving"
  /\ call' = [call EXCEPT ![c] = "inFlight"]
  /\ Ends(c)
  /\ UNCHANGED <<boot, redisUp, shas, linkOpen, left, stream, shuttingDown, waited, closed, exit>>

\* The client closes the connection, or cancels, before it has sent everything.
GiveUp(c) ==
  /\ Running /\ call[c] = "arriving"
  /\ call' = [call EXCEPT ![c] = "gone"]
  /\ Ends(c)
  /\ UNCHANGED <<boot, redisUp, shas, linkOpen, left, stream, shuttingDown, waited, closed, exit>>

\* Every await of a handler ends by commandTimeout at the latest.
Answer(c) ==
  /\ Running /\ call[c] = "inFlight"
  /\ call' = [call EXCEPT ![c] = "answered"]
  /\ UNCHANGED <<boot, redisUp, shas, linkOpen, left, stream, lingered, shuttingDown, waited, closed, exit>>

\* GET /v1/events takes the response over and never ends it itself.
OpenStream(s) ==
  /\ RestAccepts /\ stream[s] = "unopened"
  /\ stream' = [stream EXCEPT ![s] = "open"]
  /\ UNCHANGED <<boot, redisUp, shas, linkOpen, call, left, lingered, shuttingDown, waited, closed, exit>>

\* Only the client does.
CloseStream(s) ==
  /\ Running /\ stream[s] = "open"
  /\ stream' = [stream EXCEPT ![s] = "closed"]
  /\ Ends(s)
  /\ UNCHANGED <<boot, redisUp, shas, linkOpen, call, left, shuttingDown, waited, closed, exit>>

-----------------------------------------------------------------------------
\* SIGINT or SIGTERM.  Until the handlers are installed it kills the process;
\* after the first one shutdown() returns at once.
Signal ==
  /\ Running
  /\ \/ boot # "serving" /\ Exit("killed") /\ UNCHANGED shuttingDown
     \/ boot = "serving" /\ ~shuttingDown /\ shuttingDown' = TRUE /\ UNCHANGED exit
  /\ UNCHANGED <<boot, redisUp, shas, linkOpen, call, left, stream, lingered, waited, closed>>

InFlight(S) == \E c \in S : call[c] = "inFlight"

Arriving(S) == \E c \in S : call[c] = "arriving"

Watched == \E s \in Streams : stream[s] = "open"

IdleHoldsTheDrain ==
  ~InFlight(RestCalls) /\ ~Watched /\ \A c \in RestCalls : call[c] = "unsent"

\* rest.close() drops idle connections and waits for all others: those whose
\* request is still coming in and those that serve a response.
RestDrained == ~InFlight(RestCalls) /\ ~Arriving(RestCalls) /\ ~Watched

\* tryShutdown waits for the calls under way, read in whole or not.
GrpcDrained == ~InFlight(GrpcCalls) /\ ~Arriving(GrpcCalls)

\* rest.close() has resolved.
RestDrains ==
  /\ Running /\ shuttingDown /\ "rest" \notin closed
  /\ RestDrained
  /\ closed' = closed \cup {"rest"}
  /\ UNCHANGED <<boot, redisUp, shas, linkOpen, call, left, stream, lingered, shuttingDown, waited, exit>>

\* tryShutdown has called back.
GrpcDrains ==
  /\ Running /\ shuttingDown /\ "grpc" \notin closed
  /\ GrpcDrained
  /\ closed' = closed \cup {"grpc"}
  /\ UNCHANGED <<boot, redisUp, shas, linkOpen, call, left, stream, lingered, shuttingDown, waited, exit>>

QuitAfterTheFirst ==
  /\ Running /\ closed # {}
  /\ linkOpen' = FALSE
  /\ Exit("ok")
  /\ UNCHANGED <<boot, redisUp, shas, call, left, stream, lingered, shuttingDown, waited, closed>>

\* Promise.all of both drains, then the disconnect from Redis.
Quit ==
  /\ Running /\ closed = {"rest", "grpc"}
  /\ linkOpen' = FALSE
  /\ Exit("ok")
  /\ UNCHANGED <<boot, redisUp, shas, call, left, stream, lingered, shuttingDown, waited, closed>>

\* A drain that rejects, whatever the transport rejects with.
DrainFails ==
  /\ Running /\ shuttingDown /\ closed # {"rest", "grpc"}
  /\ Exit("failed")
  /\ UNCHANGED <<boot, redisUp, shas, linkOpen, call, left, stream, lingered, shuttingDown, waited, closed>>

PatientDeadline ==
  /\ Running /\ waited = Deadline /\ ~Watched
  /\ Exit("forced")
  /\ UNCHANGED <<boot, redisUp, shas, linkOpen, call, left, stream, lingered, shuttingDown, waited, closed>>

\* Ten seconds after the signal: forceShutdown and exit, whatever is under way.
DeadlineFires ==
  /\ Running /\ waited = Deadline
  /\ Exit("forced")
  /\ UNCHANGED <<boot, redisUp, shas, linkOpen, call, left, stream, lingered, shuttingDown, waited, closed>>

NoUrgentWork ==
  /\ \A c \in Calls : call[c] = "inFlight" => left[c] > 0
  /\ shuttingDown => /\ "rest" \in closed \/ ~RestDrained
                     /\ "grpc" \in closed \/ ~GrpcDrained
                     /\ closed # {"rest", "grpc"}

\* Time passes while the process has nothing left to do but wait.
Tick ==
  /\ Running /\ NoUrgentWork /\ waited < Deadline
  /\ left' = [c \in Calls |-> IF call[c] = "inFlight" THEN left[c] - 1 ELSE left[c]]
  /\ waited' = IF shuttingDown THEN waited + 1 ELSE waited
  /\ UNCHANGED <<boot, redisUp, shas, linkOpen, call, stream, lingered, shuttingDown, closed, exit>>

Next ==
  \/ Warm \/ ListenRest \/ ListenGrpc \/ RedisComesOrGoes
  \/ \E c \in Calls : Receive(c) \/ Complete(c) \/ GiveUp(c) \/ Answer(c)
  \/ \E s \in Streams : OpenStream(s) \/ CloseStream(s)
  \/ Signal \/ RestDrains \/ GrpcDrains \/ DrainFails \/ Quit \/ DeadlineFires \/ Tick

Spec == Init /\ [][Next]_vars

\* Timers fire and continuations run; clients owe nothing.
FairSpec ==
  /\ Spec
  /\ WF_vars(Warm) /\ WF_vars(ListenRest) /\ WF_vars(ListenGrpc)
  /\ \A c \in Calls : WF_vars(Answer(c))
  /\ WF_vars(RestDrains) /\ WF_vars(GrpcDrains) /\ WF_vars(Quit)
  /\ WF_vars(DeadlineFires) /\ WF_vars(Tick)

-----------------------------------------------------------------------------
\* Every variable has its type; the scripts are loaded in the order of SOURCES.
TypeOK ==
  /\ boot \in {"warming", "warmed", "rest", "serving"}
  /\ redisUp \in BOOLEAN /\ linkOpen \in BOOLEAN
  /\ shas \in {{}, {"token_bucket"}, {"token_bucket", "sliding_window"}}
  /\ call \in [Calls -> {"unsent", "arriving", "inFlight", "answered", "gone"}]
  /\ left \in [Calls -> 0..CallTime]
  /\ stream \in [Streams -> {"unopened", "open", "closed"}]
  /\ lingered \subseteq Calls \cup Streams
  /\ shuttingDown \in BOOLEAN /\ waited \in 0..Deadline
  /\ closed \subseteq {"rest", "grpc"}
  /\ exit \in {"none", "ok", "forced", "failed", "killed"}

\* "No dropped in-flight requests on deploy" is true of an orderly shutdown: it leaves
\* no call on either transport, and Redis is not disconnected under one.  The calls a forced one drops are those whose clients had
\* not sent their requests when the signal came.
NoneDropped ==
  exit \in {"ok", "forced"} \/ ~linkOpen =>
    \A c \in Calls : call[c] \in {"arriving", "inFlight"} =>
      exit = "forced" /\ (call[c] = "arriving" \/ c \in lingered)

\* The hard deadline is there for drains that hang on a client.  A shutdown is
\* forced only if one was still sending a request or following the events after the
\* signal: the handlers by themselves, Redis down or not, never hold it that long.
ForcedOnlyWhenHeld ==
  exit = "forced" => Watched \/ Arriving(Calls) \/ lingered # {}

\* "10s hard deadline forces exit": every shutdown ends, whatever clients do.
ShutdownEnds == shuttingDown ~> exit # "none"

\* "Tolerate Redis being down at boot": the process serves, or fails on a port of
\* its own, or is killed; it never waits for Redis.
Boots == <>(boot = "serving" \/ exit # "none")
=============================================================================
