--------------------------- MODULE LifecycleProofs ---------------------------
(***************************************************************************)
(* For any number of requests and streams, and every deadline that exceeds *)
(* the time a handler takes: an orderly shutdown drops no call, a forced   *)
(* one none that had arrived by the signal, and none is forced unless a    *)
(* client still sent a request, or read a stream, after the signal.        *)
(***************************************************************************)
EXTENDS Lifecycle, TLAPS

USE LifecycleAssumption

-----------------------------------------------------------------------------
(***************************************************************************)
(* The inductive invariant.                                                *)
(***************************************************************************)
\* The shutdown's clock runs from the signal, and what is in flight at the signal
\* has its time run down with it; a handler that starts later has lingered.
InTime ==
  /\ ~shuttingDown => waited = 0 /\ closed = {}
  /\ \A c \in Calls : call[c] = "inFlight" => c \in lingered \/ left[c] + waited <= CallTime

\* A transport that has drained serves and receives no call, and never will.
Drained ==
  /\ "rest" \in closed => ~InFlight(RestCalls) /\ ~Arriving(RestCalls)
  /\ "grpc" \in closed => ~InFlight(GrpcCalls) /\ ~Arriving(GrpcCalls)

\* Redis is disconnected by the last step of a shutdown, and only there.
Disconnected == exit = "ok" \/ ~linkOpen => exit = "ok" /\ closed = {"rest", "grpc"}

\* A client holds the shutdown up, or has until now.
Held == Watched \/ Arriving(Calls) \/ lingered # {}

\* Only clients let a shutdown reach its deadline.
HeldUp ==
  /\ exit = "forced" => waited = Deadline
  /\ waited = Deadline => Held

IInv == TypeOK /\ InTime /\ Drained /\ Disconnected /\ HeldUp

-----------------------------------------------------------------------------
LEMMA InitIInv == Init => IInv
<1> SUFFICES ASSUME Init PROVE IInv
  OBVIOUS
<1>1. waited # Deadline /\ waited \in 0..Deadline
  BY DEF Init
<1>2. left \in [Calls -> 0..CallTime]
  BY DEF Init
<1>3. TypeOK
  <2>1. closed \subseteq {"rest", "grpc"} /\ exit = "none" /\ shas = {}
    BY DEF Init
  <2>2. /\ call \in [Calls -> {"unsent", "arriving", "inFlight", "answered", "gone"}]
        /\ lingered \subseteq Calls \cup Streams
        /\ stream \in [Streams -> {"unopened", "open", "closed"}]
    BY DEF Init
  <2> QED BY <1>1, <1>2, <2>1, <2>2 DEF Init, TypeOK
<1>4. InTime
  BY DEF Init, InTime
<1> QED BY <1>1, <1>3, <1>4 DEF Init, IInv, Drained, Disconnected, HeldUp

\* A handler that ran when the signal came is done before the deadline.
LEMMA DoneByTheDeadline ==
  ASSUME IInv, waited = Deadline, NEW c \in Calls, call[c] = "inFlight"
  PROVE  c \in lingered
<1>1. left[c] \in Nat /\ (c \in lingered \/ left[c] + waited <= CallTime)
  BY DEF IInv, TypeOK, InTime
<1> QED BY <1>1

\* In the last millisecond before the deadline only clients are left to wait for.
LEMMA OnlyClientsAreLate ==
  ASSUME IInv, shuttingDown, NoUrgentWork, waited + 1 = Deadline
  PROVE  Held
<1> SUFFICES ASSUME ~Held PROVE FALSE
  OBVIOUS
<1>1. \A c \in Calls : call[c] # "inFlight" /\ call[c] # "arriving"
  <2> SUFFICES ASSUME NEW c \in Calls, call[c] = "inFlight" PROVE FALSE
    BY DEF Held, Arriving
  <2>1. c \notin lingered
    BY DEF Held
  <2>2. left[c] + waited <= CallTime /\ left[c] > 0 /\ left[c] \in Nat /\ waited \in Nat
    BY <2>1 DEF IInv, TypeOK, InTime, NoUrgentWork
  <2> QED BY <2>2
<1>2. RestDrained /\ GrpcDrained
  BY <1>1 DEF RestDrained, GrpcDrained, InFlight, Arriving, Calls, Held
<1>3. "rest" \in closed /\ "grpc" \in closed /\ closed # {"rest", "grpc"}
  BY <1>2 DEF NoUrgentWork
<1> QED BY <1>3 DEF IInv, TypeOK

-----------------------------------------------------------------------------
LEMMA TickKeeps ==
  ASSUME IInv, Tick
  PROVE  IInv'
<1>1. /\ waited < Deadline /\ waited \in 0..Deadline
      /\ waited' = IF shuttingDown THEN waited + 1 ELSE waited
      /\ left' = [c \in Calls |-> IF call[c] = "inFlight" THEN left[c] - 1 ELSE left[c]]
      /\ left \in [Calls -> 0..CallTime]
      /\ UNCHANGED <<boot, redisUp, shas, linkOpen, call, stream, lingered, shuttingDown, closed, exit>>
      /\ exit = "none"
  BY DEF Tick, Running, IInv, TypeOK
<1>2. TypeOK'
  <2>1. \A c \in Calls : call[c] = "inFlight" => left[c] > 0
    BY DEF Tick, NoUrgentWork
  <2>2. left' \in [Calls -> 0..CallTime]
    BY <1>1, <2>1
  <2>3. waited' \in 0..Deadline
    BY <1>1
  <2> QED BY <1>1, <2>2, <2>3 DEF IInv, TypeOK
<1>3. InTime'
  <2>1. ~shuttingDown' => waited' = 0 /\ closed' = {}
    BY <1>1 DEF IInv, InTime
  <2>2. ASSUME NEW c \in Calls, call'[c] = "inFlight"
        PROVE  c \in lingered' \/ left'[c] + waited' <= CallTime
    <3>1. left'[c] = left[c] - 1 /\ left[c] \in Nat
      BY <1>1, <2>2
    <3>2. c \in lingered \/ left[c] + waited <= CallTime
      BY <1>1, <2>2 DEF IInv, InTime
    <3> QED BY <1>1, <3>1, <3>2
  <2> QED BY <2>1, <2>2 DEF InTime
<1>4. Drained' /\ Disconnected'
  BY <1>1 DEF IInv, Drained, Disconnected, InFlight, Arriving
<1>5. HeldUp'
  <2>. Held' <=> Held
    BY <1>1 DEF Held, Watched, Arriving
  <2>1. CASE shuttingDown /\ waited + 1 = Deadline
    <3>1. Held
      BY <2>1, OnlyClientsAreLate DEF Tick
    <3> QED BY <1>1, <3>1 DEF HeldUp
  <2>2. CASE ~(shuttingDown /\ waited + 1 = Deadline)
    <3>1. waited' # Deadline
      BY <1>1, <2>2
    <3> QED BY <1>1, <3>1 DEF HeldUp
  <2> QED BY <2>1, <2>2
<1> QED BY <1>2, <1>3, <1>4, <1>5 DEF IInv

\* Until the signal no transport has drained, and after it none accepts a call.
LEMMA ReceiveKeeps ==
  ASSUME IInv, NEW c \in Calls, Receive(c)
  PROVE  IInv'
<1>1. /\ exit = "none" /\ ~shuttingDown /\ waited = 0 /\ closed = {}
      /\ call' = [call EXCEPT ![c] = "arriving"]
      /\ UNCHANGED <<boot, redisUp, shas, linkOpen, left, stream, lingered, shuttingDown, waited, closed, exit>>
  BY DEF Receive, RestAccepts, GrpcAccepts, Running, IInv, InTime
<1>2. TypeOK' /\ InTime'
  BY <1>1 DEF IInv, TypeOK, InTime
<1>3. Drained' /\ Disconnected' /\ HeldUp'
  BY <1>1 DEF IInv, Drained, Disconnected, HeldUp
<1> QED BY <1>2, <1>3 DEF IInv

\* A request that arrives, or never will, is one its transport still waits for; after
\* the signal it has lingered.
LEMMA ArrivalKeeps ==
  ASSUME IInv, NEW c \in Calls, Complete(c) \/ GiveUp(c)
  PROVE  IInv'
<1>1. /\ exit = "none" /\ call[c] = "arriving"
      /\ \E to \in {"inFlight", "gone"} : call' = [call EXCEPT ![c] = to]
      /\ lingered' = IF shuttingDown THEN lingered \cup {c} ELSE lingered
      /\ UNCHANGED <<boot, redisUp, shas, linkOpen, left, stream, shuttingDown, waited, closed, exit>>
  BY DEF Complete, GiveUp, Ends, Running
<1>2. TypeOK'
  BY <1>1 DEF IInv, TypeOK
<1>3. InTime'
  <2>1. ASSUME NEW d \in Calls, call'[d] = "inFlight"
        PROVE  d \in lingered' \/ left'[d] + waited' <= CallTime
    <3>1. CASE d = c /\ ~shuttingDown
      BY <1>1, <3>1 DEF IInv, TypeOK, InTime
    <3>2. CASE d # c
      BY <1>1, <2>1, <3>2 DEF IInv, TypeOK, InTime
    <3> QED BY <1>1, <3>1, <3>2
  <2> QED BY <1>1, <2>1 DEF IInv, InTime
<1>4. Drained'
  BY <1>1 DEF IInv, TypeOK, Drained, InFlight, Arriving, Calls
<1>5. HeldUp'
  <2>1. CASE shuttingDown
    BY <1>1, <2>1 DEF HeldUp, Held
  <2>2. CASE ~shuttingDown
    BY <1>1, <2>2 DEF IInv, InTime, HeldUp
  <2> QED BY <2>1, <2>2
<1>6. Disconnected'
  BY <1>1 DEF IInv, Disconnected
<1> QED BY <1>2, <1>3, <1>4, <1>5, <1>6 DEF IInv

LEMMA AnswerKeeps ==
  ASSUME IInv, NEW c \in Calls, Answer(c)
  PROVE  IInv'
<1>1. /\ call' = [call EXCEPT ![c] = "answered"] /\ exit = "none"
      /\ UNCHANGED <<boot, redisUp, shas, linkOpen, left, stream, lingered, shuttingDown, waited, closed, exit>>
  BY DEF Answer, Running
<1>2. TypeOK' /\ InTime'
  BY <1>1 DEF IInv, TypeOK, InTime
<1>3. Drained'
  BY <1>1 DEF IInv, TypeOK, Drained, InFlight, Arriving, Calls
<1>4. Disconnected' /\ HeldUp'
  BY <1>1 DEF Answer, IInv, TypeOK, Disconnected, HeldUp, Held, Watched, Arriving
<1> QED BY <1>2, <1>3, <1>4 DEF IInv

LEMMA StreamsKeep ==
  ASSUME IInv, NEW s \in Streams, OpenStream(s) \/ CloseStream(s)
  PROVE  IInv'
<1>1. /\ \E to \in {"open", "closed"} : stream' = [stream EXCEPT ![s] = to]
      /\ lingered' \in {lingered, lingered \cup {s}}
      /\ shuttingDown => s \in lingered'
      /\ UNCHANGED <<boot, redisUp, shas, linkOpen, call, left, shuttingDown, waited, closed, exit>>
  BY DEF OpenStream, CloseStream, Ends, RestAccepts
<1>2. TypeOK' /\ InTime' /\ Drained' /\ Disconnected'
  BY <1>1 DEF IInv, TypeOK, InTime, Drained, Disconnected, InFlight, Arriving
<1>3. HeldUp'
  <2>1. CASE shuttingDown
    BY <1>1, <2>1 DEF IInv, HeldUp, Held
  <2>2. CASE ~shuttingDown
    BY <1>1, <2>2 DEF IInv, InTime, HeldUp
  <2> QED BY <2>1, <2>2
<1> QED BY <1>2, <1>3 DEF IInv

\* What main() and the environment do before the process serves.
LEMMA BootKeeps ==
  ASSUME IInv, Warm \/ ListenRest \/ ListenGrpc \/ RedisComesOrGoes
  PROVE  IInv'
<1>1. /\ exit = "none" /\ exit' \in {"none", "failed"}
      /\ UNCHANGED <<linkOpen, call, left, stream, lingered, shuttingDown, waited, closed>>
  BY DEF Warm, ListenRest, ListenGrpc, RedisComesOrGoes, Running, Exit
<1>2. /\ boot' \in {"warming", "warmed", "rest", "serving"} /\ redisUp' \in BOOLEAN
      /\ shas' \in {{}, {"token_bucket"}, {"token_bucket", "sliding_window"}}
  BY DEF Warm, ListenRest, ListenGrpc, RedisComesOrGoes, IInv, TypeOK
<1>3. TypeOK'
  BY <1>1, <1>2 DEF IInv, TypeOK
<1> QED BY <1>1, <1>3 DEF IInv, InTime, Drained, Disconnected, HeldUp, Held, Watched, Arriving, InFlight

LEMMA SignalKeeps ==
  ASSUME IInv, Signal
  PROVE  IInv'
<1>1. /\ exit = "none" /\ exit' \in {"none", "killed"} /\ shuttingDown' \in BOOLEAN
      /\ shuttingDown => shuttingDown'
      /\ UNCHANGED <<boot, redisUp, shas, linkOpen, call, left, stream, lingered, waited, closed>>
  BY DEF Signal, Running, Exit, IInv, TypeOK
<1> QED BY <1>1 DEF IInv, TypeOK, InTime, Drained, Disconnected, HeldUp, Held, Watched, Arriving, InFlight

LEMMA DrainKeeps ==
  ASSUME IInv, RestDrains \/ GrpcDrains
  PROVE  IInv'
<1>1. /\ exit = "none" /\ shuttingDown
      /\ \/ closed' = closed \cup {"rest"} /\ ~InFlight(RestCalls) /\ ~Arriving(RestCalls)
         \/ closed' = closed \cup {"grpc"} /\ ~InFlight(GrpcCalls) /\ ~Arriving(GrpcCalls)
      /\ UNCHANGED <<boot, redisUp, shas, linkOpen, call, left, stream, lingered, shuttingDown, waited, exit>>
  BY DEF RestDrains, GrpcDrains, RestDrained, GrpcDrained, Running
<1>2. TypeOK' /\ InTime' /\ HeldUp' /\ Disconnected'
  BY <1>1 DEF IInv, TypeOK, InTime, HeldUp, Held, Watched, Arriving, Disconnected
<1>3. Drained'
  BY <1>1 DEF IInv, Drained, InFlight, Arriving
<1> QED BY <1>2, <1>3 DEF IInv

LEMMA ExitKeeps ==
  ASSUME IInv, Quit \/ DrainFails \/ DeadlineFires
  PROVE  IInv'
<1>1. /\ exit = "none"
      /\ \/ exit' = "ok" /\ closed = {"rest", "grpc"} /\ linkOpen' = FALSE
         \/ exit' = "forced" /\ waited = Deadline /\ linkOpen' = linkOpen
         \/ exit' = "failed" /\ linkOpen' = linkOpen
      /\ UNCHANGED <<boot, redisUp, shas, call, left, stream, lingered, shuttingDown, waited, closed>>
  BY DEF Quit, DrainFails, DeadlineFires, Running, Exit
<1>2. TypeOK'
  BY <1>1 DEF IInv, TypeOK
<1> QED BY <1>1, <1>2 DEF IInv, InTime, Drained, Disconnected, HeldUp, Held, Watched, Arriving, InFlight

LEMMA NextKeeps == IInv /\ [Next]_vars => IInv'
<1> SUFFICES ASSUME IInv, [Next]_vars PROVE IInv'
  OBVIOUS
<1>1. CASE UNCHANGED vars
  BY <1>1 DEF vars, IInv, TypeOK, InTime, Drained, Disconnected, HeldUp, Held, Watched, Arriving, InFlight
<1>2. CASE Next
  BY <1>2, TickKeeps, ReceiveKeeps, ArrivalKeeps, AnswerKeeps, StreamsKeep, BootKeeps, SignalKeeps,
     DrainKeeps, ExitKeeps DEF Next
<1> QED BY <1>1, <1>2

LEMMA NothingDropped == IInv => NoneDropped
<1> SUFFICES ASSUME IInv, exit \in {"ok", "forced"} \/ ~linkOpen,
                    NEW c \in Calls, call[c] \in {"arriving", "inFlight"}
             PROVE  exit = "forced" /\ (call[c] = "arriving" \/ c \in lingered)
  BY DEF NoneDropped
<1>1. exit = "forced"
  <2> SUFFICES ASSUME exit # "forced" PROVE FALSE
    OBVIOUS
  <2>1. closed = {"rest", "grpc"}
    BY DEF IInv, Disconnected
  <2> QED BY <2>1 DEF IInv, Drained, InFlight, Arriving, Calls
<1>2. call[c] = "inFlight" => c \in lingered
  BY <1>1, DoneByTheDeadline DEF IInv, HeldUp
<1> QED BY <1>1, <1>2

-----------------------------------------------------------------------------
\* The invariant of the life of a process.
THEOREM Invariance == Spec => []IInv
<1> QED BY InitIInv, NextKeeps, PTL DEF Spec

\* Every variable keeps its type.
THEOREM TypeCorrect == Spec => []TypeOK
<1>1. IInv => TypeOK
  BY DEF IInv
<1> QED BY <1>1, Invariance, PTL

\* However many calls either transport serves when a signal arrives, an orderly
\* shutdown has seen them off on both, and a forced one drops only requests that were
\* still on their way.
THEOREM CallsAreAnswered == Spec => []NoneDropped
<1> QED BY NothingDropped, Invariance, PTL

\* The deadline fires only if a client still sends a request or follows the events
\* after the signal: handlers alone are done, and both drains have called back,
\* before it.
THEOREM ClientsForce == Spec => []ForcedOnlyWhenHeld
<1>1. IInv => ForcedOnlyWhenHeld
  BY DEF IInv, HeldUp, Held, ForcedOnlyWhenHeld
<1> QED BY <1>1, Invariance, PTL
=============================================================================
