------------------------------ MODULE CheckPath ------------------------------
(***************************************************************************)
(* The path of concurrent checks through one process: RateLimitService,    *)
(* RuleCache, LuaScripts and the ioredis link to Redis, all on one         *)
(* rate-limit key of one rule, within one window or burst.                 *)
(*                                                                         *)
(* The link is a queue of the commands the process has written and not yet *)
(* seen answered.  Redis executes them in order and answers them in order; *)
(* commandTimeout rejects the promise of a command and leaves the command  *)
(* itself where it is.  A JavaScript continuation runs from one await to   *)
(* the next without interleaving: it is part of the action that resumes it.*)
(***************************************************************************)
EXTENDS Naturals, Sequences, FiniteSets, SequencesExt

CONSTANTS
  Reqs,       \* the checks in progress
  Limit,      \* tokens the key has left to give, all costs being one
  FailOpen,   \* the FAIL_OPEN setting
  MaxLosses,  \* bound on the times Redis forgets scripts or everything
  MaxDrops    \* bound on the times the connection drops

ASSUME CheckPathAssumption == IsFiniteSet(Reqs) /\ Limit \in Nat /\ FailOpen \in BOOLEAN
                              /\ MaxLosses \in Nat /\ MaxDrops \in Nat

VARIABLES
  kind,      \* kind[r]: what is wrong with the request, "good" if nothing is
  answer,    \* answer[r]: how the check ended, "none" until it has
  started,   \* the requests that have been received
  queue,     \* commands written to Redis and not answered yet
  linkUp,    \* ioredis status is "ready"
  redis,     \* what Redis holds: data (tenant, rule), scripts, tokens spent
  shaKnown,  \* LuaScripts.shas has the script
  cached,    \* RuleCache holds the rule and it has not expired
  errors,    \* throttle_redis_errors_total
  charges,   \* history: charges[r] is how often r's script spent a token
  losses, drops, flushes, timeouts  \* history: faults so far

faultVars == <<losses, drops, flushes, timeouts>>
vars == <<kind, answer, started, queue, linkUp, redis, shaKnown, cached,
          errors, charges, losses, drops, flushes, timeouts>>

Kinds == {"good", "noKey", "badKey", "noIdentifier", "badRule", "badCost"}

ClientErrors == {"unknownKey", "unknownRule", "invalid"}
BackendAnswers == {"degraded", "unavailable"}
Answers == {"none", "allowed", "denied"} \cup ClientErrors \cup BackendAnswers

Cmds == {"get", "hget", "load", "eval", "reload", "reeval"}
Replies == {"none", "hit", "nil", "ok", "allowed", "denied", "noscript"}

Init ==
  /\ kind \in [Reqs -> Kinds]
  /\ answer = [r \in Reqs |-> "none"]
  /\ started = {}
  /\ queue = <<>>
  /\ linkUp = TRUE
  /\ redis \in [data: {TRUE}, scripts: BOOLEAN, spent: {0}]
  /\ shaKnown \in BOOLEAN /\ (shaKnown => redis.scripts)
  /\ cached \in BOOLEAN
  /\ errors = 0
  /\ charges = [r \in Reqs |-> 0]
  /\ losses = 0 /\ drops = 0 /\ flushes = 0 /\ timeouts = 0

-----------------------------------------------------------------------------
(***************************************************************************)
(* What the continuation of request r does next.  q is the queue without   *)
(* the command it was waiting for.                                         *)
(***************************************************************************)
Waiting(r) == \E i \in DOMAIN queue : queue[i].req = r /\ queue[i].live

UncountedBackendError(r, q) ==
  /\ answer' = [answer EXCEPT ![r] = IF FailOpen THEN "degraded" ELSE "unavailable"]
  /\ errors' = IF FailOpen THEN errors + 1 ELSE errors
  /\ queue' = q

\* onBackendError: count it, then allow or refuse by policy.
BackendError(r, q) ==
  /\ answer' = [answer EXCEPT ![r] = IF FailOpen THEN "degraded" ELSE "unavailable"]
  /\ errors' = errors + 1
  /\ queue' = q

Finish(r, a, q) ==
  /\ answer' = [answer EXCEPT ![r] = a]
  /\ queue' = q
  /\ UNCHANGED errors

\* enableOfflineQueue is false: with the link down a command is rejected.
Send(r, cmd, q) ==
  \/ /\ linkUp
     /\ queue' = Append(q, [req |-> r, cmd |-> cmd, live |-> TRUE, reply |-> "none"])
     /\ UNCHANGED <<answer, errors>>
  \/ ~linkUp /\ BackendError(r, q)

\* LuaScripts.run, from the look at the sha map to the first command.
RunScript(r, q) == Send(r, IF shaKnown THEN "eval" ELSE "load", q)

UncheckedRule(r, q) == RunScript(r, q)

\* RateLimitService.resolve once the rule is there, and limiter.check.
WithRule(r, q) ==
  IF kind[r] = "badCost" THEN Finish(r, "invalid", q) ELSE RunScript(r, q)

\* RateLimitService.resolve: a hit of the rule cache does no command.
Resolve(r, q) ==
  IF kind[r] = "noIdentifier" THEN Finish(r, "invalid", q)
  ELSE IF cached /\ kind[r] # "badRule" THEN WithRule(r, q)
  ELSE Send(r, "hget", q)

(***************************************************************************)
(* The continuation of r when its command cmd is answered.                 *)
(***************************************************************************)
GiveUpOnNoScript(r, cmd, reply, q) == BackendError(r, q)

\* catch (err) in run: a NOSCRIPT is cured once, by loading the source again.
OnNoScript(r, cmd, reply, q) ==
  IF cmd = "eval" THEN Send(r, "reload", q) ELSE BackendError(r, q)

Resume(r, cmd, reply, q) ==
  \/ /\ cmd = "get" /\ reply = "nil"
     /\ Finish(r, "unknownKey", q)
     /\ UNCHANGED <<cached, shaKnown>>
  \/ /\ cmd = "get" /\ reply = "hit"
     /\ Resolve(r, q)
     /\ UNCHANGED <<cached, shaKnown>>
  \/ /\ cmd = "hget" /\ reply = "nil"
     /\ Finish(r, "unknownRule", q)
     /\ UNCHANGED <<cached, shaKnown>>
  \/ /\ cmd = "hget" /\ reply = "hit"
     /\ cached' = TRUE
     /\ WithRule(r, q)
     /\ UNCHANGED shaKnown
  \/ /\ cmd = "load"
     /\ shaKnown' = TRUE
     /\ Send(r, "eval", q)
     /\ UNCHANGED cached
  \/ /\ cmd = "reload"
     /\ shaKnown' = TRUE
     /\ Send(r, "reeval", q)
     /\ UNCHANGED cached
  \/ /\ cmd \in {"eval", "reeval"} /\ reply = "noscript"
     /\ OnNoScript(r, cmd, reply, q)
     /\ UNCHANGED <<cached, shaKnown>>
  \/ /\ cmd \in {"eval", "reeval"} /\ reply \in {"allowed", "denied"}
     /\ Finish(r, reply, q)
     /\ UNCHANGED <<cached, shaKnown>>

-----------------------------------------------------------------------------
\* A request arrives: RateLimitService.check up to its first command.
Start(r) ==
  /\ r \notin started
  /\ started' = started \cup {r}
  /\ IF kind[r] = "noKey" THEN Finish(r, "unknownKey", queue) ELSE Send(r, "get", queue)
  /\ UNCHANGED <<kind, linkUp, redis, shaKnown, cached, charges, faultVars>>

UnmeteredReply == IF ~redis.scripts THEN "noscript" ELSE "allowed"

\* Redis executes the next command.
ScriptReply == IF ~redis.scripts THEN "noscript"
               ELSE IF redis.spent < Limit THEN "allowed" ELSE "denied"

ReplyTo(c) ==
  CASE c.cmd = "get"  -> IF redis.data /\ kind[c.req] # "badKey" THEN "hit" ELSE "nil"
    [] c.cmd = "hget" -> IF redis.data /\ kind[c.req] # "badRule" THEN "hit" ELSE "nil"
    [] c.cmd \in {"load", "reload"}  -> "ok"
    [] c.cmd \in {"eval", "reeval"} -> ScriptReply

Execute ==
  \E i \in DOMAIN queue :
    LET c == queue[i]  reply == ReplyTo(c) IN
      /\ linkUp
      /\ c.reply = "none"
      /\ \A j \in 1..(i - 1) : queue[j].reply # "none"
      /\ queue' = [queue EXCEPT ![i].reply = reply]
      /\ redis' = [redis EXCEPT !.scripts = @ \/ c.cmd \in {"load", "reload"},
                                !.spent = IF reply = "allowed" THEN @ + 1 ELSE @]
      /\ charges' = IF reply = "allowed" THEN [charges EXCEPT ![c.req] = @ + 1] ELSE charges
      /\ UNCHANGED <<kind, answer, started, linkUp, shaKnown, cached, errors, faultVars>>

\* The reply of the oldest command arrives.  If its promise was rejected
\* meanwhile, nobody listens.
Deliver ==
  /\ linkUp /\ queue # <<>> /\ Head(queue).reply # "none"
  /\ LET c == Head(queue) IN
       \/ /\ c.live
          /\ Resume(c.req, c.cmd, c.reply, Tail(queue))
       \/ /\ ~c.live
          /\ queue' = Tail(queue)
          /\ UNCHANGED <<answer, errors, cached, shaKnown>>
  /\ UNCHANGED <<kind, started, linkUp, redis, charges, faultVars>>

StillHeard(r) == queue

Muted(r) == [i \in DOMAIN queue |->
              IF queue[i].req = r THEN [queue[i] EXCEPT !.live = FALSE] ELSE queue[i]]

RetryOnTimeout(r) ==
  /\ Waiting(r)
  /\ timeouts' = timeouts + 1
  /\ IF \E i \in DOMAIN queue : queue[i].req = r /\ queue[i].live /\ queue[i].cmd = "eval"
     THEN Send(r, "reeval", Muted(r))
     ELSE BackendError(r, Muted(r))
  /\ UNCHANGED <<kind, started, linkUp, redis, shaKnown, cached, charges, losses, drops, flushes>>

TimeoutOfScripts(r) ==
  /\ \E i \in DOMAIN queue : queue[i].req = r /\ queue[i].live /\ queue[i].cmd = "eval"
  /\ timeouts' = timeouts + 1
  /\ BackendError(r, Muted(r))
  /\ UNCHANGED <<kind, started, linkUp, redis, shaKnown, cached, charges, losses, drops, flushes>>

\* commandTimeout: the promise is rejected, the command stays in the queue.
Timeout(r) ==
  /\ Waiting(r)
  /\ timeouts' = timeouts + 1
  /\ BackendError(r, Muted(r))
  /\ UNCHANGED <<kind, started, linkUp, redis, shaKnown, cached, charges, losses, drops, flushes>>

-----------------------------------------------------------------------------
\* The connection drops.  Commands without a reply may or may not have run; the
\* client keeps them to send them again.
Drop ==
  /\ linkUp /\ drops < MaxDrops
  /\ linkUp' = FALSE
  /\ drops' = drops + 1
  /\ queue' = [i \in DOMAIN queue |-> [queue[i] EXCEPT !.reply = "none"]]
  /\ UNCHANGED <<kind, answer, started, redis, shaKnown, cached, errors, charges,
                 losses, flushes, timeouts>>

\* The first attempt to reconnect succeeds: ioredis sends what was unanswered
\* again (autoResendUnfulfilledCommands is its default).
Reconnect ==
  /\ ~linkUp
  /\ linkUp' = TRUE
  /\ UNCHANGED <<kind, answer, started, queue, redis, shaKnown, cached, errors,
                 charges, faultVars>>

\* An attempt fails: with maxRetriesPerRequest 1 every pending command is
\* rejected, and the client tries on.
ReconnectFails ==
  /\ ~linkUp /\ queue # <<>>
  /\ queue' = <<>>
  /\ LET pending == {r \in Reqs : Waiting(r)} IN
       /\ answer' = [r \in Reqs |->
                      IF r \notin pending THEN answer[r]
                      ELSE IF FailOpen THEN "degraded" ELSE "unavailable"]
       /\ errors' = errors + Cardinality(pending)
  /\ UNCHANGED <<kind, started, linkUp, redis, shaKnown, cached, charges, faultVars>>

\* SCRIPT FLUSH, or a failover to a replica that never saw the scripts.
FlushScripts ==
  /\ losses < MaxLosses /\ redis.scripts
  /\ losses' = losses + 1 /\ flushes' = flushes + 1
  /\ redis' = [redis EXCEPT !.scripts = FALSE]
  /\ UNCHANGED <<kind, answer, started, queue, linkUp, shaKnown, cached, errors,
                 charges, drops, timeouts>>

\* Redis restarts while the link is down; it persists nothing.
Restart ==
  /\ ~linkUp /\ losses < MaxLosses
  /\ losses' = losses + 1
  /\ redis' = [data |-> FALSE, scripts |-> FALSE, spent |-> 0]
  /\ UNCHANGED <<kind, answer, started, queue, linkUp, shaKnown, cached, errors,
                 charges, drops, flushes, timeouts>>

\* The seed script or an administrator provisions the tenant and its rule again.
Provision ==
  /\ ~redis.data
  /\ redis' = [redis EXCEPT !.data = TRUE]
  /\ UNCHANGED <<kind, answer, started, queue, linkUp, shaKnown, cached, errors,
                 charges, faultVars>>

\* The cached rule outlives its 30 seconds.
CacheExpires ==
  /\ cached
  /\ cached' = FALSE
  /\ UNCHANGED <<kind, answer, started, queue, linkUp, redis, shaKnown, errors,
                 charges, faultVars>>

Next ==
  \/ \E r \in Reqs : Start(r) \/ Timeout(r)
  \/ Execute \/ Deliver
  \/ Drop \/ Reconnect \/ ReconnectFails
  \/ FlushScripts \/ Restart \/ Provision \/ CacheExpires

Spec == Init /\ [][Next]_vars

\* Node's timers fire: the only fairness an answer needs.
FairSpec == Spec /\ \A r \in Reqs : WF_vars(Timeout(r))

-----------------------------------------------------------------------------
Commands == [req: Reqs, cmd: Cmds, live: BOOLEAN, reply: Replies]

\* Every variable has its type.
TypeOK ==
  /\ kind \in [Reqs -> Kinds]
  /\ answer \in [Reqs -> Answers]
  /\ started \subseteq Reqs
  /\ queue \in Seq(Commands)
  /\ linkUp \in BOOLEAN
  /\ redis \in [data: BOOLEAN, scripts: BOOLEAN, spent: 0..Limit]
  /\ shaKnown \in BOOLEAN /\ cached \in BOOLEAN
  /\ errors \in Nat
  /\ charges \in [Reqs -> Nat]
  /\ {losses, drops, flushes, timeouts} \subseteq Nat

\* A request received and not answered waits for exactly one command; an answered
\* one for none, whatever of its commands is still in the queue.
OneAwait ==
  \A r \in Reqs :
    Cardinality({i \in DOMAIN queue : queue[i].req = r /\ queue[i].live})
      = IF r \in started /\ answer[r] = "none" THEN 1 ELSE 0

\* An allow that is not degraded spent a token in Redis; so between two losses
\* of its data no more than Limit checks are allowed, whatever timed out, was
\* sent again or raced a reload of the script.
AllowsAreCharged ==
  /\ \A r \in Reqs : answer[r] = "allowed" => charges[r] >= 1
  /\ Cardinality({r \in Reqs : answer[r] = "allowed"}) <= Limit * (1 + losses - flushes)

\* One check spends one token, a denied one none: the reload after NOSCRIPT
\* repeats nothing.  Only a dropped connection, whose commands are sent again,
\* can charge a check once more.
ChargedOnce ==
  \A r \in Reqs : charges[r] <= drops + (IF answer[r] = "denied" THEN 0 ELSE 1)

\* "Correctness survives lifecycle events": a loss of the scripts alone is never
\* seen by a caller, also when several requests find out at the same time.
ScriptLossHidden ==
  drops = 0 /\ timeouts = 0 /\ losses <= 1 =>
    \A r \in Reqs : answer[r] \notin BackendAnswers

\* Client errors come from the word of a working Redis: a sound request gets
\* none unless Redis lost its data, and what is wrong with a request is never
\* turned into an allow or a deny.
ClientErrorsTrue ==
  \A r \in Reqs :
    /\ kind[r] = "good" /\ losses = flushes => answer[r] \notin ClientErrors
    /\ kind[r] # "good" => answer[r] \notin {"allowed", "denied"} /\ charges[r] = 0

\* throttle_redis_errors_total counts every degraded or rejected call once.
ErrorsCounted == errors = Cardinality({r \in Reqs : answer[r] \in BackendAnswers})

\* A late reply changes nothing: a call is answered once.
AnswerStands == [][\A r \in Reqs : answer[r] # "none" => answer'[r] = answer[r]]_vars

\* "No unbounded request latency": with Redis hung, gone or flapping, every
\* request is answered.
Answered == \A r \in Reqs : r \in started ~> answer[r] # "none"
=============================================================================
