-------------------------------- MODULE Batch --------------------------------
(***************************************************************************)
(* One batch call through RateLimitService.checkBatch and LuaScripts       *)
(* .runMany.  All items use one rate-limit key; each names a rule whose    *)
(* cache entry is warm or not.  The link is the queue of CheckPath, here   *)
(* without connection drops: what can go wrong is a slow command and a     *)
(* loss of the scripts.                                                    *)
(***************************************************************************)
EXTENDS Naturals, Sequences, FiniteSets

CONSTANTS
  Size,        \* items of the batch
  Limit,       \* tokens the key has left to give, all costs being one
  FailOpen,    \* the FAIL_OPEN setting
  MaxFlushes   \* bound on the losses of the scripts

ASSUME BatchAssumption == Size \in Nat \ {0} /\ Limit \in Nat
                          /\ FailOpen \in BOOLEAN /\ MaxFlushes \in Nat

Items == 1..Size
Service == 0   \* the item number of the api-key lookup

VARIABLES
  kind,      \* kind[i]: what is wrong with the item, "good" if nothing is
  warm,      \* warm[i]: its rule is in the rule cache when the batch starts
  phase,     \* where checkBatch is
  queue,     \* commands written to Redis and not answered yet
  runnable,  \* resolved items in the order they were resolved
  entries,   \* entries[i]: what checkBatch has put at i
  results,   \* results of the pipeline, one for each runnable item
  decided,   \* how many of them runMany has walked past
  redis,     \* what Redis holds: scripts, tokens spent
  shaKnown,  \* LuaScripts.shas has the script
  answer,    \* how the call ended, "none" until it has
  errors,    \* throttle_redis_errors_total
  verdict,   \* history: verdict[i] is what the script decided for i
  flushes, timeouts  \* history: faults so far

vars == <<kind, warm, phase, queue, runnable, entries, results, decided, redis,
          shaKnown, answer, errors, verdict, flushes, timeouts>>

Kinds == {"good", "badRule", "badCost", "noIdentifier"}
ClientErrors == {"unknownRule", "invalid"}
Decisions == {"allowed", "denied"}

Init ==
  /\ kind \in [Items -> Kinds]
  /\ warm \in [Items -> BOOLEAN]
  /\ \A i \in Items : kind[i] \in {"badRule", "noIdentifier"} => ~warm[i]
  /\ phase = "auth"
  /\ queue = <<[item |-> Service, cmd |-> "get", live |-> TRUE, reply |-> "none"]>>
  /\ runnable = <<>>
  /\ entries = [i \in Items |-> "none"]
  /\ results = <<>>
  /\ decided = 0
  /\ redis \in [scripts: BOOLEAN, spent: {0}]
  /\ shaKnown \in BOOLEAN /\ (shaKnown => redis.scripts)
  /\ answer = "none"
  /\ errors = 0
  /\ verdict = [i \in Items |-> "none"]
  /\ flushes = 0 /\ timeouts = 0

-----------------------------------------------------------------------------
Command(i, cmd) == [item |-> i, cmd |-> cmd, live |-> TRUE, reply |-> "none"]

\* One command for each of the items, in the order given.
Commands(is, cmd) == [k \in DOMAIN is |-> Command(is[k], cmd)]

\* The members of S, the smallest first.
InOrder(S) ==
  CHOOSE q \in [1..Cardinality(S) -> S] : \A j, k \in DOMAIN q : j < k => q[j] < q[k]

\* What resolve says of an item whose rule is at hand.
Resolved(i, es) == IF kind[i] = "badCost" THEN [es EXCEPT ![i] = "invalid"] ELSE es

\* runMany up to its first await: without a known sha every item loads the
\* script for itself, since none of them has set it yet.
Evaluate(run, q) ==
  IF run = <<>> THEN phase' = "walk" /\ queue' = q
  ELSE IF shaKnown THEN phase' = "pipeline" /\ queue' = q \o Commands(run, "eval")
  ELSE phase' = "shas" /\ queue' = q \o Commands(run, "load")

\* The key is known: Promise.all starts every resolve; those that need no
\* command are through before any reply arrives.
Authenticated(q) ==
  LET asking == {i \in Items : kind[i] # "noIdentifier" /\ ~warm[i]}
      run    == InOrder({i \in Items \ asking : kind[i] = "good"})
  IN  /\ runnable' = run
      /\ entries' = [i \in Items |->
                      IF i \in asking \/ kind[i] = "good" THEN "none" ELSE "invalid"]
      /\ IF asking = {} THEN Evaluate(run, q)
         ELSE phase' = "resolve" /\ queue' = q \o Commands(InOrder(asking), "hget")

LiveIn(q) == \E k \in DOMAIN q : q[k].live

\* A rule arrives, or the news that there is none; the last one lets the batch
\* go on.
RuleArrives(i, reply, q) ==
  LET run == IF kind[i] = "good" THEN Append(runnable, i) ELSE runnable IN
    /\ runnable' = run
    /\ entries' = IF reply = "nil" THEN [entries EXCEPT ![i] = "unknownRule"]
                  ELSE Resolved(i, entries)
    /\ IF LiveIn(q) THEN phase' = phase /\ queue' = q ELSE Evaluate(run, q)

\* results[k] of the pipeline; exec resolves when every item has one.
PipelineResult(i, reply, q) ==
  /\ queue' = q
  /\ results' = [k \in DOMAIN runnable |->
                  IF runnable[k] = i THEN reply
                  ELSE IF k \in DOMAIN results THEN results[k] ELSE "none"]
  /\ phase' = IF LiveIn(q) THEN phase ELSE "walk"

\* catch (err) of checkBatch: one policy for all items, whatever they had.  What
\* the abandoned resolves still do nobody reads.
Abort(q) ==
  /\ queue' = [k \in DOMAIN q |-> [q[k] EXCEPT !.live = FALSE]]
  /\ errors' = errors + 1
  /\ phase' = "done"
  /\ answer' = IF FailOpen THEN "entries" ELSE "unavailable"
  /\ entries' = IF FailOpen THEN [i \in Items |-> "degraded"] ELSE entries
  /\ UNCHANGED <<runnable, results, decided, shaKnown>>

-----------------------------------------------------------------------------
(***************************************************************************)
(* The walk over the results, from one await to the next: results[k] of a  *)
(* NOSCRIPT is replaced by a run of its own, any other error ends it.      *)
(***************************************************************************)
Next1 == decided + 1

SkipNoScript ==
  /\ phase = "walk" /\ decided < Len(results) /\ results[Next1] = "noscript"
  /\ Abort(queue)

RerunAll ==
  /\ phase = "walk" /\ decided < Len(results) /\ results[Next1] = "noscript"
  /\ phase' = "shas"
  /\ queue' = Append(queue, Command(runnable[Next1], "load"))
  /\ results' = <<>> /\ decided' = 0
  /\ UNCHANGED <<runnable, entries, shaKnown, answer, errors>>

Rerun ==
  /\ phase = "walk" /\ decided < Len(results) /\ results[Next1] = "noscript"
  /\ phase' = "rerun"
  /\ queue' = Append(queue, Command(runnable[Next1], IF shaKnown THEN "eval" ELSE "load"))
  /\ UNCHANGED <<runnable, entries, results, decided, shaKnown, answer, errors>>

Throw ==
  /\ phase = "walk" /\ decided < Len(results) /\ results[Next1] = "error"
  /\ Abort(queue)

Accept ==
  /\ phase = "walk" /\ decided < Len(results) /\ results[Next1] \in Decisions
  /\ decided' = Next1
  /\ UNCHANGED <<phase, queue, runnable, entries, results, shaKnown, answer, errors>>

EntriesByPosition ==
  [i \in Items |-> IF i \in DOMAIN results THEN results[i] ELSE entries[i]]

\* entries[r.index] = decisions[k]
EntriesByIndex ==
  [i \in Items |-> IF \E k \in DOMAIN runnable : runnable[k] = i
                   THEN results[CHOOSE k \in DOMAIN runnable : runnable[k] = i]
                   ELSE entries[i]]

Return ==
  /\ phase = "walk" /\ decided = Len(results)
  /\ entries' = EntriesByIndex
  /\ answer' = "entries"
  /\ phase' = "done"
  /\ UNCHANGED <<queue, runnable, results, decided, shaKnown, errors>>

Walk ==
  /\ Rerun \/ Throw \/ Accept \/ Return
  /\ UNCHANGED <<kind, warm, redis, verdict, flushes, timeouts>>

\* The run of its own: LuaScripts.run for the item at Next1.
RerunReply(c, q) ==
  \/ /\ c.cmd \in {"load", "reload"}
     /\ shaKnown' = TRUE
     /\ queue' = Append(q, Command(c.item, IF c.cmd = "load" THEN "eval" ELSE "reeval"))
     /\ UNCHANGED <<phase, runnable, entries, results, decided, answer, errors>>
  \/ /\ c.cmd = "eval" /\ c.reply = "noscript"
     /\ queue' = Append(q, Command(c.item, "reload"))
     /\ UNCHANGED <<phase, runnable, entries, results, decided, shaKnown, answer, errors>>
  \/ /\ c.cmd = "reeval" /\ c.reply = "noscript"
     /\ Abort(q)
  \/ /\ c.reply \in Decisions
     /\ queue' = q
     /\ results' = [results EXCEPT ![Next1] = c.reply]
     /\ phase' = "walk"
     /\ UNCHANGED <<runnable, entries, decided, shaKnown, answer, errors>>

-----------------------------------------------------------------------------
UnmeteredReply == IF ~redis.scripts THEN "noscript" ELSE "allowed"

\* Redis executes the next command.
ScriptReply == IF ~redis.scripts THEN "noscript"
               ELSE IF redis.spent < Limit THEN "allowed" ELSE "denied"

ReplyTo(c) ==
  CASE c.cmd = "get"  -> "hit"
    [] c.cmd = "hget" -> IF kind[c.item] = "badRule" THEN "nil" ELSE "hit"
    [] c.cmd \in {"load", "reload"} -> "ok"
    [] c.cmd \in {"eval", "reeval"} -> ScriptReply

Execute ==
  \E k \in DOMAIN queue :
    LET c == queue[k]  reply == ReplyTo(c) IN
      /\ c.reply = "none"
      /\ \A j \in 1..(k - 1) : queue[j].reply # "none"
      /\ queue' = [queue EXCEPT ![k].reply = reply]
      /\ redis' = [redis EXCEPT !.scripts = @ \/ c.cmd \in {"load", "reload"},
                                !.spent = IF reply = "allowed" THEN @ + 1 ELSE @]
      /\ verdict' = IF reply \in Decisions THEN [verdict EXCEPT ![c.item] = reply]
                    ELSE verdict
      /\ UNCHANGED <<kind, warm, phase, runnable, entries, results, decided,
                     shaKnown, answer, errors, flushes, timeouts>>

\* The reply of the oldest command reaches whoever awaits it.
Deliver ==
  /\ queue # <<>> /\ Head(queue).reply # "none"
  /\ LET c == Head(queue)  q == Tail(queue) IN
       \/ /\ ~c.live
          /\ queue' = q
          /\ UNCHANGED <<phase, runnable, entries, results, decided, shaKnown, answer, errors>>
       \/ /\ c.live /\ phase = "auth"
          /\ Authenticated(q)
          /\ UNCHANGED <<results, decided, shaKnown, answer, errors>>
       \/ /\ c.live /\ phase = "resolve"
          /\ RuleArrives(c.item, c.reply, q)
          /\ UNCHANGED <<results, decided, shaKnown, answer, errors>>
       \/ /\ c.live /\ phase = "shas"
          /\ shaKnown' = TRUE
          /\ IF LiveIn(q) THEN phase' = phase /\ queue' = q
             ELSE phase' = "pipeline" /\ queue' = q \o Commands(runnable, "eval")
          /\ UNCHANGED <<runnable, entries, results, decided, answer, errors>>
       \/ /\ c.live /\ phase = "pipeline"
          /\ PipelineResult(c.item, c.reply, q)
          /\ UNCHANGED <<runnable, entries, decided, shaKnown, answer, errors>>
       \/ /\ c.live /\ phase = "rerun"
          /\ RerunReply(c, q)
  /\ UNCHANGED <<kind, warm, redis, verdict, flushes, timeouts>>

TimeoutOfPipeline ==
  \E k \in DOMAIN queue :
    /\ queue[k].live /\ phase = "pipeline"
    /\ timeouts' = timeouts + 1
    /\ PipelineResult(queue[k].item, "error", [queue EXCEPT ![k].live = FALSE])
    /\ UNCHANGED <<runnable, entries, decided, shaKnown, answer, errors>>
    /\ UNCHANGED <<kind, warm, redis, verdict, flushes>>

\* commandTimeout of one command: in the pipeline it is that item's result, any
\* other await ends the batch.
Timeout ==
  \E k \in DOMAIN queue :
    LET q == [queue EXCEPT ![k].live = FALSE] IN
      /\ queue[k].live
      /\ timeouts' = timeouts + 1
      /\ \/ /\ phase = "pipeline"
            /\ PipelineResult(queue[k].item, "error", q)
            /\ UNCHANGED <<runnable, entries, decided, shaKnown, answer, errors>>
         \/ phase # "pipeline" /\ Abort(q)
      /\ UNCHANGED <<kind, warm, redis, verdict, flushes>>

FlushScripts ==
  /\ flushes < MaxFlushes /\ redis.scripts
  /\ flushes' = flushes + 1
  /\ redis' = [redis EXCEPT !.scripts = FALSE]
  /\ UNCHANGED <<kind, warm, phase, queue, runnable, entries, results, decided,
                 shaKnown, answer, errors, verdict, timeouts>>

Next == Walk \/ Execute \/ Deliver \/ Timeout \/ FlushScripts

Spec == Init /\ [][Next]_vars

\* Continuations run and timers fire.
FairSpec == Spec /\ WF_vars(Walk) /\ WF_vars(Timeout)

-----------------------------------------------------------------------------
Queued == [item: Items \cup {Service},
           cmd: {"get", "hget", "load", "eval", "reload", "reeval"}, live: BOOLEAN,
           reply: {"none", "hit", "nil", "ok", "noscript"} \cup Decisions]

\* Every variable has its type.
TypeOK ==
  /\ kind \in [Items -> Kinds] /\ warm \in [Items -> BOOLEAN]
  /\ phase \in {"auth", "resolve", "shas", "pipeline", "walk", "rerun", "done"}
  /\ queue \in Seq(Queued)
  /\ runnable \in Seq(Items)
  /\ entries \in [Items -> {"none", "degraded"} \cup ClientErrors \cup Decisions]
  /\ results \in Seq({"none", "error", "noscript"} \cup Decisions)
  /\ decided \in 0..Len(results)
  /\ redis \in [scripts: BOOLEAN, spent: 0..Limit]
  /\ shaKnown \in BOOLEAN
  /\ answer \in {"none", "entries", "unavailable"}
  /\ errors \in {0, 1}
  /\ verdict \in [Items -> {"none"} \cup Decisions]
  /\ flushes \in Nat /\ timeouts \in Nat

\* "Results return positionally": unless the batch is degraded, every entry is
\* that of its own item, the one the script decided for it or the client error
\* the item deserves, although items are resolved and run in another order.
Positional ==
  answer = "entries" /\ errors = 0 =>
    \A i \in Items : entries[i] = CASE kind[i] = "good"    -> verdict[i]
                                    [] kind[i] = "badRule" -> "unknownRule"
                                    [] OTHER               -> "invalid"

\* No more items are allowed than the key has tokens for, and an item spends one
\* token at most, the re-run after NOSCRIPT included.
SpendsOnce ==
  /\ redis.spent <= Limit
  /\ redis.spent = Cardinality({i \in Items : verdict[i] = "allowed"})

\* A single loss of the scripts, at any moment of the batch, is not noticed.
ScriptLossHidden == timeouts = 0 /\ flushes <= 1 => errors = 0

\* With Redis hung or slow, every batch is answered.
Answered == <>(answer # "none")

\* "Client errors are never masked by fail-open": the client error found for an
\* item is what the item is answered with, also when another item meets a
\* backend error later.
NeverMasked ==
  [][\A i \in Items : entries[i] \in ClientErrors => entries'[i] = entries[i]]_vars
=============================================================================
