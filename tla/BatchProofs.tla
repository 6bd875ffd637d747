----------------------------- MODULE BatchProofs -----------------------------
(***************************************************************************)
(* For a batch of any size, any kinds of items and any number of slow      *)
(* commands and lost scripts: every entry is that of its own item, no item *)
(* is charged twice, and one loss of the scripts is not noticed.           *)
(***************************************************************************)
EXTENDS Batch, Integers, FiniteSetTheorems, WellFoundedInduction, TLAPS

USE BatchAssumption

-----------------------------------------------------------------------------
(***************************************************************************)
(* The inductive invariant.                                                *)
(***************************************************************************)
InRun(i) == \E k \in DOMAIN runnable : runnable[k] = i

AskedFor(i) == \E k \in DOMAIN queue : queue[k].item = i

\* What an item is answered with that no script decides.
Deserved(i) == CASE kind[i] = "good"    -> "none"
                 [] kind[i] = "badRule" -> "unknownRule"
                 [] OTHER               -> "invalid"

\* resolve is done with item i.
Settled(i) == (kind[i] = "good" <=> InRun(i)) /\ entries[i] = Deserved(i)

\* The result of the k-th item that runs, "none" before it is there.
Told(k) == IF k \in DOMAIN results THEN results[k] ELSE "none"

RuleReply(k) == IF k = "badRule" THEN "nil" ELSE "hit"

\* What a reply in the pipe says, of the item's verdict and of the scripts: an
\* EVALSHA that met no script met a loss after a load, the one after a reload a second.
CommandOK(c, kd, scripts, losses, sha, v) ==
  /\ c.cmd = "get" <=> c.item = Service
  /\ c.cmd = "get" => c.reply \in {"none", "hit"}
  /\ c.cmd = "hget" => c.reply \in {"none", RuleReply(kd[c.item])}
  /\ c.cmd \in {"load", "reload"} => c.reply \in {"none", "ok"}
  /\ c.cmd = "load" /\ c.reply = "ok" => scripts \/ losses >= 1
  /\ c.cmd \in {"reload", "reeval"} => losses >= 1
  /\ c.cmd = "reload" /\ c.reply = "ok" => scripts \/ losses >= 2
  /\ c.cmd \in {"eval", "reeval"} =>
       /\ sha /\ c.reply \in {"none", "noscript"} \cup Decisions
       /\ c.reply \in {"none", "noscript"} => v[c.item] = "none"
       /\ c.reply \in Decisions => v[c.item] = c.reply
  /\ c.cmd = "eval" /\ c.reply = "noscript" => losses >= 1
  /\ c.cmd = "reeval" /\ c.reply = "none" => scripts \/ losses >= 2
  /\ c.cmd = "reeval" /\ c.reply = "noscript" => losses >= 2

\* A pipe all of whose commands are in order; no item has two in it.
QueueOK(q, sha) ==
  /\ q \in Seq(Queued)
  /\ \A k \in DOMAIN q : CommandOK(q[k], kind, redis.scripts, flushes, sha, verdict)
  /\ \A j, k \in DOMAIN q : q[j].item = q[k].item => j = k

PipeOK ==
  /\ QueueOK(queue, shaKnown)
  /\ shaKnown => redis.scripts \/ flushes >= 1

\* No item has two places in the run.
Single == \A j, k \in DOMAIN runnable : runnable[j] = runnable[k] => j = k

CommandOf == [auth |-> "get", resolve |-> "hget", shas |-> "load"]

\* Before the pipeline: everything in the pipe is awaited, and nothing is decided.
Begun ==
  phase \in {"auth", "resolve", "shas"} =>
    /\ \A k \in DOMAIN queue : queue[k].live /\ queue[k].cmd = CommandOf[phase]
    /\ results = <<>> /\ decided = 0 /\ \A i \in Items : verdict[i] = "none"
    /\ phase = "auth" => Len(queue) = 1

Resolving ==
  phase = "resolve" =>
    \A i \in Items : IF AskedFor(i)
                     THEN entries[i] = "none" /\ ~InRun(i) /\ kind[i] # "noIdentifier"
                     ELSE Settled(i)

AllSettled == phase \in {"shas", "pipeline", "walk", "rerun"} => \A i \in Items : Settled(i)

\* The pipeline waits for exactly the items that have no result.
Piped ==
  phase = "pipeline" =>
    /\ decided = 0
    /\ \A j \in DOMAIN queue : queue[j].live =>
         /\ queue[j].cmd = "eval"
         /\ \E k \in DOMAIN runnable : runnable[k] = queue[j].item /\ Told(k) = "none"
    /\ \A k \in DOMAIN runnable : Told(k) = "none" =>
         \E j \in DOMAIN queue : queue[j].live /\ queue[j].item = runnable[k]

\* From the pipeline on: a command nobody awaits is one whose item has an error as its
\* result; a verdict that is a result stands; NOSCRIPT decided nothing.
ResultsOK ==
  phase \in {"pipeline", "walk", "rerun"} =>
    /\ DOMAIN results \subseteq DOMAIN runnable
    /\ \A j \in DOMAIN queue : ~queue[j].live =>
         \E k \in DOMAIN results : runnable[k] = queue[j].item /\ results[k] = "error"
    /\ \A k \in DOMAIN results :
         /\ results[k] \in Decisions => verdict[runnable[k]] = results[k]
         /\ results[k] = "error" => timeouts >= 1
         /\ results[k] = "noscript" /\ (phase = "rerun" => k # Next1) =>
              verdict[runnable[k]] = "none"

Walking ==
  phase \in {"walk", "rerun"} =>
    /\ DOMAIN results = DOMAIN runnable
    /\ \A k \in DOMAIN results : results[k] # "none" /\ (k <= decided => results[k] \in Decisions)
    /\ phase = "walk" => \A j \in DOMAIN queue : ~queue[j].live

\* The run of its own of one item: its command is the only one awaited.
Rerunning ==
  phase = "rerun" =>
    /\ decided < Len(results) /\ results[Next1] = "noscript"
    /\ \E j \in DOMAIN queue :
         /\ queue[j].live /\ queue[j].item = runnable[Next1]
         /\ queue[j].cmd \in {"load", "reload", "eval", "reeval"}
         /\ queue[j].cmd \in {"load", "reload"} => verdict[runnable[Next1]] = "none"
         /\ \A k \in DOMAIN queue : queue[k].live => k = j

Ended ==
  /\ phase # "done" => answer = "none" /\ errors = 0
  /\ phase = "done" => answer # "none" /\ \A j \in DOMAIN queue : ~queue[j].live
  /\ phase = "done" /\ errors = 0 =>
       /\ queue = <<>>
       /\ \A i \in Items : entries[i] = IF kind[i] = "good" THEN verdict[i] ELSE Deserved(i)
  /\ errors = 1 => timeouts >= 1 \/ flushes >= 2

\* Only a rule that exists can be cached.
Cold == \A i \in Items : kind[i] \in {"badRule", "noIdentifier"} => ~warm[i]

BatchInv ==
  /\ TypeOK /\ SpendsOnce /\ Cold
  /\ PipeOK /\ Single /\ Begun /\ Resolving /\ AllSettled
  /\ Piped /\ ResultsOK /\ Walking /\ Rerunning /\ Ended

-----------------------------------------------------------------------------
(***************************************************************************)
(* Sequences of commands, and items in order.                              *)
(***************************************************************************)
LEMMA Popped ==
  ASSUME NEW S, NEW q \in Seq(S), q # <<>>
  PROVE  /\ Tail(q) \in Seq(S) /\ Head(q) = q[1] /\ 1 \in DOMAIN q
         /\ \A k \in DOMAIN Tail(q) : k + 1 \in DOMAIN q /\ k + 1 # 1 /\ Tail(q)[k] = q[k + 1]
         /\ \A j \in DOMAIN q : j # 1 => \E k \in DOMAIN Tail(q) : j = k + 1
<1>1. /\ Len(q) \in Nat \ {0} /\ DOMAIN q = 1..Len(q)
      /\ Tail(q) \in Seq(S) /\ Len(Tail(q)) = Len(q) - 1 /\ DOMAIN Tail(q) = 1..(Len(q) - 1)
  OBVIOUS
<1>2. \A k \in 1..(Len(q) - 1) : Tail(q)[k] = q[k + 1]
  BY <1>1
<1>3. ASSUME NEW j \in DOMAIN q, j # 1 PROVE \E k \in DOMAIN Tail(q) : j = k + 1
  <2>1. j - 1 \in DOMAIN Tail(q) /\ j = (j - 1) + 1
    BY <1>1, <1>3
  <2> QED BY <2>1
<1> QED BY <1>1, <1>2, <1>3

LEMMA Added ==
  ASSUME NEW S, NEW q \in Seq(S), NEW x \in S
  PROVE  /\ Append(q, x) \in Seq(S) /\ DOMAIN Append(q, x) = DOMAIN q \cup {Len(q) + 1}
         /\ Len(q) + 1 \notin DOMAIN q /\ Append(q, x)[Len(q) + 1] = x
         /\ \A k \in DOMAIN q : Append(q, x)[k] = q[k]
<1>1. Len(q) \in Nat /\ DOMAIN q = 1..Len(q) /\ Len(Append(q, x)) = Len(q) + 1 /\ Append(q, x) \in Seq(S)
  OBVIOUS
<1>2. DOMAIN Append(q, x) = 1..(Len(q) + 1)
  BY <1>1
<1>3. 1..(Len(q) + 1) = (1..Len(q)) \cup {Len(q) + 1} /\ Len(q) + 1 \notin 1..Len(q)
  BY <1>1
<1> QED BY <1>1, <1>2, <1>3

Cmds == {"get", "hget", "load", "eval", "reload", "reeval"}

LEMMA NewCommand ==
  ASSUME NEW i \in Items \cup {Service}, NEW cmd \in Cmds
  PROVE  /\ Command(i, cmd) \in Queued /\ Command(i, cmd).item = i /\ Command(i, cmd).cmd = cmd
         /\ Command(i, cmd).live = TRUE /\ Command(i, cmd).reply = "none"
BY DEF Command, Queued, Cmds

LEMMA NewCommands ==
  ASSUME NEW is \in Seq(Items), NEW cmd \in Cmds
  PROVE  /\ Commands(is, cmd) \in Seq(Queued) /\ DOMAIN Commands(is, cmd) = DOMAIN is
         /\ \A k \in DOMAIN is : Commands(is, cmd)[k] = Command(is[k], cmd) /\ is[k] \in Items
         /\ <<>> \o Commands(is, cmd) = Commands(is, cmd)
<1>6. \A k \in DOMAIN is : is[k] \in Items
  OBVIOUS
<1>1. \A k \in DOMAIN is : is[k] \in Items /\ Command(is[k], cmd) \in Queued
  BY <1>6, NewCommand
<1>2. DOMAIN is = 1..Len(is) /\ Len(is) \in Nat
  OBVIOUS
<1>3. Commands(is, cmd) \in [1..Len(is) -> Queued]
  BY <1>1, <1>2 DEF Commands
<1>4. Commands(is, cmd) \in Seq(Queued)
  BY <1>2, <1>3
<1>5. <<>> \o Commands(is, cmd) = Commands(is, cmd)
  BY <1>4
<1> QED BY <1>1, <1>2, <1>4, <1>5 DEF Commands

Sorted(S, q) == q \in [1..Cardinality(S) -> S] /\ \A j, k \in DOMAIN q : j < k => q[j] < q[k]

\* Every set of items can be put in order: by the least n such that a set of numbers up
\* to n could not.
LEMMA SortedExists ==
  ASSUME NEW n \in Nat
  PROVE  \A S \in SUBSET (1..n) : \E q : Sorted(S, q)
<1> DEFINE Bad == {m \in Nat : \E S \in SUBSET (1..m) : \A q : ~Sorted(S, q)}
<1>1. SUFFICES ASSUME Bad # {} PROVE FALSE
  OBVIOUS
<1>2. PICK m \in Bad : \A y \in Bad : ~(<<y, m>> \in OpToRel(<, Nat))
  <2>1. Bad \subseteq Nat
    OBVIOUS
  <2> HIDE DEF Bad
  <2> QED BY <1>1, <2>1, NatLessThanWellFounded, WFMin
<1>3. m \in Nat /\ \A y \in Bad : ~(y < m)
  BY <1>2 DEF OpToRel
<1>4. PICK S \in SUBSET (1..m) : \A q : ~Sorted(S, q)
  BY <1>2
<1>5. m # 0
  <2>1. ASSUME m = 0 PROVE Sorted(S, <<>>)
    <3>1. S = {}
      BY <2>1, <1>4
    <3>2. Cardinality(S) = 0
      BY <3>1, FS_EmptySet
    <3> QED BY <3>1, <3>2 DEF Sorted
  <2> QED BY <1>4, <2>1
<1>6. m - 1 \in Nat /\ m - 1 \notin Bad /\ m \in 1..m
  BY <1>3, <1>5
<1>7. \A T \in SUBSET (1..(m - 1)) : \E q : Sorted(T, q)
  BY <1>6
<1> HIDE DEF Bad
<1>8. m \in S
  <2>1. m \notin S => S \subseteq 1..(m - 1)
    BY <1>3, <1>4
  <2> QED BY <1>4, <1>7, <2>1
<1> DEFINE T == S \ {m}
<1>9. T \in SUBSET (1..(m - 1))
  BY <1>3, <1>4
<1>10. PICK q : Sorted(T, q)
  BY <1>7, <1>9
<1>11. /\ IsFiniteSet(T) /\ IsFiniteSet(S)
       /\ Cardinality(S) = Cardinality(T) + 1 /\ Cardinality(T) \in Nat
  <2>1. IsFiniteSet(1..m)
    BY <1>3, FS_Interval
  <2>2. IsFiniteSet(S) /\ IsFiniteSet(T)
    BY <2>1, <1>4, FS_Subset
  <2>3. Cardinality(T) = Cardinality(S) - 1 /\ Cardinality(S) \in Nat /\ Cardinality(T) \in Nat
    BY <1>8, <2>2, FS_RemoveElement, FS_CardinalityType
  <2> QED BY <2>2, <2>3
<1>12. q \in [1..Cardinality(T) -> T] /\ \A j, k \in 1..Cardinality(T) : j < k => q[j] < q[k]
  BY <1>10 DEF Sorted
<1> DEFINE n1 == Cardinality(T) + 1
           r == [k \in 1..n1 |-> IF k = n1 THEN m ELSE q[k]]
<1>13. \A k \in 1..n1 : k # n1 => k \in 1..Cardinality(T) /\ r[k] = q[k] /\ q[k] \in T
  <2>1. \A k \in 1..n1 : k # n1 => k \in 1..Cardinality(T)
    <3> HIDE DEF T
    <3> QED BY <1>11
  <2>2. \A k \in 1..Cardinality(T) : q[k] \in T
    <3> HIDE DEF T
    <3> QED BY <1>12
  <2> HIDE DEF T
  <2> QED BY <2>1, <2>2
<1>14. r[n1] = m
  BY <1>11
<1>15. \A t \in T : t < m /\ t \in S
  BY <1>3, <1>9
<1>16. r \in [1..n1 -> S]
  BY <1>8, <1>13, <1>14, <1>15
<1>17. \A j, k \in 1..n1 : j < k => r[j] < r[k]
  <2> HIDE DEF T, r
  <2> SUFFICES ASSUME NEW j \in 1..n1, NEW k \in 1..n1, j < k PROVE r[j] < r[k]
    OBVIOUS
  <2>1. j # n1
    BY <1>11
  <2>2. CASE k = n1
    BY <1>13, <1>14, <1>15, <2>1, <2>2
  <2>3. CASE k # n1
    BY <1>12, <1>13, <2>1, <2>3
  <2> QED BY <2>2, <2>3
<1>18. Sorted(S, r)
  <2> HIDE DEF T, r
  <2> QED BY <1>11, <1>16, <1>17 DEF Sorted
<1> QED BY <1>4, <1>18

LEMMA Ordered ==
  ASSUME NEW S \in SUBSET Items
  PROVE  /\ InOrder(S) \in Seq(Items)
         /\ \A j, k \in DOMAIN InOrder(S) : InOrder(S)[j] = InOrder(S)[k] => j = k
         /\ \A i : (\E k \in DOMAIN InOrder(S) : InOrder(S)[k] = i) <=> i \in S
<1>1. S \in SUBSET (1..Size) /\ Size \in Nat
  BY DEF Items
<1>2. \E q : Sorted(S, q)
  BY <1>1, SortedExists
<1>3. Sorted(S, InOrder(S))
  BY <1>2 DEF Sorted, InOrder
<1> DEFINE q == InOrder(S)
           n == Cardinality(S)
<1>4. IsFiniteSet(S) /\ n \in Nat
  <2>1. IsFiniteSet(1..Size)
    <3>1. 1 \in Int /\ Size \in Int
      BY <1>1
    <3> QED BY <3>1, FS_Interval
  <2>2. IsFiniteSet(S)
    BY <1>1, <2>1, FS_Subset
  <2> QED BY <2>2, FS_CardinalityType
<1>5. q \in [1..n -> S] /\ \A j, k \in 1..n : j < k => q[j] < q[k]
  BY <1>3 DEF Sorted
<1> HIDE DEF q
<1>6. \A j, k \in 1..n : q[j] = q[k] => j = k
  <2> SUFFICES ASSUME NEW j \in 1..n, NEW k \in 1..n, q[j] = q[k] PROVE j = k
    OBVIOUS
  <2>3. q[j] \in S /\ q[k] \in S
    BY <1>5
  <2>5. \A i \in 1..Size : i \in Int
    BY <1>1
  <2>1. q[j] \in Int /\ q[k] \in Int
    BY Zenon, <1>1, <2>3, <2>5
  <2>2. ~(j < k) /\ ~(k < j)
    BY <1>5, <2>1
  <2>4. j \in Int /\ k \in Int
    BY <1>4
  <2> QED BY <2>4, <2>2
<1>7. q \in Injection(1..n, S)
  BY <1>5, <1>6 DEF Injection, IsInjective
<1>8. Cardinality(1..n) = n /\ IsFiniteSet(1..n)
  BY <1>4, FS_Interval
<1>9. q \in Surjection(1..n, S)
  BY <1>4, <1>7, <1>8, FS_Injection
<1>10. \A i : (\E k \in 1..n : q[k] = i) <=> i \in S
  BY <1>5, <1>9 DEF Surjection
<1>11. q \in Seq(Items) /\ DOMAIN q = 1..n
  BY <1>4, <1>5
<1> QED BY <1>6, <1>10, <1>11 DEF q

-----------------------------------------------------------------------------
(***************************************************************************)
(* A pipe that is in order stays so.                                       *)
(***************************************************************************)
LEMMA OldestTaken ==
  ASSUME NEW q, NEW sha \in BOOLEAN, QueueOK(q, sha), q # <<>>
  PROVE  /\ QueueOK(Tail(q), sha)
         /\ Head(q) = q[1] /\ Head(q) \in Queued /\ 1 \in DOMAIN q
         /\ CommandOK(Head(q), kind, redis.scripts, flushes, sha, verdict)
         /\ \A k \in DOMAIN Tail(q) : /\ k + 1 \in DOMAIN q /\ Tail(q)[k] = q[k + 1]
                                      /\ Tail(q)[k].item # Head(q).item
         /\ \A j \in DOMAIN q : j # 1 => \E k \in DOMAIN Tail(q) : q[j] = Tail(q)[k]
<1> DEFINE OK(c) == CommandOK(c, kind, redis.scripts, flushes, sha, verdict)
<1>1. /\ q \in Seq(Queued) /\ \A k \in DOMAIN q : OK(q[k])
      /\ \A j, k \in DOMAIN q : q[j].item = q[k].item => j = k
  BY DEF QueueOK
<1> HIDE DEF OK
<1>2. /\ Tail(q) \in Seq(Queued) /\ Head(q) = q[1] /\ 1 \in DOMAIN q
      /\ \A k \in DOMAIN Tail(q) : k + 1 \in DOMAIN q /\ k + 1 # 1 /\ Tail(q)[k] = q[k + 1]
      /\ \A j \in DOMAIN q : j # 1 => \E k \in DOMAIN Tail(q) : j = k + 1
  BY <1>1, Popped
<1>3. Head(q) \in Queued
  BY <1>1, <1>2
<1>4. \A k \in DOMAIN Tail(q) : OK(Tail(q)[k])
  BY <1>1, <1>2
<1>5. \A j, k \in DOMAIN Tail(q) : Tail(q)[j].item = Tail(q)[k].item => j = k
  <2> SUFFICES ASSUME NEW j \in DOMAIN Tail(q), NEW k \in DOMAIN Tail(q),
                      Tail(q)[j].item = Tail(q)[k].item
               PROVE  j = k
    OBVIOUS
  <2>1. j + 1 = k + 1
    BY <1>1, <1>2
  <2>2. j \in Int /\ k \in Int
    BY <1>2
  <2> QED BY <2>1, <2>2
<1>6. QueueOK(Tail(q), sha)
  BY <1>2, <1>4, <1>5 DEF QueueOK, OK
<1>7. \A k \in DOMAIN Tail(q) : Tail(q)[k].item # Head(q).item
  BY <1>1, <1>2
<1> QED BY <1>1, <1>2, <1>3, <1>6, <1>7 DEF OK

LEMMA FunctionIsSeq ==
  ASSUME NEW S, NEW n \in Nat, NEW f \in [1..n -> S] PROVE f \in Seq(S)
OBVIOUS

LEMMA DeadCommand ==
  ASSUME NEW c \in Queued
  PROVE  LET d == [c EXCEPT !.live = FALSE] IN
           /\ d \in Queued /\ d.item = c.item /\ d.cmd = c.cmd /\ d.reply = c.reply
           /\ d.live = FALSE
BY DEF Queued

LEMMA DeadOK ==
  ASSUME NEW c, NEW d, NEW kd, NEW scripts, NEW losses, NEW sha, NEW v,
         d.item = c.item, d.cmd = c.cmd, d.reply = c.reply,
         CommandOK(c, kd, scripts, losses, sha, v)
  PROVE  CommandOK(d, kd, scripts, losses, sha, v)
BY DEF CommandOK

\* What becomes of a pipe whose k-th command nobody awaits any more.
LEMMA OneDead ==
  ASSUME NEW q, NEW sha \in BOOLEAN, QueueOK(q, sha), NEW k \in DOMAIN q,
         NEW d \in Queued, d.item = q[k].item, d.cmd = q[k].cmd, d.reply = q[k].reply, ~d.live,
         NEW r, r = [q EXCEPT ![k] = d]
  PROVE  /\ QueueOK(r, sha) /\ DOMAIN r = DOMAIN q
         /\ \A j \in DOMAIN q : j # k => r[j] = q[j]
         /\ ~r[k].live
         /\ \A j \in DOMAIN q : r[j].item = q[j].item /\ r[j].cmd = q[j].cmd
<1> DEFINE OK(c) == CommandOK(c, kind, redis.scripts, flushes, sha, verdict)
<1>1. /\ q \in Seq(Queued) /\ \A j \in DOMAIN q : OK(q[j])
      /\ \A i, j \in DOMAIN q : q[i].item = q[j].item => i = j
  BY DEF QueueOK
<1>2. \A j \in DOMAIN q : q[j] \in Queued
  BY <1>1
<1>3. DOMAIN r = DOMAIN q /\ r[k] = d /\ \A j \in DOMAIN q : j # k => r[j] = q[j]
  BY <1>1
<1>4. /\ r[k] \in Queued /\ r[k].item = q[k].item /\ r[k].cmd = q[k].cmd
      /\ r[k].reply = q[k].reply /\ ~r[k].live
  BY <1>3
<1>5. r \in Seq(Queued)
  <2>1. DOMAIN q = 1..Len(q) /\ Len(q) \in Nat
    BY <1>1
  <2>2. q \in [1..Len(q) -> Queued] /\ k \in 1..Len(q)
    BY <1>1, <1>2, <2>1
  <2>4. r \in [1..Len(q) -> Queued]
    BY <2>2
  <2> QED BY <2>1, <2>4, FunctionIsSeq
<1>6. \A j \in DOMAIN q : r[j].item = q[j].item /\ r[j].cmd = q[j].cmd /\ r[j].reply = q[j].reply
  BY <1>3, <1>4
<1>7. \A j \in DOMAIN q : OK(r[j])
  BY <1>1, <1>6, DeadOK
<1>9. \A i, j \in DOMAIN r : r[i].item = r[j].item => i = j
  BY <1>1, <1>3, <1>6
<1> HIDE DEF OK
<1>8. QueueOK(r, sha)
  BY <1>3, <1>5, <1>7, <1>9 DEF QueueOK, OK
<1> QED BY <1>3, <1>4, <1>6, <1>8

LEMMA AllDead ==
  ASSUME NEW q, NEW sha \in BOOLEAN, QueueOK(q, sha),
         NEW r, r = [k \in DOMAIN q |-> [q[k] EXCEPT !.live = FALSE]]
  PROVE  QueueOK(r, sha) /\ \A k \in DOMAIN r : ~r[k].live
<1> DEFINE OK(c) == CommandOK(c, kind, redis.scripts, flushes, sha, verdict)
<1>1. /\ q \in Seq(Queued) /\ \A j \in DOMAIN q : OK(q[j])
      /\ \A i, j \in DOMAIN q : q[i].item = q[j].item => i = j
  BY DEF QueueOK
<1>2. \A j \in DOMAIN q : q[j] \in Queued
  BY <1>1
<1>3. DOMAIN r = DOMAIN q /\ \A j \in DOMAIN q : r[j] = [q[j] EXCEPT !.live = FALSE]
  OBVIOUS
<1>4. \A j \in DOMAIN q : /\ r[j] \in Queued /\ r[j].item = q[j].item /\ r[j].cmd = q[j].cmd
                          /\ r[j].reply = q[j].reply /\ r[j].live = FALSE
  BY <1>2, <1>3, DeadCommand
<1>5. r \in Seq(Queued)
  <2>1. DOMAIN q = 1..Len(q) /\ Len(q) \in Nat
    BY <1>1
  <2>2. r \in [1..Len(q) -> Queued]
    BY <1>3, <1>4, <2>1
  <2> QED BY <2>1, <2>2
<1>7. \A j \in DOMAIN q : OK(r[j])
  BY <1>1, <1>4, DeadOK
<1> HIDE DEF OK
<1>8. QueueOK(r, sha)
  BY <1>1, <1>3, <1>4, <1>5, <1>7 DEF QueueOK, OK
<1> QED BY <1>3, <1>4, <1>8

Absent(q, i) == \A k \in DOMAIN q : q[k].item # i

LEMMA OneMore ==
  ASSUME NEW q, NEW sha \in BOOLEAN, QueueOK(q, sha), NEW c \in Queued,
         CommandOK(c, kind, redis.scripts, flushes, sha, verdict),
         Absent(q, c.item)
  PROVE  /\ QueueOK(Append(q, c), sha) /\ DOMAIN Append(q, c) = DOMAIN q \cup {Len(q) + 1}
         /\ Len(q) + 1 \notin DOMAIN q /\ Append(q, c)[Len(q) + 1] = c
         /\ \A k \in DOMAIN q : Append(q, c)[k] = q[k]
<1> DEFINE OK(d) == CommandOK(d, kind, redis.scripts, flushes, sha, verdict)
           r == Append(q, c)
           n == Len(q) + 1
<1>1. /\ q \in Seq(Queued) /\ \A j \in DOMAIN q : OK(q[j])
      /\ \A i, j \in DOMAIN q : q[i].item = q[j].item => i = j
  BY DEF QueueOK
<1>2. OK(c)
  OBVIOUS
<1> HIDE DEF OK
<1>3. /\ r \in Seq(Queued) /\ DOMAIN r = DOMAIN q \cup {n}
      /\ n \notin DOMAIN q /\ r[n] = c /\ \A k \in DOMAIN q : r[k] = q[k]
  BY <1>1, Added
<1> HIDE DEF r, n
<1>4. \A k \in DOMAIN r : OK(r[k])
  BY <1>1, <1>2, <1>3
<1>5. \A j, k \in DOMAIN r : r[j].item = r[k].item => j = k
  BY <1>1, <1>3 DEF Absent
<1>6. QueueOK(r, sha)
  BY <1>3, <1>4, <1>5 DEF QueueOK, OK
<1> QED BY <1>3, <1>6 DEF r, n

\* A loaded script is known from then on.
LEMMA ShaLearnt ==
  ASSUME NEW q, NEW sha \in BOOLEAN, NEW known, sha => known, QueueOK(q, sha)
  PROVE  QueueOK(q, known)
<1>1. ASSUME NEW c, CommandOK(c, kind, redis.scripts, flushes, sha, verdict)
      PROVE  CommandOK(c, kind, redis.scripts, flushes, known, verdict)
  BY <1>1 DEF CommandOK
<1> QED BY <1>1 DEF QueueOK

LEMMA Empty == ASSUME NEW sha \in BOOLEAN PROVE QueueOK(<<>>, sha)
<1>1. <<>> \in Seq(Queued) /\ DOMAIN <<>> = {}
  OBVIOUS
<1> QED BY <1>1 DEF QueueOK

\* What a command that has just been written needs to be in order.
LEMMA FreshOK ==
  ASSUME NEW i \in Items, NEW cmd \in Cmds \ {"get"}, NEW kd, NEW scripts, NEW losses, NEW sha,
         NEW v, cmd \in {"eval", "reeval"} => sha /\ v[i] = "none",
         cmd \in {"reload", "reeval"} => losses >= 1,
         cmd = "reeval" => scripts \/ losses >= 2
  PROVE  CommandOK(Command(i, cmd), kd, scripts, losses, sha, v)
<1>1. i # Service /\ i \in Items \cup {Service} /\ cmd \in Cmds
  BY DEF Items, Service
<1>2. /\ Command(i, cmd).item = i /\ Command(i, cmd).cmd = cmd /\ Command(i, cmd).reply = "none"
  BY <1>1, NewCommand
<1> QED BY <1>1, <1>2 DEF CommandOK, Cmds

LEMMA FreshQueue ==
  ASSUME NEW is \in Seq(Items), NEW cmd \in {"hget", "load", "eval"}, NEW sha \in BOOLEAN,
         \A j, k \in DOMAIN is : is[j] = is[k] => j = k,
         cmd = "eval" => sha, \A i \in Items : verdict[i] = "none"
  PROVE  /\ QueueOK(Commands(is, cmd), sha) /\ DOMAIN Commands(is, cmd) = DOMAIN is
         /\ \A k \in DOMAIN is : /\ Commands(is, cmd)[k].item = is[k] /\ is[k] \in Items
                                 /\ Commands(is, cmd)[k].cmd = cmd
                                 /\ Commands(is, cmd)[k].live
         /\ <<>> \o Commands(is, cmd) = Commands(is, cmd)
<1> DEFINE q == Commands(is, cmd)
<1>1. cmd \in Cmds /\ cmd # "get"
  BY DEF Cmds
<1>2. /\ q \in Seq(Queued) /\ DOMAIN q = DOMAIN is /\ <<>> \o q = q
      /\ \A k \in DOMAIN is : q[k] = Command(is[k], cmd) /\ is[k] \in Items
  BY <1>1, NewCommands
<1> HIDE DEF q
<1>3. ASSUME NEW k \in DOMAIN is
      PROVE  q[k].item = is[k] /\ q[k].cmd = cmd /\ q[k].live = TRUE
  <2>1. is[k] \in Items \cup {Service} /\ q[k] = Command(is[k], cmd)
    BY <1>2
  <2>2. /\ Command(is[k], cmd).item = is[k] /\ Command(is[k], cmd).cmd = cmd
        /\ Command(is[k], cmd).live = TRUE
    BY <1>1, <2>1, NewCommand
  <2> QED BY <2>1, <2>2
<1>4. ASSUME NEW k \in DOMAIN is
      PROVE  CommandOK(q[k], kind, redis.scripts, flushes, sha, verdict)
  <2>1. is[k] \in Items /\ q[k] = Command(is[k], cmd) /\ verdict[is[k]] = "none"
    BY <1>2
  <2>2. CommandOK(Command(is[k], cmd), kind, redis.scripts, flushes, sha, verdict)
    BY <1>1, <2>1, FreshOK
  <2> QED BY <2>1, <2>2
<1>6. \A j, k \in DOMAIN q : q[j].item = q[k].item => j = k
  <2> SUFFICES ASSUME NEW j \in DOMAIN is, NEW k \in DOMAIN is, q[j].item = q[k].item PROVE j = k
    BY <1>2
  <2>1. is[j] = is[k]
    BY <1>3
  <2> QED BY <2>1
<1>5. QueueOK(q, sha)
  BY <1>2, <1>4, <1>6 DEF QueueOK
<1> QED BY <1>2, <1>3, <1>5 DEF q

-----------------------------------------------------------------------------
(***************************************************************************)
(* The steps.                                                              *)
(***************************************************************************)
LEMMA BatchInit == Init => BatchInv
<1> SUFFICES ASSUME Init PROVE BatchInv
  OBVIOUS
<1> DEFINE c == [item |-> Service, cmd |-> "get", live |-> TRUE, reply |-> "none"]
<1>1. queue = <<c>> /\ c \in Queued /\ DOMAIN queue = {1} /\ queue[1] = c /\ Len(queue) = 1
  BY DEF Init, Queued
<1>2. TypeOK
  <2>1. queue \in Seq(Queued)
    BY <1>1
  <2>2. <<>> \in Seq(Items) /\ <<>> \in Seq({"none", "error", "noscript"} \cup Decisions) /\ Len(<<>>) = 0
    OBVIOUS
  <2>3. /\ redis \in [scripts: BOOLEAN, spent: 0..Limit] /\ decided \in 0..Len(results)
        /\ flushes \in Nat /\ timeouts \in Nat
    BY <2>2 DEF Init
  <2>4. kind \in [Items -> Kinds] /\ warm \in [Items -> BOOLEAN] /\ verdict \in [Items -> {"none"} \cup Decisions]
    BY DEF Init
  <2>5. entries \in [Items -> {"none", "degraded"} \cup ClientErrors \cup Decisions]
    BY DEF Init
  <2> QED BY <2>1, <2>2, <2>3, <2>4, <2>5 DEF Init, TypeOK
<1>3. SpendsOnce
  <2>1. {i \in Items : verdict[i] = "allowed"} = {}
    BY DEF Init
  <2>2. redis.spent = 0
    BY DEF Init
  <2> QED BY <2>1, <2>2, FS_EmptySet DEF SpendsOnce
<1>4. PipeOK
  <2>1. CommandOK(c, kind, redis.scripts, flushes, shaKnown, verdict)
    BY DEF CommandOK
  <2>2. QueueOK(queue, shaKnown)
    BY <1>1, <1>2, <2>1 DEF QueueOK, TypeOK
  <2> QED BY <2>2 DEF PipeOK, Init
<1>5. Begun
  BY <1>1 DEF Init, Begun, CommandOf
<1> HIDE DEF c
<1>6. Cold /\ Single /\ Resolving /\ AllSettled /\ Piped /\ ResultsOK /\ Walking /\ Rerunning /\ Ended
  BY DEF Init, Cold, Single, Resolving, AllSettled, Piped, ResultsOK, Walking, Rerunning, Ended
<1> QED BY <1>2, <1>3, <1>4, <1>5, <1>6 DEF BatchInv

\* The steps of the process, which see Redis only through the pipe.
Quiet == UNCHANGED <<kind, warm, redis, verdict, flushes>>

LEMMA QuietQueue ==
  ASSUME Quiet, NEW q, NEW sha \in BOOLEAN, QueueOK(q, sha), queue' = q, shaKnown' = sha
  PROVE  QueueOK(queue, shaKnown)'
BY DEF Quiet, QueueOK

\* What such a step leaves to be shown.
LEMMA QuietStep ==
  ASSUME BatchInv, Quiet, NEW q, NEW sha \in BOOLEAN, QueueOK(q, sha),
         queue' = q, shaKnown' = sha, sha = shaKnown \/ redis.scripts \/ flushes >= 1
  PROVE  /\ SpendsOnce' /\ Cold' /\ PipeOK' /\ (queue \in Seq(Queued))' /\ (shaKnown \in BOOLEAN)'
         /\ (kind \in [Items -> Kinds])' /\ (warm \in [Items -> BOOLEAN])'
         /\ (redis \in [scripts: BOOLEAN, spent: 0..Limit])'
         /\ (verdict \in [Items -> {"none"} \cup Decisions])' /\ (flushes \in Nat)'
<1>1. QueueOK(queue, shaKnown)'
  BY QuietQueue
<1>2. (shaKnown => redis.scripts \/ flushes >= 1)'
  BY DEF BatchInv, PipeOK, Quiet
<1>3. PipeOK'
  BY <1>1, <1>2 DEF PipeOK
<1>4. SpendsOnce' /\ Cold'
  BY DEF BatchInv, SpendsOnce, Cold, Quiet
<1>5. (queue \in Seq(Queued))'
  BY <1>1 DEF QueueOK
<1>6. /\ (kind \in [Items -> Kinds])' /\ (warm \in [Items -> BOOLEAN])'
      /\ (redis \in [scripts: BOOLEAN, spent: 0..Limit])'
      /\ (verdict \in [Items -> {"none"} \cup Decisions])' /\ (flushes \in Nat)'
  BY DEF BatchInv, TypeOK, Quiet
<1> QED BY <1>3, <1>4, <1>5, <1>6

LEMMA AbortStep ==
  ASSUME BatchInv, Quiet, NEW q, QueueOK(q, shaKnown), Abort(q), phase # "done",
         timeouts' \in Nat, timeouts' >= 1 \/ flushes >= 2
  PROVE  BatchInv'
<1>1. shaKnown \in BOOLEAN /\ shaKnown' = shaKnown /\ runnable' = runnable
      /\ results' = results /\ decided' = decided
  BY DEF BatchInv, TypeOK, Abort
<1>2. PICK r : r = [k \in DOMAIN q |-> [q[k] EXCEPT !.live = FALSE]]
  OBVIOUS
<1>3. queue' = r /\ QueueOK(r, shaKnown) /\ \A k \in DOMAIN r : ~r[k].live
  <2>1. QueueOK(r, shaKnown) /\ \A k \in DOMAIN r : ~r[k].live
    BY <1>1, <1>2, AllDead
  <2>2. queue' = r
    BY <1>2 DEF Abort
  <2> QED BY <2>1, <2>2
<1>4. /\ SpendsOnce' /\ Cold' /\ PipeOK' /\ (queue \in Seq(Queued))' /\ (shaKnown \in BOOLEAN)'
      /\ (kind \in [Items -> Kinds])' /\ (warm \in [Items -> BOOLEAN])'
      /\ (redis \in [scripts: BOOLEAN, spent: 0..Limit])'
      /\ (verdict \in [Items -> {"none"} \cup Decisions])' /\ (flushes \in Nat)'
  BY <1>1, <1>3, QuietStep
<1>5. errors = 0 /\ errors' = 1 /\ phase' = "done" /\ answer' \in {"entries", "unavailable"}
  <2>1. errors = 0
    BY DEF BatchInv, Ended
  <2> QED BY <2>1 DEF Abort
<1>6. (entries \in [Items -> {"none", "degraded"} \cup ClientErrors \cup Decisions])'
  BY DEF BatchInv, TypeOK, Abort
<1>7. (runnable \in Seq(Items) /\ results \in Seq({"none", "error", "noscript"} \cup Decisions)
        /\ decided \in 0..Len(results))'
  BY <1>1 DEF BatchInv, TypeOK
<1>8. TypeOK'
  BY <1>4, <1>5, <1>6, <1>7 DEF TypeOK
<1>9. Ended'
  <2>1. errors' # 0 /\ answer' # "none"
    BY <1>5
  <2>2. timeouts' >= 1 \/ flushes' >= 2
    BY DEF Quiet
  <2> QED BY <1>3, <1>5, <2>1, <2>2 DEF Ended
<1>10. Single'
  BY <1>1 DEF BatchInv, Single
<1>11. Begun' /\ Resolving' /\ AllSettled' /\ Piped' /\ ResultsOK' /\ Walking' /\ Rerunning'
  BY <1>5 DEF Begun, Resolving, AllSettled, Piped, ResultsOK, Walking, Rerunning
<1> QED BY <1>4, <1>8, <1>9, <1>10, <1>11 DEF BatchInv
\* What the state of the walk says of a result that is NOSCRIPT.
LEMMA AtNoScript ==
  ASSUME BatchInv, phase = "walk", decided < Len(results), results[Next1] = "noscript"
  PROVE  /\ Next1 \in DOMAIN runnable /\ Next1 \in DOMAIN results /\ runnable[Next1] \in Items
         /\ verdict[runnable[Next1]] = "none"
         /\ \A k \in DOMAIN queue : ~queue[k].live /\ queue[k].item # runnable[Next1]
<1>1. decided \in 0..Len(results) /\ Len(results) \in Nat /\ DOMAIN results = 1..Len(results)
  BY DEF BatchInv, TypeOK
<1>2. Next1 \in DOMAIN results
  BY <1>1 DEF Next1
<1>3. Next1 \in DOMAIN runnable
  BY <1>2 DEF BatchInv, Walking
<1>4. runnable[Next1] \in Items
  BY <1>3 DEF BatchInv, TypeOK
<1>5. verdict[runnable[Next1]] = "none"
  BY <1>2 DEF BatchInv, ResultsOK
<1>6. ASSUME NEW k \in DOMAIN queue PROVE ~queue[k].live /\ queue[k].item # runnable[Next1]
  <2>1. ~queue[k].live
    BY DEF BatchInv, Walking
  <2>2. PICK j \in DOMAIN results : runnable[j] = queue[k].item /\ results[j] = "error"
    BY <2>1 DEF BatchInv, ResultsOK
  <2>3. j # Next1 /\ j \in DOMAIN runnable
    BY <2>2 DEF BatchInv, Walking
  <2>4. runnable[j] # runnable[Next1]
    BY <1>3, <2>3 DEF BatchInv, Single
  <2> QED BY <2>1, <2>2, <2>4
<1> QED BY <1>2, <1>3, <1>4, <1>5, <1>6

LEMMA RerunStep == ASSUME BatchInv, Rerun, Quiet, timeouts' = timeouts PROVE BatchInv'
<1> DEFINE i == runnable[Next1]
           cmd == IF shaKnown THEN "eval" ELSE "load"
           c == Command(i, cmd)
           n == Len(queue) + 1
<1>1. /\ phase = "walk" /\ decided < Len(results) /\ results[Next1] = "noscript"
      /\ phase' = "rerun" /\ queue' = Append(queue, c)
      /\ UNCHANGED <<runnable, entries, results, decided, shaKnown, answer, errors>>
  BY DEF Rerun
<1>2. /\ Next1 \in DOMAIN runnable /\ Next1 \in DOMAIN results /\ i \in Items
      /\ verdict[i] = "none"
      /\ \A k \in DOMAIN queue : ~queue[k].live /\ queue[k].item # i
  BY <1>1, AtNoScript
<1>3. QueueOK(queue, shaKnown) /\ shaKnown \in BOOLEAN
  BY DEF BatchInv, PipeOK, TypeOK
<1>4. cmd \in {"eval", "load"} /\ (cmd = "eval" => shaKnown)
  BY <1>3
<1> HIDE DEF i, cmd
<1>5. c \in Queued /\ c.item = i /\ c.cmd = cmd /\ c.live = TRUE
  <2>1. i \in Items \cup {Service} /\ cmd \in Cmds
    BY <1>2, <1>4 DEF Cmds
  <2> QED BY <2>1, NewCommand
<1>6. CommandOK(c, kind, redis.scripts, flushes, shaKnown, verdict)
  <2>1. cmd \in Cmds \ {"get"} /\ cmd \notin {"reload", "reeval"}
    BY <1>4 DEF Cmds
  <2>2. cmd \in {"eval", "reeval"} => shaKnown /\ verdict[i] = "none"
    BY <1>2, <1>4
  <2> QED BY <1>2, <2>1, <2>2, FreshOK
<1> HIDE DEF c
<1>7. /\ QueueOK(Append(queue, c), shaKnown) /\ DOMAIN Append(queue, c) = DOMAIN queue \cup {n}
      /\ n \notin DOMAIN queue /\ Append(queue, c)[n] = c
      /\ \A k \in DOMAIN queue : Append(queue, c)[k] = queue[k]
  <2>1. Absent(queue, c.item)
    BY <1>2, <1>5 DEF Absent
  <2> QED BY <1>3, <1>5, <1>6, <2>1, OneMore
<1> HIDE DEF n
<1>8. /\ DOMAIN queue' = DOMAIN queue \cup {n} /\ n \notin DOMAIN queue /\ queue'[n] = c
      /\ \A k \in DOMAIN queue : queue'[k] = queue[k]
  BY <1>1, <1>7
<1>9. /\ SpendsOnce' /\ Cold' /\ PipeOK' /\ (queue \in Seq(Queued))' /\ (shaKnown \in BOOLEAN)'
      /\ (kind \in [Items -> Kinds])' /\ (warm \in [Items -> BOOLEAN])'
      /\ (redis \in [scripts: BOOLEAN, spent: 0..Limit])'
      /\ (verdict \in [Items -> {"none"} \cup Decisions])' /\ (flushes \in Nat)'
  BY <1>1, <1>3, <1>7, QuietStep
<1>10. TypeOK'
  BY <1>1, <1>9 DEF BatchInv, TypeOK
<1>11. Next1' = Next1 /\ verdict' = verdict /\ kind' = kind
  BY <1>1 DEF Next1, Quiet
<1>12. Single' /\ Begun' /\ Resolving' /\ Piped'
  BY <1>1 DEF BatchInv, Single, Begun, Resolving, Piped
<1>13. AllSettled'
  BY <1>1, <1>11 DEF BatchInv, AllSettled, Settled, InRun, Deserved
<1>14. ResultsOK'
  <2>1. \A j \in DOMAIN queue' : ~queue'[j].live =>
          \E k \in DOMAIN results : runnable[k] = queue[j].item /\ results[k] = "error" /\ queue'[j] = queue[j]
    BY <1>1, <1>5, <1>8 DEF BatchInv, ResultsOK
  <2>2. \A k \in DOMAIN results :
          /\ results[k] \in Decisions => verdict[runnable[k]] = results[k]
          /\ results[k] = "error" => timeouts' >= 1
          /\ results[k] = "noscript" => verdict[runnable[k]] = "none"
    BY <1>1 DEF BatchInv, ResultsOK
  <2>3. DOMAIN results \subseteq DOMAIN runnable
    BY <1>1 DEF BatchInv, ResultsOK
  <2> QED BY <1>1, <1>11, <2>1, <2>2, <2>3 DEF ResultsOK
<1>15. Walking'
  BY <1>1 DEF BatchInv, Walking
<1>16. Rerunning'
  <2>1. queue'[n].live /\ queue'[n].item = runnable'[Next1'] /\ n \in DOMAIN queue'
    BY <1>1, <1>5, <1>8, <1>11 DEF i
  <2>2. queue'[n].cmd \in {"load", "reload", "eval", "reeval"} /\ verdict'[runnable'[Next1']] = "none"
    BY <1>1, <1>2, <1>4, <1>5, <1>8, <1>11 DEF i
  <2>3. \A k \in DOMAIN queue' : queue'[k].live => k = n
    BY <1>2, <1>8
  <2>4. decided' < Len(results') /\ results'[Next1'] = "noscript"
    BY <1>1, <1>11
  <2> QED BY <2>1, <2>2, <2>3, <2>4 DEF Rerunning
<1>17. Ended'
  BY <1>1 DEF BatchInv, Ended
<1> QED BY <1>9, <1>10, <1>12, <1>13, <1>14, <1>15, <1>16, <1>17 DEF BatchInv

LEMMA ThrowStep == ASSUME BatchInv, Throw, Quiet, timeouts' = timeouts PROVE BatchInv'
<1>1. phase = "walk" /\ decided < Len(results) /\ results[Next1] = "error" /\ Abort(queue)
  BY DEF Throw
<1>2. decided \in 0..Len(results) /\ Len(results) \in Nat /\ DOMAIN results = 1..Len(results)
  BY DEF BatchInv, TypeOK
<1>3. Next1 \in DOMAIN results
  BY <1>1, <1>2 DEF Next1
<1>4. timeouts >= 1 /\ timeouts \in Nat
  BY <1>1, <1>3 DEF BatchInv, ResultsOK, TypeOK
<1>5. QueueOK(queue, shaKnown) /\ phase # "done" /\ timeouts' >= 1 /\ timeouts' \in Nat
  BY <1>1, <1>4 DEF BatchInv, PipeOK
<1> QED BY <1>1, <1>5, AbortStep

LEMMA AcceptStep == ASSUME BatchInv, Accept, Quiet, timeouts' = timeouts PROVE BatchInv'
<1>1. /\ phase = "walk" /\ decided < Len(results) /\ results[Next1] \in Decisions
      /\ decided' = Next1
      /\ UNCHANGED <<phase, queue, runnable, entries, results, shaKnown, answer, errors>>
  BY DEF Accept
<1>2. decided \in 0..Len(results) /\ Len(results) \in Nat /\ DOMAIN results = 1..Len(results)
  BY DEF BatchInv, TypeOK
<1>3. QueueOK(queue, shaKnown) /\ shaKnown \in BOOLEAN
  BY DEF BatchInv, PipeOK, TypeOK
<1>9. /\ SpendsOnce' /\ Cold' /\ PipeOK' /\ (queue \in Seq(Queued))' /\ (shaKnown \in BOOLEAN)'
      /\ (kind \in [Items -> Kinds])' /\ (warm \in [Items -> BOOLEAN])'
      /\ (redis \in [scripts: BOOLEAN, spent: 0..Limit])'
      /\ (verdict \in [Items -> {"none"} \cup Decisions])' /\ (flushes \in Nat)'
  BY <1>1, <1>3, QuietStep
<1>4. decided' \in 0..Len(results') /\ decided' = decided + 1
  BY <1>1, <1>2 DEF Next1
<1>10. TypeOK'
  BY <1>1, <1>4, <1>9 DEF BatchInv, TypeOK
<1>11. verdict' = verdict /\ kind' = kind
  BY DEF Quiet
<1>12. Single' /\ Begun' /\ Resolving' /\ Piped' /\ Rerunning' /\ Ended'
  BY <1>1 DEF BatchInv, Single, Begun, Resolving, Piped, Rerunning, Ended
<1>13. AllSettled'
  BY <1>1, <1>11 DEF BatchInv, AllSettled, Settled, InRun, Deserved
<1>14. ResultsOK'
  BY <1>1, <1>11 DEF BatchInv, ResultsOK
<1>15. Walking'
  <2>1. \A k \in DOMAIN results : k <= decided' => k <= decided \/ k = Next1
    BY <1>2, <1>4 DEF Next1
  <2>2. \A k \in DOMAIN results : results[k] # "none" /\ (k <= decided' => results[k] \in Decisions)
    BY <1>1, <2>1 DEF BatchInv, Walking
  <2> QED BY <1>1, <2>2 DEF BatchInv, Walking
<1> QED BY <1>9, <1>10, <1>12, <1>13, <1>14, <1>15 DEF BatchInv

LEMMA ReturnStep == ASSUME BatchInv, Return, Quiet, timeouts' = timeouts PROVE BatchInv'
<1>1. /\ phase = "walk" /\ decided = Len(results) /\ entries' = EntriesByIndex
      /\ answer' = "entries" /\ phase' = "done"
      /\ UNCHANGED <<queue, runnable, results, decided, shaKnown, errors>>
  BY DEF Return
<1>2. Len(results) \in Nat /\ DOMAIN results = 1..Len(results) /\ DOMAIN results = DOMAIN runnable
  BY <1>1 DEF BatchInv, TypeOK, Walking
<1>3. \A k \in DOMAIN results : results[k] \in Decisions /\ verdict[runnable[k]] = results[k]
  <2>1. \A k \in DOMAIN results : k <= decided
    BY <1>1, <1>2
  <2> QED BY <1>1, <2>1 DEF BatchInv, Walking, ResultsOK
<1>4. queue = <<>>
  <2>1. ASSUME NEW j \in DOMAIN queue PROVE FALSE
    <3>1. \E k \in DOMAIN results : results[k] = "error"
      BY <1>1 DEF BatchInv, Walking, ResultsOK
    <3> QED BY <1>3, <3>1 DEF Decisions
  <2>2. queue \in Seq(Queued)
    BY DEF BatchInv, TypeOK
  <2> QED BY <2>1, <2>2
<1>5. ASSUME NEW i \in Items
      PROVE  entries'[i] = IF kind[i] = "good" THEN verdict[i] ELSE Deserved(i)
  <2>1. (kind[i] = "good" <=> InRun(i)) /\ entries[i] = Deserved(i)
    BY <1>1 DEF BatchInv, AllSettled, Settled
  <2>2. CASE InRun(i)
    <3>1. PICK k : k = CHOOSE m \in DOMAIN runnable : runnable[m] = i
      OBVIOUS
    <3>2. k \in DOMAIN runnable /\ runnable[k] = i
      BY <2>2, <3>1 DEF InRun
    <3>3. entries'[i] = results[k]
      BY <1>1, <2>2, <3>1 DEF EntriesByIndex, InRun
    <3> QED BY <1>2, <1>3, <2>1, <2>2, <3>2, <3>3
  <2>3. CASE ~InRun(i)
    BY <1>1, <2>1, <2>3 DEF EntriesByIndex, InRun
  <2> QED BY <2>2, <2>3
<1>6. QueueOK(queue, shaKnown) /\ shaKnown \in BOOLEAN
  BY DEF BatchInv, PipeOK, TypeOK
<1>9. /\ SpendsOnce' /\ Cold' /\ PipeOK' /\ (queue \in Seq(Queued))' /\ (shaKnown \in BOOLEAN)'
      /\ (kind \in [Items -> Kinds])' /\ (warm \in [Items -> BOOLEAN])'
      /\ (redis \in [scripts: BOOLEAN, spent: 0..Limit])'
      /\ (verdict \in [Items -> {"none"} \cup Decisions])' /\ (flushes \in Nat)'
  BY <1>1, <1>6, QuietStep
<1>10. TypeOK'
  <2>1. ASSUME NEW i \in Items
        PROVE  entries'[i] \in {"none", "degraded"} \cup ClientErrors \cup Decisions
    BY <1>5 DEF BatchInv, TypeOK, Deserved, ClientErrors, Decisions
  <2>2. (entries \in [Items -> {"none", "degraded"} \cup ClientErrors \cup Decisions])'
    BY <1>1, <2>1 DEF EntriesByIndex
  <2> QED BY <1>1, <1>9, <2>2 DEF BatchInv, TypeOK
<1>11. verdict' = verdict /\ kind' = kind
  BY DEF Quiet
<1>12. Single' /\ Begun' /\ Resolving' /\ AllSettled' /\ Piped' /\ ResultsOK' /\ Walking' /\ Rerunning'
  BY <1>1 DEF BatchInv, Single, Begun, Resolving, AllSettled, Piped, ResultsOK, Walking, Rerunning
<1>13. Ended'
  <2>1. errors = 0
    BY <1>1 DEF BatchInv, Ended
  <2>2. \A i \in Items : entries'[i] = IF kind'[i] = "good" THEN verdict'[i] ELSE Deserved(i)'
    BY <1>5, <1>11 DEF Deserved
  <2>3. DOMAIN queue' = {}
    BY <1>1, <1>4
  <2> QED BY <1>1, <1>4, <2>1, <2>2, <2>3 DEF Ended
<1> QED BY <1>9, <1>10, <1>12, <1>13 DEF BatchInv
\* What Redis answers the next command, and what it says of a command of item i.
LEMMA ReplyOK ==
  ASSUME NEW c \in Queued, NEW d, NEW reply, c.reply = "none", reply = ReplyTo(c),
         d = [c EXCEPT !.reply = reply], NEW scripts \in BOOLEAN,
         redis.scripts \/ c.cmd \in {"load", "reload"} => scripts,
         NEW v, reply \notin Decisions => v = verdict,
         reply \in Decisions /\ c.item \in Items => v[c.item] = reply,
         NEW sha \in BOOLEAN, sha => redis.scripts \/ flushes >= 1,
         CommandOK(c, kind, redis.scripts, flushes, sha, verdict)
  PROVE  /\ d \in Queued /\ d.item = c.item /\ d.cmd = c.cmd /\ d.live = c.live /\ d.reply = reply
         /\ CommandOK(d, kind, scripts, flushes, sha, v)
         /\ reply \in Decisions =>
              c.cmd \in {"eval", "reeval"} /\ c.item \in Items /\ verdict[c.item] = "none"
         /\ reply = "allowed" => redis.spent < Limit
<1>1. c.cmd \in Cmds /\ c.item \in Items \cup {Service} /\ (c.cmd # "get" => c.item \in Items)
  <2>1. c.cmd \in Cmds /\ c.item \in Items \cup {Service}
    BY DEF Queued, Cmds
  <2>2. c.item = Service <=> c.cmd = "get"
    BY DEF CommandOK
  <2> QED BY <2>1, <2>2
<1>2. /\ c.cmd = "get" => reply = "hit"
      /\ c.cmd = "hget" => reply = RuleReply(kind[c.item])
      /\ c.cmd \in {"load", "reload"} => reply = "ok"
      /\ c.cmd \in {"eval", "reeval"} =>
           reply = (IF ~redis.scripts THEN "noscript" ELSE IF redis.spent < Limit THEN "allowed" ELSE "denied")
  BY DEF ReplyTo, ScriptReply, RuleReply
<1>3. reply \in {"none", "hit", "nil", "ok", "noscript"} \cup Decisions
  BY <1>1, <1>2 DEF Cmds, RuleReply, Decisions
<1>4. d \in Queued /\ d.item = c.item /\ d.cmd = c.cmd /\ d.live = c.live /\ d.reply = reply
  BY <1>3 DEF Queued
<1>5. reply \in Decisions => c.cmd \in {"eval", "reeval"} /\ redis.scripts
  BY <1>1, <1>2 DEF Cmds, RuleReply, Decisions
<1>6. reply \in Decisions => c.item \in Items /\ verdict[c.item] = "none" /\ v[c.item] = reply
  BY <1>1, <1>5 DEF CommandOK
<1>7. reply \notin Decisions => v = verdict
  OBVIOUS
<1>10. redis.scripts \/ c.cmd \in {"load", "reload"} => scripts
  OBVIOUS
<1>8. reply = "allowed" => redis.spent < Limit
  BY <1>1, <1>2 DEF Cmds, RuleReply
<1> HIDE DEF RuleReply
<1>9. CommandOK(d, kind, scripts, flushes, sha, v)
  <2>1. /\ d.cmd = "get" <=> d.item = Service
        /\ d.cmd = "get" => d.reply \in {"none", "hit"}
        /\ d.cmd = "hget" => d.reply \in {"none", RuleReply(kind[d.item])}
        /\ d.cmd \in {"load", "reload"} => d.reply \in {"none", "ok"}
    BY <1>2, <1>4 DEF CommandOK
  <2>2. /\ d.cmd = "load" /\ d.reply = "ok" => scripts \/ flushes >= 1
        /\ d.cmd = "reload" /\ d.reply = "ok" => scripts \/ flushes >= 2
        /\ d.cmd \in {"reload", "reeval"} => flushes >= 1
    BY <1>4, <1>10 DEF CommandOK
  <2>3. d.cmd \in {"eval", "reeval"} => sha /\ d.reply \in {"noscript"} \cup Decisions
    BY <1>2, <1>4 DEF CommandOK, Decisions
  <2>4. d.cmd \in {"eval", "reeval"} /\ d.reply = "noscript" => v[d.item] = "none" /\ ~redis.scripts
    BY <1>2, <1>4, <1>7 DEF CommandOK, Decisions
  <2>5. d.cmd \in {"eval", "reeval"} /\ d.reply \in Decisions => v[d.item] = d.reply
    BY <1>4, <1>6
  <2>6. d.cmd = "eval" /\ d.reply = "noscript" => flushes >= 1
    BY <2>3, <2>4
  <2>7. d.cmd = "reeval" /\ d.reply = "noscript" => flushes >= 2
    BY <2>4, <1>4 DEF CommandOK
  <2>8. d.cmd \in {"eval", "reeval"} => d.reply # "none"
    BY <2>3 DEF Decisions
  <2>9. d.cmd \in {"eval", "reeval"} /\ d.reply \in {"none", "noscript"} => v[d.item] = "none"
    BY <2>4, <2>8
  <2>10. d.cmd \in {"eval", "reeval"} => sha /\ d.reply \in {"none", "noscript"} \cup Decisions
    BY <2>3
  <2>11. d.cmd = "reeval" /\ d.reply = "none" => scripts \/ flushes >= 2
    BY <2>8
  <2> QED BY <2>1, <2>2, <2>5, <2>6, <2>7, <2>9, <2>10, <2>11 DEF CommandOK
<1> QED BY <1>4, <1>5, <1>6, <1>8, <1>9

\* The reply to one item changes nothing for another.
LEMMA OthersOK ==
  ASSUME NEW c, NEW scripts, NEW more, scripts => more, NEW losses, NEW sha, NEW v, NEW w,
         c.item # Service => w[c.item] = v[c.item],
         CommandOK(c, kind, scripts, losses, sha, v)
  PROVE  CommandOK(c, kind, more, losses, sha, w)
BY DEF CommandOK

LEMMA ExecuteStep == ASSUME BatchInv, Execute PROVE BatchInv'
<1>1. PICK k \in DOMAIN queue :
        LET c == queue[k]  reply == ReplyTo(c) IN
          /\ c.reply = "none"
          /\ \A j \in 1..(k - 1) : queue[j].reply # "none"
          /\ queue' = [queue EXCEPT ![k].reply = reply]
          /\ redis' = [redis EXCEPT !.scripts = @ \/ c.cmd \in {"load", "reload"},
                                    !.spent = IF reply = "allowed" THEN @ + 1 ELSE @]
          /\ verdict' = IF reply \in Decisions THEN [verdict EXCEPT ![c.item] = reply]
                        ELSE verdict
          /\ UNCHANGED <<kind, warm, phase, runnable, entries, results, decided,
                         shaKnown, answer, errors, flushes, timeouts>>
  BY Zenon DEF Execute
<1>2. PICK c : c = queue[k]
  OBVIOUS
<1>3. PICK reply : reply = ReplyTo(c)
  OBVIOUS
<1>4. PICK d : d = [c EXCEPT !.reply = reply]
  OBVIOUS
<1>5. PICK r : r = queue'
  OBVIOUS
<1>6. /\ QueueOK(queue, shaKnown) /\ queue \in Seq(Queued) /\ shaKnown \in BOOLEAN
      /\ redis \in [scripts: BOOLEAN, spent: 0..Limit] /\ Limit \in Nat
      /\ verdict \in [Items -> {"none"} \cup Decisions]
      /\ (shaKnown => redis.scripts \/ flushes >= 1)
      /\ \A i, j \in DOMAIN queue : queue[i].item = queue[j].item => i = j
      /\ \A j \in DOMAIN queue : CommandOK(queue[j], kind, redis.scripts, flushes, shaKnown, verdict)
  BY DEF BatchInv, PipeOK, TypeOK, QueueOK
<1>7. /\ c \in Queued /\ c.reply = "none"
      /\ CommandOK(c, kind, redis.scripts, flushes, shaKnown, verdict)
  BY <1>1, <1>2, <1>6
<1>8. PICK scripts : scripts = (redis.scripts \/ c.cmd \in {"load", "reload"})
  OBVIOUS
<1>9. PICK v : v = (IF reply \in Decisions THEN [verdict EXCEPT ![c.item] = reply] ELSE verdict)
  OBVIOUS
<1>10. /\ d \in Queued /\ d.item = c.item /\ d.cmd = c.cmd /\ d.live = c.live /\ d.reply = reply
       /\ CommandOK(d, kind, scripts, flushes, shaKnown, v)
       /\ reply \in Decisions =>
            c.cmd \in {"eval", "reeval"} /\ c.item \in Items /\ verdict[c.item] = "none"
       /\ reply = "allowed" => redis.spent < Limit
  <2>1. scripts \in BOOLEAN
    BY <1>8
  <2>2. redis.scripts \/ c.cmd \in {"load", "reload"} => scripts
    BY <1>8
  <2>3. shaKnown \in BOOLEAN
    BY <1>6
  <2>4. shaKnown => redis.scripts \/ flushes >= 1
    BY <1>6
  <2>5. reply \notin Decisions => v = verdict
    BY <1>9
  <2>6. reply \in Decisions /\ c.item \in Items => v[c.item] = reply
    BY <1>6, <1>9
  <2> QED BY <1>3, <1>4, <1>7, <2>1, <2>2, <2>3, <2>4, <2>5, <2>6, ReplyOK
<1>11. /\ verdict' = v /\ redis'.scripts = scripts
       /\ redis'.spent = IF reply = "allowed" THEN redis.spent + 1 ELSE redis.spent
       /\ redis' \in [scripts: BOOLEAN, spent: 0..Limit]
       /\ redis' = [scripts |-> scripts, spent |-> IF reply = "allowed" THEN redis.spent + 1 ELSE redis.spent]
  <2>1. redis' = [redis EXCEPT !.scripts = @ \/ c.cmd \in {"load", "reload"},
                               !.spent = IF reply = "allowed" THEN @ + 1 ELSE @]
    BY Zenon, <1>1, <1>2, <1>3
  <2>2. PICK sp : sp = IF reply = "allowed" THEN redis.spent + 1 ELSE redis.spent
    OBVIOUS
  <2>3. redis' = [redis EXCEPT !.scripts = scripts, !.spent = sp]
    BY Zenon, <1>8, <2>1, <2>2
  <2>4. redis.spent \in 0..Limit
    BY <1>6
  <2>5. sp \in 0..Limit
    BY <1>6, <1>10, <2>2, <2>4
  <2>6. scripts \in BOOLEAN
    BY <1>8
  <2>7. redis' = [scripts |-> scripts, spent |-> sp]
    BY <1>6, <2>3
  <2>8. verdict' = v
    BY Zenon, <1>1, <1>2, <1>3, <1>9
  <2> QED BY <2>2, <2>5, <2>6, <2>7, <2>8
<1>12. /\ UNCHANGED <<kind, warm, phase, runnable, entries, results, decided,
                      shaKnown, answer, errors, flushes, timeouts>>
  BY <1>1
<1>13. r = [queue EXCEPT ![k] = d]
  <2>1. queue' = [queue EXCEPT ![k].reply = ReplyTo(queue[k])]
    BY <1>1
  <2> QED BY Zenon, <1>2, <1>3, <1>4, <1>5, <2>1
<1>14. /\ DOMAIN r = DOMAIN queue /\ r[k] = d /\ \A j \in DOMAIN queue : j # k => r[j] = queue[j]
       /\ r \in Seq(Queued)
  BY <1>6, <1>10, <1>13
<1>15. \A j \in DOMAIN queue : /\ r[j].item = queue[j].item /\ r[j].cmd = queue[j].cmd
                               /\ r[j].live = queue[j].live
  BY <1>2, <1>10, <1>14
<1>16. v \in [Items -> {"none"} \cup Decisions] /\ \A i \in Items : i # c.item => v[i] = verdict[i]
  BY <1>6, <1>9, <1>10
<1>17. reply \in Decisions => v[c.item] = reply
  BY <1>6, <1>9, <1>10
<1>18. reply \notin Decisions => v = verdict
  BY <1>9
<1>20. PipeOK'
  <2>1. ASSUME NEW j \in DOMAIN r
        PROVE  CommandOK(r[j], kind, scripts, flushes, shaKnown, v)
    <3>1. CASE j = k
      BY <1>10, <1>14, <3>1
    <3>2. CASE j # k
      <4>1. r[j] = queue[j] /\ queue[j].item # c.item /\ queue[j] \in Queued
        BY <1>2, <1>6, <1>14, <3>2
      <4>2. queue[j].item # Service => v[queue[j].item] = verdict[queue[j].item]
        BY <1>16, <4>1 DEF Queued
      <4>3. redis.scripts => scripts
        BY <1>8
      <4>4. CommandOK(queue[j], kind, redis.scripts, flushes, shaKnown, verdict)
        BY <1>6, <1>14
      <4> QED BY <4>1, <4>2, <4>3, <4>4, OthersOK
    <3> QED BY <3>1, <3>2
  <2>2. \A i, j \in DOMAIN r : r[i].item = r[j].item => i = j
    BY <1>6, <1>14, <1>15
  <2>3. QueueOK(queue, shaKnown)'
    BY <1>5, <1>11, <1>12, <1>14, <2>1, <2>2 DEF QueueOK
  <2>4. (shaKnown => redis.scripts \/ flushes >= 1)'
    BY <1>6, <1>8, <1>11, <1>12
  <2> QED BY <2>3, <2>4 DEF PipeOK
<1>21. TypeOK'
  <2>1. queue' \in Seq(Queued) /\ verdict' \in [Items -> {"none"} \cup Decisions]
    BY <1>5, <1>11, <1>14, <1>16
  <2> QED BY <1>11, <1>12, <2>1 DEF BatchInv, TypeOK
<1>22. SpendsOnce'
  <2> DEFINE A == {i \in Items : verdict[i] = "allowed"}
             B == {i \in Items : v[i] = "allowed"}
  <2>1. redis.spent \in Nat /\ redis.spent = Cardinality(A) /\ IsFiniteSet(A)
    <3>1. IsFiniteSet(Items)
      <4>1. 1 \in Int /\ Size \in Int
        OBVIOUS
      <4> QED BY <4>1, FS_Interval DEF Items
    <3>2. IsFiniteSet(A)
      BY <3>1, FS_Subset
    <3> QED BY <1>6, <3>2 DEF BatchInv, SpendsOnce
  <2>2. CASE reply = "allowed"
    <3>1. reply \in Decisions
      BY <2>2 DEF Decisions
    <3>2. B = A \cup {c.item} /\ c.item \notin A
      BY <1>10, <1>16, <1>17, <2>2, <3>1
    <3> HIDE DEF A, B
    <3>3. Cardinality(B) = Cardinality(A) + 1
      BY <2>1, <3>2, FS_AddElement
    <3>4. redis'.spent = Cardinality(B) /\ redis'.spent <= Limit
      BY <1>6, <1>11, <2>1, <2>2, <3>3
    <3> QED BY <1>11, <3>4 DEF SpendsOnce, B
  <2>3. CASE reply # "allowed"
    <3>1. \A i \in Items : v[i] = "allowed" <=> verdict[i] = "allowed"
      BY <1>10, <1>16, <1>17, <1>18, <2>3
    <3>2. B = A
      BY <3>1
    <3> HIDE DEF A, B
    <3>4. redis'.spent = Cardinality(B) /\ redis'.spent <= Limit
      BY <1>6, <1>11, <2>1, <2>3, <3>2
    <3> QED BY <1>11, <3>4 DEF SpendsOnce, B
  <2> QED BY <2>2, <2>3
<1>23. Single' /\ Cold'
  BY <1>12 DEF BatchInv, Single, Cold
<1>24. Begun'
  <2> SUFFICES ASSUME phase \in {"auth", "resolve", "shas"}
               PROVE  Begun'
    BY <1>12 DEF Begun
  <2>1. \A j \in DOMAIN queue : queue[j].live /\ queue[j].cmd = CommandOf[phase]
    BY DEF BatchInv, Begun
  <2>2. c.cmd \in {"get", "hget", "load"}
    BY <1>2, <2>1 DEF CommandOf
  <2>3. v = verdict
    BY <1>10, <1>18, <2>2
  <2>4. Len(queue') = Len(queue)
    BY <1>5, <1>6, <1>14
  <2> QED BY <1>5, <1>11, <1>12, <1>14, <1>15, <2>1, <2>3, <2>4 DEF BatchInv, Begun
<1>25. Resolving' /\ AllSettled'
  BY <1>5, <1>12, <1>14, <1>15 DEF BatchInv, Resolving, AllSettled, Settled, AskedFor, InRun, Deserved
<1>26. Piped'
  <2> SUFFICES ASSUME phase = "pipeline" PROVE Piped'
    BY <1>12 DEF Piped
  <2>1. /\ decided = 0
        /\ \A j \in DOMAIN queue : queue[j].live =>
             /\ queue[j].cmd = "eval"
             /\ \E i \in DOMAIN runnable : runnable[i] = queue[j].item /\ Told(i) = "none"
        /\ \A i \in DOMAIN runnable : Told(i) = "none" =>
             \E j \in DOMAIN queue : queue[j].live /\ queue[j].item = runnable[i]
    BY DEF BatchInv, Piped
  <2>2. \A i : Told(i)' = Told(i)
    BY <1>12 DEF Told
  <2>3. \A j \in DOMAIN r : r[j].live =>
          /\ r[j].cmd = "eval"
          /\ \E i \in DOMAIN runnable : runnable[i] = r[j].item /\ Told(i) = "none"
    BY <1>14, <1>15, <2>1
  <2>4. \A i \in DOMAIN runnable : Told(i) = "none" =>
          \E j \in DOMAIN r : r[j].live /\ r[j].item = runnable[i]
    BY <1>14, <1>15, <2>1
  <2> QED BY <1>5, <1>12, <2>1, <2>2, <2>3, <2>4 DEF Piped
<1>27. ResultsOK'
  <2> SUFFICES ASSUME phase \in {"pipeline", "walk", "rerun"} PROVE ResultsOK'
    BY <1>12 DEF ResultsOK
  <2>1. /\ DOMAIN results \subseteq DOMAIN runnable
        /\ \A j \in DOMAIN queue : ~queue[j].live =>
             \E i \in DOMAIN results : runnable[i] = queue[j].item /\ results[i] = "error"
    BY DEF BatchInv, ResultsOK
  <2>2. Next1' = Next1
    BY <1>12 DEF Next1
  <2>3. ASSUME NEW j \in DOMAIN results
        PROVE  /\ results[j] \in Decisions => v[runnable[j]] = results[j]
               /\ results[j] = "error" => timeouts >= 1
               /\ results[j] = "noscript" /\ (phase = "rerun" => j # Next1) => v[runnable[j]] = "none"
    <3>1. /\ results[j] \in Decisions => verdict[runnable[j]] = results[j]
          /\ results[j] = "error" => timeouts >= 1
          /\ results[j] = "noscript" /\ (phase = "rerun" => j # Next1) => verdict[runnable[j]] = "none"
      BY DEF BatchInv, ResultsOK
    <3>2. runnable[j] \in Items /\ j \in DOMAIN runnable
      BY <2>1 DEF BatchInv, TypeOK
    <3>3. CASE reply \notin Decisions \/ runnable[j] # c.item
      BY <1>16, <1>18, <3>1, <3>2, <3>3
    <3>4. CASE reply \in Decisions /\ runnable[j] = c.item
      <4>1. results[j] \notin Decisions
        BY <1>10, <3>1, <3>4 DEF Decisions
      <4>2. ASSUME results[j] = "noscript", phase = "rerun" => j # Next1 PROVE FALSE
        <5>1. CASE ~c.live
          <6>1. PICK i \in DOMAIN results : runnable[i] = c.item /\ results[i] = "error"
            BY <1>2, <2>1, <5>1
          <6>2. i \in DOMAIN runnable /\ i # j
            BY <2>1, <4>2, <6>1
          <6> QED BY <3>2, <3>4, <6>1, <6>2 DEF BatchInv, Single
        <5>2. CASE c.live /\ phase = "pipeline"
          <6>1. PICK i \in DOMAIN runnable : runnable[i] = c.item /\ Told(i) = "none"
            BY <1>2, <5>2 DEF BatchInv, Piped
          <6>2. i = j
            BY <3>2, <3>4, <6>1 DEF BatchInv, Single
          <6> QED BY <4>2, <6>1, <6>2 DEF Told
        <5>3. CASE c.live /\ phase = "walk"
          BY <1>2, <5>3 DEF BatchInv, Walking
        <5>4. CASE c.live /\ phase = "rerun"
          <6>1. c.item = runnable[Next1] /\ decided < Len(results)
            BY <1>2, <5>4 DEF BatchInv, Rerunning
          <6>2. decided \in 0..Len(results) /\ Len(results) \in Nat /\ DOMAIN results = 1..Len(results)
            BY DEF BatchInv, TypeOK
          <6>3. Next1 \in DOMAIN results
            BY <6>1, <6>2 DEF Next1
          <6>4. Next1 = j
            BY <2>1, <3>2, <3>4, <6>1, <6>3 DEF BatchInv, Single
          <6> QED BY <4>2, <5>4, <6>4
        <5> QED BY <5>1, <5>2, <5>3, <5>4
      <4> QED BY <3>1, <4>1, <4>2
    <3> QED BY <3>3, <3>4
  <2>4. \A j \in DOMAIN r : ~r[j].live =>
          \E i \in DOMAIN results : runnable[i] = r[j].item /\ results[i] = "error"
    BY <1>14, <1>15, <2>1
  <2> QED BY <1>5, <1>11, <1>12, <2>1, <2>2, <2>3, <2>4 DEF ResultsOK
<1>28. Walking'
  BY <1>5, <1>12, <1>14, <1>15 DEF BatchInv, Walking
<1>29. Rerunning'
  <2> SUFFICES ASSUME phase = "rerun" PROVE Rerunning'
    BY <1>12 DEF Rerunning
  <2>1. decided < Len(results) /\ results[Next1] = "noscript"
    BY DEF BatchInv, Rerunning
  <2>2. PICK j \in DOMAIN queue :
         /\ queue[j].live /\ queue[j].item = runnable[Next1]
         /\ queue[j].cmd \in {"load", "reload", "eval", "reeval"}
         /\ queue[j].cmd \in {"load", "reload"} => verdict[runnable[Next1]] = "none"
         /\ \A i \in DOMAIN queue : queue[i].live => i = j
    BY DEF BatchInv, Rerunning
  <2>3. queue[j].cmd \in {"load", "reload"} => v[runnable[Next1]] = "none"
    <3> SUFFICES ASSUME queue[j].cmd \in {"load", "reload"} PROVE v[runnable[Next1]] = "none"
      OBVIOUS
    <3>1. CASE j = k
      <4>1. c.cmd \in {"load", "reload"}
        BY <1>2, <3>1
      <4>2. reply \notin Decisions
        BY <1>10, <4>1
      <4> QED BY <1>18, <2>2, <4>2
    <3>2. CASE j # k
      <4>1. queue[j].item # c.item
        BY <1>2, <1>6, <3>2
      <4>2. verdict[runnable[Next1]] = "none"
        BY <2>2
      <4>3. v = verdict \/ c.item \in Items
        BY <1>10, <1>18
      <4> QED BY <1>6, <1>9, <2>2, <4>1, <4>2, <4>3
    <3> QED BY <3>1, <3>2
  <2>4. Next1' = Next1
    BY <1>12 DEF Next1
  <2>5. \A i \in DOMAIN r : r[i].live => i = j
    BY <1>14, <1>15, <2>2
  <2>6. j \in DOMAIN r /\ r[j].live /\ r[j].item = runnable[Next1] /\ r[j].cmd = queue[j].cmd
    BY <1>14, <1>15, <2>2
  <2> QED BY <1>5, <1>11, <1>12, <2>1, <2>2, <2>3, <2>4, <2>5, <2>6 DEF Rerunning
<1>30. Ended'
  <2>1. ASSUME phase = "done", errors = 0 PROVE FALSE
    <3>1. queue = <<>>
      BY <2>1 DEF BatchInv, Ended
    <3> QED BY <3>1
  <2> QED BY <1>5, <1>12, <1>14, <1>15, <2>1 DEF BatchInv, Ended
<1> QED BY <1>20, <1>21, <1>22, <1>23, <1>24, <1>25, <1>26, <1>27, <1>28, <1>29, <1>30 DEF BatchInv

\* A loss of the scripts makes no reply that is under way untrue.
LEMMA LossOK ==
  ASSUME NEW c, NEW kd, NEW scripts, NEW losses \in Nat, NEW sha, NEW v,
         CommandOK(c, kd, scripts, losses, sha, v)
  PROVE  CommandOK(c, kd, FALSE, losses + 1, sha, v)
BY DEF CommandOK

LEMMA FlushStep == ASSUME BatchInv, FlushScripts PROVE BatchInv'
<1>1. /\ flushes' = flushes + 1 /\ redis' = [redis EXCEPT !.scripts = FALSE]
      /\ UNCHANGED <<kind, warm, phase, queue, runnable, entries, results, decided,
                     shaKnown, answer, errors, verdict, timeouts>>
  BY DEF FlushScripts
<1>2. /\ redis \in [scripts: BOOLEAN, spent: 0..Limit] /\ flushes \in Nat
  BY DEF BatchInv, TypeOK
<1>11. flushes' \in Nat /\ flushes' >= 1
  BY <1>1, <1>2
<1>3. /\ redis' \in [scripts: BOOLEAN, spent: 0..Limit] /\ ~redis'.scripts /\ redis'.spent = redis.spent
      /\ flushes' \in Nat /\ flushes' >= 1
  BY <1>1, <1>2, <1>11
<1>4. TypeOK'
  BY <1>1, <1>3 DEF BatchInv, TypeOK
<1>5. SpendsOnce'
  BY <1>1, <1>3 DEF BatchInv, SpendsOnce
<1>6. PipeOK'
  <2>1. ASSUME NEW k \in DOMAIN queue
        PROVE  CommandOK(queue[k], kind, FALSE, flushes + 1, shaKnown, verdict)
    <3>1. CommandOK(queue[k], kind, redis.scripts, flushes, shaKnown, verdict)
      BY DEF BatchInv, PipeOK, QueueOK
    <3> QED BY Zenon, <1>2, <3>1, LossOK
  <2>2. ASSUME NEW k \in DOMAIN queue
        PROVE  CommandOK(queue[k], kind, redis'.scripts, flushes', shaKnown, verdict)
    <3>1. redis'.scripts = FALSE
      BY <1>3
    <3> QED BY Zenon, <1>1, <2>1, <3>1
  <2>3. QueueOK(queue, shaKnown)'
    BY <1>1, <2>2 DEF BatchInv, PipeOK, QueueOK
  <2>4. (shaKnown => redis.scripts \/ flushes >= 1)'
    BY <1>3
  <2> QED BY <2>3, <2>4 DEF PipeOK
<1>7. Cold' /\ Single' /\ Begun' /\ Piped' /\ Walking' /\ Rerunning'
  BY <1>1 DEF BatchInv, Cold, Single, Begun, Piped, Told, Walking, Rerunning, Next1
<1>8. Resolving' /\ AllSettled'
  BY <1>1 DEF BatchInv, Resolving, AllSettled, Settled, AskedFor, InRun, Deserved
<1>9. ResultsOK'
  BY <1>1 DEF BatchInv, ResultsOK, Next1
<1>10. Ended'
  <2>1. flushes >= 2 => flushes' >= 2
    BY <1>1, <1>2
  <2> QED BY <1>1, <2>1 DEF BatchInv, Ended, Deserved
<1> QED BY <1>4, <1>5, <1>6, <1>7, <1>8, <1>9, <1>10 DEF BatchInv
\* Every item is resolved: the run holds the good ones, once each, and the others have
\* their client error.
Ready(run, es) ==
  /\ run \in Seq(Items)
  /\ es \in [Items -> {"none", "degraded"} \cup ClientErrors \cup Decisions]
  /\ \A j, k \in DOMAIN run : run[j] = run[k] => j = k
  /\ \A i \in Items : /\ kind[i] = "good" <=> \E k \in DOMAIN run : run[k] = i
                      /\ es[i] = Deserved(i)

\* The queue with which the scripts are asked.
Asked(q, run, cmd) ==
  /\ DOMAIN q = DOMAIN run
  /\ \A k \in DOMAIN run : q[k].item = run[k] /\ q[k].cmd = cmd /\ q[k].live

LEMMA EnterStep ==
  ASSUME BatchInv, Quiet, phase \in {"auth", "resolve", "shas"},
         UNCHANGED <<results, decided, answer, errors, timeouts>>,
         NEW run, NEW es, Ready(run, es), runnable' = run, entries' = es,
         NEW q, NEW sha \in BOOLEAN, QueueOK(q, sha), queue' = q, shaKnown' = sha,
         sha = shaKnown \/ redis.scripts \/ flushes >= 1,
         phase' \in {"shas", "pipeline", "walk"},
         phase' = "shas" => Asked(q, run, "load"),
         phase' = "pipeline" => Asked(q, run, "eval"),
         phase' = "walk" => q = <<>> /\ run = <<>>
  PROVE  BatchInv'
<1>1. results = <<>> /\ decided = 0 /\ \A i \in Items : verdict[i] = "none"
  BY DEF BatchInv, Begun
<1>2. results' = <<>> /\ decided' = 0 /\ DOMAIN results' = {} /\ DOMAIN <<>> = {}
  BY <1>1
<1>3. verdict' = verdict /\ kind' = kind
  BY DEF Quiet
<1>9. /\ SpendsOnce' /\ Cold' /\ PipeOK' /\ (queue \in Seq(Queued))' /\ (shaKnown \in BOOLEAN)'
      /\ (kind \in [Items -> Kinds])' /\ (warm \in [Items -> BOOLEAN])'
      /\ (redis \in [scripts: BOOLEAN, spent: 0..Limit])'
      /\ (verdict \in [Items -> {"none"} \cup Decisions])' /\ (flushes \in Nat)'
  BY QuietStep
<1>10. TypeOK'
  <2>1. /\ phase' \in {"auth", "resolve", "shas", "pipeline", "walk", "rerun", "done"}
        /\ runnable' \in Seq(Items)
        /\ entries' \in [Items -> {"none", "degraded"} \cup ClientErrors \cup Decisions]
    BY DEF Ready
  <2> QED BY <1>9, <2>1 DEF BatchInv, TypeOK
<1>11. Single'
  BY DEF Ready, Single
<1>12. Begun'
  BY <1>2, <1>1, <1>3 DEF Begun, Asked, CommandOf
<1>13. AllSettled'
  BY <1>3 DEF AllSettled, Settled, InRun, Deserved, Ready
<1>14. Piped'
  <2> SUFFICES ASSUME phase' = "pipeline" PROVE Piped'
    BY DEF Piped
  <2>1. \A k : Told(k)' = "none"
    BY <1>2 DEF Told
  <2> QED BY <1>2, <2>1 DEF Piped, Asked
<1>15. ResultsOK'
  <2>1. \A j \in DOMAIN q : q[j].live
    BY <1>2 DEF Asked
  <2> QED BY <1>2, <2>1 DEF ResultsOK
<1>16. Walking'
  BY <1>2 DEF Walking
<1>17. Resolving' /\ Rerunning'
  BY DEF Resolving, Rerunning
<1>18. Ended'
  BY DEF BatchInv, Ended
<1> QED BY <1>9, <1>10, <1>11, <1>12, <1>13, <1>14, <1>15, <1>16, <1>17, <1>18 DEF BatchInv

\* The commands of a run that starts.
LEMMA AskedQueue ==
  ASSUME BatchInv, phase \in {"auth", "resolve", "shas"}, NEW run, NEW es, Ready(run, es),
         NEW cmd \in {"load", "eval"}, NEW sha \in BOOLEAN, cmd = "eval" => sha
  PROVE  /\ QueueOK(Commands(run, cmd), sha) /\ Asked(Commands(run, cmd), run, cmd)
         /\ <<>> \o Commands(run, cmd) = Commands(run, cmd)
<1>1. run \in Seq(Items) /\ (\A j, k \in DOMAIN run : run[j] = run[k] => j = k)
  BY DEF Ready
<1>2. \A i \in Items : verdict[i] = "none"
  BY DEF BatchInv, Begun
<1> DEFINE q == Commands(run, cmd)
<1>3. /\ QueueOK(q, sha) /\ DOMAIN q = DOMAIN run
      /\ \A k \in DOMAIN run : /\ q[k].item = run[k] /\ run[k] \in Items
                               /\ q[k].cmd = cmd /\ q[k].live
      /\ <<>> \o q = q
  <2>1. cmd \in {"hget", "load", "eval"}
    OBVIOUS
  <2>2. /\ QueueOK(Commands(run, cmd), sha) /\ DOMAIN Commands(run, cmd) = DOMAIN run
        /\ \A k \in DOMAIN run : /\ Commands(run, cmd)[k].item = run[k] /\ run[k] \in Items
                                 /\ Commands(run, cmd)[k].cmd = cmd
                                 /\ Commands(run, cmd)[k].live
        /\ <<>> \o Commands(run, cmd) = Commands(run, cmd)
    <3> HIDE DEF q
    <3> QED BY <1>1, <1>2, <2>1, FreshQueue
  <2> QED BY <2>2
<1> HIDE DEF q
<1>4. Asked(q, run, cmd)
  BY <1>3 DEF Asked
<1> QED BY <1>3, <1>4 DEF q

LEMMA EvaluateStep ==
  ASSUME BatchInv, Quiet, phase \in {"auth", "resolve"},
         UNCHANGED <<results, decided, shaKnown, answer, errors, timeouts>>,
         NEW run, NEW es, Ready(run, es), runnable' = run, entries' = es,
         Evaluate(run, <<>>)
  PROVE  BatchInv'
<1>1. shaKnown \in BOOLEAN /\ shaKnown' = shaKnown /\ QueueOK(<<>>, shaKnown)
  BY Empty DEF BatchInv, TypeOK
<1>2. CASE run = <<>>
  <2>1. phase' = "walk" /\ queue' = <<>>
    BY <1>2 DEF Evaluate
  <2> QED BY <1>1, <1>2, <2>1, EnterStep
<1>3. CASE run # <<>> /\ shaKnown
  <2>1. /\ QueueOK(Commands(run, "eval"), shaKnown) /\ Asked(Commands(run, "eval"), run, "eval")
        /\ <<>> \o Commands(run, "eval") = Commands(run, "eval")
    BY <1>1, <1>3, AskedQueue
  <2>2. phase' = "pipeline" /\ queue' = Commands(run, "eval")
    BY <1>3, <2>1 DEF Evaluate
  <2> QED BY <1>1, <2>1, <2>2, EnterStep
<1>4. CASE run # <<>> /\ ~shaKnown
  <2>1. /\ QueueOK(Commands(run, "load"), shaKnown) /\ Asked(Commands(run, "load"), run, "load")
        /\ <<>> \o Commands(run, "load") = Commands(run, "load")
    BY <1>1, AskedQueue
  <2>2. phase' = "shas" /\ queue' = Commands(run, "load")
    BY <1>4, <2>1 DEF Evaluate
  <2> QED BY <1>1, <2>1, <2>2, EnterStep
<1> QED BY <1>2, <1>3, <1>4

LEMMA NothingQueued == ASSUME NEW q \in Seq(Queued), Len(q) = 0 PROVE q = <<>>
OBVIOUS

\* What the oldest command is, and what the others are.
LEMMA OldestAwaited ==
  ASSUME BatchInv, queue # <<>>
  PROVE  /\ QueueOK(Tail(queue), shaKnown) /\ shaKnown \in BOOLEAN
         /\ Head(queue) = queue[1] /\ Head(queue) \in Queued /\ 1 \in DOMAIN queue
         /\ CommandOK(Head(queue), kind, redis.scripts, flushes, shaKnown, verdict)
         /\ \A k \in DOMAIN Tail(queue) : /\ k + 1 \in DOMAIN queue /\ Tail(queue)[k] = queue[k + 1]
                                          /\ Tail(queue)[k].item # Head(queue).item
         /\ \A j \in DOMAIN queue : j # 1 => \E k \in DOMAIN Tail(queue) : queue[j] = Tail(queue)[k]
<1>1. QueueOK(queue, shaKnown) /\ shaKnown \in BOOLEAN
  BY DEF BatchInv, PipeOK, TypeOK
<1> QED BY Zenon, <1>1, OldestTaken

LEMMA NoneLive ==
  ASSUME NEW q \in Seq(Queued), \A k \in DOMAIN q : q[k].live, ~LiveIn(q)
  PROVE  q = <<>>
<1>1. DOMAIN q = {}
  BY DEF LiveIn
<1> QED BY <1>1
-----------------------------------------------------------------------------
(***************************************************************************)
(* A reply is delivered.                                                   *)
(***************************************************************************)
LEMMA UnheardStep ==
  ASSUME BatchInv, Quiet, timeouts' = timeouts, queue # <<>>, ~Head(queue).live,
         queue' = Tail(queue),
         UNCHANGED <<phase, runnable, entries, results, decided, shaKnown, answer, errors>>
  PROVE  BatchInv'
<1>1. PICK c, q : c = Head(queue) /\ q = Tail(queue)
  OBVIOUS
<1>2. /\ QueueOK(q, shaKnown) /\ shaKnown \in BOOLEAN /\ c = queue[1] /\ 1 \in DOMAIN queue
      /\ c \in Queued /\ CommandOK(c, kind, redis.scripts, flushes, shaKnown, verdict)
      /\ \A k \in DOMAIN q : /\ k + 1 \in DOMAIN queue /\ q[k] = queue[k + 1] /\ q[k].item # c.item
      /\ \A j \in DOMAIN queue : j # 1 => \E k \in DOMAIN q : queue[j] = q[k]
  <2>1. c = Head(queue) /\ q = Tail(queue)
    BY <1>1
  <2> QED BY <2>1, OldestAwaited
<1>3. queue' = q /\ ~queue[1].live
  BY <1>1, <1>2
<1>4. \A k \in DOMAIN q : \E j \in DOMAIN queue : q[k] = queue[j]
  BY <1>2
<1>5. \A j \in DOMAIN queue : queue[j].live => \E k \in DOMAIN q : queue[j] = q[k]
  BY <1>2, <1>3
<1>6. phase \notin {"auth", "resolve", "shas"}
  BY <1>2, <1>3 DEF BatchInv, Begun
<1>7. Next1' = Next1 /\ verdict' = verdict /\ kind' = kind
  BY DEF Next1, Quiet
<1>9. /\ SpendsOnce' /\ Cold' /\ PipeOK' /\ (queue \in Seq(Queued))' /\ (shaKnown \in BOOLEAN)'
      /\ (kind \in [Items -> Kinds])' /\ (warm \in [Items -> BOOLEAN])'
      /\ (redis \in [scripts: BOOLEAN, spent: 0..Limit])'
      /\ (verdict \in [Items -> {"none"} \cup Decisions])' /\ (flushes \in Nat)'
  BY <1>2, <1>3, QuietStep
<1>10. TypeOK'
  BY <1>9 DEF BatchInv, TypeOK
<1>11. Single' /\ Begun' /\ Resolving'
  BY <1>6 DEF BatchInv, Single, Begun, Resolving
<1>12. AllSettled'
  BY <1>7 DEF BatchInv, AllSettled, Settled, InRun, Deserved
<1>13. Piped'
  <2> SUFFICES ASSUME phase = "pipeline" PROVE Piped'
    BY DEF Piped
  <2>1. decided = 0
    BY DEF BatchInv, Piped
  <2>2. ASSUME NEW j \in DOMAIN q, q[j].live
        PROVE  q[j].cmd = "eval" /\ \E k \in DOMAIN runnable : runnable[k] = q[j].item /\ Told(k) = "none"
    BY <1>4, <2>2 DEF BatchInv, Piped
  <2>3. ASSUME NEW k \in DOMAIN runnable, Told(k) = "none"
        PROVE  \E j \in DOMAIN q : q[j].live /\ q[j].item = runnable[k]
    BY <1>5, <2>3 DEF BatchInv, Piped
  <2>4. \A k : Told(k)' = Told(k)
    BY DEF Told
  <2> QED BY <1>3, <2>1, <2>2, <2>3, <2>4 DEF Piped
<1>14. ResultsOK'
  <2> SUFFICES ASSUME phase \in {"pipeline", "walk", "rerun"} PROVE ResultsOK'
    BY DEF ResultsOK
  <2>1. ASSUME NEW j \in DOMAIN q, ~q[j].live
        PROVE  \E k \in DOMAIN results : runnable[k] = q[j].item /\ results[k] = "error"
    BY <1>4, <2>1 DEF BatchInv, ResultsOK
  <2> QED BY <1>3, <1>7, <2>1 DEF BatchInv, ResultsOK
<1>15. Walking'
  BY <1>3, <1>4 DEF BatchInv, Walking
<1>16. Rerunning'
  <2> SUFFICES ASSUME phase = "rerun" PROVE Rerunning'
    BY DEF Rerunning
  <2>1. PICK j \in DOMAIN queue :
         /\ queue[j].live /\ queue[j].item = runnable[Next1]
         /\ queue[j].cmd \in {"load", "reload", "eval", "reeval"}
         /\ queue[j].cmd \in {"load", "reload"} => verdict[runnable[Next1]] = "none"
         /\ \A k \in DOMAIN queue : queue[k].live => k = j
    BY DEF BatchInv, Rerunning
  <2>2. PICK k \in DOMAIN q : q[k] = queue[j]
    BY <1>5, <2>1
  <2>3. \A i \in DOMAIN q : q[i].live => i = k
    <3>1. q \in Seq(Queued) /\ \A i, h \in DOMAIN q : q[i].item = q[h].item => i = h
      BY <1>2 DEF QueueOK
    <3>2. \A i \in DOMAIN q : q[i].live => q[i] = queue[j]
      BY <1>4, <2>1
    <3> QED BY <2>2, <3>1, <3>2
  <2>4. decided < Len(results) /\ results[Next1] = "noscript"
    BY DEF BatchInv, Rerunning
  <2> QED BY <1>3, <1>7, <2>1, <2>2, <2>3, <2>4 DEF Rerunning
<1>17. Ended'
  <2>1. ~(phase = "done" /\ errors = 0)
    BY DEF BatchInv, Ended
  <2>2. phase = "done" => \A j \in DOMAIN q : ~q[j].live
    BY <1>4 DEF BatchInv, Ended
  <2>3. /\ phase # "done" => answer = "none" /\ errors = 0
        /\ phase = "done" => answer # "none"
        /\ errors = 1 => timeouts >= 1 \/ flushes >= 2
    BY DEF BatchInv, Ended
  <2>4. flushes' = flushes
    BY DEF Quiet
  <2> QED BY <1>3, <2>1, <2>2, <2>3, <2>4 DEF Ended
<1> QED BY <1>9, <1>10, <1>11, <1>12, <1>13, <1>14, <1>15, <1>16, <1>17 DEF BatchInv

LEMMA AuthStep ==
  ASSUME BatchInv, Quiet, timeouts' = timeouts, queue # <<>>, phase = "auth",
         Authenticated(Tail(queue)),
         UNCHANGED <<results, decided, shaKnown, answer, errors>>
  PROVE  BatchInv'
<1>1. Tail(queue) = <<>> /\ shaKnown \in BOOLEAN
  <2>1. Len(queue) = 1 /\ queue \in Seq(Queued) /\ shaKnown \in BOOLEAN
    BY DEF BatchInv, Begun, TypeOK
  <2>2. Tail(queue) \in Seq(Queued) /\ Len(Tail(queue)) = 0
    BY <2>1
  <2> QED BY <2>1, <2>2, NothingQueued
<1>2. PICK asking : asking = {i \in Items : kind[i] # "noIdentifier" /\ ~warm[i]}
  OBVIOUS
<1>3. PICK good : good = {i \in Items \ asking : kind[i] = "good"}
  OBVIOUS
<1>4. PICK run : run = InOrder(good)
  OBVIOUS
<1>5. /\ runnable' = run
      /\ entries' = [i \in Items |->
                      IF i \in asking \/ kind[i] = "good" THEN "none" ELSE "invalid"]
      /\ IF asking = {} THEN Evaluate(run, <<>>)
         ELSE phase' = "resolve" /\ queue' = <<>> \o Commands(InOrder(asking), "hget")
  BY <1>1, <1>2, <1>3, <1>4 DEF Authenticated
<1>6. /\ run \in Seq(Items) /\ \A j, k \in DOMAIN run : run[j] = run[k] => j = k
      /\ \A i : (\E k \in DOMAIN run : run[k] = i) <=> i \in good
  <2>1. good \in SUBSET Items
    BY <1>3
  <2> QED BY <1>4, <2>1, Ordered
<1>7. kind \in [Items -> Kinds]
  BY DEF BatchInv, TypeOK
<1>8. PICK es : es = entries'
  OBVIOUS
<1>9. es \in [Items -> {"none", "degraded"} \cup ClientErrors \cup Decisions]
  BY <1>5, <1>8 DEF ClientErrors
<1>10. ASSUME NEW i \in Items
       PROVE  IF i \in asking
              THEN es[i] = "none" /\ i \notin good /\ kind[i] # "noIdentifier"
              ELSE (kind[i] = "good" <=> i \in good) /\ es[i] = Deserved(i)
  <2>1. kind[i] \in Kinds
    BY <1>7
  <2>2. kind[i] = "badRule" => i \in asking
    BY <1>2 DEF BatchInv, Cold
  <2> QED BY <1>2, <1>3, <1>5, <1>8, <2>1, <2>2 DEF Deserved, Kinds
<1>11. CASE asking = {}
  <2>1. Ready(run, es)
    BY <1>6, <1>9, <1>10, <1>11 DEF Ready
  <2>2. Evaluate(run, <<>>)
    BY <1>5, <1>11
  <2> QED BY <1>5, <1>8, <2>1, <2>2, EvaluateStep
<1>12. CASE asking # {}
  <2>1. phase' = "resolve" /\ queue' = <<>> \o Commands(InOrder(asking), "hget")
    BY <1>5, <1>12
  <2>2. PICK is : is = InOrder(asking)
    OBVIOUS
  <2>3. /\ is \in Seq(Items) /\ (\A j, k \in DOMAIN is : is[j] = is[k] => j = k)
        /\ \A i : (\E k \in DOMAIN is : is[k] = i) <=> i \in asking
    <3>1. asking \in SUBSET Items
      BY <1>2
    <3> QED BY <2>2, <3>1, Ordered
  <2>4. results = <<>> /\ decided = 0 /\ \A i \in Items : verdict[i] = "none"
    BY DEF BatchInv, Begun
  <2>5. PICK q : q = Commands(is, "hget")
    OBVIOUS
  <2>6. /\ QueueOK(q, shaKnown) /\ DOMAIN q = DOMAIN is
        /\ \A k \in DOMAIN is : q[k].item = is[k] /\ is[k] \in Items /\ q[k].cmd = "hget" /\ q[k].live
        /\ <<>> \o q = q
    <3>1. /\ QueueOK(Commands(is, "hget"), shaKnown) /\ DOMAIN Commands(is, "hget") = DOMAIN is
          /\ \A k \in DOMAIN is : /\ Commands(is, "hget")[k].item = is[k] /\ is[k] \in Items
                                  /\ Commands(is, "hget")[k].cmd = "hget"
                                  /\ Commands(is, "hget")[k].live
          /\ <<>> \o Commands(is, "hget") = Commands(is, "hget")
      BY <1>1, <2>3, <2>4, FreshQueue
    <3> QED BY <2>5, <3>1
  <2>7. queue' = q
    BY <2>1, <2>2, <2>5, <2>6
  <2>8. verdict' = verdict /\ kind' = kind
    BY DEF Quiet
  <2>9. /\ SpendsOnce' /\ Cold' /\ PipeOK' /\ (queue \in Seq(Queued))' /\ (shaKnown \in BOOLEAN)'
        /\ (kind \in [Items -> Kinds])' /\ (warm \in [Items -> BOOLEAN])'
        /\ (redis \in [scripts: BOOLEAN, spent: 0..Limit])'
        /\ (verdict \in [Items -> {"none"} \cup Decisions])' /\ (flushes \in Nat)'
    BY <1>1, <2>6, <2>7, QuietStep
  <2>10. TypeOK'
    BY <1>5, <1>6, <1>8, <1>9, <2>1, <2>9 DEF BatchInv, TypeOK
  <2>11. Single'
    BY <1>5, <1>6 DEF Single
  <2>12. Begun'
    BY <2>1, <2>4, <2>6, <2>7, <2>8 DEF Begun, CommandOf
  <2>13. Resolving'
    <3>1. ASSUME NEW i \in Items
          PROVE  /\ AskedFor(i)' <=> i \in asking
                 /\ InRun(i)' <=> i \in good
                 /\ Deserved(i)' = Deserved(i) /\ kind'[i] = kind[i] /\ entries'[i] = es[i]
      <4>1. AskedFor(i)' <=> i \in asking
        BY <2>3, <2>6, <2>7 DEF AskedFor
      <4>2. InRun(i)' <=> i \in good
        BY <1>5, <1>6 DEF InRun
      <4> QED BY <1>8, <2>8, <4>1, <4>2 DEF Deserved
    <3> QED BY <1>10, <3>1 DEF Resolving, Settled
  <2>14. AllSettled' /\ Piped' /\ ResultsOK' /\ Walking' /\ Rerunning'
    BY <2>1 DEF AllSettled, Piped, ResultsOK, Walking, Rerunning
  <2>15. Ended'
    BY <2>1 DEF BatchInv, Ended
  <2> QED BY <2>9, <2>10, <2>11, <2>12, <2>13, <2>14, <2>15 DEF BatchInv
<1> QED BY <1>11, <1>12
LEMMA ResolveStep ==
  ASSUME BatchInv, Quiet, timeouts' = timeouts, queue # <<>>, phase = "resolve",
         Head(queue).reply # "none",
         RuleArrives(Head(queue).item, Head(queue).reply, Tail(queue)),
         UNCHANGED <<results, decided, shaKnown, answer, errors>>
  PROVE  BatchInv'
<1>1. PICK c, q : c = Head(queue) /\ q = Tail(queue)
  OBVIOUS
<1>2. /\ QueueOK(q, shaKnown) /\ shaKnown \in BOOLEAN /\ c = queue[1] /\ 1 \in DOMAIN queue
      /\ c \in Queued /\ CommandOK(c, kind, redis.scripts, flushes, shaKnown, verdict)
      /\ \A k \in DOMAIN q : /\ k + 1 \in DOMAIN queue /\ q[k] = queue[k + 1] /\ q[k].item # c.item
      /\ \A j \in DOMAIN queue : j # 1 => \E k \in DOMAIN q : queue[j] = q[k]
  <2>1. c = Head(queue) /\ q = Tail(queue)
    BY <1>1
  <2> QED BY <2>1, OldestAwaited
<1>3. PICK i : i = c.item
  OBVIOUS
<1>4. PICK run : run = IF kind[i] = "good" THEN Append(runnable, i) ELSE runnable
  OBVIOUS
<1>5. PICK es : es = IF c.reply = "nil" THEN [entries EXCEPT ![i] = "unknownRule"]
                     ELSE Resolved(i, entries)
  OBVIOUS
<1>6. /\ runnable' = run /\ entries' = es
      /\ IF LiveIn(q) THEN phase' = phase /\ queue' = q ELSE Evaluate(run, q)
  BY <1>1, <1>3, <1>4, <1>5 DEF RuleArrives
<1>7. /\ kind \in [Items -> Kinds] /\ runnable \in Seq(Items)
      /\ entries \in [Items -> {"none", "degraded"} \cup ClientErrors \cup Decisions]
      /\ \A j, k \in DOMAIN runnable : runnable[j] = runnable[k] => j = k
  BY DEF BatchInv, TypeOK, Single
<1>8. /\ c.cmd = "hget" /\ i \in Items /\ c.reply = RuleReply(kind[i])
      /\ \A k \in DOMAIN q : q[k].live /\ q[k].cmd = "hget"
  <2>1. \A k \in DOMAIN queue : queue[k].live /\ queue[k].cmd = "hget"
    BY DEF BatchInv, Begun, CommandOf
  <2>2. c.cmd = "hget" /\ c.reply # "none"
    BY <1>1, <1>2, <2>1
  <2>3. i \in Items \cup {Service} /\ i # Service
    BY <1>2, <1>3, <2>2 DEF Queued, CommandOK
  <2>4. c.reply = RuleReply(kind[i])
    BY <1>2, <1>3, <2>2 DEF CommandOK
  <2> QED BY <1>2, <2>1, <2>2, <2>3, <2>4
<1>9. /\ entries[i] = "none" /\ ~InRun(i) /\ kind[i] # "noIdentifier"
  <2>1. AskedFor(i)
    BY <1>2, <1>3 DEF AskedFor
  <2> QED BY <1>8, <2>1 DEF BatchInv, Resolving
<1>10. /\ run \in Seq(Items) /\ \A j, k \in DOMAIN run : run[j] = run[k] => j = k
       /\ \A n \in Items : (\E k \in DOMAIN run : run[k] = n) <=> InRun(n) \/ (n = i /\ kind[i] = "good")
  <2>1. CASE kind[i] = "good"
    <3>1. run = Append(runnable, i)
      BY <1>4, <2>1
    <3>2. PICK m : m = Len(runnable) + 1
      OBVIOUS
    <3>3. /\ run \in Seq(Items) /\ DOMAIN run = DOMAIN runnable \cup {m}
          /\ m \notin DOMAIN runnable /\ run[m] = i
          /\ \A k \in DOMAIN runnable : run[k] = runnable[k]
      BY <1>7, <1>8, <3>1, <3>2, Added
    <3>4. \A k \in DOMAIN runnable : runnable[k] # i
      BY <1>9 DEF InRun
    <3>5. \A j, k \in DOMAIN run : run[j] = run[k] => j = k
      BY <1>7, <3>3, <3>4
    <3>6. \A n \in Items : (\E k \in DOMAIN run : run[k] = n) <=> InRun(n) \/ n = i
      BY <3>3 DEF InRun
    <3> QED BY <2>1, <3>3, <3>5, <3>6
  <2>2. CASE kind[i] # "good"
    BY <1>4, <1>7, <2>2 DEF InRun
  <2> QED BY <2>1, <2>2
<1>11. /\ es \in [Items -> {"none", "degraded"} \cup ClientErrors \cup Decisions]
       /\ \A n \in Items : n # i => es[n] = entries[n]
       /\ es[i] = Deserved(i)
  <2>1. kind[i] \in {"good", "badRule", "badCost"}
    BY <1>7, <1>8, <1>9 DEF Kinds
  <2>2. CASE kind[i] = "good"
    <3>1. es = entries
      BY <1>5, <1>8, <2>2 DEF RuleReply, Resolved
    <3> QED BY <1>7, <1>9, <2>2, <3>1 DEF Deserved
  <2>3. CASE kind[i] = "badRule"
    <3>1. es = [entries EXCEPT ![i] = "unknownRule"]
      BY <1>5, <1>8, <2>3 DEF RuleReply
    <3> QED BY <1>7, <1>8, <2>3, <3>1 DEF Deserved, ClientErrors
  <2>4. CASE kind[i] = "badCost"
    <3>1. es = [entries EXCEPT ![i] = "invalid"]
      BY <1>5, <1>8, <2>4 DEF RuleReply, Resolved
    <3> QED BY <1>7, <1>8, <2>4, <3>1 DEF Deserved, ClientErrors
  <2> QED BY <2>1, <2>2, <2>3, <2>4
<1>12. \A n \in Items : AskedFor(n) <=> n = i \/ \E k \in DOMAIN q : q[k].item = n
  BY <1>2, <1>3 DEF AskedFor
<1>13. ASSUME NEW n \in Items, ~(\E k \in DOMAIN q : q[k].item = n)
       PROVE  (kind[n] = "good" <=> \E k \in DOMAIN run : run[k] = n) /\ es[n] = Deserved(n)
  <2>1. CASE n = i
    BY <1>9, <1>10, <1>11, <2>1
  <2>2. CASE n # i
    <3>1. Settled(n)
      BY <1>12, <1>13, <2>2 DEF BatchInv, Resolving
    <3> QED BY <1>10, <1>11, <2>2, <3>1 DEF Settled
  <2> QED BY <2>1, <2>2
<1>14. ASSUME NEW n \in Items, \E k \in DOMAIN q : q[k].item = n
       PROVE  es[n] = "none" /\ ~(\E k \in DOMAIN run : run[k] = n) /\ kind[n] # "noIdentifier"
  <2>1. n # i /\ AskedFor(n)
    BY <1>2, <1>3, <1>12, <1>14
  <2>2. entries[n] = "none" /\ ~InRun(n) /\ kind[n] # "noIdentifier"
    BY <2>1 DEF BatchInv, Resolving
  <2> QED BY <1>10, <1>11, <2>1, <2>2
<1>15. CASE ~LiveIn(q)
  <2>1. q = <<>>
    <3>1. q \in Seq(Queued)
      BY <1>2 DEF QueueOK
    <3> QED BY <1>8, <1>15, <3>1, NoneLive
  <2>2. Evaluate(run, <<>>)
    BY <1>6, <1>15, <2>1
  <2>3. Ready(run, es)
    <3>1. DOMAIN q = {}
      BY <2>1
    <3> QED BY <1>10, <1>11, <1>13, <3>1 DEF Ready
  <2> QED BY <1>6, <2>2, <2>3, EvaluateStep
<1>16. CASE LiveIn(q)
  <2>1. phase' = "resolve" /\ queue' = q
    BY <1>6, <1>16
  <2>8. verdict' = verdict /\ kind' = kind
    BY DEF Quiet
  <2>9. /\ SpendsOnce' /\ Cold' /\ PipeOK' /\ (queue \in Seq(Queued))' /\ (shaKnown \in BOOLEAN)'
        /\ (kind \in [Items -> Kinds])' /\ (warm \in [Items -> BOOLEAN])'
        /\ (redis \in [scripts: BOOLEAN, spent: 0..Limit])'
        /\ (verdict \in [Items -> {"none"} \cup Decisions])' /\ (flushes \in Nat)'
    BY <1>2, <2>1, QuietStep
  <2>10. TypeOK'
    BY <1>6, <1>10, <1>11, <2>1, <2>9 DEF BatchInv, TypeOK
  <2>11. Single'
    BY <1>6, <1>10 DEF Single
  <2>12. Begun'
    <3>1. results = <<>> /\ decided = 0 /\ \A n \in Items : verdict[n] = "none"
      BY DEF BatchInv, Begun
    <3> QED BY <1>8, <2>1, <2>8, <3>1 DEF Begun, CommandOf
  <2>13. Resolving'
    <3>1. ASSUME NEW n \in Items
          PROVE  /\ AskedFor(n)' <=> \E k \in DOMAIN q : q[k].item = n
                 /\ InRun(n)' <=> \E k \in DOMAIN run : run[k] = n
                 /\ Deserved(n)' = Deserved(n) /\ kind'[n] = kind[n] /\ entries'[n] = es[n]
      <4>1. AskedFor(n)' <=> \E k \in DOMAIN q : q[k].item = n
        BY <2>1 DEF AskedFor
      <4>2. InRun(n)' <=> \E k \in DOMAIN run : run[k] = n
        BY <1>6 DEF InRun
      <4> QED BY <1>6, <2>8, <4>1, <4>2 DEF Deserved
    <3>2. ASSUME NEW n \in Items
          PROVE  (IF AskedFor(n)
                  THEN entries[n] = "none" /\ ~InRun(n) /\ kind[n] # "noIdentifier"
                  ELSE Settled(n))'
      BY <1>13, <1>14, <3>1 DEF Settled
    <3> QED BY <3>2 DEF Resolving
  <2>14. AllSettled' /\ Piped' /\ ResultsOK' /\ Walking' /\ Rerunning'
    BY <2>1 DEF AllSettled, Piped, ResultsOK, Walking, Rerunning
  <2>15. Ended'
    BY <2>1 DEF BatchInv, Ended
  <2> QED BY <2>9, <2>10, <2>11, <2>12, <2>13, <2>14, <2>15 DEF BatchInv
<1> QED BY <1>15, <1>16

LEMMA ShasStep ==
  ASSUME BatchInv, Quiet, timeouts' = timeouts, queue # <<>>, phase = "shas",
         Head(queue).reply # "none", shaKnown' = TRUE,
         IF LiveIn(Tail(queue)) THEN phase' = phase /\ queue' = Tail(queue)
         ELSE phase' = "pipeline" /\ queue' = Tail(queue) \o Commands(runnable, "eval"),
         UNCHANGED <<runnable, entries, results, decided, answer, errors>>
  PROVE  BatchInv'
<1>1. PICK c, q : c = Head(queue) /\ q = Tail(queue)
  OBVIOUS
<1>2. /\ QueueOK(q, shaKnown) /\ shaKnown \in BOOLEAN /\ c = queue[1] /\ 1 \in DOMAIN queue
      /\ c \in Queued /\ CommandOK(c, kind, redis.scripts, flushes, shaKnown, verdict)
      /\ \A k \in DOMAIN q : /\ k + 1 \in DOMAIN queue /\ q[k] = queue[k + 1] /\ q[k].item # c.item
      /\ \A j \in DOMAIN queue : j # 1 => \E k \in DOMAIN q : queue[j] = q[k]
  <2>1. c = Head(queue) /\ q = Tail(queue)
    BY <1>1
  <2> QED BY <2>1, OldestAwaited
<1>3. /\ \A k \in DOMAIN queue : queue[k].live /\ queue[k].cmd = "load"
      /\ results = <<>> /\ decided = 0 /\ \A n \in Items : verdict[n] = "none"
  BY DEF BatchInv, Begun, CommandOf
<1>4. redis.scripts \/ flushes >= 1
  <2>1. c.cmd = "load" /\ c.reply # "none"
    BY <1>1, <1>2, <1>3
  <2> QED BY <1>2, <2>1 DEF CommandOK
<1>9. PICK known \in BOOLEAN : known
  OBVIOUS
<1>5. QueueOK(q, known) /\ \A k \in DOMAIN q : q[k].live /\ q[k].cmd = "load"
  <2>1. QueueOK(q, known)
    BY <1>2, <1>9, ShaLearnt
  <2> QED BY <1>2, <1>3, <2>1
<1>10. shaKnown' = known /\ known \in BOOLEAN
  BY <1>9
<1>6. Ready(runnable, entries)
  BY DEF BatchInv, TypeOK, Single, AllSettled, Settled, InRun, Ready
<1>7. CASE ~LiveIn(q)
  <2>1. q = <<>>
    <3>1. q \in Seq(Queued)
      BY <1>2 DEF QueueOK
    <3> QED BY <1>5, <1>7, <3>1, NoneLive
  <2>2. /\ QueueOK(Commands(runnable, "eval"), known) /\ Asked(Commands(runnable, "eval"), runnable, "eval")
        /\ <<>> \o Commands(runnable, "eval") = Commands(runnable, "eval")
    BY <1>6, <1>9, AskedQueue
  <2>3. phase' = "pipeline" /\ queue' = Commands(runnable, "eval")
    BY <1>1, <1>7, <2>1, <2>2
  <2> QED BY <1>4, <1>6, <1>10, <2>2, <2>3, EnterStep
<1>8. CASE LiveIn(q)
  <2>1. phase' = "shas" /\ queue' = q
    BY <1>1, <1>8
  <2>8. verdict' = verdict /\ kind' = kind
    BY DEF Quiet
  <2>9. /\ SpendsOnce' /\ Cold' /\ PipeOK' /\ (queue \in Seq(Queued))' /\ (shaKnown \in BOOLEAN)'
        /\ (kind \in [Items -> Kinds])' /\ (warm \in [Items -> BOOLEAN])'
        /\ (redis \in [scripts: BOOLEAN, spent: 0..Limit])'
        /\ (verdict \in [Items -> {"none"} \cup Decisions])' /\ (flushes \in Nat)'
    BY <1>4, <1>5, <1>10, <2>1, QuietStep
  <2>10. TypeOK'
    BY <2>1, <2>9 DEF BatchInv, TypeOK
  <2>11. Single'
    BY DEF BatchInv, Single
  <2>12. Begun'
    BY <1>3, <1>5, <2>1, <2>8 DEF Begun, CommandOf
  <2>13. AllSettled'
    BY <2>1, <2>8 DEF BatchInv, AllSettled, Settled, InRun, Deserved
  <2>14. Resolving' /\ Piped' /\ ResultsOK' /\ Walking' /\ Rerunning'
    BY <2>1 DEF Resolving, Piped, ResultsOK, Walking, Rerunning
  <2>15. Ended'
    BY <2>1 DEF BatchInv, Ended
  <2> QED BY <2>9, <2>10, <2>11, <2>12, <2>13, <2>14, <2>15 DEF BatchInv
<1> QED BY <1>7, <1>8
\* One item of the pipeline has its result: the reply to its command, or the error of a
\* command that nobody awaits any more.
LEMMA ResultStep ==
  ASSUME BatchInv, Quiet, phase = "pipeline", NEW i, NEW reply, NEW q, QueueOK(q, shaKnown),
         PipelineResult(i, reply, q),
         UNCHANGED <<runnable, entries, decided, shaKnown, answer, errors>>,
         timeouts' \in Nat, timeouts' >= timeouts,
         reply \in {"error", "noscript"} \cup Decisions,
         reply \in Decisions => verdict[i] = reply,
         reply = "noscript" => verdict[i] = "none",
         reply = "error" => timeouts' >= 1,
         \A j \in DOMAIN q : q[j].live =>
           q[j].item # i /\ \E k \in DOMAIN queue : queue[k].live /\ queue[k].cmd = q[j].cmd /\ queue[k].item = q[j].item,
         \A k \in DOMAIN queue : queue[k].live /\ queue[k].item # i =>
           \E j \in DOMAIN q : q[j].live /\ q[j].item = queue[k].item,
         \A j \in DOMAIN q : ~q[j].live =>
           \/ q[j].item = i /\ reply = "error"
           \/ q[j].item # i /\ \E k \in DOMAIN queue : ~queue[k].live /\ queue[k].item = q[j].item,
         \E k \in DOMAIN queue : queue[k].live /\ queue[k].item = i
  PROVE  BatchInv'
<1>1. /\ queue' = q
      /\ results' = [k \in DOMAIN runnable |->
                      IF runnable[k] = i THEN reply
                      ELSE IF k \in DOMAIN results THEN results[k] ELSE "none"]
      /\ phase' = IF LiveIn(q) THEN "pipeline" ELSE "walk"
  BY DEF PipelineResult
<1>2. /\ runnable \in Seq(Items) /\ results \in Seq({"none", "error", "noscript"} \cup Decisions)
      /\ \A j, k \in DOMAIN runnable : runnable[j] = runnable[k] => j = k
      /\ shaKnown \in BOOLEAN /\ timeouts \in Nat
  BY DEF BatchInv, TypeOK, Single
<1>3. /\ decided = 0 /\ DOMAIN results \subseteq DOMAIN runnable
      /\ \A j \in DOMAIN queue : queue[j].live =>
           /\ queue[j].cmd = "eval"
           /\ \E k \in DOMAIN runnable : runnable[k] = queue[j].item /\ Told(k) = "none"
      /\ \A k \in DOMAIN runnable : Told(k) = "none" =>
           \E j \in DOMAIN queue : queue[j].live /\ queue[j].item = runnable[k]
  BY DEF BatchInv, Piped, ResultsOK
<1>4. PICK w \in DOMAIN runnable : runnable[w] = i /\ Told(w) = "none"
  BY <1>3
<1>5. PICK rs : rs = results'
  OBVIOUS
<1>6. /\ DOMAIN rs = DOMAIN runnable /\ rs[w] = reply
      /\ \A k \in DOMAIN runnable : k # w => runnable[k] # i /\ rs[k] = Told(k)
  BY <1>1, <1>2, <1>4, <1>5 DEF Told
<1>7. \A k \in DOMAIN runnable : Told(k) \in {"none", "error", "noscript"} \cup Decisions
  BY <1>2 DEF Told
<1>8. rs \in Seq({"none", "error", "noscript"} \cup Decisions)
  <2>1. DOMAIN runnable = 1..Len(runnable) /\ Len(runnable) \in Nat
    BY <1>2
  <2>2. rs = [k \in 1..Len(runnable) |->
                IF runnable[k] = i THEN reply
                ELSE IF k \in DOMAIN results THEN results[k] ELSE "none"]
    BY <1>1, <1>5, <2>1
  <2>3. \A k \in 1..Len(runnable) : rs[k] \in {"none", "error", "noscript"} \cup Decisions
    BY <1>6, <1>7, <2>1
  <2>4. rs \in [1..Len(runnable) -> {"none", "error", "noscript"} \cup Decisions]
    BY <2>2, <2>3
  <2> QED BY <2>1, <2>4, FunctionIsSeq
<1>9. \A k : k \in DOMAIN runnable => Told(k)' = rs[k]
  BY <1>5, <1>6 DEF Told
<1>11. verdict' = verdict /\ kind' = kind
  BY DEF Quiet
<1>20. /\ SpendsOnce' /\ Cold' /\ PipeOK' /\ (queue \in Seq(Queued))' /\ (shaKnown \in BOOLEAN)'
       /\ (kind \in [Items -> Kinds])' /\ (warm \in [Items -> BOOLEAN])'
       /\ (redis \in [scripts: BOOLEAN, spent: 0..Limit])'
       /\ (verdict \in [Items -> {"none"} \cup Decisions])' /\ (flushes \in Nat)'
  BY <1>1, <1>2, QuietStep
<1>10. TypeOK'
  <2>1. decided' \in 0..Len(results')
    <3>1. Len(rs) \in Nat
      BY <1>8
    <3> QED BY <1>3, <1>5, <3>1
  <2>2. phase' \in {"auth", "resolve", "shas", "pipeline", "walk", "rerun", "done"}
    BY <1>1
  <2> QED BY <1>5, <1>8, <1>20, <2>1, <2>2 DEF BatchInv, TypeOK
<1>12. Single'
  BY DEF BatchInv, Single
<1>13. AllSettled'
  BY <1>11 DEF BatchInv, AllSettled, Settled, InRun, Deserved
<1>14. Begun' /\ Resolving' /\ Rerunning'
  BY <1>1 DEF Begun, Resolving, Rerunning
<1>15. Piped'
  <2> SUFFICES ASSUME phase' = "pipeline" PROVE Piped'
    BY DEF Piped
  <2>1. ASSUME NEW j \in DOMAIN q, q[j].live
        PROVE  /\ q[j].cmd = "eval"
               /\ \E k \in DOMAIN runnable : runnable[k] = q[j].item /\ rs[k] = "none"
    <3>1. PICK h \in DOMAIN queue : queue[h].live /\ queue[h].cmd = q[j].cmd /\ queue[h].item = q[j].item
      BY <2>1
    <3>2. q[j].cmd = "eval" /\ \E k \in DOMAIN runnable : runnable[k] = q[j].item /\ Told(k) = "none"
      BY <1>3, <3>1
    <3>3. q[j].item # i
      BY <2>1
    <3> QED BY <1>4, <1>6, <3>2, <3>3
  <2>2. ASSUME NEW k \in DOMAIN runnable, rs[k] = "none"
        PROVE  \E j \in DOMAIN q : q[j].live /\ q[j].item = runnable[k]
    <3>1. k # w
      BY <1>6, <2>2 DEF Decisions
    <3>2. Told(k) = "none" /\ runnable[k] # i
      BY <1>6, <2>2, <3>1
    <3>3. PICK h \in DOMAIN queue : queue[h].live /\ queue[h].item = runnable[k]
      BY <1>3, <3>2
    <3> QED BY <3>2, <3>3
  <2> QED BY <1>1, <1>3, <1>9, <2>1, <2>2 DEF Piped
<1>16. ResultsOK'
  <2>1. ASSUME NEW j \in DOMAIN q, ~q[j].live
        PROVE  \E k \in DOMAIN rs : runnable[k] = q[j].item /\ rs[k] = "error"
    <3>1. CASE q[j].item = i /\ reply = "error"
      BY <1>4, <1>6, <3>1
    <3>2. CASE q[j].item # i /\ \E k \in DOMAIN queue : ~queue[k].live /\ queue[k].item = q[j].item
      <4>1. PICK k \in DOMAIN results : runnable[k] = q[j].item /\ results[k] = "error"
        BY <3>2 DEF BatchInv, ResultsOK
      <4>2. k \in DOMAIN runnable /\ k # w /\ Told(k) = "error"
        BY <1>3, <1>4, <3>2, <4>1 DEF Told
      <4> QED BY <1>6, <4>1, <4>2
    <3> QED BY <2>1, <3>1, <3>2
  <2>2. ASSUME NEW k \in DOMAIN rs
        PROVE  /\ rs[k] \in Decisions => verdict[runnable[k]] = rs[k]
               /\ rs[k] = "error" => timeouts' >= 1
               /\ rs[k] = "noscript" => verdict[runnable[k]] = "none"
    <3>1. CASE k = w
      BY <1>4, <1>6, <3>1 DEF Decisions
    <3>2. CASE k # w
      <4>1. rs[k] = Told(k)
        BY <1>6, <3>2
      <4>2. CASE k \in DOMAIN results
        <5>1. /\ results[k] \in Decisions => verdict[runnable[k]] = results[k]
              /\ results[k] = "error" => timeouts >= 1
              /\ results[k] = "noscript" => verdict[runnable[k]] = "none"
          BY <4>2 DEF BatchInv, ResultsOK
        <5>2. timeouts >= 1 => timeouts' >= 1
          BY <1>2
        <5> QED BY <4>1, <4>2, <5>1, <5>2 DEF Told
      <4>3. CASE k \notin DOMAIN results
        BY <4>1, <4>3 DEF Told, Decisions
      <4> QED BY <4>2, <4>3
    <3> QED BY <3>1, <3>2
  <2> QED BY <1>1, <1>5, <1>6, <1>11, <2>1, <2>2 DEF ResultsOK
<1>17. Walking'
  <2> SUFFICES ASSUME phase' = "walk" PROVE Walking'
    BY <1>1 DEF Walking
  <2>1. ~LiveIn(q)
    BY <1>1
  <2>2. \A j \in DOMAIN q : ~q[j].live
    BY <2>1 DEF LiveIn
  <2>3. ASSUME NEW k \in DOMAIN runnable PROVE rs[k] # "none"
    <3>1. CASE k = w
      BY <1>6, <3>1 DEF Decisions
    <3>2. CASE k # w
      BY <1>3, <1>6, <2>2, <3>2
    <3> QED BY <3>1, <3>2
  <2>4. \A k \in DOMAIN rs : ~(k <= decided')
    BY <1>3, <1>8
  <2> QED BY <1>1, <1>5, <1>6, <2>2, <2>3, <2>4 DEF Walking
<1>18. Ended'
  <2>1. phase' # "done" /\ answer = "none" /\ errors = 0
    BY <1>1 DEF BatchInv, Ended
  <2> QED BY <2>1 DEF Ended
<1> QED BY <1>10, <1>12, <1>13, <1>14, <1>15, <1>16, <1>17, <1>18, <1>20 DEF BatchInv

LEMMA PipelineStep ==
  ASSUME BatchInv, Quiet, timeouts' = timeouts, queue # <<>>, phase = "pipeline",
         Head(queue).live, Head(queue).reply # "none",
         PipelineResult(Head(queue).item, Head(queue).reply, Tail(queue)),
         UNCHANGED <<runnable, entries, decided, shaKnown, answer, errors>>
  PROVE  BatchInv'
<1>1. PICK c, q : c = Head(queue) /\ q = Tail(queue)
  OBVIOUS
<1>2. /\ QueueOK(q, shaKnown) /\ shaKnown \in BOOLEAN /\ c = queue[1] /\ 1 \in DOMAIN queue
      /\ c \in Queued /\ CommandOK(c, kind, redis.scripts, flushes, shaKnown, verdict)
      /\ \A k \in DOMAIN q : /\ k + 1 \in DOMAIN queue /\ q[k] = queue[k + 1] /\ q[k].item # c.item
      /\ \A j \in DOMAIN queue : j # 1 => \E k \in DOMAIN q : queue[j] = q[k]
  <2>1. c = Head(queue) /\ q = Tail(queue)
    BY <1>1
  <2> QED BY <2>1, OldestAwaited
<1>3. c.cmd = "eval" /\ c.live /\ c.reply # "none"
  BY <1>1, <1>2 DEF BatchInv, Piped
<1>4. /\ c.reply \in {"error", "noscript"} \cup Decisions /\ c.reply # "error"
      /\ c.reply \in Decisions => verdict[c.item] = c.reply
      /\ c.reply = "noscript" => verdict[c.item] = "none"
  BY <1>2, <1>3 DEF CommandOK, Decisions
<1>5. timeouts' \in Nat /\ timeouts' >= timeouts
  BY DEF BatchInv, TypeOK
<1>6. \A j \in DOMAIN q : /\ q[j].item # c.item
                          /\ \E k \in DOMAIN queue : queue[k] = q[j]
  BY <1>2
<1>7. \A j \in DOMAIN q : q[j].live =>
        q[j].item # c.item /\ \E k \in DOMAIN queue : queue[k].live /\ queue[k].cmd = q[j].cmd /\ queue[k].item = q[j].item
  BY <1>6
<1>8. \A k \in DOMAIN queue : queue[k].live /\ queue[k].item # c.item =>
        \E j \in DOMAIN q : q[j].live /\ q[j].item = queue[k].item
  BY <1>2
<1>9. \A j \in DOMAIN q : ~q[j].live =>
        \/ q[j].item = c.item /\ c.reply = "error"
        \/ q[j].item # c.item /\ \E k \in DOMAIN queue : ~queue[k].live /\ queue[k].item = q[j].item
  BY <1>6
<1>10. \E k \in DOMAIN queue : queue[k].live /\ queue[k].item = c.item
  BY <1>2, <1>3
<1>11. PipelineResult(c.item, c.reply, q)
  BY <1>1
<1> QED BY <1>2, <1>4, <1>5, <1>7, <1>8, <1>9, <1>10, <1>11, ResultStep

LEMMA TimeoutStep == ASSUME BatchInv, Timeout PROVE BatchInv'
<1>1. PICK k \in DOMAIN queue :
        LET q == [queue EXCEPT ![k].live = FALSE] IN
          /\ queue[k].live
          /\ timeouts' = timeouts + 1
          /\ \/ /\ phase = "pipeline"
                /\ PipelineResult(queue[k].item, "error", q)
                /\ UNCHANGED <<runnable, entries, decided, shaKnown, answer, errors>>
             \/ phase # "pipeline" /\ Abort(q)
          /\ UNCHANGED <<kind, warm, redis, verdict, flushes>>
  BY Zenon DEF Timeout
<1>2. PICK q : q = [queue EXCEPT ![k].live = FALSE]
  OBVIOUS
<1>3. PICK i : i = queue[k].item
  OBVIOUS
<1>4. QueueOK(queue, shaKnown) /\ shaKnown \in BOOLEAN /\ timeouts \in Nat
  BY DEF BatchInv, PipeOK, TypeOK
<1>5. /\ QueueOK(q, shaKnown) /\ DOMAIN q = DOMAIN queue
      /\ \A j \in DOMAIN queue : j # k => q[j] = queue[j]
      /\ ~q[k].live
      /\ \A j \in DOMAIN queue : q[j].item = queue[j].item /\ q[j].cmd = queue[j].cmd
  <2>1. PICK d : d = [queue[k] EXCEPT !.live = FALSE]
    OBVIOUS
  <2>2. q = [queue EXCEPT ![k] = d]
    BY Zenon, <1>2, <2>1
  <2>3. queue[k] \in Queued
    BY <1>4 DEF QueueOK
  <2>4. /\ d \in Queued /\ d.item = queue[k].item /\ d.cmd = queue[k].cmd
        /\ d.reply = queue[k].reply /\ ~d.live
    BY <2>1, <2>3, DeadCommand
  <2> QED BY <1>4, <2>2, <2>4, OneDead
<1>6. Quiet
  BY <1>1 DEF Quiet
<1>7. queue[k].live /\ timeouts' = timeouts + 1
  BY <1>1
<1>8. timeouts' \in Nat /\ timeouts' >= timeouts /\ timeouts' >= 1
  BY <1>4, <1>7
<1>9. phase # "done"
  BY <1>7 DEF BatchInv, Ended
<1>10. CASE phase # "pipeline" /\ Abort(q)
  BY <1>5, <1>6, <1>8, <1>9, <1>10, AbortStep
<1>11. CASE /\ phase = "pipeline" /\ PipelineResult(i, "error", q)
            /\ UNCHANGED <<runnable, entries, decided, shaKnown, answer, errors>>
  <2>1. \A j \in DOMAIN queue : j # k => queue[j].item # i
    BY <1>3, <1>4 DEF QueueOK
  <2>2. \A j \in DOMAIN q : q[j].live =>
          q[j].item # i /\ \E h \in DOMAIN queue : queue[h].live /\ queue[h].cmd = q[j].cmd /\ queue[h].item = q[j].item
    BY <1>5, <2>1
  <2>3. \A h \in DOMAIN queue : queue[h].live /\ queue[h].item # i =>
          \E j \in DOMAIN q : q[j].live /\ q[j].item = queue[h].item
    BY <1>3, <1>5
  <2>4. \A j \in DOMAIN q : ~q[j].live =>
          \/ q[j].item = i /\ "error" = "error"
          \/ q[j].item # i /\ \E h \in DOMAIN queue : ~queue[h].live /\ queue[h].item = q[j].item
    BY <1>3, <1>5, <2>1
  <2>5. \E h \in DOMAIN queue : queue[h].live /\ queue[h].item = i
    BY <1>3, <1>7
  <2>6. PICK err : err = "error"
    OBVIOUS
  <2>7. /\ err \in {"error", "noscript"} \cup Decisions /\ err \notin Decisions /\ err # "noscript"
        /\ PipelineResult(i, err, q)
    BY <1>11, <2>6 DEF Decisions
  <2>8. \A j \in DOMAIN q : ~q[j].live =>
          \/ q[j].item = i /\ err = "error"
          \/ q[j].item # i /\ \E h \in DOMAIN queue : ~queue[h].live /\ queue[h].item = q[j].item
    BY <2>4, <2>6
  <2>9. phase = "pipeline" /\ UNCHANGED <<runnable, entries, decided, shaKnown, answer, errors>>
    BY <1>11
  <2> QED BY <1>5, <1>6, <1>8, <2>2, <2>3, <2>5, <2>7, <2>8, <2>9, ResultStep
<1>12. \/ /\ phase = "pipeline" /\ PipelineResult(i, "error", q)
          /\ UNCHANGED <<runnable, entries, decided, shaKnown, answer, errors>>
       \/ phase # "pipeline" /\ Abort(q)
  BY Zenon, <1>1, <1>2, <1>3
<1> QED BY <1>10, <1>11, <1>12
\* The oldest command while one item has a run of its own, if it is awaited.
LEMMA OwnRun ==
  ASSUME BatchInv, phase = "rerun", queue # <<>>, Head(queue).live
  PROVE  /\ QueueOK(Tail(queue), shaKnown) /\ shaKnown \in BOOLEAN
         /\ Head(queue) \in Queued
         /\ CommandOK(Head(queue), kind, redis.scripts, flushes, shaKnown, verdict)
         /\ Head(queue).cmd \in {"load", "reload", "eval", "reeval"}
         /\ Head(queue).cmd \in {"load", "reload"} => verdict[Head(queue).item] = "none"
         /\ Head(queue).item \in Items /\ Head(queue).item = runnable[Next1]
         /\ \A k \in DOMAIN Tail(queue) :
              /\ ~Tail(queue)[k].live /\ Tail(queue)[k].item # Head(queue).item
              /\ \E j \in DOMAIN queue : queue[j] = Tail(queue)[k]
         /\ decided < Len(results) /\ results[Next1] = "noscript"
         /\ decided \in Nat /\ Next1 \in DOMAIN results /\ Next1 \in DOMAIN runnable
<1>1. PICK c, q : c = Head(queue) /\ q = Tail(queue)
  OBVIOUS
<1>2. /\ QueueOK(q, shaKnown) /\ shaKnown \in BOOLEAN /\ c = queue[1] /\ 1 \in DOMAIN queue
      /\ c \in Queued /\ CommandOK(c, kind, redis.scripts, flushes, shaKnown, verdict)
      /\ \A k \in DOMAIN q : /\ k + 1 \in DOMAIN queue /\ q[k] = queue[k + 1] /\ q[k].item # c.item
      /\ \A j \in DOMAIN queue : j # 1 => \E k \in DOMAIN q : queue[j] = q[k]
  <2>1. c = Head(queue) /\ q = Tail(queue)
    BY <1>1
  <2> QED BY <2>1, OldestAwaited
<1>3. decided < Len(results) /\ results[Next1] = "noscript"
  BY DEF BatchInv, Rerunning
<1>4. PICK j \in DOMAIN queue :
         /\ queue[j].live /\ queue[j].item = runnable[Next1]
         /\ queue[j].cmd \in {"load", "reload", "eval", "reeval"}
         /\ queue[j].cmd \in {"load", "reload"} => verdict[runnable[Next1]] = "none"
         /\ \A k \in DOMAIN queue : queue[k].live => k = j
  BY DEF BatchInv, Rerunning
<1>5. j = 1
  BY <1>1, <1>2, <1>4
<1>6. decided \in Nat /\ Next1 \in DOMAIN results /\ Next1 \in DOMAIN runnable
  <2>1. decided \in 0..Len(results) /\ Len(results) \in Nat /\ DOMAIN results = 1..Len(results)
    BY DEF BatchInv, TypeOK
  <2>2. Next1 \in DOMAIN results /\ decided \in Nat
    BY <1>3, <2>1 DEF Next1
  <2> QED BY <2>2 DEF BatchInv, Walking
<1>7. runnable[Next1] \in Items
  BY <1>6 DEF BatchInv, TypeOK
<1>8. ASSUME NEW k \in DOMAIN q PROVE ~q[k].live
  <2>1. q[k].live => k + 1 = 1
    BY <1>2, <1>4, <1>5
  <2>2. k \in Nat /\ k # 0
    <3>1. q \in Seq(Queued)
      BY <1>2 DEF QueueOK
    <3> QED BY <3>1
  <2> QED BY <2>1, <2>2
<1> QED BY <1>1, <1>2, <1>3, <1>4, <1>5, <1>6, <1>7, <1>8

LEMMA AgainStep ==
  ASSUME BatchInv, Quiet, timeouts' = timeouts, phase = "rerun", queue # <<>>, Head(queue).live,
         NEW cmd \in {"eval", "reload", "reeval"}, NEW sha \in BOOLEAN,
         queue' = Append(Tail(queue), Command(Head(queue).item, cmd)), shaKnown' = sha,
         sha = shaKnown \/ redis.scripts \/ flushes >= 1, shaKnown => sha,
         cmd \in {"eval", "reeval"} => sha, verdict[Head(queue).item] = "none",
         cmd \in {"reload", "reeval"} => flushes >= 1,
         cmd = "reeval" => redis.scripts \/ flushes >= 2,
         UNCHANGED <<phase, runnable, entries, results, decided, answer, errors>>
  PROVE  BatchInv'
<1>21. PICK c, q : c = Head(queue) /\ q = Tail(queue)
  OBVIOUS
<1>22. verdict[c.item] = "none" /\ queue' = Append(q, Command(c.item, cmd))
  BY <1>21
<1>1. /\ QueueOK(q, shaKnown) /\ shaKnown \in BOOLEAN
      /\ c \in Queued /\ CommandOK(c, kind, redis.scripts, flushes, shaKnown, verdict)
      /\ c.cmd \in {"load", "reload", "eval", "reeval"}
      /\ c.cmd \in {"load", "reload"} => verdict[c.item] = "none"
      /\ c.item \in Items /\ c.item = runnable[Next1]
      /\ \A k \in DOMAIN q : ~q[k].live /\ q[k].item # c.item /\ \E j \in DOMAIN queue : queue[j] = q[k]
      /\ decided < Len(results) /\ results[Next1] = "noscript"
      /\ decided \in Nat /\ Next1 \in DOMAIN results /\ Next1 \in DOMAIN runnable
  <2>1. c = Head(queue) /\ q = Tail(queue)
    BY <1>21
  <2> QED BY <2>1, OwnRun
<1>2. QueueOK(q, sha)
  BY <1>1, ShaLearnt
<1>3. PICK d : d = Command(c.item, cmd)
  OBVIOUS
<1>4. cmd \in Cmds /\ cmd \in Cmds \ {"get"} /\ c.item \in Items \cup {Service}
  BY <1>1 DEF Cmds
<1>5. d \in Queued /\ d.item = c.item /\ d.cmd = cmd /\ d.live
  BY <1>3, <1>4, NewCommand
<1>6. CommandOK(d, kind, redis.scripts, flushes, sha, verdict)
  <2>1. cmd \in {"eval", "reeval"} => sha /\ verdict[c.item] = "none"
    BY <1>22
  <2>2. CommandOK(Command(c.item, cmd), kind, redis.scripts, flushes, sha, verdict)
    BY <1>1, <1>4, <2>1, FreshOK
  <2> QED BY <1>3, <2>2
<1>7. PICK n : n = Len(q) + 1
  OBVIOUS
<1>8. /\ QueueOK(Append(q, d), sha) /\ DOMAIN Append(q, d) = DOMAIN q \cup {n}
      /\ n \notin DOMAIN q /\ Append(q, d)[n] = d
      /\ \A k \in DOMAIN q : Append(q, d)[k] = q[k]
  <2>1. Absent(q, d.item)
    BY <1>1, <1>5 DEF Absent
  <2>2. /\ QueueOK(Append(q, d), sha) /\ DOMAIN Append(q, d) = DOMAIN q \cup {Len(q) + 1}
        /\ Len(q) + 1 \notin DOMAIN q /\ Append(q, d)[Len(q) + 1] = d
        /\ \A k \in DOMAIN q : Append(q, d)[k] = q[k]
    <3>1. d \in Queued
      BY <1>5
    <3> QED BY <1>2, <1>6, <2>1, <3>1, OneMore
  <2> QED BY Zenon, <1>7, <2>2
<1>9. PICK r : r = queue'
  OBVIOUS
<1>10. /\ QueueOK(r, sha) /\ DOMAIN r = DOMAIN q \cup {n} /\ n \notin DOMAIN q /\ r[n] = d
       /\ \A k \in DOMAIN q : r[k] = q[k]
  <2>1. r = Append(q, d)
    BY <1>3, <1>9, <1>22
  <2> QED BY <1>8, <2>1
<1>11. Next1' = Next1 /\ verdict' = verdict /\ kind' = kind
  BY DEF Next1, Quiet
<1>20. /\ SpendsOnce' /\ Cold' /\ PipeOK' /\ (queue \in Seq(Queued))' /\ (shaKnown \in BOOLEAN)'
       /\ (kind \in [Items -> Kinds])' /\ (warm \in [Items -> BOOLEAN])'
       /\ (redis \in [scripts: BOOLEAN, spent: 0..Limit])'
       /\ (verdict \in [Items -> {"none"} \cup Decisions])' /\ (flushes \in Nat)'
  BY <1>9, <1>10, QuietStep
<1>12. TypeOK'
  BY <1>20 DEF BatchInv, TypeOK
<1>13. Single' /\ Begun' /\ Resolving' /\ Piped'
  BY DEF BatchInv, Single, Begun, Resolving, Piped
<1>14. AllSettled'
  BY <1>11 DEF BatchInv, AllSettled, Settled, InRun, Deserved
<1>15. ResultsOK'
  <2>1. ASSUME NEW j \in DOMAIN r, ~r[j].live
        PROVE  \E k \in DOMAIN results : runnable[k] = r[j].item /\ results[k] = "error"
    <3>1. j \in DOMAIN q /\ r[j] = q[j]
      BY <1>5, <1>10, <2>1
    <3>2. \E h \in DOMAIN queue : queue[h] = r[j]
      BY <1>1, <3>1
    <3> QED BY <2>1, <3>2 DEF BatchInv, ResultsOK
  <2> QED BY <1>9, <1>11, <2>1 DEF BatchInv, ResultsOK
<1>16. Walking'
  BY DEF BatchInv, Walking
<1>17. Rerunning'
  <2>1. n \in DOMAIN r /\ r[n].live /\ r[n].item = runnable[Next1] /\ r[n].cmd \in {"load", "reload", "eval", "reeval"}
    BY <1>1, <1>5, <1>10
  <2>2. verdict[runnable[Next1]] = "none"
    BY <1>1, <1>22
  <2>3. \A k \in DOMAIN r : r[k].live => k = n
    BY <1>1, <1>10
  <2> QED BY <1>1, <1>9, <1>11, <2>1, <2>2, <2>3 DEF Rerunning
<1>18. Ended'
  BY DEF BatchInv, Ended
<1> QED BY <1>12, <1>13, <1>14, <1>15, <1>16, <1>17, <1>18, <1>20 DEF BatchInv

LEMMA DecidedStep ==
  ASSUME BatchInv, Quiet, timeouts' = timeouts, phase = "rerun", queue # <<>>, Head(queue).live,
         NEW c, NEW q, c = Head(queue), q = Tail(queue), c.reply \in Decisions,
         queue' = q, results' = [results EXCEPT ![Next1] = c.reply], phase' = "walk",
         UNCHANGED <<runnable, entries, decided, shaKnown, answer, errors>>
  PROVE  BatchInv'
<1>1. /\ QueueOK(q, shaKnown) /\ shaKnown \in BOOLEAN
      /\ c \in Queued /\ CommandOK(c, kind, redis.scripts, flushes, shaKnown, verdict)
      /\ c.cmd \in {"load", "reload", "eval", "reeval"}
      /\ c.cmd \in {"load", "reload"} => verdict[c.item] = "none"
      /\ c.item \in Items /\ c.item = runnable[Next1]
      /\ \A k \in DOMAIN q : ~q[k].live /\ q[k].item # c.item /\ \E j \in DOMAIN queue : queue[j] = q[k]
      /\ decided < Len(results) /\ results[Next1] = "noscript"
      /\ decided \in Nat /\ Next1 \in DOMAIN results /\ Next1 \in DOMAIN runnable
  BY OwnRun
<1>2. verdict[c.item] = c.reply
  BY <1>1 DEF CommandOK, Decisions
<1>3. PICK rs : rs = results'
  OBVIOUS
<1>4. results \in Seq({"none", "error", "noscript"} \cup Decisions) /\ DOMAIN results = DOMAIN runnable
  BY DEF BatchInv, TypeOK, Walking
<1>5. /\ DOMAIN rs = DOMAIN results /\ rs[Next1] = c.reply
      /\ \A k \in DOMAIN results : k # Next1 => rs[k] = results[k]
  BY <1>1, <1>3, <1>4
<1>6. rs \in Seq({"none", "error", "noscript"} \cup Decisions) /\ Len(rs) = Len(results)
  BY <1>1, <1>3, <1>4
<1>11. Next1' = Next1 /\ verdict' = verdict /\ kind' = kind
  BY DEF Next1, Quiet
<1>20. /\ SpendsOnce' /\ Cold' /\ PipeOK' /\ (queue \in Seq(Queued))' /\ (shaKnown \in BOOLEAN)'
       /\ (kind \in [Items -> Kinds])' /\ (warm \in [Items -> BOOLEAN])'
       /\ (redis \in [scripts: BOOLEAN, spent: 0..Limit])'
       /\ (verdict \in [Items -> {"none"} \cup Decisions])' /\ (flushes \in Nat)'
  BY <1>1, QuietStep
<1>12. TypeOK'
  <2>1. decided' \in 0..Len(results')
    BY <1>3, <1>6 DEF BatchInv, TypeOK
  <2> QED BY <1>3, <1>6, <1>20, <2>1 DEF BatchInv, TypeOK
<1>13. Single' /\ Begun' /\ Resolving' /\ Piped' /\ Rerunning'
  BY DEF BatchInv, Single, Begun, Resolving, Piped, Rerunning
<1>14. AllSettled'
  BY <1>11 DEF BatchInv, AllSettled, Settled, InRun, Deserved
<1>15. ResultsOK'
  <2>1. ASSUME NEW j \in DOMAIN q, ~q[j].live
        PROVE  \E k \in DOMAIN rs : runnable[k] = q[j].item /\ rs[k] = "error"
    <3>1. PICK h \in DOMAIN queue : queue[h] = q[j]
      BY <1>1
    <3>2. PICK k \in DOMAIN results : runnable[k] = q[j].item /\ results[k] = "error"
      BY <2>1, <3>1 DEF BatchInv, ResultsOK
    <3>3. k # Next1
      BY <1>1, <3>2
    <3> QED BY <1>5, <3>2, <3>3
  <2>2. ASSUME NEW k \in DOMAIN results
        PROVE  /\ rs[k] \in Decisions => verdict[runnable[k]] = rs[k]
               /\ rs[k] = "error" => timeouts >= 1
               /\ rs[k] = "noscript" => verdict[runnable[k]] = "none"
    <3>1. CASE k = Next1
      BY <1>1, <1>2, <1>5, <3>1 DEF Decisions
    <3>2. CASE k # Next1
      BY <1>5, <3>2 DEF BatchInv, ResultsOK
    <3> QED BY <3>1, <3>2
  <2> QED BY <1>3, <1>4, <1>5, <1>11, <2>1, <2>2 DEF ResultsOK
<1>16. Walking'
  <2>1. \A k \in DOMAIN results : rs[k] # "none" /\ (k <= decided => rs[k] \in Decisions)
    BY <1>5 DEF BatchInv, Walking, Decisions
  <2> QED BY <1>1, <1>3, <1>4, <1>5, <2>1 DEF Walking
<1>18. Ended'
  BY DEF BatchInv, Ended
<1> QED BY <1>12, <1>13, <1>14, <1>15, <1>16, <1>18, <1>20 DEF BatchInv

LEMMA RerunReplyStep ==
  ASSUME BatchInv, Quiet, timeouts' = timeouts, phase = "rerun", queue # <<>>, Head(queue).live,
         Head(queue).reply # "none", RerunReply(Head(queue), Tail(queue))
  PROVE  BatchInv'
<1>1. PICK c : c = Head(queue)
  OBVIOUS
<1>2. PICK q : q = Tail(queue)
  OBVIOUS
<1>3. /\ QueueOK(q, shaKnown) /\ shaKnown \in BOOLEAN
      /\ c \in Queued /\ CommandOK(c, kind, redis.scripts, flushes, shaKnown, verdict)
      /\ c.cmd \in {"load", "reload"} => verdict[c.item] = "none"
  <2>1. c = Head(queue) /\ q = Tail(queue)
    BY <1>1, <1>2
  <2> QED BY <2>1, OwnRun
<1>4. c.reply # "none" /\ RerunReply(c, q)
  BY <1>1, <1>2
<1>5. CASE /\ c.cmd \in {"load", "reload"} /\ shaKnown' = TRUE
           /\ queue' = Append(q, Command(c.item, IF c.cmd = "load" THEN "eval" ELSE "reeval"))
           /\ UNCHANGED <<phase, runnable, entries, results, decided, answer, errors>>
  <2>1. PICK known \in BOOLEAN : known
    OBVIOUS
  <2>2. shaKnown' = known
    BY <1>5, <2>1
  <2>3. PICK cmd : cmd = IF c.cmd = "load" THEN "eval" ELSE "reeval"
    OBVIOUS
  <2>4. queue' = Append(q, Command(c.item, cmd)) /\ cmd \in {"eval", "reload", "reeval"}
    BY <1>5, <2>3
  <2>5. /\ redis.scripts \/ flushes >= 1
        /\ cmd \in {"reload", "reeval"} => flushes >= 1
        /\ cmd = "reeval" => redis.scripts \/ flushes >= 2
    BY <1>3, <1>4, <1>5, <2>3 DEF CommandOK
  <2> QED BY <1>1, <1>2, <1>3, <1>5, <2>1, <2>2, <2>4, <2>5, AgainStep
<1>6. CASE /\ c.cmd = "eval" /\ c.reply = "noscript" /\ queue' = Append(q, Command(c.item, "reload"))
           /\ UNCHANGED <<phase, runnable, entries, results, decided, shaKnown, answer, errors>>
  <2>1. flushes >= 1 /\ verdict[c.item] = "none"
    BY <1>3, <1>6 DEF CommandOK
  <2>2. shaKnown' = shaKnown /\ shaKnown \in BOOLEAN
    BY <1>3, <1>6
  <2>3. PICK cmd : cmd = "reload"
    OBVIOUS
  <2>4. /\ queue' = Append(q, Command(c.item, cmd)) /\ cmd \in {"eval", "reload", "reeval"}
        /\ cmd \notin {"eval", "reeval"} /\ cmd # "reeval"
    BY <1>6, <2>3
  <2> QED BY <1>1, <1>2, <1>6, <2>1, <2>2, <2>4, AgainStep
<1>7. CASE c.cmd = "reeval" /\ c.reply = "noscript" /\ Abort(q)
  <2>1. flushes >= 2
    BY <1>3, <1>7 DEF CommandOK
  <2>2. timeouts' \in Nat /\ phase # "done"
    BY DEF BatchInv, TypeOK
  <2> QED BY <1>3, <1>7, <2>1, <2>2, AbortStep
<1>8. CASE /\ c.reply \in Decisions /\ queue' = q /\ results' = [results EXCEPT ![Next1] = c.reply]
           /\ phase' = "walk" /\ UNCHANGED <<runnable, entries, decided, shaKnown, answer, errors>>
  BY <1>1, <1>2, <1>8, DecidedStep
<1> QED BY <1>4, <1>5, <1>6, <1>7, <1>8 DEF RerunReply

LEMMA DeliverStep == ASSUME BatchInv, Deliver PROVE BatchInv'
<1>1. queue # <<>> /\ Head(queue).reply # "none" /\ Quiet /\ timeouts' = timeouts
  BY DEF Deliver, Quiet
<1>2. CASE /\ ~Head(queue).live /\ queue' = Tail(queue)
           /\ UNCHANGED <<phase, runnable, entries, results, decided, shaKnown, answer, errors>>
  BY <1>1, <1>2, UnheardStep
<1>3. CASE /\ phase = "auth" /\ Authenticated(Tail(queue))
           /\ UNCHANGED <<results, decided, shaKnown, answer, errors>>
  BY <1>1, <1>3, AuthStep
<1>4. CASE /\ phase = "resolve" /\ RuleArrives(Head(queue).item, Head(queue).reply, Tail(queue))
           /\ UNCHANGED <<results, decided, shaKnown, answer, errors>>
  BY <1>1, <1>4, ResolveStep
<1>5. CASE /\ phase = "shas" /\ shaKnown' = TRUE
           /\ IF LiveIn(Tail(queue)) THEN phase' = phase /\ queue' = Tail(queue)
              ELSE phase' = "pipeline" /\ queue' = Tail(queue) \o Commands(runnable, "eval")
           /\ UNCHANGED <<runnable, entries, results, decided, answer, errors>>
  BY <1>1, <1>5, ShasStep
<1>6. CASE /\ Head(queue).live /\ phase = "pipeline"
           /\ PipelineResult(Head(queue).item, Head(queue).reply, Tail(queue))
           /\ UNCHANGED <<runnable, entries, decided, shaKnown, answer, errors>>
  BY <1>1, <1>6, PipelineStep
<1>7. CASE Head(queue).live /\ phase = "rerun" /\ RerunReply(Head(queue), Tail(queue))
  BY <1>1, <1>7, RerunReplyStep
<1> QED BY <1>2, <1>3, <1>4, <1>5, <1>6, <1>7 DEF Deliver

-----------------------------------------------------------------------------
(***************************************************************************)
(* The theorems.                                                           *)
(***************************************************************************)
\* The inductive invariant holds in every state of a batch.
THEOREM Invariance == Spec => []BatchInv
<1>1. Init => BatchInv
  BY BatchInit
<1>2. BatchInv /\ [Next]_vars => BatchInv'
  <2> SUFFICES ASSUME BatchInv, [Next]_vars PROVE BatchInv'
    OBVIOUS
  <2>1. CASE Walk
    <3>1. Quiet /\ timeouts' = timeouts
      BY <2>1 DEF Walk, Quiet
    <3> QED BY <2>1, <3>1, RerunStep, ThrowStep, AcceptStep, ReturnStep DEF Walk
  <2>2. CASE Execute
    BY <2>2, ExecuteStep
  <2>3. CASE Deliver
    BY <2>3, DeliverStep
  <2>4. CASE Timeout
    BY <2>4, TimeoutStep
  <2>5. CASE FlushScripts
    BY <2>5, FlushStep
  <2>6. CASE UNCHANGED vars
    <3>1. TypeOK' /\ SpendsOnce' /\ Cold' /\ Single' /\ Begun' /\ Piped' /\ Walking' /\ Rerunning'
      BY <2>6 DEF vars, BatchInv, TypeOK, SpendsOnce, Cold, Single, Begun, Piped, Told, Walking, Rerunning, Next1
    <3>2. PipeOK'
      BY <2>6 DEF vars, BatchInv, PipeOK, QueueOK
    <3>3. Resolving' /\ AllSettled'
      BY <2>6 DEF vars, BatchInv, Resolving, AllSettled, Settled, AskedFor, InRun, Deserved
    <3>4. ResultsOK' /\ Ended'
      BY <2>6 DEF vars, BatchInv, ResultsOK, Ended, Next1, Deserved
    <3> QED BY <3>1, <3>2, <3>3, <3>4 DEF BatchInv
  <2> QED BY <2>1, <2>2, <2>3, <2>4, <2>5, <2>6 DEF Next
<1> QED BY <1>1, <1>2, PTL DEF Spec

\* Every variable of checkBatch and of the pipe keeps its type.
THEOREM TypeCorrect == Spec => []TypeOK
<1>1. BatchInv => TypeOK
  BY DEF BatchInv
<1> QED BY <1>1, Invariance, PTL

\* checkBatch answers by position whatever the order its items were resolved and run in:
\* unless it degrades, each entry is its own item's decision or client error.
THEOREM Positions == Spec => []Positional
<1>1. BatchInv => Positional
  <2> SUFFICES ASSUME BatchInv, answer = "entries", errors = 0, NEW i \in Items
               PROVE  entries[i] = CASE kind[i] = "good"    -> verdict[i]
                                     [] kind[i] = "badRule" -> "unknownRule"
                                     [] OTHER               -> "invalid"
    BY DEF Positional
  <2>1. phase = "done"
    BY DEF BatchInv, Ended
  <2>2. entries[i] = IF kind[i] = "good" THEN verdict[i] ELSE Deserved(i)
    BY <2>1 DEF BatchInv, Ended
  <2> QED BY <2>2 DEF Deserved
<1> QED BY <1>1, Invariance, PTL

\* runMany charges no item twice, the run of its own after NOSCRIPT included, and the
\* items together are allowed no more than the key has tokens for.
THEOREM ChargedOnce == Spec => []SpendsOnce
<1>1. BatchInv => SpendsOnce
  BY DEF BatchInv
<1> QED BY <1>1, Invariance, PTL

\* A batch whose replies are all in time gets over one loss of the scripts, whenever it
\* strikes: the walk of runMany reruns what it interrupted.
THEOREM LossHidden == Spec => []ScriptLossHidden
<1>1. BatchInv => ScriptLossHidden
  <2> SUFFICES ASSUME BatchInv, timeouts = 0, flushes <= 1 PROVE errors = 0
    BY DEF ScriptLossHidden
  <2>1. errors \in {0, 1} /\ flushes \in Nat
    BY DEF BatchInv, TypeOK
  <2>2. errors # 1
    BY <2>1 DEF BatchInv, Ended
  <2> QED BY <2>1, <2>2
<1> QED BY <1>1, Invariance, PTL
=============================================================================
