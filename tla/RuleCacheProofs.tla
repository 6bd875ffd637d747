--------------------------- MODULE RuleCacheProofs ---------------------------
(***************************************************************************)
(* For any number of instances, any TTL and timeout, and however drops,    *)
(* timeouts and the edits of others interleave: an instance never uses a   *)
(* rule older than an edit whose call returned on it, and no instance uses *)
(* a rule for longer than TTL and CommandTimeout after its replacement.    *)
(*                                                                         *)
(* Both rest on the replies that are still under way: what a connection    *)
(* will hear tells of ever later versions, none of them before what its    *)
(* instance was told, and a reply is heard within CommandTimeout of the    *)
(* moment it was true.                                                     *)
(***************************************************************************)
EXTENDS RuleCache, TLAPS

USE RuleCacheAssumption

Applied == [at: Nat, by: Instances, present: BOOLEAN]

\* The reply names the version of a rule, and somebody waits for it.
Heard(c) == c.executed /\ Live(c) /\ c.cmd # "sismember" /\ c.reply # Nothing

\* A command of a connection, at time, after edits.
CommandOK(c, time, edits) ==
  /\ c \in Queued
  /\ c.call = "get" <=> c.cmd = "hget"
  /\ Live(c) => (time <= c.deadline /\ c.deadline <= time + CommandTimeout)
  /\ Heard(c) => c.reply \in 0..Len(edits)
  /\ (Heard(c) /\ c.cmd = "hget") => (c.reply > 0 => edits[c.reply].present)
  /\ (Heard(c) /\ c.reply < Len(edits)) => c.deadline <= edits[c.reply + 1].at + CommandTimeout
  /\ (c.executed /\ Live(c) /\ c.cmd \in {"hset", "hdel"}) => c.reply # Nothing

\* The commands of a connection whose instance was told of version t.
QueueOK(q, t, time, edits) ==
  /\ q \in Seq(Queued)
  /\ \A k \in 1..Len(q) : CommandOK(q[k], time, edits)
  /\ \A k \in 1..Len(q) : Heard(q[k]) => t <= q[k].reply
  /\ \A j, k \in 1..Len(q) : (j < k /\ q[k].executed) => q[j].executed
  /\ \A j, k \in 1..Len(q) : (j < k /\ Heard(q[j]) /\ Heard(q[k])) => q[j].reply <= q[k].reply

\* A cached rule of an instance that was told of version t.
EntryOK(e, t, time, edits) ==
  /\ e \in [version: 0..Len(edits), expiresAt: Nat]
  /\ e.version > 0 => edits[e.version].present
  /\ e.expiresAt <= time + TTL
  /\ time < e.expiresAt => t <= e.version
  /\ e.version < Len(edits) => e.expiresAt <= edits[e.version + 1].at + CommandTimeout + TTL

IInv ==
  /\ now \in Nat /\ drops \in Nat
  /\ redis \in [tenant: BOOLEAN, version: Nat, present: BOOLEAN]
  /\ redis.version = Len(log)
  /\ log \in Seq(Applied)
  /\ Len(log) > 0 => redis.present = log[Len(log)].present
  /\ queue \in [Instances -> Seq(Queued)]
  /\ cache \in [Instances -> [version: Nat, expiresAt: Nat]]
  /\ told \in [Instances -> 0..Len(log)]
  /\ \A i \in Instances : QueueOK(queue[i], told[i], now, log)
  /\ \A i \in Instances : EntryOK(cache[i], told[i], now, log)

-----------------------------------------------------------------------------
\* A queue without its head: the replies that follow are no older than the head's.
LEMMA TailOK ==
  ASSUME NEW q, NEW t \in Int, NEW time \in Nat, NEW edits, QueueOK(q, t, time, edits), q # <<>>
  PROVE  /\ QueueOK(Tail(q), t, time, edits)
         /\ Heard(Head(q)) => QueueOK(Tail(q), Head(q).reply, time, edits)
         /\ CommandOK(Head(q), time, edits)
         /\ Heard(Head(q)) => t <= Head(q).reply
<1>1. /\ q \in Seq(Queued) /\ Len(q) \in Nat /\ 1 <= Len(q) /\ Head(q) = q[1]
      /\ Tail(q) \in Seq(Queued) /\ Len(Tail(q)) = Len(q) - 1
  BY DEF QueueOK
<1>2. \A k \in 1..Len(Tail(q)) : k + 1 \in 1..Len(q) /\ Tail(q)[k] = q[k + 1]
  BY <1>1
<1>3. 1 \in 1..Len(q)
  BY <1>1
<1>4. \A k \in 1..Len(Tail(q)) : CommandOK(Tail(q)[k], time, edits)
  BY <1>2 DEF QueueOK
<1>5. \A k \in 1..Len(Tail(q)) : Heard(Tail(q)[k]) => t <= Tail(q)[k].reply
  BY <1>2 DEF QueueOK
<1>6. \A j, k \in 1..Len(Tail(q)) : j < k => j + 1 < k + 1
  BY <1>1
<1>7. \A j, k \in 1..Len(Tail(q)) : (j < k /\ Tail(q)[k].executed) => Tail(q)[j].executed
  BY <1>2, <1>6 DEF QueueOK
<1>8. \A j, k \in 1..Len(Tail(q)) :
        (j < k /\ Heard(Tail(q)[j]) /\ Heard(Tail(q)[k])) => Tail(q)[j].reply <= Tail(q)[k].reply
  BY <1>2, <1>6 DEF QueueOK
<1>9. \A k \in 1..Len(Tail(q)) : 1 < k + 1
  BY <1>1
<1>10. Heard(q[1]) => \A k \in 1..Len(Tail(q)) : Heard(Tail(q)[k]) => q[1].reply <= Tail(q)[k].reply
  BY <1>2, <1>3, <1>9 DEF QueueOK
<1>11. CommandOK(q[1], time, edits) /\ (Heard(q[1]) => t <= q[1].reply)
  BY <1>3 DEF QueueOK
<1> QED BY <1>1, <1>4, <1>5, <1>7, <1>8, <1>10, <1>11 DEF QueueOK

\* A command just written is the last, and unanswered.
LEMMA AppendOK ==
  ASSUME NEW q, NEW t \in Int, NEW time \in Nat, NEW edits, QueueOK(q, t, time, edits),
         NEW c, CommandOK(c, time, edits), c.executed = FALSE
  PROVE  QueueOK(Append(q, c), t, time, edits)
<1> DEFINE r == Append(q, c)
<1>1. q \in Seq(Queued) /\ c \in Queued /\ Len(q) \in Nat
  BY DEF QueueOK, CommandOK
<1>2. r \in Seq(Queued) /\ Len(r) = Len(q) + 1
  BY <1>1
<1>3. \A k \in 1..Len(r) : (k \in 1..Len(q) /\ r[k] = q[k]) \/ (k = Len(q) + 1 /\ r[k] = c)
  <2>1. (\A k \in 1..Len(q) : r[k] = q[k]) /\ r[Len(q) + 1] = c
    BY <1>1
  <2>2. \A k \in 1..Len(r) : k \in 1..Len(q) \/ k = Len(q) + 1
    BY <1>1, <1>2
  <2> QED BY <2>1, <2>2
<1>4. ~Heard(c)
  BY DEF Heard
<1>5. \A j, k \in 1..Len(r) : j < k => j \in 1..Len(q) /\ r[j] = q[j]
  BY <1>1, <1>2, <1>3
<1> HIDE DEF r
<1>6. \A k \in 1..Len(r) : CommandOK(r[k], time, edits)
  BY <1>3 DEF QueueOK
<1>7. \A k \in 1..Len(r) : Heard(r[k]) => t <= r[k].reply
  BY <1>3, <1>4 DEF QueueOK
<1>8. \A j, k \in 1..Len(r) : (j < k /\ r[k].executed) => r[j].executed
  BY <1>3, <1>5 DEF QueueOK
<1>9. \A j, k \in 1..Len(r) : (j < k /\ Heard(r[j]) /\ Heard(r[k])) => r[j].reply <= r[k].reply
  BY <1>3, <1>4, <1>5 DEF QueueOK
<1>10. QueueOK(r, t, time, edits)
  BY <1>2, <1>6, <1>7, <1>8, <1>9 DEF QueueOK
<1> QED BY <1>10 DEF r

\* What was true of a command stays true when Redis has applied another edit.
LEMMA EditKeepsCommand ==
  ASSUME NEW c, NEW time \in Nat, NEW edits \in Seq(Applied), CommandOK(c, time, edits),
         NEW e \in Applied, e.at = time
  PROVE  CommandOK(c, time, Append(edits, e))
<1> DEFINE l == Append(edits, e)
<1>1. /\ Len(edits) \in Nat /\ Len(l) = Len(edits) + 1
      /\ \A k \in 1..Len(edits) : l[k] = edits[k]
      /\ l[Len(edits) + 1] = e
  OBVIOUS
<1> HIDE DEF l
<1>2. c.deadline \in Nat
  BY DEF CommandOK, Queued
<1>3. CASE Heard(c)
  <2>1. c.reply \in 0..Len(edits) /\ c.reply \in 0..Len(l)
    BY <1>1, <1>3 DEF CommandOK
  <2>2. c.cmd = "hget" => (c.reply > 0 => l[c.reply].present)
    BY <1>1, <1>3, <2>1 DEF CommandOK
  <2>3. c.deadline <= l[c.reply + 1].at + CommandTimeout
    <3>1. CASE c.reply < Len(edits)
      <4>1. c.reply + 1 \in 1..Len(edits)
        BY <1>1, <2>1, <3>1
      <4> QED BY <1>1, <1>3, <3>1, <4>1 DEF CommandOK
    <3>2. CASE c.reply = Len(edits)
      BY <1>1, <1>3, <3>2 DEF CommandOK, Heard
    <3> QED BY <1>1, <2>1, <3>1, <3>2
  <2>4. CommandOK(c, time, l)
    BY <1>3, <2>1, <2>2, <2>3 DEF CommandOK
  <2> QED BY <2>4 DEF l
<1>4. CASE ~Heard(c)
  <2>1. CommandOK(c, time, l)
    BY <1>4 DEF CommandOK
  <2> QED BY <2>1 DEF l
<1> QED BY <1>3, <1>4

LEMMA EditKeepsEntry ==
  ASSUME NEW x, NEW t \in Int, NEW time \in Nat, NEW edits \in Seq(Applied), EntryOK(x, t, time, edits),
         NEW e \in Applied, e.at = time
  PROVE  EntryOK(x, t, time, Append(edits, e))
<1> DEFINE l == Append(edits, e)
<1>1. /\ Len(edits) \in Nat /\ Len(l) = Len(edits) + 1
      /\ \A k \in 1..Len(edits) : l[k] = edits[k]
      /\ l[Len(edits) + 1] = e
  OBVIOUS
<1> HIDE DEF l
<1>2. x \in [version: 0..Len(edits), expiresAt: Nat]
  BY DEF EntryOK
<1>3. x.version \in 0..Len(edits) /\ x.expiresAt \in Nat
  BY <1>2
<1>4. x \in [version: 0..Len(l), expiresAt: Nat]
  <2>1. \A n \in 0..Len(edits) : n \in 0..Len(l)
    BY <1>1
  <2> QED BY <1>2, <2>1
<1>5. x.version > 0 => l[x.version].present
  BY <1>1, <1>3 DEF EntryOK
<1>6. x.expiresAt <= l[x.version + 1].at + CommandTimeout + TTL
  <2>1. CASE x.version < Len(edits)
    <3>1. x.version + 1 \in 1..Len(edits)
      BY <1>1, <1>3, <2>1
    <3> QED BY <1>1, <2>1, <3>1 DEF EntryOK
  <2>2. CASE x.version = Len(edits)
    BY <1>1, <1>3, <2>2 DEF EntryOK
  <2> QED BY <1>1, <1>3, <2>1, <2>2
<1>7. EntryOK(x, t, time, l)
  BY <1>4, <1>5, <1>6 DEF EntryOK
<1> QED BY <1>7 DEF l

\* So does what was true of a queue and of a cached rule.
LEMMA EditKeepsQueue ==
  ASSUME NEW q, NEW t \in Int, NEW time \in Nat, NEW edits \in Seq(Applied), QueueOK(q, t, time, edits),
         NEW e \in Applied, e.at = time
  PROVE  QueueOK(q, t, time, Append(edits, e))
<1>1. \A k \in 1..Len(q) : CommandOK(q[k], time, Append(edits, e))
  BY EditKeepsCommand DEF QueueOK
<1> QED BY <1>1 DEF QueueOK

\* Redis answers the oldest unanswered command of a connection with what it holds now.
LEMMA ExecuteOK ==
  ASSUME NEW q, NEW t \in Int, NEW time \in Nat, NEW edits \in Seq(Applied), QueueOK(q, t, time, edits),
         NEW k \in 1..Len(q), q[k].executed = FALSE,
         NEW c, CommandOK(c, time, edits), \A j \in 1..(k - 1) : q[j].executed,
         Heard(c) => (c.reply = Len(edits) /\ t <= Len(edits))
  PROVE  QueueOK([q EXCEPT ![k] = c], t, time, edits)
<1> DEFINE p == [q EXCEPT ![k] = c]
<1>1. /\ q \in Seq(Queued) /\ c \in Queued /\ Len(q) \in Nat /\ Len(edits) \in Nat
      /\ p \in Seq(Queued) /\ Len(p) = Len(q)
  BY DEF QueueOK, CommandOK
<1>2. p[k] = c /\ \A j \in 1..Len(q) : j # k => p[j] = q[j]
  BY <1>1
<1> HIDE DEF p
<1>3. \A j \in 1..Len(q) : k < j => ~q[j].executed
  BY DEF QueueOK
<1>4. \A j \in 1..Len(q) : j < k => q[j].executed
  BY <1>1
<1>5. \A j \in 1..Len(q) : CommandOK(p[j], time, edits)
  BY <1>2 DEF QueueOK
<1>6. \A j \in 1..Len(q) : Heard(p[j]) => t <= p[j].reply
  BY <1>2 DEF QueueOK
<1>7. \A j, l \in 1..Len(q) : (j < l /\ p[l].executed) => p[j].executed
  <2> SUFFICES ASSUME NEW j \in 1..Len(q), NEW l \in 1..Len(q), j < l, p[l].executed
               PROVE  p[j].executed
    OBVIOUS
  <2>1. CASE l = k
    <3>1. j < k /\ j # k
      BY <1>1, <2>1
    <3> QED BY <1>2, <1>4, <3>1
  <2>2. CASE l # k /\ j # k
    BY <1>2, <2>2 DEF QueueOK
  <2>3. CASE l # k /\ j = k
    BY <1>2, <1>3, <2>3
  <2> QED BY <2>1, <2>2, <2>3
<1>8. \A j, l \in 1..Len(q) : (j < l /\ Heard(p[j]) /\ Heard(p[l])) => p[j].reply <= p[l].reply
  <2> SUFFICES ASSUME NEW j \in 1..Len(q), NEW l \in 1..Len(q), j < l, Heard(p[j]), Heard(p[l])
               PROVE  p[j].reply <= p[l].reply
    OBVIOUS
  <2>1. CASE l = k
    <3>1. p[l].reply = Len(edits) /\ j # k /\ p[j] = q[j]
      BY <1>1, <1>2, <2>1
    <3>2. CommandOK(q[j], time, edits) /\ Heard(q[j])
      BY <3>1 DEF QueueOK
    <3>3. p[j].reply \in 0..Len(edits)
      BY <3>1, <3>2 DEF CommandOK
    <3> QED BY <1>1, <3>1, <3>3
  <2>2. CASE l # k /\ j # k
    BY <1>2, <2>2 DEF QueueOK
  <2>3. CASE l # k /\ j = k
    BY <1>2, <1>3, <2>3 DEF Heard
  <2> QED BY <2>1, <2>2, <2>3
<1>9. QueueOK(p, t, time, edits)
  BY <1>1, <1>5, <1>6, <1>7, <1>8 DEF QueueOK
<1> QED BY <1>9 DEF p

LEMMA Silent ==
  ASSUME NEW c \in Queued
  PROVE  LET d == [c EXCEPT !.deadline = 0, !.reply = Nothing] IN
         /\ d \in Queued /\ d.deadline = 0 /\ d.reply = Nothing
         /\ d.executed = c.executed /\ d.call = c.call /\ d.cmd = c.cmd
<1> DEFINE d == [c EXCEPT !.deadline = 0, !.reply = Nothing]
<1>1. Nothing \in Int
  BY DEF Nothing
<1>2. d \in Queued
  BY <1>1 DEF Queued
<1>3. d.deadline = 0 /\ d.reply = Nothing
  BY DEF Queued
<1>4. d.executed = c.executed /\ d.call = c.call /\ d.cmd = c.cmd
  BY DEF Queued
<1> QED BY <1>2, <1>3, <1>4

LEMMA Unanswered ==
  ASSUME NEW c \in Queued
  PROVE  LET d == [c EXCEPT !.executed = FALSE, !.reply = Nothing] IN
         /\ d \in Queued /\ d.executed = FALSE
         /\ d.deadline = c.deadline /\ d.call = c.call /\ d.cmd = c.cmd
<1> DEFINE d == [c EXCEPT !.executed = FALSE, !.reply = Nothing]
<1>1. Nothing \in Int
  BY DEF Nothing
<1>2. d \in Queued
  BY <1>1 DEF Queued
<1>3. d.executed = FALSE
  BY DEF Queued
<1>4. d.deadline = c.deadline /\ d.call = c.call /\ d.cmd = c.cmd
  BY DEF Queued
<1> QED BY <1>2, <1>3, <1>4

\* A call that gives up hears nothing more; its command keeps its place.
LEMMA TimeoutOK ==
  ASSUME NEW q, NEW t \in Int, NEW time \in Nat, NEW edits, QueueOK(q, t, time, edits),
         NEW k \in 1..Len(q)
  PROVE  QueueOK([q EXCEPT ![k].deadline = 0, ![k].reply = Nothing], t, time, edits)
<1> DEFINE d == [q[k] EXCEPT !.deadline = 0, !.reply = Nothing]
           p == [q EXCEPT ![k] = d]
<1>1. q \in Seq(Queued) /\ q[k] \in Queued /\ Len(q) \in Nat /\ CommandOK(q[k], time, edits)
  BY DEF QueueOK, CommandOK
<1>2. /\ d \in Queued /\ d.deadline = 0 /\ d.executed = q[k].executed
      /\ d.call = q[k].call /\ d.cmd = q[k].cmd
  BY <1>1, Silent
<1>3. p = [q EXCEPT ![k].deadline = 0, ![k].reply = Nothing]
  BY <1>1
<1> HIDE DEF d
<1>4. p \in Seq(Queued) /\ Len(p) = Len(q) /\ p[k] = d /\ \A j \in 1..Len(q) : j # k => p[j] = q[j]
  BY <1>1, <1>2
<1> HIDE DEF p
<1>5. ~Heard(d) /\ CommandOK(d, time, edits)
  BY <1>1, <1>2 DEF Heard, Live, CommandOK
<1>6. \A j \in 1..Len(q) : CommandOK(p[j], time, edits)
  BY <1>4, <1>5 DEF QueueOK
<1>7. \A j \in 1..Len(q) : p[j].executed = q[j].executed /\ (Heard(p[j]) => p[j] = q[j])
  BY <1>2, <1>4, <1>5
<1>8. QueueOK(p, t, time, edits)
  BY <1>4, <1>6, <1>7 DEF QueueOK
<1> QED BY <1>3, <1>8

\* A command sent again is a command not yet answered.
LEMMA ResendOK ==
  ASSUME NEW q, NEW t \in Int, NEW time \in Nat, NEW edits, QueueOK(q, t, time, edits)
  PROVE  QueueOK([k \in DOMAIN q |-> [q[k] EXCEPT !.executed = FALSE, !.reply = Nothing]], t, time, edits)
<1> DEFINE p == [k \in DOMAIN q |-> [q[k] EXCEPT !.executed = FALSE, !.reply = Nothing]]
<1>1. q \in Seq(Queued) /\ Len(q) \in Nat /\ DOMAIN q = 1..Len(q)
  BY DEF QueueOK
<1>2. \A k \in 1..Len(q) : q[k] \in Queued /\ CommandOK(q[k], time, edits)
  BY <1>1 DEF QueueOK
<1>3. \A k \in 1..Len(q) : /\ p[k] \in Queued /\ p[k].executed = FALSE /\ p[k].deadline = q[k].deadline
                           /\ p[k].call = q[k].call /\ p[k].cmd = q[k].cmd
  BY <1>1, <1>2, Unanswered
<1>4. p \in Seq(Queued) /\ Len(p) = Len(q)
  <2>1. p = [k \in 1..Len(q) |-> p[k]]
    BY <1>1
  <2> HIDE DEF p
  <2> QED BY <1>1, <1>3, <2>1
<1> HIDE DEF p
<1>5. \A k \in 1..Len(q) : ~p[k].executed /\ ~Heard(p[k])
  BY <1>3 DEF Heard
<1>6. \A k \in 1..Len(q) : CommandOK(p[k], time, edits)
  BY <1>2, <1>3, <1>5 DEF CommandOK, Live
<1>7. QueueOK(p, t, time, edits)
  BY <1>4, <1>5, <1>6 DEF QueueOK
<1> QED BY <1>7 DEF p

-----------------------------------------------------------------------------
\* A step that concerns one instance alone.
LEMMA OneInstance ==
  ASSUME IInv, NEW i \in Instances, NEW q, NEW e, NEW n \in 0..Len(log),
         QueueOK(q, n, now, log), EntryOK(e, n, now, log),
         queue' = [queue EXCEPT ![i] = q], cache' = [cache EXCEPT ![i] = e],
         told' = [told EXCEPT ![i] = n],
         now' = now, redis' = redis, log' = log, drops' \in Nat
  PROVE  IInv'
<1>1. /\ queue \in [Instances -> Seq(Queued)] /\ told \in [Instances -> 0..Len(log)]
      /\ cache \in [Instances -> [version: Nat, expiresAt: Nat]]
      /\ log \in Seq(Applied) /\ Len(log) \in Nat
  BY DEF IInv
<1>2. q \in Seq(Queued) /\ e \in [version: Nat, expiresAt: Nat]
  BY <1>1 DEF QueueOK, EntryOK
<1>3. /\ queue' \in [Instances -> Seq(Queued)] /\ told' \in [Instances -> 0..Len(log)]
      /\ cache' \in [Instances -> [version: Nat, expiresAt: Nat]]
  BY <1>1, <1>2
<1>4. ASSUME NEW j \in Instances
      PROVE  QueueOK(queue'[j], told'[j], now, log) /\ EntryOK(cache'[j], told'[j], now, log)
  <2>1. CASE j = i
    BY <1>1, <2>1
  <2>2. CASE j # i
    <3>1. queue'[j] = queue[j] /\ told'[j] = told[j] /\ cache'[j] = cache[j]
      BY <1>1, <2>2
    <3> QED BY <3>1 DEF IInv
  <2> QED BY <2>1, <2>2
<1> QED BY <1>1, <1>3, <1>4 DEF IInv

\* What the invariant says of one instance.
LEMMA OfInstance ==
  ASSUME IInv, NEW i \in Instances
  PROVE  /\ queue[i] \in Seq(Queued) /\ told[i] \in 0..Len(log) /\ told[i] \in Int
         /\ QueueOK(queue[i], told[i], now, log) /\ EntryOK(cache[i], told[i], now, log)
         /\ queue = [queue EXCEPT ![i] = queue[i]]
         /\ cache = [cache EXCEPT ![i] = cache[i]]
         /\ told = [told EXCEPT ![i] = told[i]]
         /\ now \in Nat /\ drops \in Nat /\ log \in Seq(Applied) /\ Len(log) \in Nat
<1>1. /\ queue \in [Instances -> Seq(Queued)] /\ told \in [Instances -> 0..Len(log)]
      /\ cache \in [Instances -> [version: Nat, expiresAt: Nat]]
      /\ now \in Nat /\ drops \in Nat /\ log \in Seq(Applied) /\ Len(log) \in Nat
      /\ QueueOK(queue[i], told[i], now, log) /\ EntryOK(cache[i], told[i], now, log)
  BY DEF IInv
<1> QED BY <1>1

\* A command just written.
LEMMA Written ==
  ASSUME NEW call \in {"get", "put", "delete"}, NEW cmd \in {"hget", "sismember", "hset", "hdel"},
         call = "get" <=> cmd = "hget", now \in Nat, NEW edits
  PROVE  CommandOK(Command(call, cmd), now, edits) /\ Command(call, cmd).executed = FALSE
<1>1. Command(call, cmd) \in Queued
  BY DEF Command, Queued, Nothing
<1>2. /\ Command(call, cmd).executed = FALSE /\ Command(call, cmd).deadline = now + CommandTimeout
      /\ Command(call, cmd).call = call /\ Command(call, cmd).cmd = cmd
  BY DEF Command
<1> QED BY <1>1, <1>2 DEF CommandOK, Heard

LEMMA BeginKeeps ==
  ASSUME IInv, NEW i \in Instances,
         NEW call \in {"get", "put", "delete"}, NEW cmd \in {"hget", "sismember", "hset", "hdel"},
         call = "get" <=> cmd = "hget", Begin(i, call, cmd)
  PROVE  IInv'
<1> DEFINE c == Command(call, cmd)
<1>1. CommandOK(c, now, log) /\ c.executed = FALSE
  BY Written, OfInstance
<1> HIDE DEF c
<1>2. QueueOK(Append(queue[i], c), told[i], now, log)
  BY <1>1, AppendOK, OfInstance
<1>3. queue' = [queue EXCEPT ![i] = Append(queue[i], c)]
  BY DEF Begin, c
<1> QED BY <1>2, <1>3, OneInstance, OfInstance DEF Begin

LEMMA HeardInTime ==
  ASSUME NEW time \in Nat, NEW deadline \in Nat, NEW at \in Nat,
         time <= deadline, deadline <= at + CommandTimeout
  PROVE  time + TTL <= at + CommandTimeout + TTL
<1>1. CommandTimeout \in Nat /\ TTL \in Nat
  OBVIOUS
<1> QED BY <1>1

LEMMA UsedInTime ==
  ASSUME NEW time \in Nat, NEW expiry \in Nat, NEW at \in Nat,
         time < expiry, expiry <= at + CommandTimeout + TTL
  PROVE  time < at + CommandTimeout + TTL
<1>1. CommandTimeout \in Nat /\ TTL \in Nat
  OBVIOUS
<1> QED BY <1>1

LEMMA EditAt ==
  ASSUME NEW edits \in Seq(Applied), NEW v \in 1..Len(edits)
  PROVE  edits[v] \in Applied /\ edits[v].at \in Nat
<1>1. edits[v] \in Applied
  OBVIOUS
<1> QED BY <1>1 DEF Applied

\* No entry, and one written now.
LEMMA Entries ==
  ASSUME IInv, NEW n \in 0..Len(log)
  PROVE  EntryOK(NoEntry, n, now, log)
<1>1. /\ now \in Nat /\ log \in Seq(Applied) /\ Len(log) \in Nat
      /\ NoEntry.version = 0 /\ NoEntry.expiresAt = 0 /\ NoEntry \in [version: 0..Len(log), expiresAt: Nat]
  BY DEF IInv, NoEntry
<1>2. Len(log) > 0 => log[1].at \in Nat
  <2>1. Len(log) > 0 => 1 \in 1..Len(log)
    BY <1>1
  <2> QED BY <1>1, <2>1, EditAt
<1> QED BY <1>1, <1>2 DEF EntryOK

LEMMA Cached ==
  ASSUME IInv, NEW c, CommandOK(c, now, log), Heard(c), c.cmd = "hget", NEW n \in 0..Len(log), n <= c.reply
  PROVE  EntryOK([version |-> c.reply, expiresAt |-> now + TTL], n, now, log)
<1> DEFINE e == [version |-> c.reply, expiresAt |-> now + TTL]
<1>1. now \in Nat /\ Len(log) \in Nat /\ c.reply \in 0..Len(log) /\ log \in Seq(Applied)
  BY DEF IInv, CommandOK
<1>2. e \in [version: 0..Len(log), expiresAt: Nat] /\ e.version = c.reply /\ e.expiresAt = now + TTL
  BY <1>1
<1>3. c.reply > 0 => log[c.reply].present
  BY DEF CommandOK
<1>4. ASSUME c.reply < Len(log)
      PROVE  now + TTL <= log[c.reply + 1].at + CommandTimeout + TTL
  <2>1. c.deadline <= log[c.reply + 1].at + CommandTimeout /\ now <= c.deadline /\ c.deadline \in Nat
    BY <1>4 DEF CommandOK, Queued, Heard
  <2>2. log[c.reply + 1].at \in Nat
    <3>1. c.reply + 1 \in 1..Len(log)
      BY <1>1, <1>4
    <3> QED BY <1>1, <3>1, EditAt
  <2> QED BY <1>1, <2>1, <2>2, HeardInTime
<1> HIDE DEF e
<1>5. EntryOK(e, n, now, log)
  BY <1>1, <1>2, <1>3, <1>4 DEF EntryOK
<1> QED BY <1>5 DEF e

LEMMA DeliverKeeps == ASSUME IInv, NEW i \in Instances, Deliver(i) PROVE IInv'
<1> DEFINE c == Head(queue[i])
           q == Tail(queue[i])
<1>1. queue[i] # <<>> /\ c.executed /\ now' = now /\ redis' = redis /\ log' = log /\ drops' \in Nat
  BY OfInstance DEF Deliver
<1>2. /\ QueueOK(q, told[i], now, log) /\ CommandOK(c, now, log)
      /\ Heard(c) => QueueOK(q, c.reply, now, log) /\ told[i] <= c.reply
  BY <1>1, OfInstance, TailOK
<1>3. \/ Live(c) /\ c.call = "get" /\ GetResumes(i, c, q)
      \/ Live(c) /\ c.call # "get" /\ AdminResumes(i, c, q)
      \/ ~Live(c) /\ queue' = [queue EXCEPT ![i] = q] /\ cache' = cache /\ told' = told
  BY DEF Deliver
<1> HIDE DEF c, q
<1>4. ASSUME queue' = [queue EXCEPT ![i] = q], cache' = cache, told' = told
      PROVE  IInv'
  BY <1>1, <1>2, <1>4, OfInstance, OneInstance
<1>5. CASE Live(c) /\ c.call = "get" /\ GetResumes(i, c, q)
  <2>1. CASE c.reply = Nothing
    BY <1>4, <1>5, <2>1 DEF GetResumes
  <2>2. CASE c.reply # Nothing
    <3> DEFINE e == [version |-> c.reply, expiresAt |-> now + TTL]
    <3>1. c.cmd = "hget" /\ Heard(c) /\ told[i] <= c.reply
      BY <1>1, <1>2, <1>5, <2>2 DEF Heard, CommandOK
    <3>2. EntryOK(e, told[i], now, log)
      BY <1>2, <3>1, OfInstance, Cached
    <3>3. queue' = [queue EXCEPT ![i] = q] /\ cache' = [cache EXCEPT ![i] = e] /\ told' = told
      BY <1>5, <2>2 DEF GetResumes
    <3> HIDE DEF e
    <3> QED BY <1>1, <1>2, <3>2, <3>3, OfInstance, OneInstance
  <2> QED BY <2>1, <2>2
<1>6. CASE Live(c) /\ c.call # "get" /\ AdminResumes(i, c, q)
  <2>1. CASE c.cmd = "sismember" /\ Rejected(i, c, q)
    BY <1>4, <2>1 DEF Rejected
  <2>2. CASE c.cmd = "sismember" /\ Write(i, c, q) /\ UNCHANGED <<cache, told>>
    <3>1. PICK cmd \in {"hset", "hdel"} : queue' = [queue EXCEPT ![i] = Append(q, Command(c.call, cmd))]
      BY <2>2 DEF Write
    <3>2. c.call \in {"put", "delete"}
      BY <1>2, <1>6 DEF CommandOK, Queued
    <3>3. /\ CommandOK(Command(c.call, cmd), now, log)
          /\ Command(c.call, cmd).executed = FALSE
      BY <3>2, OfInstance, Written
    <3> DEFINE w == Command(c.call, cmd)
    <3> HIDE DEF w
    <3>4. QueueOK(Append(q, w), told[i], now, log)
      BY <1>2, <3>3, OfInstance, AppendOK DEF w
    <3>5. queue' = [queue EXCEPT ![i] = Append(q, w)] /\ cache' = cache /\ told' = told
      BY <2>2, <3>1 DEF w
    <3> QED BY <1>1, <3>4, <3>5, OfInstance, OneInstance
  <2>3. CASE /\ c.cmd \in {"hset", "hdel"}
             /\ queue' = [queue EXCEPT ![i] = q]
             /\ cache' = [cache EXCEPT ![i] = NoEntry]
             /\ told' = [told EXCEPT ![i] = c.reply]
    <3>1. Heard(c) /\ c.reply \in 0..Len(log)
      BY <1>1, <1>2, <1>6, <2>3 DEF Heard, CommandOK
    <3>2. QueueOK(q, c.reply, now, log) /\ EntryOK(NoEntry, c.reply, now, log)
      BY <1>2, <3>1, Entries
    <3> QED BY <1>1, <2>3, <3>1, <3>2, OneInstance
  <2> QED BY <1>6, <2>1, <2>2, <2>3 DEF AdminResumes
<1> QED BY <1>3, <1>4, <1>5, <1>6

LEMMA TimeoutKeeps == ASSUME IInv, NEW i \in Instances, Timeout(i) PROVE IInv'
<1>1. PICK k \in DOMAIN queue[i] : queue' = [queue EXCEPT ![i][k].deadline = 0, ![i][k].reply = Nothing]
  BY DEF Timeout
<1> DEFINE q == [queue[i] EXCEPT ![k].deadline = 0, ![k].reply = Nothing]
<1>2. k \in 1..Len(queue[i])
  BY OfInstance
<1>3. QueueOK(q, told[i], now, log)
  BY <1>2, OfInstance, TimeoutOK
<1>4. queue' = [queue EXCEPT ![i] = q]
  BY <1>1 DEF IInv
<1> HIDE DEF q
<1> QED BY <1>3, <1>4, OfInstance, OneInstance DEF Timeout

LEMMA DropKeeps == ASSUME IInv, NEW i \in Instances, Resend(i) \/ Reject(i) PROVE IInv'
<1>1. CASE Resend(i)
  <2> DEFINE q == [k \in DOMAIN queue[i] |-> [queue[i][k] EXCEPT !.executed = FALSE, !.reply = Nothing]]
  <2>1. QueueOK(q, told[i], now, log)
    BY OfInstance, ResendOK
  <2>2. queue' = [queue EXCEPT ![i] = q]
    BY <1>1 DEF Resend, IInv
  <2>3. drops' = drops + 1 /\ UNCHANGED <<now, redis, cache, log, told>>
    BY <1>1 DEF Resend
  <2> HIDE DEF q
  <2>4. drops' \in Nat
    BY <2>3, OfInstance
  <2> QED BY <2>1, <2>2, <2>3, <2>4, OfInstance, OneInstance
<1>2. CASE Reject(i)
  <2>1. QueueOK(<<>>, told[i], now, log)
    BY DEF QueueOK
  <2>2. drops' \in Nat /\ UNCHANGED <<now, redis, cache, log, told>> /\ queue' = [queue EXCEPT ![i] = <<>>]
    BY <1>2, OfInstance DEF Reject
  <2> QED BY <2>1, <2>2, OfInstance, OneInstance
<1> QED BY <1>1, <1>2

\* What a command does to Redis, and what it answers.
LEMMA ExecuteDoes ==
  ASSUME IInv, NEW i \in Instances, Execute(i)
  PROVE  \E k \in 1..Len(queue[i]), n \in Int :
           LET c == queue[i][k]
               d == [c EXCEPT !.executed = TRUE, !.reply = n]
           IN
             /\ c.executed = FALSE
             /\ \A j \in 1..(k - 1) : queue[i][j].executed
             /\ queue' = [queue EXCEPT ![i][k] = d]
             /\ \/ /\ c.cmd \in {"hset", "hdel"}
                   /\ log' = Append(log, [at |-> now, by |-> i, present |-> c.cmd = "hset"])
                   /\ redis' = [redis EXCEPT !.version = Len(log) + 1, !.present = c.cmd = "hset"]
                   /\ Live(c) => n = Len(log) + 1
                \/ /\ log' = log /\ redis' = redis
                   /\ (Live(c) /\ c.cmd = "hdel") => n = Len(log)
                   /\ (Live(c) /\ c.cmd = "hget") => n = IF redis.present THEN Len(log) ELSE Nothing
                   /\ c.cmd # "hset"
<1>1. PICK k \in DOMAIN queue[i] :
        LET c == queue[i][k]
            version == IF Edits(c.cmd) THEN redis.version + 1 ELSE redis.version
            reply == CASE c.cmd = "sismember" -> IF redis.tenant THEN 0 ELSE Nothing
                       [] c.cmd = "hget" -> IF redis.present THEN version ELSE Nothing
                       [] OTHER -> version
        IN /\ ~c.executed
           /\ \A j \in 1..(k - 1) : queue[i][j].executed
           /\ queue' = [queue EXCEPT ![i][k] =
                 [c EXCEPT !.executed = TRUE, !.reply = IF Live(c) THEN reply ELSE Nothing]]
           /\ redis' = IF Edits(c.cmd) THEN [redis EXCEPT !.version = version, !.present = c.cmd = "hset"]
                       ELSE redis
           /\ log' = IF Edits(c.cmd)
                     THEN Append(log, [at |-> now, by |-> i, present |-> c.cmd = "hset"]) ELSE log
  BY DEF Execute
<1> DEFINE c == queue[i][k]
           version == IF Edits(c.cmd) THEN redis.version + 1 ELSE redis.version
           reply == CASE c.cmd = "sismember" -> IF redis.tenant THEN 0 ELSE Nothing
                      [] c.cmd = "hget" -> IF redis.present THEN version ELSE Nothing
                      [] OTHER -> version
           n == IF Live(c) THEN reply ELSE Nothing
<1>2. k \in 1..Len(queue[i]) /\ c \in Queued /\ redis.version = Len(log) /\ Len(log) \in Nat
  BY OfInstance DEF IInv
<1>3. version \in Int /\ (Edits(c.cmd) => version = Len(log) + 1) /\ (~Edits(c.cmd) => version = Len(log))
  BY <1>2
<1>4. c.executed = FALSE /\ c.cmd \in {"hget", "sismember", "hset", "hdel"}
  BY <1>1, <1>2 DEF Queued
<1>5. n \in Int
  BY <1>3 DEF Nothing
<1>6. \/ /\ c.cmd \in {"hset", "hdel"}
         /\ log' = Append(log, [at |-> now, by |-> i, present |-> c.cmd = "hset"])
         /\ redis' = [redis EXCEPT !.version = Len(log) + 1, !.present = c.cmd = "hset"]
         /\ Live(c) => n = Len(log) + 1
      \/ /\ log' = log /\ redis' = redis
         /\ (Live(c) /\ c.cmd = "hdel") => n = Len(log)
         /\ (Live(c) /\ c.cmd = "hget") => n = IF redis.present THEN Len(log) ELSE Nothing
         /\ c.cmd # "hset"
  <2>1. CASE Edits(c.cmd)
    <3>1. c.cmd \in {"hset", "hdel"}
      BY <2>1 DEF Edits
    <3> QED BY <1>1, <1>3, <2>1, <3>1
  <2>2. CASE ~Edits(c.cmd)
    <3>1. c.cmd # "hset"
      BY <2>2 DEF Edits
    <3> QED BY <1>1, <1>3, <2>2, <3>1
  <2> QED BY <2>1, <2>2
<1> QED BY <1>1, <1>2, <1>4, <1>5, <1>6

LEMMA Rewritten ==
  ASSUME NEW r \in [tenant: BOOLEAN, version: Nat, present: BOOLEAN], NEW v \in Nat, NEW b \in BOOLEAN
  PROVE  LET s == [r EXCEPT !.version = v, !.present = b] IN
         s \in [tenant: BOOLEAN, version: Nat, present: BOOLEAN] /\ s.version = v /\ s.present = b
OBVIOUS

LEMMA ExecuteKeeps == ASSUME IInv, NEW i \in Instances, Execute(i) PROVE IInv'
<1>1. PICK k \in 1..Len(queue[i]), n \in Int :
        LET c == queue[i][k]
            d == [c EXCEPT !.executed = TRUE, !.reply = n]
        IN
          /\ c.executed = FALSE
          /\ \A j \in 1..(k - 1) : queue[i][j].executed
          /\ queue' = [queue EXCEPT ![i][k] = d]
          /\ \/ /\ c.cmd \in {"hset", "hdel"}
                /\ log' = Append(log, [at |-> now, by |-> i, present |-> c.cmd = "hset"])
                /\ redis' = [redis EXCEPT !.version = Len(log) + 1, !.present = c.cmd = "hset"]
                /\ Live(c) => n = Len(log) + 1
             \/ /\ log' = log /\ redis' = redis
                /\ (Live(c) /\ c.cmd = "hdel") => n = Len(log)
                /\ (Live(c) /\ c.cmd = "hget") => n = IF redis.present THEN Len(log) ELSE Nothing
                /\ c.cmd # "hset"
  BY ExecuteDoes
<1> DEFINE c == queue[i][k]
           d == [c EXCEPT !.executed = TRUE, !.reply = n]
           q == [queue[i] EXCEPT ![k] = d]
           e == [at |-> now, by |-> i, present |-> c.cmd = "hset"]
<1>2. /\ now \in Nat /\ log \in Seq(Applied) /\ Len(log) \in Nat
      /\ redis \in [tenant: BOOLEAN, version: Nat, present: BOOLEAN]
      /\ queue \in [Instances -> Seq(Queued)] /\ told \in [Instances -> 0..Len(log)]
  BY DEF IInv
<1>3. now' = now /\ cache' = cache /\ told' = told /\ drops' = drops
  BY DEF Execute
<1>4. c \in Queued /\ CommandOK(c, now, log)
  BY OfInstance DEF QueueOK
<1>5. queue' = [queue EXCEPT ![i] = q]
  BY <1>1, <1>2
<1>6. /\ d \in Queued /\ d.executed = TRUE /\ d.reply = n /\ d.deadline = c.deadline
      /\ d.call = c.call /\ d.cmd = c.cmd
  BY <1>4 DEF Queued
<1>7. e \in Applied /\ e.at = now /\ e.present = (c.cmd = "hset")
  BY <1>2 DEF Applied
<1>8. \/ log' = log
      \/ log' = Append(log, e)
  BY <1>1
<1>9. ASSUME NEW j \in Instances
      PROVE  QueueOK(queue[j], told[j], now, log') /\ EntryOK(cache[j], told[j], now, log')
  <2>1. QueueOK(queue[j], told[j], now, log) /\ EntryOK(cache[j], told[j], now, log) /\ told[j] \in Int
    BY OfInstance
  <2>2. CASE log' = log
    BY <2>1, <2>2
  <2>3. CASE log' = Append(log, e)
    <3> HIDE DEF e, d, c, q
    <3>1. QueueOK(queue[j], told[j], now, Append(log, e))
      BY <1>2, <1>7, <2>1, EditKeepsQueue
    <3>2. EntryOK(cache[j], told[j], now, Append(log, e))
      BY <1>2, <1>7, <2>1, EditKeepsEntry
    <3> QED BY <2>3, <3>1, <3>2
  <2> QED BY <1>8, <2>2, <2>3
<1>10. /\ log' \in Seq(Applied) /\ Len(log') \in Nat /\ Len(log) <= Len(log')
       /\ redis' \in [tenant: BOOLEAN, version: Nat, present: BOOLEAN] /\ redis'.version = Len(log')
       /\ Len(log') > 0 => redis'.present = log'[Len(log')].present
  <2>1. CASE log' = log /\ redis' = redis
    BY <1>2, <2>1 DEF IInv
  <2>2. CASE log' = Append(log, e) /\ redis' = [redis EXCEPT !.version = Len(log) + 1, !.present = c.cmd = "hset"]
    <3>1. log' \in Seq(Applied) /\ Len(log') = Len(log) + 1 /\ log'[Len(log) + 1] = e
      BY <1>2, <1>7, <2>2
    <3>2. /\ redis' \in [tenant: BOOLEAN, version: Nat, present: BOOLEAN]
          /\ redis'.version = Len(log) + 1 /\ redis'.present = (c.cmd = "hset")
      <4>1. (c.cmd = "hset") \in BOOLEAN /\ Len(log) + 1 \in Nat
        BY <1>2
      <4> HIDE DEF e, d, c, q
      <4> QED BY <1>2, <2>2, <4>1, Rewritten
    <3> HIDE DEF e, c
    <3> QED BY <1>2, <1>7, <3>1, <3>2
  <2> QED BY <1>1, <2>1, <2>2
<1>11. CommandOK(d, now, log') /\ (Heard(d) => d.reply = Len(log'))
  <2> HIDE DEF d, c, e, q
  <2>1. Live(d) => Live(c) /\ now <= d.deadline /\ d.deadline <= now + CommandTimeout
    BY <1>4, <1>6 DEF CommandOK, Live
  <2>2. d.call = "get" <=> d.cmd = "hget"
    BY <1>4, <1>6 DEF CommandOK
  <2>3. CASE ~Live(c)
    BY <1>6, <2>1, <2>2, <2>3 DEF CommandOK, Heard
  <2>4. CASE Live(c) /\ c.cmd = "sismember"
    BY <1>6, <2>1, <2>2, <2>4 DEF CommandOK, Heard
  <2>5. CASE Live(c) /\ c.cmd \in {"hset", "hdel"}
    <3>1. n = Len(log')
      BY <1>1, <1>2, <1>7, <2>5 DEF c, e
    <3>2. n # Nothing
      BY <1>10, <3>1 DEF Nothing
    <3> QED BY <1>6, <1>10, <2>1, <2>2, <2>5, <3>1, <3>2 DEF CommandOK
  <2>6. CASE Live(c) /\ c.cmd = "hget"
    <3>1. log' = log /\ redis' = redis /\ n = IF redis.present THEN Len(log) ELSE Nothing
      BY <1>1, <2>6 DEF c
    <3>2. Heard(d) => n = Len(log') /\ redis'.present
      BY <1>6, <3>1 DEF Heard
    <3> QED BY <1>6, <1>10, <2>1, <2>2, <2>6, <3>2 DEF CommandOK
  <2> QED BY <1>4, <2>3, <2>4, <2>5, <2>6 DEF Queued
<1>12. QueueOK(q, told[i], now, log')
  <2>1. told[i] \in Int /\ told[i] <= Len(log')
    BY <1>2, <1>10, OfInstance
  <2>2. c.executed = FALSE /\ \A j \in 1..(k - 1) : queue[i][j].executed
    BY <1>1
  <2> HIDE DEF d
  <2> QED BY <1>2, <1>9, <1>10, <1>11, <2>1, <2>2, ExecuteOK
<1> HIDE DEF q
<1>13. ASSUME NEW j \in Instances
       PROVE  QueueOK(queue'[j], told'[j], now', log') /\ EntryOK(cache'[j], told'[j], now', log')
  BY <1>2, <1>3, <1>5, <1>9, <1>12
<1>14. /\ queue' \in [Instances -> Seq(Queued)] /\ told' \in [Instances -> 0..Len(log')]
       /\ cache' \in [Instances -> [version: Nat, expiresAt: Nat]] /\ drops' \in Nat /\ now' \in Nat
  <2>1. queue' \in [Instances -> Seq(Queued)]
    BY <1>2, <1>5, <1>12 DEF QueueOK
  <2>2. told' \in [Instances -> 0..Len(log')]
    BY <1>2, <1>3, <1>10
  <2> QED BY <1>3, <2>1, <2>2 DEF IInv
<1> QED BY <1>10, <1>13, <1>14 DEF IInv

\* Time passes.
LEMMA TickKeeps == ASSUME IInv, Tick PROVE IInv'
<1>1. /\ now \in Nat /\ log \in Seq(Applied) /\ Len(log) \in Nat
      /\ queue \in [Instances -> Seq(Queued)] /\ told \in [Instances -> 0..Len(log)]
      /\ cache \in [Instances -> [version: Nat, expiresAt: Nat]]
  BY DEF IInv
<1>2. /\ \A i \in Instances : \A k \in DOMAIN queue[i] : Live(queue[i][k]) => now < queue[i][k].deadline
      /\ now' = now + 1
      /\ cache' = [i \in Instances |-> IF Expired(cache[i], now + 1) THEN NoEntry ELSE cache[i]]
      /\ redis' = redis /\ queue' = queue /\ log' = log /\ told' = told /\ drops' = drops
  BY DEF Tick
<1>3. ASSUME NEW i \in Instances PROVE QueueOK(queue[i], told[i], now + 1, log)
  <2>1. QueueOK(queue[i], told[i], now, log) /\ DOMAIN queue[i] = 1..Len(queue[i])
    BY OfInstance
  <2>2. ASSUME NEW k \in 1..Len(queue[i]) PROVE CommandOK(queue[i][k], now + 1, log)
    <3>1. CommandOK(queue[i][k], now, log) /\ queue[i][k].deadline \in Nat
      BY <2>1 DEF QueueOK, CommandOK, Queued
    <3>2. Live(queue[i][k]) => now < queue[i][k].deadline
      BY <1>2, <2>1
    <3>3. Live(queue[i][k]) =>
            now + 1 <= queue[i][k].deadline /\ queue[i][k].deadline <= now + 1 + CommandTimeout
      <4>1. Live(queue[i][k]) => queue[i][k].deadline <= now + CommandTimeout
        BY <3>1 DEF CommandOK
      <4> QED BY <1>1, <3>1, <3>2, <4>1
    <3> QED BY <3>1, <3>3 DEF CommandOK
  <2> QED BY <2>1, <2>2 DEF QueueOK
<1>4. ASSUME NEW i \in Instances PROVE EntryOK(cache'[i], told[i], now + 1, log)
  <2>1. EntryOK(cache[i], told[i], now, log) /\ cache[i].expiresAt \in Nat
    BY <1>1, OfInstance
  <2>2. CASE cache'[i] = NoEntry
    <3>1. EntryOK(NoEntry, told[i], now, log)
      BY <1>1, Entries
    <3> QED BY <1>1, <2>2, <3>1 DEF EntryOK, NoEntry
  <2>3. CASE cache'[i] = cache[i]
    <3>1. cache[i].expiresAt <= now + 1 + TTL
      BY <1>1, <2>1 DEF EntryOK
    <3>2. now + 1 < cache[i].expiresAt => now < cache[i].expiresAt
      BY <1>1, <2>1
    <3> QED BY <2>1, <2>3, <3>1, <3>2 DEF EntryOK
  <2> QED BY <1>2, <2>2, <2>3
<1>5. cache' \in [Instances -> [version: Nat, expiresAt: Nat]]
  BY <1>1, <1>2 DEF NoEntry
<1>6. now' \in Nat
  BY <1>1, <1>2
<1> QED BY <1>2, <1>3, <1>4, <1>5, <1>6 DEF IInv

-----------------------------------------------------------------------------
LEMMA InitHolds == Init => IInv
<1> SUFFICES ASSUME Init PROVE IInv
  OBVIOUS
<1>1. /\ now = 1 /\ drops = 0 /\ log = <<>> /\ Len(log) = 0 /\ log \in Seq(Applied)
      /\ redis \in [tenant: BOOLEAN, version: {0}, present: BOOLEAN]
      /\ cache = [i \in Instances |-> NoEntry]
      /\ queue = [i \in Instances |-> <<>>]
      /\ told = [i \in Instances |-> 0]
  BY DEF Init
<1>2. QueueOK(<<>>, 0, now, log)
  BY <1>1 DEF QueueOK
<1>3. EntryOK(NoEntry, 0, now, log)
  BY <1>1 DEF EntryOK, NoEntry
<1>4. cache \in [Instances -> [version: Nat, expiresAt: Nat]]
  BY <1>1 DEF NoEntry
<1>5. redis \in [tenant: BOOLEAN, version: Nat, present: BOOLEAN] /\ redis.version = Len(log)
  BY <1>1
<1>6. queue \in [Instances -> Seq(Queued)] /\ told \in [Instances -> 0..Len(log)]
  BY <1>1
<1> QED BY <1>1, <1>2, <1>3, <1>4, <1>5, <1>6 DEF IInv

LEMMA NextKeeps == IInv /\ [Next]_vars => IInv'
<1> SUFFICES ASSUME IInv, [Next]_vars PROVE IInv'
  OBVIOUS
<1>1. ASSUME NEW i \in Instances, Get(i) \/ Administer(i) PROVE IInv'
  <2>1. CASE Get(i)
    BY <2>1, BeginKeeps DEF Get
  <2>2. CASE Administer(i)
    <3>1. PICK call \in {"put", "delete"} : Begin(i, call, "sismember")
      BY <2>2 DEF Administer
    <3> QED BY <3>1, BeginKeeps
  <2> QED BY <1>1, <2>1, <2>2
<1>2. CASE UNCHANGED vars
  BY <1>2 DEF vars, IInv
<1> QED BY <1>1, <1>2, DeliverKeeps, ExecuteKeeps, TimeoutKeeps, DropKeeps, TickKeeps DEF Next

\* The inductive invariant holds throughout, whatever the order of the connections.
THEOREM Invariance == Spec => []IInv
BY InitHolds, NextKeeps, PTL DEF Spec

\* Every variable keeps its type, and a cached rule is one that some edit wrote: the
\* absence of a rule is never cached.
THEOREM TypeCorrect == Spec => []TypeOK
<1>1. IInv => TypeOK
  <2> SUFFICES ASSUME IInv PROVE TypeOK
    OBVIOUS
  <2>1. cache \in [Instances -> [version: 0..Len(log), expiresAt: Nat]]
    BY DEF IInv, EntryOK
  <2>2. \A i \in Instances : cache[i].version > 0 => log[cache[i].version].present
    BY DEF IInv, EntryOK
  <2> QED BY <2>1, <2>2 DEF IInv, TypeOK, Applied
<1> QED BY <1>1, Invariance, PTL

\* Once putRule or deleteRule returned on an instance, that instance never uses an
\* older rule again.
THEOREM ReturnedIsSeen == Spec => []EditReturnedIsSeen
<1>1. IInv => EditReturnedIsSeen
  <2> SUFFICES ASSUME IInv, NEW i \in Instances, Hit(i) PROVE cache[i].version >= told[i]
    BY DEF EditReturnedIsSeen
  <2>1. EntryOK(cache[i], told[i], now, log) /\ now \in Nat /\ cache[i].expiresAt \in Nat
        /\ cache[i].version \in Nat /\ told[i] \in Int
    BY OfInstance DEF EntryOK
  <2>2. now < cache[i].expiresAt
    BY <2>1 DEF Hit, Expired
  <2> QED BY <2>1, <2>2 DEF EntryOK
<1> QED BY <1>1, Invariance, PTL

\* No instance uses a rule for longer than TTL and CommandTimeout after the edit that
\* replaced or deleted it.
THEOREM StaleIsBounded == Spec => []StaleBound
<1>1. IInv => StaleBound
  <2> SUFFICES ASSUME IInv, NEW i \in Instances, Hit(i), cache[i].version < Len(log)
               PROVE  now < log[cache[i].version + 1].at + CommandTimeout + TTL
    BY DEF StaleBound
  <2>1. /\ EntryOK(cache[i], told[i], now, log) /\ now \in Nat /\ cache[i].expiresAt \in Nat
        /\ cache[i].version \in Nat /\ log \in Seq(Applied) /\ Len(log) \in Nat
    BY OfInstance DEF EntryOK
  <2>2. now < cache[i].expiresAt
    BY <2>1 DEF Hit, Expired
  <2>3. cache[i].version + 1 \in 1..Len(log)
    BY <2>1
  <2>4. log[cache[i].version + 1].at \in Nat
    BY <2>1, <2>3, EditAt
  <2>5. cache[i].expiresAt <= log[cache[i].version + 1].at + CommandTimeout + TTL
    BY <2>1 DEF EntryOK
  <2> QED BY <2>1, <2>2, <2>4, <2>5, UsedInTime
<1> QED BY <1>1, Invariance, PTL
=============================================================================
