--------------------------- MODULE CheckPathProofs ---------------------------
(***************************************************************************)
(* For any finite number of concurrent checks, any limit and policy, and   *)
(* any number of losses, drops and timeouts: what CheckPath says of        *)
(* answers, charges and counters.                                          *)
(***************************************************************************)
EXTENDS CheckPath, FiniteSetTheorems, SequenceTheorems, TLAPS

USE CheckPathAssumption

-----------------------------------------------------------------------------
(***************************************************************************)
(* The inductive invariant.  A check has at most one command in the queue, *)
(* even after its timeout, because it sends one only when the last one has *)
(* been answered; so most of the invariant is about single commands.       *)
(***************************************************************************)
ReplySet(cmd) ==
  CASE cmd \in {"get", "hget"}    -> {"none", "hit", "nil"}
    [] cmd \in {"load", "reload"} -> {"none", "ok"}
    [] OTHER                      -> {"none", "allowed", "denied", "noscript"}

\* A command is waited for until its check is answered, and only a timeout leaves
\* one behind.
Heard(c) ==
  /\ c.req \in started
  /\ IF c.live THEN answer[c.req] = "none" ELSE answer[c.req] \in BackendAnswers

\* How far a check that is not sound gets.
Deserved(c) ==
  /\ c.reply \in ReplySet(c.cmd)
  /\ kind[c.req] # "noKey"
  /\ c.cmd = "get" /\ c.reply = "hit" => kind[c.req] # "badKey"
  /\ c.cmd = "hget" => kind[c.req] \notin {"badKey", "noIdentifier"}
  /\ c.cmd = "hget" /\ c.reply = "hit" => kind[c.req] # "badRule"
  /\ c.cmd \notin {"get", "hget"} => kind[c.req] = "good"
  /\ c.reply = "nil" /\ kind[c.req] = "good" => losses > flushes

\* A command that is still to run has charged nothing since the last drop.
Charged(c) ==
  IF c.reply = "allowed" THEN charges[c.req] \in 1..(drops + 1) ELSE charges[c.req] <= drops

\* A script is run where it is known, and missed after a loss; run again, it is
\* missed after another.
Scripted(c) ==
  /\ c.cmd = "eval" => shaKnown
  /\ c.cmd = "load" /\ c.reply = "ok" /\ losses = 0 => redis.scripts
  /\ c.reply = "noscript" => losses > 0
  /\ c.cmd \in {"reload", "reeval"} => losses > 0
  /\ c.cmd = "reload" /\ c.reply = "ok" /\ losses < 2 => redis.scripts
  /\ c.cmd = "reeval" /\ losses < 2 => redis.scripts /\ c.reply # "noscript"

CommandOK(c) == Heard(c) /\ Deserved(c) /\ Charged(c) /\ Scripted(c)

Distinct(q) == \A i, j \in DOMAIN q : q[i].req = q[j].req => i = j

QueueOK == Distinct(queue) /\ \A c \in Range(queue) : CommandOK(c)

HasCommand(r) == \E c \in Range(queue) : c.req = r

\* What is true of a check whether or not it has a command in the queue.
CheckOK(r) ==
  /\ r \notin started => answer[r] = "none" /\ charges[r] = 0
  /\ r \in started /\ answer[r] = "none" => HasCommand(r)
  /\ answer[r] = "allowed" => charges[r] >= 1
  /\ charges[r] <= drops + (IF answer[r] = "denied" THEN 0 ELSE 1)
  /\ kind[r] = "good" /\ losses = flushes => answer[r] \notin ClientErrors
  /\ kind[r] # "good" => answer[r] \notin {"allowed", "denied"} /\ charges[r] = 0
  /\ answer[r] \in BackendAnswers => drops > 0 \/ timeouts > 0 \/ losses > 1

\* The checks told "allowed", or about to be.
Granted ==
  {r \in Reqs : answer[r] = "allowed"
                \/ \E c \in Range(queue) : c.req = r /\ c.reply = "allowed"}

\* Each grant has its token, in this life of Redis or an earlier one.
Covered == Cardinality(Granted) <= Limit * (losses - flushes) + redis.spent

FaultsOK ==
  /\ flushes <= losses
  /\ losses = flushes => redis.data
  /\ losses = 0 /\ shaKnown => redis.scripts
  /\ ~linkUp => drops > 0

IInv ==
  /\ TypeOK /\ QueueOK /\ FaultsOK
  /\ \A r \in Reqs : CheckOK(r)
  /\ Covered /\ ErrorsCounted

-----------------------------------------------------------------------------
(***************************************************************************)
(* What the operations on the queue do to the commands in it.              *)
(***************************************************************************)
LEMMA CommandsInQueue ==
  ASSUME NEW q \in Seq(Commands)
  PROVE  /\ Range(q) \subseteq Commands
         /\ DOMAIN q = 1..Len(q) /\ Len(q) \in Nat
         /\ \A i \in DOMAIN q : q[i] \in Range(q) /\ q[i] \in Commands
BY LenProperties DEF Range

LEMMA AppendToQueue ==
  ASSUME NEW q \in Seq(Commands), NEW c \in Commands, Distinct(q),
         \A e \in Range(q) : e.req # c.req
  PROVE  /\ Append(q, c) \in Seq(Commands)
         /\ Range(Append(q, c)) = Range(q) \cup {c}
         /\ Distinct(Append(q, c))
<1> DEFINE a == Append(q, c)
<1>1. /\ a \in Seq(Commands) /\ Len(a) = Len(q) + 1 /\ Len(q) \in Nat
      /\ DOMAIN a = 1..(Len(q) + 1) /\ DOMAIN q = 1..Len(q)
      /\ \A i \in 1..Len(q) : a[i] = q[i]
      /\ a[Len(q) + 1] = c
  BY AppendProperties, LenProperties
<1> HIDE DEF a
<1>2. Range(a) = Range(q) \cup {c}
  BY <1>1 DEF Range
<1>3. ASSUME NEW i \in DOMAIN a, NEW j \in DOMAIN a, a[i].req = a[j].req
      PROVE  i = j
  <2>1. \A k \in 1..Len(q) : q[k].req # c.req
    BY <1>1 DEF Range
  <2> QED BY <1>1, <1>3, <2>1 DEF Distinct
<1> QED BY <1>1, <1>2, <1>3 DEF a, Distinct

LEMMA TailOfQueue ==
  ASSUME NEW q \in Seq(Commands), q # <<>>, Distinct(q)
  PROVE  /\ Head(q) \in Range(q) /\ Head(q) \in Commands
         /\ Tail(q) \in Seq(Commands)
         /\ Range(Tail(q)) = {c \in Range(q) : c.req # Head(q).req}
         /\ Distinct(Tail(q))
<1> DEFINE t == Tail(q)
<1>1. /\ Head(q) = q[1] /\ Len(q) \in Nat \ {0} /\ DOMAIN q = 1..Len(q)
      /\ t \in Seq(Commands) /\ Len(t) = Len(q) - 1 /\ DOMAIN t = 1..(Len(q) - 1)
      /\ \A i \in 1..(Len(q) - 1) : t[i] = q[i + 1]
  BY HeadTailProperties, LenProperties, EmptySeq
<1> HIDE DEF t
<1>2. Head(q) \in Range(q) /\ Head(q) \in Commands
  BY <1>1, CommandsInQueue
<1>3. Distinct(t)
  <2> SUFFICES ASSUME NEW i \in DOMAIN t, NEW j \in DOMAIN t, t[i].req = t[j].req
               PROVE  i = j
    BY DEF Distinct
  <2>1. i + 1 \in DOMAIN q /\ j + 1 \in DOMAIN q /\ q[i + 1].req = q[j + 1].req
    BY <1>1
  <2> QED BY <1>1, <2>1 DEF Distinct
<1>4. ASSUME NEW c \in Range(t)
      PROVE  c \in Range(q) /\ c.req # Head(q).req
  <2>1. PICK i \in 1..(Len(q) - 1) : c = q[i + 1]
    BY <1>1 DEF Range
  <2>2. i + 1 \in DOMAIN q /\ 1 \in DOMAIN q /\ i + 1 # 1
    BY <1>1
  <2> QED BY <1>1, <2>1, <2>2 DEF Range, Distinct
<1>5. ASSUME NEW c \in Range(q), c.req # Head(q).req
      PROVE  c \in Range(t)
  <2>1. PICK i \in 1..Len(q) : c = q[i]
    BY <1>1 DEF Range
  <2>2. i # 1 /\ i - 1 \in DOMAIN t /\ t[i - 1] = c
    BY <1>1, <1>5, <2>1
  <2> QED BY <2>2 DEF Range
<1> QED BY <1>1, <1>2, <1>3, <1>4, <1>5 DEF t

\* A command has its reply.
LEMMA ReplyInQueue ==
  ASSUME NEW q \in Seq(Commands), NEW i \in DOMAIN q, NEW x \in Replies, Distinct(q)
  PROVE  LET p == [q EXCEPT ![i].reply = x]
         IN  /\ p \in Seq(Commands) /\ Distinct(p)
             /\ Range(p) = {c \in Range(q) : c.req # q[i].req} \cup {[q[i] EXCEPT !.reply = x]}
<1> DEFINE e == [q[i] EXCEPT !.reply = x]
           p == [q EXCEPT ![i] = e]
<1>0. DOMAIN q = 1..Len(q) /\ Len(q) \in Nat
  BY LenProperties
<1>1. q[i] \in Commands
  BY CommandsInQueue
<1>2. e \in Commands /\ e.req = q[i].req
  BY <1>1 DEF Commands
<1> HIDE DEF e
<1>3. p \in Seq(Commands) /\ Len(p) = Len(q)
  BY <1>0, <1>2, ExceptSeq
<1>4. DOMAIN p = DOMAIN q /\ \A j \in DOMAIN q : p[j] = IF j = i THEN e ELSE q[j]
  BY <1>0
<1> HIDE DEF p
<1>5. Distinct(p)
  BY <1>2, <1>4 DEF Distinct
<1>6. Range(p) = {c \in Range(q) : c.req # q[i].req} \cup {e}
  BY <1>2, <1>4 DEF Range, Distinct
<1> QED BY <1>3, <1>5, <1>6 DEF p, e

LEMMA MutedQueue ==
  ASSUME queue \in Seq(Commands), Distinct(queue), NEW r \in Reqs
  PROVE  /\ Muted(r) \in Seq(Commands) /\ Distinct(Muted(r))
         /\ Range(Muted(r)) = {c \in Range(queue) : c.req # r}
              \cup {[c EXCEPT !.live = FALSE] : c \in {d \in Range(queue) : d.req = r}}
<1> DEFINE p == Muted(r)
<1>1. DOMAIN queue = 1..Len(queue) /\ Len(queue) \in Nat
  BY LenProperties
<1>2. \A i \in DOMAIN queue : queue[i] \in Commands
  BY CommandsInQueue
<1>3. /\ DOMAIN p = DOMAIN queue
      /\ \A i \in DOMAIN queue :
           p[i] = IF queue[i].req = r THEN [queue[i] EXCEPT !.live = FALSE] ELSE queue[i]
  BY DEF Muted
<1>4. \A i \in DOMAIN queue : p[i] \in Commands /\ p[i].req = queue[i].req
  BY <1>2, <1>3 DEF Commands
<1>5. p \in [1..Len(queue) -> Commands]
  BY <1>1, <1>4 DEF Muted
<1>6. p \in Seq(Commands)
  BY <1>1, <1>5, SeqDef
<1> HIDE DEF p
<1>7. Distinct(p)
  BY <1>3, <1>4 DEF Distinct
<1>8. Range(p) = {c \in Range(queue) : c.req # r}
        \cup {[c EXCEPT !.live = FALSE] : c \in {d \in Range(queue) : d.req = r}}
  BY <1>3 DEF Range
<1> QED BY <1>6, <1>7, <1>8 DEF p

LEMMA DroppedQueue ==
  ASSUME queue \in Seq(Commands), Distinct(queue), NEW p,
         p = [i \in DOMAIN queue |-> [queue[i] EXCEPT !.reply = "none"]]
  PROVE  /\ p \in Seq(Commands) /\ Distinct(p)
         /\ Range(p) = {[c EXCEPT !.reply = "none"] : c \in Range(queue)}
<1>1. DOMAIN queue = 1..Len(queue) /\ Len(queue) \in Nat
  BY LenProperties
<1>2. \A i \in DOMAIN queue : queue[i] \in Commands
  BY CommandsInQueue
<1>3. /\ DOMAIN p = DOMAIN queue
      /\ \A i \in DOMAIN queue : p[i] = [queue[i] EXCEPT !.reply = "none"]
  OBVIOUS
<1>4. \A i \in DOMAIN queue : p[i] \in Commands /\ p[i].req = queue[i].req
  BY <1>2, <1>3 DEF Commands, Replies
<1>5. p \in [1..Len(queue) -> Commands]
  BY <1>1, <1>4
<1>6. p \in Seq(Commands)
  BY <1>1, <1>5, SeqDef
<1>7. Distinct(p)
  BY <1>3, <1>4 DEF Distinct
<1>8. Range(p) = {[c EXCEPT !.reply = "none"] : c \in Range(queue)}
  BY <1>3 DEF Range
<1> QED BY <1>6, <1>7, <1>8

-----------------------------------------------------------------------------
(***************************************************************************)
(* Cardinalities: of the checks a backend error ended, and of the grants.  *)
(***************************************************************************)
LEMMA SetGrowsByOne ==
  ASSUME NEW S, NEW T, NEW x, S \subseteq Reqs, T = S \cup {x}, x \notin S
  PROVE  Cardinality(S) \in Nat /\ Cardinality(T) = Cardinality(S) + 1
<1>1. IsFiniteSet(S)
  BY FS_Subset
<1> QED BY <1>1, FS_AddElement, FS_CardinalityType

LEMMA SetGrowsAtMostByOne ==
  ASSUME NEW S, NEW T, NEW x, S \subseteq Reqs, T \subseteq S \cup {x}
  PROVE  Cardinality(S) \in Nat /\ Cardinality(T) \in Nat
         /\ Cardinality(T) <= Cardinality(S) + 1
<1> DEFINE U == S \cup {x}
<1>1. IsFiniteSet(S) /\ IsFiniteSet(U)
  BY FS_Subset, FS_AddElement
<1>2. Cardinality(S) \in Nat /\ Cardinality(U) \in Nat
  BY <1>1, FS_CardinalityType
<1>3. Cardinality(U) = Cardinality(S) \/ Cardinality(U) = Cardinality(S) + 1
  BY <1>1, FS_AddElement
<1>4. IsFiniteSet(T) /\ Cardinality(T) <= Cardinality(U)
  BY <1>1, FS_Subset
<1>5. Cardinality(T) \in Nat
  BY <1>4, FS_CardinalityType
<1> HIDE DEF U
<1>6. Cardinality(T) <= Cardinality(S) + 1
  BY <1>2, <1>3, <1>4, <1>5
<1> QED BY <1>2, <1>5, <1>6

LEMMA SetShrinks ==
  ASSUME NEW S, NEW T, S \subseteq Reqs, T \subseteq S
  PROVE  Cardinality(S) \in Nat /\ Cardinality(T) \in Nat
         /\ Cardinality(T) <= Cardinality(S)
<1>1. IsFiniteSet(S)
  BY FS_Subset
<1>2. IsFiniteSet(T) /\ Cardinality(T) <= Cardinality(S)
  BY <1>1, FS_Subset
<1> QED BY <1>1, <1>2, FS_CardinalityType

Failed == {r \in Reqs : answer[r] \in BackendAnswers}

-----------------------------------------------------------------------------
(***************************************************************************)
(* What a step of check r leaves alone, and what becomes of a command of   *)
(* another check meanwhile.                                                *)
(***************************************************************************)
Frame(r) ==
  /\ started' = started \cup {r}
  /\ timeouts' \in Nat /\ timeouts' >= timeouts
  /\ cached' \in BOOLEAN /\ shaKnown' \in BOOLEAN
  /\ shaKnown => shaKnown'
  /\ losses = 0 /\ shaKnown' => redis.scripts
  /\ UNCHANGED <<kind, linkUp, redis, charges, losses, drops, flushes>>

LEMMA OtherCommand ==
  ASSUME IInv, NEW c \in Commands, CommandOK(c),
         started \subseteq started', answer'[c.req] = answer[c.req],
         charges'[c.req] = charges[c.req], shaKnown => shaKnown',
         redis.scripts => redis'.scripts,
         UNCHANGED <<kind, losses, drops, flushes>>
  PROVE  CommandOK(c)'
<1>1. Heard(c)'
  BY DEF CommandOK, Heard
<1>2. Deserved(c)'
  BY DEF CommandOK, Deserved
<1>3. Charged(c)'
  BY DEF CommandOK, Charged
<1>4. Scripted(c)'
  BY DEF CommandOK, Scripted
<1> QED BY <1>1, <1>2, <1>3, <1>4 DEF CommandOK

\* The same for what is true of a check whether or not it has a command.
LEMMA OtherCheck ==
  ASSUME IInv, NEW r \in Reqs,
         r \in started' <=> r \in started, answer'[r] = answer[r],
         charges'[r] = charges[r], HasCommand(r) => HasCommand(r)',
         timeouts' \in Nat, timeouts' >= timeouts,
         UNCHANGED <<kind, losses, drops, flushes>>
  PROVE  CheckOK(r)'
<1>1. CheckOK(r)
  BY DEF IInv
<1>2. answer'[r] \in BackendAnswers => drops > 0 \/ timeouts' > 0 \/ losses > 1
  BY <1>1 DEF CheckOK, IInv, TypeOK
<1> QED BY <1>1, <1>2 DEF CheckOK

-----------------------------------------------------------------------------
(***************************************************************************)
(* The two ways a continuation of check r ends: it sends the next command, *)
(* or it answers.  q holds the commands of the other checks.               *)
(***************************************************************************)
Others(r) == {c \in Range(queue) : c.req # r}

LEMMA SendStep ==
  ASSUME IInv, NEW r \in Reqs, NEW c \in Commands, Frame(r),
         c.req = r, c.live, c.reply = "none",
         answer[r] = "none", charges[r] <= drops,
         UNCHANGED <<answer, errors>>,
         queue' \in Seq(Commands), Distinct(queue'),
         Range(queue') = Others(r) \cup {c},
         Deserved(c), Scripted(c)'
  PROVE  IInv'
<1>1. TypeOK'
  BY DEF IInv, TypeOK, Frame
<1>2. FaultsOK'
  BY DEF IInv, FaultsOK, Frame
<1>3. QueueOK'
  <2>1. CommandOK(c)'
    <3>1. Heard(c)'
      BY DEF Heard, Frame
    <3>2. Deserved(c)'
      BY DEF Deserved, Frame
    <3>3. Charged(c)'
      BY DEF Charged, Frame
    <3> QED BY <3>1, <3>2, <3>3 DEF CommandOK
  <2>2. ASSUME NEW d \in Others(r) PROVE CommandOK(d)'
    <3>1. d \in Commands /\ CommandOK(d)
      BY CommandsInQueue DEF IInv, TypeOK, QueueOK, Others
    <3> QED BY <3>1, OtherCommand DEF Frame
  <2> QED BY <2>1, <2>2 DEF QueueOK
<1>4. ASSUME NEW p \in Reqs PROVE CheckOK(p)'
  <2>1. CASE p # r
    <3>1. HasCommand(p) => HasCommand(p)'
      BY <2>1 DEF HasCommand, Others
    <3>2. p \in started' <=> p \in started
      BY <2>1 DEF Frame
    <3> QED BY <3>1, <3>2, OtherCheck DEF Frame
  <2>2. CASE p = r
    <3>1. HasCommand(r)'
      BY DEF HasCommand
    <3>2. CheckOK(r) /\ r \in started'
      BY DEF IInv, Frame
    <3> QED BY <2>2, <3>1, <3>2 DEF CheckOK, Frame, BackendAnswers, ClientErrors
  <2> QED BY <2>1, <2>2
<1>5. Covered'
  <2>1. Granted' \subseteq Granted /\ Granted \subseteq Reqs
    BY DEF Granted, Others
  <2>2. /\ Cardinality(Granted) \in Nat /\ Cardinality(Granted') \in Nat
        /\ Cardinality(Granted') <= Cardinality(Granted)
    BY <2>1, SetShrinks
  <2>3. /\ redis' = redis /\ losses' = losses /\ flushes' = flushes
        /\ Limit * (losses - flushes) + redis.spent \in Int
    <3>1. redis.spent \in Int /\ losses - flushes \in Int
      BY DEF IInv, TypeOK
    <3> QED BY <3>1 DEF Frame
  <2> QED BY <2>2, <2>3 DEF Covered, IInv
<1>6. ErrorsCounted'
  BY DEF IInv, ErrorsCounted
<1> QED BY <1>1, <1>2, <1>3, <1>4, <1>5, <1>6 DEF IInv

LEMMA AnswerStep ==
  ASSUME IInv, NEW r \in Reqs, NEW a \in Answers \ {"none"}, Frame(r),
         answer[r] = "none",
         answer' = [answer EXCEPT ![r] = a],
         errors' = IF a \in BackendAnswers THEN errors + 1 ELSE errors,
         queue' \in Seq(Commands), Distinct(queue'),
         Others(r) \subseteq Range(queue'),
         \A c \in Range(queue') \ Others(r) :
            /\ a \in BackendAnswers /\ c.req = r /\ ~c.live
            /\ \E d \in Range(queue) : c = [d EXCEPT !.live = FALSE],
         a \in {"allowed", "denied"} =>
           \E c \in Range(queue) : c.req = r /\ c.reply = a,
         a \in ClientErrors => kind[r] # "good" \/ losses > flushes,
         a \in BackendAnswers => drops > 0 \/ timeouts' > 0 \/ losses > 1
  PROVE  IInv'
<1>1. TypeOK'
  <2>1. answer' \in [Reqs -> Answers] /\ errors' \in Nat
    BY DEF IInv, TypeOK
  <2> QED BY <2>1 DEF IInv, TypeOK, Frame
<1>2. FaultsOK'
  BY DEF IInv, FaultsOK, Frame
<1>3. answer'[r] = a /\ \A p \in Reqs \ {r} : answer'[p] = answer[p]
  BY DEF IInv, TypeOK
<1>4. QueueOK'
  <2>1. ASSUME NEW c \in Others(r) PROVE CommandOK(c)'
    <3>1. c \in Commands /\ CommandOK(c)
      BY CommandsInQueue DEF IInv, TypeOK, QueueOK, Others
    <3>2. c.req \in Reqs \ {r}
      BY <3>1 DEF Others, Commands
    <3> QED BY <1>3, <3>1, <3>2, OtherCommand DEF Frame
  <2>2. ASSUME NEW c \in Range(queue') \ Others(r) PROVE CommandOK(c)'
    <3>1. PICK d \in Range(queue) : c = [d EXCEPT !.live = FALSE]
      BY <2>2
    <3>2. d \in Commands /\ CommandOK(d)
      BY CommandsInQueue DEF IInv, TypeOK, QueueOK
    <3>3. c.req = d.req /\ c.cmd = d.cmd /\ c.reply = d.reply /\ c.req = r /\ ~c.live
      BY <2>2, <3>1, <3>2 DEF Commands
    <3>4. Heard(c)'
      BY <1>3, <2>2, <3>3 DEF Heard, Frame
    <3>5. Deserved(c)'
      BY <3>2, <3>3 DEF Deserved, CommandOK, Frame
    <3>6. Charged(c)'
      BY <3>2, <3>3 DEF Charged, CommandOK, Frame
    <3>7. Scripted(c)'
      BY <3>2, <3>3 DEF Scripted, CommandOK, Frame
    <3> QED BY <3>4, <3>5, <3>6, <3>7 DEF CommandOK
  <2> QED BY <2>1, <2>2 DEF QueueOK
<1>5. a \in {"allowed", "denied"} =>
        /\ kind[r] = "good"
        /\ IF a = "allowed" THEN charges[r] \in 1..(drops + 1) ELSE charges[r] <= drops
  <2> SUFFICES ASSUME a \in {"allowed", "denied"}
               PROVE  /\ kind[r] = "good"
                      /\ IF a = "allowed" THEN charges[r] \in 1..(drops + 1)
                                          ELSE charges[r] <= drops
    OBVIOUS
  <2>1. PICK c \in Range(queue) : c.req = r /\ c.reply = a
    OBVIOUS
  <2>2. c \in Commands /\ CommandOK(c)
    BY CommandsInQueue DEF IInv, TypeOK, QueueOK
  <2>3. kind[r] = "good"
    BY <2>1, <2>2 DEF CommandOK, Deserved, ReplySet
  <2>4. IF a = "allowed" THEN charges[r] \in 1..(drops + 1) ELSE charges[r] <= drops
    BY <2>1, <2>2 DEF CommandOK, Charged
  <2> QED BY <2>3, <2>4
<1>6. ASSUME NEW p \in Reqs PROVE CheckOK(p)'
  <2>1. CASE p # r
    <3>1. HasCommand(p) => HasCommand(p)'
      BY <2>1 DEF HasCommand, Others
    <3>2. p \in started' <=> p \in started
      BY <2>1 DEF Frame
    <3> QED BY <1>3, <2>1, <3>1, <3>2, OtherCheck DEF Frame
  <2>2. CASE p = r
    <3>1. CheckOK(r) /\ r \in started' /\ answer'[r] = a
      BY <1>3 DEF IInv, Frame
    <3>2. charges[r] \in Nat /\ drops \in Nat /\ losses \in Nat /\ flushes \in Nat
      BY DEF IInv, TypeOK
    <3>3. UNCHANGED <<kind, charges, drops, losses, flushes>>
      BY DEF Frame
    <3>4. charges[r] <= drops + 1 /\ (kind[r] # "good" => charges[r] = 0)
      BY <3>1, <3>2 DEF CheckOK
    <3>5. charges[r] <= drops + (IF a = "denied" THEN 0 ELSE 1)
      <4>1. CASE a = "denied"
        BY <1>5, <3>2, <4>1
      <4>2. CASE a # "denied"
        BY <3>4, <4>2
      <4> QED BY <4>1, <4>2
    <3>6. a = "allowed" => charges[r] >= 1
      BY <1>5, <3>2
    <3>7. kind[r] = "good" /\ losses = flushes => a \notin ClientErrors
      BY <3>2
    <3> QED BY <1>5, <2>2, <3>1, <3>3, <3>4, <3>5, <3>6, <3>7 DEF CheckOK
  <2> QED BY <2>1, <2>2
<1>7. Covered'
  <2>1. Granted' \subseteq Granted /\ Granted \subseteq Reqs
    <3> SUFFICES ASSUME NEW p \in Reqs, p \in Granted' PROVE p \in Granted
      BY DEF Granted
    <3>1. CASE answer'[p] = "allowed"
      BY <1>3, <3>1 DEF Granted
    <3>2. CASE \E c \in Range(queue') : c.req = p /\ c.reply = "allowed"
      <4>1. PICK c \in Range(queue') : c.req = p /\ c.reply = "allowed"
        BY <3>2
      <4>2. CASE c \in Others(r)
        BY <4>1, <4>2 DEF Granted, Others
      <4>3. CASE c \notin Others(r)
        <5>1. PICK d \in Range(queue) : c = [d EXCEPT !.live = FALSE]
          BY <4>3
        <5>2. d \in Commands
          BY CommandsInQueue DEF IInv, TypeOK
        <5>3. d.req = p /\ d.reply = "allowed"
          BY <4>1, <5>1, <5>2 DEF Commands
        <5> QED BY <5>3 DEF Granted
      <4> QED BY <4>2, <4>3
    <3> QED BY <3>1, <3>2 DEF Granted
  <2>2. /\ Cardinality(Granted) \in Nat /\ Cardinality(Granted') \in Nat
        /\ Cardinality(Granted') <= Cardinality(Granted)
    BY <2>1, SetShrinks
  <2>3. /\ redis' = redis /\ losses' = losses /\ flushes' = flushes
        /\ Limit * (losses - flushes) + redis.spent \in Int
    <3>1. redis.spent \in Int /\ losses - flushes \in Int
      BY DEF IInv, TypeOK
    <3> QED BY <3>1 DEF Frame
  <2> QED BY <2>2, <2>3 DEF Covered, IInv
<1>8. ErrorsCounted'
  <2>1. r \notin Failed /\ Failed \subseteq Reqs
    BY DEF Failed, BackendAnswers
  <2>2. CASE a \in BackendAnswers
    <3>1. Failed' = Failed \cup {r}
      BY <1>3, <2>2 DEF Failed
    <3>2. Cardinality(Failed') = Cardinality(Failed) + 1
      BY <2>1, <3>1, SetGrowsByOne
    <3> QED BY <2>2, <3>2 DEF IInv, ErrorsCounted, Failed
  <2>3. CASE a \notin BackendAnswers
    <3>1. Failed' = Failed
      BY <1>3, <2>1, <2>3 DEF Failed
    <3> QED BY <2>3, <3>1 DEF IInv, ErrorsCounted, Failed
  <2> QED BY <2>2, <2>3
<1> QED BY <1>1, <1>2, <1>4, <1>6, <1>7, <1>8 DEF IInv

\* The same for the operators of the model that write it; q is the queue of the
\* other checks' commands.
LEMMA FinishOK ==
  ASSUME IInv, NEW r \in Reqs, NEW a \in Answers \ ({"none"} \cup BackendAnswers),
         NEW q \in Seq(Commands), Distinct(q), Range(q) = Others(r),
         Frame(r), answer[r] = "none", Finish(r, a, q),
         a \in {"allowed", "denied"} =>
           \E c \in Range(queue) : c.req = r /\ c.reply = a,
         a \in ClientErrors => kind[r] # "good" \/ losses > flushes
  PROVE  IInv'
BY AnswerStep DEF Finish

LEMMA BackendErrorOK ==
  ASSUME IInv, NEW r \in Reqs,
         NEW q \in Seq(Commands), Distinct(q), Range(q) = Others(r),
         Frame(r), answer[r] = "none", BackendError(r, q),
         drops > 0 \/ timeouts' > 0 \/ losses > 1
  PROVE  IInv'
<1>1. PICK a \in BackendAnswers : answer' = [answer EXCEPT ![r] = a]
  BY DEF BackendError, BackendAnswers
<1>2. a \in Answers \ {"none"} /\ a \notin {"allowed", "denied"} /\ a \notin ClientErrors
  BY DEF Answers, BackendAnswers, ClientErrors
<1> QED BY <1>1, <1>2, AnswerStep DEF BackendError

LEMMA SendOK ==
  ASSUME IInv, NEW r \in Reqs, NEW cmd \in Cmds,
         NEW q \in Seq(Commands), Distinct(q), Range(q) = Others(r),
         Frame(r), answer[r] = "none", charges[r] <= drops, Send(r, cmd, q),
         kind[r] # "noKey",
         cmd = "hget" => kind[r] \notin {"badKey", "noIdentifier"},
         cmd \notin {"get", "hget"} => kind[r] = "good",
         cmd = "eval" => shaKnown',
         cmd \in {"reload", "reeval"} => losses > 0,
         cmd = "reeval" /\ losses < 2 => redis.scripts
  PROVE  IInv'
<1> DEFINE c == [req |-> r, cmd |-> cmd, live |-> TRUE, reply |-> "none"]
<1>1. CASE linkUp
  <2>1. queue' = Append(q, c) /\ UNCHANGED <<answer, errors>>
    BY <1>1 DEF Send
  <2>2. c \in Commands /\ c.req = r /\ c.cmd = cmd /\ c.live /\ c.reply = "none"
    BY DEF Commands, Replies
  <2>3. \A d \in Range(q) : d.req # c.req
    BY <2>2 DEF Others
  <2> HIDE DEF c
  <2>4. queue' \in Seq(Commands) /\ Distinct(queue') /\ Range(queue') = Others(r) \cup {c}
    BY <2>1, <2>2, <2>3, AppendToQueue
  <2>5. Deserved(c)
    BY <2>2 DEF Deserved, ReplySet, Cmds
  <2>6. Scripted(c)'
    BY <2>2 DEF Scripted, Frame
  <2> QED BY <2>1, <2>2, <2>4, <2>5, <2>6, SendStep
<1>2. CASE ~linkUp
  <2>1. BackendError(r, q) /\ drops > 0
    BY <1>2 DEF Send, IInv, FaultsOK
  <2> QED BY <2>1, BackendErrorOK
<1> QED BY <1>1, <1>2

-----------------------------------------------------------------------------
(***************************************************************************)
(* One lemma per action.                                                   *)
(***************************************************************************)
LEMMA StartStep ==
  ASSUME IInv, NEW r \in Reqs, Start(r)
  PROVE  IInv'
<1>1. Frame(r)
  BY DEF Start, Frame, faultVars, IInv, TypeOK, FaultsOK
<1>2. CheckOK(r) /\ answer[r] = "none" /\ charges[r] = 0 /\ drops \in Nat
  BY DEF Start, IInv, CheckOK, TypeOK
<1>3. queue \in Seq(Commands) /\ Distinct(queue)
  BY DEF IInv, TypeOK, QueueOK
<1>4. Range(queue) = Others(r)
  BY DEF Start, IInv, QueueOK, CommandOK, Heard, Others
<1>5. CASE kind[r] = "noKey"
  <2>1. Finish(r, "unknownKey", queue)
    BY <1>5 DEF Start
  <2> QED BY <1>1, <1>2, <1>3, <1>4, <1>5, <2>1, FinishOK
          DEF Answers, ClientErrors, BackendAnswers
<1>6. CASE kind[r] # "noKey"
  <2>1. Send(r, "get", queue)
    BY <1>6 DEF Start
  <2> QED BY <1>1, <1>2, <1>3, <1>4, <1>6, <2>1, SendOK DEF Cmds
<1> QED BY <1>5, <1>6

LEMMA TimeoutStep ==
  ASSUME IInv, NEW r \in Reqs, Timeout(r)
  PROVE  IInv'
<1>1. timeouts \in Nat /\ started' = started
  BY DEF Timeout, IInv, TypeOK
<1>2. PICK i \in DOMAIN queue : queue[i].req = r /\ queue[i].live
  BY DEF Timeout, Waiting
<1>3. queue \in Seq(Commands) /\ Distinct(queue)
  BY DEF IInv, TypeOK, QueueOK
<1>4. queue[i] \in Range(queue)
  BY <1>3, CommandsInQueue
<1>5. r \in started /\ answer[r] = "none"
  BY <1>2, <1>4 DEF IInv, QueueOK, CommandOK, Heard
<1>6. Frame(r)
  BY <1>1, <1>5 DEF Timeout, Frame, IInv, TypeOK, FaultsOK
<1>7. /\ Muted(r) \in Seq(Commands) /\ Distinct(Muted(r))
      /\ Range(Muted(r)) = Others(r)
           \cup {[c EXCEPT !.live = FALSE] : c \in {d \in Range(queue) : d.req = r}}
  BY <1>3, MutedQueue DEF Others
<1>8. PICK a \in BackendAnswers : answer' = [answer EXCEPT ![r] = a]
  BY DEF Timeout, BackendError, BackendAnswers
<1>9. a \in Answers \ {"none"} /\ a \notin {"allowed", "denied"} /\ a \notin ClientErrors
  BY DEF Answers, BackendAnswers, ClientErrors
<1>10. queue' = Muted(r) /\ errors' = errors + 1 /\ timeouts' > 0
  BY <1>1 DEF Timeout, BackendError
<1>11. ASSUME NEW c \in Range(queue') \ Others(r)
       PROVE  /\ c.req = r /\ ~c.live
              /\ \E d \in Range(queue) : c = [d EXCEPT !.live = FALSE]
  <2>1. PICK d \in Range(queue) : d.req = r /\ c = [d EXCEPT !.live = FALSE]
    BY <1>7, <1>10
  <2>2. d \in Commands
    BY <1>3, CommandsInQueue
  <2> QED BY <2>1, <2>2 DEF Commands
<1>12. /\ queue' \in Seq(Commands) /\ Distinct(queue')
       /\ Others(r) \subseteq Range(queue')
  BY <1>7, <1>10
<1>13. errors' = IF a \in BackendAnswers THEN errors + 1 ELSE errors
  BY <1>10
<1> QED BY <1>5, <1>6, <1>8, <1>9, <1>10, <1>11, <1>12, <1>13, AnswerStep

\* Steps that answer and send nothing: a reply nobody listens to, a new
\* connection, the tenant provisioned again, the cached rule expired.
LEMMA QuietStep ==
  ASSUME IInv,
         UNCHANGED <<kind, answer, started, shaKnown, errors, charges, faultVars>>,
         queue' \in Seq(Commands), Distinct(queue'), Range(queue') \subseteq Range(queue),
         \A p \in Reqs : answer[p] = "none" /\ HasCommand(p) => HasCommand(p)',
         linkUp' \in BOOLEAN, cached' \in BOOLEAN, linkUp => linkUp',
         redis' \in [data: BOOLEAN, scripts: BOOLEAN, spent: 0..Limit],
         redis'.scripts = redis.scripts, redis'.spent = redis.spent,
         redis.data => redis'.data
  PROVE  IInv'
<1>1. TypeOK'
  BY DEF IInv, TypeOK, faultVars
<1>2. FaultsOK'
  BY DEF IInv, FaultsOK, faultVars
<1>3. QueueOK'
  <2>1. ASSUME NEW c \in Range(queue') PROVE CommandOK(c)'
    <3>1. c \in Commands /\ CommandOK(c)
      BY CommandsInQueue DEF IInv, TypeOK, QueueOK
    <3> QED BY <3>1, OtherCommand DEF faultVars
  <2> QED BY <2>1 DEF QueueOK
<1>4. ASSUME NEW p \in Reqs PROVE CheckOK(p)'
  <2>1. CheckOK(p)
    BY DEF IInv
  <2> QED BY <2>1 DEF CheckOK, faultVars
<1>5. Covered'
  <2>1. Granted' \subseteq Granted /\ Granted \subseteq Reqs
    BY DEF Granted
  <2>2. /\ Cardinality(Granted) \in Nat /\ Cardinality(Granted') \in Nat
        /\ Cardinality(Granted') <= Cardinality(Granted)
    BY <2>1, SetShrinks
  <2>3. /\ redis'.spent = redis.spent /\ losses' = losses /\ flushes' = flushes
        /\ Limit * (losses - flushes) + redis.spent \in Int
    <3>1. redis.spent \in Int /\ losses - flushes \in Int
      BY DEF IInv, TypeOK
    <3> QED BY <3>1 DEF faultVars
  <2> QED BY <2>2, <2>3 DEF Covered, IInv
<1>6. ErrorsCounted'
  BY DEF IInv, ErrorsCounted
<1> QED BY <1>1, <1>2, <1>3, <1>4, <1>5, <1>6 DEF IInv

LEMMA ReconnectProvisionExpireStep ==
  ASSUME IInv, Reconnect \/ Provision \/ CacheExpires \/ UNCHANGED vars
  PROVE  IInv'
<1>1. queue' = queue /\ UNCHANGED <<kind, answer, started, shaKnown, errors, charges, faultVars>>
  BY DEF Reconnect, Provision, CacheExpires, vars, faultVars
<1>2. /\ linkUp' \in BOOLEAN /\ cached' \in BOOLEAN
      /\ linkUp => linkUp'
      /\ redis' \in [data: BOOLEAN, scripts: BOOLEAN, spent: 0..Limit]
      /\ redis'.scripts = redis.scripts /\ redis'.spent = redis.spent
      /\ redis.data => redis'.data
  BY DEF Reconnect, Provision, CacheExpires, vars, IInv, TypeOK
<1>3. queue' \in Seq(Commands) /\ Distinct(queue') /\ Range(queue') \subseteq Range(queue)
  BY <1>1 DEF IInv, TypeOK, QueueOK
<1>4. \A p \in Reqs : answer[p] = "none" /\ HasCommand(p) => HasCommand(p)'
  BY <1>1 DEF HasCommand
<1> QED BY <1>1, <1>2, <1>3, <1>4, QuietStep

\* The oldest reply goes to the check that waits for it, or to nobody.
LEMMA DeliverStep ==
  ASSUME IInv, Deliver
  PROVE  IInv'
<1> DEFINE c == Head(queue)
           r == c.req
           q == Tail(queue)
<1>1. linkUp /\ queue # <<>> /\ c.reply # "none"
      /\ UNCHANGED <<kind, started, linkUp, redis, charges, faultVars>>
  BY DEF Deliver
<1>2. queue \in Seq(Commands) /\ Distinct(queue)
  BY DEF IInv, TypeOK, QueueOK
<1>3. /\ c \in Range(queue) /\ c \in Commands
      /\ q \in Seq(Commands) /\ Distinct(q) /\ Range(q) = Others(r)
  BY <1>1, <1>2, TailOfQueue DEF Others
<1>4. CommandOK(c) /\ r \in Reqs
  BY <1>3 DEF IInv, QueueOK, Commands
<1>5. \/ c.live /\ Resume(r, c.cmd, c.reply, q)
      \/ ~c.live /\ queue' = q /\ UNCHANGED <<answer, errors, cached, shaKnown>>
  BY DEF Deliver
<1> HIDE DEF c, q
<1>6. r \in started /\ (c.live <=> answer[r] = "none")
  BY <1>3, <1>4 DEF CommandOK, Heard, BackendAnswers, Commands
<1>7. CASE ~c.live
  <2>1. queue' = q /\ UNCHANGED <<answer, errors, cached, shaKnown>>
    BY <1>5, <1>7
  <2>2. ASSUME NEW p \in Reqs, answer[p] = "none", HasCommand(p) PROVE HasCommand(p)'
    <3>1. p # r
      BY <1>6, <1>7, <2>2
    <3> QED BY <1>3, <2>1, <2>2, <3>1 DEF HasCommand, Others
  <2>3. Range(queue') \subseteq Range(queue)
    BY <1>3, <2>1 DEF Others
  <2>4. redis' \in [data: BOOLEAN, scripts: BOOLEAN, spent: 0..Limit]
        /\ linkUp' \in BOOLEAN /\ cached' \in BOOLEAN
    BY <1>1, <2>1 DEF IInv, TypeOK
  <2> QED BY <1>1, <1>3, <2>1, <2>2, <2>3, <2>4, QuietStep
<1>8. CASE c.live
  <2>1. Resume(r, c.cmd, c.reply, q) /\ answer[r] = "none"
    BY <1>5, <1>6, <1>8
  <2>2. drops \in Nat /\ losses \in Nat /\ flushes \in Nat /\ charges[r] \in Nat
        /\ flushes <= losses
    BY <1>4 DEF IInv, TypeOK, FaultsOK
  <2>3. c.reply # "allowed" => charges[r] <= drops
    BY <1>4 DEF CommandOK, Charged
  <2>4. /\ c.cmd \in Cmds /\ c.reply \in ReplySet(c.cmd) /\ kind[r] # "noKey"
        /\ c.cmd \notin {"get", "hget"} => kind[r] = "good"
        /\ c.cmd = "get" /\ c.reply = "hit" => kind[r] # "badKey"
        /\ c.cmd = "hget" => kind[r] \notin {"badKey", "noIdentifier"}
        /\ c.cmd = "hget" /\ c.reply = "hit" => kind[r] # "badRule"
        /\ c.reply = "nil" => kind[r] # "good" \/ losses > flushes
    BY <1>3, <1>4 DEF CommandOK, Deserved, Commands
  <2>5. Scripted(c) /\ (losses = 0 /\ shaKnown => redis.scripts)
    BY <1>4 DEF CommandOK, IInv, FaultsOK
  <2>6. /\ started' = started \cup {r} /\ timeouts' = timeouts /\ timeouts \in Nat
        /\ UNCHANGED <<kind, linkUp, redis, charges, losses, drops, flushes>>
        /\ shaKnown \in BOOLEAN /\ cached \in BOOLEAN
    BY <1>1, <1>6 DEF faultVars, IInv, TypeOK
  <2>7. ASSUME cached' \in BOOLEAN, shaKnown' = shaKnown PROVE Frame(r)
    BY <2>5, <2>6, <2>7 DEF Frame
  <2>8. ASSUME NEW a \in {"unknownKey", "unknownRule", "invalid", "allowed", "denied"},
               Finish(r, a, q),
               cached' \in BOOLEAN, shaKnown' = shaKnown,
               a \in {"allowed", "denied"} => c.reply = a,
               a \in ClientErrors => kind[r] # "good" \/ losses > flushes
        PROVE  IInv'
    <3>1. a \in Answers \ ({"none"} \cup BackendAnswers)
      BY DEF Answers, ClientErrors, BackendAnswers
    <3> QED BY <1>3, <1>4, <2>1, <2>7, <2>8, <3>1, FinishOK
  <2>9. ASSUME RunScript(r, q), kind[r] = "good", c.reply # "allowed",
               cached' \in BOOLEAN, shaKnown' = shaKnown
        PROVE  IInv'
    <3> DEFINE cmd == IF shaKnown THEN "eval" ELSE "load"
    <3>1. cmd \in {"eval", "load"} /\ (cmd = "eval" => shaKnown') /\ Send(r, cmd, q)
      BY <2>9 DEF RunScript
    <3> HIDE DEF cmd
    <3> QED BY <1>3, <1>4, <2>1, <2>3, <2>7, <2>9, <3>1, SendOK DEF Cmds
  <2>10. ASSUME WithRule(r, q), kind[r] \in {"good", "badCost"}, c.reply # "allowed",
                cached' \in BOOLEAN, shaKnown' = shaKnown
         PROVE  IInv'
    <3>1. CASE kind[r] = "badCost"
      <4>1. Finish(r, "invalid", q)
        BY <2>10, <3>1 DEF WithRule
      <4>2. "invalid" \notin {"allowed", "denied"} /\ kind[r] # "good"
        BY <3>1
      <4> QED BY <2>8, <2>10, <4>1, <4>2
    <3>2. CASE kind[r] # "badCost"
      BY <2>9, <2>10, <3>2 DEF WithRule
    <3> QED BY <3>1, <3>2
  <2>11. kind[r] \in Kinds
    BY <1>4 DEF IInv, TypeOK
  <2>12. CASE c.cmd = "get"
    <3>1. \/ c.reply = "nil" /\ Finish(r, "unknownKey", q) /\ UNCHANGED <<cached, shaKnown>>
          \/ c.reply = "hit" /\ Resolve(r, q) /\ UNCHANGED <<cached, shaKnown>>
      BY <2>1, <2>12 DEF Resume
    <3>2. cached' = cached /\ cached' \in BOOLEAN /\ shaKnown' = shaKnown
      BY <2>6, <3>1
    <3>3. CASE c.reply = "nil"
      <4>1. Finish(r, "unknownKey", q) /\ "unknownKey" \notin {"allowed", "denied"}
        BY <3>1, <3>3
      <4> QED BY <2>4, <2>8, <3>2, <3>3, <4>1
    <3>4. CASE c.reply = "hit"
      <4>1. Resolve(r, q) /\ kind[r] # "badKey"
        BY <2>4, <2>12, <3>1, <3>4
      <4>2. CASE kind[r] = "noIdentifier"
        <5>1. Finish(r, "invalid", q)
          BY <4>1, <4>2 DEF Resolve
        <5>2. "invalid" \notin {"allowed", "denied"} /\ kind[r] # "good"
          BY <4>2
        <5> QED BY <2>8, <3>2, <5>1, <5>2
      <4>3. CASE kind[r] # "noIdentifier" /\ cached /\ kind[r] # "badRule"
        <5>1. WithRule(r, q) /\ kind[r] \in {"good", "badCost"}
          BY <2>4, <2>11, <4>1, <4>3 DEF Resolve, Kinds
        <5> QED BY <2>10, <3>2, <3>4, <5>1
      <4>4. CASE kind[r] # "noIdentifier" /\ ~(cached /\ kind[r] # "badRule")
        <5>1. Send(r, "hget", q)
          BY <4>1, <4>4 DEF Resolve
        <5>2. Frame(r) /\ charges[r] <= drops
          BY <2>3, <2>7, <3>2, <3>4
        <5> QED BY <1>3, <1>4, <2>1, <2>4, <4>1, <4>4, <5>1, <5>2, SendOK DEF Cmds
      <4> QED BY <4>2, <4>3, <4>4
    <3> QED BY <3>1, <3>3, <3>4
  <2>13. CASE c.cmd = "hget"
    <3>1. \/ /\ c.reply = "nil" /\ Finish(r, "unknownRule", q)
             /\ UNCHANGED <<cached, shaKnown>>
          \/ c.reply = "hit" /\ cached' = TRUE /\ WithRule(r, q) /\ UNCHANGED shaKnown
      BY <2>1, <2>13 DEF Resume
    <3>2. cached' \in BOOLEAN /\ shaKnown' = shaKnown
      BY <2>6, <3>1
    <3>3. CASE c.reply = "nil"
      <4>1. Finish(r, "unknownRule", q) /\ "unknownRule" \notin {"allowed", "denied"}
        BY <3>1, <3>3
      <4> QED BY <2>4, <2>8, <3>2, <3>3, <4>1
    <3>4. CASE c.reply = "hit"
      <4>1. WithRule(r, q) /\ kind[r] \in {"good", "badCost"}
        BY <2>4, <2>11, <2>13, <3>1, <3>4 DEF Kinds
      <4> QED BY <2>10, <3>2, <3>4, <4>1
    <3> QED BY <3>1, <3>3, <3>4
  <2>14. CASE c.cmd \in {"load", "reload"}
    <3> DEFINE cmd == IF c.cmd = "load" THEN "eval" ELSE "reeval"
    <3>1. shaKnown' = TRUE /\ Send(r, cmd, q) /\ UNCHANGED cached
      BY <2>1, <2>14 DEF Resume
    <3>2. c.reply = "ok" /\ kind[r] = "good"
      BY <1>1, <2>4, <2>14 DEF ReplySet
    <3>3. losses = 0 => redis.scripts
      BY <2>5, <2>14, <3>2 DEF Scripted
    <3>4. Frame(r)
      BY <2>6, <3>1, <3>3 DEF Frame
    <3>5. /\ cmd \in {"eval", "reeval"}
          /\ cmd = "reeval" => losses > 0 /\ (losses < 2 => redis.scripts)
      BY <2>5, <2>14, <3>2 DEF Scripted
    <3>6. charges[r] <= drops
      BY <2>3, <3>2
    <3> HIDE DEF cmd
    <3> QED BY <1>3, <1>4, <2>1, <3>1, <3>2, <3>4, <3>5, <3>6, SendOK DEF Cmds
  <2>15. CASE c.cmd \in {"eval", "reeval"}
    <3>1. UNCHANGED <<cached, shaKnown>>
          /\ \/ c.reply = "noscript" /\ OnNoScript(r, c.cmd, c.reply, q)
             \/ c.reply \in {"allowed", "denied"} /\ Finish(r, c.reply, q)
      BY <2>1, <2>15 DEF Resume
    <3>2. cached' \in BOOLEAN /\ shaKnown' = shaKnown /\ kind[r] = "good"
      BY <2>4, <2>6, <2>15, <3>1
    <3>3. CASE c.reply \in {"allowed", "denied"}
      <4>1. Finish(r, c.reply, q) /\ c.reply \notin ClientErrors
        BY <3>1, <3>3 DEF ClientErrors
      <4> QED BY <2>8, <3>2, <3>3, <4>1
    <3>4. CASE c.reply = "noscript"
      <4>1. OnNoScript(r, c.cmd, c.reply, q) /\ losses > 0 /\ charges[r] <= drops
        BY <2>3, <2>5, <3>1, <3>4 DEF Scripted
      <4>2. CASE c.cmd = "eval"
        <5>1. Send(r, "reload", q)
          BY <4>1, <4>2 DEF OnNoScript
        <5> QED BY <1>3, <1>4, <2>1, <2>7, <3>2, <4>1, <5>1, SendOK DEF Cmds
      <4>3. CASE c.cmd # "eval"
        <5>1. BackendError(r, q) /\ losses > 1
          BY <2>2, <2>5, <2>15, <3>4, <4>1, <4>3 DEF OnNoScript, Scripted
        <5> QED BY <1>3, <1>4, <2>1, <2>7, <3>2, <5>1, BackendErrorOK
      <4> QED BY <4>2, <4>3
    <3> QED BY <3>1, <3>3, <3>4
  <2> QED BY <2>4, <2>12, <2>13, <2>14, <2>15 DEF Cmds
<1> QED BY <1>7, <1>8

\* Redis answers the next command: it grants a token to one check at most, and
\* pays for it.
LEMMA ExecuteStep ==
  ASSUME IInv, Execute
  PROVE  IInv'
<1>1. PICK i \in DOMAIN queue :
        LET c == queue[i]  reply == ReplyTo(c) IN
          /\ linkUp
          /\ c.reply = "none"
          /\ queue' = [queue EXCEPT ![i].reply = reply]
          /\ redis' = [redis EXCEPT !.scripts = @ \/ c.cmd \in {"load", "reload"},
                                    !.spent = IF reply = "allowed" THEN @ + 1 ELSE @]
          /\ charges' = IF reply = "allowed" THEN [charges EXCEPT ![c.req] = @ + 1] ELSE charges
          /\ UNCHANGED <<kind, answer, started, linkUp, shaKnown, cached, errors, faultVars>>
  BY DEF Execute
<1>2. /\ queue \in Seq(Commands) /\ Distinct(queue)
      /\ redis \in [data: BOOLEAN, scripts: BOOLEAN, spent: 0..Limit]
  BY DEF IInv, TypeOK, QueueOK
<1>3. PICK c \in Commands : c = queue[i] /\ c \in Range(queue)
  BY <1>2, CommandsInQueue
<1> DEFINE r == c.req
<1>4. CommandOK(c) /\ r \in Reqs /\ CheckOK(r) /\ c.cmd \in Cmds
  BY <1>3 DEF IInv, QueueOK, Commands
<1>5. PICK x : x = ReplyTo(c)
  OBVIOUS
<1>6. /\ x \in ReplySet(c.cmd) /\ x \in Replies
      /\ c.cmd = "get" /\ x = "hit" => kind[r] # "badKey"
      /\ c.cmd = "hget" /\ x = "hit" => kind[r] # "badRule"
      /\ x = "nil" => kind[r] # "good" \/ ~redis.data
      /\ x = "noscript" => ~redis.scripts
      /\ x = "allowed" => redis.spent < Limit /\ c.cmd \in {"eval", "reeval"}
      /\ c.cmd \in {"eval", "reeval"} /\ redis.scripts => x # "noscript"
  BY <1>4, <1>5 DEF ReplyTo, ScriptReply, ReplySet, Replies, Cmds
<1>7. /\ c.reply = "none" /\ linkUp
      /\ queue' = [queue EXCEPT ![i].reply = x]
      /\ charges' = IF x = "allowed" THEN [charges EXCEPT ![r] = @ + 1] ELSE charges
      /\ UNCHANGED <<kind, answer, started, linkUp, shaKnown, cached, errors, faultVars>>
  BY <1>1, <1>3, <1>5
<1>8. /\ redis' \in [data: {redis.data}, scripts: BOOLEAN, spent: 0..Limit]
      /\ redis'.scripts = (redis.scripts \/ c.cmd \in {"load", "reload"})
      /\ redis'.spent = IF x = "allowed" THEN redis.spent + 1 ELSE redis.spent
  <2>1. redis' = [redis EXCEPT !.scripts = redis.scripts \/ c.cmd \in {"load", "reload"},
                              !.spent = IF x = "allowed" THEN redis.spent + 1 ELSE redis.spent]
    BY <1>1, <1>3, <1>5
  <2>2. (IF x = "allowed" THEN redis.spent + 1 ELSE redis.spent) \in 0..Limit
    BY <1>2, <1>6
  <2> QED BY <1>2, <2>1, <2>2
<1>9. PICK e : e = [c EXCEPT !.reply = x]
  OBVIOUS
<1>10. /\ e.req = r /\ e.cmd = c.cmd /\ e.live = c.live /\ e.reply = x
      /\ queue' \in Seq(Commands) /\ Distinct(queue') /\ Range(queue') = Others(r) \cup {e}
  <2>1. e.req = r /\ e.cmd = c.cmd /\ e.live = c.live /\ e.reply = x
    BY <1>9 DEF Commands
  <2>2. /\ queue' \in Seq(Commands) /\ Distinct(queue')
        /\ Range(queue') = {d \in Range(queue) : d.req # queue[i].req}
                             \cup {[queue[i] EXCEPT !.reply = x]}
    BY <1>2, <1>6, <1>7, ReplyInQueue
  <2>3. Range(queue') = {d \in Range(queue) : d.req # r} \cup {e}
    BY <1>3, <1>9, <2>2
  <2> QED BY <2>1, <2>2, <2>3 DEF Others
<1>11. drops \in Nat /\ losses \in Nat /\ flushes \in Nat /\ charges[r] \in Nat
      /\ UNCHANGED <<drops, losses, flushes, timeouts>> /\ timeouts \in Nat
  BY <1>4, <1>7 DEF IInv, TypeOK, faultVars
<1>12. /\ charges' \in [Reqs -> Nat]
       /\ charges'[r] = IF x = "allowed" THEN charges[r] + 1 ELSE charges[r]
       /\ \A p \in Reqs \ {r} : charges'[p] = charges[p]
  BY <1>4, <1>7, <1>11 DEF IInv, TypeOK
<1>13. TypeOK'
  BY <1>7, <1>8, <1>10, <1>11, <1>12 DEF IInv, TypeOK
<1>14. FaultsOK'
  BY <1>7, <1>8, <1>11 DEF IInv, FaultsOK
<1>15. charges[r] <= drops /\ Heard(c) /\ Deserved(c) /\ Scripted(c)
  BY <1>4, <1>7 DEF CommandOK, Charged
<1>16. QueueOK'
  <2>1. CommandOK(e)'
    <3>1. Heard(e)'
      BY <1>7, <1>10, <1>15 DEF Heard
    <3>2. x = "nil" /\ kind[r] = "good" => losses > flushes
      BY <1>6, <1>11 DEF IInv, FaultsOK
    <3>3. Deserved(e)'
      BY <1>6, <1>7, <1>10, <1>11, <1>15, <3>2 DEF Deserved
    <3>4. Charged(e)'
      BY <1>10, <1>11, <1>12, <1>15 DEF Charged
    <3>5. x = "noscript" => losses > 0
      <4>1. x = "noscript" => c.cmd \in {"eval", "reeval"}
        BY <1>4, <1>6 DEF ReplySet, Cmds
      <4>2. losses = 0 /\ shaKnown => redis.scripts
        BY DEF IInv, FaultsOK
      <4> QED BY <1>6, <1>11, <1>15, <4>1, <4>2 DEF Scripted
    <3>6. c.cmd = "reeval" /\ losses < 2 => redis.scripts /\ x # "noscript"
      BY <1>6, <1>15 DEF Scripted
    <3>7. redis.scripts \/ c.cmd \in {"load", "reload"} => redis'.scripts
      BY <1>8
    <3>8. Scripted(e)'
      <4>1. /\ c.cmd = "eval" => shaKnown
            /\ c.cmd \in {"reload", "reeval"} => losses > 0
        BY <1>15 DEF Scripted
      <4>2. losses' = losses /\ shaKnown' = shaKnown
        BY <1>7, <1>11
      <4> QED BY <1>10, <3>5, <3>6, <3>7, <4>1, <4>2 DEF Scripted
    <3> QED BY <3>1, <3>3, <3>4, <3>8 DEF CommandOK
  <2>2. ASSUME NEW d \in Others(r) PROVE CommandOK(d)'
    <3>1. d \in Commands /\ CommandOK(d)
      BY <1>2, CommandsInQueue DEF IInv, QueueOK, Others
    <3>2. d.req \in Reqs \ {r}
      BY <3>1 DEF Others, Commands
    <3> QED BY <1>7, <1>8, <1>11, <1>12, <3>1, <3>2, OtherCommand
  <2> QED BY <1>10, <2>1, <2>2 DEF QueueOK
<1>17. ASSUME NEW p \in Reqs PROVE CheckOK(p)'
  <2>1. HasCommand(p) => HasCommand(p)'
    BY <1>10 DEF HasCommand, Others
  <2>2. CASE p # r
    BY <1>7, <1>11, <1>12, <2>1, <2>2, OtherCheck
  <2>3. CASE p = r
    <3>1. answer[r] \in BackendAnswers \cup {"none"}
      BY <1>15 DEF Heard
    <3>2. charges'[r] <= drops + 1
      BY <1>11, <1>12, <1>15
    <3>3. kind[r] # "good" => charges'[r] = 0
      BY <1>4, <1>6, <1>12, <1>15 DEF CheckOK, Deserved
    <3>4. charges[r] >= 0 /\ charges'[r] <= drops' + (IF answer'[r] = "denied" THEN 0 ELSE 1)
      BY <1>7, <1>11, <3>1, <3>2 DEF BackendAnswers
    <3>5. HasCommand(r)'
      BY <1>10 DEF HasCommand
    <3> QED BY <1>4, <1>7, <1>11, <1>15, <2>3, <3>1, <3>3, <3>4, <3>5
            DEF CheckOK, BackendAnswers, Heard
  <2> QED BY <2>2, <2>3
<1>18. Covered'
  <2>1. Granted' \subseteq (IF x = "allowed" THEN Granted \cup {r} ELSE Granted)
        /\ Granted \subseteq Reqs
    BY <1>7, <1>10 DEF Granted, Others
  <2>2. redis.spent \in Int /\ Limit * (losses - flushes) \in Int
    BY <1>2, <1>11
  <2>3. CASE x = "allowed"
    <3>1. /\ Cardinality(Granted) \in Nat /\ Cardinality(Granted') \in Nat
          /\ Cardinality(Granted') <= Cardinality(Granted) + 1
      BY <2>1, <2>3, SetGrowsAtMostByOne
    <3>2. redis'.spent = redis.spent + 1
      BY <1>8, <2>3
    <3>3. Cardinality(Granted) <= Limit * (losses - flushes) + redis.spent
      BY DEF IInv, Covered
    <3>4. Cardinality(Granted') <= Limit * (losses - flushes) + (redis.spent + 1)
      BY <2>2, <3>1, <3>3
    <3> QED BY <1>11, <3>2, <3>4 DEF Covered
  <2>4. CASE x # "allowed"
    <3>1. /\ Cardinality(Granted) \in Nat /\ Cardinality(Granted') \in Nat
          /\ Cardinality(Granted') <= Cardinality(Granted)
      BY <2>1, <2>4, SetShrinks
    <3>2. redis'.spent = redis.spent
      BY <1>8, <2>4
    <3>3. Cardinality(Granted) <= Limit * (losses - flushes) + redis.spent
      BY DEF IInv, Covered
    <3>4. Cardinality(Granted') <= Limit * (losses - flushes) + redis.spent
      BY <2>2, <3>1, <3>3
    <3> QED BY <1>11, <3>2, <3>4 DEF Covered
  <2> QED BY <2>3, <2>4
<1>19. ErrorsCounted'
  BY <1>7 DEF IInv, ErrorsCounted
<1> QED BY <1>13, <1>14, <1>16, <1>17, <1>18, <1>19 DEF IInv

\* The connection drops: what was executed without its reply arriving is forgotten
\* by the client, and may be charged once more.
LEMMA DropStep ==
  ASSUME IInv, Drop
  PROVE  IInv'
<1>1. /\ queue' = [i \in DOMAIN queue |-> [queue[i] EXCEPT !.reply = "none"]]
      /\ drops' = drops + 1 /\ drops \in Nat /\ linkUp' = FALSE
      /\ UNCHANGED <<kind, answer, started, redis, shaKnown, cached, errors, charges,
                     losses, flushes, timeouts>>
  BY DEF Drop, IInv, TypeOK
<1>2. queue \in Seq(Commands) /\ Distinct(queue)
  BY DEF IInv, TypeOK, QueueOK
<1>3. /\ queue' \in Seq(Commands) /\ Distinct(queue')
      /\ Range(queue') = {[c EXCEPT !.reply = "none"] : c \in Range(queue)}
  BY <1>1, <1>2, DroppedQueue
<1>4. ASSUME NEW e \in Range(queue')
      PROVE  \E c \in Range(queue) : /\ c \in Commands /\ CommandOK(c)
                                     /\ e = [c EXCEPT !.reply = "none"]
                                     /\ e.req = c.req /\ e.cmd = c.cmd /\ e.live = c.live
                                     /\ e.reply = "none"
  <2>1. PICK c \in Range(queue) : e = [c EXCEPT !.reply = "none"]
    BY <1>3
  <2>2. c \in Commands /\ CommandOK(c)
    BY <1>2, CommandsInQueue DEF IInv, QueueOK
  <2> QED BY <2>1, <2>2 DEF Commands
<1>5. TypeOK'
  <2>1. drops' \in Nat
    BY <1>1
  <2> QED BY <1>1, <1>3, <2>1 DEF IInv, TypeOK
<1>6. FaultsOK'
  BY <1>1 DEF IInv, FaultsOK
<1>7. QueueOK'
  <2>1. ASSUME NEW e \in Range(queue') PROVE CommandOK(e)'
    <3>1. PICK c \in Commands : /\ CommandOK(c)
                               /\ e.req = c.req /\ e.cmd = c.cmd /\ e.live = c.live
                               /\ e.reply = "none"
      BY <1>4
    <3>2. Heard(e)'
      BY <1>1, <3>1 DEF CommandOK, Heard
    <3>3. Deserved(e)'
      BY <1>1, <3>1 DEF CommandOK, Deserved, ReplySet
    <3>4. c.req \in Reqs /\ charges[c.req] \in Nat /\ charges[c.req] <= drops + 1
      BY <1>1, <3>1 DEF CommandOK, Charged, Commands, IInv, TypeOK
    <3>5. Charged(e)'
      BY <1>1, <3>1, <3>4 DEF Charged
    <3>6. Scripted(e)'
      BY <1>1, <3>1 DEF CommandOK, Scripted
    <3> QED BY <3>2, <3>3, <3>5, <3>6 DEF CommandOK
  <2> QED BY <1>3, <2>1 DEF QueueOK
<1>8. ASSUME NEW p \in Reqs PROVE CheckOK(p)'
  <2>1. CheckOK(p) /\ charges[p] \in Nat
    BY DEF IInv, TypeOK
  <2>2. HasCommand(p) => HasCommand(p)'
    <3> SUFFICES ASSUME NEW c \in Range(queue), c.req = p
                 PROVE  \E e \in Range(queue') : e.req = p
      BY DEF HasCommand
    <3>1. c \in Commands /\ [c EXCEPT !.reply = "none"] \in Range(queue')
      BY <1>2, <1>3, CommandsInQueue
    <3>2. [c EXCEPT !.reply = "none"].req = p
      BY <3>1 DEF Commands
    <3> QED BY <3>1, <3>2
  <2>3. charges'[p] <= drops' + (IF answer'[p] = "denied" THEN 0 ELSE 1)
    BY <1>1, <2>1 DEF CheckOK
  <2>4. drops' > 0
    BY <1>1
  <2> QED BY <1>1, <2>1, <2>2, <2>3, <2>4 DEF CheckOK
<1>9. Covered'
  <2>1. Granted' \subseteq Granted /\ Granted \subseteq Reqs
    BY <1>1, <1>4 DEF Granted
  <2>2. /\ Cardinality(Granted) \in Nat /\ Cardinality(Granted') \in Nat
        /\ Cardinality(Granted') <= Cardinality(Granted)
    BY <2>1, SetShrinks
  <2>3. redis.spent \in Int /\ losses - flushes \in Int
    BY DEF IInv, TypeOK
  <2>4. Limit * (losses - flushes) + redis.spent \in Int
    BY <2>3
  <2> QED BY <1>1, <2>2, <2>4 DEF Covered, IInv
<1>10. ErrorsCounted'
  BY <1>1 DEF IInv, ErrorsCounted
<1> QED BY <1>5, <1>6, <1>7, <1>8, <1>9, <1>10 DEF IInv

\* A reconnect fails: every check that waits is answered, and counted.
LEMMA ReconnectFailsStep ==
  ASSUME IInv, ReconnectFails
  PROVE  IInv'
<1> DEFINE pending == {r \in Reqs : Waiting(r)}
<1>1. PICK a \in BackendAnswers :
        /\ ~linkUp /\ queue' = <<>>
        /\ answer' = [r \in Reqs |-> IF r \notin pending THEN answer[r] ELSE a]
        /\ errors' = errors + Cardinality(pending)
        /\ UNCHANGED <<kind, started, linkUp, redis, shaKnown, cached, charges,
                       losses, drops, flushes, timeouts>>
  BY DEF ReconnectFails, BackendAnswers, faultVars
<1>2. queue \in Seq(Commands)
  BY DEF IInv, TypeOK
<1>3. ASSUME NEW r \in Reqs
      PROVE  /\ r \in pending => r \in started /\ answer[r] = "none"
             /\ r \in started /\ answer[r] = "none" => r \in pending
  <2>1. ASSUME r \in pending PROVE r \in started /\ answer[r] = "none"
    <3>1. PICK i \in DOMAIN queue : queue[i].req = r /\ queue[i].live
      BY <2>1 DEF Waiting
    <3>2. CommandOK(queue[i])
      BY <1>2, CommandsInQueue DEF IInv, QueueOK
    <3> QED BY <3>1, <3>2 DEF CommandOK, Heard
  <2>2. ASSUME r \in started, answer[r] = "none" PROVE r \in pending
    <3>1. PICK c \in Range(queue) : c.req = r
      BY <2>2 DEF IInv, CheckOK, HasCommand
    <3>2. CommandOK(c)
      BY DEF IInv, QueueOK
    <3>3. c.live
      BY <2>2, <3>1, <3>2 DEF CommandOK, Heard, BackendAnswers
    <3>4. PICK i \in DOMAIN queue : c = queue[i]
      BY DEF Range
    <3> QED BY <3>1, <3>3, <3>4 DEF Waiting
  <2> QED BY <2>1, <2>2
<1> HIDE DEF pending
<1>4. pending \subseteq Reqs
  BY DEF pending
<1>5. a \in Answers \ {"none"} /\ a \notin {"allowed", "denied"} /\ a \notin ClientErrors
  BY DEF Answers, BackendAnswers, ClientErrors
<1>6. Cardinality(pending) \in Nat
  BY <1>4, SetShrinks
<1>7. TypeOK'
  <2>1. errors' \in Nat
    BY <1>1, <1>6 DEF IInv, TypeOK
  <2>2. answer' \in [Reqs -> Answers]
    BY <1>1, <1>5 DEF IInv, TypeOK
  <2>3. queue' \in Seq(Commands)
    BY <1>1, EmptySeq
  <2> QED BY <1>1, <2>1, <2>2, <2>3 DEF IInv, TypeOK
<1>8. FaultsOK'
  BY <1>1 DEF IInv, FaultsOK
<1>9. Range(queue') = {} /\ Distinct(queue')
  BY <1>1, EmptySeq DEF Range, Distinct
<1>10. QueueOK'
  BY <1>9 DEF QueueOK
<1>11. ASSUME NEW p \in Reqs PROVE CheckOK(p)'
  <2>1. CheckOK(p) /\ answer'[p] = IF p \notin pending THEN answer[p] ELSE a
    BY <1>1 DEF IInv
  <2>2. drops > 0
    BY <1>1 DEF IInv, FaultsOK
  <2>3. CASE p \notin pending
    <3>1. ~(p \in started /\ answer[p] = "none")
      BY <1>3, <2>3
    <3> QED BY <1>1, <2>1, <2>3, <3>1 DEF CheckOK
  <2>4. CASE p \in pending
    <3>1. p \in started /\ answer[p] = "none" /\ answer'[p] = a
      BY <1>3, <2>1, <2>4
    <3> QED BY <1>1, <1>5, <2>1, <2>2, <3>1 DEF CheckOK
  <2> QED BY <2>3, <2>4
<1>12. Covered'
  <2>1. Granted' \subseteq Granted /\ Granted \subseteq Reqs
    BY <1>1, <1>5, <1>9 DEF Granted
  <2>2. /\ Cardinality(Granted) \in Nat /\ Cardinality(Granted') \in Nat
        /\ Cardinality(Granted') <= Cardinality(Granted)
    BY <2>1, SetShrinks
  <2>3. redis.spent \in Int /\ losses - flushes \in Int
    BY DEF IInv, TypeOK
  <2>4. Limit * (losses - flushes) + redis.spent \in Int
    BY <2>3
  <2> QED BY <1>1, <2>2, <2>4 DEF Covered, IInv
<1>13. ErrorsCounted'
  <2>1. Failed' = Failed \cup pending
    BY <1>1, <1>4 DEF Failed
  <2>2. Failed \cap pending = {}
    BY <1>3, <1>4 DEF Failed, BackendAnswers
  <2>3. IsFiniteSet(Failed) /\ IsFiniteSet(pending) /\ Cardinality(Failed \cap pending) = 0
    BY <1>4, <2>2, FS_Subset, FS_EmptySet DEF Failed
  <2>4. Cardinality(Failed') = Cardinality(Failed) + Cardinality(pending)
    <3>1. Cardinality(Failed) \in Nat
      BY <2>3, FS_CardinalityType
    <3>2. Cardinality(Failed \cup pending)
            = Cardinality(Failed) + Cardinality(pending) - Cardinality(Failed \cap pending)
      BY <2>3, FS_Union
    <3> QED BY <1>6, <2>1, <2>3, <3>1, <3>2
  <2> QED BY <1>1, <2>4 DEF IInv, ErrorsCounted, Failed
<1> QED BY <1>7, <1>8, <1>10, <1>11, <1>12, <1>13 DEF IInv

\* Redis loses its scripts or everything: each loss of the data is worth Limit
\* more grants, and the script flushed out of it none.
LEMMA LossStep ==
  ASSUME IInv, FlushScripts \/ Restart
  PROVE  IInv'
<1>1. /\ losses' = losses + 1
      /\ losses \in Nat /\ flushes \in Nat /\ flushes <= losses /\ redis.spent \in 0..Limit
      /\ UNCHANGED <<kind, answer, started, queue, linkUp, shaKnown, cached, errors,
                     charges, drops, timeouts>>
  BY DEF FlushScripts, Restart, IInv, TypeOK, FaultsOK
<1>2. \/ flushes' = flushes + 1 /\ redis' = [redis EXCEPT !.scripts = FALSE]
      \/ flushes' = flushes /\ redis' = [data |-> FALSE, scripts |-> FALSE, spent |-> 0]
  BY DEF FlushScripts, Restart
<1>3. TypeOK'
  <2>1. losses' \in Nat /\ flushes' \in Nat
    BY <1>1, <1>2
  <2>2. redis' \in [data: BOOLEAN, scripts: BOOLEAN, spent: 0..Limit]
    <3>1. 0 \in 0..Limit /\ redis \in [data: BOOLEAN, scripts: BOOLEAN, spent: 0..Limit]
      BY DEF IInv, TypeOK
    <3>2. CASE redis' = [redis EXCEPT !.scripts = FALSE]
      BY <3>1, <3>2
    <3>3. CASE redis' = [data |-> FALSE, scripts |-> FALSE, spent |-> 0]
      BY <3>1, <3>3
    <3> QED BY <1>2, <3>2, <3>3
  <2> QED BY <1>1, <2>1, <2>2 DEF IInv, TypeOK
<1>4. FaultsOK'
  <2>1. flushes' <= losses' /\ losses' # 0
    BY <1>1, <1>2
  <2>2. losses' = flushes' => redis'.data
    <3>1. CASE flushes' = flushes
      BY <1>1, <3>1
    <3>2. CASE flushes' = flushes + 1 /\ redis' = [redis EXCEPT !.scripts = FALSE]
      BY <1>1, <3>2 DEF IInv, FaultsOK, TypeOK
    <3> QED BY <1>2, <3>1, <3>2
  <2> QED BY <1>1, <2>1, <2>2 DEF IInv, FaultsOK
<1>5. QueueOK'
  <2>1. ASSUME NEW c \in Range(queue) PROVE CommandOK(c)'
    <3>1. CommandOK(c)
      BY DEF IInv, QueueOK
    <3>2. Heard(c)' /\ Charged(c)'
      BY <1>1, <3>1 DEF CommandOK, Heard, Charged
    <3>3. losses > flushes => losses' > flushes'
      BY <1>1, <1>2
    <3>4. Deserved(c)'
      BY <1>1, <3>1, <3>3 DEF CommandOK, Deserved
    <3>5. losses' > 0 /\ losses' # 0 /\ (losses > 0 => ~(losses' < 2))
      BY <1>1
    <3>6. Scripted(c)'
      BY <1>1, <3>1, <3>5 DEF CommandOK, Scripted
    <3> QED BY <3>2, <3>4, <3>6 DEF CommandOK
  <2> QED BY <1>1, <2>1 DEF QueueOK, IInv
<1>6. ASSUME NEW p \in Reqs PROVE CheckOK(p)'
  <2>1. CheckOK(p) /\ (HasCommand(p) => HasCommand(p)')
    BY <1>1 DEF IInv, HasCommand
  <2>2. (losses' = flushes' => losses = flushes) /\ (losses > 1 => losses' > 1)
    BY <1>1, <1>2
  <2> QED BY <1>1, <2>1, <2>2 DEF CheckOK
<1>7. Covered'
  <2>1. Granted' = Granted
    BY <1>1 DEF Granted
  <2>2. Cardinality(Granted) \in Nat
    BY SetShrinks DEF Granted
  <2>3. Cardinality(Granted) <= Limit * (losses - flushes) + redis.spent
    BY DEF IInv, Covered
  <2>4. CASE flushes' = flushes + 1 /\ redis' = [redis EXCEPT !.scripts = FALSE]
    <3>1. losses' - flushes' = losses - flushes /\ redis'.spent = redis.spent
      BY <1>1, <2>4 DEF IInv, TypeOK
    <3> QED BY <2>1, <2>3, <3>1 DEF Covered
  <2>5. CASE flushes' = flushes /\ redis'.spent = 0
    <3>1. PICK k \in Nat : k = losses - flushes
      BY <1>1
    <3>2. losses' - flushes' = k + 1
      BY <1>1, <2>5, <3>1
    <3>3. Limit * k \in Int /\ Limit * (k + 1) = Limit * k + Limit
      OBVIOUS
    <3>4. Cardinality(Granted) <= Limit * (k + 1) + 0
      BY <1>1, <2>2, <2>3, <3>1, <3>3
    <3> QED BY <2>1, <2>5, <3>2, <3>4 DEF Covered
  <2> QED BY <1>2, <2>4, <2>5
<1>8. ErrorsCounted'
  BY <1>1 DEF IInv, ErrorsCounted
<1> QED BY <1>3, <1>4, <1>5, <1>6, <1>7, <1>8 DEF IInv

-----------------------------------------------------------------------------
LEMMA InitOK == Init => IInv
<1> SUFFICES ASSUME Init PROVE IInv
  OBVIOUS
<1>1. /\ queue \in Seq(Commands) /\ DOMAIN queue = {} /\ Range(queue) = {}
  BY EmptySeq DEF Init, Range
<1>2. PICK b \in BOOLEAN : redis = [data |-> TRUE, scripts |-> b, spent |-> 0]
  BY DEF Init
<1>3. TypeOK
  <2>1. answer \in [Reqs -> Answers] /\ charges \in [Reqs -> Nat]
    BY DEF Init, Answers
  <2>2. redis \in [data: BOOLEAN, scripts: BOOLEAN, spent: 0..Limit]
    <3>1. 0 \in 0..Limit
      OBVIOUS
    <3> QED BY <1>2, <3>1
  <2> QED BY <1>1, <2>1, <2>2 DEF Init, TypeOK
<1>4. QueueOK
  BY <1>1 DEF QueueOK, Distinct
<1>5. FaultsOK
  BY <1>2 DEF Init, FaultsOK
<1>6. ASSUME NEW r \in Reqs PROVE CheckOK(r)
  BY DEF Init, CheckOK, BackendAnswers, ClientErrors
<1>7. Granted = {} /\ Failed = {}
  BY <1>1 DEF Init, Granted, Failed, BackendAnswers
<1>8. Covered
  BY <1>7, FS_EmptySet DEF Init, Covered
<1>9. ErrorsCounted
  BY <1>7, FS_EmptySet DEF Init, ErrorsCounted, Failed
<1> QED BY <1>3, <1>4, <1>5, <1>6, <1>8, <1>9 DEF IInv

LEMMA NextOK == IInv /\ [Next]_vars => IInv'
<1> SUFFICES ASSUME IInv, [Next]_vars PROVE IInv'
  OBVIOUS
<1>1. ASSUME NEW r \in Reqs, Start(r) PROVE IInv'
  BY <1>1, StartStep
<1>2. ASSUME NEW r \in Reqs, Timeout(r) PROVE IInv'
  BY <1>2, TimeoutStep
<1>3. CASE Execute
  BY <1>3, ExecuteStep
<1>4. CASE Deliver
  BY <1>4, DeliverStep
<1>5. CASE Drop
  BY <1>5, DropStep
<1>6. CASE ReconnectFails
  BY <1>6, ReconnectFailsStep
<1>7. CASE FlushScripts \/ Restart
  BY <1>7, LossStep
<1>8. CASE Reconnect \/ Provision \/ CacheExpires \/ UNCHANGED vars
  BY <1>8, ReconnectProvisionExpireStep
<1> QED BY <1>1, <1>2, <1>3, <1>4, <1>5, <1>6, <1>7, <1>8 DEF Next

\* The inductive invariant holds throughout, whatever the link and Redis do.
THEOREM Invariance == Spec => []IInv
BY InitOK, NextOK, PTL DEF Spec

\* Every variable of the check path keeps its type: in particular no more than Limit
\* tokens are ever spent between two losses of the data.
THEOREM TypeCorrect == Spec => []TypeOK
<1>1. IInv => TypeOK
  BY DEF IInv
<1> QED BY <1>1, Invariance, PTL

\* Between its arrival and its answer a check has exactly one command it waits for,
\* and none before or after.
THEOREM WaitsForOne == Spec => []OneAwait
<1>1. ASSUME IInv PROVE OneAwait
  <2> SUFFICES ASSUME NEW r \in Reqs
               PROVE  Cardinality({i \in DOMAIN queue : queue[i].req = r /\ queue[i].live})
                        = IF r \in started /\ answer[r] = "none" THEN 1 ELSE 0
    BY DEF OneAwait
  <2> DEFINE awaited == {i \in DOMAIN queue : queue[i].req = r /\ queue[i].live}
  <2>1. queue \in Seq(Commands) /\ Distinct(queue)
    BY <1>1 DEF IInv, TypeOK, QueueOK
  <2>2. \A i \in DOMAIN queue : CommandOK(queue[i])
    BY <1>1, <2>1, CommandsInQueue DEF IInv, QueueOK
  <2>3. CASE r \in started /\ answer[r] = "none"
    <3>1. PICK c \in Range(queue) : c.req = r
      BY <1>1, <2>3 DEF IInv, CheckOK, HasCommand
    <3>2. PICK i \in DOMAIN queue : queue[i] = c
      BY DEF Range
    <3>3. queue[i].live
      BY <2>2, <2>3, <3>1, <3>2 DEF CommandOK, Heard, BackendAnswers
    <3>4. awaited = {i}
      BY <2>1, <3>1, <3>2, <3>3 DEF Distinct
    <3> QED BY <2>3, <3>4, FS_Singleton
  <2>4. CASE ~(r \in started /\ answer[r] = "none")
    <3>1. awaited = {}
      BY <2>2, <2>4 DEF CommandOK, Heard
    <3> QED BY <2>4, <3>1, FS_EmptySet
  <2> QED BY <2>3, <2>4
<1> QED BY <1>1, Invariance, PTL

\* Every allow that is not degraded was paid for in Redis, so that concurrent checks
\* are allowed no more than Limit times between two losses of its data.
THEOREM AllowsCharged == Spec => []AllowsAreCharged
<1>1. ASSUME IInv PROVE AllowsAreCharged
  <2> DEFINE allowed == {r \in Reqs : answer[r] = "allowed"}
  <2>1. \A r \in Reqs : answer[r] = "allowed" => charges[r] >= 1
    BY <1>1 DEF IInv, CheckOK
  <2>2. allowed \subseteq Granted /\ Granted \subseteq Reqs
    BY DEF Granted
  <2>3. /\ Cardinality(Granted) \in Nat /\ Cardinality(allowed) \in Nat
        /\ Cardinality(allowed) <= Cardinality(Granted)
    BY <2>2, SetShrinks
  <2>4. losses \in Nat /\ flushes \in Nat /\ flushes <= losses /\ redis.spent \in 0..Limit
    BY <1>1 DEF IInv, TypeOK, FaultsOK
  <2>5. PICK k \in Nat : k = losses - flushes
    BY <2>4
  <2>6. 1 + losses - flushes = k + 1
    BY <2>4, <2>5
  <2>7. Limit * k \in Int /\ Limit * (k + 1) = Limit * k + Limit
    OBVIOUS
  <2>8. Cardinality(Granted) <= Limit * k + redis.spent
    BY <1>1, <2>5 DEF IInv, Covered
  <2> HIDE DEF allowed
  <2>9. Cardinality(allowed) <= Limit * (k + 1)
    BY <2>3, <2>4, <2>7, <2>8
  <2>10. Cardinality(allowed) <= Limit * (1 + losses - flushes)
    BY <2>6, <2>9
  <2> QED BY <2>1, <2>10 DEF AllowsAreCharged, allowed
<1> QED BY <1>1, Invariance, PTL

\* A check spends one token and a denied one none; only a connection that drops, whose
\* commands are sent again, can charge it once more.
THEOREM ChargesBounded == Spec => []ChargedOnce
<1>1. IInv => ChargedOnce
  BY DEF IInv, CheckOK, ChargedOnce
<1> QED BY <1>1, Invariance, PTL

\* The reload after NOSCRIPT hides one loss of the scripts from every caller, however
\* many checks find out at the same time.
THEOREM ReloadHidesLoss == Spec => []ScriptLossHidden
<1>1. ASSUME IInv PROVE ScriptLossHidden
  <2> SUFFICES ASSUME drops = 0, timeouts = 0, losses <= 1, NEW r \in Reqs,
                      answer[r] \in BackendAnswers
               PROVE  FALSE
    BY DEF ScriptLossHidden
  <2>1. drops > 0 \/ timeouts > 0 \/ losses > 1
    BY <1>1 DEF IInv, CheckOK
  <2>2. drops \in Nat /\ timeouts \in Nat /\ losses \in Nat
    BY <1>1 DEF IInv, TypeOK
  <2> QED BY <2>1, <2>2
<1> QED BY <1>1, Invariance, PTL

\* A sound check gets no client error from a Redis that kept its data, and a check that
\* is not sound is neither decided nor charged.
THEOREM ClientErrorsDeserved == Spec => []ClientErrorsTrue
<1>1. IInv => ClientErrorsTrue
  BY DEF IInv, CheckOK, ClientErrorsTrue
<1> QED BY <1>1, Invariance, PTL

\* throttle_redis_errors_total is the number of checks a backend error ended.
THEOREM ErrorsAreCounted == Spec => []ErrorsCounted
<1>1. IInv => ErrorsCounted
  BY DEF IInv
<1> QED BY <1>1, Invariance, PTL

-----------------------------------------------------------------------------
\* A continuation of check r answers no other check.
LEMMA OwnAnswer ==
  ASSUME TypeOK, NEW r \in Reqs, NEW q, NEW cmd, NEW reply,
         \/ BackendError(r, q) \/ Send(r, cmd, q) \/ Finish(r, reply, q)
         \/ Resolve(r, q) \/ Resume(r, cmd, reply, q)
  PROVE  \A p \in Reqs \ {r} : answer'[p] = answer[p]
BY DEF TypeOK, Resume, Resolve, WithRule, RunScript, OnNoScript, Send, BackendError, Finish

\* A call is answered once: a late reply, a timeout after the answer or a reconnect
\* never changes what the caller was told.
THEOREM AnsweredOnce == Spec => AnswerStands
<1>1. ASSUME IInv, [Next]_vars, NEW r \in Reqs, answer[r] # "none"
      PROVE  answer'[r] = answer[r]
  <2>1. queue \in Seq(Commands) /\ TypeOK
    BY <1>1 DEF IInv, TypeOK
  <2>2. \A i \in DOMAIN queue : queue[i].req \in Reqs /\ CommandOK(queue[i])
    BY <1>1, <2>1, CommandsInQueue DEF IInv, QueueOK, Commands
  <2>3. \A i \in DOMAIN queue : queue[i].live => queue[i].req # r
    BY <1>1, <2>2 DEF CommandOK, Heard
  <2>4. ASSUME NEW p \in Reqs, Start(p) PROVE answer'[r] = answer[r]
    <3>1. p # r
      BY <1>1, <2>4 DEF Start, IInv, CheckOK
    <3>2. Finish(p, "unknownKey", queue) \/ Send(p, "get", queue)
      BY <2>4 DEF Start
    <3> QED BY <2>1, <3>1, <3>2, OwnAnswer
  <2>5. ASSUME NEW p \in Reqs, Timeout(p) PROVE answer'[r] = answer[r]
    <3>1. p # r
      BY <2>3, <2>5 DEF Timeout, Waiting
    <3>2. BackendError(p, Muted(p))
      BY <2>5 DEF Timeout
    <3> QED BY <2>1, <3>1, <3>2, OwnAnswer
  <2>6. CASE Deliver
    <3>1. queue # <<>> /\ Head(queue) = queue[1] /\ 1 \in DOMAIN queue
      BY <2>1, <2>6, HeadTailProperties, LenProperties, EmptySeq DEF Deliver
    <3>2. PICK c \in Commands : c = Head(queue)
      BY <2>1, <3>1, CommandsInQueue
    <3>3. CASE c.live
      <4>1. Resume(c.req, c.cmd, c.reply, Tail(queue))
        BY <2>6, <3>2, <3>3 DEF Deliver
      <4>2. c.req # r /\ c.req \in Reqs
        BY <2>2, <2>3, <3>1, <3>2, <3>3
      <4> QED BY <2>1, <4>1, <4>2, OwnAnswer
    <3>4. CASE ~c.live
      BY <2>6, <3>2, <3>4 DEF Deliver
    <3> QED BY <3>3, <3>4
  <2>7. CASE ReconnectFails
    <3>1. ~Waiting(r)
      BY <2>3 DEF Waiting
    <3> QED BY <2>7, <3>1 DEF ReconnectFails
  <2>8. CASE \/ Execute \/ Drop \/ Reconnect \/ FlushScripts \/ Restart
             \/ Provision \/ CacheExpires \/ UNCHANGED vars
    BY <2>8 DEF Execute, Drop, Reconnect, FlushScripts, Restart, Provision, CacheExpires, vars
  <2> QED BY <1>1, <2>4, <2>5, <2>6, <2>7, <2>8 DEF Next
<1>2. IInv /\ [Next]_vars => [\A r \in Reqs : answer[r] # "none" => answer'[r] = answer[r]]_vars
  BY <1>1
<1> QED BY <1>2, Invariance, PTL DEF Spec, AnswerStands
=============================================================================
