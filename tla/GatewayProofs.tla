---------------------------- MODULE GatewayProofs ----------------------------
(***************************************************************************)
(* For any number of clients, tenants and streams: both transports say the *)
(* same of every outcome, a key that was handed out works, a stream misses *)
(* nothing, and the counters and events add up to what clients were told.  *)
(***************************************************************************)
EXTENDS Gateway, FiniteSetTheorems, TLAPS

USE GatewayAssumption, DecisionsAssumption

-----------------------------------------------------------------------------
(***************************************************************************)
(* The transports: what the service makes of a request, and how both tell  *)
(* it.                                                                     *)
(***************************************************************************)
Codes == {"UNKNOWN_API_KEY", "ADMIN_FORBIDDEN", "UNKNOWN_TENANT", "UNKNOWN_RULE",
          "INVALID_REQUEST", "BACKEND_UNAVAILABLE", "INTERNAL"}

Verdicts == Decisions \cup {Degraded}

Entries == {Decided(d) : d \in Verdicts} \cup {Failed(code) : code \in Codes}

\* What the service may make of an operation.
OutcomeOK(op, o) ==
  \/ \E code \in Codes : o = Refusal(code)
  \/ op = "check" /\ \E d \in Verdicts : o = Outcome(<<Decided(d)>>)
  \/ op = "batch" /\ \E es \in Seq(Entries) : Len(es) <= MaxBatch /\ o = Outcome(es)
  \/ IsAdmin(op) /\ o = Outcome(<<>>)

LEMMA DegradedFields ==
  /\ Degraded.allowed = TRUE /\ Degraded.degraded = TRUE
  /\ Degraded.retryAfterMs = 0 /\ Degraded.resetMs = 0
<1>1. NoDecision \in [allowed: BOOLEAN, remaining: Nat, limit: Nat, retryAfterMs: Nat, resetMs: Nat,
                      degraded: BOOLEAN]
  BY DEF NoDecision
<1>2. NoDecision.retryAfterMs = 0 /\ NoDecision.resetMs = 0
  BY DEF NoDecision
<1> QED BY <1>1, <1>2 DEF Degraded

LEMMA VerdictTyped ==
  ASSUME NEW d \in Verdicts
  PROVE  /\ d.allowed \in BOOLEAN /\ d.retryAfterMs \in Nat /\ d.resetMs \in Nat
         /\ d.allowed => d.retryAfterMs = 0
<1>1. d.allowed \in BOOLEAN
  BY DegradedFields, Zenon DEF Verdicts
<1>2. d.retryAfterMs \in Nat /\ d.resetMs \in Nat
  BY DegradedFields DEF Verdicts
<1>3. d.allowed => d.retryAfterMs = 0
  BY DegradedFields DEF Verdicts
<1> QED BY <1>1, <1>2, <1>3

LEMMA SameKind ==
  ASSUME NEW code \in Codes
  PROVE  /\ HttpStatus[code] \notin {200, 429} /\ GrpcCode[code] # "OK"
         /\ KindOf(HttpStatus[code]) = GrpcCode[code]
BY DEF Codes, HttpStatus, GrpcCode, KindOf

LEMMA SameRefusal ==
  ASSUME NEW op, NEW code \in Codes
  PROVE  RestVerdict(op, RestAnswer(op, Refusal(code))) = GrpcVerdict(op, GrpcAnswer(op, Refusal(code)))
<1> DEFINE o == Refusal(code)
<1>1. o.error = code /\ code # "none"
  BY DEF Refusal, Codes
<1> HIDE DEF o
<1>2. RestAnswer(op, o) = [status |-> HttpStatus[code], code |-> code]
  BY <1>1 DEF RestAnswer
<1>3. GrpcAnswer(op, o) = [status |-> GrpcCode[code]]
  BY <1>1 DEF GrpcAnswer
<1>4. RestVerdict(op, RestAnswer(op, o)) = Verdict(GrpcCode[code], <<>>)
  BY <1>2, SameKind DEF RestVerdict
<1>5. GrpcVerdict(op, GrpcAnswer(op, o)) = Verdict(GrpcCode[code], <<>>)
  BY <1>3, SameKind DEF GrpcVerdict
<1> QED BY <1>4, <1>5 DEF o

LEMMA RefusalHeard ==
  ASSUME NEW op, NEW code \in Codes
  PROVE  GrpcVerdict(op, GrpcAnswer(op, Refusal(code))).error # "none"
<1> DEFINE o == Refusal(code)
<1>1. o.error = code /\ code # "none"
  BY DEF Refusal, Codes
<1> HIDE DEF o
<1>2. GrpcAnswer(op, o) = [status |-> GrpcCode[code]]
  BY <1>1 DEF GrpcAnswer
<1>3. GrpcCode[code] # "OK" /\ GrpcCode[code] # "none"
  BY DEF Codes, GrpcCode
<1>4. GrpcVerdict(op, GrpcAnswer(op, o)).error = GrpcCode[code]
  BY <1>2, <1>3 DEF GrpcVerdict, Verdict
<1> QED BY <1>3, <1>4 DEF o

\* What both transports answer to a check that was decided.
LEMMA CheckAnswers ==
  ASSUME NEW d
  PROVE  /\ RestAnswer("check", Outcome(<<Decided(d)>>)) = RestCheck(d)
         /\ GrpcAnswer("check", Outcome(<<Decided(d)>>)) = GrpcCheck(d)
<1> DEFINE o == Outcome(<<Decided(d)>>)
<1>1. o.error = "none" /\ o.entries[1].decision = d
  BY DEF Outcome, Decided
<1> HIDE DEF o
<1>2. RestAnswer("check", o) = RestCheck(d) /\ GrpcAnswer("check", o) = GrpcCheck(d)
  BY <1>1 DEF RestAnswer, GrpcAnswer
<1> QED BY <1>2 DEF o

LEMMA SameCheck ==
  ASSUME NEW d \in Verdicts
  PROVE  RestVerdict("check", RestCheck(d)) = InRestWords("check", GrpcVerdict("check", GrpcCheck(d)))
<1>1. d.allowed \in BOOLEAN
  BY VerdictTyped
<1> DEFINE rest == RestCheck(d)
           grpc == GrpcCheck(d)
<1>2. /\ rest.status = IF d.allowed THEN 200 ELSE 429
      /\ rest.remaining = IF d.allowed THEN d.remaining ELSE 0
      /\ rest.retryAfterMs = IF d.allowed THEN 0 ELSE d.retryAfterMs
  BY DEF RestCheck
<1>3. /\ grpc.status = "OK" /\ grpc.allowed = d.allowed /\ grpc.remaining = d.remaining
      /\ grpc.retry_after_ms = IF d.allowed THEN 0 ELSE d.retryAfterMs
  BY DEF GrpcCheck
<1> HIDE DEF rest, grpc
<1>4. (rest.status = 200) = d.allowed /\ rest.status \in {200, 429}
  BY <1>1, <1>2
<1>5. RestVerdict("check", rest) =
        Verdict("none", <<Item("none", d.allowed, IF d.allowed THEN d.remaining ELSE 0,
                               IF d.allowed THEN 0 ELSE d.retryAfterMs)>>)
  BY <1>2, <1>4 DEF RestVerdict
<1>6. GrpcVerdict("check", grpc) =
        Verdict("none", <<Item("none", d.allowed, d.remaining, IF d.allowed THEN 0 ELSE d.retryAfterMs)>>)
  BY <1>3 DEF GrpcVerdict
<1>7. RestVerdict("check", rest) = InRestWords("check", GrpcVerdict("check", grpc))
  BY <1>1, <1>5, <1>6 DEF InRestWords, Verdict, Item
<1> QED BY <1>7 DEF rest, grpc

\* Nothing but a denied check has words of its own on REST.
LEMMA SameWords ==
  /\ \A v : InRestWords("batch", v) = v
  /\ \A op, v : v.error # "none" => InRestWords(op, v) = v
BY DEF InRestWords

\* What a client makes of one entry of a batch.
RestItem(e) == IF e.error # "none" THEN Item(e.error, FALSE, 0, 0)
               ELSE Item("none", e.allowed, e.remaining, e.retryAfterMs)
GrpcItemHeard(e) == IF e.error # "none" THEN Item(e.error, FALSE, 0, 0)
                    ELSE Item("none", e.decision.allowed, e.decision.remaining, e.decision.retry_after_ms)

LEMMA SameEntry ==
  ASSUME NEW e \in Entries
  PROVE  RestItem(RestEntry(e)) = GrpcItemHeard(GrpcEntry(e))
<1>1. ASSUME NEW d \in Verdicts, e = Decided(d)
      PROVE  RestItem(RestEntry(e)) = GrpcItemHeard(GrpcEntry(e))
  <2>1. d.allowed \in BOOLEAN /\ (d.allowed => d.retryAfterMs = 0)
    BY VerdictTyped
  <2>2. e.error = "none" /\ e.decision = d
    BY <1>1 DEF Decided
  <2>3. RestItem(RestEntry(e)) = Item("none", d.allowed, d.remaining, d.retryAfterMs)
    BY <2>2 DEF RestItem, RestEntry
  <2>4. GrpcItemHeard(GrpcEntry(e)) =
          Item("none", d.allowed, d.remaining, IF d.allowed THEN 0 ELSE d.retryAfterMs)
    BY <2>2 DEF GrpcItemHeard, GrpcEntry, GrpcCheck
  <2>5. (IF d.allowed THEN 0 ELSE d.retryAfterMs) = d.retryAfterMs
    BY <2>1
  <2> QED BY <2>3, <2>4, <2>5
<1>2. ASSUME NEW code \in Codes, e = Failed(code)
      PROVE  RestItem(RestEntry(e)) = GrpcItemHeard(GrpcEntry(e))
  <2>1. e.error = code /\ code # "none"
    BY <1>2 DEF Failed, Codes
  <2> QED BY <2>1 DEF RestItem, RestEntry, GrpcItemHeard, GrpcEntry
<1> QED BY <1>1, <1>2 DEF Entries

LEMMA SameBatch ==
  ASSUME NEW es \in Seq(Entries)
  PROVE  RestVerdict("batch", RestAnswer("batch", Outcome(es)))
           = GrpcVerdict("batch", GrpcAnswer("batch", Outcome(es)))
<1> DEFINE o == Outcome(es)
           rest == RestAnswer("batch", o)
           grpc == GrpcAnswer("batch", o)
<1>1. o.error = "none" /\ o.entries = es
  BY DEF Outcome
<1> HIDE DEF o
<1>2. rest = [status |-> 200, results |-> [i \in DOMAIN es |-> RestEntry(es[i])]]
  BY <1>1 DEF RestAnswer
<1>3. grpc = [status |-> "OK", results |-> [i \in DOMAIN es |-> GrpcEntry(es[i])]]
  BY <1>1 DEF GrpcAnswer
<1> HIDE DEF rest, grpc
<1>4. RestVerdict("batch", rest) = Verdict("none", [i \in DOMAIN rest.results |-> RestItem(rest.results[i])])
  BY <1>2 DEF RestVerdict, RestItem
<1>5. GrpcVerdict("batch", grpc) = Verdict("none", [i \in DOMAIN grpc.results |-> GrpcItemHeard(grpc.results[i])])
  BY <1>3 DEF GrpcVerdict, GrpcItemHeard
<1>6. /\ DOMAIN rest.results = DOMAIN es /\ DOMAIN grpc.results = DOMAIN es
      /\ \A i \in DOMAIN es : rest.results[i] = RestEntry(es[i]) /\ grpc.results[i] = GrpcEntry(es[i])
  BY <1>2, <1>3
<1>7. \A i \in DOMAIN es : RestItem(rest.results[i]) = GrpcItemHeard(grpc.results[i])
  BY <1>6, SameEntry
<1>8. [i \in DOMAIN rest.results |-> RestItem(rest.results[i])]
        = [i \in DOMAIN grpc.results |-> GrpcItemHeard(grpc.results[i])]
  BY <1>6, <1>7
<1> QED BY <1>4, <1>5, <1>8 DEF rest, grpc, o

\* Whole seconds rounded up cover the milliseconds.
LEMMA SecondsCover == ASSUME NEW ms \in Nat PROVE Seconds(ms) * 1000 >= ms
BY DEF Seconds

-----------------------------------------------------------------------------
(***************************************************************************)
(* The clients: what they asked and heard, and the keys they were given.   *)
(***************************************************************************)
Ops == {"check", "batch", "createTenant", "putRule", "deleteRule", "listRules"}

Requests == [via: {"rest", "grpc"}, op: Ops \cup {"none"}, key: Tenants \cup {NoKey, AdminKey},
             items: Seq(Items), tenant: Tenants]

Writes == [set: {"keys", "index", "rules"}, tenant: Tenants, present: BOOLEAN]

DBs == [keys: SUBSET Tenants, index: SUBSET Tenants, rules: SUBSET Tenants, late: SUBSET Writes]

\* A write that may come at any time: only a rule is ever taken out, and a tenant is
\* indexed when its key is there.
WriteOK(w, keys) ==
  /\ w \in Writes
  /\ w.set = "index" => w.tenant \in keys
  /\ w.set # "rules" => w.present

DbOK(d, t) ==
  /\ d \in DBs
  /\ t \subseteq d.index /\ d.index \subseteq d.keys
  /\ \A w \in d.late : WriteOK(w, d.keys)

\* Sendable, when t are the tenants whose key was told.
Sent(r, t) ==
  /\ r.op = "check" => Len(r.items) = 1
  /\ IsAdmin(r.op) => r.via = "rest" /\ r.items = <<>>
  /\ r.via = "grpc" => \A i \in DOMAIN r.items : r.items[i].cost \notin {Absent, Malformed}
  /\ r.key \in Tenants => r.key \in t

\* A client's request, how far it is, and what came of it.
ClientOK(r, st, o, t, keys) ==
  /\ r \in Requests /\ st \in {"idle", "received", "indexing", "answered"}
  /\ st = "idle" \/ (Sent(r, t) /\ r.op \in Ops)
  /\ st = "indexing" => r.op = "createTenant" /\ r.tenant \in keys
  /\ st # "answered" => o = Outcome(<<>>)
  /\ st = "answered" => OutcomeOK(r.op, o)
  /\ (st = "answered" /\ r.op \in {"check", "batch"} /\ r.key \in Tenants) => o.error # "UNKNOWN_API_KEY"

ClientsInv ==
  /\ failOpen \in FailPolicies
  /\ DbOK(db, told)
  /\ DOMAIN req = Callers /\ DOMAIN stage = Callers /\ DOMAIN outcome = Callers
  /\ req = [c \in Callers |-> req[c]] /\ stage = [c \in Callers |-> stage[c]]
  /\ outcome = [c \in Callers |-> outcome[c]]
  /\ \A c \in Callers : ClientOK(req[c], stage[c], outcome[c], told, db.keys)

LEMMA AppliedFields ==
  ASSUME NEW d \in DBs, NEW w \in Writes
  PROVE  LET a == Applied(d, w)
             Put(s) == IF w.present THEN s \cup {w.tenant} ELSE s \ {w.tenant}
         IN /\ a \in DBs /\ a.late = d.late
            /\ a.keys = IF w.set = "keys" THEN Put(d.keys) ELSE d.keys
            /\ a.index = IF w.set = "index" THEN Put(d.index) ELSE d.index
            /\ a.rules = IF w.set = "rules" THEN Put(d.rules) ELSE d.rules
<1>1. w.set \in {"keys", "index", "rules"} /\ w.tenant \in Tenants /\ w.present \in BOOLEAN
  BY DEF Writes
<1>2. CASE w.set = "keys"
  BY <1>1, <1>2 DEF Applied, DBs
<1>3. CASE w.set = "index"
  BY <1>1, <1>3 DEF Applied, DBs
<1>4. CASE w.set = "rules"
  BY <1>1, <1>4 DEF Applied, DBs
<1> QED BY <1>1, <1>2, <1>3, <1>4

\* Applying a write keeps what is told in the index and what is indexed among the keys.
LEMMA AppliedOK ==
  ASSUME NEW d, NEW t, NEW w, DbOK(d, t), WriteOK(w, d.keys)
  PROVE  /\ DbOK(Applied(d, w), t) /\ d.keys \subseteq Applied(d, w).keys
         /\ Applied(d, w).late = d.late
         /\ w.set = "keys" => w.tenant \in Applied(d, w).keys
         /\ w.set = "index" => w.tenant \in Applied(d, w).index
<1> DEFINE a == Applied(d, w)
<1>1. d \in DBs /\ w \in Writes /\ w.present \in BOOLEAN /\ (w.set # "rules" => w.present)
  BY DEF DbOK, WriteOK, Writes
<1>2. /\ a \in DBs /\ a.late = d.late
      /\ a.keys = IF w.set = "keys" THEN d.keys \cup {w.tenant} ELSE d.keys
      /\ a.index = IF w.set = "index" THEN d.index \cup {w.tenant} ELSE d.index
  <2>1. /\ a \in DBs /\ a.late = d.late
        /\ a.keys = IF w.set = "keys" THEN IF w.present THEN d.keys \cup {w.tenant} ELSE d.keys \ {w.tenant}
                    ELSE d.keys
        /\ a.index = IF w.set = "index" THEN IF w.present THEN d.index \cup {w.tenant} ELSE d.index \ {w.tenant}
                     ELSE d.index
    BY <1>1, AppliedFields
  <2> HIDE DEF a
  <2>2. CASE w.set = "keys"
    BY <1>1, <2>1, <2>2
  <2>3. CASE w.set = "index"
    BY <1>1, <2>1, <2>3
  <2>4. CASE w.set = "rules"
    BY <2>1, <2>4
  <2> QED BY <1>1, <2>2, <2>3, <2>4 DEF Writes
<1> HIDE DEF a
<1>3. t \subseteq a.index /\ d.keys \subseteq a.keys
  BY <1>2 DEF DbOK
<1>4. a.index \subseteq a.keys
  BY <1>2 DEF DbOK, WriteOK
<1>5. \A x \in a.late : WriteOK(x, a.keys)
  BY <1>2, <1>3 DEF DbOK, WriteOK
<1>6. DbOK(a, t) /\ d.keys \subseteq a.keys /\ a.late = d.late
      /\ (w.set = "keys" => w.tenant \in a.keys) /\ (w.set = "index" => w.tenant \in a.index)
  BY <1>2, <1>3, <1>4, <1>5 DEF DbOK
<1> QED BY <1>6 DEF a

\* A write given up may come late.
LEMMA LateOK ==
  ASSUME NEW d, NEW t, NEW w, DbOK(d, t), WriteOK(w, d.keys)
  PROVE  DbOK([d EXCEPT !.late = @ \cup {w}], t) /\ [d EXCEPT !.late = @ \cup {w}].keys = d.keys
<1> DEFINE a == [d EXCEPT !.late = @ \cup {w}]
<1>1. d \in DBs /\ w \in Writes
  BY DEF DbOK, WriteOK
<1>2. a \in DBs /\ a.keys = d.keys /\ a.index = d.index /\ a.late = d.late \cup {w}
  BY <1>1 DEF DBs
<1> HIDE DEF a
<1>3. DbOK(a, t)
  BY <1>2 DEF DbOK
<1> QED BY <1>2, <1>3 DEF a

LEMMA LateApplied ==
  ASSUME NEW d, NEW t, NEW w, DbOK(d, t), w \in d.late
  PROVE  LET a == [Applied(d, w) EXCEPT !.late = @ \ {w}] IN
         DbOK(a, t) /\ d.keys \subseteq a.keys
<1> DEFINE b == Applied(d, w)
           a == [b EXCEPT !.late = @ \ {w}]
<1>1. WriteOK(w, d.keys)
  BY DEF DbOK
<1>2. DbOK(b, t) /\ d.keys \subseteq b.keys
  BY <1>1, AppliedOK
<1> HIDE DEF b
<1>3. b \in DBs
  BY <1>2 DEF DbOK
<1>4. a \in DBs /\ a.keys = b.keys /\ a.index = b.index /\ a.late = b.late \ {w}
  BY <1>3 DEF DBs
<1> HIDE DEF a
<1>5. DbOK(a, t) /\ d.keys \subseteq a.keys
  BY <1>2, <1>4 DEF DbOK
<1> QED BY <1>5 DEF a, b

\* What is true of a client stays true as keys are added and told.
LEMMA ClientStays ==
  ASSUME NEW r, NEW st, NEW o, NEW t, NEW keys, ClientOK(r, st, o, t, keys),
         NEW u, NEW more, t \subseteq u, keys \subseteq more
  PROVE  ClientOK(r, st, o, u, more)
<1>1. Sent(r, t) => Sent(r, u)
  BY DEF Sent
<1> QED BY <1>1 DEF ClientOK

\* A step that concerns one client alone.
LEMMA OneClient ==
  ASSUME ClientsInv, NEW c \in Callers, NEW r, NEW st, NEW o,
         DbOK(db', told'), told \subseteq told', db.keys \subseteq db'.keys,
         ClientOK(r, st, o, told', db'.keys),
         req' = [req EXCEPT ![c] = r], stage' = [stage EXCEPT ![c] = st],
         outcome' = [outcome EXCEPT ![c] = o], failOpen' = failOpen
  PROVE  ClientsInv'
<1>1. /\ DOMAIN req' = Callers /\ DOMAIN stage' = Callers /\ DOMAIN outcome' = Callers
      /\ req' = [x \in Callers |-> req'[x]] /\ stage' = [x \in Callers |-> stage'[x]]
      /\ outcome' = [x \in Callers |-> outcome'[x]]
  BY DEF ClientsInv
<1>2. ASSUME NEW x \in Callers PROVE ClientOK(req'[x], stage'[x], outcome'[x], told', db'.keys)
  <2>1. CASE x = c
    BY <2>1 DEF ClientsInv
  <2>2. CASE x # c
    <3>1. req'[x] = req[x] /\ stage'[x] = stage[x] /\ outcome'[x] = outcome[x]
      BY <2>2 DEF ClientsInv
    <3>2. ClientOK(req[x], stage[x], outcome[x], told, db.keys)
      BY DEF ClientsInv
    <3> QED BY <3>1, <3>2, ClientStays
  <2> QED BY <2>1, <2>2
<1>3. failOpen' \in FailPolicies
  BY DEF ClientsInv
<1> QED BY <1>1, <1>2, <1>3 DEF ClientsInv

\* A request that is under way, and what the invariant says of it.
LEMMA OfClient ==
  ASSUME ClientsInv, NEW c \in Callers
  PROVE  /\ ClientOK(req[c], stage[c], outcome[c], told, db.keys) /\ DbOK(db, told)
         /\ req = [req EXCEPT ![c] = req[c]] /\ stage = [stage EXCEPT ![c] = stage[c]]
         /\ outcome = [outcome EXCEPT ![c] = outcome[c]]
         /\ failOpen \in FailPolicies
BY DEF ClientsInv

LEMMA ReceiveKeeps == ASSUME ClientsInv, NEW c \in Callers, Receive(c) PROVE ClientsInv'
<1>1. PICK via \in {"rest", "grpc"}, key \in Tenants \cup {NoKey, AdminKey},
           op \in {"check", "batch", "createTenant", "putRule", "deleteRule", "listRules"},
           items \in UNION {[1..n -> Items] : n \in 0..MaxItems}, t \in Tenants :
        LET r == [via |-> via, op |-> op, key |-> key, items |-> items, tenant |-> t] IN
          /\ Sendable(r)
          /\ op \in {"check", "batch"} => t = Demo
          /\ op = "createTenant" => Unheard(t)
          /\ req' = [req EXCEPT ![c] = r]
          /\ IF RefusedAtOnce(r) = "none"
             THEN /\ stage' = [stage EXCEPT ![c] = "received"]
                  /\ UNCHANGED outcome
             ELSE Answer(c, Refusal(RefusedAtOnce(r)))
  BY Zenon DEF Receive
<1>2. /\ db' = db /\ told' = told /\ failOpen' = failOpen /\ stage[c] = "idle"
      /\ DbOK(db', told') /\ told \subseteq told' /\ db.keys \subseteq db'.keys
  BY OfClient DEF Receive
<1> DEFINE r == [via |-> via, op |-> op, key |-> key, items |-> items, tenant |-> t]
<1>3. r \in Requests /\ r.op = op /\ op \in Ops
  <2>1. items \in Seq(Items)
    OBVIOUS
  <2> QED BY <2>1 DEF Requests, Ops
<1>4. Sent(r, told')
  <2>1. Sendable(r)
    BY <1>1
  <2> HIDE DEF r
  <2> QED BY <1>2, <2>1 DEF Sendable, Sent
<1>5. RefusedAtOnce(r) \in {"none", "ADMIN_FORBIDDEN", "INVALID_REQUEST"}
  <2> HIDE DEF r
  <2> QED BY DEF RefusedAtOnce
<1>6. outcome[c] = Outcome(<<>>)
  BY <1>2, OfClient DEF ClientOK
<1>7. \/ RefusedAtOnce(r) = "none" /\ stage' = [stage EXCEPT ![c] = "received"] /\ outcome' = outcome
      \/ RefusedAtOnce(r) # "none" /\ Answer(c, Refusal(RefusedAtOnce(r)))
  BY <1>1
<1>8. req' = [req EXCEPT ![c] = r]
  BY <1>1
<1> HIDE DEF r
<1>9. CASE RefusedAtOnce(r) = "none"
  <2>1. ClientOK(r, "received", outcome[c], told', db'.keys)
    BY <1>3, <1>4, <1>6 DEF ClientOK
  <2>2. stage' = [stage EXCEPT ![c] = "received"] /\ outcome' = [outcome EXCEPT ![c] = outcome[c]]
    BY <1>7, <1>9, OfClient
  <2> QED BY <1>2, <1>8, <2>1, <2>2, OneClient
<1>10. CASE RefusedAtOnce(r) # "none"
  <2> DEFINE o == Refusal(RefusedAtOnce(r))
  <2>1. OutcomeOK(r.op, o) /\ o.error # "UNKNOWN_API_KEY"
    BY <1>5, <1>10 DEF OutcomeOK, Codes, Refusal
  <2>2. stage' = [stage EXCEPT ![c] = "answered"] /\ outcome' = [outcome EXCEPT ![c] = o]
    BY <1>7, <1>10 DEF Answer
  <2> HIDE DEF o
  <2>3. ClientOK(r, "answered", o, told', db'.keys)
    BY <1>3, <1>4, <2>1 DEF ClientOK
  <2> QED BY <1>2, <1>8, <2>2, <2>3, OneClient
<1> QED BY <1>9, <1>10

\* A request under way is answered.
LEMMA AnswerKeeps ==
  ASSUME ClientsInv, NEW c \in Callers, NEW o, Answer(c, o),
         stage[c] \in {"received", "indexing"}, req' = req, failOpen' = failOpen,
         DbOK(db', told'), told \subseteq told', db.keys \subseteq db'.keys,
         OutcomeOK(req[c].op, o),
         (req[c].op \in {"check", "batch"} /\ req[c].key \in Tenants) => o.error # "UNKNOWN_API_KEY"
  PROVE  ClientsInv'
<1>1. ClientOK(req[c], stage[c], outcome[c], told, db.keys)
  BY OfClient
<1>2. ClientOK(req[c], stage[c], outcome[c], told', db'.keys)
  BY <1>1, ClientStays
<1>3. ClientOK(req[c], "answered", o, told', db'.keys)
  BY <1>2 DEF ClientOK
<1>4. /\ stage' = [stage EXCEPT ![c] = "answered"] /\ outcome' = [outcome EXCEPT ![c] = o]
      /\ req' = [req EXCEPT ![c] = req[c]]
  BY OfClient DEF Answer
<1> QED BY <1>3, <1>4, OneClient


-----------------------------------------------------------------------------
(***************************************************************************)
(* The ways a check or batch can end.                                      *)
(***************************************************************************)
BusStands == UNCHANGED <<published, buffer, streams>>

RefusedCall(c) ==
  /\ \E code \in Codes \ {"BACKEND_UNAVAILABLE"} :
       Answer(c, Refusal(code)) /\ (req[c].key \in Tenants => code # "UNKNOWN_API_KEY")
  /\ UNCHANGED metrics /\ BusStands

DecidedCheck(c) ==
  /\ req[c].op = "check"
  /\ \E d \in Decisions : /\ Answer(c, Outcome(<<Decided(d)>>))
                          /\ metrics' = Timed(Counted(metrics, <<Decided(d)>>))
  /\ Publish

\* No entry of it is degraded.
Made == {Decided(d) : d \in Decisions} \cup {Failed(code) : code \in Codes}

DecidedBatch(c) ==
  /\ req[c].op = "batch"
  /\ \E es \in Seq(Made) : /\ Len(es) <= MaxBatch
                           /\ Answer(c, Outcome(es)) /\ metrics' = Counted(metrics, es)
  /\ BusStands

UnavailableCall(c) ==
  /\ Answer(c, Refusal("BACKEND_UNAVAILABLE"))
  /\ metrics' = IF req[c].op = "check" THEN Timed(ErrorCounted(metrics)) ELSE ErrorCounted(metrics)
  /\ BusStands

DegradedCheck(c) ==
  /\ req[c].op = "check"
  /\ Answer(c, Outcome(<<Decided(Degraded)>>))
  /\ metrics' = Timed(ErrorCounted(metrics))
  /\ Publish

DegradedBatch(c) ==
  /\ req[c].op = "batch"
  /\ \E es \in Seq({Decided(Degraded)}) : Len(es) \in 1..MaxBatch /\ Answer(c, Outcome(es))
  /\ metrics' = ErrorCounted(metrics)
  /\ BusStands

CallEnds(c) ==
  \/ RefusedCall(c) \/ DecidedCheck(c) \/ DecidedBatch(c)
  \/ UnavailableCall(c) \/ DegradedCheck(c) \/ DegradedBatch(c)

LEMMA ParsedKeeps ==
  ASSUME NEW r \in Requests
  PROVE  /\ Parsed(r).op = r.op /\ Parsed(r).key = r.key
         /\ DOMAIN Parsed(r).items = 1..Len(r.items) /\ Len(r.items) \in Nat
         /\ Len(Parsed(r).items) = Len(r.items)
<1>1. r.items \in Seq(Items) /\ Len(r.items) \in Nat /\ DOMAIN r.items = 1..Len(r.items)
  BY DEF Requests
<1>2. CASE r.via = "rest"
  BY <1>1, <1>2 DEF Parsed
<1>3. CASE r.via # "rest"
  <2> DEFINE is == [i \in DOMAIN r.items |-> GrpcItem(r.items[i])]
  <2>1. is = [i \in 1..Len(r.items) |-> GrpcItem(r.items[i])]
    BY <1>1
  <2>2. Len(is) = Len(r.items) /\ DOMAIN is = 1..Len(r.items)
    BY <1>1, <2>1
  <2>3. Parsed(r) = [r EXCEPT !.items = is]
    BY <1>3 DEF Parsed
  <2> HIDE DEF is
  <2>4. Parsed(r).op = r.op /\ Parsed(r).key = r.key /\ Parsed(r).items = is
    BY <2>3 DEF Requests
  <2> QED BY <1>1, <2>2, <2>4
<1> QED BY <1>2, <1>3

LEMMA ServeEnds ==
  ASSUME ClientsInv, NEW c \in Callers, Serve(c)
  PROVE  /\ stage[c] = "received" /\ req[c].op \in {"check", "batch"}
         /\ db' = db /\ told' = told /\ req' = req /\ failOpen' = failOpen
         /\ CallEnds(c)
<1> DEFINE r == Parsed(req[c])
<1>1. /\ stage[c] = "received" /\ db' = db /\ told' = told /\ req' = req /\ failOpen' = failOpen
      /\ \/ r.op = "check" /\ CheckEnds(c, r)
         \/ r.op = "batch" /\ BatchEnds(c, r) /\ BusStands
         \/ ~IsAdmin(r.op) /\ Len(r.items) \in 1..MaxBatch /\ BackendFails(c, r)
  BY DEF Serve, BusStands
<1>2. /\ req[c] \in Requests /\ Sent(req[c], told) /\ req[c].op \in Ops /\ DbOK(db, told)
  BY <1>1, OfClient DEF ClientOK
<1>3. /\ r.op = req[c].op /\ r.key = req[c].key /\ DOMAIN r.items = 1..Len(r.items)
      /\ Len(r.items) = Len(req[c].items) /\ Len(r.items) \in Nat
  BY <1>2, ParsedKeeps
<1> HIDE DEF r
<1>4. req[c].key \in Tenants => Authenticates(r.key)
  BY <1>2, <1>3 DEF Sent, DbOK, Authenticates
<1>5. CASE r.op = "check" /\ CheckEnds(c, r)
  <2> DEFINE e == IF ~Authenticates(r.key) THEN "UNKNOWN_API_KEY" ELSE ItemError(r.key, r.items[1])
  <2>1. /\ e \in {"UNKNOWN_API_KEY", "INVALID_REQUEST", "UNKNOWN_RULE", "none"}
        /\ req[c].key \in Tenants => e # "UNKNOWN_API_KEY"
    BY <1>4 DEF ItemError
  <2>2. \/ e # "none" /\ Answer(c, Refusal(e)) /\ UNCHANGED <<metrics, published, buffer, streams>>
        \/ /\ \E d \in Decisions : /\ Answer(c, Outcome(<<Decided(d)>>))
                                   /\ metrics' = Timed(Counted(metrics, <<Decided(d)>>))
           /\ Publish
    BY <1>5 DEF CheckEnds
  <2> HIDE DEF e
  <2>3. CASE e # "none" /\ Answer(c, Refusal(e)) /\ UNCHANGED <<metrics, published, buffer, streams>>
    <3>1. e \in Codes \ {"BACKEND_UNAVAILABLE"}
      BY <2>1, <2>3 DEF Codes
    <3>2. RefusedCall(c)
      BY <2>1, <2>3, <3>1 DEF RefusedCall, BusStands
    <3> QED BY <1>1, <1>3, <1>5, <3>2 DEF CallEnds
  <2>4. CASE /\ \E d \in Decisions : /\ Answer(c, Outcome(<<Decided(d)>>))
                                     /\ metrics' = Timed(Counted(metrics, <<Decided(d)>>))
             /\ Publish
    <3>1. DecidedCheck(c)
      BY <1>3, <1>5, <2>4 DEF DecidedCheck
    <3> QED BY <1>1, <1>3, <1>5, <3>1 DEF CallEnds
  <2> QED BY <2>2, <2>3, <2>4
<1>6. CASE r.op = "batch" /\ BatchEnds(c, r) /\ BusStands
  <2> DEFINE n == Len(r.items)
             e == IF n \notin 1..MaxBatch THEN "INVALID_REQUEST" ELSE "UNKNOWN_API_KEY"
  <2>1. \/ (n \notin 1..MaxBatch \/ ~Authenticates(r.key)) /\ Answer(c, Refusal(e)) /\ UNCHANGED metrics
        \/ /\ n \in 1..MaxBatch
           /\ \E ds \in [1..n -> Decisions] :
                LET es == [i \in 1..n |-> IF ItemError(r.key, r.items[i]) # "none"
                                          THEN Failed(ItemError(r.key, r.items[i]))
                                          ELSE Decided(ds[i])]
                IN Answer(c, Outcome(es)) /\ metrics' = Counted(metrics, es)
    BY <1>6 DEF BatchEnds
  <2>2. CASE (n \notin 1..MaxBatch \/ ~Authenticates(r.key)) /\ Answer(c, Refusal(e)) /\ UNCHANGED metrics
    <3>1. e \in Codes \ {"BACKEND_UNAVAILABLE"} /\ (req[c].key \in Tenants => e # "UNKNOWN_API_KEY")
      BY <1>4, <2>2 DEF Codes
    <3> HIDE DEF e
    <3>2. RefusedCall(c)
      BY <1>6, <2>2, <3>1 DEF RefusedCall
    <3> QED BY <1>1, <1>3, <1>6, <3>2 DEF CallEnds
  <2>3. CASE /\ n \in 1..MaxBatch
             /\ \E ds \in [1..n -> Decisions] :
                  LET es == [i \in 1..n |-> IF ItemError(r.key, r.items[i]) # "none"
                                            THEN Failed(ItemError(r.key, r.items[i]))
                                            ELSE Decided(ds[i])]
                  IN Answer(c, Outcome(es)) /\ metrics' = Counted(metrics, es)
    <3>1. PICK ds \in [1..n -> Decisions] :
            LET es == [i \in 1..n |-> IF ItemError(r.key, r.items[i]) # "none"
                                      THEN Failed(ItemError(r.key, r.items[i]))
                                      ELSE Decided(ds[i])]
            IN Answer(c, Outcome(es)) /\ metrics' = Counted(metrics, es)
      BY <2>3
    <3> DEFINE es == [i \in 1..n |-> IF ItemError(r.key, r.items[i]) # "none"
                                     THEN Failed(ItemError(r.key, r.items[i]))
                                     ELSE Decided(ds[i])]
    <3>2. es \in Seq(Made) /\ Len(es) = n
      <4>1. \A i \in 1..n : ItemError(r.key, r.items[i]) \in Codes \cup {"none"}
        BY DEF ItemError, Codes
      <4>2. \A i \in 1..n : es[i] \in Made
        BY <3>1, <4>1 DEF Made
      <4>3. es \in [1..n -> Made]
        BY <4>2
      <4> HIDE DEF es
      <4> QED BY <1>3, <4>3
    <3>3. Answer(c, Outcome(es)) /\ metrics' = Counted(metrics, es)
      BY <3>1
    <3> HIDE DEF es
    <3>4. Len(es) <= MaxBatch
      BY <1>3, <2>3, <3>2
    <3>5. DecidedBatch(c)
      BY <1>3, <1>6, <3>2, <3>3, <3>4 DEF DecidedBatch
    <3> QED BY <1>1, <1>3, <1>6, <3>5 DEF CallEnds
  <2> QED BY <2>1, <2>2, <2>3
<1>7. CASE ~IsAdmin(r.op) /\ Len(r.items) \in 1..MaxBatch /\ BackendFails(c, r)
  <2>1. req[c].op \in {"check", "batch"}
    BY <1>2, <1>3, <1>7 DEF Ops, IsAdmin
  <2>2. CASE ~failOpen
    <3>1. UnavailableCall(c)
      BY <1>3, <1>7, <2>2 DEF BackendFails, UnavailableCall, BusStands
    <3> QED BY <1>1, <2>1, <3>1 DEF CallEnds
  <2>3. CASE failOpen /\ req[c].op = "check"
    <3>1. Len(r.items) = 1
      BY <1>2, <1>3, <2>3 DEF Sent
    <3>2. [i \in DOMAIN r.items |-> Decided(Degraded)] = <<Decided(Degraded)>>
      BY <1>3, <3>1
    <3>3. DegradedCheck(c)
      BY <1>3, <1>7, <2>3, <3>2 DEF BackendFails, DegradedCheck
    <3> QED BY <1>1, <2>1, <3>3 DEF CallEnds
  <2>4. CASE failOpen /\ req[c].op = "batch"
    <3> DEFINE es == [i \in DOMAIN r.items |-> Decided(Degraded)]
    <3>1. es \in [1..Len(r.items) -> {Decided(Degraded)}]
      BY <1>3
    <3>2. Answer(c, Outcome(es)) /\ metrics' = ErrorCounted(metrics) /\ BusStands
      BY <1>3, <1>7, <2>4 DEF BackendFails, BusStands
    <3> HIDE DEF es
    <3>3. es \in Seq({Decided(Degraded)}) /\ Len(es) = Len(r.items)
      BY <1>3, <3>1
    <3>4. DegradedBatch(c)
      BY <1>7, <2>4, <3>2, <3>3 DEF DegradedBatch
    <3> QED BY <1>1, <2>1, <3>4 DEF CallEnds
  <2> QED BY <2>1, <2>2, <2>3, <2>4
<1> QED BY <1>1, <1>5, <1>6, <1>7

LEMMA ServeKeeps == ASSUME ClientsInv, NEW c \in Callers, Serve(c) PROVE ClientsInv'
<1>1. /\ stage[c] = "received" /\ req[c].op \in {"check", "batch"}
      /\ db' = db /\ told' = told /\ req' = req /\ failOpen' = failOpen /\ CallEnds(c)
  BY ServeEnds
<1>2. DbOK(db', told') /\ told \subseteq told' /\ db.keys \subseteq db'.keys
  BY <1>1, OfClient
<1>3. ASSUME NEW o, Answer(c, o), OutcomeOK(req[c].op, o),
             req[c].key \in Tenants => o.error # "UNKNOWN_API_KEY"
      PROVE  ClientsInv'
  BY <1>1, <1>2, <1>3, AnswerKeeps
<1>4. CASE RefusedCall(c)
  <2>1. PICK code \in Codes \ {"BACKEND_UNAVAILABLE"} :
          Answer(c, Refusal(code)) /\ (req[c].key \in Tenants => code # "UNKNOWN_API_KEY")
    BY <1>4 DEF RefusedCall
  <2>2. OutcomeOK(req[c].op, Refusal(code)) /\ Refusal(code).error = code
    BY DEF OutcomeOK, Refusal
  <2> QED BY <1>3, <2>1, <2>2
<1>5. CASE UnavailableCall(c)
  <2>1. Answer(c, Refusal("BACKEND_UNAVAILABLE"))
    BY <1>5 DEF UnavailableCall
  <2>2. OutcomeOK(req[c].op, Refusal("BACKEND_UNAVAILABLE")) /\ Refusal("BACKEND_UNAVAILABLE").error = "BACKEND_UNAVAILABLE"
    BY DEF OutcomeOK, Refusal, Codes
  <2> QED BY <1>3, <2>1, <2>2
<1>6. CASE DecidedCheck(c) \/ DegradedCheck(c)
  <2>1. PICK d \in Verdicts : Answer(c, Outcome(<<Decided(d)>>))
    BY <1>6 DEF DecidedCheck, DegradedCheck, Verdicts
  <2>2. req[c].op = "check"
    BY <1>6 DEF DecidedCheck, DegradedCheck
  <2>3. OutcomeOK(req[c].op, Outcome(<<Decided(d)>>)) /\ Outcome(<<Decided(d)>>).error = "none"
    BY <2>2 DEF OutcomeOK, Outcome
  <2> QED BY <1>3, <2>1, <2>3
<1>7. CASE DecidedBatch(c) \/ DegradedBatch(c)
  <2>1. PICK es \in Seq(Entries) : Len(es) <= MaxBatch /\ Answer(c, Outcome(es))
    <3>1. Made \subseteq Entries /\ {Decided(Degraded)} \subseteq Entries
      BY DEF Made, Entries, Verdicts
    <3>2. CASE DecidedBatch(c)
      <4>1. PICK es \in Seq(Made) : Len(es) <= MaxBatch /\ Answer(c, Outcome(es))
        BY <3>2 DEF DecidedBatch
      <4>2. es \in Seq(Entries)
        BY <3>1
      <4> QED BY <4>1, <4>2
    <3>3. CASE DegradedBatch(c)
      <4>1. PICK es \in Seq({Decided(Degraded)}) : Len(es) \in 1..MaxBatch /\ Answer(c, Outcome(es))
        BY <3>3 DEF DegradedBatch
      <4>2. es \in Seq(Entries) /\ Len(es) <= MaxBatch
        BY <3>1, <4>1
      <4> QED BY <4>1, <4>2
    <3> QED BY <1>7, <3>2, <3>3
  <2>2. req[c].op = "batch"
    BY <1>7 DEF DecidedBatch, DegradedBatch
  <2>3. OutcomeOK(req[c].op, Outcome(es)) /\ Outcome(es).error = "none"
    BY <2>1, <2>2 DEF OutcomeOK, Outcome
  <2> QED BY <1>3, <2>1, <2>3
<1> QED BY <1>1, <1>4, <1>5, <1>6, <1>7 DEF CallEnds

\* A write that was given up, of a request of the administration.
LEMMA GivenUpKeeps ==
  ASSUME ClientsInv, NEW c \in Callers, NEW w, WriteOK(w, db.keys), GivenUp(c, w),
         stage[c] \in {"received", "indexing"}, IsAdmin(req[c].op),
         req' = req, failOpen' = failOpen, told' = told
  PROVE  ClientsInv'
<1>1. Answer(c, Refusal("INTERNAL")) /\ (db' = db \/ db' = [db EXCEPT !.late = @ \cup {w}])
  BY DEF GivenUp
<1>2. DbOK(db', told') /\ db'.keys = db.keys /\ told \subseteq told'
  <2>1. DbOK(db, told)
    BY OfClient
  <2>2. CASE db' = db
    BY <2>1, <2>2
  <2>3. CASE db' = [db EXCEPT !.late = @ \cup {w}]
    <3> DEFINE d == [db EXCEPT !.late = @ \cup {w}]
    <3>1. DbOK(d, told) /\ d.keys = db.keys
      BY <2>1, LateOK
    <3> HIDE DEF d
    <3>2. db' = d
      BY <2>3 DEF d
    <3> QED BY <3>1, <3>2
  <2> QED BY <1>1, <2>2, <2>3
<1>3. OutcomeOK(req[c].op, Refusal("INTERNAL")) /\ Refusal("INTERNAL").error # "UNKNOWN_API_KEY"
  BY DEF OutcomeOK, Refusal, Codes
<1> QED BY <1>1, <1>2, <1>3, AnswerKeeps

\* A write that was applied and answered.
LEMMA AppliedKeeps ==
  ASSUME ClientsInv, NEW c \in Callers, NEW w, WriteOK(w, db.keys), db' = Applied(db, w),
         stage[c] \in {"received", "indexing"}, IsAdmin(req[c].op),
         Answer(c, Outcome(<<>>)), req' = req, failOpen' = failOpen,
         told' = told \/ (w.set = "index" /\ told' = told \cup {w.tenant})
  PROVE  ClientsInv'
<1>1. /\ DbOK(db', told) /\ db.keys \subseteq db'.keys
      /\ w.set = "index" => w.tenant \in db'.index
  BY OfClient, AppliedOK
<1>2. DbOK(db', told') /\ told \subseteq told'
  BY <1>1 DEF DbOK
<1>3. OutcomeOK(req[c].op, Outcome(<<>>)) /\ Outcome(<<>>).error # "UNKNOWN_API_KEY"
  BY DEF OutcomeOK, Outcome
<1> QED BY <1>1, <1>2, <1>3, AnswerKeeps

LEMMA AdministerKeeps == ASSUME ClientsInv, NEW c \in Callers, Administer(c) PROVE ClientsInv'
<1> DEFINE t == req[c].tenant
<1>1. /\ stage[c] = "received" /\ req[c].op \in {"putRule", "deleteRule", "listRules"}
      /\ req' = req /\ failOpen' = failOpen /\ told' = told
      /\ \/ \E w \in {Write("rules", t), Removal("rules", t)} :
              GivenUp(c, w) \/ (db' = Applied(db, w) /\ Answer(c, Outcome(<<>>)))
         \/ \E code \in {"UNKNOWN_TENANT", "INVALID_REQUEST", "UNKNOWN_RULE", "INTERNAL"} :
              Answer(c, Refusal(code)) /\ db' = db
         \/ Answer(c, Outcome(<<>>)) /\ db' = db
  BY DEF Administer
<1>2. IsAdmin(req[c].op) /\ req[c] \in Requests /\ DbOK(db, told)
  BY <1>1, OfClient DEF IsAdmin, ClientOK
<1>3. t \in Tenants
  BY <1>2 DEF Requests
<1> HIDE DEF t
<1>4. ASSUME NEW w \in {Write("rules", t), Removal("rules", t)},
             GivenUp(c, w) \/ (db' = Applied(db, w) /\ Answer(c, Outcome(<<>>)))
      PROVE  ClientsInv'
  <2>1. WriteOK(w, db.keys)
    <3>1. CASE w = Write("rules", t)
      BY <1>3, <3>1 DEF WriteOK, Writes, Write
    <3>2. CASE w = Removal("rules", t)
      BY <1>3, <3>2 DEF WriteOK, Writes, Removal
    <3> QED BY <1>4, <3>1, <3>2
  <2>2. CASE GivenUp(c, w)
    BY <1>1, <1>2, <2>1, <2>2, GivenUpKeeps
  <2>3. CASE db' = Applied(db, w) /\ Answer(c, Outcome(<<>>))
    BY <1>1, <1>2, <2>1, <2>3, AppliedKeeps
  <2> QED BY <1>4, <2>2, <2>3
<1>5. ASSUME db' = db, NEW o, Answer(c, o), OutcomeOK(req[c].op, o), o.error # "UNKNOWN_API_KEY"
      PROVE  ClientsInv'
  <2>1. DbOK(db', told') /\ told \subseteq told' /\ db.keys \subseteq db'.keys
    BY <1>1, <1>2, <1>5
  <2> QED BY <1>1, <1>5, <2>1, AnswerKeeps
<1>6. ASSUME NEW code \in {"UNKNOWN_TENANT", "INVALID_REQUEST", "UNKNOWN_RULE", "INTERNAL"},
             Answer(c, Refusal(code)), db' = db
      PROVE  ClientsInv'
  <2>1. OutcomeOK(req[c].op, Refusal(code)) /\ Refusal(code).error # "UNKNOWN_API_KEY"
    BY DEF OutcomeOK, Refusal, Codes
  <2> QED BY <1>5, <1>6, <2>1
<1>7. CASE Answer(c, Outcome(<<>>)) /\ db' = db
  <2>1. OutcomeOK(req[c].op, Outcome(<<>>)) /\ Outcome(<<>>).error # "UNKNOWN_API_KEY"
    BY <1>2 DEF OutcomeOK, Outcome
  <2> QED BY <1>5, <1>7, <2>1
<1> QED BY <1>1, <1>4, <1>6, <1>7

LEMMA SetKeyKeeps == ASSUME ClientsInv, NEW c \in Callers, SetKey(c) PROVE ClientsInv'
<1> DEFINE t == req[c].tenant
           w == Write("keys", t)
<1>1. /\ req[c].op = "createTenant" /\ stage[c] = "received"
      /\ \/ db' = Applied(db, w) /\ stage' = [stage EXCEPT ![c] = "indexing"] /\ outcome' = outcome
         \/ GivenUp(c, w)
      /\ failOpen' = failOpen /\ req' = req /\ told' = told
  BY DEF SetKey
<1>2. ClientOK(req[c], stage[c], outcome[c], told, db.keys) /\ DbOK(db, told)
  BY OfClient
<1>3. t \in Tenants
  BY <1>2 DEF ClientOK, Requests
<1>4. WriteOK(w, db.keys) /\ w.set = "keys" /\ w.tenant = t
  BY <1>3 DEF WriteOK, Writes, Write
<1> HIDE DEF w
<1>5. CASE GivenUp(c, w)
  BY <1>1, <1>4, <1>5, GivenUpKeeps DEF IsAdmin
<1>6. CASE db' = Applied(db, w) /\ stage' = [stage EXCEPT ![c] = "indexing"] /\ outcome' = outcome
  <2>1. DbOK(db', told') /\ db.keys \subseteq db'.keys /\ t \in db'.keys /\ told \subseteq told'
    BY <1>1, <1>2, <1>4, <1>6, AppliedOK
  <2>2. ClientOK(req[c], stage[c], outcome[c], told', db'.keys)
    BY <1>2, <2>1, ClientStays
  <2>3. ClientOK(req[c], "indexing", outcome[c], told', db'.keys)
    BY <1>1, <2>1, <2>2 DEF ClientOK
  <2>4. /\ req' = [req EXCEPT ![c] = req[c]] /\ outcome' = [outcome EXCEPT ![c] = outcome[c]]
        /\ stage' = [stage EXCEPT ![c] = "indexing"] /\ failOpen' = failOpen
    BY <1>1, <1>6, OfClient
  <2> HIDE DEF t
  <2> QED BY <2>1, <2>3, <2>4, OneClient
<1> QED BY <1>1, <1>5, <1>6

LEMMA AddToIndexKeeps == ASSUME ClientsInv, NEW c \in Callers, AddToIndex(c) PROVE ClientsInv'
<1> DEFINE t == req[c].tenant
           w == Write("index", t)
<1>1. /\ stage[c] = "indexing"
      /\ \/ db' = Applied(db, w) /\ told' = told \cup {t} /\ Answer(c, Outcome(<<>>))
         \/ GivenUp(c, w) /\ told' = told
      /\ failOpen' = failOpen /\ req' = req
  BY DEF AddToIndex
<1>2. ClientOK(req[c], stage[c], outcome[c], told, db.keys)
  BY OfClient
<1>3. t \in Tenants /\ t \in db.keys /\ IsAdmin(req[c].op)
  BY <1>1, <1>2 DEF ClientOK, Requests, IsAdmin
<1>4. WriteOK(w, db.keys) /\ w.set = "index" /\ w.tenant = t
  BY <1>3 DEF WriteOK, Writes, Write
<1> HIDE DEF w, t
<1>5. CASE GivenUp(c, w) /\ told' = told
  BY <1>1, <1>3, <1>4, <1>5, GivenUpKeeps
<1>6. CASE db' = Applied(db, w) /\ told' = told \cup {t} /\ Answer(c, Outcome(<<>>))
  BY <1>1, <1>3, <1>4, <1>6, AppliedKeeps
<1> QED BY <1>1, <1>5, <1>6

\* No client is concerned.
LEMMA NoClient ==
  ASSUME ClientsInv, req' = req, stage' = stage, outcome' = outcome, failOpen' = failOpen, told' = told,
         DbOK(db', told'), db.keys \subseteq db'.keys
  PROVE  ClientsInv'
<1>1. ASSUME NEW c \in Callers PROVE ClientOK(req[c], stage[c], outcome[c], told, db'.keys)
  <2>1. ClientOK(req[c], stage[c], outcome[c], told, db.keys)
    BY OfClient
  <2> QED BY <2>1, ClientStays
<1> QED BY <1>1 DEF ClientsInv

LEMMA ClientsNext == ASSUME ClientsInv, [Next]_vars PROVE ClientsInv'
<1>1. CASE LateWrite
  <2>1. PICK w \in db.late : db' = [Applied(db, w) EXCEPT !.late = @ \ {w}]
    BY <1>1 DEF LateWrite
  <2>2. DbOK(db, told) /\ told' = told
    BY <1>1 DEF LateWrite, ClientsInv
  <2>3. DbOK(db', told') /\ db.keys \subseteq db'.keys
    BY <2>1, <2>2, LateApplied
  <2> QED BY <1>1, <2>3, NoClient DEF LateWrite
<1>2. ASSUME NEW s \in Streams, Open(s) \/ Close(s) PROVE ClientsInv'
  <2>1. DbOK(db', told') /\ db.keys \subseteq db'.keys
    BY <1>2 DEF Open, Close, ClientsInv
  <2> QED BY <1>2, <2>1, NoClient DEF Open, Close
<1>3. CASE UNCHANGED vars
  <2>1. DbOK(db', told') /\ db.keys \subseteq db'.keys
    BY <1>3 DEF vars, ClientsInv
  <2> QED BY <1>3, <2>1, NoClient DEF vars
<1> QED BY <1>1, <1>2, <1>3, ReceiveKeeps, ServeKeeps, AdministerKeeps, SetKeyKeeps, AddToIndexKeeps DEF Next

LEMMA ClientsInit == Init => ClientsInv
<1> SUFFICES ASSUME Init PROVE ClientsInv
  OBVIOUS
<1>1. DbOK(db, told)
  <2>1. db = [keys |-> {Demo}, index |-> {Demo}, rules |-> {Demo}, late |-> {}] /\ told = {Demo}
    BY DEF Init
  <2>2. db \in DBs
    BY <2>1 DEF DBs
  <2> QED BY <2>1, <2>2 DEF DbOK
<1>2. NoRequest \in Requests
  <2>1. <<>> \in Seq(Items)
    OBVIOUS
  <2> QED BY <2>1 DEF NoRequest, Requests
<1>3. ClientOK(NoRequest, "idle", Outcome(<<>>), told, db.keys)
  BY <1>2 DEF ClientOK
<1> QED BY <1>1, <1>3 DEF Init, ClientsInv

-----------------------------------------------------------------------------
(***************************************************************************)
(* The events: the buffer and what an open stream was sent are runs of     *)
(* consecutive events that end with the last one published.                *)
(***************************************************************************)
Numbered(q, n) == q \in Seq(Nat) /\ \A i \in 1..Len(q) : q[i] = n - Len(q) + i

\* How many of n events the bus keeps.
Recent(n) == IF n <= MaxBuffer THEN n ELSE MaxBuffer

BusInv ==
  /\ published \in Nat
  /\ Numbered(buffer, published) /\ Recent(published) <= Len(buffer) /\ Len(buffer) <= MaxBuffer
  /\ streams = [s \in Streams |-> streams[s]]
  /\ \A s \in Streams : streams[s].open =>
       Numbered(streams[s].sent, published) /\ Recent(published) <= Len(streams[s].sent)

LEMMA RecentIsMin == ASSUME NEW n \in Nat PROVE Min({n, MaxBuffer}) = Recent(n)
<1>1. MaxBuffer \in Nat
  OBVIOUS
<1>2. \E x \in {n, MaxBuffer} : \A y \in {n, MaxBuffer} : x <= y
  BY <1>1
<1>3. /\ Min({n, MaxBuffer}) \in {n, MaxBuffer}
      /\ \A y \in {n, MaxBuffer} : Min({n, MaxBuffer}) <= y
  BY <1>2 DEF Min
<1> QED BY <1>1, <1>3 DEF Recent

LEMMA Appended ==
  ASSUME NEW n \in Nat, NEW q, Numbered(q, n)
  PROVE  /\ Numbered(Append(q, n + 1), n + 1) /\ Len(Append(q, n + 1)) = Len(q) + 1
         /\ Len(q) \in Nat
<1> DEFINE r == Append(q, n + 1)
<1>1. q \in Seq(Nat) /\ Len(q) \in Nat /\ r \in Seq(Nat) /\ Len(r) = Len(q) + 1
  BY DEF Numbered
<1>2. (\A i \in 1..Len(q) : r[i] = q[i]) /\ r[Len(q) + 1] = n + 1
  BY <1>1
<1>3. \A i \in 1..Len(r) : i \in 1..Len(q) \/ i = Len(q) + 1
  BY <1>1
<1> HIDE DEF r
<1>4. \A i \in 1..Len(q) : r[i] = n - Len(q) + i
  BY <1>2 DEF Numbered
<1>5. \A i \in 1..Len(r) : r[i] = n + 1 - Len(r) + i
  BY <1>1, <1>2, <1>3, <1>4
<1>6. Numbered(r, n + 1)
  BY <1>1, <1>5 DEF Numbered
<1> QED BY <1>1, <1>6 DEF r

LEMMA WithoutOldest ==
  ASSUME NEW n \in Nat, NEW q, Numbered(q, n), q # <<>>
  PROVE  Numbered(Tail(q), n) /\ Len(Tail(q)) = Len(q) - 1
<1>1. q \in Seq(Nat) /\ Len(q) \in Nat /\ 1 <= Len(q) /\ Tail(q) \in Seq(Nat) /\ Len(Tail(q)) = Len(q) - 1
  BY DEF Numbered
<1>2. \A i \in 1..Len(Tail(q)) : i + 1 \in 1..Len(q) /\ Tail(q)[i] = q[i + 1]
  BY <1>1
<1>3. \A i \in 1..Len(Tail(q)) : Tail(q)[i] = n - Len(q) + (i + 1)
  BY <1>2 DEF Numbered
<1>4. \A i \in 1..Len(Tail(q)) : Tail(q)[i] = n - Len(Tail(q)) + i
  BY <1>1, <1>3
<1> QED BY <1>1, <1>4 DEF Numbered

LEMMA RecentGrows ==
  ASSUME NEW n \in Nat
  PROVE  /\ Recent(n) \in Nat /\ Recent(n + 1) <= Recent(n) + 1 /\ Recent(n) <= MaxBuffer
         /\ Recent(n + 1) <= MaxBuffer /\ Recent(n + 1) \in Nat
<1>1. MaxBuffer \in Nat
  OBVIOUS
<1> QED BY <1>1 DEF Recent

LEMMA PublishKeeps == ASSUME BusInv, Publish PROVE BusInv'
<1>1. /\ published \in Nat /\ published' = published + 1 /\ MaxBuffer \in Nat \ {0}
      /\ buffer' = Buffered(buffer) /\ Numbered(buffer, published) /\ Len(buffer) \in Nat
      /\ streams' = [s \in Streams |->
                      IF streams[s].open THEN [streams[s] EXCEPT !.sent = Append(@, published + 1)]
                      ELSE streams[s]]
  BY Appended DEF Publish, BusInv
<1>2. Recent(published) <= Len(buffer) /\ Len(buffer) <= MaxBuffer
  BY DEF BusInv
<1>3. /\ Numbered(buffer', published') /\ Recent(published') <= Len(buffer')
      /\ Len(buffer') <= MaxBuffer
  <2>1. CASE Len(buffer) < MaxBuffer
    <3>1. buffer' = Append(buffer, published + 1)
      BY <1>1, <2>1 DEF Buffered
    <3>2. Numbered(buffer', published') /\ Len(buffer') = Len(buffer) + 1
      BY <1>1, <3>1, Appended
    <3>3. Recent(published') <= Recent(published) + 1 /\ Recent(published) \in Nat /\ Recent(published') <= MaxBuffer
      BY <1>1, RecentGrows
    <3>4. Recent(published') \in Nat
      BY <1>1, RecentGrows
    <3> QED BY <1>1, <1>2, <2>1, <3>2, <3>3, <3>4
  <2>2. CASE ~(Len(buffer) < MaxBuffer)
    <3>1. buffer' = Append(Tail(buffer), published + 1) /\ Len(buffer) = MaxBuffer /\ buffer # <<>>
      BY <1>1, <1>2, <2>2 DEF Buffered
    <3>2. Numbered(Tail(buffer), published) /\ Len(Tail(buffer)) = MaxBuffer - 1
      BY <1>1, <3>1, WithoutOldest
    <3>3. Numbered(buffer', published') /\ Len(buffer') = MaxBuffer
      BY <1>1, <3>1, <3>2, Appended
    <3> QED BY <1>1, <3>3, RecentGrows
  <2> QED BY <2>1, <2>2
<1>4. ASSUME NEW s \in Streams, streams'[s].open
      PROVE  Numbered(streams'[s].sent, published') /\ Recent(published') <= Len(streams'[s].sent)
  <2>1. streams[s].open
    BY <1>1, <1>4
  <2>2. Numbered(streams[s].sent, published) /\ Recent(published) <= Len(streams[s].sent)
    BY <2>1 DEF BusInv
  <2>3. streams'[s].sent = Append(streams[s].sent, published + 1)
    BY <1>1, <1>4, <2>1
  <2>4. /\ Numbered(streams'[s].sent, published') /\ Len(streams'[s].sent) = Len(streams[s].sent) + 1
        /\ Len(streams[s].sent) \in Nat
    BY <1>1, <2>2, <2>3, Appended
  <2>5. Recent(published') <= Recent(published) + 1 /\ Recent(published) \in Nat /\ Recent(published') \in Nat
    BY <1>1, RecentGrows
  <2> QED BY <2>2, <2>4, <2>5
<1>5. streams' = [s \in Streams |-> streams'[s]] /\ published' \in Nat
  BY <1>1
<1> QED BY <1>3, <1>4, <1>5 DEF BusInv

LEMMA StreamKeeps == ASSUME BusInv, NEW s \in Streams, Open(s) \/ Close(s) PROVE BusInv'
<1>1. published' = published /\ buffer' = buffer
  BY DEF Open, Close
<1>2. CASE Open(s)
  <2>1. streams' = [streams EXCEPT ![s] = [open |-> TRUE, sent |-> buffer]]
    BY <1>2 DEF Open
  <2>2. ASSUME NEW x \in Streams, streams'[x].open
        PROVE  Numbered(streams'[x].sent, published) /\ Recent(published) <= Len(streams'[x].sent)
    <3>1. CASE x = s
      BY <2>1, <3>1 DEF BusInv
    <3>2. CASE x # s
      BY <2>1, <2>2, <3>2 DEF BusInv
    <3> QED BY <3>1, <3>2
  <2>3. streams' = [x \in Streams |-> streams'[x]]
    BY <2>1 DEF BusInv
  <2> QED BY <1>1, <2>2, <2>3 DEF BusInv
<1>3. CASE Close(s)
  <2>1. streams' = [streams EXCEPT ![s].open = FALSE] /\ streams[s].open
    BY <1>3 DEF Close
  <2>2. ASSUME NEW x \in Streams, streams'[x].open
        PROVE  Numbered(streams'[x].sent, published) /\ Recent(published) <= Len(streams'[x].sent)
    <3>1. CASE x = s
      <4>1. streams'[x] = [streams[s] EXCEPT !.open = FALSE]
        BY <2>1, <3>1 DEF BusInv
      <4>2. streams'[x].sent = streams[s].sent
        BY <4>1
      <4> QED BY <2>1, <3>1, <4>2 DEF BusInv
    <3>2. CASE x # s
      BY <2>1, <2>2, <3>2 DEF BusInv
    <3> QED BY <3>1, <3>2
  <2>3. streams' = [x \in Streams |-> streams'[x]]
    BY <2>1 DEF BusInv
  <2> QED BY <1>1, <2>2, <2>3 DEF BusInv
<1> QED BY <1>2, <1>3

LEMMA BusNext == ASSUME ClientsInv, BusInv, [Next]_vars PROVE BusInv'
<1>1. ASSUME BusStands PROVE BusInv'
  BY <1>1 DEF BusStands, BusInv
<1>2. ASSUME NEW c \in Callers, Serve(c) PROVE BusInv'
  <2>1. CallEnds(c)
    BY <1>2, ServeEnds
  <2>2. BusStands \/ Publish
    BY <2>1 DEF CallEnds, RefusedCall, DecidedCheck, DecidedBatch, UnavailableCall, DegradedCheck,
                DegradedBatch
  <2> QED BY <1>1, <2>2, PublishKeeps
<1>3. ASSUME NEW c \in Callers, Receive(c) \/ Administer(c) \/ SetKey(c) \/ AddToIndex(c) PROVE BusInv'
  BY <1>1, <1>3 DEF Receive, Administer, SetKey, AddToIndex, BusStands
<1>4. CASE LateWrite \/ UNCHANGED vars
  BY <1>1, <1>4 DEF LateWrite, vars, BusStands
<1> QED BY <1>2, <1>3, <1>4, StreamKeeps DEF Next

LEMMA BusInit == Init => BusInv
<1> SUFFICES ASSUME Init PROVE BusInv
  OBVIOUS
<1>1. published = 0 /\ buffer = <<>> /\ streams = [s \in Streams |-> [open |-> FALSE, sent |-> <<>>]]
  BY DEF Init
<1>2. Numbered(<<>>, 0) /\ Recent(0) = 0
  BY DEF Numbered, Recent
<1>3. MaxBuffer \in Nat /\ Len(<<>>) = 0
  OBVIOUS
<1> QED BY <1>1, <1>2, <1>3 DEF BusInv

-----------------------------------------------------------------------------
(***************************************************************************)
(* The counters.  The sets of what was told are stated of the requests,    *)
(* the stages and the outcomes, before a step or after it.                 *)
(***************************************************************************)
\* Decisions of a script among the entries that are allows, or denials.
HitsOf(es, a) ==
  {i \in 1..MaxBatch : /\ i \in DOMAIN es /\ es[i].error = "none"
                       /\ es[i].decision.degraded = FALSE /\ es[i].decision.allowed = a}

MadeAs(a, out) == {p \in Callers \X (1..MaxBatch) : p[2] \in HitsOf(out[p[1]].entries, a)}

\* A call that met a failing backend.
MetFailure(o) ==
  \/ o.error = "BACKEND_UNAVAILABLE"
  \/ \E i \in 1..MaxBatch : i \in DOMAIN o.entries /\ o.entries[i].error = "none"
                            /\ o.entries[i].decision.degraded = TRUE

FailedCalls(out) == {c \in Callers : MetFailure(out[c])}

ChecksAnswered(error, rq, st, out) ==
  {c \in Callers : st[c] = "answered" /\ rq[c].op = "check" /\ out[c].error = error}

Announced(rq, st, out) == ChecksAnswered("none", rq, st, out)
DownChecks(rq, st, out) == ChecksAnswered("BACKEND_UNAVAILABLE", rq, st, out)

CountInv ==
  /\ metrics \in [allowed: Nat, denied: Nat, redisErrors: Nat, durations: Nat]
  /\ metrics.allowed = Cardinality(MadeAs(TRUE, outcome))
  /\ metrics.denied = Cardinality(MadeAs(FALSE, outcome))
  /\ metrics.redisErrors = Cardinality(FailedCalls(outcome))
  /\ published = Cardinality(Announced(req, stage, outcome))
  /\ metrics.durations = published + Cardinality(DownChecks(req, stage, outcome))

LEMMA FiniteSets ==
  /\ \A a, out : IsFiniteSet(MadeAs(a, out)) /\ Cardinality(MadeAs(a, out)) \in Nat
  /\ \A es, a : IsFiniteSet(HitsOf(es, a)) /\ Cardinality(HitsOf(es, a)) \in Nat
  /\ \A out : IsFiniteSet(FailedCalls(out)) /\ Cardinality(FailedCalls(out)) \in Nat
  /\ \A e, rq, st, out : /\ IsFiniteSet(ChecksAnswered(e, rq, st, out))
                         /\ Cardinality(ChecksAnswered(e, rq, st, out)) \in Nat
<1>1. IsFiniteSet(Callers)
  OBVIOUS
<1>2. IsFiniteSet(1..MaxBatch)
  <2>1. 1 \in Int /\ MaxBatch \in Int
    OBVIOUS
  <2> QED BY <2>1, FS_Interval
<1>3. IsFiniteSet(Callers \X (1..MaxBatch))
  BY <1>1, <1>2, FS_Product
<1>4. \A a, out : MadeAs(a, out) \in SUBSET (Callers \X (1..MaxBatch))
  BY DEF MadeAs
<1>5. \A es, a : HitsOf(es, a) \in SUBSET (1..MaxBatch)
  BY DEF HitsOf
<1>6. \A out : FailedCalls(out) \in SUBSET Callers
  BY DEF FailedCalls
<1>7. \A e, rq, st, out : ChecksAnswered(e, rq, st, out) \in SUBSET Callers
  BY DEF ChecksAnswered
<1> QED BY <1>1, <1>2, <1>3, <1>4, <1>5, <1>6, <1>7, FS_Subset, FS_CardinalityType

\* There are as many pairs of a client with the members of a set as there are members.
PairsOf(c, T) == {<<c, i>> : i \in T}

LEMMA PairsOfOne ==
  ASSUME NEW c, NEW T, IsFiniteSet(T)
  PROVE  IsFiniteSet(PairsOf(c, T)) /\ Cardinality(PairsOf(c, T)) = Cardinality(T)
<1> DEFINE f == [i \in T |-> <<c, i>>]
           U == PairsOf(c, T)
<1>3. \A u : u \in U <=> \E i \in T : u = <<c, i>>
  BY DEF PairsOf
<1> HIDE DEF U
<1>1. f \in Bijection(T, U)
  <2>1. f \in [T -> U]
    BY <1>3
  <2>2. \A x, y \in T : f[x] = f[y] => x = y
    OBVIOUS
  <2>3. \A u \in U : \E x \in T : f[x] = u
    BY <1>3
  <2> HIDE DEF f
  <2>4. f \in Injection(T, U)
    BY <2>1, <2>2 DEF Injection, IsInjective
  <2>5. f \in Surjection(T, U)
    BY <2>1, <2>3 DEF Surjection
  <2> QED BY <2>4, <2>5 DEF Bijection
<1>2. ExistsBijection(T, U)
  BY <1>1 DEF ExistsBijection
<1> QED BY <1>2, FS_Bijection DEF U

\* A client that had heard nothing is answered: what each set gains.
LEMMA AnswerCounts ==
  ASSUME ClientsInv, NEW c \in Callers, NEW o, Answer(c, o), stage[c] # "answered",
         \A x \in Callers : x # c => req'[x] = req[x]
  PROVE  /\ \A a : Cardinality(MadeAs(a, outcome')) =
                     Cardinality(MadeAs(a, outcome)) + Cardinality(HitsOf(o.entries, a))
         /\ Cardinality(FailedCalls(outcome')) =
              Cardinality(FailedCalls(outcome)) + IF MetFailure(o) THEN 1 ELSE 0
         /\ \A e : Cardinality(ChecksAnswered(e, req', stage', outcome')) =
                     Cardinality(ChecksAnswered(e, req, stage, outcome))
                       + IF req'[c].op = "check" /\ o.error = e THEN 1 ELSE 0
<1>1. /\ outcome[c] = Outcome(<<>>)
      /\ outcome'[c] = o /\ stage'[c] = "answered"
      /\ \A x \in Callers : x # c => outcome'[x] = outcome[x] /\ stage'[x] = stage[x] /\ req'[x] = req[x]
  BY OfClient DEF Answer, ClientsInv, ClientOK
<1>2. Outcome(<<>>).entries = <<>> /\ Outcome(<<>>).error = "none"
  BY DEF Outcome
<1>3. ASSUME NEW a
      PROVE  Cardinality(MadeAs(a, outcome')) =
               Cardinality(MadeAs(a, outcome)) + Cardinality(HitsOf(o.entries, a))
  <2>1. HitsOf(outcome[c].entries, a) = {}
    BY <1>1, <1>2 DEF HitsOf
  <2>2. \A p \in MadeAs(a, outcome) : p[1] # c
    BY <2>1 DEF MadeAs
  <2>3. MadeAs(a, outcome') = MadeAs(a, outcome) \cup {<<c, i>> : i \in HitsOf(o.entries, a)}
    <3>1. ASSUME NEW p \in MadeAs(a, outcome')
          PROVE  p \in MadeAs(a, outcome) \/ p \in {<<c, i>> : i \in HitsOf(o.entries, a)}
      <4>1. p \in Callers \X (1..MaxBatch) /\ p[2] \in HitsOf(outcome'[p[1]].entries, a)
        BY DEF MadeAs
      <4>2. CASE p[1] = c
        <5>1. p = <<c, p[2]>> /\ p[2] \in HitsOf(o.entries, a)
          BY <1>1, <4>1, <4>2
        <5> QED BY <5>1
      <4>3. CASE p[1] # c
        BY <1>1, <4>1, <4>3 DEF MadeAs
      <4> QED BY <4>2, <4>3
    <3>2. ASSUME NEW p \in MadeAs(a, outcome) PROVE p \in MadeAs(a, outcome')
      BY <1>1, <2>2 DEF MadeAs
    <3>3. ASSUME NEW i \in HitsOf(o.entries, a) PROVE <<c, i>> \in MadeAs(a, outcome')
      <4>1. i \in 1..MaxBatch
        BY DEF HitsOf
      <4> QED BY <1>1, <4>1 DEF MadeAs
    <3> QED BY <3>1, <3>2, <3>3
  <2>4. IsFiniteSet(MadeAs(a, outcome)) /\ IsFiniteSet(HitsOf(o.entries, a))
    BY FiniteSets
  <2> DEFINE U == PairsOf(c, HitsOf(o.entries, a))
             S == MadeAs(a, outcome)
             T == HitsOf(o.entries, a)
  <2>7. MadeAs(a, outcome') = S \cup U
    BY <2>3 DEF PairsOf
  <2>8. IsFiniteSet(S) /\ IsFiniteSet(T)
    BY <2>4
  <2>9. S \cap U = {}
    BY <2>2 DEF PairsOf
  <2>5. U = PairsOf(c, T)
    OBVIOUS
  <2> HIDE DEF U, S, T
  <2>10. IsFiniteSet(U) /\ Cardinality(U) = Cardinality(T)
    BY <2>5, <2>8, PairsOfOne
  <2>11. Cardinality(S \cup U) = Cardinality(S) + Cardinality(U) - Cardinality(S \cap U)
    BY <2>8, <2>10, FS_Union
  <2>12. Cardinality(S \cap U) = 0 /\ Cardinality(S) \in Nat /\ Cardinality(U) \in Nat
    BY <2>8, <2>9, <2>10, FS_EmptySet, FS_CardinalityType
  <2>6. Cardinality(S \cup U) = Cardinality(S) + Cardinality(T)
    BY <2>10, <2>11, <2>12
  <2> QED BY <2>6, <2>7 DEF S, T
<1>4. Cardinality(FailedCalls(outcome')) =
        Cardinality(FailedCalls(outcome)) + IF MetFailure(o) THEN 1 ELSE 0
  <2>1. ~MetFailure(outcome[c])
    BY <1>1, <1>2 DEF MetFailure
  <2>2. c \notin FailedCalls(outcome)
    BY <2>1 DEF FailedCalls
  <2>3. CASE MetFailure(o)
    <3>1. FailedCalls(outcome') = FailedCalls(outcome) \cup {c}
      BY <1>1, <2>3 DEF FailedCalls
    <3>2. IsFiniteSet(FailedCalls(outcome))
      BY FiniteSets
    <3>3. Cardinality(FailedCalls(outcome) \cup {c}) = Cardinality(FailedCalls(outcome)) + 1
      BY <2>2, <3>2, FS_AddElement
    <3> QED BY <2>3, <3>1, <3>3
  <2>4. CASE ~MetFailure(o)
    <3>1. FailedCalls(outcome') = FailedCalls(outcome)
      BY <1>1, <2>1, <2>4 DEF FailedCalls
    <3> QED BY <2>4, <3>1, FiniteSets
  <2> QED BY <2>3, <2>4
<1>5. ASSUME NEW e
      PROVE  Cardinality(ChecksAnswered(e, req', stage', outcome')) =
               Cardinality(ChecksAnswered(e, req, stage, outcome))
                 + IF req'[c].op = "check" /\ o.error = e THEN 1 ELSE 0
  <2>1. c \notin ChecksAnswered(e, req, stage, outcome)
    BY DEF ChecksAnswered
  <2>2. CASE req'[c].op = "check" /\ o.error = e
    <3>1. ChecksAnswered(e, req', stage', outcome') = ChecksAnswered(e, req, stage, outcome) \cup {c}
      BY <1>1, <2>2 DEF ChecksAnswered
    <3>2. IsFiniteSet(ChecksAnswered(e, req, stage, outcome))
      BY FiniteSets
    <3>3. Cardinality(ChecksAnswered(e, req, stage, outcome) \cup {c})
            = Cardinality(ChecksAnswered(e, req, stage, outcome)) + 1
      BY <2>1, <3>2, FS_AddElement
    <3> QED BY <2>2, <3>1, <3>3
  <2>3. CASE ~(req'[c].op = "check" /\ o.error = e)
    <3>1. ChecksAnswered(e, req', stage', outcome') = ChecksAnswered(e, req, stage, outcome)
      BY <1>1, <2>1, <2>3 DEF ChecksAnswered
    <3> QED BY <2>3, <3>1, FiniteSets
  <2> QED BY <2>2, <2>3
<1> QED BY <1>3, <1>4, <1>5

\* What was counted stands while nobody is answered.
LEMMA NothingCounted ==
  ASSUME CountInv, outcome' = outcome, metrics' = metrics, published' = published,
         \A c \in Callers : /\ (stage'[c] = "answered") <=> (stage[c] = "answered")
                            /\ stage[c] = "answered" => req'[c] = req[c]
  PROVE  CountInv'
<1>1. \A e : ChecksAnswered(e, req', stage', outcome) = ChecksAnswered(e, req, stage, outcome)
  BY DEF ChecksAnswered
<1> QED BY <1>1 DEF CountInv, Announced, DownChecks

\* An answer that says no decision of a check, and is no failure of the backend, is not
\* counted.
LEMMA UncountedAnswer ==
  ASSUME ClientsInv, CountInv, NEW c \in Callers, NEW o, Answer(c, o), stage[c] # "answered",
         \A x \in Callers : x # c => req'[x] = req[x],
         o.entries = <<>>, o.error # "BACKEND_UNAVAILABLE",
         req'[c].op = "check" => o.error # "none",
         metrics' = metrics, published' = published
  PROVE  CountInv'
<1>1. ~MetFailure(o) /\ \A a : HitsOf(o.entries, a) = {}
  BY DEF MetFailure, HitsOf
<1>2. \A a : Cardinality(HitsOf(o.entries, a)) = 0
  BY <1>1, FS_EmptySet
<1>3. /\ \A a : Cardinality(MadeAs(a, outcome')) = Cardinality(MadeAs(a, outcome))
      /\ Cardinality(FailedCalls(outcome')) = Cardinality(FailedCalls(outcome))
      /\ Cardinality(Announced(req', stage', outcome')) = Cardinality(Announced(req, stage, outcome))
      /\ Cardinality(DownChecks(req', stage', outcome')) = Cardinality(DownChecks(req, stage, outcome))
  BY <1>1, <1>2, AnswerCounts, FiniteSets DEF Announced, DownChecks
<1> QED BY <1>3 DEF CountInv

LEMMA MetricsAfter ==
  ASSUME NEW m \in [allowed: Nat, denied: Nat, redisErrors: Nat, durations: Nat]
  PROVE  /\ ErrorCounted(m) \in [allowed: Nat, denied: Nat, redisErrors: Nat, durations: Nat]
         /\ ErrorCounted(m).allowed = m.allowed /\ ErrorCounted(m).denied = m.denied
         /\ ErrorCounted(m).redisErrors = m.redisErrors + 1 /\ ErrorCounted(m).durations = m.durations
         /\ Timed(m) \in [allowed: Nat, denied: Nat, redisErrors: Nat, durations: Nat]
         /\ Timed(m).allowed = m.allowed /\ Timed(m).denied = m.denied
         /\ Timed(m).redisErrors = m.redisErrors /\ Timed(m).durations = m.durations + 1
BY DEF ErrorCounted, Timed

LEMMA BothAdded ==
  ASSUME NEW m \in [allowed: Nat, denied: Nat, redisErrors: Nat, durations: Nat],
         NEW x \in Nat, NEW y \in Nat, NEW n, n = [m EXCEPT !.allowed = @ + x, !.denied = @ + y]
  PROVE  /\ n \in [allowed: Nat, denied: Nat, redisErrors: Nat, durations: Nat]
         /\ n.allowed = m.allowed + x /\ n.denied = m.denied + y
         /\ n.redisErrors = m.redisErrors /\ n.durations = m.durations
<1>1. /\ m.allowed \in Nat /\ m.denied \in Nat /\ m.redisErrors \in Nat /\ m.durations \in Nat
  OBVIOUS
<1>2. n = [allowed |-> m.allowed + x, denied |-> m.denied + y, redisErrors |-> m.redisErrors,
           durations |-> m.durations]
  OBVIOUS
<1>3. m.allowed + x \in Nat /\ m.denied + y \in Nat
  BY <1>1
<1>4. /\ n.allowed = m.allowed + x /\ n.denied = m.denied + y
      /\ n.redisErrors = m.redisErrors /\ n.durations = m.durations
  BY <1>2
<1>5. n \in [allowed: Nat, denied: Nat, redisErrors: Nat, durations: Nat]
  BY <1>1, <1>2, <1>3
<1> QED BY <1>4, <1>5

\* Metrics count the decisions of a script that a client is told.
LEMMA CountedHits ==
  ASSUME NEW m \in [allowed: Nat, denied: Nat, redisErrors: Nat, durations: Nat],
         NEW es \in Seq(Made), Len(es) <= MaxBatch
  PROVE  /\ Counted(m, es) \in [allowed: Nat, denied: Nat, redisErrors: Nat, durations: Nat]
         /\ Counted(m, es).allowed = m.allowed + Cardinality(HitsOf(es, TRUE))
         /\ Counted(m, es).denied = m.denied + Cardinality(HitsOf(es, FALSE))
         /\ Counted(m, es).redisErrors = m.redisErrors /\ Counted(m, es).durations = m.durations
         /\ ~MetFailure(Outcome(es))
<1> DEFINE With(a) == {i \in DOMAIN es : es[i].error = "none" /\ es[i].decision.allowed = a}
<1>1. DOMAIN es = 1..Len(es) /\ Len(es) \in Nat /\ \A i \in DOMAIN es : i \in 1..MaxBatch /\ es[i] \in Made
  OBVIOUS
<1>2. \A e \in Made : e.error = "none" => e.decision.degraded = FALSE
  <2>1. \A d \in Decisions : Decided(d).decision.degraded = FALSE
    BY DEF Decided
  <2>2. \A code \in Codes : Failed(code).error # "none"
    BY DEF Failed, Codes
  <2> QED BY <2>1, <2>2 DEF Made
<1>3. \A a : HitsOf(es, a) = With(a)
  BY <1>1, <1>2 DEF HitsOf
<1>4. Counted(m, es) = [m EXCEPT !.allowed = @ + Cardinality(With(TRUE)), !.denied = @ + Cardinality(With(FALSE))]
  BY Zenon DEF Counted
<1>5. HitsOf(es, TRUE) = With(TRUE) /\ HitsOf(es, FALSE) = With(FALSE)
  BY <1>3
<1> HIDE DEF With
<1>6. Cardinality(HitsOf(es, TRUE)) \in Nat /\ Cardinality(HitsOf(es, FALSE)) \in Nat
  BY FiniteSets
<1>7. ~MetFailure(Outcome(es))
  <2>1. Outcome(es).error = "none" /\ Outcome(es).entries = es
    BY DEF Outcome
  <2>2. \A i \in DOMAIN es : es[i].error = "none" => es[i].decision.degraded = FALSE
    BY <1>1, <1>2
  <2> QED BY <2>1, <2>2 DEF MetFailure
<1>8. Cardinality(With(TRUE)) \in Nat /\ Cardinality(With(FALSE)) \in Nat
  BY <1>5, <1>6
<1> DEFINE x == Cardinality(With(TRUE))
           y == Cardinality(With(FALSE))
           n == Counted(m, es)
<1>10. x \in Nat /\ y \in Nat /\ n = [m EXCEPT !.allowed = @ + x, !.denied = @ + y]
  BY <1>4, <1>8
<1>11. HitsOf(es, TRUE) = With(TRUE) /\ x = Cardinality(With(TRUE))
  BY <1>5
<1>12. HitsOf(es, FALSE) = With(FALSE) /\ y = Cardinality(With(FALSE))
  BY <1>5
<1>13. x = Cardinality(HitsOf(es, TRUE)) /\ y = Cardinality(HitsOf(es, FALSE))
  BY Zenon, <1>11, <1>12
<1> HIDE DEF x, y, n
<1>9. /\ n \in [allowed: Nat, denied: Nat, redisErrors: Nat, durations: Nat]
      /\ n.allowed = m.allowed + x /\ n.denied = m.denied + y
      /\ n.redisErrors = m.redisErrors /\ n.durations = m.durations
  BY <1>10, BothAdded
<1> QED BY Zenon, <1>7, <1>9, <1>13 DEF n

\* A degraded answer says no decision of a script.
LEMMA DegradedHits ==
  ASSUME NEW es \in Seq({Decided(Degraded)}), Len(es) \in 1..MaxBatch
  PROVE  MetFailure(Outcome(es)) /\ \A a : Cardinality(HitsOf(es, a)) = 0
<1>1. Decided(Degraded).error = "none" /\ Decided(Degraded).decision.degraded = TRUE
  BY DegradedFields DEF Decided
<1>2. DOMAIN es = 1..Len(es) /\ 1 \in DOMAIN es /\ 1 \in 1..MaxBatch /\ \A i \in DOMAIN es : es[i] = Decided(Degraded)
  OBVIOUS
<1>3. Outcome(es).entries = es
  BY DEF Outcome
<1>4. MetFailure(Outcome(es))
  BY <1>1, <1>2, <1>3 DEF MetFailure
<1>5. \A a : HitsOf(es, a) = {}
  BY <1>1, <1>2 DEF HitsOf
<1> QED BY <1>4, <1>5, FS_EmptySet

LEMMA ServeCounts == ASSUME ClientsInv, CountInv, NEW c \in Callers, Serve(c) PROVE CountInv'
<1> DEFINE M == [allowed: Nat, denied: Nat, redisErrors: Nat, durations: Nat]
<1>1. stage[c] = "received" /\ req' = req /\ CallEnds(c) /\ req[c].op \in {"check", "batch"}
  BY ServeEnds
<1>2. /\ metrics \in M
      /\ metrics.allowed = Cardinality(MadeAs(TRUE, outcome))
      /\ metrics.denied = Cardinality(MadeAs(FALSE, outcome))
      /\ metrics.redisErrors = Cardinality(FailedCalls(outcome))
      /\ published = Cardinality(ChecksAnswered("none", req, stage, outcome))
      /\ metrics.durations = published + Cardinality(ChecksAnswered("BACKEND_UNAVAILABLE", req, stage, outcome))
  BY DEF CountInv, Announced, DownChecks
<1>3. ASSUME NEW o, Answer(c, o)
      PROVE  /\ \A a : Cardinality(MadeAs(a, outcome')) =
                         Cardinality(MadeAs(a, outcome)) + Cardinality(HitsOf(o.entries, a))
             /\ Cardinality(FailedCalls(outcome')) =
                  Cardinality(FailedCalls(outcome)) + IF MetFailure(o) THEN 1 ELSE 0
             /\ \A e : Cardinality(ChecksAnswered(e, req', stage', outcome')) =
                         Cardinality(ChecksAnswered(e, req, stage, outcome))
                           + IF req[c].op = "check" /\ o.error = e THEN 1 ELSE 0
  BY <1>1, <1>3, AnswerCounts
<1>4. /\ \A a : Cardinality(MadeAs(a, outcome)) \in Nat /\ Cardinality(FailedCalls(outcome)) \in Nat
      /\ \A e : Cardinality(ChecksAnswered(e, req, stage, outcome)) \in Nat
  BY FiniteSets
<1>21. ASSUME NEW o, Answer(c, o)
       PROVE  /\ Cardinality(MadeAs(TRUE, outcome')) = metrics.allowed + Cardinality(HitsOf(o.entries, TRUE))
              /\ Cardinality(MadeAs(FALSE, outcome')) = metrics.denied + Cardinality(HitsOf(o.entries, FALSE))
  <2>1. /\ Cardinality(MadeAs(TRUE, outcome')) = Cardinality(MadeAs(TRUE, outcome)) + Cardinality(HitsOf(o.entries, TRUE))
        /\ Cardinality(MadeAs(FALSE, outcome')) = Cardinality(MadeAs(FALSE, outcome)) + Cardinality(HitsOf(o.entries, FALSE))
    BY Zenon, <1>3, <1>21
  <2> QED BY Zenon, <1>2, <2>1
<1>22. ASSUME NEW o, Answer(c, o)
       PROVE  Cardinality(FailedCalls(outcome')) = metrics.redisErrors + IF MetFailure(o) THEN 1 ELSE 0
  BY <1>2, <1>3, <1>22
<1>23. /\ metrics.allowed \in Nat /\ metrics.denied \in Nat
       /\ metrics.redisErrors \in Nat /\ metrics.durations \in Nat /\ published \in Nat
  BY <1>2, <1>4
<1>5. CASE RefusedCall(c)
  <2>1. PICK code \in Codes \ {"BACKEND_UNAVAILABLE"} : Answer(c, Refusal(code))
    BY <1>5 DEF RefusedCall
  <2>2. Refusal(code).entries = <<>> /\ Refusal(code).error = code /\ code # "none"
    BY DEF Refusal, Codes
  <2> QED BY <1>1, <1>5, <2>1, <2>2, UncountedAnswer DEF RefusedCall, BusStands
<1>6. CASE DecidedCheck(c)
  <2>1. PICK d \in Decisions : /\ Answer(c, Outcome(<<Decided(d)>>))
                               /\ metrics' = Timed(Counted(metrics, <<Decided(d)>>))
    BY <1>6 DEF DecidedCheck
  <2> DEFINE es == <<Decided(d)>>
             n == Counted(metrics, es)
  <2>2. es \in Seq(Made) /\ Len(es) <= MaxBatch
    BY DEF Made
  <2>3. Outcome(es).error = "none" /\ Outcome(es).entries = es /\ req[c].op = "check" /\ published' = published + 1
    BY <1>6 DEF Outcome, DecidedCheck, Publish
  <2>4. Answer(c, Outcome(es)) /\ metrics' = Timed(n)
    BY <2>1
  <2> HIDE DEF es
  <2>5. /\ n \in M /\ n.allowed = metrics.allowed + Cardinality(HitsOf(es, TRUE))
        /\ n.denied = metrics.denied + Cardinality(HitsOf(es, FALSE))
        /\ n.redisErrors = metrics.redisErrors /\ n.durations = metrics.durations
        /\ ~MetFailure(Outcome(es))
    BY <1>2, <2>2, CountedHits
  <2> HIDE DEF n
  <2>6. /\ metrics' \in M /\ metrics'.allowed = n.allowed /\ metrics'.denied = n.denied
        /\ metrics'.redisErrors = n.redisErrors /\ metrics'.durations = n.durations + 1
    BY <2>4, <2>5, MetricsAfter
  <2>7. /\ Cardinality(MadeAs(TRUE, outcome')) = metrics'.allowed
        /\ Cardinality(MadeAs(FALSE, outcome')) = metrics'.denied
        /\ Cardinality(FailedCalls(outcome')) = metrics'.redisErrors
    <3>1. Cardinality(MadeAs(TRUE, outcome')) = metrics.allowed + Cardinality(HitsOf(es, TRUE))
      BY <1>21, <2>3, <2>4
    <3>2. Cardinality(MadeAs(FALSE, outcome')) = metrics.denied + Cardinality(HitsOf(es, FALSE))
      BY <1>21, <2>3, <2>4
    <3>3. Cardinality(FailedCalls(outcome')) = metrics.redisErrors
      BY <1>22, <1>23, <2>3, <2>4, <2>5
    <3> QED BY <1>23, <2>5, <2>6, <3>1, <3>2, <3>3
  <2>8. /\ Cardinality(ChecksAnswered("none", req', stage', outcome')) = published'
        /\ Cardinality(ChecksAnswered("BACKEND_UNAVAILABLE", req', stage', outcome'))
             = Cardinality(ChecksAnswered("BACKEND_UNAVAILABLE", req, stage, outcome))
    BY <1>2, <1>3, <1>4, <2>3, <2>4
  <2>9. metrics'.durations = published' + Cardinality(ChecksAnswered("BACKEND_UNAVAILABLE", req', stage', outcome'))
    BY <1>2, <1>4, <2>3, <2>5, <2>6, <2>8
  <2> QED BY <2>6, <2>7, <2>8, <2>9 DEF CountInv, Announced, DownChecks
<1>7. CASE DecidedBatch(c)
  <2>1. PICK es \in Seq(Made) : /\ Len(es) <= MaxBatch
                                /\ Answer(c, Outcome(es)) /\ metrics' = Counted(metrics, es)
    BY <1>7 DEF DecidedBatch
  <2>2. Outcome(es).error = "none" /\ Outcome(es).entries = es /\ req[c].op = "batch" /\ published' = published
    BY <1>7 DEF Outcome, DecidedBatch, BusStands
  <2>3. /\ metrics' \in M /\ metrics'.allowed = metrics.allowed + Cardinality(HitsOf(es, TRUE))
        /\ metrics'.denied = metrics.denied + Cardinality(HitsOf(es, FALSE))
        /\ metrics'.redisErrors = metrics.redisErrors /\ metrics'.durations = metrics.durations
        /\ ~MetFailure(Outcome(es))
    BY <1>2, <2>1, CountedHits
  <2>4. /\ Cardinality(MadeAs(TRUE, outcome')) = metrics'.allowed
        /\ Cardinality(MadeAs(FALSE, outcome')) = metrics'.denied
        /\ Cardinality(FailedCalls(outcome')) = metrics'.redisErrors
    <3>1. Cardinality(MadeAs(TRUE, outcome')) = metrics.allowed + Cardinality(HitsOf(es, TRUE))
      BY <1>21, <2>1, <2>2
    <3>2. Cardinality(MadeAs(FALSE, outcome')) = metrics.denied + Cardinality(HitsOf(es, FALSE))
      BY <1>21, <2>1, <2>2
    <3>3. Cardinality(FailedCalls(outcome')) = metrics.redisErrors
      BY <1>22, <1>23, <2>1, <2>2, <2>3
    <3> QED BY <1>23, <2>3, <3>1, <3>2, <3>3
  <2>5. \A e : Cardinality(ChecksAnswered(e, req', stage', outcome')) = Cardinality(ChecksAnswered(e, req, stage, outcome))
    BY <1>3, <1>4, <2>1, <2>2
  <2> QED BY <1>2, <2>2, <2>3, <2>4, <2>5 DEF CountInv, Announced, DownChecks
<1>8. CASE UnavailableCall(c)
  <2> DEFINE o == Refusal("BACKEND_UNAVAILABLE")
  <2>1. /\ Answer(c, o) /\ published' = published /\ o.error = "BACKEND_UNAVAILABLE" /\ o.entries = <<>>
        /\ metrics' = IF req[c].op = "check" THEN Timed(ErrorCounted(metrics)) ELSE ErrorCounted(metrics)
    BY <1>8 DEF UnavailableCall, BusStands, Refusal
  <2> HIDE DEF o
  <2>2. MetFailure(o) /\ \A a : HitsOf(o.entries, a) = {}
    BY <2>1 DEF MetFailure, HitsOf
  <2>3. \A a : Cardinality(HitsOf(o.entries, a)) = 0
    BY <2>2, FS_EmptySet
  <2>4. /\ metrics' \in M /\ metrics'.allowed = metrics.allowed /\ metrics'.denied = metrics.denied
        /\ metrics'.redisErrors = metrics.redisErrors + 1
        /\ metrics'.durations = metrics.durations + IF req[c].op = "check" THEN 1 ELSE 0
    <3>1. CASE req[c].op = "check"
      <4> DEFINE n == ErrorCounted(metrics)
      <4>1. /\ n \in M /\ n.allowed = metrics.allowed /\ n.denied = metrics.denied
            /\ n.redisErrors = metrics.redisErrors + 1 /\ n.durations = metrics.durations
        BY <1>2, MetricsAfter
      <4>2. metrics' = Timed(n)
        BY <2>1, <3>1
      <4> HIDE DEF n
      <4>3. /\ metrics' \in M /\ metrics'.allowed = n.allowed /\ metrics'.denied = n.denied
            /\ metrics'.redisErrors = n.redisErrors /\ metrics'.durations = n.durations + 1
        BY <4>1, <4>2, MetricsAfter
      <4> QED BY <1>23, <3>1, <4>1, <4>3
    <3>2. CASE req[c].op # "check"
      <4>1. metrics' = ErrorCounted(metrics)
        BY <2>1, <3>2
      <4>2. /\ metrics' \in M /\ metrics'.allowed = metrics.allowed /\ metrics'.denied = metrics.denied
            /\ metrics'.redisErrors = metrics.redisErrors + 1 /\ metrics'.durations = metrics.durations
        BY <1>2, <4>1, MetricsAfter
      <4> QED BY <1>23, <3>2, <4>2
    <3> QED BY <3>1, <3>2
  <2>5. /\ Cardinality(MadeAs(TRUE, outcome')) = metrics'.allowed
        /\ Cardinality(MadeAs(FALSE, outcome')) = metrics'.denied
        /\ Cardinality(FailedCalls(outcome')) = metrics'.redisErrors
    <3>1. Cardinality(MadeAs(TRUE, outcome')) = metrics.allowed + Cardinality(HitsOf(o.entries, TRUE))
      BY <1>21, <2>1
    <3>2. Cardinality(MadeAs(FALSE, outcome')) = metrics.denied + Cardinality(HitsOf(o.entries, FALSE))
      BY <1>21, <2>1
    <3>3. Cardinality(FailedCalls(outcome')) = metrics.redisErrors + 1
      BY <1>22, <1>23, <2>1, <2>2
    <3>4. Cardinality(HitsOf(o.entries, TRUE)) = 0 /\ Cardinality(HitsOf(o.entries, FALSE)) = 0
      BY Zenon, <2>3
    <3>5. metrics.allowed + 0 = metrics.allowed /\ metrics.denied + 0 = metrics.denied
      BY <1>23
    <3>6. /\ Cardinality(MadeAs(TRUE, outcome')) = metrics.allowed
          /\ Cardinality(MadeAs(FALSE, outcome')) = metrics.denied
      BY Zenon, <3>1, <3>2, <3>4, <3>5
    <3> QED BY <2>4, <3>3, <3>6
  <2>6. /\ Cardinality(ChecksAnswered("none", req', stage', outcome')) = published'
        /\ Cardinality(ChecksAnswered("BACKEND_UNAVAILABLE", req', stage', outcome'))
             = Cardinality(ChecksAnswered("BACKEND_UNAVAILABLE", req, stage, outcome))
                 + IF req[c].op = "check" THEN 1 ELSE 0
    BY <1>2, <1>3, <1>4, <2>1
  <2>7. metrics'.durations = published' + Cardinality(ChecksAnswered("BACKEND_UNAVAILABLE", req', stage', outcome'))
    BY <1>2, <1>4, <2>1, <2>4, <2>6
  <2> QED BY <2>4, <2>5, <2>6, <2>7 DEF CountInv, Announced, DownChecks
<1>9. CASE DegradedCheck(c)
  <2> DEFINE es == <<Decided(Degraded)>>
  <2>1. /\ Answer(c, Outcome(es)) /\ published' = published + 1 /\ req[c].op = "check"
        /\ metrics' = Timed(ErrorCounted(metrics))
        /\ Outcome(es).error = "none" /\ Outcome(es).entries = es
    BY <1>9 DEF DegradedCheck, Publish, Outcome
  <2>2. es \in Seq({Decided(Degraded)}) /\ Len(es) \in 1..MaxBatch
    OBVIOUS
  <2> HIDE DEF es
  <2>3. MetFailure(Outcome(es)) /\ \A a : Cardinality(HitsOf(es, a)) = 0
    BY <2>2, DegradedHits
  <2>4. /\ metrics' \in M /\ metrics'.allowed = metrics.allowed /\ metrics'.denied = metrics.denied
        /\ metrics'.redisErrors = metrics.redisErrors + 1 /\ metrics'.durations = metrics.durations + 1
    <3> DEFINE n == ErrorCounted(metrics)
    <3>1. /\ n \in M /\ n.allowed = metrics.allowed /\ n.denied = metrics.denied
          /\ n.redisErrors = metrics.redisErrors + 1 /\ n.durations = metrics.durations
      BY <1>2, MetricsAfter
    <3>2. metrics' = Timed(n)
      BY <2>1
    <3> HIDE DEF n
    <3>3. /\ metrics' \in M /\ metrics'.allowed = n.allowed /\ metrics'.denied = n.denied
          /\ metrics'.redisErrors = n.redisErrors /\ metrics'.durations = n.durations + 1
      BY <3>1, <3>2, MetricsAfter
    <3> QED BY <3>1, <3>3
  <2>5. /\ Cardinality(MadeAs(TRUE, outcome')) = metrics'.allowed
        /\ Cardinality(MadeAs(FALSE, outcome')) = metrics'.denied
        /\ Cardinality(FailedCalls(outcome')) = metrics'.redisErrors
    <3>1. Cardinality(MadeAs(TRUE, outcome')) = metrics.allowed + Cardinality(HitsOf(es, TRUE))
      BY <1>21, <2>1
    <3>2. Cardinality(MadeAs(FALSE, outcome')) = metrics.denied + Cardinality(HitsOf(es, FALSE))
      BY <1>21, <2>1
    <3>3. Cardinality(FailedCalls(outcome')) = metrics.redisErrors + 1
      BY <1>22, <1>23, <2>1, <2>3
    <3>4. Cardinality(HitsOf(es, TRUE)) = 0 /\ Cardinality(HitsOf(es, FALSE)) = 0
      BY Zenon, <2>3
    <3>5. metrics.allowed + 0 = metrics.allowed /\ metrics.denied + 0 = metrics.denied
      BY <1>23
    <3>6. /\ Cardinality(MadeAs(TRUE, outcome')) = metrics.allowed
          /\ Cardinality(MadeAs(FALSE, outcome')) = metrics.denied
      BY Zenon, <3>1, <3>2, <3>4, <3>5
    <3> QED BY <2>4, <3>3, <3>6
  <2>6. /\ Cardinality(ChecksAnswered("none", req', stage', outcome')) = published'
        /\ Cardinality(ChecksAnswered("BACKEND_UNAVAILABLE", req', stage', outcome'))
             = Cardinality(ChecksAnswered("BACKEND_UNAVAILABLE", req, stage, outcome))
    BY <1>2, <1>3, <1>4, <2>1
  <2>7. metrics'.durations = published' + Cardinality(ChecksAnswered("BACKEND_UNAVAILABLE", req', stage', outcome'))
    BY <1>2, <1>4, <2>1, <2>4, <2>6
  <2> QED BY <2>4, <2>5, <2>6, <2>7 DEF CountInv, Announced, DownChecks
<1>10. CASE DegradedBatch(c)
  <2>1. PICK es \in Seq({Decided(Degraded)}) : Len(es) \in 1..MaxBatch /\ Answer(c, Outcome(es))
    BY <1>10 DEF DegradedBatch
  <2>2. /\ published' = published /\ req[c].op = "batch" /\ metrics' = ErrorCounted(metrics)
        /\ Outcome(es).error = "none" /\ Outcome(es).entries = es
    BY <1>10 DEF DegradedBatch, BusStands, Outcome
  <2>3. MetFailure(Outcome(es)) /\ \A a : Cardinality(HitsOf(es, a)) = 0
    BY <2>1, DegradedHits
  <2>4. /\ metrics' \in M /\ metrics'.allowed = metrics.allowed /\ metrics'.denied = metrics.denied
        /\ metrics'.redisErrors = metrics.redisErrors + 1 /\ metrics'.durations = metrics.durations
    BY <1>2, <2>2, MetricsAfter
  <2>5. /\ Cardinality(MadeAs(TRUE, outcome')) = metrics'.allowed
        /\ Cardinality(MadeAs(FALSE, outcome')) = metrics'.denied
        /\ Cardinality(FailedCalls(outcome')) = metrics'.redisErrors
    <3>1. Cardinality(MadeAs(TRUE, outcome')) = metrics.allowed + Cardinality(HitsOf(es, TRUE))
      BY <1>21, <2>1, <2>2
    <3>2. Cardinality(MadeAs(FALSE, outcome')) = metrics.denied + Cardinality(HitsOf(es, FALSE))
      BY <1>21, <2>1, <2>2
    <3>3. Cardinality(FailedCalls(outcome')) = metrics.redisErrors + 1
      BY <1>22, <1>23, <2>1, <2>2, <2>3
    <3>4. Cardinality(HitsOf(es, TRUE)) = 0 /\ Cardinality(HitsOf(es, FALSE)) = 0
      BY Zenon, <2>3
    <3>5. metrics.allowed + 0 = metrics.allowed /\ metrics.denied + 0 = metrics.denied
      BY <1>23
    <3>6. /\ Cardinality(MadeAs(TRUE, outcome')) = metrics.allowed
          /\ Cardinality(MadeAs(FALSE, outcome')) = metrics.denied
      BY Zenon, <3>1, <3>2, <3>4, <3>5
    <3> QED BY <2>4, <3>3, <3>6
  <2>6. \A e : Cardinality(ChecksAnswered(e, req', stage', outcome')) = Cardinality(ChecksAnswered(e, req, stage, outcome))
    BY <1>3, <1>4, <2>1, <2>2
  <2> QED BY <1>2, <2>2, <2>4, <2>5, <2>6 DEF CountInv, Announced, DownChecks
<1> QED BY <1>1, <1>5, <1>6, <1>7, <1>8, <1>9, <1>10 DEF CallEnds

LEMMA ReceiveCounts == ASSUME ClientsInv, CountInv, NEW c \in Callers, Receive(c) PROVE CountInv'
<1>1. PICK via \in {"rest", "grpc"}, key \in Tenants \cup {NoKey, AdminKey},
           op \in {"check", "batch", "createTenant", "putRule", "deleteRule", "listRules"},
           items \in UNION {[1..n -> Items] : n \in 0..MaxItems}, t \in Tenants :
        LET r == [via |-> via, op |-> op, key |-> key, items |-> items, tenant |-> t] IN
          /\ Sendable(r)
          /\ op \in {"check", "batch"} => t = Demo
          /\ op = "createTenant" => Unheard(t)
          /\ req' = [req EXCEPT ![c] = r]
          /\ IF RefusedAtOnce(r) = "none"
             THEN /\ stage' = [stage EXCEPT ![c] = "received"]
                  /\ UNCHANGED outcome
             ELSE Answer(c, Refusal(RefusedAtOnce(r)))
  BY Zenon DEF Receive
<1> DEFINE r == [via |-> via, op |-> op, key |-> key, items |-> items, tenant |-> t]
<1>2. req' = [req EXCEPT ![c] = r]
  BY <1>1
<1>3. \/ RefusedAtOnce(r) = "none" /\ stage' = [stage EXCEPT ![c] = "received"] /\ outcome' = outcome
      \/ RefusedAtOnce(r) # "none" /\ Answer(c, Refusal(RefusedAtOnce(r)))
  BY <1>1
<1> HIDE DEF r
<1>4. stage[c] = "idle" /\ metrics' = metrics /\ published' = published
  BY DEF Receive
<1>5. /\ \A x \in Callers : x # c => req'[x] = req[x]
      /\ DOMAIN stage = Callers
  BY <1>2, OfClient DEF ClientsInv
<1>6. CASE RefusedAtOnce(r) = "none"
  <2>1. \A x \in Callers : /\ (stage'[x] = "answered") <=> (stage[x] = "answered")
                           /\ stage[x] = "answered" => req'[x] = req[x]
    BY <1>3, <1>4, <1>5, <1>6
  <2> QED BY <1>3, <1>4, <1>6, <2>1, NothingCounted
<1>7. CASE RefusedAtOnce(r) # "none"
  <2>1. RefusedAtOnce(r) \in {"none", "ADMIN_FORBIDDEN", "INVALID_REQUEST"}
    BY DEF RefusedAtOnce
  <2> DEFINE o == Refusal(RefusedAtOnce(r))
  <2>2. o.entries = <<>> /\ o.error # "BACKEND_UNAVAILABLE" /\ o.error # "none"
    BY <1>7, <2>1 DEF Refusal
  <2>3. Answer(c, o)
    BY <1>3, <1>7
  <2> HIDE DEF o
  <2> QED BY <1>4, <1>5, <2>2, <2>3, UncountedAnswer
<1> QED BY <1>6, <1>7

\* What the administration answers is not counted.
LEMMA AdminCounts ==
  ASSUME ClientsInv, CountInv, NEW c \in Callers, Administer(c) \/ SetKey(c) \/ AddToIndex(c)
  PROVE  CountInv'
<1>1. /\ req' = req /\ metrics' = metrics /\ published' = published
      /\ stage[c] \in {"received", "indexing"}
  BY DEF Administer, SetKey, AddToIndex
<1>2. ClientOK(req[c], stage[c], outcome[c], told, db.keys) /\ DOMAIN stage = Callers
  BY OfClient DEF ClientsInv
<1>3. req[c].op # "check"
  BY <1>2 DEF Administer, SetKey, AddToIndex, ClientOK
<1>4. \/ Answer(c, Outcome(<<>>))
      \/ \E code \in Codes \ {"BACKEND_UNAVAILABLE"} : Answer(c, Refusal(code))
      \/ stage' = [stage EXCEPT ![c] = "indexing"] /\ outcome' = outcome
  <2>1. CASE Administer(c)
    BY <2>1 DEF Administer, GivenUp, Codes
  <2>2. CASE SetKey(c)
    BY <2>2 DEF SetKey, GivenUp, Codes
  <2>3. CASE AddToIndex(c)
    BY <2>3 DEF AddToIndex, GivenUp, Codes
  <2> QED BY <2>1, <2>2, <2>3
<1>5. ASSUME NEW o, Answer(c, o), o.entries = <<>>, o.error # "BACKEND_UNAVAILABLE"
      PROVE  CountInv'
  BY <1>1, <1>3, <1>5, UncountedAnswer
<1>6. Outcome(<<>>).entries = <<>> /\ Outcome(<<>>).error # "BACKEND_UNAVAILABLE"
  BY DEF Outcome
<1>7. \A code \in Codes \ {"BACKEND_UNAVAILABLE"} :
        Refusal(code).entries = <<>> /\ Refusal(code).error # "BACKEND_UNAVAILABLE"
  BY DEF Refusal
<1>8. CASE stage' = [stage EXCEPT ![c] = "indexing"] /\ outcome' = outcome
  <2>1. \A x \in Callers : /\ (stage'[x] = "answered") <=> (stage[x] = "answered")
                           /\ stage[x] = "answered" => req'[x] = req[x]
    BY <1>1, <1>2, <1>8
  <2> QED BY <1>1, <1>8, <2>1, NothingCounted
<1> QED BY <1>4, <1>5, <1>6, <1>7, <1>8

LEMMA CountNext == ASSUME ClientsInv, CountInv, [Next]_vars PROVE CountInv'
<1>1. ASSUME outcome' = outcome, metrics' = metrics, stage' = stage, req' = req
      PROVE  published' = published => CountInv'
  BY <1>1, NothingCounted
<1>2. CASE LateWrite \/ UNCHANGED vars \/ \E s \in Streams : Open(s) \/ Close(s)
  BY <1>1, <1>2 DEF LateWrite, vars, Open, Close
<1> QED BY <1>2, ReceiveCounts, ServeCounts, AdminCounts DEF Next

LEMMA CountInit == Init => CountInv
<1> SUFFICES ASSUME Init PROVE CountInv
  OBVIOUS
<1>1. /\ metrics = [allowed |-> 0, denied |-> 0, redisErrors |-> 0, durations |-> 0] /\ published = 0
      /\ \A c \in Callers : stage[c] = "idle" /\ outcome[c] = Outcome(<<>>)
  BY DEF Init
<1>2. Outcome(<<>>).error = "none" /\ Outcome(<<>>).entries = <<>>
  BY DEF Outcome
<1>3. \A a : MadeAs(a, outcome) = {}
  BY <1>1, <1>2 DEF MadeAs, HitsOf
<1>4. FailedCalls(outcome) = {}
  BY <1>1, <1>2 DEF FailedCalls, MetFailure
<1>5. Announced(req, stage, outcome) = {} /\ DownChecks(req, stage, outcome) = {}
  BY <1>1 DEF Announced, DownChecks, ChecksAnswered
<1>6. MadeAs(TRUE, outcome) = {} /\ MadeAs(FALSE, outcome) = {}
  BY Zenon, <1>3
<1>7. metrics \in [allowed: Nat, denied: Nat, redisErrors: Nat, durations: Nat]
  BY <1>1
<1>8. Cardinality({}) = 0
  BY FS_EmptySet
<1>9. metrics.allowed = 0 /\ metrics.denied = 0 /\ metrics.redisErrors = 0 /\ metrics.durations = 0
  BY <1>1
<1>10. metrics.allowed = Cardinality(MadeAs(TRUE, outcome)) /\ metrics.denied = Cardinality(MadeAs(FALSE, outcome))
  BY Zenon, <1>6, <1>8, <1>9
<1>11. metrics.redisErrors = Cardinality(FailedCalls(outcome))
  BY <1>4, <1>8, <1>9
<1>12. published = Cardinality(Announced(req, stage, outcome))
  BY <1>1, <1>5, <1>8
<1>13. metrics.durations = published + Cardinality(DownChecks(req, stage, outcome))
  BY <1>1, <1>5, <1>8, <1>9
<1> QED BY <1>7, <1>10, <1>11, <1>12, <1>13 DEF CountInv

-----------------------------------------------------------------------------
GatewayInv == ClientsInv /\ BusInv /\ CountInv

\* In every reachable state: what clients were answered and what the database holds fit,
\* the bus numbers its events without a gap, and the counters are the cardinalities of
\* what was told.
THEOREM Invariance == Spec => []GatewayInv
<1>1. Init => GatewayInv
  BY ClientsInit, BusInit, CountInit DEF GatewayInv
<1>2. GatewayInv /\ [Next]_vars => GatewayInv'
  BY ClientsNext, BusNext, CountNext DEF GatewayInv
<1> QED BY <1>1, <1>2, PTL DEF Spec

\* Requests, outcomes, the database, the counters and the buffer keep their types.
THEOREM TypeCorrect == Spec => []TypeOK
<1>1. GatewayInv => TypeOK
  <2> SUFFICES ASSUME GatewayInv PROVE TypeOK
    OBVIOUS
  <2> USE DEF GatewayInv
  <2>1. failOpen \in FailPolicies /\ DbOK(db, told) /\ stage = [c \in Callers |-> stage[c]]
    BY DEF ClientsInv
  <2>2. /\ db.keys \cup db.index \cup db.rules \subseteq Tenants /\ told \subseteq Tenants
        /\ db.late \subseteq [set: {"keys", "index", "rules"}, tenant: Tenants, present: BOOLEAN]
    BY <2>1 DEF DbOK, DBs, Writes
  <2>3. ASSUME NEW c \in Callers
        PROVE  /\ stage[c] \in {"idle", "received", "indexing", "answered"}
               /\ Sendable(req[c]) \/ stage[c] = "idle"
               /\ Len(outcome[c].entries) <= MaxBatch
    <3>1. ClientOK(req[c], stage[c], outcome[c], told, db.keys)
      BY DEF ClientsInv
    <3>2. Sent(req[c], told) => Sendable(req[c])
      BY DEF Sent, Sendable
    <3>3. Outcome(<<>>).entries = <<>> /\ Len(<<>>) = 0 /\ MaxBatch \in Nat /\ 1 <= MaxBatch
      BY DEF Outcome
    <3>4. ASSUME OutcomeOK(req[c].op, outcome[c]) PROVE Len(outcome[c].entries) <= MaxBatch
      <4>1. \A code : Refusal(code).entries = <<>>
        BY DEF Refusal
      <4>2. \A es : Outcome(es).entries = es
        BY DEF Outcome
      <4>3. \A d : Len(<<Decided(d)>>) = 1
        OBVIOUS
      <4>4. ASSUME NEW es, outcome[c] = Outcome(es), Len(es) <= MaxBatch
            PROVE  Len(outcome[c].entries) <= MaxBatch
        BY <4>2, <4>4
      <4>5. ASSUME NEW code, outcome[c] = Refusal(code) PROVE Len(outcome[c].entries) <= MaxBatch
        BY <3>3, <4>1, <4>5
      <4>6. ASSUME NEW d, outcome[c] = Outcome(<<Decided(d)>>) PROVE Len(outcome[c].entries) <= MaxBatch
        BY <3>3, <4>3, <4>4, <4>6
      <4>7. outcome[c] = Outcome(<<>>) => Len(outcome[c].entries) <= MaxBatch
        BY <3>3, <4>4
      <4> QED BY Zenon, <3>4, <4>4, <4>5, <4>6, <4>7 DEF OutcomeOK
    <3>5. outcome[c] = Outcome(<<>>) => Len(outcome[c].entries) <= MaxBatch
      BY <3>3
    <3>6. Len(outcome[c].entries) <= MaxBatch
      BY <3>1, <3>4, <3>5 DEF ClientOK
    <3>7. stage[c] \in {"idle", "received", "indexing", "answered"} /\ (stage[c] = "idle" \/ Sent(req[c], told))
      BY <3>1 DEF ClientOK
    <3> QED BY Zenon, <3>2, <3>6, <3>7
  <2>4. published \in Nat /\ Len(buffer) <= MaxBuffer
    BY DEF BusInv
  <2>5. metrics \in [allowed: Nat, denied: Nat, redisErrors: Nat, durations: Nat]
    BY DEF CountInv
  <2> QED BY <2>1, <2>2, <2>3, <2>4, <2>5 DEF TypeOK
<1> QED BY <1>1, Invariance, PTL

\* However the two writes of createTenant and those of the administration fail, are
\* retried by nobody or come late: a key that a client was told authenticates, the
\* administration knows its tenant, and no call with it was refused for its key.
THEOREM KeysWork == Spec => []KeysGivenWork
<1>1. GatewayInv => KeysGivenWork
  BY DEF GatewayInv, ClientsInv, DbOK, ClientOK, KeysGivenWork, AnsweredTo
<1> QED BY <1>1, Invariance, PTL

\* A stream that is open was sent, without a gap or a repetition, every event since its
\* oldest, and at least what the buffer of the bus holds.
THEOREM StreamsMissNothing == Spec => []NothingMissed
<1>1. GatewayInv => NothingMissed
  <2> SUFFICES ASSUME GatewayInv, NEW s \in Streams, streams[s].open
               PROVE  /\ \A i \in DOMAIN streams[s].sent :
                           streams[s].sent[i] = published - Len(streams[s].sent) + i
                      /\ Len(streams[s].sent) >= Min({published, MaxBuffer})
    BY DEF NothingMissed
  <2>1. /\ published \in Nat /\ Numbered(streams[s].sent, published)
        /\ Recent(published) <= Len(streams[s].sent)
    BY DEF GatewayInv, BusInv
  <2>2. Min({published, MaxBuffer}) = Recent(published) /\ Recent(published) \in Nat
    BY <2>1, RecentIsMin, RecentGrows
  <2>3. streams[s].sent \in Seq(Nat) /\ \A i \in 1..Len(streams[s].sent) :
          streams[s].sent[i] = published - Len(streams[s].sent) + i
    BY <2>1 DEF Numbered
  <2>4. DOMAIN streams[s].sent = 1..Len(streams[s].sent) /\ Len(streams[s].sent) \in Nat
    BY <2>3
  <2> QED BY <2>1, <2>2, <2>3, <2>4
<1> QED BY <1>1, Invariance, PTL

\* The Cardinality of what is told as CountersAddUp writes it.
LEMMA SetsTold ==
  ASSUME ClientsInv
  PROVE  /\ DecisionsTold(LAMBDA d : ~d.degraded /\ d.allowed) = MadeAs(TRUE, outcome)
         /\ DecisionsTold(LAMBDA d : ~d.degraded /\ ~d.allowed) = MadeAs(FALSE, outcome)
         /\ {c \in Callers : outcome[c].error = "BACKEND_UNAVAILABLE"}
              \cup {x[1] : x \in DecisionsTold(LAMBDA d : d.degraded)} = FailedCalls(outcome)
<1>1. ASSUME NEW c \in Callers, NEW i \in DOMAIN outcome[c].entries, outcome[c].entries[i].error = "none"
      PROVE  outcome[c].entries[i].decision \in Verdicts
  <2>1. ClientOK(req[c], stage[c], outcome[c], told, db.keys)
    BY DEF ClientsInv
  <2>2. outcome[c] = Outcome(<<>>) \/ OutcomeOK(req[c].op, outcome[c])
    BY <2>1 DEF ClientOK
  <2>3. \/ outcome[c].entries = <<>>
        \/ \E d \in Verdicts : outcome[c].entries = <<Decided(d)>>
        \/ \E es \in Seq(Entries) : outcome[c].entries = es
    <3>1. (\A es : Outcome(es).entries = es) /\ (\A code : Refusal(code).entries = <<>>)
      BY DEF Outcome, Refusal
    <3> QED BY Zenon, <2>2, <3>1 DEF OutcomeOK
  <2>4. \A d : Decided(d).decision = d
    BY DEF Decided
  <2>5. \A code \in Codes : Failed(code).error # "none"
    BY DEF Failed, Codes
  <2>6. CASE outcome[c].entries = <<>>
    BY <1>1, <2>6
  <2>7. ASSUME NEW d \in Verdicts, outcome[c].entries = <<Decided(d)>> PROVE outcome[c].entries[i].decision \in Verdicts
    BY <1>1, <2>4, <2>7
  <2>8. ASSUME NEW es \in Seq(Entries), outcome[c].entries = es PROVE outcome[c].entries[i].decision \in Verdicts
    <3>1. es[i] \in Entries
      BY <1>1, <2>8
    <3> QED BY <1>1, <2>4, <2>5, <2>8, <3>1 DEF Entries
  <2> QED BY <2>3, <2>6, <2>7, <2>8
<1>2. \A d \in Verdicts : d.allowed \in BOOLEAN /\ d.degraded \in BOOLEAN
  BY Zenon, DegradedFields DEF Verdicts
<1>3. DecisionsTold(LAMBDA d : ~d.degraded /\ d.allowed) = MadeAs(TRUE, outcome)
  BY <1>1, <1>2 DEF DecisionsTold, MadeAs, HitsOf
<1>4. DecisionsTold(LAMBDA d : ~d.degraded /\ ~d.allowed) = MadeAs(FALSE, outcome)
  BY <1>1, <1>2 DEF DecisionsTold, MadeAs, HitsOf
<1>5. {c \in Callers : outcome[c].error = "BACKEND_UNAVAILABLE"}
        \cup {x[1] : x \in DecisionsTold(LAMBDA d : d.degraded)} = FailedCalls(outcome)
  <2> DEFINE U == {c \in Callers : outcome[c].error = "BACKEND_UNAVAILABLE"}
             D == DecisionsTold(LAMBDA d : d.degraded)
  <2>1. ASSUME NEW c \in Callers, MetFailure(outcome[c]), outcome[c].error # "BACKEND_UNAVAILABLE"
        PROVE  \E x \in D : x[1] = c
    <3>1. PICK i \in 1..MaxBatch : /\ i \in DOMAIN outcome[c].entries
                                   /\ outcome[c].entries[i].error = "none"
                                   /\ outcome[c].entries[i].decision.degraded = TRUE
      BY <2>1 DEF MetFailure
    <3>2. <<c, i>> \in D
      BY <3>1 DEF DecisionsTold
    <3> QED BY <3>2
  <2>2. ASSUME NEW x \in D PROVE x[1] \in Callers /\ MetFailure(outcome[x[1]])
    <3>1. /\ x[1] \in Callers /\ x[2] \in 1..MaxBatch /\ x[2] \in DOMAIN outcome[x[1]].entries
          /\ outcome[x[1]].entries[x[2]].error = "none" /\ outcome[x[1]].entries[x[2]].decision.degraded
      BY DEF DecisionsTold
    <3>2. outcome[x[1]].entries[x[2]].decision.degraded = TRUE
      BY <1>1, <1>2, <3>1
    <3> QED BY <3>1, <3>2 DEF MetFailure
  <2>3. \A c \in U : MetFailure(outcome[c])
    BY DEF MetFailure
  <2> HIDE DEF D
  <2>4. U \cup {x[1] : x \in D} = FailedCalls(outcome)
    BY <2>1, <2>2, <2>3 DEF FailedCalls
  <2> QED BY <2>4 DEF D
<1> QED BY <1>3, <1>4, <1>5

\* What /metrics says adds up to what clients were told, on either transport,
\* in a batch or not, and whatever Redis does.
THEOREM CountersTrue == Spec => []CountersAddUp
<1>1. GatewayInv => CountersAddUp
  <2> SUFFICES ASSUME GatewayInv PROVE CountersAddUp
    OBVIOUS
  <2>1. ClientsInv /\ CountInv
    BY DEF GatewayInv
  <2>2. {c \in AnsweredTo("check") : outcome[c].error = "none"} = Announced(req, stage, outcome)
    BY DEF AnsweredTo, Announced, ChecksAnswered
  <2>3. {c \in Callers : outcome[c].error = "BACKEND_UNAVAILABLE"} \cap AnsweredTo("check")
          = DownChecks(req, stage, outcome)
    BY DEF AnsweredTo, DownChecks, ChecksAnswered
  <2> QED BY Zenon, <2>1, <2>2, <2>3, SetsTold DEF CountersAddUp, CountInv
<1> QED BY <1>1, Invariance, PTL

\* Rounding up to whole seconds never makes a REST client come back before the moment that
\* the script, and the gRPC answer, name.
THEOREM WaitsCovered == Spec => []HeadersCoverTheWait
<1>1. GatewayInv => HeadersCoverTheWait
  <2> SUFFICES ASSUME GatewayInv, NEW c \in AnsweredTo("check"), outcome[c].error = "none"
               PROVE  LET d == outcome[c].entries[1].decision
                          rest == RestAnswer("check", outcome[c])
                          grpc == GrpcAnswer("check", outcome[c]) IN
                        /\ rest.headers.RetryAfter * 1000 >= grpc.retry_after_ms
                        /\ rest.headers.Reset * 1000 >= grpc.reset_ms
                        /\ ~d.allowed => grpc.retry_after_ms = d.retryAfterMs
    BY DEF HeadersCoverTheWait
  <2>1. ClientOK(req[c], "answered", outcome[c], told, db.keys) /\ req[c].op = "check"
    BY DEF GatewayInv, ClientsInv, AnsweredTo
  <2>2. PICK d \in Verdicts : outcome[c] = Outcome(<<Decided(d)>>)
    <3>1. \A code \in Codes : Refusal(code).error # "none"
      BY DEF Refusal, Codes
    <3> QED BY <2>1, <3>1 DEF ClientOK, OutcomeOK, IsAdmin
  <2>3. RestAnswer("check", outcome[c]) = RestCheck(d) /\ GrpcAnswer("check", outcome[c]) = GrpcCheck(d)
    BY <2>2, CheckAnswers
  <2>4. outcome[c].entries[1].decision = d
    BY <2>2 DEF Outcome, Decided
  <2>5. d.allowed \in BOOLEAN /\ d.retryAfterMs \in Nat /\ d.resetMs \in Nat
    BY VerdictTyped
  <2>6. Seconds(d.retryAfterMs) * 1000 >= d.retryAfterMs /\ Seconds(d.resetMs) * 1000 >= d.resetMs
    BY <2>5, SecondsCover
  <2>7. /\ RestCheck(d).headers.RetryAfter = IF d.allowed THEN 0 ELSE Seconds(d.retryAfterMs)
        /\ RestCheck(d).headers.Reset = Seconds(d.resetMs)
        /\ GrpcCheck(d).retry_after_ms = IF d.allowed THEN 0 ELSE d.retryAfterMs
        /\ GrpcCheck(d).reset_ms = d.resetMs
    BY DEF RestCheck, GrpcCheck
  <2> QED BY <2>3, <2>4, <2>5, <2>6, <2>7
<1> QED BY <1>1, Invariance, PTL

\* A check or batch means the same on both transports, whatever the service makes of it,
\* but that the body of a 429 says nothing remains.
THEOREM TransportsAgree == Spec => []SameVerdict
<1>1. GatewayInv => SameVerdict
  <2> SUFFICES ASSUME GatewayInv, NEW c \in AnsweredTo("check") \cup AnsweredTo("batch")
               PROVE  RestHears(c) = InRestWords(req[c].op, GrpcHears(c))
    BY DEF SameVerdict
  <2>1. ClientOK(req[c], "answered", outcome[c], told, db.keys) /\ req[c].op \in {"check", "batch"}
    BY DEF GatewayInv, ClientsInv, AnsweredTo
  <2>2. OutcomeOK(req[c].op, outcome[c])
    BY <2>1 DEF ClientOK
  <2>3. ASSUME NEW code \in Codes, outcome[c] = Refusal(code)
        PROVE  RestHears(c) = InRestWords(req[c].op, GrpcHears(c))
    <3>1. RestHears(c) = GrpcHears(c)
      BY <2>3, SameRefusal DEF RestHears, GrpcHears
    <3>2. GrpcHears(c).error # "none"
      BY <2>3, RefusalHeard DEF GrpcHears
    <3> QED BY <3>1, <3>2, SameWords
  <2>4. ASSUME NEW d \in Verdicts, outcome[c] = Outcome(<<Decided(d)>>), req[c].op = "check"
        PROVE  RestHears(c) = InRestWords(req[c].op, GrpcHears(c))
    BY <2>4, SameCheck, CheckAnswers DEF RestHears, GrpcHears
  <2>5. ASSUME NEW es \in Seq(Entries), outcome[c] = Outcome(es), req[c].op = "batch"
        PROVE  RestHears(c) = InRestWords(req[c].op, GrpcHears(c))
    <3>1. RestHears(c) = GrpcHears(c)
      BY <2>5, SameBatch DEF RestHears, GrpcHears
    <3> QED BY <2>5, <3>1, SameWords
  <2> QED BY <2>1, <2>2, <2>3, <2>4, <2>5 DEF OutcomeOK, IsAdmin
<1> QED BY <1>1, Invariance, PTL
=============================================================================
