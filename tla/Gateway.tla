------------------------------- MODULE Gateway -------------------------------
(***************************************************************************)
(* One process between its clients and Redis: requests of both transports  *)
(* (Transports), the answers of RateLimitService and AdminService, tenants *)
(* and rules in Redis (TenantStore), Metrics, and CheckEventBus with the   *)
(* dashboard streams.                                                      *)
(*                                                                         *)
(* What a check does between its awaits is CheckPath's and Batch's         *)
(* subject.  Here a check or batch is served in one step, with any outcome *)
(* those modules allow.  Creating a tenant keeps its two awaits: nothing   *)
(* else in the service writes twice.                                       *)
(***************************************************************************)
EXTENDS Transports, FiniteSets, FiniteSetsExt

CONSTANTS
  Callers,     \* each makes one request
  Streams,     \* each follows the events once
  Tenants, Demo,  \* possible tenants, and the one that is there from the start
  NoKey, AdminKey,  \* no API key; ADMIN_API_KEY, which is no tenant's
  Items,       \* what one check may name
  Decisions,   \* what the scripts may decide
  MaxBatch,    \* MAX_BATCH
  MaxItems,    \* bound on the items of a batch that is sent
  Ceiling,     \* ruleLimit of every rule
  MaxBuffer,   \* CheckEventBus.maxBuffer
  FailPolicies \* the FAIL_OPEN settings to consider

ASSUME GatewayAssumption ==
  /\ Demo \in Tenants /\ Tenants \cap {NoKey, AdminKey} = {}
  /\ Ceiling \in Nat \ {0} /\ MaxBuffer \in Nat \ {0} /\ FailPolicies \subseteq BOOLEAN
  /\ MaxBatch \in Nat \ {0} /\ MaxItems \in Nat
  /\ IsFiniteSet(Callers)

\* What the scripts return: a decision they made, with no wait if it is an allow.
ASSUME DecisionsAssumption ==
  \A d \in Decisions :
    /\ d.allowed \in BOOLEAN /\ d.degraded = FALSE
    /\ d.retryAfterMs \in Nat /\ d.resetMs \in Nat
    /\ d.allowed => d.retryAfterMs = 0

VARIABLES
  failOpen,   \* the FAIL_OPEN setting of this process
  db,         \* Redis: API keys (by tenant), tenant index, tenants with a rule "r",
              \* and writes that were given up and may still be applied
  req,        \* req[c]: what c asked
  stage,      \* stage[c]: "idle", "received", "indexing", "answered"
  outcome,    \* outcome[c]: what the service made of it, see Transports
  told,       \* the tenants whose key a client was given
  metrics,    \* throttle_checks_total by outcome, redis_errors_total, duration_count
  published,  \* number of events published; an event is known by its number
  buffer,     \* CheckEventBus.buffer
  streams     \* streams[s]: open or not, and the events sent to it

vars == <<failOpen, db, req, stage, outcome, told, metrics, published, buffer, streams>>

NoRequest == [via |-> "rest", op |-> "none", key |-> NoKey, items |-> <<>>, tenant |-> Demo]

Init ==
  /\ failOpen \in FailPolicies
  /\ db = [keys |-> {Demo}, index |-> {Demo}, rules |-> {Demo}, late |-> {}]
  /\ req = [c \in Callers |-> NoRequest]
  /\ stage = [c \in Callers |-> "idle"]
  /\ outcome = [c \in Callers |-> Outcome(<<>>)]
  /\ told = {Demo}
  /\ metrics = [allowed |-> 0, denied |-> 0, redisErrors |-> 0, durations |-> 0]
  /\ published = 0
  /\ buffer = <<>>
  /\ streams = [s \in Streams |-> [open |-> FALSE, sent |-> <<>>]]

-----------------------------------------------------------------------------
\* CheckEventBus: publish, and what the send of every stream that listens makes of
\* it.
KeepAll(b) == Append(b, published + 1)

KeepOldest(b) == IF Len(b) < MaxBuffer THEN Append(b, published + 1) ELSE b

Buffered(b) ==
  IF Len(b) < MaxBuffer THEN Append(b, published + 1) ELSE Append(Tail(b), published + 1)

Publish ==
  /\ published' = published + 1
  /\ buffer' = Buffered(buffer)
  /\ streams' = [s \in Streams |->
                  IF streams[s].open THEN [streams[s] EXCEPT !.sent = Append(@, published + 1)]
                  ELSE streams[s]]

\* GET /v1/events: the buffered events, then the live ones.
Open(s) ==
  /\ ~streams[s].open /\ streams[s].sent = <<>>
  /\ streams' = [streams EXCEPT ![s] = [open |-> TRUE, sent |-> buffer]]
  /\ UNCHANGED <<failOpen, db, req, stage, outcome, told, metrics, published, buffer>>

Close(s) ==
  /\ streams[s].open
  /\ streams' = [streams EXCEPT ![s].open = FALSE]
  /\ UNCHANGED <<failOpen, db, req, stage, outcome, told, metrics, published, buffer>>

-----------------------------------------------------------------------------
Answer(c, o) ==
  /\ stage' = [stage EXCEPT ![c] = "answered"]
  /\ outcome' = [outcome EXCEPT ![c] = o]

IsAdmin(op) == op \in {"createTenant", "putRule", "deleteRule", "listRules"}

\* What a transport answers before it calls the service: requireAdmin, and the
\* validation of the REST routes, which is all or nothing for a batch.
RefusedAtOnce(r) ==
  CASE IsAdmin(r.op) /\ r.key # AdminKey -> "ADMIN_FORBIDDEN"
    [] ~IsAdmin(r.op) /\ r.via = "rest" /\ \E i \in DOMAIN r.items : RestRefuses(r.items[i])
         -> "INVALID_REQUEST"
    [] OTHER -> "none"

Sendable(r) ==
  /\ r.op = "check" => Len(r.items) = 1
  /\ IsAdmin(r.op) => r.via = "rest" /\ r.items = <<>>
  /\ r.via = "grpc" => \A i \in DOMAIN r.items : r.items[i].cost \notin {Absent, Malformed}
  /\ r.key \in Tenants => r.key \in told

\* randomUUID and randomBytes name a tenant nobody had before.
Unheard(t) == t # Demo /\ \A d \in Callers : req[d].op = "createTenant" => req[d].tenant # t

\* The items the service is called with.
Parsed(r) ==
  IF r.via = "rest" THEN r
  ELSE [r EXCEPT !.items = [i \in DOMAIN r.items |-> GrpcItem(r.items[i])]]

Receive(c) ==
  /\ stage[c] = "idle"
  /\ \E via \in {"rest", "grpc"}, key \in Tenants \cup {NoKey, AdminKey},
        op \in {"check", "batch", "createTenant", "putRule", "deleteRule", "listRules"},
        items \in UNION {[1..n -> Items] : n \in 0..MaxItems}, t \in Tenants :
       LET r == [via |-> via, op |-> op, key |-> key, items |-> items, tenant |-> t] IN
         /\ Sendable(r)
         /\ op \in {"check", "batch"} => t = Demo
         /\ op = "createTenant" => Unheard(t)
         /\ req' = [req EXCEPT ![c] = r]
         /\ IF RefusedAtOnce(r) = "none"
            THEN /\ stage' = [stage EXCEPT ![c] = "received"]
                 /\ UNCHANGED outcome
            ELSE Answer(c, Refusal(RefusedAtOnce(r)))
  /\ UNCHANGED <<failOpen, db, told, metrics, published, buffer, streams>>

-----------------------------------------------------------------------------
Authenticates(key) == key \in db.keys

\* The client error RateLimitService.resolve finds for an item of tenant t.
ItemError(t, item) ==
  CASE item.identifier = "" -> "INVALID_REQUEST"
    [] item.identifier # "" /\ (item.rule # "r" \/ t \notin db.rules) -> "UNKNOWN_RULE"
    [] OTHER -> IF item.cost > Ceiling THEN "INVALID_REQUEST" ELSE "none"

\* Metrics.incCheck for every decision, incRedisError, observeDuration.
CountedWithErrors(m, es) ==
  [m EXCEPT !.allowed = @ + Cardinality({i \in DOMAIN es : es[i].decision.allowed}),
            !.denied = @ + Cardinality({i \in DOMAIN es : ~es[i].decision.allowed})]

Counted(m, es) ==
  LET With(allowed) == {i \in DOMAIN es : es[i].error = "none" /\ es[i].decision.allowed = allowed}
  IN [m EXCEPT !.allowed = @ + Cardinality(With(TRUE)), !.denied = @ + Cardinality(With(FALSE))]

ErrorCounted(m) == [m EXCEPT !.redisErrors = @ + 1]

Timed(m) == [m EXCEPT !.durations = @ + 1]

\* RateLimitService.check, decided or refused by what Redis answers.
CheckEnds(c, r) ==
  LET item == r.items[1]
      e == IF ~Authenticates(r.key) THEN "UNKNOWN_API_KEY" ELSE ItemError(r.key, item) IN
    \/ /\ e # "none"
       /\ Answer(c, Refusal(e))
       /\ UNCHANGED <<metrics, published, buffer, streams>>
    \/ /\ e = "none"
       /\ \E d \in Decisions :
            /\ Answer(c, Outcome(<<Decided(d)>>))
            /\ metrics' = Timed(Counted(metrics, <<Decided(d)>>))
       /\ Publish

\* RateLimitService.checkBatch, the same for every item; no event, no duration.
BatchEnds(c, r) ==
  LET n == Len(r.items) IN
    \/ /\ n \notin 1..MaxBatch \/ ~Authenticates(r.key)
       /\ Answer(c, Refusal(IF n \notin 1..MaxBatch THEN "INVALID_REQUEST" ELSE "UNKNOWN_API_KEY"))
       /\ UNCHANGED metrics
    \/ /\ n \in 1..MaxBatch /\ Authenticates(r.key)
       /\ \E ds \in [1..n -> Decisions] :
            LET es == [i \in 1..n |-> IF ItemError(r.key, r.items[i]) # "none"
                                      THEN Failed(ItemError(r.key, r.items[i]))
                                      ELSE Decided(ds[i])]
            IN /\ Answer(c, Outcome(es))
               /\ metrics' = Counted(metrics, es)

\* The catch of check, onBackendError, and the catch of checkBatch, which has
\* neither an event nor a duration.
BackendFails(c, r) ==
  /\ Answer(c, IF failOpen THEN Outcome([i \in DOMAIN r.items |-> Decided(Degraded)])
               ELSE Refusal("BACKEND_UNAVAILABLE"))
  /\ metrics' = IF r.op = "check" THEN Timed(ErrorCounted(metrics)) ELSE ErrorCounted(metrics)
  /\ IF failOpen /\ r.op = "check" THEN Publish ELSE UNCHANGED <<published, buffer, streams>>

Serve(c) ==
  LET r == Parsed(req[c]) IN
    /\ stage[c] = "received"
    /\ \/ r.op = "check" /\ CheckEnds(c, r)
       \/ r.op = "batch" /\ BatchEnds(c, r) /\ UNCHANGED <<published, buffer, streams>>
       \/ /\ ~IsAdmin(r.op) /\ Len(r.items) \in 1..MaxBatch /\ r.key # NoKey
          /\ BackendFails(c, r)
    /\ UNCHANGED <<failOpen, db, req, told>>

-----------------------------------------------------------------------------
\* A write puts tenant t into one of the sets of db, or takes it out.  It is
\* awaited: applied and answered, or given up, and then lost or applied later.
Applied(d, w) == [d EXCEPT ![w.set] = IF w.present THEN @ \cup {w.tenant} ELSE @ \ {w.tenant}]

Write(set, t) == [set |-> set, tenant |-> t, present |-> TRUE]
Removal(set, t) == [set |-> set, tenant |-> t, present |-> FALSE]

GivenUp(c, w) ==
  /\ db' = db \/ db' = [db EXCEPT !.late = @ \cup {w}]
  /\ Answer(c, Refusal("INTERNAL"))

\* AdminService.putRule, deleteRule and listRules; RuleCache has their awaits.
Administer(c) ==
  LET t == req[c].tenant
      op == req[c].op
      Refused(code) == Answer(c, Refusal(code)) /\ UNCHANGED db
      Writes(w) == \/ db' = Applied(db, w) /\ Answer(c, Outcome(<<>>))
                   \/ GivenUp(c, w)
  IN
    /\ stage[c] = "received" /\ op \in {"putRule", "deleteRule", "listRules"}
    /\ \/ t \notin db.index /\ Refused("UNKNOWN_TENANT")
       \/ t \in db.index /\ op = "putRule" /\ (Writes(Write("rules", t)) \/ Refused("INVALID_REQUEST"))
       \/ t \in db.index /\ op = "deleteRule" /\
            IF t \in db.rules THEN Writes(Removal("rules", t)) ELSE Refused("UNKNOWN_RULE")
       \/ t \in db.index /\ op = "listRules" /\ Answer(c, Outcome(<<>>)) /\ UNCHANGED db
       \/ Refused("INTERNAL")
    /\ UNCHANGED <<failOpen, req, told, metrics, published, buffer, streams>>

IndexFirst(c) ==
  LET t == req[c].tenant IN
    /\ req[c].op = "createTenant" /\ stage[c] = "received"
    /\ \/ /\ db' = Applied(db, Write("index", t))
          /\ stage' = [stage EXCEPT ![c] = "indexing"] /\ UNCHANGED outcome
       \/ GivenUp(c, Write("index", t))
    /\ UNCHANGED <<failOpen, req, told, metrics, published, buffer, streams>>

\* createTenant: SET of the key ...
SetKey(c) ==
  LET t == req[c].tenant IN
    /\ req[c].op = "createTenant" /\ stage[c] = "received"
    /\ \/ /\ db' = Applied(db, Write("keys", t))
          /\ stage' = [stage EXCEPT ![c] = "indexing"] /\ UNCHANGED outcome
       \/ GivenUp(c, Write("keys", t))
    /\ UNCHANGED <<failOpen, req, told, metrics, published, buffer, streams>>

ToldBeforeIndexed(c) ==
  LET t == req[c].tenant IN
    /\ stage[c] = "indexing"
    /\ db' = [db EXCEPT !.late = @ \cup {Write("index", t)}]
    /\ told' = told \cup {t} /\ Answer(c, Outcome(<<>>))
    /\ UNCHANGED <<failOpen, req, metrics, published, buffer, streams>>

\* ... then SADD to the index, and the reply that tells the key.
AddToIndex(c) ==
  LET t == req[c].tenant IN
    /\ stage[c] = "indexing"
    /\ \/ /\ db' = Applied(db, Write("index", t))
          /\ told' = told \cup {t} /\ Answer(c, Outcome(<<>>))
       \/ GivenUp(c, Write("index", t)) /\ UNCHANGED told
    /\ UNCHANGED <<failOpen, req, metrics, published, buffer, streams>>

LateWrite ==
  /\ \E w \in db.late : db' = [Applied(db, w) EXCEPT !.late = @ \ {w}]
  /\ UNCHANGED <<failOpen, req, stage, outcome, told, metrics, published, buffer, streams>>

Next ==
  \/ \E c \in Callers : \/ Receive(c) \/ Serve(c) \/ Administer(c)
                        \/ SetKey(c) \/ AddToIndex(c)
  \/ \E s \in Streams : Open(s) \/ Close(s)
  \/ LateWrite

Spec == Init /\ [][Next]_vars

-----------------------------------------------------------------------------
\* Every variable has its type.
TypeOK ==
  /\ failOpen \in FailPolicies
  /\ db.keys \cup db.index \cup db.rules \subseteq Tenants
  /\ db.late \subseteq [set: {"keys", "index", "rules"}, tenant: Tenants, present: BOOLEAN]
  /\ stage \in [Callers -> {"idle", "received", "indexing", "answered"}]
  /\ \A c \in Callers : /\ Sendable(req[c]) \/ stage[c] = "idle"
                        /\ Len(outcome[c].entries) <= MaxBatch
  /\ told \subseteq Tenants
  /\ metrics \in [allowed: Nat, denied: Nat, redisErrors: Nat, durations: Nat]
  /\ published \in Nat /\ Len(buffer) <= MaxBuffer

AnsweredTo(op) == {c \in Callers : stage[c] = "answered" /\ req[c].op = op}

\* Whatever writes fail on the way, a key a client was given is one that works:
\* it authenticates, the administration knows its tenant, and no call with it is
\* ever refused for its key.  The administration knows no tenant without a key.
KeysGivenWork ==
  /\ told \subseteq db.index /\ db.index \subseteq db.keys
  /\ \A c \in AnsweredTo("check") \cup AnsweredTo("batch") :
       req[c].key \in Tenants => outcome[c].error # "UNKNOWN_API_KEY"

\* An open stream has missed nothing since the oldest event it was sent, and was
\* sent all that the bus keeps; also when checks end while streams come and go.
NothingMissed ==
  \A s \in Streams : streams[s].open =>
    LET sent == streams[s].sent IN
      /\ \A i \in DOMAIN sent : sent[i] = published - Len(sent) + i
      /\ Len(sent) >= Min({published, MaxBuffer})

\* The decisions told to clients that satisfy P.
DecisionsTold(P(_)) ==
  {p \in Callers \X (1..MaxBatch) :
     LET entries == outcome[p[1]].entries IN
       /\ p[2] \in DOMAIN entries /\ entries[p[2]].error = "none"
       /\ P(entries[p[2]].decision)}

\* What /metrics says adds up to what clients were told: a decision of a script is
\* counted once, on either transport and in a batch or not; an error is no decision;
\* each failed call counts one Redis error, however many items it had; and a check,
\* but never a batch, has its duration, told a decision or 503.
CountersAddUp ==
  LET Made(d) == ~d.degraded
      unavailable == {c \in Callers : outcome[c].error = "BACKEND_UNAVAILABLE"}
      degraded == {x[1] : x \in DecisionsTold(LAMBDA d : d.degraded)} IN
    /\ metrics.allowed = Cardinality(DecisionsTold(LAMBDA d : Made(d) /\ d.allowed))
    /\ metrics.denied = Cardinality(DecisionsTold(LAMBDA d : Made(d) /\ ~d.allowed))
    /\ metrics.redisErrors = Cardinality(unavailable \cup degraded)
    /\ metrics.durations = Cardinality({c \in AnsweredTo("check") : outcome[c].error = "none"})
                           + Cardinality(unavailable \cap AnsweredTo("check"))

\* A REST client that waits the whole seconds of Retry-After has waited the
\* milliseconds the script named, as a gRPC client has; so with the reset.
HeadersCoverTheWait ==
  \A c \in AnsweredTo("check") : outcome[c].error = "none" =>
    LET d == outcome[c].entries[1].decision
        rest == RestAnswer("check", outcome[c])
        grpc == GrpcAnswer("check", outcome[c]) IN
      /\ rest.headers.RetryAfter * 1000 >= grpc.retry_after_ms
      /\ rest.headers.Reset * 1000 >= grpc.reset_ms
      /\ ~d.allowed => grpc.retry_after_ms = d.retryAfterMs

RestHears(c) == RestVerdict(req[c].op, RestAnswer(req[c].op, outcome[c]))
GrpcHears(c) == GrpcVerdict(req[c].op, GrpcAnswer(req[c].op, outcome[c]))

\* Whatever the service makes of a check or batch, it means the same on both
\* transports: the kind of error, and for every item the error or the decision
\* with what remains and how long to wait.  One difference is documented: the body
\* of a 429 says that nothing remains, where gRPC says what does, and there it is not
\* "exactly like the REST 429 body" (throttle.proto).
SameVerdict ==
  \A c \in AnsweredTo("check") \cup AnsweredTo("batch") :
    RestHears(c) = InRestWords(req[c].op, GrpcHears(c))

\* throttle.proto: the gRPC service mirrors the REST contract exactly.  With
\* Redis up, what a gRPC client hears is what REST says of the same request, the
\* remainder of a denied check aside.
SameContract ==
  \A c \in AnsweredTo("check") \cup AnsweredTo("batch") :
    req[c].via = "grpc" /\ outcome[c].error # "BACKEND_UNAVAILABLE" =>
      InRestWords(req[c].op, GrpcHears(c)) =
        IF \E i \in DOMAIN req[c].items : RestRefuses(GrpcItem(req[c].items[i]))
        THEN Verdict("INVALID_ARGUMENT", <<>>)
        ELSE RestHears(c)
=============================================================================
