----------------------------- MODULE Transports -----------------------------
(***************************************************************************)
(* How REST (routes.ts, headers.ts, the error handler of server.ts) and    *)
(* gRPC (handlers.ts) translate requests for the service and its outcomes  *)
(* for the client.                                                         *)
(*                                                                         *)
(* An item is what one check names.  A rule or identifier is "" when it is *)
(* absent or empty.  A cost is a number, Absent, or Malformed: a string, a *)
(* fraction, a negative number.  A gRPC client cannot send a malformed     *)
(* cost, and its absent cost arrives as 0.                                 *)
(***************************************************************************)
EXTENDS Integers, Sequences

Absent == -1
Malformed == -2

\* A decision.  Of a degraded one (its resetMs is the host's clock) the service
\* knows only that it is allowed.
NoDecision == [allowed |-> FALSE, remaining |-> 0, limit |-> 0, retryAfterMs |-> 0,
               resetMs |-> 0, degraded |-> FALSE]
Degraded == [NoDecision EXCEPT !.allowed = TRUE, !.degraded = TRUE]

\* An entry is a decision or the error of one item; an outcome of the service is
\* an error, or an entry for each item (none for the administration).
Decided(d) == [error |-> "none", decision |-> d]
Failed(code) == [error |-> code, decision |-> NoDecision]
Refusal(code) == [error |-> code, entries |-> <<>>]
Outcome(entries) == [error |-> "none", entries |-> entries]

StatusOfARefusal ==
  [UNKNOWN_API_KEY |-> 401, ADMIN_FORBIDDEN |-> 403, UNKNOWN_TENANT |-> 404,
   UNKNOWN_RULE |-> 400, INVALID_REQUEST |-> 400, BACKEND_UNAVAILABLE |-> 503,
   INTERNAL |-> 500]

HttpStatus ==
  [UNKNOWN_API_KEY |-> 401, ADMIN_FORBIDDEN |-> 403, UNKNOWN_TENANT |-> 404,
   UNKNOWN_RULE |-> 404, INVALID_REQUEST |-> 400, BACKEND_UNAVAILABLE |-> 503,
   INTERNAL |-> 500]

GrpcCode ==
  [UNKNOWN_API_KEY |-> "UNAUTHENTICATED", ADMIN_FORBIDDEN |-> "PERMISSION_DENIED",
   UNKNOWN_TENANT |-> "NOT_FOUND", UNKNOWN_RULE |-> "NOT_FOUND",
   INVALID_REQUEST |-> "INVALID_ARGUMENT", BACKEND_UNAVAILABLE |-> "UNAVAILABLE",
   INTERNAL |-> "INTERNAL"]

-----------------------------------------------------------------------------
\* str and parseCost refuse an item before the service sees it.
RestRefuses(item) ==
  item.rule = "" \/ item.identifier = "" \/ item.cost \in {0, Malformed}

\* costOf: 0 stands for "not given".
GrpcItem(item) == [item EXCEPT !.cost = IF @ = 0 THEN Absent ELSE @]

SecondsDown(ms) == ms \div 1000

\* Math.ceil(ms / 1000)
Seconds(ms) == (ms + 999) \div 1000

\* checkBody with the status and the headers of applyRateLimitHeaders.
RestCheck(d) ==
  [status    |-> IF d.allowed THEN 200 ELSE 429,
   allowed   |-> d.allowed,
   remaining |-> IF d.allowed THEN d.remaining ELSE 0,
   retryAfterMs |-> IF d.allowed THEN 0 ELSE d.retryAfterMs,
   headers   |-> [Limit |-> d.limit, Remaining |-> d.remaining, Reset |-> Seconds(d.resetMs),
                  RetryAfter |-> IF d.allowed THEN 0 ELSE Seconds(d.retryAfterMs)]]

\* toResponse.
GrpcCheck(d) ==
  [status |-> "OK", allowed |-> d.allowed, remaining |-> d.remaining, limit |-> d.limit,
   retry_after_ms |-> IF d.allowed THEN 0 ELSE d.retryAfterMs, reset_ms |-> d.resetMs]

\* formatBatchEntry and toBatchEntry.  Neither passes on the degraded mark, and
\* only the second clears the wait of an allow.
RestEntry(e) ==
  LET d == e.decision IN
    IF e.error # "none" THEN [error |-> e.error]
    ELSE [error |-> "none", allowed |-> d.allowed, remaining |-> d.remaining,
          limit |-> d.limit, resetMs |-> d.resetMs, retryAfterMs |-> d.retryAfterMs]

GrpcEntry(e) ==
  IF e.error # "none" THEN [error |-> e.error]
  ELSE [error |-> "none", decision |-> GrpcCheck(e.decision)]

\* The answer to an operation: of a route with the error handler, of a handler
\* with toGrpcError.
RestAnswer(op, o) ==
  CASE o.error # "none" -> [status |-> HttpStatus[o.error], code |-> o.error]
    [] o.error = "none" /\ op = "check" -> RestCheck(o.entries[1].decision)
    [] o.error = "none" /\ op = "batch" ->
         [status |-> 200, results |-> [i \in DOMAIN o.entries |-> RestEntry(o.entries[i])]]
    [] o.error = "none" /\ op = "createTenant" -> [status |-> 201]
    [] o.error = "none" /\ op = "deleteRule" -> [status |-> 204]
    [] OTHER -> [status |-> 200]

GrpcAnswer(op, o) ==
  CASE o.error # "none" -> [status |-> GrpcCode[o.error]]
    [] o.error = "none" /\ op = "check" -> GrpcCheck(o.entries[1].decision)
    [] OTHER -> [status |-> "OK",
                 results |-> [i \in DOMAIN o.entries |-> GrpcEntry(o.entries[i])]]

-----------------------------------------------------------------------------
(***************************************************************************)
(* What a client makes of the answer to a check or batch: the kind of its  *)
(* error, by the gRPC name, or for each item the verdict and what the body *)
(* or message says with it.                                                *)
(***************************************************************************)
Verdict(error, items) == [error |-> error, items |-> items]
Item(error, allowed, remaining, wait) ==
  [error |-> error, allowed |-> allowed, remaining |-> remaining, wait |-> wait]

KindOf(status) ==
  CASE status = 401 -> "UNAUTHENTICATED"
    [] status = 403 -> "PERMISSION_DENIED"
    [] status = 404 -> "NOT_FOUND"
    [] status = 400 -> "INVALID_ARGUMENT"
    [] status = 503 -> "UNAVAILABLE"
    [] OTHER        -> "INTERNAL"

RestVerdict(op, answer) ==
  CASE answer.status \notin {200, 429} -> Verdict(KindOf(answer.status), <<>>)
    [] answer.status \in {200, 429} /\ op = "check" ->
         Verdict("none", <<Item("none", answer.status = 200, answer.remaining, answer.retryAfterMs)>>)
    [] OTHER ->
         Verdict("none", [i \in DOMAIN answer.results |->
           LET e == answer.results[i] IN
             IF e.error # "none" THEN Item(e.error, FALSE, 0, 0)
             ELSE Item("none", e.allowed, e.remaining, e.retryAfterMs)])

GrpcVerdict(op, answer) ==
  CASE answer.status # "OK" -> Verdict(answer.status, <<>>)
    [] answer.status = "OK" /\ op = "check" ->
         Verdict("none", <<Item("none", answer.allowed, answer.remaining, answer.retry_after_ms)>>)
    [] OTHER ->
         Verdict("none", [i \in DOMAIN answer.results |->
           LET e == answer.results[i] IN
             IF e.error # "none" THEN Item(e.error, FALSE, 0, 0)
             ELSE Item("none", e.decision.allowed, e.decision.remaining,
                       e.decision.retry_after_ms)])

\* A verdict in the words of REST: the body of a 429 says remaining 0, whatever is left.
InRestWords(op, verdict) ==
  IF op = "check" /\ verdict.error = "none" /\ ~verdict.items[1].allowed
  THEN [verdict EXCEPT !.items = <<[@[1] EXCEPT !.remaining = 0]>>]
  ELSE verdict
=============================================================================
