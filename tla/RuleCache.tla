------------------------------ MODULE RuleCache ------------------------------
(***************************************************************************)
(* The rule caches of several instances and the administration of one      *)
(* rule: RuleCache, AdminService.putRule and deleteRule, and the Redis     *)
(* commands of TenantStore they use.                                       *)
(*                                                                         *)
(* Each instance has one connection: a queue of commands that Redis        *)
(* executes, and answers, in order.  A rule is known by its version, the   *)
(* number of edits Redis had applied when it was written.                  *)
(***************************************************************************)
EXTENDS Integers, Sequences, FiniteSets

CONSTANTS
  Instances,
  TTL,             \* RULE_CACHE_TTL_MS
  CommandTimeout,  \* REDIS_COMMAND_TIMEOUT_MS
  MaxTime,         \* bound on the clock
  MaxEvents,       \* bound on the edits begun and the drops, together
  MaxPending       \* bound on the commands of one connection when a call begins

ASSUME RuleCacheAssumption ==
  /\ TTL \in Nat \ {0} /\ CommandTimeout \in Nat \ {0}
  /\ {MaxTime, MaxEvents, MaxPending} \subseteq Nat

VARIABLES
  now,    \* Date.now()
  redis,  \* what Redis holds: is the tenant there, the rule's version, is there a rule
  cache,  \* cache[i]: the entry of i's map; one that expired at 0 was never there
  queue,  \* queue[i]: commands i has written and not seen answered
  log,    \* history: log[v] is when edit v was applied, for whom, and if it left a rule
  told,   \* history: told[i] is the last edit whose call returned on i
  drops   \* history: drops so far

vars == <<now, redis, cache, queue, log, told, drops>>

NoEntry == [version |-> 0, expiresAt |-> 0]

Init ==
  /\ now = 1
  /\ redis \in [tenant: BOOLEAN, version: {0}, present: BOOLEAN]
  /\ redis.present => redis.tenant
  /\ cache = [i \in Instances |-> NoEntry]
  /\ queue = [i \in Instances |-> <<>>]
  /\ log = <<>>
  /\ told = [i \in Instances |-> 0]
  /\ drops = 0

-----------------------------------------------------------------------------
ExpiredLate(entry, t) == entry.expiresAt < t

Expired(entry, t) == entry.expiresAt <= t

Hit(i) == ~Expired(cache[i], now)

Nothing == -1

\* A command of a call, which waits for it until the deadline, 0 once it has given
\* up.  The reply is there for who still waits: Nothing, or the rule's version.
Command(call, cmd) ==
  [call |-> call, cmd |-> cmd, deadline |-> now + CommandTimeout,
   executed |-> FALSE, reply |-> Nothing]

Live(c) == c.deadline > 0

Begin(i, call, cmd) ==
  /\ Len(queue[i]) < MaxPending
  /\ queue' = [queue EXCEPT ![i] = Append(@, Command(call, cmd))]
  /\ UNCHANGED <<now, redis, cache, log, told, drops>>

\* get: a hit does no command and changes nothing.
Get(i) == ~Hit(i) /\ Begin(i, "get", "hget")

EditsBegun ==
  Cardinality({p \in Instances \X (1..MaxPending) :
                 p[2] \in DOMAIN queue[p[1]] /\ queue[p[1]][p[2]].call # "get"})

Events == Len(log) + EditsBegun + drops

\* putRule and deleteRule, up to their first await.
Administer(i) ==
  /\ Events < MaxEvents
  /\ \E call \in {"put", "delete"} : Begin(i, call, "sismember")

-----------------------------------------------------------------------------
CacheNulls(i, c, q) ==
  /\ queue' = [queue EXCEPT ![i] = q]
  /\ cache' = [cache EXCEPT ![i] = [version |-> c.reply, expiresAt |-> now + TTL]]
  /\ UNCHANGED told

\* get, once its HGET is answered: only a rule that exists is cached.
GetResumes(i, c, q) ==
  /\ queue' = [queue EXCEPT ![i] = q]
  /\ cache' = IF c.reply # Nothing
              THEN [cache EXCEPT ![i] = [version |-> c.reply, expiresAt |-> now + TTL]]
              ELSE cache
  /\ UNCHANGED told

\* An unknown tenant ends the call, and a body that parseRule rejects does.
Rejected(i, c, q) ==
  /\ c.reply = Nothing \/ c.call = "put"
  /\ queue' = [queue EXCEPT ![i] = q]
  /\ UNCHANGED <<cache, told>>

Write(i, c, q) ==
  /\ c.reply # Nothing
  /\ queue' = [queue EXCEPT ![i] =
                 Append(q, Command(c.call, IF c.call = "put" THEN "hset" ELSE "hdel"))]

InvalidateFirst(i, c, q) ==
  \/ c.cmd = "sismember" /\ Rejected(i, c, q)
  \/ /\ c.cmd = "sismember"
     /\ Write(i, c, q)
     /\ cache' = [cache EXCEPT ![i] = NoEntry]
     /\ UNCHANGED told
  \/ /\ c.cmd \in {"hset", "hdel"}
     /\ queue' = [queue EXCEPT ![i] = q]
     /\ told' = [told EXCEPT ![i] = c.reply]
     /\ UNCHANGED cache

\* putRule and deleteRule: the answered write is followed by the invalidation of
\* this instance's cache.
AdminResumes(i, c, q) ==
  \/ c.cmd = "sismember" /\ Rejected(i, c, q)
  \/ c.cmd = "sismember" /\ Write(i, c, q) /\ UNCHANGED <<cache, told>>
  \/ /\ c.cmd \in {"hset", "hdel"}
     /\ queue' = [queue EXCEPT ![i] = q]
     /\ cache' = [cache EXCEPT ![i] = NoEntry]
     /\ told' = [told EXCEPT ![i] = c.reply]

\* The oldest reply arrives; one whose promise was rejected meets nobody.
Deliver(i) ==
  /\ queue[i] # <<>> /\ Head(queue[i]).executed
  /\ LET c == Head(queue[i])  q == Tail(queue[i]) IN
       \/ Live(c) /\ c.call = "get" /\ GetResumes(i, c, q)
       \/ Live(c) /\ c.call # "get" /\ AdminResumes(i, c, q)
       \/ /\ ~Live(c)
          /\ queue' = [queue EXCEPT ![i] = q]
          /\ UNCHANGED <<cache, told>>
  /\ UNCHANGED <<now, redis, log, drops>>

-----------------------------------------------------------------------------
\* HSET always writes; HDEL when there is something to delete.
Edits(cmd) == cmd = "hset" \/ (cmd = "hdel" /\ redis.present)

\* Redis executes the next command of a connection.
Execute(i) ==
  \E k \in DOMAIN queue[i] :
    LET c == queue[i][k]
        edit == Edits(c.cmd)
        version == IF edit THEN redis.version + 1 ELSE redis.version
        reply == CASE c.cmd = "sismember" -> IF redis.tenant THEN 0 ELSE Nothing
                   [] c.cmd = "hget" -> IF redis.present THEN version ELSE Nothing
                   [] OTHER -> version
    IN
      /\ ~c.executed
      /\ \A j \in 1..(k - 1) : queue[i][j].executed
      /\ queue' = [queue EXCEPT ![i][k] =
                    [c EXCEPT !.executed = TRUE, !.reply = IF Live(c) THEN reply ELSE Nothing]]
      /\ redis' = IF edit THEN [redis EXCEPT !.version = version, !.present = c.cmd = "hset"]
                  ELSE redis
      /\ log' = IF edit THEN Append(log, [at |-> now, by |-> i, present |-> c.cmd = "hset"]) ELSE log
      /\ UNCHANGED <<now, cache, told, drops>>

\* commandTimeout: the awaiting call throws, the command goes its way.  A get
\* caches nothing then, a put or delete does not invalidate.
Timeout(i) ==
  /\ \E k \in DOMAIN queue[i] :
       /\ Live(queue[i][k]) /\ queue[i][k].deadline <= now
       /\ queue' = [queue EXCEPT ![i][k].deadline = 0, ![i][k].reply = Nothing]
  /\ UNCHANGED <<now, redis, cache, log, told, drops>>

\* The connection drops and comes back at once: what was unanswered is sent again.
Resend(i) ==
  /\ Events < MaxEvents /\ queue[i] # <<>>
  /\ drops' = drops + 1
  /\ queue' = [queue EXCEPT ![i] = [k \in DOMAIN @ |-> [@[k] EXCEPT !.executed = FALSE, !.reply = Nothing]]]
  /\ UNCHANGED <<now, redis, cache, log, told>>

\* It drops and the next attempt fails: every unanswered command is rejected.
Reject(i) ==
  /\ Events < MaxEvents /\ queue[i] # <<>>
  /\ drops' = drops + 1
  /\ queue' = [queue EXCEPT ![i] = <<>>]
  /\ UNCHANGED <<now, redis, cache, log, told>>

\* Time passes, but no timer is left unfired.  The map keeps an expired entry until
\* it is overwritten; nobody reads it, so it is as good as none.
Tick ==
  /\ now < MaxTime
  /\ \A i \in Instances : \A k \in DOMAIN queue[i] :
       Live(queue[i][k]) => now < queue[i][k].deadline
  /\ now' = now + 1
  /\ cache' = [i \in Instances |-> IF Expired(cache[i], now + 1) THEN NoEntry ELSE cache[i]]
  /\ UNCHANGED <<redis, queue, log, told, drops>>

Next ==
  \/ \E i \in Instances : \/ Get(i) \/ Administer(i)
                          \/ Deliver(i) \/ Execute(i) \/ Timeout(i)
                          \/ Resend(i) \/ Reject(i)
  \/ Tick

Spec == Init /\ [][Next]_vars

-----------------------------------------------------------------------------
Queued == [call: {"get", "put", "delete"},
           cmd: {"hget", "sismember", "hset", "hdel"},
           deadline: Nat, executed: BOOLEAN, reply: Int]

\* Every variable has its type; a cached rule is a rule, never its absence, so
\* that a rule just created is found at once.
TypeOK ==
  /\ now \in Nat /\ drops \in Nat
  /\ redis \in [tenant: BOOLEAN, version: Nat, present: BOOLEAN]
  /\ redis.version = Len(log)
  /\ log \in Seq([at: Nat, by: Instances, present: BOOLEAN])
  /\ cache \in [Instances -> [version: 0..Len(log), expiresAt: Nat]]
  /\ \A i \in Instances : cache[i].version > 0 => log[cache[i].version].present
  /\ queue \in [Instances -> Seq(Queued)]
  /\ told \in [Instances -> 0..Len(log)]

\* "Across instances the TTL is the propagation bound", and the time an HGET may
\* take comes on top of it: a rule is used no longer than TTL and CommandTimeout
\* after the edit that replaced or deleted it, on whichever instance.
StaleBound ==
  \A i \in Instances :
    Hit(i) /\ cache[i].version < Len(log) =>
      now < log[cache[i].version + 1].at + CommandTimeout + TTL

\* "This instance sees the change at once": once putRule or deleteRule returned,
\* its instance never uses an older rule again, whatever lookups were under way
\* and however the edits of other instances interleave.
EditReturnedIsSeen == \A i \in Instances : Hit(i) => cache[i].version >= told[i]

\* "On the instance that made the edit we invalidate immediately": an instance
\* whose edit Redis has applied uses an older rule only while that call is under
\* way.
EditMadeIsSeen ==
  \A i \in Instances :
    Hit(i) /\ (\E v \in DOMAIN log : log[v].by = i /\ cache[i].version < v) =>
      \E k \in DOMAIN queue[i] : Live(queue[i][k]) /\ queue[i][k].cmd \in {"hset", "hdel"}
=============================================================================
