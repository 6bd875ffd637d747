------------------------- MODULE SlidingWindowProofs -------------------------
(***************************************************************************)
(* For every limit, window and set of costs: the sliding window script     *)
(* admits at most Limit units in every window of true time, also on a      *)
(* clock that is set back, and on a steady clock implements the eager      *)
(* window.                                                                 *)
(***************************************************************************)
EXTENDS SlidingWindow, FiniteSetTheorems, WellFoundedInduction, TLAPS

USE RuleAssumption

-----------------------------------------------------------------------------
\* A check adds as many members as its cost.
LEMMA MembersCount ==
  ASSUME NEW t, NEW c, NEW cost \in Nat
  PROVE  /\ IsFiniteSet(Members(t, c, cost))
         /\ Cardinality(Members(t, c, cost)) = cost
<1> DEFINE M == Members(t, c, cost)
           f == [j \in 1..cost |-> [score |-> t, seq |-> c, i |-> j]]
<1>1. f \in Bijection(1..cost, M)
  <2>1. f \in [1..cost -> M]
    BY DEF Members
  <2>2. \A j, k \in 1..cost : f[j] = f[k] => j = k
    OBVIOUS
  <2>3. \A m \in M : \E j \in 1..cost : f[j] = m
    <3> TAKE m \in M
    <3>1. m.i \in 1..cost /\ m = [score |-> t, seq |-> c, i |-> m.i]
      BY DEF Members
    <3> QED BY <3>1
  <2> QED BY <2>1, <2>2, <2>3 DEF Bijection, Injection, Surjection, IsInjective
<1>2. IsFiniteSet(1..cost) /\ Cardinality(1..cost) = cost
  BY FS_Interval
<1>3. ExistsBijection(1..cost, M)
  BY <1>1 DEF ExistsBijection
<1> QED BY <1>2, <1>3, FS_Bijection

\* What the script keeps and adds is finite, and the addition adds up.
LEMMA LogCount ==
  ASSUME NEW kept, IsFiniteSet(kept), NEW t, NEW c, NEW cost \in Nat
  PROVE  /\ IsFiniteSet(kept \cup Members(t, c, cost))
         /\ Cardinality(kept \cup Members(t, c, cost)) <= Cardinality(kept) + cost
<1> DEFINE M == Members(t, c, cost)
<1>1. IsFiniteSet(M) /\ Cardinality(M) = cost
  BY MembersCount
<1> HIDE DEF M
<1>2. /\ IsFiniteSet(kept \cup M)
      /\ Cardinality(kept \cup M) = Cardinality(kept) + Cardinality(M) - Cardinality(kept \cap M)
  BY <1>1, FS_Union
<1>3. IsFiniteSet(kept \cap M)
  BY FS_Intersection
<1>4. Cardinality(kept \cap M) \in Nat /\ Cardinality(kept) \in Nat
  BY <1>3, FS_CardinalityType
<1>5. Cardinality(kept \cup M) <= Cardinality(kept) + cost
  BY <1>1, <1>2, <1>4
<1> QED BY <1>2, <1>5 DEF M

\* The entries the script keeps are finitely many entries of the key.
LEMMA KeptFinite ==
  ASSUME IsFiniteSet(key.log)
  PROVE  /\ Kept(key, Rule, now) \subseteq key.log
         /\ IsFiniteSet(Kept(key, Rule, now))
<1>1. Kept(key, Rule, now) \subseteq key.log
  BY DEF Kept
<1> QED BY <1>1, FS_Subset

\* The units of one window are no more than those of a larger one.
LEMMA FewerUnits ==
  ASSUME NEW T, IsFiniteSet(T), NEW S \in SUBSET T
  PROVE  /\ IsFiniteSet(S) /\ Cardinality(S) \in Nat /\ Cardinality(T) \in Nat
         /\ Cardinality(S) <= Cardinality(T)
BY FS_Subset, FS_CardinalityType

-----------------------------------------------------------------------------
\* Each unit in the window of true time has an entry of its own among those
\* the script would count now.
LEMMA UnitsAreKept ==
  ASSUME SteppedInv
  PROVE  /\ \A u \in InWindow(elapsed) : Entry(u) \in Kept(key, Rule, now)
         /\ IsFiniteSet(InWindow(elapsed))
         /\ Cardinality(InWindow(elapsed)) <= Cardinality(Kept(key, Rule, now))
<1> DEFINE W == InWindow(elapsed)
           K == Kept(key, Rule, now)
           f == [u \in W |-> Entry(u)]
<1>1. W \subseteq admitted /\ IsFiniteSet(W)
  <2>1. W \subseteq admitted
    BY DEF InWindow
  <2> QED BY <2>1, FS_Subset DEF SteppedInv
<1>2. ASSUME NEW u \in W PROVE Entry(u) \in K
  <2>1. u \in Units /\ elapsed - Window < u.at /\ u.at <= elapsed
    BY DEF InWindow, SteppedInv, StateOK
  <2>2. /\ Entry(u) \in key.log
        /\ now - u.score <= elapsed - u.at
        /\ now - key.expireAt <= elapsed - u.at - Window
    BY DEF SteppedInv, Covered
  <2>3. now \in Int /\ elapsed \in Int /\ key.expireAt \in Int /\ u.at \in Int /\ u.score \in Int
    BY <2>1 DEF SteppedInv, StateOK, Units
  <2>4. Alive(key, now) /\ u.score > now - Window
    BY <2>1, <2>2, <2>3 DEF Alive
  <2>5. Entry(u).score = u.score
    BY DEF Entry
  <2> QED BY <2>2, <2>4, <2>5 DEF Kept, Rule
<1>3. f \in Injection(W, K)
  <2>1. f \in [W -> K]
    BY <1>2
  <2>2. ASSUME NEW u \in W, NEW v \in W, f[u] = f[v] PROVE u = v
    <3>1. u.seq = v.seq /\ u.i = v.i
      BY <2>2 DEF Entry
    <3> QED BY <1>1, <3>1 DEF SteppedInv, Named
  <2> QED BY <2>1, <2>2 DEF Injection, IsInjective
<1>4. IsFiniteSet(K)
  BY KeptFinite DEF SteppedInv
<1>5. Cardinality(W) <= Cardinality(K)
  BY <1>3, <1>4, FS_Injection
<1> QED BY <1>1, <1>2, <1>5

-----------------------------------------------------------------------------
LEMMA InitStepped == Init => SteppedInv
<1> SUFFICES ASSUME Init PROVE SteppedInv
  OBVIOUS
<1>1. StateOK /\ now <= elapsed
  BY DEF Init, StateOK, NoWindow
<1>2. admitted = {} /\ key.log = {}
  BY DEF Init, NoWindow
<1>3. \A t : InWindow(t) = {}
  BY <1>2 DEF InWindow
<1>4. WindowBound
  BY <1>3, FS_EmptySet DEF WindowBound
<1>5. Named /\ Covered
  BY <1>2, <1>3 DEF Named, Covered
<1> QED BY <1>1, <1>2, <1>4, <1>5, FS_EmptySet DEF SteppedInv

LEMMA TickStepped ==
  ASSUME SteppedInv, Tick
  PROVE  SteppedInv'
<1>1. /\ now \in Nat /\ elapsed \in Nat /\ elapsed < MaxTime /\ now <= elapsed
      /\ now' = now + 1 /\ elapsed' = elapsed + 1
      /\ key' = key /\ calls' = calls /\ admitted' = admitted
  BY DEF Tick, SteppedInv, StateOK
<1>2. StateOK' /\ (now <= elapsed)'
  BY <1>1 DEF SteppedInv, StateOK
<1>3. \A t : InWindow(t)' = InWindow(t)
  BY <1>1 DEF InWindow
<1>4. \A u \in admitted : u.at \in Int /\ u.score \in Int /\ u.at <= elapsed
  BY DEF SteppedInv, StateOK, Units, Named
<1>5. InWindow(elapsed)' \subseteq InWindow(elapsed)
  BY <1>1, <1>4 DEF InWindow
<1>6. Named'
  BY <1>1, <1>4 DEF SteppedInv, Named
<1>7. Covered'
  <2> SUFFICES ASSUME NEW u \in InWindow(elapsed)'
               PROVE  /\ Entry(u) \in key'.log
                      /\ now' - u.score <= elapsed' - u.at
                      /\ now' - key'.expireAt <= elapsed' - u.at - Window
    BY DEF Covered, Entry
  <2>1. /\ Entry(u) \in key.log
        /\ now - u.score <= elapsed - u.at
        /\ now - key.expireAt <= elapsed - u.at - Window
    BY <1>5 DEF SteppedInv, Covered
  <2>2. u.at \in Int /\ u.score \in Int /\ key.expireAt \in Int
    BY <1>4, <1>5 DEF InWindow, SteppedInv, StateOK
  <2> QED BY <1>1, <2>1, <2>2
<1>8. WindowBound'
  <2> SUFFICES ASSUME NEW t \in 0..(elapsed + 1)
               PROVE  Cardinality(InWindow(t)') <= Limit
    BY <1>1 DEF WindowBound
  <2>1. CASE t \in 0..elapsed
    BY <1>3, <2>1 DEF SteppedInv, WindowBound
  <2>2. CASE t = elapsed + 1
    <3>1. InWindow(t)' \subseteq InWindow(elapsed)
      BY <1>1, <1>3, <1>5, <2>2
    <3>2. IsFiniteSet(InWindow(elapsed))
      BY UnitsAreKept
    <3>3. Cardinality(InWindow(elapsed)) <= Limit
      BY <1>1 DEF SteppedInv, WindowBound
    <3> HIDE DEF InWindow
    <3>4. /\ Cardinality(InWindow(t)') <= Cardinality(InWindow(elapsed))
          /\ Cardinality(InWindow(t)') \in Nat /\ Cardinality(InWindow(elapsed)) \in Nat
      BY <3>1, <3>2, FewerUnits
    <3> QED BY <3>3, <3>4
  <2> QED BY <1>1, <2>1, <2>2
<1> QED BY <1>1, <1>2, <1>6, <1>7, <1>8 DEF SteppedInv

\* Redis deletes a key only when no unit of the window needs it.
LEMMA ExpireStepped ==
  ASSUME SteppedInv, Expire
  PROVE  SteppedInv'
<1>1. InWindow(elapsed) = {}
  <2> SUFFICES ASSUME NEW u \in InWindow(elapsed) PROVE FALSE
    OBVIOUS
  <2>1. now - key.expireAt <= elapsed - u.at - Window
    BY DEF SteppedInv, Covered
  <2>2. elapsed - Window < u.at /\ u.at \in Int
    BY DEF InWindow, SteppedInv, StateOK, Units
  <2>3. now \in Int /\ elapsed \in Int /\ key.expireAt \in Int /\ ~(now <= key.expireAt)
    BY DEF SteppedInv, StateOK, Expire, Alive
  <2> QED BY <2>1, <2>2, <2>3
<1>2. Covered'
  BY <1>1 DEF Expire, Covered, InWindow
<1>3. StateOK'
  BY DEF Expire, SteppedInv, StateOK, NoWindow
<1>4. IsFiniteSet(key.log)'
  BY FS_EmptySet DEF Expire, NoWindow
<1> QED BY <1>2, <1>3, <1>4 DEF Expire, SteppedInv, Named, WindowBound, InWindow

LEMMA BackStepped ==
  ASSUME SteppedInv, ClockStepsBack
  PROVE  SteppedInv'
<1>1. now' \in Nat /\ now' < now /\ now \in 0..MaxTime /\ elapsed \in Int
  BY DEF ClockStepsBack, SteppedInv, StateOK
<1>2. StateOK' /\ (now <= elapsed)'
  BY <1>1 DEF ClockStepsBack, SteppedInv, StateOK
<1>3. Covered'
  <2> SUFFICES ASSUME NEW u \in InWindow(elapsed)
               PROVE  /\ Entry(u) \in key.log
                      /\ now' - u.score <= elapsed - u.at
                      /\ now' - key.expireAt <= elapsed - u.at - Window
    BY DEF ClockStepsBack, Covered, InWindow, Entry
  <2>1. /\ Entry(u) \in key.log
        /\ now - u.score <= elapsed - u.at
        /\ now - key.expireAt <= elapsed - u.at - Window
    BY DEF SteppedInv, Covered
  <2>2. u.at \in Int /\ u.score \in Int /\ key.expireAt \in Int
    BY DEF InWindow, SteppedInv, StateOK, Units
  <2> QED BY <1>1, <2>1, <2>2
<1> QED BY <1>2, <1>3 DEF ClockStepsBack, SteppedInv, Named, WindowBound, InWindow

\* One check seen from outside: the units it admits, the entries it leaves and
\* the life it gives the key.
NewUnits(cost) == [at: {elapsed}, score: {now}, seq: {calls}, i: 1..cost]

LEMMA CheckEffect ==
  ASSUME NEW cost \in Costs, Check(cost)
  PROVE  LET kept == Kept(key, Rule, now)
             fits == Cardinality(kept) + cost <= Limit
             log  == IF fits THEN kept \cup Members(now, calls, cost) ELSE kept
         IN  /\ key' = KeyAfter(log, Rule, now)
             /\ admitted' = IF fits THEN admitted \cup NewUnits(cost) ELSE admitted
             /\ calls < MaxCalls /\ calls' = calls + 1
             /\ now' = now /\ elapsed' = elapsed
BY DEF Check, RunWindow, Log, Fits, Rule, NewUnits

LEMMA CheckStepped ==
  ASSUME SteppedInv, NEW cost \in Costs, Check(cost)
  PROVE  SteppedInv'
<1> DEFINE kept == Kept(key, Rule, now)
           fits == Cardinality(kept) + cost <= Limit
           log  == IF fits THEN kept \cup Members(now, calls, cost) ELSE kept
<1>1. /\ key' = KeyAfter(log, Rule, now)
      /\ admitted' = IF fits THEN admitted \cup NewUnits(cost) ELSE admitted
      /\ calls < MaxCalls /\ calls' = calls + 1
      /\ now' = now /\ elapsed' = elapsed
  BY CheckEffect
<1>2. /\ now \in 0..MaxTime /\ elapsed \in 0..MaxTime /\ now <= elapsed
      /\ calls \in 0..MaxCalls /\ cost \in 1..Limit
      /\ admitted \subseteq Units /\ key.log \subseteq Entries
      /\ IsFiniteSet(admitted) /\ IsFiniteSet(key.log)
  BY DEF SteppedInv, StateOK
<1>3. kept \subseteq key.log /\ IsFiniteSet(kept)
  BY <1>2, KeptFinite
<1>4. /\ IsFiniteSet(Members(now, calls, cost))
      /\ Members(now, calls, cost) \subseteq Entries
  <2>1. Members(now, calls, cost) \subseteq Entries
    BY <1>2 DEF Members, Entries
  <2>2. cost \in Nat
    BY <1>2
  <2> QED BY <2>1, <2>2, MembersCount
<1>5. log \subseteq Entries /\ IsFiniteSet(log)
  BY <1>2, <1>3, <1>4, FS_Union
<1>6. NewUnits(cost) \subseteq Units /\ IsFiniteSet(NewUnits(cost))
  <2>1. NewUnits(cost) \subseteq Units
    BY <1>2 DEF NewUnits, Units
  <2> DEFINE M == Members(now, calls, cost)
             f == [e \in M |-> [at |-> elapsed, score |-> e.score, seq |-> e.seq, i |-> e.i]]
  <2>2. f \in Surjection(M, NewUnits(cost))
    <3>1. f \in [M -> NewUnits(cost)]
      BY DEF Members, NewUnits
    <3>2. ASSUME NEW u \in NewUnits(cost) PROVE \E e \in M : f[e] = u
      <4>1. /\ Entry(u) \in M
            /\ u = [at |-> elapsed, score |-> Entry(u).score,
                    seq |-> Entry(u).seq, i |-> Entry(u).i]
        BY DEF Entry, Members, NewUnits
      <4> QED BY <4>1
    <3> QED BY <3>1, <3>2 DEF Surjection
  <2>3. IsFiniteSet(NewUnits(cost))
    BY <1>4, <2>2, FS_Surjection
  <2> QED BY <2>1, <2>3
<1>7. IsFiniteSet(admitted')
  BY <1>1, <1>2, <1>6, FS_Union
<1>8. key'.log = log
  BY <1>1 DEF KeyAfter, NoWindow
<1>9. StateOK' /\ (now <= elapsed)' /\ IsFiniteSet(key.log)'
  <2>1. key'.expireAt \in Int /\ key' \in [log: SUBSET Entries, expireAt: Int]
    BY <1>1, <1>2, <1>5 DEF KeyAfter, NoWindow, Rule
  <2>2. admitted' \subseteq Units
    BY <1>1, <1>2, <1>6
  <2> QED BY <1>1, <1>2, <1>5, <1>8, <2>1, <2>2 DEF StateOK
<1>10. Named'
  <2>1. \A u \in NewUnits(cost) : /\ u.at = elapsed /\ u.score = now /\ u.seq = calls
                                  /\ u = [at |-> elapsed, score |-> now, seq |-> calls, i |-> u.i]
    BY DEF NewUnits
  <2>2. \A u \in admitted : u.seq \in Nat /\ u.seq < calls /\ u.at <= elapsed
    BY <1>2 DEF SteppedInv, Named, Units
  <2>3. \A u, v \in admitted : u.seq = v.seq /\ u.i = v.i => u = v
    BY DEF SteppedInv, Named
  <2>4. \A u \in admitted' : u \in admitted \/ u \in NewUnits(cost)
    BY <1>1
  <2>5. ASSUME NEW u \in admitted' PROVE u.seq < calls' /\ u.at <= elapsed'
    BY <1>1, <1>2, <2>1, <2>2, <2>4
  <2>6. ASSUME NEW u \in admitted', NEW v \in admitted', u.seq = v.seq, u.i = v.i
        PROVE  u = v
    BY <1>2, <2>1, <2>2, <2>3, <2>4, <2>6
  <2> QED BY <2>5, <2>6 DEF Named
<1>11. Covered'
  <2> SUFFICES ASSUME NEW u \in InWindow(elapsed)'
               PROVE  /\ Entry(u) \in key'.log
                      /\ now - u.score <= elapsed - u.at
                      /\ now - key'.expireAt <= elapsed - u.at - Window
    BY <1>1 DEF Covered, InWindow, Entry
  <2>1. Entry(u) \in log /\ now - u.score <= elapsed - u.at /\ u.at <= elapsed /\ u.at \in Int
    <3>1. CASE u \in admitted
      <4>1. u \in InWindow(elapsed)
        BY <1>1, <3>1 DEF InWindow
      <4>2. Entry(u) \in kept
        BY <4>1, UnitsAreKept
      <4>3. now - u.score <= elapsed - u.at /\ u.at <= elapsed /\ u.at \in Int
        BY <1>2, <3>1, <4>1 DEF SteppedInv, Covered, Named, Units
      <4> QED BY <4>2, <4>3
    <3>2. CASE fits /\ u \in NewUnits(cost)
      BY <1>2, <3>2 DEF NewUnits, Entry, Members
    <3>3. u \in admitted'
      BY DEF InWindow
    <3> QED BY <1>1, <3>1, <3>2, <3>3
  <2>2. key'.expireAt = now + Window
    BY <1>1, <2>1 DEF KeyAfter, Rule
  <2> QED BY <1>2, <1>8, <2>1, <2>2
<1>12. WindowBound'
  <2>1. ASSUME NEW t \in 0..elapsed, t < elapsed PROVE InWindow(t)' = InWindow(t)
    <3>1. \A u \in NewUnits(cost) : u.at = elapsed
      BY DEF NewUnits
    <3>2. \A u \in admitted' : u \in admitted \/ u \in NewUnits(cost)
      BY <1>1
    <3>3. admitted \subseteq admitted'
      BY <1>1
    <3>4. \A u \in NewUnits(cost) : ~(u.at <= t)
      BY <1>2, <2>1, <3>1
    <3> QED BY <3>2, <3>3, <3>4 DEF InWindow
  <2>2. Cardinality(InWindow(elapsed)') <= Limit
    <3>1. CASE ~fits
      <4>1. InWindow(elapsed)' = InWindow(elapsed)
        BY <1>1, <3>1 DEF InWindow
      <4> QED BY <1>2, <4>1 DEF SteppedInv, WindowBound
    <3>2. CASE fits
      <4> DEFINE W == InWindow(elapsed)'
                 M == Members(now, calls, cost)
                 f == [u \in W |-> Entry(u)]
      <4>1. f \in [W -> log]
        <5>1. \A u \in W : Entry(u) \in key'.log
          BY <1>11 DEF Covered, Entry
        <5> QED BY <1>8, <5>1
      <4>2. \A u, v \in W : f[u] = f[v] => u = v
        <5>1. \A u, v \in W : Entry(u) = Entry(v) => u.seq = v.seq /\ u.i = v.i
          BY DEF Entry
        <5>2. W \subseteq admitted'
          BY DEF InWindow
        <5> QED BY <1>10, <5>1, <5>2 DEF Named
      <4>3. f \in Injection(W, log)
        BY <4>1, <4>2 DEF Injection, IsInjective
      <4>4. Cardinality(W) <= Cardinality(log)
        BY <1>5, <4>3, FS_Injection
      <4>5. Cardinality(kept \cup M) <= Cardinality(kept) + cost /\ IsFiniteSet(kept \cup M)
        BY <1>2, <1>3, LogCount
      <4>6. log = kept \cup M
        BY <3>2
      <4>7. Cardinality(W) \in Nat /\ Cardinality(log) \in Nat /\ Cardinality(kept) \in Nat
        BY <1>3, <1>5, <4>3, FS_Injection, FS_CardinalityType
      <4> QED BY <1>2, <3>2, <4>4, <4>5, <4>6, <4>7
    <3> QED BY <3>1, <3>2
  <2>3. SUFFICES ASSUME NEW t \in 0..elapsed PROVE Cardinality(InWindow(t)') <= Limit
    BY <1>1 DEF WindowBound
  <2>4. CASE t = elapsed
    BY <1>1, <2>2, <2>4 DEF InWindow
  <2>5. CASE t < elapsed
    BY <2>1, <2>5 DEF SteppedInv, WindowBound
  <2> QED BY <1>2, <2>4, <2>5
<1> QED BY <1>7, <1>9, <1>10, <1>11, <1>12 DEF SteppedInv

LEMMA NextStepped == SteppedInv /\ [Next \/ ClockStepsBack]_vars => SteppedInv'
<1> SUFFICES ASSUME SteppedInv, [Next \/ ClockStepsBack]_vars PROVE SteppedInv'
  OBVIOUS
<1>1. CASE Tick
  BY <1>1, TickStepped
<1>2. CASE Expire
  BY <1>2, ExpireStepped
<1>3. ASSUME NEW cost \in Costs, Check(cost) PROVE SteppedInv'
  BY <1>3, CheckStepped
<1>4. CASE ClockStepsBack
  BY <1>4, BackStepped
<1>5. CASE UNCHANGED vars
  BY <1>5 DEF vars, SteppedInv, StateOK, Named, Covered, WindowBound, InWindow
<1> QED BY <1>1, <1>2, <1>3, <1>4, <1>5 DEF Next

-----------------------------------------------------------------------------
\* The inductive invariant of a window whose clock may be set back.
THEOREM SteppedInvariance == SteppedSpec => []SteppedInv
<1> QED BY InitStepped, NextStepped, PTL DEF SteppedSpec

\* On a clock that may be set back at any moment, by any amount, the script
\* still admits at most Limit units in every window of true time.
THEOREM SteppedWindowBound == SteppedSpec => []WindowBound
<1>1. SteppedInv => WindowBound
  BY DEF SteppedInv
<1> QED BY <1>1, InitStepped, NextStepped, PTL DEF SteppedSpec

LEMMA SteadyStepped == Spec => []SteppedInv
<1>1. SteppedInv /\ [Next]_vars => SteppedInv'
  BY NextStepped
<1> QED BY <1>1, InitStepped, PTL DEF Spec

\* At most Limit units are admitted in every window of windowMs milliseconds.
THEOREM SteadyWindowBound == Spec => []WindowBound
<1>1. SteppedInv => WindowBound
  BY DEF SteppedInv
<1> QED BY <1>1, SteadyStepped, PTL

-----------------------------------------------------------------------------
\* A non-empty set of naturals has a least element, and Min is it.
LEMMA MinIsLeast ==
  ASSUME NEW S \in SUBSET Nat, S # {}
  PROVE  Min(S) \in S /\ \A y \in S : Min(S) <= y
<1>1. \E x \in S : \A y \in S : ~(<<y, x>> \in OpToRel(<, Nat))
  BY NatLessThanWellFounded, WFMin
<1>2. PICK x \in S : \A y \in S : ~(<<y, x>> \in OpToRel(<, Nat))
  BY <1>1
<1>3. \A y \in S : ~(y < x)
  BY <1>2 DEF OpToRel
<1>4. \A y \in S : x <= y
  BY <1>3
<1> QED BY <1>4 DEF Min

\* The larger of two integers.
LEMMA MaxOfTwo ==
  ASSUME NEW a \in Int, NEW b \in Int
  PROVE  Max({a, b}) = IF a <= b THEN b ELSE a
<1>1. \A x \in {a, b} : (\A y \in {a, b} : x >= y) <=> x = (IF a <= b THEN b ELSE a)
  OBVIOUS
<1> QED BY <1>1 DEF Max

\* A clamp from below that does nothing.
LEMMA ClampIdle ==
  ASSUME NEW a \in Int, NEW b \in Int, a <= b
  PROVE  Max({a, b}) = b
BY MaxOfTwo

\* The reset instant of a window that is not empty: its oldest entry leaves.
LEMMA OldestLeaves ==
  ASSUME NEW log \in SUBSET Entries, log # {}, NEW t
  PROVE  /\ \E e \in log : ResetMs(log, Rule, t) = e.score + Window
         /\ \A e \in log : ResetMs(log, Rule, t) <= e.score + Window
<1> DEFINE scores == {e.score : e \in log}
<1>1. scores \in SUBSET Nat /\ scores # {}
  BY DEF Entries
<1>2. Min(scores) \in scores /\ \A y \in scores : Min(scores) <= y
  BY <1>1, MinIsLeast
<1>3. ResetMs(log, Rule, t) = Min(scores) + Window
  BY DEF ResetMs, Rule
<1>4. \E e \in log : Min(scores) = e.score
  BY <1>2
<1>5. \A e \in log : e.score \in scores /\ e.score \in Nat
  BY DEF Entries
<1>6. Min(scores) \in Nat
  BY <1>1, <1>2
<1> HIDE DEF scores
<1> QED BY <1>2, <1>3, <1>4, <1>5, <1>6

\* On a steady clock the script counts the units of the window and nothing else.
LEMMA KeptAreUnits ==
  ASSUME SteppedInv, InStep
  PROVE  /\ \A e \in Kept(key, Rule, now) : \E u \in InWindow(elapsed) : e = Entry(u)
         /\ Cardinality(Kept(key, Rule, now)) = Cardinality(InWindow(elapsed))
<1> DEFINE W == InWindow(elapsed)
           K == Kept(key, Rule, now)
           f == [u \in W |-> Entry(u)]
<1>1. ASSUME NEW e \in K PROVE \E u \in W : e = Entry(u)
  <2>1. e \in key.log /\ e.score > now - Window
    BY DEF Kept, Rule
  <2>2. PICK u \in admitted : e = Entry(u)
    BY <2>1 DEF InStep
  <2>3. u.score = u.at /\ u.at <= elapsed /\ now = elapsed /\ e.score = u.score
    BY <2>2 DEF SteppedInv, Named, InStep, Entry
  <2>4. u \in W
    BY <2>1, <2>3 DEF InWindow, SteppedInv, StateOK, Units
  <2> QED BY <2>2, <2>4
<1>2. f \in Surjection(W, K)
  <2>1. f \in [W -> K]
    BY UnitsAreKept
  <2> QED BY <1>1, <2>1 DEF Surjection
<1>3. IsFiniteSet(W) /\ Cardinality(W) <= Cardinality(K)
  BY UnitsAreKept
<1>4. IsFiniteSet(K) /\ Cardinality(K) <= Cardinality(W)
  BY <1>2, <1>3, FS_Surjection
<1>5. Cardinality(W) \in Nat /\ Cardinality(K) \in Nat
  BY <1>3, <1>4, FS_CardinalityType
<1> HIDE DEF W, K
<1>6. Cardinality(K) = Cardinality(W)
  BY <1>3, <1>4, <1>5
<1> QED BY <1>1, <1>6 DEF W, K

\* The reply of a check on a steady clock, in terms of the units of the window.
LEMMA ReplyEffect ==
  ASSUME IInv, NEW cost \in Costs, Check(cost)
  PROVE  LET kept  == Kept(key, Rule, now)
             log   == IF Cardinality(kept) + cost <= Limit
                      THEN kept \cup Members(now, calls, cost) ELSE kept
             units == Cardinality(InWindow(elapsed))
         IN  /\ units \in 0..Limit /\ Cardinality(kept) = units
             /\ log # {} /\ log \subseteq Entries
             /\ \A e \in log : e.score > now - Window /\ e.score <= now
             /\ reply'.allowed = (units + cost <= Limit)
             /\ reply'.resetMs = ResetMs(log, Rule, now)
             /\ reply'.resetMs \in Int /\ reply'.resetMs - now \in 1..Window
             /\ units + cost <= Limit =>
                  reply'.remaining = Limit - units - cost /\ reply'.retryAfterMs = 0
             /\ ~(units + cost <= Limit) =>
                  /\ reply'.remaining = Limit - units
                  /\ reply'.retryAfterMs = reply'.resetMs - now
<1> DEFINE kept  == Kept(key, Rule, now)
           units == Cardinality(InWindow(elapsed))
           fits  == units + cost <= Limit
           log   == IF fits THEN kept \cup Members(now, calls, cost) ELSE kept
<1>1. /\ now \in 0..MaxTime /\ elapsed \in 0..MaxTime /\ now = elapsed
      /\ calls \in 0..MaxCalls /\ cost \in 1..Limit /\ key.log \subseteq Entries
  BY DEF IInv, SteppedInv, StateOK, InStep
<1>2. /\ Cardinality(kept) = units
      /\ \A e \in kept : \E u \in InWindow(elapsed) : e = Entry(u)
  BY KeptAreUnits DEF IInv
<1>3. units \in 0..Limit
  <2>1. IsFiniteSet(InWindow(elapsed))
    BY UnitsAreKept DEF IInv
  <2>2. units \in Nat
    BY <2>1, FS_CardinalityType
  <2>3. units <= Limit
    BY <1>1 DEF IInv, SteppedInv, WindowBound
  <2> QED BY <2>2, <2>3
<1>4. \A e \in kept : e \in Entries /\ e.score > now - Window /\ e.score <= now
  <2> TAKE e \in kept
  <2>1. PICK u \in InWindow(elapsed) : e = Entry(u)
    BY <1>2
  <2>2. u \in admitted /\ u.at <= elapsed /\ u.score = u.at /\ e.score = u.score
    BY <2>1 DEF InWindow, IInv, InStep, Entry
  <2>3. e \in key.log /\ e.score > now - Window
    BY DEF Kept, Rule
  <2> QED BY <1>1, <2>2, <2>3
<1>5. \A m \in Members(now, calls, cost) : m \in Entries /\ m.score = now
  BY <1>1 DEF Members, Entries
<1>6. log \subseteq Entries /\ \A e \in log : e.score > now - Window /\ e.score <= now
  BY <1>1, <1>4, <1>5
<1>7. log # {}
  <2>1. CASE fits
    <3>1. [score |-> now, seq |-> calls, i |-> 1] \in Members(now, calls, cost)
      BY <1>1 DEF Members
    <3> QED BY <2>1, <3>1
  <2>2. CASE ~fits
    <3>1. Cardinality(kept) # 0
      BY <1>1, <1>2, <1>3, <2>2
    <3> QED BY <2>2, <3>1, FS_EmptySet
  <2> QED BY <2>1, <2>2
<1>8. /\ ResetMs(log, Rule, now) - now \in 1..Window
      /\ ResetMs(log, Rule, now) \in Int
  <2>1. PICK e \in log : ResetMs(log, Rule, now) = e.score + Window
    BY <1>6, <1>7, OldestLeaves
  <2>2. e.score \in Int /\ e.score > now - Window /\ e.score <= now
    BY <1>6 DEF Entries
  <2> HIDE DEF log
  <2> QED BY <1>1, <2>1, <2>2
<1>9. reply' = [allowed      |-> fits,
                remaining    |-> Max({0, Limit - (units + (IF fits THEN cost ELSE 0))}),
                retryAfterMs |-> IF fits THEN 0 ELSE Max({1, ResetMs(kept, Rule, now) - now}),
                resetMs      |-> ResetMs(log, Rule, now)]
  BY <1>2 DEF Check, RunWindow, Log, Fits, Rule, Remaining, RetryAfterMs
<1> HIDE DEF units, kept
<1>10. CASE fits
  <2>1. Max({0, Limit - (units + cost)}) = Limit - units - cost
    <3>1. Limit - (units + cost) \in Nat /\ Limit - (units + cost) = Limit - units - cost
      BY <1>1, <1>3, <1>10
    <3> QED BY <3>1, ClampIdle
  <2> QED BY <1>2, <1>3, <1>6, <1>7, <1>8, <1>9, <1>10, <2>1 DEF units, kept
<1>11. CASE ~fits
  <2>1. Max({0, Limit - (units + 0)}) = Limit - units
    <3>1. Limit - (units + 0) \in Nat /\ Limit - (units + 0) = Limit - units
      BY <1>1, <1>3
    <3> QED BY <3>1, ClampIdle
  <2>2. log = kept
    BY <1>11
  <2>3. Max({1, ResetMs(kept, Rule, now) - now}) = ResetMs(kept, Rule, now) - now
    <3>1. ResetMs(kept, Rule, now) - now \in 1..Window
      BY <1>8, <2>2
    <3> HIDE DEF kept
    <3> QED BY <3>1, ClampIdle
  <2> QED BY <1>2, <1>3, <1>6, <1>7, <1>8, <1>9, <1>11, <2>1, <2>2, <2>3 DEF units, kept
<1> QED BY <1>10, <1>11

-----------------------------------------------------------------------------
LEMMA InitIInv == Init => IInv
<1> SUFFICES ASSUME Init PROVE IInv
  OBVIOUS
<1>1. TypeOK
  BY InitStepped DEF Init, TypeOK, SteppedInv
<1>2. InStep
  BY DEF Init, InStep, NoWindow
<1> QED BY <1>1, <1>2, InitStepped DEF IInv

LEMMA CheckKeeps ==
  ASSUME IInv, NEW cost \in Costs, Check(cost)
  PROVE  IInv'
<1> DEFINE kept == Kept(key, Rule, now)
           fits == Cardinality(kept) + cost <= Limit
           log  == IF fits THEN kept \cup Members(now, calls, cost) ELSE kept
<1>1. SteppedInv'
  BY CheckStepped DEF IInv
<1>2. TypeOK'
  <2>1. reply'.remaining \in 0..Limit /\ reply'.retryAfterMs \in 0..Window
        /\ reply'.resetMs \in Nat
    <3> DEFINE units == Cardinality(InWindow(elapsed))
    <3>1. now \in Nat /\ cost \in 1..Limit
      BY DEF IInv, SteppedInv, StateOK
    <3>2. /\ units \in 0..Limit
          /\ reply'.resetMs \in Int /\ reply'.resetMs - now \in 1..Window
          /\ units + cost <= Limit =>
               reply'.remaining = Limit - units - cost /\ reply'.retryAfterMs = 0
          /\ ~(units + cost <= Limit) =>
               /\ reply'.remaining = Limit - units
               /\ reply'.retryAfterMs = reply'.resetMs - now
      BY ReplyEffect
    <3> HIDE DEF units
    <3>3. CASE units + cost <= Limit
      BY <3>1, <3>2, <3>3
    <3>4. CASE ~(units + cost <= Limit)
      BY <3>1, <3>2, <3>4
    <3> QED BY <3>3, <3>4
  <2>2. reply' \in [allowed: BOOLEAN, remaining: 0..Limit,
                    retryAfterMs: 0..Window, resetMs: Nat]
    BY <2>1 DEF Check, RunWindow, Fits
  <2>3. asked' \in [cost: 0..Limit, at: 0..MaxTime]
    BY DEF Check, IInv, SteppedInv, StateOK
  <2> QED BY <1>1, <2>2, <2>3 DEF TypeOK, SteppedInv
<1>3. InStep'
  <2>1. /\ key' = KeyAfter(log, Rule, now)
        /\ admitted' = IF fits THEN admitted \cup NewUnits(cost) ELSE admitted
        /\ now' = now /\ elapsed' = elapsed
    BY CheckEffect
  <2>2. key'.log = log
    BY <2>1 DEF KeyAfter, NoWindow
  <2>3. now = elapsed /\ \A u \in admitted : u.score = u.at
    BY DEF IInv, InStep
  <2>4. \A u \in admitted' : u.score = u.at
    BY <2>1, <2>3 DEF NewUnits
  <2>5. ASSUME NEW e \in log PROVE \E u \in admitted' : e = Entry(u)
    <3>1. CASE e \in kept
      BY <2>1, <3>1 DEF Kept, IInv, InStep
    <3>2. CASE fits /\ e \in Members(now, calls, cost)
      <4> DEFINE u == [at |-> elapsed, score |-> now, seq |-> calls, i |-> e.i]
      <4>1. u \in NewUnits(cost) /\ e = Entry(u)
        BY <3>2 DEF NewUnits, Members, Entry
      <4> QED BY <2>1, <3>2, <4>1
    <3> QED BY <3>1, <3>2
  <2> QED BY <2>1, <2>2, <2>3, <2>4, <2>5 DEF InStep, Entry
<1> QED BY <1>1, <1>2, <1>3 DEF IInv

LEMMA NextKeeps == IInv /\ [Next]_vars => IInv'
<1> SUFFICES ASSUME IInv, [Next]_vars PROVE IInv'
  OBVIOUS
<1>1. SteppedInv'
  BY NextStepped DEF IInv
<1>2. CASE Tick
  <2>1. TypeOK' /\ InStep'
    BY <1>1, <1>2 DEF Tick, IInv, SteppedInv, StateOK, TypeOK, InStep, Entry
  <2> QED BY <1>1, <2>1 DEF IInv
<1>3. CASE Expire
  <2>1. TypeOK' /\ InStep'
    BY <1>1, <1>3 DEF Expire, IInv, SteppedInv, TypeOK, InStep, NoWindow, Entry
  <2> QED BY <1>1, <2>1 DEF IInv
<1>4. ASSUME NEW cost \in Costs, Check(cost) PROVE IInv'
  BY <1>4, CheckKeeps
<1>5. CASE UNCHANGED vars
  <2>1. TypeOK' /\ InStep'
    BY <1>1, <1>5 DEF vars, IInv, SteppedInv, TypeOK, InStep, Entry
  <2> QED BY <1>1, <2>1 DEF IInv
<1> QED BY <1>2, <1>3, <1>4, <1>5 DEF Next

\* On a steady clock the sorted set mirrors the admitted units of the window.
THEOREM Invariance == Spec => []IInv
<1> QED BY InitIInv, NextKeeps, PTL DEF Spec

\* Every variable keeps its type, and no refused caller is told to wait for
\* longer than a window.
THEOREM TypeCorrect == Spec => []TypeOK
<1>1. IInv => TypeOK
  BY DEF IInv
<1> QED BY <1>1, Invariance, PTL

-----------------------------------------------------------------------------
LEMMA InitImplements == Init => Eager!Init
BY DEF Init, Eager!Init, InWindow

LEMMA TickImplements ==
  ASSUME IInv, Tick
  PROVE  Eager!Tick
<1>1. /\ elapsed \in Int /\ elapsed < MaxTime /\ elapsed' = elapsed + 1
      /\ admitted' = admitted /\ reply' = reply
  BY DEF Tick, IInv, SteppedInv, StateOK
<1>2. \A u \in admitted : u.at \in Int /\ u.at <= elapsed
  BY DEF IInv, SteppedInv, StateOK, Units, Named
<1>3. InWindow(elapsed)' = {u \in InWindow(elapsed) : u.at + Window > elapsed + 1}
  BY <1>1, <1>2 DEF InWindow
<1> QED BY <1>1, <1>3 DEF Eager!Tick

\* Cardinality as EagerWindow sees it.
LEMMA SameCardinality == \A S : Eager!Cardinality(S) = Cardinality(S)
BY DEF Eager!Cardinality, Cardinality

\* A run of the script is a Take of the eager window.
LEMMA CheckImplements ==
  ASSUME IInv, NEW cost \in Costs, Check(cost)
  PROVE  Eager!Take(cost)
<1> DEFINE live == InWindow(elapsed)
           next == InWindow(elapsed)'
           units == Cardinality(live)
           fits == units + cost <= Limit
           kept == Kept(key, Rule, now)
           log  == IF Cardinality(kept) + cost <= Limit
                   THEN kept \cup Members(now, calls, cost) ELSE kept
<1>1. /\ now \in Nat /\ now = elapsed /\ cost \in 1..Limit /\ units \in 0..Limit
      /\ Cardinality(kept) = units
  <2>1. now \in Nat /\ now = elapsed /\ cost \in 1..Limit
    BY DEF IInv, SteppedInv, StateOK, InStep
  <2>2. units \in 0..Limit /\ Cardinality(kept) = units
    BY ReplyEffect
  <2> QED BY <2>1, <2>2
<1>2. /\ admitted' = IF fits THEN admitted \cup NewUnits(cost) ELSE admitted
      /\ now' = now /\ elapsed' = elapsed
  BY <1>1, CheckEffect
<1>3. IInv'
  BY CheckKeeps
<1>4. reply' \in Eager!Replies
  BY <1>3 DEF IInv, TypeOK, Eager!Replies
<1>5. \A u \in NewUnits(cost) : u \notin admitted /\ u.at = elapsed
  <2>1. \A u \in NewUnits(cost) : u.seq = calls /\ u.at = elapsed
    BY DEF NewUnits
  <2>2. calls \in Nat /\ \A u \in admitted : u.seq < calls
    BY DEF IInv, SteppedInv, StateOK, Named
  <2> QED BY <2>1, <2>2
<1>6. fits => next = live \cup NewUnits(cost) /\ live \cap NewUnits(cost) = {}
  BY <1>1, <1>2, <1>5 DEF InWindow
<1>7. ~fits => next = live
  BY <1>2 DEF InWindow
<1>8. IsFiniteSet(NewUnits(cost)) /\ Cardinality(NewUnits(cost)) = cost
  <2> DEFINE f == [j \in 1..cost |-> [at |-> elapsed, score |-> now, seq |-> calls, i |-> j]]
  <2>1. f \in [1..cost -> NewUnits(cost)]
    BY DEF NewUnits
  <2>2. \A j, k \in 1..cost : f[j] = f[k] => j = k
    OBVIOUS
  <2>3. ASSUME NEW u \in NewUnits(cost) PROVE \E j \in 1..cost : f[j] = u
    <3>1. /\ u.i \in 1..cost
          /\ u = [at |-> elapsed, score |-> now, seq |-> calls, i |-> u.i]
      BY DEF NewUnits
    <3> QED BY <3>1
  <2>4. f \in Bijection(1..cost, NewUnits(cost))
    BY <2>1, <2>2, <2>3 DEF Bijection, Injection, Surjection, IsInjective
  <2>5. ExistsBijection(1..cost, NewUnits(cost))
    BY <2>4 DEF ExistsBijection
  <2>6. IsFiniteSet(1..cost) /\ Cardinality(1..cost) = cost
    BY <1>1, FS_Interval
  <2> QED BY <2>5, <2>6, FS_Bijection
<1>9. IsFiniteSet(live)
  BY UnitsAreKept DEF IInv
<1>10. Cardinality(next) = IF fits THEN units + cost ELSE units
  <2>1. CASE fits
    <3> DEFINE new == NewUnits(cost)
    <3>1. next = live \cup new /\ live \cap new = {}
      BY <1>6, <2>1
    <3>2. IsFiniteSet(new) /\ Cardinality(new) = cost
      BY <1>8
    <3> HIDE DEF live, next, new
    <3>3. Cardinality(live \cup new)
            = Cardinality(live) + Cardinality(new) - Cardinality(live \cap new)
      BY <1>9, <3>2, FS_Union
    <3>4. Cardinality(live \cap new) = 0
      BY <3>1, FS_EmptySet
    <3>5. Cardinality(next) = units + cost
      BY <1>1, <3>1, <3>2, <3>3, <3>4
    <3> QED BY <2>1, <3>5
  <2>2. CASE ~fits
    BY <1>7, <2>2
  <2> QED BY <2>1, <2>2
<1>11. Eager!FirstLeaves(reply'.resetMs, next)
  <2>1. /\ log # {} /\ log \subseteq Entries
        /\ \A e \in log : e.score > now - Window /\ e.score <= now
        /\ reply'.resetMs = ResetMs(log, Rule, now)
    BY ReplyEffect
  <2>2. key'.log = log
    BY CheckEffect DEF KeyAfter, NoWindow
  <2>3. ASSUME NEW u \in next PROVE Entry(u) \in log /\ Entry(u).score = u.at
    <3>1. u \in admitted' /\ Entry(u) \in key'.log
      BY <1>3 DEF IInv, SteppedInv, Covered, InWindow, Entry
    <3>2. Entry(u).score = u.at
      BY <1>3, <3>1 DEF IInv, InStep, Entry
    <3> QED BY <2>2, <3>1, <3>2
  <2>4. ASSUME NEW e \in log PROVE \E u \in next : e.score = u.at
    <3>1. PICK u \in admitted' : e = Entry(u)
      BY <1>3, <2>2 DEF IInv, InStep, Entry
    <3>2. u.score = u.at /\ e.score = u.at
      BY <1>3, <3>1 DEF IInv, InStep, Entry
    <3>3. u \in next
      BY <1>1, <1>2, <2>1, <3>1, <3>2 DEF InWindow
    <3> QED BY <3>2, <3>3
  <2> HIDE DEF log, next
  <2>5. PICK e \in log : reply'.resetMs = e.score + Window
    BY <2>1, OldestLeaves
  <2>6. PICK u \in next : e.score = u.at
    BY <2>4
  <2>7. \A d \in log : reply'.resetMs <= d.score + Window
    BY <2>1, OldestLeaves
  <2>8. u.at + Window = reply'.resetMs
    BY <2>5, <2>6
  <2>9. \A v \in next : v.at + Window >= reply'.resetMs
    <3> TAKE v \in next
    <3>1. reply'.resetMs <= Entry(v).score + Window /\ Entry(v).score = v.at
      BY <2>3, <2>7
    <3>2. reply'.resetMs \in Int /\ v.at \in Int
      <4>1. v \in admitted'
        BY DEF next, InWindow
      <4> QED BY <1>3, <4>1 DEF IInv, TypeOK, StateOK, Units
    <3> QED BY <3>1, <3>2
  <2> QED BY <2>8, <2>9 DEF Eager!FirstLeaves
<1>12. reply'.remaining = Limit - Cardinality(next)
  <2>1. /\ fits => reply'.remaining = Limit - units - cost
        /\ ~fits => reply'.remaining = Limit - units
    BY ReplyEffect
  <2> QED BY <1>1, <1>10, <2>1
<1>13. Eager!Grant(cost) \/ Eager!Refuse(cost)
  <2>1. reply'.allowed \in BOOLEAN /\ reply'.allowed = fits
    BY <1>3, ReplyEffect DEF IInv, TypeOK
  <2>2. CASE fits
    <3>1. next \ live = NewUnits(cost) /\ live \subseteq next
      BY <1>6, <2>2
    <3>2. reply'.allowed = TRUE /\ reply'.retryAfterMs = 0
      BY <2>1, <2>2, ReplyEffect
    <3>3. /\ Cardinality(next \ live) = cost
          /\ \A u \in next \ live : u.at = elapsed
      BY <1>5, <1>8, <3>1
    <3> QED BY <2>2, <3>1, <3>2, <3>3, SameCardinality DEF Eager!Grant
  <2>3. CASE ~fits
    <3>1. reply'.retryAfterMs = reply'.resetMs - now
      BY <2>3, ReplyEffect
    <3>2. reply'.allowed = FALSE
      BY <2>1, <2>3
    <3>3. elapsed + reply'.retryAfterMs = reply'.resetMs
      BY <1>1, <1>3, <3>1 DEF IInv, TypeOK
    <3>4. units + cost > Limit
      BY <1>1, <2>3
    <3>5. Eager!FirstLeaves(elapsed + reply'.retryAfterMs, live)
      BY <1>7, <1>11, <2>3, <3>3
    <3> QED BY <1>7, <2>3, <3>2, <3>4, <3>5, SameCardinality DEF Eager!Refuse
  <2> QED BY <2>2, <2>3
<1> QED BY <1>2, <1>4, <1>11, <1>12, <1>13, SameCardinality DEF Eager!Take

LEMMA NextImplements == IInv /\ [Next]_vars => [Eager!Next]_(Eager!vars)
<1> SUFFICES ASSUME IInv, [Next]_vars PROVE [Eager!Next]_(Eager!vars)
  OBVIOUS
<1>1. CASE Tick
  BY <1>1, TickImplements DEF Eager!Next
<1>2. CASE Expire
  BY <1>2 DEF Expire, Eager!vars, InWindow
<1>3. ASSUME NEW cost \in Costs, Check(cost) PROVE Eager!Next
  BY <1>3, CheckImplements DEF Eager!Next
<1>4. CASE UNCHANGED vars
  BY <1>4 DEF vars, Eager!vars, InWindow
<1> QED BY <1>1, <1>2, <1>3, <1>4 DEF Next

\* The script implements the window from which every unit leaves on time: lazy
\* eviction and expiry cannot be observed, and every reply is exact.
THEOREM Implements == Spec => ImplementsEagerWindow
<1> QED BY InitImplements, NextImplements, Invariance, PTL
        DEF Spec, ImplementsEagerWindow, Eager!Spec

-----------------------------------------------------------------------------
(***************************************************************************)
(* What a refused caller was told stays true while time passes: the units  *)
(* that stood in its way, and the moment the first of them leaves.         *)
(***************************************************************************)
Told ==
  ~reply.allowed =>
    /\ asked.at <= elapsed
    /\ \A u \in admitted : u.at <= asked.at
    /\ Cardinality(InWindow(asked.at)) + asked.cost > Limit
    /\ Eager!FirstLeaves(asked.at + reply.retryAfterMs, InWindow(asked.at))

LEMMA CheckTells ==
  ASSUME IInv, NEW cost \in Costs, Check(cost)
  PROVE  Told'
<1> SUFFICES ASSUME ~reply'.allowed PROVE Told'
  BY DEF Told
<1>1. /\ asked' = [cost |-> cost, at |-> elapsed] /\ elapsed' = elapsed
      /\ elapsed \in Nat /\ admitted \subseteq Units
  BY DEF Check, IInv, SteppedInv, StateOK
<1>2. Eager!Refuse(cost)
  BY CheckImplements DEF Eager!Take, Eager!Grant
<1>3. admitted' = admitted
  BY DEF Check, RunWindow
<1>4. InWindow(elapsed)' = InWindow(elapsed) /\ InWindow(asked.at)' = InWindow(elapsed)
  BY <1>1, <1>3 DEF InWindow
<1>5. Cardinality(InWindow(elapsed)) + cost > Limit
      /\ Eager!FirstLeaves(elapsed + reply'.retryAfterMs, InWindow(elapsed))
  BY <1>2, SameCardinality DEF Eager!Refuse
<1>6. \A u \in admitted : u.at <= elapsed
  BY DEF IInv, SteppedInv, Named
<1>7. asked'.at = elapsed /\ asked'.cost = cost
  BY <1>1
<1>8. Eager!FirstLeaves(asked.at + reply.retryAfterMs, InWindow(asked.at))'
  BY <1>4, <1>5, <1>7 DEF Eager!FirstLeaves
<1> QED BY <1>1, <1>3, <1>4, <1>5, <1>6, <1>7, <1>8 DEF Told

LEMMA NextTells == IInv /\ Told /\ [Next]_vars => Told'
<1> SUFFICES ASSUME IInv, Told, [Next]_vars PROVE Told'
  OBVIOUS
<1>1. ASSUME NEW cost \in Costs, Check(cost) PROVE Told'
  BY <1>1, CheckTells
<1>2. CASE Tick \/ Expire \/ UNCHANGED vars
  <2>1. /\ reply' = reply /\ asked' = asked /\ admitted' = admitted
        /\ elapsed \in Nat /\ elapsed' \in {elapsed, elapsed + 1} /\ asked.at \in Nat
    BY <1>2 DEF Tick, Expire, vars, IInv, SteppedInv, StateOK, TypeOK
  <2>2. asked.at <= elapsed => asked.at <= elapsed'
    BY <2>1
  <2>3. InWindow(asked.at)' = InWindow(asked.at)
    BY <2>1 DEF InWindow
  <2> QED BY <2>1, <2>2, <2>3 DEF Told, Eager!FirstLeaves
<1> QED BY <1>1, <1>2 DEF Next

LEMMA AlwaysTold == Spec => [](IInv /\ Told)
<1>1. Init => Told
  BY DEF Init, Told
<1> QED BY <1>1, InitIInv, NextKeeps, NextTells, PTL DEF Spec

\* A refused caller that comes back before its retryAfterMs finds the window as full
\* as it was.
THEOREM NoEarlier == Spec => []NoEarlierSlot
<1>1. ASSUME IInv, Told PROVE NoEarlierSlot
  <2> SUFFICES ASSUME ~reply.allowed, elapsed < asked.at + reply.retryAfterMs
               PROVE  Cardinality(InWindow(elapsed)) + asked.cost > Limit
    BY DEF NoEarlierSlot
  <2>1. /\ elapsed \in Nat /\ asked.at \in Nat /\ asked.cost \in Nat
        /\ reply.retryAfterMs \in Nat /\ admitted \subseteq Units
    BY <1>1 DEF IInv, SteppedInv, StateOK, TypeOK
  <2>2. /\ asked.at <= elapsed
        /\ Cardinality(InWindow(asked.at)) + asked.cost > Limit
        /\ \A u \in InWindow(asked.at) : u.at + Window >= asked.at + reply.retryAfterMs
    BY <1>1 DEF Told, Eager!FirstLeaves
  <2>3. \A u \in InWindow(asked.at) : u \in admitted /\ u.at <= asked.at /\ u.at \in Nat
    BY <2>1 DEF InWindow, Units
  <2>4. InWindow(asked.at) \subseteq InWindow(elapsed)
    <3> SUFFICES ASSUME NEW u \in InWindow(asked.at)
                 PROVE  u \in admitted /\ elapsed - Window < u.at /\ u.at <= elapsed
      BY DEF InWindow
    <3> QED BY <2>1, <2>2, <2>3
  <2>5. /\ Cardinality(InWindow(asked.at)) <= Cardinality(InWindow(elapsed))
        /\ Cardinality(InWindow(asked.at)) \in Nat /\ Cardinality(InWindow(elapsed)) \in Nat
    <3>1. IsFiniteSet(InWindow(elapsed))
      BY <1>1, UnitsAreKept DEF IInv
    <3> HIDE DEF InWindow
    <3> QED BY <2>4, <3>1, FewerUnits
  <2> QED BY <2>1, <2>2, <2>5
<1> QED BY <1>1, AlwaysTold, PTL

\* A refused caller of cost one that waits its retryAfterMs is admitted, if nobody else
\* is checked in the meantime.
THEOREM EnoughForOne == Spec => []WaitEnoughForOne
<1>1. ASSUME IInv, Told PROVE WaitEnoughForOne
  <2> SUFFICES ASSUME ~reply.allowed, asked.cost = 1,
                      elapsed >= asked.at + reply.retryAfterMs
               PROVE  Cardinality(Kept(key, Rule, now)) + 1 <= Limit
    BY DEF WaitEnoughForOne, Fits, Rule
  <2> DEFINE then == InWindow(asked.at)
             units == InWindow(elapsed)
  <2>1. /\ elapsed \in 0..MaxTime /\ asked.at \in Nat
        /\ reply.retryAfterMs \in Nat /\ admitted \subseteq Units
    BY <1>1 DEF IInv, SteppedInv, StateOK, TypeOK
  <2>2. /\ asked.at <= elapsed
        /\ \A u \in admitted : u.at <= asked.at
        /\ \E u \in then : u.at + Window = asked.at + reply.retryAfterMs
    BY <1>1 DEF Told, Eager!FirstLeaves
  <2>3. PICK first \in then : first.at + Window = asked.at + reply.retryAfterMs
    BY <2>2
  <2>4. \A u \in units : u \in admitted /\ elapsed - Window < u.at /\ u.at \in Nat
    BY <2>1 DEF InWindow, Units
  <2>5. units \subseteq then \ {first}
    <3> SUFFICES ASSUME NEW u \in units PROVE u \in then /\ u # first
      OBVIOUS
    <3>1. asked.at - Window < u.at /\ u.at <= asked.at
      BY <2>1, <2>2, <2>4
    <3>2. u # first
      BY <2>1, <2>3, <2>4
    <3> QED BY <2>4, <3>1, <3>2 DEF InWindow
  <2>6. IsFiniteSet(then) /\ Cardinality(then) <= Limit
    <3>1. then \subseteq admitted
      BY DEF InWindow
    <3>2. asked.at \in 0..elapsed
      BY <2>1, <2>2
    <3> QED BY <1>1, <3>1, <3>2, FS_Subset DEF IInv, SteppedInv, WindowBound
  <2>7. Cardinality(Kept(key, Rule, now)) = Cardinality(units)
    BY <1>1, KeptAreUnits DEF IInv
  <2> HIDE DEF then, units
  <2>8. IsFiniteSet(then \ {first}) /\ Cardinality(then \ {first}) = Cardinality(then) - 1
    BY <2>3, <2>6, FS_RemoveElement
  <2>9. /\ Cardinality(units) <= Cardinality(then \ {first})
        /\ Cardinality(units) \in Nat /\ Cardinality(then \ {first}) \in Nat
    BY <2>5, <2>8, FewerUnits
  <2>10. Cardinality(then) \in Nat
    BY <2>6, FS_CardinalityType
  <2> QED BY <2>6, <2>7, <2>8, <2>9, <2>10
<1> QED BY <1>1, AlwaysTold, PTL
=============================================================================
