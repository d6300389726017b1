------------------------- MODULE RateLimiterProofs -------------------------
(* Proofs about RateLimiter, for every budget, window and stall. *)
EXTENDS RateLimiter, FiniteSetTheorems, TLAPS

\* A reading not yet used is at most Stall old, and none is ahead of the clock.
ReadingsOK ==
    /\ \A r \in Request : stamp[r] <= clock
    /\ \A r \in Request : pc[r] = "read" => clock <= stamp[r] + Stall
    /\ sweepAt <= clock
    /\ sweeping => clock <= sweepAt + Stall

\* An admission really happened between the reading that was recorded for it and
\* Stall ticks later.
AdmissionsOK ==
    \A r \in Request :
        pc[r] = "admitted" => stamp[r] <= at[r] /\ at[r] <= stamp[r] + Stall /\ at[r] <= clock

\* Nothing a trim has removed is recent: this is what makes the stored list
\* count every admission the budget is about.
HitsOK ==
    /\ \A r \in hits : pc[r] = "admitted"
    /\ \A a \in Addr : Recent(a) \subseteq hits

IInv == TypeOK /\ ReadingsOK /\ AdmissionsOK /\ HitsOK /\ BudgetKept /\ NoFalseAlarm

-----------------------------------------------------------------------------
\* Every initial state satisfies the invariant.
LEMMA InitInv == Init => IInv
  <1> SUFFICES ASSUME Init PROVE IInv
    OBVIOUS
  <1>1. TypeOK
    <2>1. 0 \in 0..MaxTime
      BY LimiterAssumption
    <2>2. sweeping \in BOOLEAN
      BY Zenon DEF Init
    <2>3. stamp \in [Request -> 0..MaxTime] /\ at \in [Request -> 0..MaxTime]
      BY <2>1 DEF Init
    <2>4. pc \in [Request -> {"idle", "read", "admitted", "limited"}]
      BY DEF Init
    <2>5. QED
      BY <2>1, <2>2, <2>3, <2>4 DEF Init, TypeOK
  <1>7. ReadingsOK /\ AdmissionsOK
    <2>1. ~sweeping
      BY Zenon DEF Init
    <2>2. QED
      BY <2>1, LimiterAssumption DEF Init, ReadingsOK, AdmissionsOK
  <1>5. HitsOK
    BY DEF Init, HitsOK, Recent, Admitted
  <1>6. NoFalseAlarm
    BY DEF Init, NoFalseAlarm
  <1>2. \A a \in Addr : Recent(a) = {}
    BY DEF Init, Recent, Admitted
  <1>3. BudgetKept
    BY <1>2, FS_EmptySet, LimiterAssumption DEF BudgetKept
  <1>4. QED
    BY <1>1, <1>3, <1>5, <1>6, <1>7 DEF IInv

\* Counting only grows with the set, among requests.
LEMMA Counting ==
    ASSUME NEW S, NEW T, S \subseteq T, T \subseteq Request
    PROVE  Cardinality(S) <= Cardinality(T) /\ Cardinality(S) \in Nat /\ Cardinality(T) \in Nat
  BY LimiterAssumption, FS_Subset, FS_CardinalityType

\* Admissions are never forgotten and limited requests keep their reading, so an
\* earlier justification of a refusal stands.
LEMMA AlarmStands ==
    ASSUME IInv, TypeOK', from' = from,
           \A r \in Request : pc[r] \in {"admitted", "limited"} =>
                                  pc'[r] = pc[r] /\ stamp'[r] = stamp[r]
    PROVE  \A r \in Request :
              pc[r] = "limited" =>
                Cardinality({q \in Admitted(from[r])' : stamp'[q] + Window > stamp'[r]}) >= Burst
  <1> SUFFICES ASSUME NEW r \in Request, pc[r] = "limited"
               PROVE  Cardinality({q \in Admitted(from[r])' : stamp'[q] + Window > stamp'[r]}) >= Burst
    OBVIOUS
  <1> DEFINE S == {q \in Admitted(from[r]) : stamp[q] + Window > stamp[r]}
             T == {q \in Admitted(from[r])' : stamp'[q] + Window > stamp'[r]}
  <1>1. S \subseteq T /\ T \subseteq Request
    BY DEF Admitted
  <1>2. Cardinality(S) >= Burst
    BY DEF IInv, NoFalseAlarm
  <1>3. QED
    BY <1>1, <1>2, Counting, LimiterAssumption

\* A step that admits nobody only lets the recent admissions age.
LEMMA BudgetStands ==
    ASSUME IInv, TypeOK', from' = from, at' = at, clock <= clock',
           \A r \in Request : pc'[r] = "admitted" => pc[r] = "admitted"
    PROVE  BudgetKept' /\ \A a \in Addr : Recent(a)' \subseteq Recent(a)
  <1>1. \A a \in Addr : Recent(a)' \subseteq Recent(a)
    BY LimiterAssumption DEF Recent, Admitted, IInv, TypeOK
  <1>2. ASSUME NEW a \in Addr PROVE Cardinality(Recent(a)') <= Burst
    <2>1. Recent(a) \subseteq Request
      BY DEF Recent, Admitted
    <2>2. Cardinality(Recent(a)) <= Burst
      BY DEF IInv, BudgetKept
    <2>3. QED
      BY <1>1, <2>1, <2>2, Counting, LimiterAssumption
  <1>3. QED
    BY <1>1, <1>2 DEF BudgetKept

\* A trim by a reading that is not ahead of the clock keeps every recent hit.
LEMMA TrimKeepsRecent ==
    ASSUME IInv, NEW a \in Addr, NEW t \in 0..MaxTime, t <= clock, NEW S,
           Recent(a) \subseteq S
    PROVE  Recent(a) \subseteq Trimmed(S, t)
  BY LimiterAssumption
  DEF IInv, TypeOK, AdmissionsOK, Recent, Admitted, Trimmed, Fresh

\* Every step preserves the invariant.
LEMMA InvStep == IInv /\ [Next]_vars => IInv'
  <1> SUFFICES ASSUME IInv, [Next]_vars PROVE IInv'
    OBVIOUS
  <1> USE LimiterAssumption
  <1>1. CASE Tick
    <2>1. TypeOK' /\ ReadingsOK' /\ AdmissionsOK'
      BY <1>1 DEF IInv, Tick, TypeOK, ReadingsOK, AdmissionsOK
    <2>2. BudgetKept' /\ \A a \in Addr : Recent(a)' \subseteq Recent(a)
      BY <1>1, <2>1, BudgetStands DEF Tick, IInv, TypeOK
    <2>3. HitsOK'
      BY <1>1, <2>2 DEF IInv, HitsOK, Tick
    <2>4. NoFalseAlarm'
      BY <1>1, <2>1, AlarmStands DEF Tick, NoFalseAlarm
    <2>5. QED
      BY <2>1, <2>2, <2>3, <2>4 DEF IInv
  <1>2. ASSUME NEW r \in Request, ReadClock(r) PROVE IInv'
    <2>1. TypeOK' /\ ReadingsOK' /\ AdmissionsOK'
      BY <1>2 DEF IInv, ReadClock, TypeOK, ReadingsOK, AdmissionsOK
    <2>2. BudgetKept' /\ \A a \in Addr : Recent(a)' \subseteq Recent(a)
      BY <1>2, <2>1, BudgetStands DEF ReadClock, IInv, TypeOK
    <2>3. HitsOK'
      BY <1>2, <2>2 DEF IInv, HitsOK, ReadClock, TypeOK
    <2>4. NoFalseAlarm'
      <3>1. \A q \in Request : pc'[q] = "limited" => pc[q] = "limited"
        BY <1>2 DEF ReadClock, IInv, TypeOK
      <3>2. \A q \in Request : pc[q] \in {"admitted", "limited"} =>
                pc'[q] = pc[q] /\ stamp'[q] = stamp[q]
        BY <1>2 DEF ReadClock, IInv, TypeOK
      <3>3. QED
        BY <1>2, <2>1, <3>1, <3>2, AlarmStands DEF ReadClock, NoFalseAlarm
    <2>5. QED
      BY <2>1, <2>2, <2>3, <2>4 DEF IInv
  <1>3. ASSUME NEW r \in Request, Limit(r) PROVE IInv'
    <2> DEFINE kept == Trimmed(HitsOf(from[r]), stamp[r])
    <2>0. kept \subseteq HitsOf(from[r]) /\ stamp[r] \in 0..MaxTime /\ stamp[r] <= clock
          /\ from[r] \in Addr
      BY DEF Trimmed, IInv, TypeOK, ReadingsOK
    <2>1. TypeOK' /\ ReadingsOK' /\ AdmissionsOK'
      BY <1>3, <2>0 DEF IInv, Limit, TypeOK, ReadingsOK, AdmissionsOK, HitsOf
    <2>2. BudgetKept' /\ \A a \in Addr : Recent(a)' \subseteq Recent(a)
      BY <1>3, <2>1, BudgetStands DEF Limit, IInv, TypeOK
    <2>3. HitsOK'
      <3>1. \A q \in hits' : q \in hits
        BY <1>3, <2>0 DEF Limit, HitsOf
      <3>2. \A q \in hits' : pc'[q] = "admitted"
        BY <1>3, <3>1 DEF Limit, IInv, HitsOK, TypeOK
      <3>3. ASSUME NEW a \in Addr PROVE Recent(a)' \subseteq hits'
        <4>1. CASE a = from[r]
          <5>1. Recent(a) \subseteq HitsOf(from[r])
            BY <4>1 DEF IInv, HitsOK, HitsOf, Recent, Admitted
          <5>2. Recent(a) \subseteq kept
            BY <2>0, <5>1, TrimKeepsRecent
          <5>3. QED
            BY <1>3, <2>2, <5>2 DEF Limit
        <4>2. CASE a # from[r]
          <5>1. Recent(a) \subseteq hits \ HitsOf(from[r])
            BY <4>2 DEF IInv, HitsOK, HitsOf, Recent, Admitted
          <5>2. QED
            BY <1>3, <2>2, <5>1 DEF Limit
        <4>3. QED
          BY <4>1, <4>2
      <3>4. QED
        BY <3>2, <3>3 DEF HitsOK
    <2>4. NoFalseAlarm'
      <3>1. kept \subseteq {q \in Admitted(from[r])' : stamp'[q] + Window > stamp'[r]}
        BY <1>3 DEF Limit, Trimmed, Fresh, HitsOf, Admitted, IInv, HitsOK, TypeOK
      <3>2. Cardinality(kept) >= Burst
        BY <1>3 DEF Limit, OverBudget
      <3>3. {q \in Admitted(from[r])' : stamp'[q] + Window > stamp'[r]} \subseteq Request
        BY DEF Admitted
      <3>4. Cardinality({q \in Admitted(from[r])' : stamp'[q] + Window > stamp'[r]}) >= Burst
        BY <3>1, <3>2, <3>3, Counting
      <3>5. \A q \in Request : pc'[q] = "limited" => q = r \/ pc[q] = "limited"
        BY <1>3 DEF Limit, IInv, TypeOK
      <3>6. \A q \in Request : pc[q] \in {"admitted", "limited"} =>
                pc'[q] = pc[q] /\ stamp'[q] = stamp[q]
        BY <1>3 DEF Limit, IInv, TypeOK
      <3>7. QED
        BY <1>3, <2>1, <3>4, <3>5, <3>6, AlarmStands DEF Limit, NoFalseAlarm
    <2>5. QED
      BY <2>1, <2>2, <2>3, <2>4 DEF IInv
  <1>4. ASSUME NEW r \in Request, Admit(r) PROVE IInv'
    <2> DEFINE kept == Trimmed(HitsOf(from[r]), stamp[r])
    <2>0. /\ kept \subseteq HitsOf(from[r]) /\ kept \subseteq Request
          /\ stamp[r] \in 0..MaxTime /\ stamp[r] <= clock /\ from[r] \in Addr
          /\ r \notin hits
      BY <1>4 DEF Trimmed, IInv, TypeOK, ReadingsOK, HitsOf, HitsOK, Admit
    <2>1. TypeOK' /\ ReadingsOK' /\ AdmissionsOK'
      BY <1>4, <2>0 DEF IInv, Admit, TypeOK, ReadingsOK, AdmissionsOK, HitsOf
    <2>2. \A a \in Addr : Recent(a)' \subseteq Recent(a) \cup {r}
      BY <1>4 DEF Admit, Recent, Admitted, IInv, TypeOK
    <2>3. \A a \in Addr : a # from[r] => Recent(a)' \subseteq Recent(a)
      BY <1>4 DEF Admit, Recent, Admitted, IInv, TypeOK
    <2>4. Recent(from[r]) \subseteq kept
      <3>1. Recent(from[r]) \subseteq HitsOf(from[r])
        BY <2>0 DEF IInv, HitsOK, HitsOf, Recent, Admitted
      <3>2. QED
        BY <2>0, <3>1, TrimKeepsRecent
    <2>5. BudgetKept'
      <3> SUFFICES ASSUME NEW a \in Addr PROVE Cardinality(Recent(a)') <= Burst
        BY DEF BudgetKept
      <3>1. CASE a = from[r]
        <4>1. Recent(a)' \subseteq kept \cup {r} /\ r \notin kept
          BY <2>0, <2>2, <2>4, <3>1 DEF HitsOf
        <4>2. IsFiniteSet(kept)
          BY <2>0, FS_Subset
        <4>3. Cardinality(kept \cup {r}) = Cardinality(kept) + 1 /\ Cardinality(kept) \in Nat
          BY <4>1, <4>2, FS_AddElement, FS_CardinalityType
        <4>4. Cardinality(kept) < Burst
          BY <1>4, <4>3 DEF Admit, OverBudget
        <4>5. kept \cup {r} \subseteq Request
          BY <2>0
        <4>6. Cardinality(Recent(a)') <= Cardinality(kept \cup {r})
              /\ Cardinality(Recent(a)') \in Nat
          BY <4>1, <4>5, Counting
        <4>7. QED
          BY <4>3, <4>4, <4>6
      <3>2. CASE a # from[r]
        <4>1. Recent(a)' \subseteq Recent(a) /\ Recent(a) \subseteq Request
          BY <2>3, <3>2 DEF Recent, Admitted
        <4>2. Cardinality(Recent(a)) <= Burst
          BY DEF IInv, BudgetKept
        <4>3. QED
          BY <4>1, <4>2, Counting
      <3>3. QED
        BY <3>1, <3>2
    <2>6. HitsOK'
      <3>1. \A q \in hits' : pc'[q] = "admitted"
        BY <1>4, <2>0 DEF Admit, IInv, HitsOK, HitsOf, TypeOK
      <3>2. ASSUME NEW a \in Addr PROVE Recent(a)' \subseteq hits'
        <4>1. CASE a = from[r]
          BY <1>4, <2>2, <2>4, <4>1 DEF Admit
        <4>2. CASE a # from[r]
          <5>1. Recent(a) \subseteq hits \ HitsOf(from[r])
            BY <4>2 DEF IInv, HitsOK, HitsOf, Recent, Admitted
          <5>2. QED
            BY <1>4, <2>3, <4>2, <5>1 DEF Admit
        <4>3. QED
          BY <4>1, <4>2
      <3>3. QED
        BY <3>1, <3>2 DEF HitsOK
    <2>7. NoFalseAlarm'
      <3>1. \A q \in Request : pc'[q] = "limited" => pc[q] = "limited"
        BY <1>4 DEF Admit, IInv, TypeOK
      <3>2. \A q \in Request : pc[q] \in {"admitted", "limited"} =>
                pc'[q] = pc[q] /\ stamp'[q] = stamp[q]
        BY <1>4 DEF Admit, IInv, TypeOK
      <3>3. QED
        BY <1>4, <2>1, <3>1, <3>2, AlarmStands DEF Admit, NoFalseAlarm
    <2>8. QED
      BY <2>1, <2>5, <2>6, <2>7 DEF IInv
  <1>5. CASE StartSweep
    <2>1. TypeOK' /\ ReadingsOK' /\ AdmissionsOK'
      BY <1>5 DEF IInv, StartSweep, TypeOK, ReadingsOK, AdmissionsOK
    <2>2. HitsOK' /\ BudgetKept' /\ NoFalseAlarm'
      BY <1>5 DEF IInv, StartSweep, HitsOK, BudgetKept, NoFalseAlarm, Recent, Admitted
    <2>3. QED
      BY <2>1, <2>2 DEF IInv
  <1>6. CASE SweepHits
    <2>1. TypeOK' /\ ReadingsOK' /\ AdmissionsOK'
      BY <1>6 DEF IInv, SweepHits, TypeOK, ReadingsOK, AdmissionsOK, Trimmed
    <2>2. BudgetKept' /\ NoFalseAlarm'
      BY <1>6 DEF IInv, SweepHits, BudgetKept, NoFalseAlarm, Recent, Admitted
    <2>3. \A a \in Addr : Recent(a) \subseteq Trimmed(hits, sweepAt)
      BY TrimKeepsRecent DEF IInv, HitsOK, TypeOK, ReadingsOK
    <2>4. HitsOK'
      BY <1>6, <2>3 DEF IInv, SweepHits, HitsOK, Trimmed, Recent, Admitted
    <2>5. QED
      BY <2>1, <2>2, <2>4 DEF IInv
  <1>7. CASE UNCHANGED vars
    BY <1>7 DEF vars, IInv, TypeOK, ReadingsOK, AdmissionsOK, HitsOK, BudgetKept,
                NoFalseAlarm, Recent, Admitted
  <1>8. QED
    BY <1>1, <1>2, <1>3, <1>4, <1>5, <1>6, <1>7 DEF Next

\* The invariant holds throughout.
LEMMA Invariance == Spec => []IInv
  BY InitInv, InvStep, PTL DEF Spec

\* The variables keep their types: Manager.ipHits holds hits of requests only.
THEOREM LimiterTyped == Spec => []TypeOK
  BY Invariance, PTL DEF IInv

\* rateLimited: no window of rateWindow less the longest stall admits more than
\* Burst requests of one address.
THEOREM BudgetIsKept == Spec => []BudgetKept
  BY Invariance, PTL DEF IInv

\* rateLimited: a refused request really was over its own address's budget.
THEOREM RefusalsAreEarned == Spec => []NoFalseAlarm
  BY Invariance, PTL DEF IInv
=============================================================================
