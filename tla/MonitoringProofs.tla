-------------------------- MODULE MonitoringProofs --------------------------
(* What the serving warnings and the gate's holds say of a log, for logs of
   any length, any latencies and any limits, and what the silence of the drift
   monitor says of a window that is materialised. *)
EXTENDS Monitoring, FiniteSetTheorems, WellFoundedInduction, TLAPS

Slow(rows, limit) == {n \in DOMAIN rows : rows[n].latency > limit}
Quick(rows, limit) == {n \in DOMAIN rows : rows[n].latency <= limit}

LEMMA LatencyType ==
  ASSUME NEW rows \in Seq(LogRow), NEW n \in DOMAIN rows
  PROVE  rows[n].latency \in Latencies /\ rows[n].latency \in Nat
<1>1. rows[n] \in LogRow
  OBVIOUS
<1>2. QED
  BY <1>1, MonitoringAssumption DEF LogRow

(* A request is within a limit or slower. *)
LEMMA WithinAndSlower ==
  ASSUME NEW rows \in Seq(LogRow), NEW limit \in Nat
  PROVE  /\ Within(rows, limit) \in Nat /\ Slower(rows, limit) \in Nat
         /\ Within(rows, limit) + Slower(rows, limit) = Len(rows)
<1>1. DOMAIN rows = 1..Len(rows) /\ Len(rows) \in Nat
  OBVIOUS
<1>2. IsFiniteSet(DOMAIN rows) /\ Cardinality(DOMAIN rows) = Len(rows)
  BY <1>1, FS_Interval
<1>3. \A n \in DOMAIN rows : rows[n].latency \in Nat
  BY LatencyType
<1>4. Quick(rows, limit) \subseteq DOMAIN rows /\ Slow(rows, limit) \subseteq DOMAIN rows
      /\ Slow(rows, limit) = DOMAIN rows \ Quick(rows, limit)
  BY <1>3 DEF Quick, Slow
<1>5. IsFiniteSet(Quick(rows, limit)) /\ IsFiniteSet(Slow(rows, limit))
  BY <1>2, <1>4, FS_Subset
<1>6. Cardinality(Quick(rows, limit)) \in Nat /\ Cardinality(Slow(rows, limit)) \in Nat
  BY <1>5, FS_CardinalityType
<1>7. Cardinality(Slow(rows, limit))
        = Len(rows) - Cardinality(DOMAIN rows \cap Quick(rows, limit))
  BY <1>2, <1>4, FS_Difference
<1>8. DOMAIN rows \cap Quick(rows, limit) = Quick(rows, limit)
  BY <1>4
<1>9. QED
  <2>1. Within(rows, limit) = Cardinality(Quick(rows, limit))
    BY DEF Within, Quick
  <2>2. Slower(rows, limit) = Cardinality(Slow(rows, limit))
    BY DEF Slower, Slow
  <2> DEFINE q == Cardinality(Quick(rows, limit))
             k == Cardinality(Slow(rows, limit))
  <2>3. q \in Nat /\ k \in Nat /\ k = Len(rows) - q /\ Len(rows) \in Nat
    BY <1>1, <1>6, <1>7, <1>8
  <2>4. Within(rows, limit) = q /\ Slower(rows, limit) = k
    BY <2>1, <2>2
  <2> HIDE DEF q, k
  <2>5. QED
    BY <2>3, <2>4

(* The more time, the more requests are within it. *)
LEMMA WithinGrows ==
  ASSUME NEW rows \in Seq(LogRow), NEW x \in Nat, NEW y \in Nat, x <= y
  PROVE  Within(rows, x) <= Within(rows, y)
<1>1. \A n \in DOMAIN rows : rows[n].latency \in Nat
  BY LatencyType
<1>2. Quick(rows, x) \subseteq Quick(rows, y)
  BY <1>1 DEF Quick
<1>3. IsFiniteSet(DOMAIN rows) /\ Quick(rows, y) \subseteq DOMAIN rows
  BY FS_Interval DEF Quick
<1>4. IsFiniteSet(Quick(rows, y))
  BY <1>3, FS_Subset
<1>5. Cardinality(Quick(rows, x)) <= Cardinality(Quick(rows, y))
  BY <1>2, <1>4, FS_Subset
<1>6. QED
  BY <1>5 DEF Within, Quick

LEMMA LeastOf ==
  ASSUME NEW T \in SUBSET Nat, T # {}
  PROVE  \E x \in T : \A y \in T : x <= y
<1>1. PICK x \in T : \A y \in T : ~(<<y, x>> \in OpToRel(<, Nat))
  BY NatLessThanWellFounded, WFMin
<1>2. x \in Nat /\ \A y \in T : y \in Nat
  OBVIOUS
<1>3. ASSUME NEW y \in T
      PROVE  ~(y < x)
  BY <1>1, <1>2 DEF OpToRel
<1>4. QED
  BY <1>2, <1>3

(* What is within a limit is within the slowest of it. *)
LEMMA SlowestWithin ==
  ASSUME NEW rows \in Seq(LogRow), NEW limit \in Nat, Within(rows, limit) > 0
  PROVE  \E x \in Latencies : x <= limit /\ Within(rows, x) = Within(rows, limit)
<1> DEFINE T == {limit - rows[n].latency : n \in Quick(rows, limit)}
<1>1. \A n \in DOMAIN rows : rows[n].latency \in Latencies /\ rows[n].latency \in Nat
  BY LatencyType
<1>2. Quick(rows, limit) # {}
  <2>1. Within(rows, limit) = Cardinality(Quick(rows, limit))
    BY DEF Within, Quick
  <2>2. Cardinality({}) = 0
    BY FS_EmptySet
  <2>3. Quick(rows, limit) = {} => Within(rows, limit) = 0
    BY <2>1, <2>2, Zenon
  <2>4. QED
    BY <2>3
<1>3. T \in SUBSET Nat /\ T # {}
  BY <1>1, <1>2 DEF Quick
<1>4. PICK d \in T : \A e \in T : d <= e
  BY <1>3, LeastOf
<1>5. PICK m \in Quick(rows, limit) : d = limit - rows[m].latency
  BY <1>4
<1> DEFINE x == rows[m].latency
<1>6. x \in Latencies /\ x \in Nat /\ x <= limit
  BY <1>1, <1>5 DEF Quick
<1>7. Quick(rows, x) = Quick(rows, limit)
  <2>1. ASSUME NEW n \in Quick(rows, limit)
        PROVE  rows[n].latency <= x
    <3>1. d <= limit - rows[n].latency
      BY <1>4
    <3>2. rows[n].latency \in Nat
      BY <1>1 DEF Quick
    <3>3. QED
      BY <1>5, <1>6, <3>1, <3>2
  <2>2. ASSUME NEW n \in Quick(rows, x)
        PROVE  n \in Quick(rows, limit)
    <3>1. n \in DOMAIN rows /\ rows[n].latency <= x /\ rows[n].latency \in Nat
      BY <1>1 DEF Quick
    <3>2. QED
      BY <1>6, <3>1 DEF Quick
  <2>3. QED
    BY <2>1, <2>2 DEF Quick
<1>8. QED
  BY <1>6, <1>7 DEF Within, Quick

(* The percentile is a latency, and the least with more than Rank requests
   within it. *)
LEMMA P95IsThere ==
  ASSUME NEW rows \in Seq(LogRow), rows # << >>
  PROVE  /\ P95(rows) \in Latencies
         /\ Within(rows, P95(rows)) > Rank(Len(rows))
         /\ \A y \in Latencies : Within(rows, y) > Rank(Len(rows)) => P95(rows) <= y
<1> DEFINE T == {x \in Latencies : Within(rows, x) > Rank(Len(rows))}
<1>1. Len(rows) \in Nat \ {0}
  OBVIOUS
<1>2. Rank(Len(rows)) \in Nat /\ Rank(Len(rows)) < Len(rows)
  BY <1>1 DEF Rank, Ceil95
<1>3. PICK most \in Latencies : \A x \in Latencies : x <= most
  BY MonitoringAssumption
<1>4. Slower(rows, most) = 0
  <2>1. \A n \in DOMAIN rows : rows[n].latency \in Latencies
    BY LatencyType
  <2>2. {n \in DOMAIN rows : rows[n].latency > most} = {}
    <3>1. most \in Nat /\ \A n \in DOMAIN rows : rows[n].latency \in Nat
                                                 /\ rows[n].latency <= most
      BY <1>3, <2>1, MonitoringAssumption
    <3>2. \A n \in DOMAIN rows : ~(rows[n].latency > most)
      BY <3>1
    <3>3. QED
      BY <3>2
  <2>3. QED
    BY <2>2, FS_EmptySet DEF Slower
<1>5. most \in T
  <2>1. most \in Nat
    BY MonitoringAssumption
  <2>2. Within(rows, most) \in Nat /\ Within(rows, most) + Slower(rows, most) = Len(rows)
    BY <2>1, WithinAndSlower
  <2>3. QED
    BY <1>1, <1>2, <1>4, <2>2
<1>6. \E x \in T : \A y \in T : x <= y
  BY <1>5, LeastOf, MonitoringAssumption
<1>7. QED
  BY <1>6 DEF P95

(* The percentile is beyond a limit exactly when more than one in twenty of the
   requests is. *)
LEMMA P95Counts ==
  ASSUME NEW rows \in Seq(LogRow), rows # << >>, NEW limit \in Nat
  PROVE  P95(rows) > limit <=> 20 * Slower(rows, limit) > Len(rows)
<1>1. Len(rows) \in Nat \ {0}
  OBVIOUS
<1>2. /\ Within(rows, limit) \in Nat /\ Slower(rows, limit) \in Nat
      /\ Within(rows, limit) + Slower(rows, limit) = Len(rows)
  BY WithinAndSlower
<1>3. Within(rows, limit) > Rank(Len(rows)) <=> ~(20 * Slower(rows, limit) > Len(rows))
  BY <1>1, <1>2 DEF Rank, Ceil95
<1>4. P95(rows) \in Nat
  BY P95IsThere, MonitoringAssumption
<1>5. P95(rows) <= limit => Within(rows, limit) > Rank(Len(rows))
  <2>1. SUFFICES ASSUME P95(rows) <= limit
                 PROVE  Within(rows, limit) > Rank(Len(rows))
    OBVIOUS
  <2>2. Within(rows, P95(rows)) <= Within(rows, limit)
    BY <1>4, <2>1, WithinGrows
  <2>3. Within(rows, P95(rows)) \in Nat /\ Rank(Len(rows)) \in Int
    BY <1>1, <1>4, WithinAndSlower DEF Rank, Ceil95
  <2>4. Within(rows, P95(rows)) > Rank(Len(rows))
    BY P95IsThere
  <2>5. QED
    BY <1>2, <2>2, <2>3, <2>4
<1>6. Within(rows, limit) > Rank(Len(rows)) => P95(rows) <= limit
  <2>1. SUFFICES ASSUME Within(rows, limit) > Rank(Len(rows))
                 PROVE  P95(rows) <= limit
    OBVIOUS
  <2>2. Within(rows, limit) > 0
    BY <1>1, <1>2, <2>1 DEF Rank, Ceil95
  <2>3. PICK x \in Latencies : x <= limit /\ Within(rows, x) = Within(rows, limit)
    BY <2>2, SlowestWithin
  <2>4. P95(rows) <= x
    BY <2>1, <2>3, P95IsThere
  <2>5. x \in Nat
    BY MonitoringAssumption
  <2>6. QED
    BY <1>4, <2>3, <2>4, <2>5
<1>7. QED
  BY <1>3, <1>4, <1>5, <1>6

LEMMA ProductMonotone ==
  ASSUME NEW a \in Int, NEW b \in Int, NEW c \in Nat, a <= b
  PROVE  a * c <= b * c
OBVIOUS

(* A rounded rate is within half a millionth of the rate. *)
LEMMA RoundedIsClose ==
  ASSUME NEW part \in Nat, NEW whole \in Nat \ {0}, NEW m \in Rounded(part, whole)
  PROVE  /\ m \in Int
         /\ 2 * (Million * part - m * whole) <= whole
         /\ 2 * (m * whole - Million * part) <= whole
<1>1. Million * part \in Int /\ whole \in Nat /\ whole > 0
  BY DEF Million
<1>2. (Million * part) \div whole \in Int
  BY <1>1
<1>3. m \in Int
  BY <1>2 DEF Rounded
<1>4. 2 * (Million * part - m * whole) \in (-whole)..whole
  BY DEF Rounded
<1> DEFINE p == m * whole
           q == Million * part
<1>5. p \in Int /\ q \in Int
  BY <1>1, <1>3
<1>6. 2 * (q - p) \in (-whole)..whole
  BY <1>4
<1> HIDE DEF p, q
<1>7. 2 * (q - p) <= whole /\ 2 * (p - q) <= whole
  BY <1>1, <1>5, <1>6
<1>8. QED
  BY <1>3, <1>7 DEF p, q

(* A rate above a half is one of a majority; a majority of fewer than a million
   has a rate above a half. *)
LEMMA RoundedMajority ==
  ASSUME NEW part \in Nat, NEW whole \in Nat \ {0}, NEW m \in Rounded(part, whole)
  PROVE  /\ 2 * m > Million => 2 * part > whole
         /\ 2 * part > whole /\ whole < Million => 2 * m > Million
<1> DEFINE p == m * whole
<1>1. m \in Int /\ p \in Int
  BY RoundedIsClose
<1>2. 2 * (1000000 * part - p) <= whole /\ 2 * (p - 1000000 * part) <= whole
  BY RoundedIsClose DEF Million
<1>3. 500001 <= m => 500001 * whole <= p
  BY <1>1, ProductMonotone
<1>4. m <= 500000 => p <= 500000 * whole
  BY <1>1, ProductMonotone
<1> HIDE DEF p
<1>5. QED
  BY <1>1, <1>2, <1>3, <1>4 DEF Million

(* In fewer than a million, only nothing is rounded to nothing. *)
LEMMA RoundedToNothing ==
  ASSUME NEW part \in Nat, NEW whole \in Nat \ {0}, NEW m \in Rounded(part, whole),
         ~(m > 0), whole < Million
  PROVE  part = 0
<1> DEFINE p == m * whole
<1>1. m \in Int /\ p \in Int
  BY RoundedIsClose
<1>2. 2 * (1000000 * part - p) <= whole
  BY RoundedIsClose DEF Million
<1>3. p <= 0 * whole
  BY <1>1, ProductMonotone
<1> HIDE DEF p
<1>4. QED
  BY <1>1, <1>2, <1>3 DEF Million

-----------------------------------------------------------------------------
(* What the metrics and the verdict were made of. *)

MonInv ==
  /\ input \in Input
  /\ log \in Seq(LogRow)
  /\ serving # None =>
       \E rows \in Seq(LogRow) : \E rate \in Rounded(Failures(rows), Len(rows)) :
         serving = ServingMetrics(rows, rate)
  /\ verdict # None =>
       \E rows \in Seq(LogRow) : \E rate \in Rounded(Failures(rows), Len(rows)) :
         /\ rows # << >> /\ verdict.of = rows
         /\ verdict.holds = GateHolds(ServingMetrics(rows, rate))
         /\ verdict.warned = ServingWarnings(rows, rate)

LEMMA MonInit_MonInv == MonInit => MonInv
<1> SUFFICES ASSUME MonInit
             PROVE  MonInv
  OBVIOUS
<1>1. input \in Input
  BY InputsAssumption DEF MonInit
<1>2. log \in Seq(LogRow) /\ serving = None /\ verdict = None
  BY DEF MonInit
<1>3. QED
  BY <1>1, <1>2 DEF MonInv

LEMMA MonNext_MonInv == MonInv /\ [MonNext]_monVars => MonInv'
<1> SUFFICES ASSUME MonInv, [MonNext]_monVars
             PROVE  MonInv'
  OBVIOUS
<1> USE DEF MonInv
<1>1. CASE AppendRows
  <2>1. /\ input.requests # << >> /\ log' = log \o Head(input.requests)
        /\ serving' = serving /\ verdict' = verdict
        /\ input' = [input EXCEPT !.requests = Tail(@)]
    BY <1>1 DEF AppendRows
  <2> DEFINE x == input.requests
             S == Seq(LogRow)
  <2>2. x \in Seq(S) /\ x # << >>
    BY <2>1 DEF Input
  <2> HIDE DEF x, S
  <2>3. Head(x) \in S /\ Tail(x) \in Seq(S)
    BY <2>2
  <2>4. log' \in Seq(LogRow)
    BY <2>1, <2>3 DEF x, S
  <2>5. input' = [input EXCEPT !.requests = Tail(x)]
    BY <2>1 DEF x
  <2>6. input' \in Input
    BY <2>3, <2>5 DEF Input, S
  <2>7. QED
    BY <2>1, <2>4, <2>6
<1>2. CASE ResetLog
  BY <1>2 DEF ResetLog
<1>3. CASE MonitorServing
  BY <1>3 DEF MonitorServing
<1>4. CASE MonitorDrift
  BY <1>4 DEF MonitorDrift
<1>5. CASE RunGate
  <2>1. /\ serving # None /\ serving.p95 # Missing
        /\ verdict' = [of |-> serving.of, holds |-> GateHolds(serving),
                       warned |-> serving.warnings]
        /\ input' = input /\ log' = log /\ serving' = serving
    BY <1>5 DEF RunGate
  <2>2. PICK rows, rate :
          /\ rows \in Seq(LogRow) /\ rate \in Rounded(Failures(rows), Len(rows))
          /\ serving = ServingMetrics(rows, rate)
    BY <2>1
  <2>3. rows # << >>
    BY <2>1, <2>2 DEF ServingMetrics
  <2>4. /\ verdict'.of = rows /\ verdict'.holds = GateHolds(ServingMetrics(rows, rate))
        /\ verdict'.warned = ServingWarnings(rows, rate)
    BY <2>1, <2>2 DEF ServingMetrics
  <2>5. QED
    BY <2>1, <2>2, <2>3, <2>4
<1>6. CASE Materialize
  BY <1>6 DEF Materialize
<1>7. CASE UNCHANGED monVars
  BY <1>7 DEF monVars
<1>8. QED
  BY <1>1, <1>2, <1>3, <1>4, <1>5, <1>6, <1>7 DEF MonNext

LEMMA FailureCount ==
  ASSUME NEW rows \in Seq(LogRow)
  PROVE  Failures(rows) \in Nat
<1>1. IsFiniteSet(DOMAIN rows)
  BY FS_Interval
<1>2. {n \in DOMAIN rows : ~rows[n].success} \subseteq DOMAIN rows
  OBVIOUS
<1>3. IsFiniteSet({n \in DOMAIN rows : ~rows[n].success})
  BY <1>1, <1>2, FS_Subset
<1>4. QED
  BY <1>3, FS_CardinalityType DEF Failures

LEMMA LatencyWarning ==
  ASSUME NEW rows \in Seq(LogRow), NEW rate
  PROVE  "latency" \in ServingWarnings(rows, rate) <=> 20 * Slower(rows, P95Warn) > Len(rows)
<1>1. "latency" \in ServingWarnings(rows, rate) <=> rows # << >> /\ P95(rows) > P95Warn
  BY DEF ServingWarnings
<1>2. CASE rows = << >>
  <2>1. Len(rows) = 0 /\ Slower(rows, P95Warn) = 0
    <3>1. Within(rows, P95Warn) \in Nat /\ Slower(rows, P95Warn) \in Nat
          /\ Within(rows, P95Warn) + Slower(rows, P95Warn) = Len(rows)
      BY WithinAndSlower, MonitoringAssumption
    <3>2. Len(rows) = 0
      BY <1>2
    <3>3. QED
      BY <3>1, <3>2
  <2>2. QED
    BY <1>1, <1>2, <2>1
<1>3. CASE rows # << >>
  BY <1>1, <1>3, P95Counts, MonitoringAssumption
<1>4. QED
  BY <1>2, <1>3

(* SlowTailIsWarned: the latency warning is there exactly when more than one in
   twenty of the requests monitored took longer than the limit. *)
THEOREM SlowTails == MonSpec => []SlowTailIsWarned
<1>1. MonInv => SlowTailIsWarned
  <2>1. SUFFICES ASSUME MonInv, serving # None
                 PROVE  "latency" \in serving.warnings
                          <=> 20 * Slower(serving.of, P95Warn) > Len(serving.of)
    BY DEF SlowTailIsWarned
  <2>2. PICK rows, rate :
          /\ rows \in Seq(LogRow) /\ rate \in Rounded(Failures(rows), Len(rows))
          /\ serving = ServingMetrics(rows, rate)
    BY <2>1 DEF MonInv
  <2>3. serving.of = rows /\ serving.warnings = ServingWarnings(rows, rate)
    BY <2>2 DEF ServingMetrics
  <2>4. QED
    BY <2>2, <2>3, LatencyWarning
<1>2. QED
  BY MonInit_MonInv, MonNext_MonInv, <1>1, PTL DEF MonSpec

(* HoldsAreOfTheMany: the gate holds for the serving metrics exactly when more
   than half of the requests failed (of a million or more, only then) or more
   than one in twenty took longer than the hold limit, and never for what the
   monitor had not warned of. *)
THEOREM HoldsAreRare == MonSpec => []HoldsAreOfTheMany
<1>1. MonInv => HoldsAreOfTheMany
  <2>1. SUFFICES ASSUME MonInv, verdict # None
                 PROVE  /\ "errors" \in verdict.holds
                             => 2 * Failures(verdict.of) > Len(verdict.of)
                        /\ (2 * Failures(verdict.of) > Len(verdict.of)
                               /\ Len(verdict.of) < Million)
                             => "errors" \in verdict.holds
                        /\ "latency" \in verdict.holds
                             <=> 20 * Slower(verdict.of, P95Hold) > Len(verdict.of)
                        /\ verdict.holds \subseteq verdict.warned
    BY DEF HoldsAreOfTheMany
  <2>2. PICK rows, rate :
          /\ rows \in Seq(LogRow) /\ rate \in Rounded(Failures(rows), Len(rows))
          /\ rows # << >> /\ verdict.of = rows
          /\ verdict.holds = GateHolds(ServingMetrics(rows, rate))
          /\ verdict.warned = ServingWarnings(rows, rate)
    BY <2>1 DEF MonInv
  <2>3. GateHolds(ServingMetrics(rows, rate))
          = (IF 2 * rate > Million THEN {"errors"} ELSE {})
              \cup (IF P95(rows) > P95Hold THEN {"latency"} ELSE {})
    BY <2>2 DEF GateHolds, ServingMetrics
  <2>4. P95(rows) > P95Hold <=> 20 * Slower(rows, P95Hold) > Len(rows)
    BY <2>2, P95Counts, MonitoringAssumption
  <2>5. P95(rows) > P95Hold => P95(rows) > P95Warn
    <3>1. P95(rows) \in Nat
      BY <2>2, P95IsThere, MonitoringAssumption
    <3>2. P95Warn \in Nat /\ P95Hold \in Nat /\ P95Warn <= P95Hold
      BY MonitoringAssumption
    <3>3. QED
      BY <3>1, <3>2
  <2>6. Failures(rows) \in Nat /\ Len(rows) \in Nat \ {0}
    BY <2>2, FailureCount
  <2>7. /\ 2 * rate > Million => 2 * Failures(rows) > Len(rows)
        /\ 2 * Failures(rows) > Len(rows) /\ Len(rows) < Million => 2 * rate > Million
    BY <2>2, <2>6, RoundedMajority
  <2>8. 2 * rate > Million => 10 * rate > Million
    <3>1. rate \in Int
      BY <2>2, <2>6, RoundedIsClose
    <3>2. QED
      BY <3>1 DEF Million
  <2>9. GateHolds(ServingMetrics(rows, rate)) \subseteq ServingWarnings(rows, rate)
    BY <2>2, <2>3, <2>5, <2>8 DEF ServingWarnings
  <2>10. QED
    BY <2>2, <2>3, <2>4, <2>7, <2>9
<1>2. QED
  BY MonInit_MonInv, MonNext_MonInv, <1>1, PTL DEF MonSpec

-----------------------------------------------------------------------------
(* Drift and materialisation look at the windows of the input, which no step
   changes: what they found is found again. *)

DriftInv ==
  drift # None =>
    \E shifted, moved, rows : \E rate \in MissingRates(input.current) :
      drift.warnings = DriftWarnings(input.reference, input.current, rows, shifted, rate, moved)

SnapshotInv == snapshot # None => snapshot.rows = SelectLatest(input.current)

WindowInv == DriftInv /\ SnapshotInv

LEMMA MonInit_WindowInv == MonInit => WindowInv
BY DEF MonInit, WindowInv, DriftInv, SnapshotInv

LEMMA MonNext_WindowInv == MonInv /\ WindowInv /\ [MonNext]_monVars => WindowInv'
<1> SUFFICES ASSUME MonInv, WindowInv, [MonNext]_monVars
             PROVE  WindowInv'
  OBVIOUS
<1>1. ASSUME input'.reference = input.reference, input'.current = input.current,
             drift' = drift, snapshot' = snapshot
      PROVE  WindowInv'
  BY <1>1, Zenon DEF WindowInv, DriftInv, SnapshotInv
<1>2. CASE AppendRows
  <2>1. input' = [input EXCEPT !.requests = Tail(@)] /\ drift' = drift /\ snapshot' = snapshot
    BY <1>2 DEF AppendRows
  <2>2. input \in Input
    BY DEF MonInv
  <2>3. input'.reference = input.reference /\ input'.current = input.current
    BY <2>1, <2>2 DEF Input
  <2>4. QED
    BY <1>1, <2>1, <2>3
<1>3. CASE ResetLog
  BY <1>1, <1>3 DEF ResetLog
<1>4. CASE MonitorServing
  BY <1>1, <1>4 DEF MonitorServing
<1>5. CASE MonitorDrift
  <2>1. input' = input /\ snapshot' = snapshot
    BY <1>5 DEF MonitorDrift
  <2>2. \E shifted, moved : \E rate \in MissingRates(input.current) :
          drift' = [warnings |-> DriftWarnings(input.reference, input.current, log,
                                               shifted, rate, moved)]
    BY <1>5, Zenon DEF MonitorDrift
  <2>3. PICK shifted, moved, rate :
          /\ rate \in MissingRates(input.current)
          /\ drift' = [warnings |-> DriftWarnings(input.reference, input.current, log,
                                                  shifted, rate, moved)]
    BY <2>2, Zenon
  <2>4. /\ rate \in MissingRates(input'.current)
        /\ drift'.warnings = DriftWarnings(input.reference, input.current, log,
                                           shifted, rate, moved)
    BY <2>1, <2>3, Zenon
  <2>5. DriftInv'
    BY <2>1, <2>4, Zenon DEF DriftInv
  <2>6. QED
    BY <2>1, <2>5 DEF WindowInv, SnapshotInv
<1>6. CASE RunGate
  BY <1>1, <1>6 DEF RunGate
<1>7. CASE Materialize
  <2>1. /\ input' = input /\ drift' = drift
        /\ snapshot' = [of |-> input.current, rows |-> SelectLatest(input.current)]
    BY <1>7 DEF Materialize
  <2>2. SnapshotInv'
    BY <2>1, Zenon DEF SnapshotInv
  <2>3. QED
    BY <2>1, <2>2 DEF WindowInv, DriftInv
<1>8. CASE UNCHANGED monVars
  BY <1>1, <1>8 DEF monVars
<1>9. QED
  BY <1>2, <1>3, <1>4, <1>5, <1>6, <1>7, <1>8 DEF MonNext

(* Among finitely many places there is one of the latest. *)
LEMMA LatestExists ==
  ASSUME NEW N \in Nat, NEW P \in SUBSET (1..N), P # {}, NEW time \in [1..N -> Nat]
  PROVE  \E k \in P : \A m \in P : time[m] <= time[k]
<1> DEFINE Latest(n, k) == k \in P /\ k <= n /\ \A m \in P : m <= n => time[m] <= time[k]
           bad == {n \in 1..N : (\E m \in P : m <= n) /\ ~\E k : Latest(n, k)}
<1>1. bad = {}
  <2>1. SUFFICES ASSUME bad # {}
                 PROVE  FALSE
    OBVIOUS
  <2>2. PICK n \in bad : \A l \in bad : n <= l
    <3>1. bad \in SUBSET Nat
      OBVIOUS
    <3> HIDE DEF bad
    <3>2. PICK T : T = bad
      OBVIOUS
    <3>3. T \in SUBSET Nat /\ T # {}
      BY <2>1, <3>1, <3>2
    <3>4. \E n \in T : \A l \in T : n <= l
      BY <3>3, LeastOf
    <3>5. QED
      BY <3>2, <3>4
  <2>3. n \in 1..N /\ n - 1 \in 0..N /\ n - 1 < n /\ (n # 1 => n - 1 \in 1..N)
    OBVIOUS
  <2>4. \A m \in P : m \in 1..N /\ time[m] \in Nat /\ (m <= n <=> m <= n - 1 \/ m = n)
    BY <2>3
  <2>5. CASE \E m \in P : m <= n - 1
    <3>1. n - 1 \in 1..N
      BY <2>3, <2>4, <2>5
    <3>2. n - 1 \notin bad
      <4>1. \A l \in bad : n <= l
        BY <2>2
      <4>2. ~(n <= n - 1)
        BY <2>3
      <4> HIDE DEF bad
      <4>3. QED
        BY <4>1, <4>2
    <3>3. PICK k : Latest(n - 1, k)
      BY <2>5, <3>1, <3>2
    <3>4. k \in P /\ k <= n - 1 /\ (\A m \in P : m <= n - 1 => time[m] <= time[k])
      BY <3>3
    <3>5. CASE n \in P /\ time[k] <= time[n]
      <4>1. \A m \in P : m <= n => time[m] <= time[n]
        BY <2>4, <3>4, <3>5
      <4>2. Latest(n, n)
        BY <2>3, <3>5, <4>1
      <4>3. QED
        BY <2>2, <4>2
    <3>6. CASE ~(n \in P /\ time[k] <= time[n])
      <4>1. \A m \in P : m <= n => time[m] <= time[k]
        BY <2>4, <3>4, <3>6
      <4>2. Latest(n, k)
        BY <2>3, <2>4, <3>4, <4>1
      <4>3. QED
        BY <2>2, <4>2
    <3>7. QED
      BY <3>5, <3>6
  <2>6. CASE ~\E m \in P : m <= n - 1
    <3>1. \A m \in P : m <= n => m = n
      BY <2>4, <2>6
    <3>2. PICK m \in P : m <= n
      BY <2>2
    <3>3. n \in P
      BY <3>1, <3>2
    <3>4. Latest(n, n)
      BY <2>3, <2>4, <3>1, <3>3
    <3>5. QED
      BY <2>2, <3>4
  <2>7. QED
    BY <2>5, <2>6
<1>2. \A m \in P : m \in 1..N /\ m <= N
  OBVIOUS
<1>3. N \in 1..N
  <2>1. PICK m \in P : TRUE
    OBVIOUS
  <2>2. m \in 1..N
    BY <1>2, <2>1
  <2>3. QED
    BY <2>2
<1>4. N \notin bad
  BY <1>1
<1>5. PICK k : Latest(N, k)
  BY <1>2, <1>3, <1>4
<1>6. QED
  BY <1>2, <1>5

(* What the warnings of drift say of the window when there are none. *)
Servable(w) ==
  /\ OnlineColumns \subseteq w.columns
  /\ \A n \in DOMAIN w.rows :
       /\ w.rows[n].zone_id # Missing
       /\ w.rows[n].timestamp \notin {Missing, Text}
       /\ Predictable(w.rows[n])
  /\ \A m, n \in DOMAIN w.rows :
       m # n /\ w.rows[m].zone_id = w.rows[n].zone_id
         => w.rows[m].timestamp # w.rows[n].timestamp

LEMMA FiniteUpTo == \A n \in Nat : IsFiniteSet(1..n)
<1>1. \A n \in Nat : n \in Int /\ 1 \in Int
  OBVIOUS
<1>2. QED
  BY <1>1, FS_Interval, Zenon

LEMMA NoGapsInTheRate ==
  ASSUME NEW w \in Window, NEW c, w.rows # << >>, Len(w.rows) < Million,
         NEW m \in Rounded(Cardinality(Gaps(w, c)), Len(w.rows)), ~(m > 0)
  PROVE  Gaps(w, c) = {}
<1>1. Len(w.rows) \in Nat \ {0} /\ DOMAIN w.rows = 1..Len(w.rows)
  BY DEF Window
<1>2. IsFiniteSet(Gaps(w, c))
  <2>1. IsFiniteSet(DOMAIN w.rows)
    BY <1>1, FiniteUpTo
  <2>2. Gaps(w, c) \subseteq DOMAIN w.rows
    BY DEF Gaps
  <2>3. QED
    BY <2>1, <2>2, FS_Subset
<1>3. Cardinality(Gaps(w, c)) \in Nat
  BY <1>2, FS_CardinalityType
<1>4. Cardinality(Gaps(w, c)) = 0
  BY <1>1, <1>3, RoundedToNothing
<1>5. QED
  BY <1>2, <1>4, FS_EmptySet

LEMMA SilenceSays ==
  ASSUME NEW reference, NEW w \in Window, NEW rows, NEW shifted, NEW moved,
         NEW rate \in MissingRates(w),
         DriftWarnings(reference, w, rows, shifted, rate, moved) = {},
         w.rows # << >>, Len(w.rows) < Million
  PROVE  /\ Servable(w)
         /\ Values(reference, "zone_id") \subseteq Values(w, "zone_id")
<1> DEFINE quality == QualityFailures(w)
           numeric == {d \in NumericColumns : rate[d] > 0}
           gaps == {<<"gaps", c>> : c \in numeric}
           zones == Values(reference, "zone_id")
           kept == Values(w, "zone_id")
<1>1. /\ gaps = {}
      /\ (IF zones \subseteq kept THEN {} ELSE {<<"lost", "zone_id">>}) = {}
      /\ (IF quality # {} THEN {<<"quality", "current">>} ELSE {}) = {}
  BY Zenon DEF DriftWarnings
<1>2. zones \subseteq kept /\ quality = {}
  <2> HIDE DEF zones, kept, quality
  <2>1. QED
    BY <1>1
<1>3. ASSUME NEW c \in NumericColumns
      PROVE  Gaps(w, c) = {}
  <2>1. \A d \in numeric : <<"gaps", d>> \in gaps
    OBVIOUS
  <2>2. numeric = {}
    BY <1>1, <2>1
  <2>3. ~(rate[c] > 0)
    BY <2>2
  <2>4. rate[c] \in Rounded(Cardinality(Gaps(w, c)), Len(w.rows))
    BY DEF MissingRates, MissingRate
  <2>5. Len(w.rows) \in Nat \ {0} /\ DOMAIN w.rows = 1..Len(w.rows)
    BY DEF Window
  <2>6. QED
    BY <2>3, <2>4, <2>5, NoGapsInTheRate
<1>4. OnlineColumns \subseteq w.columns
  BY <1>2 DEF QualityFailures
<1>5. {"zone_id", "timestamp", "lag", "hour"} \subseteq w.columns
  BY <1>4 DEF OnlineColumns
<1>6. \A n \in DOMAIN w.rows : Predictable(w.rows[n])
  <2>1. Gaps(w, "lag") = {} /\ Gaps(w, "hour") = {}
    BY <1>3 DEF NumericColumns
  <2>2. QED
    BY <1>5, <2>1 DEF Gaps, Predictable
<1>7. ~\E c \in NumericColumns \cup {"zone_id"} :
         \E n \in {k \in DOMAIN w.rows : c \in w.columns} : w.rows[n][c] = Missing
  BY <1>2 DEF QualityFailures
<1>8. \A n \in DOMAIN w.rows : w.rows[n].zone_id # Missing
  BY <1>5, <1>7
<1>9. ~\E m, n \in DOMAIN w.rows : /\ m # n
                                    /\ w.rows[m].zone_id = w.rows[n].zone_id
                                    /\ w.rows[m].timestamp = w.rows[n].timestamp
  BY <1>2 DEF QualityFailures
<1>10. ~\E n \in DOMAIN w.rows : w.rows[n].timestamp \in {Missing, Text}
  BY <1>2 DEF QualityFailures
<1>11. QED
  BY <1>2, <1>4, <1>6, <1>8, <1>9, <1>10 DEF Servable

(* Where a zone has no two rows of one time, the order of its rows is that of
   their times. *)
LEMMA OrderOfTimes ==
  ASSUME NEW w \in Window, Servable(w), NEW k \in DOMAIN w.rows, NEW m \in DOMAIN w.rows,
         w.rows[m].zone_id = w.rows[k].zone_id
  PROVE  /\ w.rows[k].timestamp \in Nat /\ w.rows[m].timestamp \in Nat
         /\ Before(w, k, m) <=> w.rows[k].timestamp < w.rows[m].timestamp
<1>1. w.rows[k] \in FeatureRow /\ w.rows[m] \in FeatureRow
  BY DEF Window
<1>2. w.rows[k].timestamp \in Nat /\ w.rows[m].timestamp \in Nat /\ w.rows[k].event_id \in Nat
  BY <1>1 DEF FeatureRow, Servable
<1>3. /\ SortKey(w, k)[1] = w.rows[k].timestamp /\ SortKey(w, m)[1] = w.rows[m].timestamp
      /\ SortKey(w, k)[2] = (IF "event_id" \in w.columns THEN w.rows[k].event_id ELSE 0)
      /\ SortKey(w, k)[3] = k
  BY DEF SortKey
<1>4. k \in Nat
  BY DEF Window
<1> DEFINE x == w.rows[k].timestamp
           y == w.rows[m].timestamp
           a == SortKey(w, k)
           b == SortKey(w, m)
<1>5. Before(w, k, m) <=> \E i \in 1..3 : a[i] < b[i] /\ \A j \in 1..(i - 1) : a[j] = b[j]
  BY DEF Before
<1>6. a[1] = x /\ b[1] = y /\ x \in Nat /\ y \in Nat
  BY <1>2, <1>3
<1>7. a[1] \in Nat /\ a[2] \in Nat /\ a[3] \in Nat
  BY <1>2, <1>3, <1>4
<1>8. k = m => a = b
  OBVIOUS
<1>9. k # m => x # y
  BY DEF Servable
<1> HIDE DEF x, y, a, b
<1>10. ASSUME x < y
       PROVE  \E i \in 1..3 : a[i] < b[i] /\ \A j \in 1..(i - 1) : a[j] = b[j]
  <2>1. a[1] < b[1] /\ \A j \in 1..(1 - 1) : a[j] = b[j]
    BY <1>6, <1>10
  <2>2. QED
    BY <2>1
<1>11. ASSUME NEW i \in 1..3, a[i] < b[i], \A j \in 1..(i - 1) : a[j] = b[j]
       PROVE  x < y
  <2>1. CASE k = m
    <3>1. a[i] < a[i] /\ a[i] \in Nat
      BY <1>7, <1>8, <1>11, <2>1
    <3>2. QED
      BY <3>1
  <2>2. CASE k # m
    <3>1. CASE i = 1
      BY <1>6, <1>11, <3>1
    <3>2. CASE i # 1
      <4>1. 1 \in 1..(i - 1)
        BY <3>2
      <4>2. a[1] = b[1]
        BY <1>11, <4>1
      <4>3. QED
        BY <1>6, <1>9, <2>2, <4>2
    <3>3. QED
      BY <3>1, <3>2
  <2>3. QED
    BY <2>1, <2>2
<1>12. QED
  BY <1>2, <1>5, <1>10, <1>11 DEF x, y

(* What materialisation makes of such a window. *)
LEMMA ServableIsServed ==
  ASSUME NEW w \in Window, Servable(w), "target" \in w.columns
  PROVE  SelectLatest(w) = {w.rows[k] : k \in {n \in DOMAIN w.rows :
                \A m \in DOMAIN w.rows : w.rows[m].zone_id = w.rows[n].zone_id
                                           => w.rows[m].timestamp <= w.rows[n].timestamp}}
<1>1. OnlineColumns \cup {"target"} \subseteq w.columns
  BY DEF Servable
<1>2. ~\E n \in DOMAIN w.rows : w.rows[n].timestamp = Text
  BY DEF Servable
<1>3. Complete(w) = DOMAIN w.rows
  <2>1. ASSUME NEW n \in DOMAIN w.rows, NEW c \in OnlineColumns
        PROVE  w.rows[n][c] # Missing
    <3>1. /\ w.rows[n].zone_id # Missing /\ w.rows[n].timestamp # Missing
          /\ w.rows[n].lag # Missing /\ w.rows[n].hour # Missing
      BY DEF Servable, Predictable
    <3>2. c \in {"zone_id", "timestamp", "lag", "hour"}
      BY DEF OnlineColumns
    <3>3. QED
      BY <3>1, <3>2
  <2>2. QED
    BY <2>1 DEF Complete
<1>4. SelectLatest(w) = {w.rows[n] : n \in {k \in DOMAIN w.rows :
          \A m \in DOMAIN w.rows : w.rows[m].zone_id = w.rows[k].zone_id => ~Before(w, k, m)}}
  BY <1>1, <1>2, <1>3, Zenon DEF SelectLatest
<1>5. ASSUME NEW k \in DOMAIN w.rows, NEW m \in DOMAIN w.rows,
             w.rows[m].zone_id = w.rows[k].zone_id
      PROVE  ~Before(w, k, m) <=> w.rows[m].timestamp <= w.rows[k].timestamp
  <2>1. /\ w.rows[k].timestamp \in Nat /\ w.rows[m].timestamp \in Nat
        /\ Before(w, k, m) <=> w.rows[k].timestamp < w.rows[m].timestamp
    BY <1>5, OrderOfTimes
  <2>2. QED
    BY <2>1
<1>6. QED
  BY <1>4, <1>5

(* SilenceMeansServable: when monitor-drift is silent about a window,
   materialisation of it offers one row for each zone, the latest, and one the
   model can predict from. *)
THEOREM SilentWindowsAreServed == MonSpec => []SilenceMeansServable
<1>1. ASSUME MonInv, WindowInv
      PROVE  SilenceMeansServable
  <2>1. PICK w : w = input.current
    OBVIOUS
  <2>2. PICK zones : zones = Values(input.reference, "zone_id")
    OBVIOUS
  <2>3. SUFFICES ASSUME drift # None, drift.warnings = {}, snapshot # None,
                        "target" \in w.columns, zones # {}, Len(w.rows) < Million
                 PROVE  /\ snapshot.rows # Refused
                        /\ \A z \in zones \cup Values(w, "zone_id") :
                             Cardinality({row \in snapshot.rows : row.zone_id = z}) = 1
                        /\ \A row \in snapshot.rows :
                             /\ Predictable(row)
                             /\ \A n \in DOMAIN w.rows :
                                  w.rows[n].zone_id = row.zone_id
                                    => w.rows[n].timestamp <= row.timestamp
    BY <2>1, <2>2, Zenon DEF SilenceMeansServable
  <2>4. w \in Window
    BY <1>1, <2>1 DEF MonInv, Input
  <2>5. PICK shifted, moved, rows : \E rate \in MissingRates(w) :
          DriftWarnings(input.reference, w, rows, shifted, rate, moved) = {}
    BY <1>1, <2>1, <2>3, Zenon DEF WindowInv, DriftInv
  <2>6. snapshot.rows = SelectLatest(w)
    BY <1>1, <2>1, <2>3 DEF WindowInv, SnapshotInv
  <2>7. w.rows # << >>
    <3>1. SUFFICES ASSUME w.rows = << >>
                   PROVE  FALSE
      OBVIOUS
    <3>2. zones \subseteq Values(w, "zone_id")
      <4>1. (IF zones \subseteq Values(w, "zone_id") THEN {} ELSE {<<"lost", "zone_id">>}) = {}
        BY <2>2, <2>5, Zenon DEF DriftWarnings
      <4>2. QED
        BY <4>1
    <3>3. Values(w, "zone_id") = {}
      BY <3>1 DEF Values
    <3>4. QED
      BY <2>3, <3>2, <3>3
  <2>8. Servable(w) /\ zones \subseteq Values(w, "zone_id")
    BY <2>2, <2>3, <2>4, <2>5, <2>7, SilenceSays
  <2> DEFINE N == Len(w.rows)
             Last(k) == /\ k \in 1..N
                        /\ \A m \in 1..N : w.rows[m].zone_id = w.rows[k].zone_id
                                             => w.rows[m].timestamp <= w.rows[k].timestamp
  <2>9. DOMAIN w.rows = 1..N /\ N \in Nat
    BY <2>4 DEF Window
  <2>10. snapshot.rows = {w.rows[k] : k \in {n \in 1..N : Last(n)}}
    <3>1. SelectLatest(w) = {w.rows[k] : k \in {n \in DOMAIN w.rows :
              \A m \in DOMAIN w.rows : w.rows[m].zone_id = w.rows[n].zone_id
                                         => w.rows[m].timestamp <= w.rows[n].timestamp}}
      BY <2>3, <2>4, <2>8, ServableIsServed
    <3>2. QED
      BY <2>6, <2>9, <3>1
  <2>11. \A n \in 1..N : w.rows[n].timestamp \in Nat
    BY <2>4, <2>8, <2>9, OrderOfTimes
  <2>12. ASSUME NEW z \in Values(w, "zone_id")
         PROVE  \E k \in 1..N : Last(k) /\ w.rows[k].zone_id = z
    <3> DEFINE P == {n \in 1..N : w.rows[n].zone_id = z}
               time == [n \in 1..N |-> w.rows[n].timestamp]
    <3>1. P # {}
      BY <2>9 DEF Values
    <3>2. P \in SUBSET (1..N) /\ time \in [1..N -> Nat]
      BY <2>11
    <3>3. \A n \in 1..N : (n \in P <=> w.rows[n].zone_id = z) /\ time[n] = w.rows[n].timestamp
      OBVIOUS
    <3> HIDE DEF P, time, N
    <3>4. \E k \in P : \A m \in P : time[m] <= time[k]
      BY <2>9, <3>1, <3>2, LatestExists
    <3>5. PICK k \in P : \A m \in P : time[m] <= time[k]
      BY <3>4
    <3>6. k \in 1..N /\ w.rows[k].zone_id = z
      BY <3>2, <3>3
    <3>7. ASSUME NEW m \in 1..N, w.rows[m].zone_id = w.rows[k].zone_id
          PROVE  w.rows[m].timestamp <= w.rows[k].timestamp
      BY <3>3, <3>5, <3>6, <3>7
    <3>8. Last(k)
      BY <3>6, <3>7
    <3>9. QED
      BY <3>6, <3>8
  <2>13. ASSUME NEW k, NEW m, Last(k), Last(m), w.rows[k].zone_id = w.rows[m].zone_id
         PROVE  k = m
    <3>1. /\ k \in 1..N /\ m \in 1..N
          /\ w.rows[k].timestamp <= w.rows[m].timestamp
          /\ w.rows[m].timestamp <= w.rows[k].timestamp
      BY <2>13
    <3>2. w.rows[k].timestamp = w.rows[m].timestamp
      BY <2>11, <3>1
    <3>3. QED
      BY <2>8, <2>9, <2>13, <3>1, <3>2 DEF Servable
  <2> HIDE DEF N, Last
  <2>14. ASSUME NEW z \in zones \cup Values(w, "zone_id")
         PROVE  Cardinality({row \in snapshot.rows : row.zone_id = z}) = 1
    <3>1. z \in Values(w, "zone_id")
      BY <2>8
    <3>2. PICK k \in 1..N : Last(k) /\ w.rows[k].zone_id = z
      BY <2>12, <3>1
    <3>3. {row \in snapshot.rows : row.zone_id = z} = {w.rows[k]}
      BY <2>10, <2>13, <3>2
    <3>4. QED
      BY <3>3, FS_Singleton
  <2>15. snapshot.rows # Refused
    <3>1. PICK z \in zones : TRUE
      BY <2>3
    <3>2. PICK k \in 1..N : Last(k)
      BY <2>8, <2>12, <3>1
    <3>3. QED
      BY <2>10, <3>2 DEF Refused
  <2>16. ASSUME NEW row \in snapshot.rows
         PROVE  /\ Predictable(row)
                /\ \A n \in DOMAIN w.rows :
                     w.rows[n].zone_id = row.zone_id => w.rows[n].timestamp <= row.timestamp
    <3>1. PICK k \in 1..N : Last(k) /\ row = w.rows[k]
      BY <2>10
    <3>2. Predictable(row)
      BY <2>8, <2>9, <3>1 DEF Servable
    <3>3. QED
      BY <2>9, <3>1, <3>2 DEF Last
  <2>17. QED
    BY <2>14, <2>15, <2>16
<1>2. QED
  BY MonInit_MonInv, MonNext_MonInv, MonInit_WindowInv, MonNext_WindowInv, <1>1, PTL DEF MonSpec
=============================================================================
