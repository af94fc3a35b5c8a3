----------------------------- MODULE Monitoring -----------------------------
(***************************************************************************)
(* What the monitors make of the evidence: monitor-serving of the          *)
(* prediction log (monitoring/serving.py), monitor-drift of the log and of *)
(* two feature windows (monitoring/drift.py), the release gate of the      *)
(* serving metrics (release_gate.py); and what materialize-online-features *)
(* makes of the same window (features/online.py).                          *)
(*                                                                         *)
(* The log grows, and is reset, between these commands; each of them is    *)
(* one step here, since DemoWorkflow, TelemetrySync and ModelArtifacts     *)
(* take them apart.  A feature window has one column for each treatment    *)
(* the code gives a column: the zone, the timestamp, a demand feature      *)
(* ("lag"), another feature ("hour"), the target and the event id.         *)
(***************************************************************************)
EXTENDS Integers, Sequences, FiniteSets

CONSTANTS
  Zones,
  Latencies,      \* the latencies a request may take, in ms
  Missing,        \* None or NaN
  Text,           \* a string that is neither a number nor a timestamp
  Inputs,         \* the inputs of one behaviour: windows, and runs of requests
  P95Warn, P95Hold,  \* p95_latency_ms, max_p95_latency_ms_hold
  MinPredictions     \* min_prediction_count

(* One prediction log row: whether it was answered, how long it took, whether
   its features were older than freshness_seconds. *)
LogRow == [success : BOOLEAN, latency : Latencies, stale : BOOLEAN]

OnlineColumns == {"zone_id", "timestamp", "lag", "hour"}
NumericColumns == {"lag", "hour"}
Columns == OnlineColumns \cup {"target", "event_id"}

FeatureRow ==
  [zone_id : Zones \cup {Missing}, timestamp : Nat \cup {Missing, Text},
   lag : Int \cup {Missing, Text}, hour : Nat \cup {Missing, Text}, event_id : Nat]

Window == [columns : SUBSET Columns, rows : Seq(FeatureRow)]

ASSUME MonitoringAssumption ==
  /\ Latencies \subseteq Nat
  /\ \E most \in Latencies : \A x \in Latencies : x <= most
  /\ P95Warn \in Nat /\ P95Hold \in Nat /\ P95Warn <= P95Hold
  /\ MinPredictions \in Nat

Input == [requests : Seq(Seq(LogRow)), reference : Window, current : Window]

ASSUME InputsAssumption == Inputs \subseteq Input

VARIABLES
  input,     \* the windows, and the requests still to come
  log,       \* prediction_logs.jsonl
  serving,   \* the serving metrics file
  drift,     \* the drift metrics file
  verdict,   \* what the last gate made of the serving metrics
  snapshot   \* the rows of the last materialisation

monVars == <<input, log, serving, drift, verdict, snapshot>>

None == [of |-> "nothing"]

Failures(rows) == Cardinality({n \in DOMAIN rows : ~rows[n].success})
Successes(rows) == Cardinality({n \in DOMAIN rows : rows[n].success})
StaleRows(rows) == Cardinality({n \in DOMAIN rows : rows[n].success /\ rows[n].stale})
Slower(rows, limit) == Cardinality({n \in DOMAIN rows : rows[n].latency > limit})
Within(rows, limit) == Cardinality({n \in DOMAIN rows : rows[n].latency <= limit})

Million == 1000000

(* round(part / whole, 6), in millionths, or 0 of nothing; what lies halfway
   may be rounded either way, as its binary quotient is not exact. *)
Rounded(part, whole) ==
  IF whole = 0 THEN {0}
  ELSE LET low == (Million * part) \div whole
       IN  {m \in {low, low + 1} : 2 * (Million * part - m * whole) \in (-whole)..whole}

-----------------------------------------------------------------------------
(* Serving *)

(* math.ceil(0.95 * n): 0.95 in binary is below 19/20 by less than the
   rounding of a product can lift above a whole number. *)
Ceil95(n) == (19 * n + 19) \div 20

(* Mutant of Rank: the percentage is cut off rather than rounded up. *)
RankCutOff(n) == IF n < 2 THEN 0 ELSE (19 * n) \div 20 - 1

(* The index of the percentile, max(0, ceil - 1). *)
Rank(n) == IF n = 0 THEN 0 ELSE Ceil95(n) - 1

(* _percentile: the element at index of the sorted latencies, which is the
   least with more than index of them within it. *)
P95(rows) ==
  CHOOSE x \in Latencies :
    /\ Within(rows, x) > Rank(Len(rows))
    /\ \A y \in Latencies : Within(rows, y) > Rank(Len(rows)) => x <= y

(* build_serving_monitoring_warnings *)
ServingWarnings(rows, rate) ==
  (IF 10 * rate > Million THEN {"errors"} ELSE {})
    \cup (IF rows # << >> /\ P95(rows) > P95Warn THEN {"latency"} ELSE {})
    \cup (IF StaleRows(rows) > 0 THEN {"stale"} ELSE {})
    \cup (IF Successes(rows) < MinPredictions THEN {"sample"} ELSE {})

(* compute_serving_monitoring_metrics, as far as somebody reads them; of (the
   rows read) is history. *)
ServingMetrics(rows, rate) ==
  [of |-> rows, error_rate |-> rate,
   p95 |-> IF rows = << >> THEN Missing ELSE P95(rows),
   warnings |-> ServingWarnings(rows, rate)]

(* Mutant of GateHolds: a rate of exactly one half is held too. *)
GateHoldsAtHalf(metrics) ==
  (IF 2 * metrics.error_rate >= Million THEN {"errors"} ELSE {})
    \cup (IF metrics.p95 > P95Hold THEN {"latency"} ELSE {})

(* _evaluate_serving_metrics *)
GateHolds(metrics) ==
  (IF 2 * metrics.error_rate > Million THEN {"errors"} ELSE {})
    \cup (IF metrics.p95 > P95Hold THEN {"latency"} ELSE {})

-----------------------------------------------------------------------------
(* Feature windows *)

Values(w, column) ==
  IF column \in w.columns THEN {w.rows[n][column] : n \in DOMAIN w.rows} \ {Missing} ELSE {}

(* _numeric_series: what is no number counts as missing. *)
Numbers(w, column) == Values(w, column) \ {Text}

(* Mutant of Gaps: the missing values are those of the column as it is read. *)
GapsAsRead(w, column) ==
  {n \in DOMAIN w.rows : column \in w.columns => w.rows[n][column] = Missing}

(* The rows that have no number in a column. *)
Gaps(w, column) ==
  {n \in DOMAIN w.rows : column \in w.columns => w.rows[n][column] \in {Missing, Text}}

(* _missing_rate of each column, rounded. *)
MissingRate(w, column) == Rounded(Cardinality(Gaps(w, column)), Len(w.rows))

MissingRates(w) ==
  {rate \in [NumericColumns -> UNION {MissingRate(w, c) : c \in NumericColumns}] :
     \A c \in NumericColumns : rate[c] \in MissingRate(w, c)}

(* run_data_quality_checks: each check by the name of one that fails. *)
QualityFailures(w) ==
  LET rows == w.rows
      At(column) == {n \in DOMAIN rows : column \in w.columns}
  IN  (IF OnlineColumns \subseteq w.columns THEN {} ELSE {"required_columns_present"})
        \cup (IF \E c \in NumericColumns \cup {"zone_id"} : \E n \in At(c) : rows[n][c] = Missing
              THEN {"no_missing_model_input_features"} ELSE {})
        \cup (IF \/ ~({"zone_id", "timestamp"} \subseteq w.columns)
                 \/ \E m, n \in DOMAIN rows : /\ m # n
                                              /\ rows[m].zone_id = rows[n].zone_id
                                              /\ rows[m].timestamp = rows[n].timestamp
              THEN {"no_duplicate_entity_as_of_rows"} ELSE {})
        \cup (IF \E n \in At("lag") : \/ rows[n].lag = Text
                                      \/ rows[n].lag \in Int /\ rows[n].lag < 0
              THEN {"nonnegative_demand_features"} ELSE {})
        \cup (IF \/ "timestamp" \notin w.columns
                 \/ \E n \in DOMAIN rows : rows[n].timestamp \in {Missing, Text}
              THEN {"timestamps_parse"} ELSE {})

(* build_drift_monitoring_warnings; shifted are the columns whose index is
   above the threshold, rate is the missing rate of each column of the current
   window, moved tells whether the mean prediction is too far from the
   reference. *)
DriftWarnings(reference, current, rows, shifted, rate, moved) ==
  {<<"psi", c>> : c \in shifted}
    \cup {<<"gaps", c>> : c \in {d \in NumericColumns : rate[d] > 0}}
    \cup (IF Values(reference, "zone_id") \subseteq Values(current, "zone_id")
          THEN {} ELSE {<<"lost", "zone_id">>})
    \cup (IF Successes(rows) < MinPredictions THEN {<<"sample", "log">>} ELSE {})
    \cup (IF moved THEN {<<"shift", "log">>} ELSE {})
    \cup (IF QualityFailures(reference) # {} THEN {<<"quality", "reference">>} ELSE {})
    \cup (IF QualityFailures(current) # {} THEN {<<"quality", "current">>} ELSE {})

-----------------------------------------------------------------------------
(* Materialisation *)

Refused == {}

(* Sorted by zone, timestamp and, where there is one, event id; mergesort
   keeps the order of equals. *)
SortKey(w, n) ==
  <<w.rows[n].timestamp, IF "event_id" \in w.columns THEN w.rows[n].event_id ELSE 0, n>>

Before(w, m, n) ==
  \E i \in 1..3 :
    /\ SortKey(w, m)[i] < SortKey(w, n)[i]
    /\ \A j \in 1..(i - 1) : SortKey(w, m)[j] = SortKey(w, n)[j]

Complete(w) == {n \in DOMAIN w.rows : \A c \in OnlineColumns : w.rows[n][c] # Missing}

(* select_latest_online_features, and tail(1) of each zone; refused is what
   raises, and a window that leaves no row is. *)
SelectLatest(w) ==
  IF \/ ~(OnlineColumns \cup {"target"} \subseteq w.columns)
     \/ \E n \in DOMAIN w.rows : w.rows[n].timestamp = Text
  THEN Refused
  ELSE {w.rows[n] : n \in {k \in Complete(w) :
                             \A m \in Complete(w) :
                               w.rows[m].zone_id = w.rows[k].zone_id => ~Before(w, k, m)}}

-----------------------------------------------------------------------------
(* Actions *)

MonInit ==
  /\ input \in Inputs
  /\ log = << >>
  /\ serving = None /\ drift = None /\ verdict = None /\ snapshot = None

(* log_success, log_error: the next requests are answered. *)
AppendRows ==
  /\ input.requests # << >>
  /\ log' = log \o Head(input.requests)
  /\ input' = [input EXCEPT !.requests = Tail(@)]
  /\ UNCHANGED <<serving, drift, verdict, snapshot>>

(* reset_prediction_log *)
ResetLog ==
  /\ log # << >>
  /\ log' = << >>
  /\ UNCHANGED <<input, serving, drift, verdict, snapshot>>

(* monitor_prediction_logs *)
MonitorServing ==
  /\ \E rate \in Rounded(Failures(log), Len(log)) : serving' = ServingMetrics(log, rate)
  /\ UNCHANGED <<input, log, drift, verdict, snapshot>>

(* monitor_drift.  The population stability index and the mean of the
   predictions may come out anywhere, where there is anything to compare. *)
MonitorDrift ==
  /\ \E shifted \in SUBSET {c \in NumericColumns : /\ Numbers(input.reference, c) # {}
                                                   /\ Numbers(input.current, c) # {}},
        rate \in MissingRates(input.current),
        moved \in {m \in BOOLEAN : m => Successes(log) > 0} :
       drift' = [warnings |-> DriftWarnings(input.reference, input.current, log,
                                            shifted, rate, moved)]
  /\ UNCHANGED <<input, log, serving, verdict, snapshot>>

(* run_release_gate, as far as the serving metrics go: without them it holds
   for another reason, with a null p95 it raises. *)
RunGate ==
  /\ serving # None
  /\ serving.p95 # Missing
  /\ verdict' = [of |-> serving.of, holds |-> GateHolds(serving), warned |-> serving.warnings]
  /\ UNCHANGED <<input, log, serving, drift, snapshot>>

(* materialize_online_features of the features in the current window. *)
Materialize ==
  /\ snapshot' = [of |-> input.current, rows |-> SelectLatest(input.current)]
  /\ UNCHANGED <<input, log, serving, drift, verdict>>

MonNext ==
  AppendRows \/ ResetLog \/ MonitorServing \/ MonitorDrift \/ RunGate \/ Materialize

MonSpec == MonInit /\ [][MonNext]_monVars

-----------------------------------------------------------------------------
(* Properties *)

(* The latency warning is there exactly when more than one in twenty of the
   requests monitored took longer than the limit; with fewer than twenty, one
   is enough. *)
SlowTailIsWarned ==
  serving # None =>
    ("latency" \in serving.warnings <=> 20 * Slower(serving.of, P95Warn) > Len(serving.of))

(* The gate holds for the serving metrics exactly when more than half of the
   requests monitored failed, or more than one in twenty took longer than the
   hold limit; and whatever it holds for, the monitor had warned of.  The
   rounding can make a majority of a million requests or more a half. *)
HoldsAreOfTheMany ==
  verdict # None =>
    /\ "errors" \in verdict.holds => 2 * Failures(verdict.of) > Len(verdict.of)
    /\ 2 * Failures(verdict.of) > Len(verdict.of) /\ Len(verdict.of) < Million
         => "errors" \in verdict.holds
    /\ "latency" \in verdict.holds <=> 20 * Slower(verdict.of, P95Hold) > Len(verdict.of)
    /\ verdict.holds \subseteq verdict.warned

Predictable(row) == row.lag \notin {Missing, Text} /\ row.hour \notin {Missing, Text}

(* When monitor-drift is silent, the window it looked at can be served: every
   zone of the reference gets a row, only one, none of the window is later,
   and the model can predict from it.  No single check says so: a text in a
   feature is a gap to one and nothing to the others, an empty window fails
   none and loses zones.  In a million rows or more a rate may be rounded to
   nothing. *)
SilenceMeansServable ==
  LET w == input.current IN
  /\ drift # None /\ drift.warnings = {} /\ snapshot # None
  /\ "target" \in w.columns /\ Values(input.reference, "zone_id") # {}
  /\ Len(w.rows) < Million
  =>
  /\ snapshot.rows # Refused
  /\ \A z \in Values(input.reference, "zone_id") \cup Values(w, "zone_id") :
       Cardinality({row \in snapshot.rows : row.zone_id = z}) = 1
  /\ \A row \in snapshot.rows :
       /\ Predictable(row)
       /\ \A n \in DOMAIN w.rows :
            w.rows[n].zone_id = row.zone_id => w.rows[n].timestamp <= row.timestamp
=============================================================================
