--------------------------- MODULE OfflineFeatures ---------------------------
(***************************************************************************)
(* From the events to the rows a model learns from (features/offline.py):  *)
(* build-offline-features reads the CSV, computes the temporal features of *)
(* every event, drops the incomplete rows and splits the rest.             *)
(*                                                                         *)
(* A column is modelled by the events it is computed from: a lag is a      *)
(* position in the sorted frame or NaN, an aggregate a set of positions,   *)
(* empty for NaN.  Fractions are percentages.                              *)
(***************************************************************************)
EXTENDS SyntheticEvents, FiniteSets, SequencesExt

CONSTANTS
  Configs,     \* bound: the generator options tried
  Fractions    \* bound: the pairs of split fractions tried

(* What the generator's options and the fractions are, valid or not. *)
ASSUME OptionsAssumption ==
  /\ Configs \subseteq [rows : Int, interval : Int, zones : Int, days : Int \cup {None},
                       perDay : Int \cup {None}, start : Nat]
  /\ Fractions \subseteq [train : Int, validation : Int]

VARIABLES
  step,      \* "start", "generated", "built", "written", or the exception
  config,    \* the options of the generator
  csv,       \* synthetic_events.csv
  frame,     \* the sorted events
  features,  \* what build_offline_features returned, in memory only
  splits     \* the train, validation and test files; features are in a fourth
             \* file, offline_features.parquet, once these are written

offVars == <<step, config, csv, frame, features, splits>>

NaN == 0

-----------------------------------------------------------------------------
(* pandas, at row i of the sorted frame; key[j] is the group of row j *)

Rank(key, i) == Cardinality({j \in 1..i : key[j] = key[i]})

(* groupby(key).shift(k): the row k before this one in its group. *)
Shift(key, k, i) ==
  LET rank  == Rank(key, i) - k
      there == {j \in DOMAIN key : key[j] = key[i] /\ Rank(key, j) = rank}
  IN  IF there = {} THEN NaN ELSE CHOOSE j \in there : TRUE

(* Mutant: rolling over the column itself, which was never shifted. *)
RollingUnshifted(key, window, minPeriods, i) ==
  LET seen == {j \in 1..i : key[j] = key[i]
                             /\ Rank(key, i) - Rank(key, j) < window}
  IN  IF Cardinality(seen) < minPeriods THEN {} ELSE seen

(* groupby(key).shift(1), then rolling(window, min_periods) over the group:
   NaNs do not count. *)
Rolling(key, window, minPeriods, i) ==
  LET rank == Rank(key, i)
      rows == {j \in 1..i : key[j] = key[i] /\ rank - Rank(key, j) < window}
      seen == {Shift(key, 1, j) : j \in rows} \ {NaN}
  IN  IF Cardinality(seen) < minPeriods THEN {} ELSE seen

(* Mutant: the mean of the whole group, itself left out. *)
ExpandingWholeGroup(key, i) == {j \in DOMAIN key : key[j] = key[i]} \ {i}

Expanding(key, i) == Rolling(key, Len(key), 1, i)

-----------------------------------------------------------------------------
(* normalize_synthetic_events: by timestamp, then zone, then event id. *)
Before(e, f) ==
  \/ e.minute < f.minute
  \/ e.minute = f.minute /\ e.zone < f.zone
  \/ e.minute = f.minute /\ e.zone = f.zone /\ e.id < f.id

(* Every event after those that come before it. *)
Normalize(events) ==
  LET earlier(i) == {j \in DOMAIN events : Before(events[j], events[i])}
      place(n)   == CHOOSE i \in DOMAIN events : Cardinality(earlier(i)) = n - 1
  IN  [n \in DOMAIN events |-> events[place(n)]]

ZoneKey(f) == [i \in DOMAIN f |-> f[i].zone]
ZoneHourKey(f) == [i \in DOMAIN f |-> <<f[i].zone, Hour(f[i].minute)>>]

RowOf(zone, zoneHour, i) ==
  [at |-> i,
   lag1 |-> Shift(zone, 1, i), lag3 |-> Shift(zone, 3, i),
   mean3 |-> Rolling(zone, 3, 1, i), mean6 |-> Rolling(zone, 6, 1, i),
   std6 |-> Rolling(zone, 6, 2, i),
   zoneHour |-> Expanding(zoneHour, i),
   target |-> Shift(zone, -1, i)]

(* dropna over the required columns *)
Complete(r) ==
  /\ NaN \notin {r.lag1, r.lag3, r.target}
  /\ {} \notin {r.mean3, r.mean6, r.std6, r.zoneHour}

(* The complete rows, in the order of the frame. *)
BuildOffline(f) ==
  LET row(i)   == RowOf(ZoneKey(f), ZoneHourKey(f), i)
      kept     == {i \in DOMAIN f : Complete(row(i))}
      place(n) == CHOOSE i \in kept : Cardinality({j \in kept : j < i}) = n - 1
  IN  [n \in 1..Cardinality(kept) |-> row(place(n))]

-----------------------------------------------------------------------------
(* split_chronologically *)

ValidFractions(p) == p.train > 0 /\ p.validation > 0 /\ p.train + p.validation < 100

(* int(n * fraction): the binary product may fall just short of a whole. *)
Truncated(n, percent) ==
  LET whole == (n * percent) \div 100
  IN  IF (n * percent) % 100 = 0 THEN {whole - 1, whole} ELSE {whole}

AtLeastOne(n) == IF n > 1 THEN n ELSE 1

(* Mutant: no row is kept back for the test split. *)
FittedAsAsked(n, train, validation) == [train |-> train, validation |-> validation]

Fitted(n, train, validation) ==
  IF train + validation >= n
  THEN [train |-> AtLeastOne(n - 2), validation |-> 1]
  ELSE [train |-> train, validation |-> validation]

SplitCounts(n, p) ==
  {Fitted(n, AtLeastOne(t), AtLeastOne(v)) :
     t \in Truncated(n, p.train), v \in Truncated(n, p.validation)}

(* Mutant: the validation split starts with the last row of the train split. *)
SplitOverlapping(rows, count) ==
  LET ends == count.train + count.validation
  IN  [train |-> SubSeq(rows, 1, count.train),
       validation |-> SubSeq(rows, count.train, ends),
       test |-> SubSeq(rows, ends + 1, Len(rows))]

Split(rows, count) ==
  LET ends == count.train + count.validation
  IN  [train |-> SubSeq(rows, 1, count.train),
       validation |-> SubSeq(rows, count.train + 1, ends),
       test |-> SubSeq(rows, ends + 1, Len(rows))]

-----------------------------------------------------------------------------
OffInit ==
  /\ config \in Configs
  /\ step = "start"
  /\ csv = None /\ frame = << >> /\ features = None /\ splits = None

Refuse(error) == step' = error /\ UNCHANGED <<config, csv, frame, features, splits>>

(* generate_and_save_synthetic_events.  --input-path takes anyone's file:
   here also one that lists the events in the opposite order. *)
Generate ==
  /\ step = "start" /\ Valid(config)
  /\ \E zoneOf \in Draws(config), backwards \in BOOLEAN :
       csv' = IF backwards THEN Reverse(EventsOf(config, zoneOf))
                           ELSE EventsOf(config, zoneOf)
  /\ step' = "generated"
  /\ UNCHANGED <<config, frame, features, splits>>

GenerateRefused == step = "start" /\ ~Valid(config) /\ Refuse("bad_config")

(* build_and_save_offline_features, as far as build_offline_features returns:
   nothing is written yet, nor ever where it raises. *)
Build ==
  /\ step = "generated"
  /\ frame' = Normalize(csv)
  /\ LET rows == BuildOffline(frame')
     IN  IF rows = << >>
         THEN step' = "no_rows" /\ features' = None
         ELSE step' = "built" /\ features' = rows
  /\ UNCHANGED <<config, csv, splits>>

(* split_chronologically has returned, and now the four files are written. *)
SplitAndSave ==
  /\ step = "built"
  /\ \E p \in Fractions :
       /\ ValidFractions(p)
       /\ Len(features) >= 3
       /\ \E count \in SplitCounts(Len(features), p) :
            splits' = Split(features, count)
  /\ step' = "written"
  /\ UNCHANGED <<config, csv, frame, features>>

(* split_chronologically raises, before any file is written. *)
SplitRefused ==
  /\ step = "built"
  /\ \E p \in Fractions :
       \/ ~ValidFractions(p) /\ Refuse("bad_fractions")
       \/ ValidFractions(p) /\ Len(features) < 3 /\ Refuse("too_few_rows")

OffNext == Generate \/ GenerateRefused \/ Build \/ SplitAndSave \/ SplitRefused

OffSpec == OffInit /\ [][OffNext]_offVars

-----------------------------------------------------------------------------
(* Properties *)

Built == features # None
RowAt(i) == \E n \in DOMAIN features : features[n].at = i

ZonePrior(i) == {j \in 1..(i - 1) : frame[j].zone = frame[i].zone}
ZoneLater(i) == {j \in (i + 1)..Len(frame) : frame[j].zone = frame[i].zone}
Newest(k, S) == {j \in S : Cardinality({m \in S : m > j}) < k}
SameHour(i) == {j \in ZonePrior(i) : Hour(frame[j].minute) = Hour(frame[i].minute)}

(* The shifts, windows and groups of build_offline_features amount to the
   rules the README gives: lags and windows over the earlier events of the
   zone, the zone-hour mean over the earlier ones at that hour, the target the
   zone's next event, and a row exactly where all of these exist. *)
FeaturesFollowTheRules ==
  /\ Built => \A i \in DOMAIN frame :
       RowAt(i) <=> Cardinality(ZonePrior(i)) >= 3 /\ SameHour(i) # {} /\ ZoneLater(i) # {}
  /\ Built => \A n \in DOMAIN features :
       LET r == features[n]
           prior == ZonePrior(r.at)
       IN  /\ {r.lag1} = Newest(1, prior)
           /\ {r.lag3} = Newest(3, prior) \ Newest(2, prior)
           /\ r.mean3 = Newest(3, prior)
           /\ r.mean6 = Newest(6, prior) /\ r.std6 = Newest(6, prior)
           /\ r.zoneHour = SameHour(r.at)
           /\ r.target \in ZoneLater(r.at)
           /\ \A j \in ZoneLater(r.at) : r.target <= j

(* Point in time: the row of an event would have been the same had the data
   ended with the event that is its target, whatever came later. *)
LaterEventsChangeNothing ==
  Built => \A m \in DOMAIN frame :
    LET then == ToSet(BuildOffline(SubSeq(frame, 1, m)))
    IN  \A n \in DOMAIN features : features[n].target <= m => features[n] \in then

(* Every split of three rows or more has something to train on, to select
   with and to test on; together they are the rows in the order of time. *)
SplitsAreUsable ==
  splits # None =>
    /\ << >> \notin {splits.train, splits.validation, splits.test}
    /\ splits.train \o splits.validation \o splits.test = features
    /\ \A a, b \in DOMAIN features :
         a < b => frame[features[a].at].minute <= frame[features[b].at].minute

Inputs(r) == {r.lag1, r.lag3} \cup r.mean3 \cup r.mean6 \cup r.std6 \cup r.zoneHour

(* Nothing a training row is computed from is as late as any row held out;
   its label may be a held out event, but only the first of its zone. *)
TrainingKnowsNothingHeldOut ==
  splits # None =>
    \A a \in DOMAIN splits.train :
      \A held \in {splits.validation, splits.test} : \A b \in DOMAIN held :
        LET r == splits.train[a]
        IN  /\ \A j \in Inputs(r) : frame[j].minute < frame[held[b].at].minute
            /\ frame[held[b].at].zone = frame[r.at].zone => r.target <= held[b].at

(* No two events of a grid share zone and minute, and none of another day
   falls in between: the order of the events is the order of time. *)
ScheduleIsChronological ==
  csv # None /\ UsesGrid(config) =>
    \A a, b \in DOMAIN csv :
      csv[a].id < csv[b].id =>
        /\ csv[a].minute <= csv[b].minute
        /\ csv[a].zone = csv[b].zone => csv[a].minute < csv[b].minute
=============================================================================
