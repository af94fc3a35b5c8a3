------------------------- MODULE TelemetrySyncProofs -------------------------
(* What holds of the telemetry log and the table behind it for any number of
   logging runs, requests and syncs. *)
EXTENDS TelemetrySync, FiniteSetTheorems, WellFoundedInduction, TLAPS

TelInv == TelTypeOK /\ (ragged => Len(log) > 0)

(* The text of a row, or a part of it, makes the log a log again. *)
LEMMA LineType ==
  ASSUME TelInv, NEW line \in Row \cup {Torn}
  PROVE  WithLine(line) \in Seq(Row \cup {Torn}) /\ Len(WithLine(line)) > 0
BY DEF TelInv, TelTypeOK, WithLine

(* What WriteRow appends is a row. *)
LEMMA NextRowType ==
  ASSUME TelInv, NEW w \in Loggers, TakesId(w)
  PROVE  NextRow(w) \in Row /\ logger[w].counter + 1 \in 0..MaxRequests
BY TelemetryAssumption DEF TelInv, TelTypeOK, TakesId, NextRow, Row, LoggerState, Ids

(* A set of places in a sequence has a last one. *)
LEMMA LastPlaceExists ==
  ASSUME NEW n \in Nat, NEW places \in SUBSET (1..n), places # {}
  PROVE  /\ LastPlace(places) \in places
         /\ \A j \in places : j <= LastPlace(places)
<1> DEFINE fromEnd == {k \in Nat : \E i \in places : k = n - i}
<1>1. fromEnd \subseteq Nat /\ fromEnd # {}
  <2>1. PICK i \in places : TRUE
    OBVIOUS
  <2>2. n - i \in fromEnd
    BY <2>1
  <2>3. QED
    BY <2>2
<1>2. PICK k \in fromEnd : \A l \in fromEnd : ~(<<l, k>> \in OpToRel(<, Nat))
  BY <1>1, WFMin, NatLessThanWellFounded, Zenon
<1>3. \A l \in fromEnd : ~(l < k)
  BY <1>1, <1>2, Zenon DEF OpToRel
<1>4. PICK i \in places : k = n - i
  BY <1>2
<1>5. \A j \in places : j <= i
  <2>1. TAKE j \in places
  <2>2. n - j \in fromEnd
    OBVIOUS
  <2>3. ~(n - j < n - i)
    BY <1>3, <1>4, <2>2
  <2>4. QED
    BY <2>3
<1>6. QED
  BY <1>5 DEF LastPlace

(* What a transaction leaves behind is a table of rows. *)
LEMMA UpsertType ==
  ASSUME TelInv, NEW rows \in Seq(Row)
  PROVE  Upserted(rows) \in [Ids -> Row \cup {NoRow}]
<1>1. ASSUME NEW n \in Ids, Places(rows, n) # {}
      PROVE  LastPlace(Places(rows, n)) \in 1..Len(rows)
  <2>1. Places(rows, n) \in SUBSET (1..Len(rows)) /\ Len(rows) \in Nat
    BY DEF Places
  <2>2. LastPlace(Places(rows, n)) \in Places(rows, n)
    BY <1>1, <2>1, LastPlaceExists
  <2>3. QED
    BY <2>1, <2>2
<1>2. QED
  BY <1>1 DEF Upserted, TelInv, TelTypeOK

LEMMA TelInvInit == TelInit => TelInv
<1> SUFFICES ASSUME TelInit
             PROVE  TelInv
  OBVIOUS
<1>1. logger \in [Loggers -> LoggerState]
  BY TelemetryAssumption DEF TelInit, LoggerState
<1>2. sync \in [Syncers -> SyncState]
  BY DEF TelInit, SyncState
<1>3. table \in [Ids -> Row \cup {NoRow}]
  BY DEF TelInit, EmptyTable
<1>4. log \in Seq(Row \cup {Torn}) /\ ragged = FALSE /\ kept \subseteq Row /\ clock \in Nat
  BY DEF TelInit
<1>5. QED
  BY <1>1, <1>2, <1>3, <1>4 DEF TelInv, TelTypeOK

(* Every step of a logger and of a sync keeps the state well typed. *)
LEMMA TelInvStep == TelInv /\ [TelNext]_telVars => TelInv'
<1> SUFFICES ASSUME TelInv, [TelNext]_telVars
             PROVE  TelInv'
  OBVIOUS
<1> USE DEF TelInv, TelTypeOK
<1>1. ASSUME NEW w \in Loggers, StartLogger(w)
      PROVE  TelInv'
  <2>1. logger' \in [Loggers -> LoggerState]
    BY <1>1 DEF StartLogger, LoggerState
  <2>2. UNCHANGED <<table, sync, clock>>
    BY <1>1 DEF StartLogger
  <2>3. CASE log' = << >> /\ ragged' = FALSE /\ kept' = {}
    <3>1. << >> \in Seq(Row \cup {Torn}) /\ {} \subseteq Row
      OBVIOUS
    <3>2. ragged' \in BOOLEAN /\ (ragged' => Len(log') > 0)
      BY <2>3
    <3>3. QED
      BY <2>1, <2>2, <2>3, <3>1, <3>2
  <2>4. CASE UNCHANGED <<log, ragged, kept>>
    BY <2>1, <2>2, <2>4
  <2>5. QED
    BY <1>1, <2>3, <2>4 DEF StartLogger
<1>2. ASSUME NEW w \in Loggers, WriteRow(w)
      PROVE  TelInv'
  <2>1. NextRow(w) \in Row /\ logger[w].counter + 1 \in 0..MaxRequests
    BY <1>2, NextRowType DEF WriteRow
  <2>2. log' \in Seq(Row \cup {Torn})
    BY <1>2, <2>1, LineType DEF WriteRow
  <2>3. logger' \in [Loggers -> LoggerState]
    BY <1>2, <2>1 DEF WriteRow, LoggerState
  <2>4. kept' \subseteq Row
    BY <1>2, <2>1 DEF WriteRow
  <2>5. ragged' = FALSE /\ clock' = clock + 1 /\ UNCHANGED <<table, sync>>
    BY <1>2 DEF WriteRow
  <2>6. ragged' \in BOOLEAN /\ (ragged' => Len(log') > 0)
    BY <2>5, Zenon
  <2>7. clock' \in Nat
    BY <2>5
  <2>8. QED
    BY <2>2, <2>3, <2>4, <2>5, <2>6, <2>7
<1>3. ASSUME NEW w \in Loggers, WriteRowPartly(w)
      PROVE  TelInv'
  <2>1. NextRow(w) \in Row /\ logger[w].counter + 1 \in 0..MaxRequests
    BY <1>3, NextRowType DEF WriteRowPartly
  <2>2. PICK line \in {Torn, NextRow(w)} : log' = WithLine(line)
    BY <1>3 DEF WriteRowPartly
  <2>3. log' \in Seq(Row \cup {Torn}) /\ Len(log') > 0
    BY <2>1, <2>2, LineType
  <2>4. logger' \in [Loggers -> LoggerState]
    BY <1>3, <2>1 DEF WriteRowPartly, LoggerState
  <2>5. QED
    BY <1>3, <2>3, <2>4 DEF WriteRowPartly
<1>4. ASSUME NEW w \in Loggers, SkipRow(w) \/ EndLogger(w)
      PROVE  TelInv'
  <2>1. logger' \in [Loggers -> LoggerState]
    <3>1. CASE SkipRow(w)
      BY <3>1, NextRowType DEF SkipRow, LoggerState
    <3>2. CASE EndLogger(w)
      BY <3>2 DEF EndLogger, LoggerState
    <3>3. QED
      BY <1>4, <3>1, <3>2
  <2>2. QED
    BY <1>4, <2>1 DEF SkipRow, EndLogger
<1>5. ASSUME NEW s \in Syncers, ReadLog(s)
      PROVE  TelInv'
  <2>1. sync' \in [Syncers -> SyncState]
    <3>1. CASE HasTornLine
      BY <1>5, <3>1 DEF ReadLog, SyncState
    <3>2. CASE ~HasTornLine
      <4>1. log \in Seq(Row)
        BY <3>2 DEF HasTornLine
      <4>2. QED
        BY <1>5, <3>2, <4>1 DEF ReadLog, SyncState
    <3>3. QED
      BY <3>1, <3>2
  <2>2. QED
    BY <1>5, <2>1 DEF ReadLog
<1>6. ASSUME NEW s \in Syncers, ClearStore(s) \/ CopyRows(s)
      PROVE  TelInv'
  <2>1. sync' \in [Syncers -> SyncState]
    BY <1>6 DEF ClearStore, CopyRows, SyncState
  <2>2. sync[s].rows \in Seq(Row)
    BY DEF SyncState
  <2>3. table' \in [Ids -> Row \cup {NoRow}]
    BY <1>6, <2>2, UpsertType DEF ClearStore, CopyRows, EmptyTable
  <2>4. QED
    BY <1>6, <2>1, <2>3 DEF ClearStore, CopyRows
<1>7. ASSUME NEW s \in Syncers, CountRows(s)
      PROVE  TelInv'
  <2>1. RowCount \in Nat
    <3>1. IsFiniteSet(Ids)
      BY TelemetryAssumption, FS_Interval DEF Ids
    <3>2. IsFiniteSet({n \in Ids : table[n] # NoRow})
      BY <3>1, FS_Subset
    <3>3. QED
      BY <3>2, FS_CardinalityType DEF RowCount
  <2>2. sync' \in [Syncers -> SyncState]
    BY <1>7, <2>1 DEF CountRows, SyncState
  <2>3. QED
    BY <1>7, <2>2 DEF CountRows
<1>8. ASSUME NEW s \in Syncers, KillSync(s)
      PROVE  TelInv'
  <2>1. sync' \in [Syncers -> SyncState]
    BY <1>8 DEF KillSync, SyncState
  <2>2. QED
    BY <1>8, <2>1 DEF KillSync
<1>9. CASE UNCHANGED telVars
  BY <1>9 DEF telVars
<1>10. QED
  BY <1>1, <1>2, <1>3, <1>4, <1>5, <1>6, <1>7, <1>8, <1>9 DEF TelNext

(* TelTypeOK: no torn line is ever taken for a row, neither in a sync nor in
   the table. *)
THEOREM TelemetryTyping == TelSpec => []TelTypeOK
<1>1. TelInv => TelTypeOK
  BY DEF TelInv
<1>2. QED
  BY TelInvInit, TelInvStep, <1>1, PTL DEF TelSpec

-----------------------------------------------------------------------------
(* Text added to the log keeps every whole line, or leaves a torn one. *)
LEMMA LineKept ==
  ASSUME TelInv, NEW line \in Row \cup {Torn}, log' = WithLine(line), LossIsLoud
  PROVE  HasTornLine' \/ (/\ \A row \in kept : \E i \in 1..Len(log') : log'[i] = row
                         /\ \E i \in 1..Len(log') : log'[i] = line)
<1> USE DEF TelInv, TelTypeOK
<1>1. CASE ragged
  <2>1. log'[Len(log)] = Torn /\ Len(log') = Len(log) /\ Len(log) \in 1..Len(log)
    BY <1>1 DEF WithLine
  <2>2. QED
    BY <2>1 DEF HasTornLine
<1>2. CASE ~ragged
  <2>1. /\ Len(log') = Len(log) + 1 /\ Len(log) \in Nat
        /\ \A i \in 1..Len(log) : log'[i] = log[i]
        /\ log'[Len(log) + 1] = line
    BY <1>2 DEF WithLine
  <2>2. 1..Len(log) \subseteq 1..Len(log') /\ Len(log) + 1 \in 1..Len(log')
    BY <2>1
  <2>3. CASE HasTornLine
    BY <2>1, <2>2, <2>3 DEF HasTornLine
  <2>4. CASE ~HasTornLine
    BY <2>1, <2>2, <2>4 DEF LossIsLoud
  <2>5. QED
    BY <2>3, <2>4
<1>3. QED
  BY <1>1, <1>2

(* No step drops a kept row without a torn line to show for it. *)
LEMMA LossStep == TelInv /\ LossIsLoud /\ [TelNext]_telVars => LossIsLoud'
<1> SUFFICES ASSUME TelInv, LossIsLoud, [TelNext]_telVars
             PROVE  LossIsLoud'
  OBVIOUS
<1>1. ASSUME NEW w \in Loggers, WriteRow(w)
      PROVE  LossIsLoud'
  <2>1. NextRow(w) \in Row
    BY <1>1, NextRowType DEF WriteRow
  <2>2. log' = WithLine(NextRow(w)) /\ kept' = kept \cup {NextRow(w)}
    BY <1>1 DEF WriteRow
  <2>3. HasTornLine' \/ (/\ \A row \in kept : \E i \in 1..Len(log') : log'[i] = row
                        /\ \E i \in 1..Len(log') : log'[i] = NextRow(w))
    BY <2>1, <2>2, LineKept
  <2>4. QED
    BY <2>2, <2>3 DEF LossIsLoud
<1>2. ASSUME NEW w \in Loggers, WriteRowPartly(w)
      PROVE  LossIsLoud'
  <2>1. NextRow(w) \in Row
    BY <1>2, NextRowType DEF WriteRowPartly
  <2>2. PICK line \in {Torn, NextRow(w)} : log' = WithLine(line)
    BY <1>2 DEF WriteRowPartly
  <2>3. kept' = kept
    BY <1>2 DEF WriteRowPartly
  <2>4. line \in Row \cup {Torn}
    BY <2>1
  <2>5. QED
    BY <2>2, <2>3, <2>4, LineKept DEF LossIsLoud
<1>3. ASSUME NEW w \in Loggers, StartLogger(w)
      PROVE  LossIsLoud'
  BY <1>3 DEF StartLogger, LossIsLoud, HasTornLine
<1>4. CASE UNCHANGED <<log, kept>>
  BY <1>4 DEF LossIsLoud, HasTornLine
<1>5. QED
  BY <1>1, <1>2, <1>3, <1>4
     DEF TelNext, telVars, SkipRow, EndLogger, ClearStore, ReadLog, CopyRows, CountRows, KillSync

(* LossIsLoud: whatever is written short, and however often the file is
   removed, an acknowledged row is in the log or the log is refused. *)
THEOREM LossIsNeverSilent == TelSpec => []LossIsLoud
<1>1. TelInit => LossIsLoud
  BY DEF TelInit, LossIsLoud
<1>2. QED
  BY TelInvInit, TelInvStep, LossStep, <1>1, PTL DEF TelSpec

-----------------------------------------------------------------------------
(* Both properties of the table need what a sync has read to stay comparable
   with what the file and the table hold.  The rows of the file are in the
   order they were logged, and a logger numbers its rows apart, as long as no
   torn line hides some of them: from then on nothing is read until the file
   is removed. *)
Ordered(rows) == \A i, j \in 1..Len(rows) : i < j => rows[i].at < rows[j].at

Apart(rows) ==
  \A i, j \in 1..Len(rows) :
    rows[i].id = rows[j].id /\ rows[i].by = rows[j].by => i = j

LogInv ==
  HasTornLine \/
    /\ Ordered(log) /\ Apart(log)
    /\ \A i \in 1..Len(log) : log[i].at <= clock /\ log[i].id <= logger[log[i].by].counter

(* Whenever the file holds rows with the id of this one, it holds one logged
   no earlier. *)
Followed(row) ==
  /\ row.at <= clock
  /\ HasTornLine \/
       ((\E i \in 1..Len(log) : log[i].id = row.id) =>
           \E j \in 1..Len(log) : log[j].id = row.id /\ log[j].at >= row.at)

TableInv == \A n \in Ids : table[n] # NoRow => table[n].id = n /\ Followed(table[n])

ReadInv(s) ==
  /\ sync[s].pc \in {"read", "copied", "done"} => Apart(sync[s].rows)
  /\ sync[s].pc = "read" =>
       /\ Ordered(sync[s].rows)
       /\ \A k \in 1..Len(sync[s].rows) : Followed(sync[s].rows[k])
       /\ \A n \in Ids :
            table[n] # NoRow /\ Places(sync[s].rows, n) # {} =>
              \E k \in Places(sync[s].rows, n) : sync[s].rows[k].at >= table[n].at
  /\ sync[s].pc = "copied" =>
       \A k \in 1..Len(sync[s].rows) : table[sync[s].rows[k].id] # NoRow
  /\ sync[s].pc = "done" /\ sync[s].stored < Len(sync[s].rows) =>
       \E i, j \in 1..Len(sync[s].rows) :
         i # j /\ sync[s].rows[i].id = sync[s].rows[j].id

SerialInv ==
  /\ \A s, t \in Syncers : Active(s) /\ Active(t) => s = t
  /\ LogInv
  /\ TableInv
  /\ \A s \in Syncers : ReadInv(s)

LEMMA TelSerialInit == TelInit => SerialInv
<1> SUFFICES ASSUME TelInit
             PROVE  SerialInv
  OBVIOUS
<1>1. log = << >> /\ \A n \in Ids : table[n] = NoRow
  BY DEF TelInit, EmptyTable
<1>2. \A s \in Syncers : sync[s].pc = "idle"
  BY DEF TelInit
<1>3. LogInv
  BY <1>1 DEF LogInv, Ordered, Apart
<1>4. QED
  BY <1>1, <1>2, <1>3 DEF SerialInv, TableInv, ReadInv, Active

(* What a step does to the log: nothing, removal, a torn line, or one more
   row of a logger that has just counted it. *)
Appends(w) ==
  /\ ~HasTornLine
  /\ log' = Append(log, NextRow(w))
  /\ clock' = clock + 1
  /\ logger'[w].counter = logger[w].counter + 1
  /\ \A v \in Loggers \ {w} : logger'[v] = logger[v]

LEMMA LogMoves ==
  TelInv /\ [TelNext]_telVars =>
    \/ log' = << >> /\ clock' = clock
    \/ /\ UNCHANGED <<log, clock>>
       /\ \A w \in Loggers : logger'[w].counter >= logger[w].counter
    \/ HasTornLine' /\ clock' = clock + 1
    \/ \E w \in Loggers : Appends(w)
<1> SUFFICES ASSUME TelInv, [TelNext]_telVars
             PROVE  \/ log' = << >> /\ clock' = clock
                    \/ /\ UNCHANGED <<log, clock>>
                       /\ \A w \in Loggers : logger'[w].counter >= logger[w].counter
                    \/ HasTornLine' /\ clock' = clock + 1
                    \/ \E w \in Loggers : Appends(w)
  OBVIOUS
<1>a. /\ log \in Seq(Row \cup {Torn}) /\ (ragged => Len(log) > 0)
      /\ logger \in [Loggers -> LoggerState]
      /\ \A w \in Loggers : logger[w] \in LoggerState /\ logger[w].counter \in Nat
  BY TelemetryAssumption DEF TelInv, TelTypeOK, LoggerState
<1>b. ASSUME NEW line, log' = WithLine(line), line = Torn \/ ragged \/ HasTornLine
      PROVE  HasTornLine'
  <2>1. CASE ragged
    <3>1. log'[Len(log)] = Torn /\ Len(log') = Len(log) /\ Len(log) \in 1..Len(log)
      BY <1>a, <1>b, <2>1 DEF WithLine
    <3>2. QED
      BY <3>1 DEF HasTornLine
  <2>2. CASE ~ragged
    <3>1. /\ Len(log') = Len(log) + 1 /\ Len(log) \in Nat
          /\ \A i \in 1..Len(log) : log'[i] = log[i]
          /\ log'[Len(log) + 1] = line
      BY <1>a, <1>b, <2>2 DEF WithLine
    <3>2. Len(log) + 1 \in 1..Len(log') /\ \A i \in 1..Len(log) : i \in 1..Len(log')
      BY <3>1
    <3>3. QED
      BY <1>b, <2>2, <3>1, <3>2 DEF HasTornLine
  <2>3. QED
    BY <2>1, <2>2
<1>1. ASSUME NEW w \in Loggers, StartLogger(w)
      PROVE  \/ log' = << >> /\ clock' = clock
             \/ /\ UNCHANGED <<log, clock>>
                /\ \A v \in Loggers : logger'[v].counter >= logger[v].counter
  <2>1. logger' = [logger EXCEPT ![w].pc = "serving"]
    BY <1>1 DEF StartLogger
  <2>2. \A v \in Loggers : logger'[v].counter = logger[v].counter
    BY <1>a, <2>1 DEF LoggerState
  <2>3. QED
    BY <1>1, <1>a, <2>2 DEF StartLogger
<1>2. ASSUME NEW w \in Loggers, WriteRow(w) \/ WriteRowPartly(w)
      PROVE  (HasTornLine' /\ clock' = clock + 1) \/ Appends(w)
  <2>1. PICK line \in {Torn, NextRow(w)} : log' = WithLine(line)
    BY <1>2 DEF WriteRow, WriteRowPartly
  <2>2. clock' = clock + 1
    BY <1>2 DEF WriteRow, WriteRowPartly
  <2>3. /\ logger'[w].counter = logger[w].counter + 1
        /\ \A v \in Loggers \ {w} : logger'[v] = logger[v]
    BY <1>2, <1>a DEF WriteRow, WriteRowPartly, LoggerState
  <2>4. CASE line = Torn \/ ragged \/ HasTornLine
    BY <1>b, <2>1, <2>2, <2>4
  <2>5. CASE ~(line = Torn \/ ragged \/ HasTornLine)
    <3>1. log' = Append(log, NextRow(w))
      BY <2>1, <2>5 DEF WithLine
    <3>2. QED
      BY <2>2, <2>3, <2>5, <3>1 DEF Appends
  <2>6. QED
    BY <2>4, <2>5
<1>3. ASSUME NEW w \in Loggers, SkipRow(w) \/ EndLogger(w)
      PROVE  /\ UNCHANGED <<log, clock>>
             /\ \A v \in Loggers : logger'[v].counter >= logger[v].counter
  <2>1. \A v \in Loggers : logger'[v].counter \in {logger[v].counter, logger[v].counter + 1}
    <3>1. CASE SkipRow(w)
      <4>1. logger' = [logger EXCEPT ![w].counter = @ + 1]
        BY <3>1 DEF SkipRow
      <4>2. QED
        BY <1>a, <4>1 DEF LoggerState
    <3>2. CASE EndLogger(w)
      <4>1. logger' = [logger EXCEPT ![w].pc = "ended"]
        BY <3>2 DEF EndLogger
      <4>2. QED
        BY <1>a, <4>1 DEF LoggerState
    <3>3. QED
      BY <1>3, <3>1, <3>2
  <2>2. UNCHANGED <<log, clock>>
    BY <1>3 DEF SkipRow, EndLogger
  <2>3. QED
    BY <1>a, <2>1, <2>2
<1>4. CASE UNCHANGED <<log, clock, logger>>
  BY <1>a, <1>4
<1>5. QED
  BY <1>1, <1>2, <1>3, <1>4
     DEF TelNext, telVars, ClearStore, ReadLog, CopyRows, CountRows, KillSync

(* The lines of a log without a torn one are rows. *)
LEMMA WholeLog ==
  ASSUME TelInv, ~HasTornLine
  PROVE  \A i \in 1..Len(log) : log[i] \in Row /\ log[i].at \in Nat /\ log[i].id \in Nat
                                /\ log[i].by \in Loggers
<1>1. \A i \in 1..Len(log) : log[i] \in Row
  BY DEF TelInv, TelTypeOK, HasTornLine
<1>2. QED
  BY <1>1, TelemetryAssumption DEF Row, Ids

LEMMA LogStep == TelInv /\ LogInv /\ [TelNext]_telVars => LogInv'
<1> SUFFICES ASSUME TelInv, LogInv, [TelNext]_telVars
             PROVE  LogInv'
  OBVIOUS
<1>a. /\ log \in Seq(Row \cup {Torn}) /\ clock \in Nat
      /\ \A w \in Loggers : logger[w].counter \in Nat
  BY TelemetryAssumption DEF TelInv, TelTypeOK, LoggerState
<1>b. \A w \in Loggers : logger'[w].counter \in Nat
  BY TelInvStep, TelemetryAssumption DEF TelInv, TelTypeOK, LoggerState
<1>1. CASE log' = << >> /\ clock' = clock
  <2>1. Len(log') = 0
    BY <1>1
  <2>2. QED
    BY <2>1 DEF LogInv, Ordered, Apart
<1>2. CASE /\ UNCHANGED <<log, clock>>
           /\ \A w \in Loggers : logger'[w].counter >= logger[w].counter
  <2>1. CASE HasTornLine
    BY <1>2, <2>1 DEF LogInv, HasTornLine
  <2>2. CASE ~HasTornLine
    <3>1. \A i \in 1..Len(log) : log[i].id \in Nat /\ log[i].by \in Loggers
      BY <2>2, WholeLog
    <3>2. \A i \in 1..Len(log) : log[i].id <= logger'[log[i].by].counter
      BY <1>2, <1>a, <1>b, <2>2, <3>1 DEF LogInv
    <3>3. QED
      BY <1>2, <2>2, <3>2 DEF LogInv, Ordered, Apart
  <2>3. QED
    BY <2>1, <2>2
<1>3. CASE HasTornLine'
  BY <1>3 DEF LogInv
<1>4. ASSUME NEW w \in Loggers, Appends(w)
      PROVE  LogInv'
  <2> DEFINE last == Len(log) + 1
  <2>1. /\ Len(log') = last /\ Len(log) \in Nat
        /\ \A i \in 1..Len(log) : log'[i] = log[i]
        /\ log'[last] = NextRow(w)
    BY <1>4, <1>a DEF Appends
  <2>2. \A i \in 1..Len(log) : /\ log[i].at \in Nat /\ log[i].id \in Nat
                               /\ log[i].by \in Loggers
    BY <1>4, WholeLog DEF Appends
  <2>3. /\ Ordered(log) /\ Apart(log)
        /\ \A i \in 1..Len(log) : log[i].at <= clock /\ log[i].id <= logger[log[i].by].counter
    BY <1>4 DEF Appends, LogInv
  <2>4. /\ log'[last].id = logger[w].counter + 1 /\ log'[last].by = w
        /\ log'[last].at = clock + 1
    BY <2>1 DEF NextRow
  <2>5. \A i \in 1..Len(log') : i \in 1..Len(log) \/ i = last
    BY <2>1
  <2>6. Ordered(log)'
    <3>1. \A i \in 1..Len(log) : log[i].at < clock + 1
      BY <1>a, <2>2, <2>3
    <3>2. ASSUME NEW i \in 1..Len(log'), NEW j \in 1..Len(log'), i < j
          PROVE  log'[i].at < log'[j].at
      <4>1. i \in 1..Len(log)
        BY <2>1, <3>2
      <4>2. CASE j = last
        BY <2>1, <2>4, <3>1, <4>1, <4>2
      <4>3. CASE j \in 1..Len(log)
        BY <2>1, <2>3, <3>2, <4>1, <4>3 DEF Ordered
      <4>4. QED
        BY <2>5, <4>2, <4>3
    <3>3. QED
      BY <3>2 DEF Ordered
  <2>7. Apart(log)'
    <3>1. \A i \in 1..Len(log) : ~(log[i].id = logger[w].counter + 1 /\ log[i].by = w)
      BY <1>a, <2>2, <2>3
    <3>2. ASSUME NEW i \in 1..Len(log'), NEW j \in 1..Len(log'),
                 log'[i].id = log'[j].id, log'[i].by = log'[j].by
          PROVE  i = j
      <4>1. CASE i \in 1..Len(log) /\ j \in 1..Len(log)
        BY <2>1, <2>3, <3>2, <4>1 DEF Apart
      <4>2. CASE i \in 1..Len(log) /\ j = last
        BY <2>1, <2>4, <3>1, <3>2, <4>2
      <4>3. CASE i = last /\ j \in 1..Len(log)
        BY <2>1, <2>4, <3>1, <3>2, <4>3
      <4>4. QED
        BY <2>5, <4>1, <4>2, <4>3
    <3>3. QED
      BY <3>2 DEF Apart
  <2>8. \A i \in 1..Len(log') :
          log'[i].at <= clock' /\ log'[i].id <= logger'[log'[i].by].counter
    <3>1. ASSUME NEW i \in 1..Len(log)
          PROVE  log'[i].at <= clock' /\ log'[i].id <= logger'[log'[i].by].counter
      <4>1. log'[i].at <= clock'
        BY <1>4, <1>a, <2>1, <2>2, <2>3 DEF Appends
      <4>2. logger'[log[i].by].counter >= logger[log[i].by].counter
        BY <1>4, <1>a, <2>2 DEF Appends
      <4>3. log[i].id <= logger'[log[i].by].counter
        BY <1>a, <1>b, <2>2, <2>3, <4>2
      <4>4. QED
        BY <2>1, <4>1, <4>3
    <3>2. log'[last].at <= clock' /\ log'[last].id <= logger'[log'[last].by].counter
      BY <1>4, <1>a, <1>b, <2>4 DEF Appends
    <3>3. QED
      BY <2>5, <3>1, <3>2
  <2>9. QED
    BY <2>6, <2>7, <2>8 DEF LogInv
<1>5. QED
  BY <1>1, <1>2, <1>3, <1>4, LogMoves

(* What follows a row keeps following it: rows are only added behind, and a
   file that is removed starts again with later ones. *)
LEMMA FollowedStep ==
  ASSUME TelInv, [TelNext]_telVars, NEW row \in Row, Followed(row)
  PROVE  Followed(row)'
<1>a. row.at \in Nat /\ clock \in Nat /\ log \in Seq(Row \cup {Torn})
  BY DEF Row, TelInv, TelTypeOK
<1>1. CASE log' = << >> /\ clock' = clock
  <2>1. Len(log') = 0
    BY <1>1
  <2>2. QED
    BY <1>1, <2>1 DEF Followed
<1>2. CASE UNCHANGED <<log, clock>>
  BY <1>2 DEF Followed, HasTornLine
<1>3. CASE HasTornLine' /\ clock' = clock + 1
  BY <1>3, <1>a DEF Followed
<1>4. ASSUME NEW w \in Loggers, Appends(w)
      PROVE  Followed(row)'
  <2> DEFINE last == Len(log) + 1
  <2>1. /\ Len(log') = last /\ Len(log) \in Nat
        /\ \A i \in 1..Len(log) : log'[i] = log[i]
        /\ log'[last] = NextRow(w)
    BY <1>4, <1>a DEF Appends
  <2>2. row.at <= clock /\ clock' = clock + 1 /\ log'[last].at = clock + 1 /\ ~HasTornLine
    BY <1>4, <2>1 DEF Appends, NextRow, Followed
  <2>3. row.at <= clock' /\ log'[last].at >= row.at
    BY <1>a, <2>2
  <2>4. ASSUME NEW i \in 1..Len(log'), log'[i].id = row.id
        PROVE  \E j \in 1..Len(log') : log'[j].id = row.id /\ log'[j].at >= row.at
    <3>1. CASE i = last
      BY <2>3, <2>4, <3>1
    <3>2. CASE i # last
      <4>1. i \in 1..Len(log) /\ log[i].id = row.id
        BY <2>1, <2>4, <3>2
      <4>2. PICK j \in 1..Len(log) : log[j].id = row.id /\ log[j].at >= row.at
        BY <2>2, <4>1 DEF Followed
      <4>3. j \in 1..Len(log') /\ log'[j] = log[j]
        BY <2>1
      <4>4. QED
        BY <4>2, <4>3
    <3>3. QED
      BY <3>1, <3>2
  <2>5. QED
    BY <2>3, <2>4 DEF Followed
<1>5. QED
  BY <1>1, <1>2, <1>3, <1>4, LogMoves

(* The rows of the log follow themselves. *)
LEMMA LogFollowed ==
  ASSUME TelInv, LogInv, ~HasTornLine, NEW k \in 1..Len(log)
  PROVE  Followed(log[k])
<1>1. log[k].at <= clock /\ log[k].at \in Nat
  BY WholeLog DEF LogInv
<1>2. log[k].at >= log[k].at
  BY <1>1
<1>3. QED
  BY <1>1, <1>2 DEF Followed

(* What a transaction stores under an id is the last row it read with it. *)
LEMMA UpsertedRow ==
  ASSUME NEW rows \in Seq(Row), NEW n \in Ids
  PROVE  IF Places(rows, n) = {} THEN Upserted(rows)[n] = table[n]
         ELSE \E k \in Places(rows, n) : /\ Upserted(rows)[n] = rows[k]
                                         /\ \A j \in Places(rows, n) : j <= k
<1>1. CASE Places(rows, n) = {}
  BY <1>1 DEF Upserted
<1>2. CASE Places(rows, n) # {}
  <2>1. Places(rows, n) \in SUBSET (1..Len(rows)) /\ Len(rows) \in Nat
    BY DEF Places
  <2>2. /\ LastPlace(Places(rows, n)) \in Places(rows, n)
        /\ \A j \in Places(rows, n) : j <= LastPlace(Places(rows, n))
    BY <1>2, <2>1, LastPlaceExists
  <2>3. Upserted(rows)[n] = rows[LastPlace(Places(rows, n))]
    BY <1>2 DEF Upserted
  <2>4. QED
    BY <1>2, <2>2, <2>3
<1>3. QED
  BY <1>1, <1>2

(* If no id occurs twice among the rows a sync stored, it counts as many. *)
LEMMA ShortCount ==
  ASSUME TelInv, NEW rows \in Seq(Row), RowCount < Len(rows),
         \A k \in 1..Len(rows) : table[rows[k].id] # NoRow
  PROVE  \E i, j \in 1..Len(rows) : i # j /\ rows[i].id = rows[j].id
<1> DEFINE stored == {n \in Ids : table[n] # NoRow}
           ids == [k \in 1..Len(rows) |-> rows[k].id]
<1>1. IsFiniteSet(stored)
  <2>1. IsFiniteSet(Ids)
    BY TelemetryAssumption, FS_Interval DEF Ids
  <2>2. QED
    BY <2>1, FS_Subset
<1>2. ids \in [1..Len(rows) -> stored]
  <2>1. \A k \in 1..Len(rows) : rows[k] \in Row
    OBVIOUS
  <2>2. \A k \in 1..Len(rows) : rows[k].id \in stored
    BY <2>1 DEF Row
  <2> HIDE DEF stored
  <2>3. QED
    BY <2>2
<1>3. IsFiniteSet(1..Len(rows)) /\ Cardinality(1..Len(rows)) = Len(rows)
  <2>1. PICK n \in Nat : n = Len(rows)
    OBVIOUS
  <2>2. 1 \in Int /\ n \in Int
    OBVIOUS
  <2>3. IsFiniteSet(1..n) /\ Cardinality(1..n) = IF 1 > n THEN 0 ELSE n - 1 + 1
    BY <2>2, FS_Interval
  <2>4. Cardinality(1..n) = n
    BY <2>3
  <2>5. QED
    BY <2>1, <2>3, <2>4
<1>4. Cardinality(stored) < Cardinality(1..Len(rows))
  BY <1>3 DEF RowCount
<1> HIDE DEF stored, ids
<1>5. PICK i, j \in 1..Len(rows) : i # j /\ ids[i] = ids[j]
  BY <1>1, <1>2, <1>3, <1>4, FS_PigeonHole
<1>6. QED
  BY <1>5 DEF ids

(* A step that reads, stores and counts nothing. *)
LEMMA ReadKept ==
  ASSUME TelInv, [TelNext]_telVars, NEW s \in Syncers, ReadInv(s),
         sync'[s] = sync[s], sync[s].pc \in {"read", "copied"} => table' = table
  PROVE  ReadInv(s)'
<1>a. sync[s] \in SyncState
  BY DEF TelInv, TelTypeOK
<1> DEFINE rows == sync[s].rows
<1>1. rows \in Seq(Row)
  BY <1>a DEF SyncState
<1>2. \A k \in 1..Len(rows) : rows[k] \in Row
  BY <1>1
<1>3. CASE sync[s].pc = "read"
  <2>1. ASSUME NEW k \in 1..Len(rows)
        PROVE  Followed(sync[s].rows[k])'
    <3>1. PICK x \in Row : x = rows[k]
      BY <1>2
    <3>2. Followed(x)
      BY <1>3, <3>1 DEF ReadInv
    <3>3. Followed(x)'
      BY <3>2, FollowedStep
    <3>4. sync'[s].rows[k] = x
      BY <3>1
    <3>5. QED
      BY <3>3, <3>4 DEF Followed
  <2>2. QED
    BY <1>3, <2>1 DEF ReadInv, Places
<1>4. CASE sync[s].pc # "read"
  BY <1>4 DEF ReadInv
<1>5. QED
  BY <1>3, <1>4

(* Followed, of the rows a step leaves in the table. *)
LEMMA TableKept ==
  ASSUME TelInv, [TelNext]_telVars, TableInv, table' = table
  PROVE  TableInv'
<1> SUFFICES ASSUME NEW n \in Ids, table[n] # NoRow
             PROVE  table'[n].id = n /\ Followed(table[n])'
  BY DEF TableInv
<1>1. PICK x \in Row : x = table[n]
  BY DEF TelInv, TelTypeOK
<1>2. x.id = n /\ Followed(x)
  BY <1>1 DEF TableInv
<1>3. Followed(x)'
  BY <1>2, FollowedStep
<1>4. QED
  BY <1>1, <1>2, <1>3 DEF Followed

(* Reading the log: what it holds follows the table. *)
LEMMA ReadLogStep ==
  ASSUME TelInv, LogInv, TableInv, NEW s \in Syncers, ReadLog(s)
  PROVE  ReadInv(s)'
<1>a. sync \in [Syncers -> SyncState] /\ log \in Seq(Row \cup {Torn})
  BY DEF TelInv, TelTypeOK
<1>1. CASE HasTornLine
  <2>1. sync' = [sync EXCEPT ![s].pc = "failed"]
    BY <1>1 DEF ReadLog
  <2>2. sync'[s].pc = "failed"
    BY <1>a, <2>1 DEF SyncState
  <2>3. QED
    BY <2>2 DEF ReadInv
<1>2. CASE ~HasTornLine
  <2>1. sync' = [sync EXCEPT ![s].pc = "read", ![s].rows = log]
    BY <1>2 DEF ReadLog
  <2>2. sync'[s].pc = "read" /\ sync'[s].rows = log
    BY <1>a, <2>1 DEF SyncState
  <2>3. UNCHANGED <<log, table, clock>>
    BY DEF ReadLog
  <2>4. Ordered(log) /\ Apart(log)
    BY <1>2 DEF LogInv
  <2>5. \A k \in 1..Len(log) : Followed(log[k])
    BY <1>2, LogFollowed
  <2>6. ASSUME NEW n \in Ids, table[n] # NoRow, Places(log, n) # {}
        PROVE  \E k \in Places(log, n) : log[k].at >= table[n].at
    <3>1. \E i \in 1..Len(log) : log[i].id = n
      BY <2>6 DEF Places
    <3>2. table[n].id = n /\ Followed(table[n])
      BY <2>6 DEF TableInv
    <3>3. PICK j \in 1..Len(log) : log[j].id = n /\ log[j].at >= table[n].at
      BY <1>2, <3>1, <3>2 DEF Followed
    <3>4. QED
      BY <3>3 DEF Places
  <2>7. /\ Ordered(sync[s].rows)' /\ Apart(sync[s].rows)'
        /\ \A k \in 1..Len(sync'[s].rows) : Followed(sync[s].rows[k])'
    BY <2>2, <2>3, <2>4, <2>5 DEF Ordered, Apart, Followed, HasTornLine
  <2>8. \A n \in Ids : table'[n] # NoRow /\ Places(sync'[s].rows, n) # {} =>
          \E k \in Places(sync'[s].rows, n) : sync'[s].rows[k].at >= table'[n].at
    BY <2>2, <2>3, <2>6
  <2>9. QED
    BY <2>2, <2>7, <2>8 DEF ReadInv, Places
<1>3. QED
  BY <1>1, <1>2

(* Storing what was read. *)
LEMMA CopyStep ==
  ASSUME TelInv, TableInv, NEW s \in Syncers, ReadInv(s), sync[s].pc = "read",
         table' = Upserted(sync[s].rows), UNCHANGED <<log, clock>>
  PROVE  /\ TableInv'
         /\ \A k \in 1..Len(sync[s].rows) : table'[sync[s].rows[k].id] # NoRow
         /\ \A n \in Ids :
              table[n] # NoRow /\ table'[n] # NoRow => table'[n].at >= table[n].at
<1> DEFINE rows == sync[s].rows
<1>a. rows \in Seq(Row) /\ table \in [Ids -> Row \cup {NoRow}]
  BY DEF TelInv, TelTypeOK, SyncState
<1>b. \A k \in 1..Len(rows) : rows[k] \in Row /\ rows[k].id \in Ids /\ rows[k].at \in Nat
  <2>1. \A k \in 1..Len(rows) : rows[k] \in Row
    BY <1>a
  <2> HIDE DEF rows
  <2>2. QED
    BY <2>1 DEF Row
<1>c. /\ Ordered(rows)
      /\ \A k \in 1..Len(rows) : Followed(rows[k])
      /\ \A n \in Ids : table[n] # NoRow /\ Places(rows, n) # {} =>
           \E k \in Places(rows, n) : rows[k].at >= table[n].at
  BY DEF ReadInv
<1>d. \A n \in Ids : IF Places(rows, n) = {} THEN table'[n] = table[n]
                     ELSE \E k \in Places(rows, n) : /\ table'[n] = rows[k]
                                                     /\ \A j \in Places(rows, n) : j <= k
  BY <1>a, UpsertedRow
<1>e. \A n \in Ids : \A k \in Places(rows, n) : k \in 1..Len(rows) /\ rows[k].id = n
  BY DEF Places
<1>f. \A n \in Ids : table[n] # NoRow => table[n] \in Row /\ table[n].at \in Nat
  BY <1>a DEF Row
<1>g. UNCHANGED log /\ UNCHANGED clock
  OBVIOUS
<1> HIDE DEF rows
<1>1. ASSUME NEW n \in Ids, table'[n] # NoRow
      PROVE  table'[n].id = n /\ Followed(table[n])'
  <2>1. table'[n].id = n /\ \E x \in Row : x = table'[n] /\ Followed(x)
    <3>1. CASE Places(rows, n) = {}
      BY <1>1, <1>d, <1>f, <3>1 DEF TableInv
    <3>2. CASE Places(rows, n) # {}
      BY <1>b, <1>c, <1>d, <1>e, <3>2
    <3>3. QED
      BY <3>1, <3>2
  <2>2. PICK x \in Row : x = table'[n] /\ Followed(x)
    BY <2>1
  <2>3. Followed(table[n])'
    BY <1>g, <2>2 DEF Followed, HasTornLine
  <2>4. QED
    BY <2>1, <2>3
<1>2. ASSUME NEW k \in 1..Len(rows)
      PROVE  table'[rows[k].id] # NoRow
  <2>1. k \in Places(rows, rows[k].id)
    BY DEF Places
  <2>2. \E j \in 1..Len(rows) : table'[rows[k].id] = rows[j]
    BY <1>b, <1>d, <1>e, <2>1
  <2>3. QED
    BY <1>b, <2>2, NoRowAssumption
<1>3. ASSUME NEW n \in Ids, table[n] # NoRow, table'[n] # NoRow
      PROVE  table'[n].at >= table[n].at
  <2>1. CASE Places(rows, n) = {}
    BY <1>3, <1>d, <1>f, <2>1
  <2>2. CASE Places(rows, n) # {}
    <3>1. PICK k \in Places(rows, n) : /\ table'[n] = rows[k]
                                       /\ \A j \in Places(rows, n) : j <= k
      BY <1>d, <2>2
    <3>2. PICK j \in Places(rows, n) : rows[j].at >= table[n].at
      BY <1>3, <1>c, <2>2
    <3>3. j <= k /\ j \in 1..Len(rows) /\ k \in 1..Len(rows)
      BY <1>e, <3>1, <3>2
    <3>4. rows[j].at <= rows[k].at
      <4>1. CASE j = k
        BY <1>b, <3>3, <4>1
      <4>2. CASE j # k
        <5>1. j < k
          BY <3>3, <4>2
        <5>2. rows[j].at < rows[k].at
          BY <1>c, <3>3, <5>1 DEF Ordered
        <5>3. QED
          BY <1>b, <3>3, <5>2
      <4>3. QED
        BY <4>1, <4>2
    <3>5. QED
      BY <1>b, <1>f, <1>3, <3>1, <3>2, <3>3, <3>4
  <2>3. QED
    BY <2>1, <2>2
<1>4. QED
  BY <1>1, <1>2, <1>3 DEF TableInv, rows

LEMMA TelSerialStep ==
  ASSUME ~Overlap, TelInv, SerialInv, [TelNext]_telVars
  PROVE  /\ SerialInv'
         /\ \A n \in Ids :
              table[n] # NoRow /\ table'[n] # NoRow => table'[n].at >= table[n].at
<1> DEFINE Forward == \A n \in Ids :
                        table[n] # NoRow /\ table'[n] # NoRow => table'[n].at >= table[n].at
<1>a. /\ sync \in [Syncers -> SyncState] /\ table \in [Ids -> Row \cup {NoRow}]
      /\ \A s \in Syncers : sync[s] \in SyncState
  BY DEF TelInv, TelTypeOK
<1>b. LogInv /\ TableInv /\ (\A s \in Syncers : ReadInv(s)) /\ LogInv'
  BY LogStep DEF SerialInv
<1>c. ASSUME table' = table
      PROVE  TableInv' /\ Forward
  <2>1. \A n \in Ids : table[n] # NoRow => table[n].at \in Nat
    BY <1>a DEF Row
  <2>2. TableInv'
    BY <1>b, <1>c, TableKept
  <2>3. Forward
    BY <1>c, <2>1
  <2>4. QED
    BY <2>2, <2>3
<1>d. ASSUME NEW t \in Syncers, sync'[t] = sync[t],
             table' = table \/ ~Active(t)
      PROVE  ReadInv(t)'
  BY <1>b, <1>d, ReadKept DEF Active
<1>e. ASSUME NEW s \in Syncers, \A t \in Syncers \ {s} : sync'[t] = sync[t],
             Active(s)' => \A t \in Syncers \ {s} : ~Active(t)
      PROVE  \A t, u \in Syncers : Active(t)' /\ Active(u)' => t = u
  BY <1>e DEF SerialInv, Active
<1> HIDE DEF Forward
<1>1. CASE UNCHANGED <<sync, table>>
  <2>1. \A s \in Syncers : ReadInv(s)'
    BY <1>1, <1>d
  <2>2. \A t, u \in Syncers : Active(t)' /\ Active(u)' => t = u
    BY <1>1 DEF SerialInv, Active
  <2>3. QED
    BY <1>1, <1>b, <1>c, <2>1, <2>2 DEF SerialInv, Forward
<1>2. ASSUME NEW s \in Syncers, ClearStore(s)
      PROVE  SerialInv' /\ Forward
  <2>1. sync' = [sync EXCEPT ![s].pc = "cleared"] /\ table' = EmptyTable
    BY <1>2 DEF ClearStore
  <2>2. (\A t \in Syncers \ {s} : sync'[t] = sync[t]) /\ sync'[s].pc = "cleared"
    BY <1>a, <2>1 DEF SyncState
  <2>3. \A t \in Syncers \ {s} : ~Active(t)
    BY <1>2 DEF ClearStore, MayStart
  <2>4. \A t \in Syncers \ {s} : ReadInv(t)'
    BY <1>d, <2>2, <2>3
  <2>5. ReadInv(s)'
    BY <2>2 DEF ReadInv
  <2>6. TableInv' /\ Forward
    BY <2>1 DEF TableInv, Forward, EmptyTable
  <2>7. \A t, u \in Syncers : Active(t)' /\ Active(u)' => t = u
    BY <1>e, <2>2, <2>3
  <2>8. QED
    BY <1>b, <2>4, <2>5, <2>6, <2>7 DEF SerialInv
<1>3. ASSUME NEW s \in Syncers, ReadLog(s)
      PROVE  SerialInv' /\ Forward
  <2>1. (\A t \in Syncers \ {s} : sync'[t] = sync[t]) /\ table' = table
    BY <1>3, <1>a DEF ReadLog
  <2>2. \A t \in Syncers \ {s} : ~Active(t)
    BY <1>3 DEF ReadLog, MayStart
  <2>3. ReadInv(s)'
    BY <1>3, <1>b, ReadLogStep
  <2>4. \A t \in Syncers \ {s} : ReadInv(t)'
    BY <1>d, <2>1
  <2>5. \A t, u \in Syncers : Active(t)' /\ Active(u)' => t = u
    BY <1>e, <2>1, <2>2
  <2>6. QED
    BY <1>b, <1>c, <2>1, <2>3, <2>4, <2>5 DEF SerialInv
<1>4. ASSUME NEW s \in Syncers, CopyRows(s)
      PROVE  SerialInv' /\ Forward
  <2>1. sync[s].pc = "read" /\ UNCHANGED <<log, clock>>
    BY <1>4 DEF CopyRows
  <2>2. Active(s) /\ \A t \in Syncers \ {s} : sync'[t] = sync[t]
    BY <1>4, <1>a, <2>1 DEF CopyRows, Active
  <2>3. \A t \in Syncers \ {s} : ~Active(t)
    BY <2>2 DEF SerialInv
  <2>4. \A t \in Syncers \ {s} : ReadInv(t)'
    BY <1>d, <2>2, <2>3
  <2>5. \A t, u \in Syncers : Active(t)' /\ Active(u)' => t = u
    BY <1>e, <2>2, <2>3
  <2>6. CASE table' = Upserted(sync[s].rows) /\ sync' = [sync EXCEPT ![s].pc = "copied"]
    <3>1. sync'[s].pc = "copied" /\ sync'[s].rows = sync[s].rows
      BY <1>a, <2>6 DEF SyncState
    <3>2. /\ TableInv' /\ Forward
          /\ \A k \in 1..Len(sync[s].rows) : table'[sync[s].rows[k].id] # NoRow
      BY <1>b, <2>1, <2>6, CopyStep DEF Forward
    <3>3. Apart(sync[s].rows)'
      BY <1>b, <2>1, <3>1 DEF ReadInv, Apart
    <3>4. ReadInv(s)'
      BY <3>1, <3>2, <3>3 DEF ReadInv
    <3>5. QED
      BY <1>b, <2>4, <2>5, <3>2, <3>4 DEF SerialInv
  <2>7. CASE sync' = [sync EXCEPT ![s].pc = "failed"] /\ table' = table
    <3>1. sync'[s].pc = "failed"
      BY <1>a, <2>7 DEF SyncState
    <3>2. ReadInv(s)'
      BY <3>1 DEF ReadInv
    <3>3. QED
      BY <1>b, <1>c, <2>4, <2>5, <2>7, <3>2 DEF SerialInv
  <2>8. QED
    BY <1>4, <2>6, <2>7 DEF CopyRows
<1>5. ASSUME NEW s \in Syncers, CountRows(s) \/ KillSync(s)
      PROVE  SerialInv' /\ Forward
  <2>1. table' = table /\ Active(s) /\ \A t \in Syncers \ {s} : sync'[t] = sync[t]
    BY <1>5, <1>a DEF CountRows, KillSync, Active
  <2>2. \A t \in Syncers \ {s} : ReadInv(t)'
    BY <1>d, <2>1
  <2>3. \A t \in Syncers \ {s} : ~Active(t)
    BY <2>1 DEF SerialInv
  <2>4. \A t, u \in Syncers : Active(t)' /\ Active(u)' => t = u
    BY <1>e, <2>1, <2>3
  <2>5. ReadInv(s)'
    <3>1. CASE CountRows(s)
      <4>1. sync' = [sync EXCEPT ![s].pc = "done", ![s].stored = RowCount]
            /\ sync[s].pc = "copied"
        BY <3>1 DEF CountRows
      <4>2. sync'[s].pc = "done" /\ sync'[s].stored = RowCount /\ sync'[s].rows = sync[s].rows
        BY <1>a, <4>1 DEF SyncState
      <4>3. sync[s].rows \in Seq(Row)
        BY <1>a DEF SyncState
      <4>4. /\ Apart(sync[s].rows)
            /\ \A k \in 1..Len(sync[s].rows) : table[sync[s].rows[k].id] # NoRow
        BY <1>b, <4>1 DEF ReadInv
      <4>5. RowCount < Len(sync[s].rows) =>
              \E i, j \in 1..Len(sync[s].rows) :
                i # j /\ sync[s].rows[i].id = sync[s].rows[j].id
        BY <4>3, <4>4, ShortCount
      <4>6. Apart(sync[s].rows)'
        BY <4>2, <4>4 DEF Apart
      <4>7. QED
        BY <4>2, <4>5, <4>6 DEF ReadInv
    <3>2. CASE KillSync(s)
      <4>1. sync' = [sync EXCEPT ![s].pc = "failed"]
        BY <3>2 DEF KillSync
      <4>2. sync'[s].pc = "failed"
        BY <1>a, <4>1 DEF SyncState
      <4>3. QED
        BY <4>2 DEF ReadInv
    <3>3. QED
      BY <1>5, <3>1, <3>2
  <2>6. QED
    BY <1>b, <1>c, <2>1, <2>2, <2>4, <2>5 DEF SerialInv
<1>6. QED
  <2>1. ASSUME NEW w \in Loggers,
               StartLogger(w) \/ WriteRow(w) \/ WriteRowPartly(w) \/ SkipRow(w) \/ EndLogger(w)
        PROVE  UNCHANGED <<sync, table>>
    BY <2>1 DEF StartLogger, WriteRow, WriteRowPartly, SkipRow, EndLogger
  <2>2. QED
    BY <1>1, <1>2, <1>3, <1>4, <1>5, <2>1 DEF TelNext, telVars, Forward

(* ShortfallIsSharedIds: while syncs do not overlap, a report with fewer rows
   stored than read has read rows of two runs under one request id. *)
THEOREM ShortfallsAreSharedIds ==
  ASSUME ~Overlap
  PROVE  TelSpec => []ShortfallIsSharedIds
<1>1. TelInv /\ SerialInv /\ [TelNext]_telVars => SerialInv'
  BY TelSerialStep
<1>2. SerialInv => ShortfallIsSharedIds
  <2> SUFFICES ASSUME SerialInv, NEW s \in Syncers, sync[s].pc = "done",
                      sync[s].stored < Len(sync[s].rows)
               PROVE  \E i, j \in 1..Len(sync[s].rows) :
                        /\ sync[s].rows[i].id = sync[s].rows[j].id
                        /\ sync[s].rows[i].by # sync[s].rows[j].by
    BY DEF ShortfallIsSharedIds
  <2>1. ReadInv(s)
    BY DEF SerialInv
  <2>2. PICK i, j \in 1..Len(sync[s].rows) :
          i # j /\ sync[s].rows[i].id = sync[s].rows[j].id
    BY <2>1 DEF ReadInv
  <2>3. Apart(sync[s].rows)
    BY <2>1 DEF ReadInv
  <2>4. sync[s].rows[i].by # sync[s].rows[j].by
    BY <2>2, <2>3 DEF Apart
  <2>5. QED
    BY <2>2, <2>4
<1>3. QED
  BY TelInvInit, TelInvStep, TelSerialInit, <1>1, <1>2, PTL DEF TelSpec

(* StoreMovesForward: while syncs do not overlap, the row stored under an id
   is only replaced by one logged later, however often the log was removed,
   torn or written behind a sync's back in between. *)
THEOREM StoredRowsMoveForward ==
  ASSUME ~Overlap
  PROVE  TelSpec => StoreMovesForward
<1>1. TelInv /\ SerialInv /\ [TelNext]_telVars => SerialInv'
  BY TelSerialStep
<1>2. TelInv /\ SerialInv /\ [TelNext]_telVars =>
        [\A n \in Ids :
           table[n] # NoRow /\ table'[n] # NoRow => table'[n].at >= table[n].at]_telVars
  BY TelSerialStep
<1>3. QED
  BY TelInvInit, TelInvStep, TelSerialInit, <1>1, <1>2, PTL DEF TelSpec, StoreMovesForward
=============================================================================
