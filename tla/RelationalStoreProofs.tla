------------------------ MODULE RelationalStoreProofs ------------------------
(***************************************************************************)
(* What the relational store promises for any number of syncs, inspections *)
(* and generations of the files.                                           *)
(***************************************************************************)
EXTENDS RelationalStore, FiniteSetTheorems, TLAPS

AfterSchema == {"replace", "inside", "committed"}
AfterReading == {"schema", "create", "done"} \cup AfterSchema

(* The tables a run did not find and has not created yet are the only ones
   that may be missing. *)
SchemaInv ==
  /\ sync \in [Syncs -> SyncState]
  /\ look \in [Inspections -> LookState]
  /\ \A s \in Syncs : sync[s].pc = "create" => TableSet \subseteq tables \cup sync[s].missing
  /\ \A i \in Inspections : look[i].pc = "create" => TableSet \subseteq tables \cup look[i].missing
  /\ StatementsFindTheirTables
  /\ disk \in [FileSet -> File]
  /\ \A i \in Inspections :
       look[i].pc \in {"start", "create", "select"} => Len(look[i].seen) < Len(Selects)
  /\ \A s \in Syncs : /\ sync[s].pc \in AfterReading => Len(sync[s].got) = 3
                      /\ sync[s].pc = "start" => Len(sync[s].got) < 3

LEMMA TableFacts ==
  /\ TableSet = {"events", "features", "snapshots", "runs"}
  /\ FileSet = {"events", "features", "snapshot"}
BY DEF TableSet, TableNames, FileSet, FileNames

LEMMA SchemaInit == RelInit => SchemaInv
<1> SUFFICES ASSUME RelInit  PROVE SchemaInv
  OBVIOUS
<1> DEFINE x == [pc |-> "start", got |-> << >>, missing |-> {}, done |-> 0]
           y == [pc |-> "start", seen |-> << >>, missing |-> {}, disturbed |-> FALSE]
           z == [gen |-> 0, cut |-> FALSE]
<1>1. x \in SyncState /\ x.pc = "start" /\ Len(x.got) = 0
  BY DEF SyncState, SyncPc
<1>2. y \in LookState /\ y.pc = "start" /\ Len(y.seen) < Len(Selects)
  BY DEF LookState, LookPc, Selects
<1>3. z \in File
  BY RelationalAssumption DEF File
<1>4. /\ sync = [s \in Syncs |-> x] /\ look = [i \in Inspections |-> y]
      /\ disk = [f \in FileSet |-> z] /\ tables = {}
  BY DEF RelInit
<1> HIDE DEF x, y, z
<1>5. sync \in [Syncs -> SyncState] /\ \A s \in Syncs : sync[s] = x
  BY <1>1, <1>4
<1>6. look \in [Inspections -> LookState] /\ \A i \in Inspections : look[i] = y
  BY <1>2, <1>4
<1>7. disk \in [FileSet -> File]
  BY <1>3, <1>4
<1>8. StatementsFindTheirTables
  BY <1>1, <1>2, <1>5, <1>6 DEF StatementsFindTheirTables
<1> QED
  BY <1>1, <1>2, <1>5, <1>6, <1>7, <1>8 DEF SchemaInv, AfterReading, AfterSchema

(* What one run of sync-relational-store becomes of a step of its own. *)
LEMMA SyncTypes ==
  ASSUME SchemaInv, NEW s \in Syncs, NEW x \in SyncState, sync' = [sync EXCEPT ![s] = x]
  PROVE  /\ sync' \in [Syncs -> SyncState]
         /\ sync'[s] = x
         /\ \A t \in Syncs : t # s => sync'[t] = sync[t]
BY DEF SchemaInv

LEMMA FailedState ==
  ASSUME SchemaInv, NEW s \in Syncs, SyncFails(s)
  PROVE  /\ sync' \in [Syncs -> SyncState]
         /\ sync'[s].pc = "failed"
         /\ \A t \in Syncs : t # s => sync'[t] = sync[t]
<1> DEFINE x == [sync[s] EXCEPT !.pc = "failed"]
<1>1. x \in SyncState /\ x.pc = "failed"
  BY DEF SchemaInv, SyncState, SyncPc
<1>2. sync' = [sync EXCEPT ![s] = x]
  BY DEF SyncFails
<1> HIDE DEF x
<1> QED  BY <1>1, <1>2, SyncTypes

(* A step of one sync that creates no table and keeps its place in order. *)
LEMMA SchemaKept ==
  ASSUME SchemaInv, NEW s \in Syncs,
         sync' \in [Syncs -> SyncState],
         \A t \in Syncs : t # s => sync'[t] = sync[t],
         look' = look, tables' = tables, disk' = disk,
         sync'[s].pc = "create" => TableSet \subseteq tables \cup sync'[s].missing,
         sync'[s].pc \in AfterSchema => TableSet \subseteq tables,
         sync'[s].pc \in AfterReading => Len(sync'[s].got) = 3,
         sync'[s].pc = "start" => Len(sync'[s].got) < 3
  PROVE  SchemaInv'
<1>1. \A t \in Syncs : sync'[t].pc = "create" => TableSet \subseteq tables' \cup sync'[t].missing
  BY DEF SchemaInv
<1>2. \A t \in Syncs : sync'[t].pc \in AfterSchema => TableSet \subseteq tables'
  BY DEF SchemaInv, StatementsFindTheirTables, AfterSchema
<1>3. \A t \in Syncs : /\ sync'[t].pc \in AfterReading => Len(sync'[t].got) = 3
                       /\ sync'[t].pc = "start" => Len(sync'[t].got) < 3
  BY DEF SchemaInv
<1> QED
  BY <1>1, <1>2, <1>3 DEF SchemaInv, StatementsFindTheirTables, AfterSchema

LEMMA SchemaReadFile ==
  ASSUME SchemaInv, NEW s \in Syncs, ReadFile(s)
  PROVE  SchemaInv'
<1> DEFINE n == Len(sync[s].got)
           f == FileNames[n + 1]
<1>0. sync[s] \in SyncState /\ sync[s].got \in Seq(Content) /\ sync[s].pc = "start"
  BY DEF SchemaInv, ReadFile, SyncState
<1>1. n \in 0..2
  <2>1. n \in Nat /\ n < 3
    BY <1>0 DEF SchemaInv
  <2> HIDE DEF n
  <2> QED  BY <2>1
<1>2. f \in FileSet /\ disk[f] \in File
  <2>1. n + 1 \in 1..3
    <3> HIDE DEF n
    <3> QED  BY <1>1
  <2>2. f \in FileSet
    BY <2>1 DEF FileSet, FileNames
  <2> QED  BY <2>2 DEF SchemaInv
<1>3. look' = look /\ tables' = tables /\ disk' = disk
  BY DEF ReadFile
<1>4. CASE SyncFails(s)
  BY <1>3, <1>4, FailedState, SchemaKept DEF AfterSchema, AfterReading
<1>5. ASSUME NEW part \in {"all", "some", "none"}, Exists(f),
             sync' = [sync EXCEPT ![s].got = Append(@, [gen |-> disk[f].gen, part |-> part]),
                                  ![s].pc = IF n = 2 THEN "schema" ELSE @]
      PROVE  SchemaInv'
  <2> DEFINE c == [gen |-> disk[f].gen, part |-> part]
             x == [sync[s] EXCEPT !.got = Append(@, c), !.pc = IF n = 2 THEN "schema" ELSE @]
  <2>1. disk[f].gen \in 1..MaxGen
    BY <1>2, <1>5 DEF Exists, File
  <2>2. c \in Content
    BY <2>1 DEF Content
  <2> HIDE DEF c
  <2>3. Append(sync[s].got, c) \in Seq(Content) /\ Len(Append(sync[s].got, c)) = n + 1
    BY <1>0, <2>2
  <2>4. x \in SyncState /\ x.got = Append(sync[s].got, c)
    BY <1>0, <2>3 DEF SyncState, SyncPc
  <2>5. x.pc = IF n = 2 THEN "schema" ELSE "start"
    BY <1>0 DEF SyncState
  <2>6. sync' = [sync EXCEPT ![s] = x]
    BY <1>5 DEF c
  <2> HIDE DEF x, n
  <2>7. sync' \in [Syncs -> SyncState] /\ sync'[s] = x
        /\ \A t \in Syncs : t # s => sync'[t] = sync[t]
    BY <2>4, <2>6, SyncTypes
  <2>8. CASE n = 2
    <3>1. x.pc = "schema" /\ Len(x.got) = 3
      BY <2>3, <2>4, <2>5, <2>8
    <3> QED  BY <1>3, <2>7, <3>1, SchemaKept DEF AfterSchema, AfterReading
  <2>9. CASE n # 2
    <3>1. x.pc = "start" /\ Len(x.got) < 3
      BY <1>1, <2>3, <2>4, <2>5, <2>9
    <3> QED  BY <1>3, <2>7, <3>1, SchemaKept DEF AfterSchema, AfterReading
  <2> QED  BY <2>8, <2>9
<1>6. \/ SyncFails(s)
      \/ Exists(f) /\ \E part \in {"all", "some", "none"} :
           sync' = [sync EXCEPT ![s].got = Append(@, [gen |-> disk[f].gen, part |-> part]),
                                ![s].pc = IF n = 2 THEN "schema" ELSE @]
  BY DEF ReadFile
<1> QED  BY <1>4, <1>5, <1>6

LEMMA SchemaCheckSchema ==
  ASSUME SchemaInv, NEW s \in Syncs, CheckSchema(s)
  PROVE  SchemaInv'
<1> DEFINE x == [sync[s] EXCEPT !.missing = Missing,
                                !.pc = IF Missing = {} THEN "replace" ELSE "create"]
<1>1. sync[s] \in SyncState /\ Len(sync[s].got) = 3 /\ sync[s].pc = "schema"
  BY DEF SchemaInv, CheckSchema, AfterReading
<1>2. Missing \subseteq TableSet /\ TableSet \subseteq tables \cup Missing
      /\ (Missing = {} => TableSet \subseteq tables)
  BY DEF SchemaInv, Missing
<1>3. x \in SyncState /\ x.missing = Missing /\ x.got = sync[s].got
  BY <1>1, <1>2 DEF SyncState, SyncPc
<1>4. x.pc = IF Missing = {} THEN "replace" ELSE "create"
  BY <1>1 DEF SyncState
<1>5. sync' = [sync EXCEPT ![s] = x] /\ look' = look /\ tables' = tables /\ disk' = disk
  BY DEF CheckSchema
<1> HIDE DEF x
<1>6. sync' \in [Syncs -> SyncState] /\ sync'[s] = x
      /\ \A t \in Syncs : t # s => sync'[t] = sync[t]
  BY <1>3, <1>5, SyncTypes
<1> QED
  BY <1>1, <1>2, <1>3, <1>4, <1>5, <1>6, SchemaKept DEF AfterSchema

LEMMA SchemaCreateTable ==
  ASSUME SchemaInv, NEW s \in Syncs, CreateTable(s)
  PROVE  SchemaInv'
<1> DEFINE new == FirstOf(sync[s].missing)
           rest == sync[s].missing \ {new}
<1>1. sync[s] \in SyncState /\ Len(sync[s].got) = 3 /\ sync[s].pc = "create"
      /\ TableSet \subseteq tables \cup sync[s].missing /\ sync[s].missing \subseteq TableSet
  BY DEF SchemaInv, CreateTable, AfterReading, SyncState
<1>2. look' = look /\ disk' = disk
  BY DEF CreateTable
<1>3. CASE SyncFails(s) /\ UNCHANGED tables
  BY <1>2, <1>3, FailedState, SchemaKept DEF AfterSchema, AfterReading
<1>4. CASE /\ tables' = tables \cup {new}
           /\ sync' = [sync EXCEPT ![s].missing = rest,
                                   ![s].pc = IF rest = {} THEN "replace" ELSE @]
  <2> DEFINE x == [sync[s] EXCEPT !.missing = rest, !.pc = IF rest = {} THEN "replace" ELSE @]
  <2>0. rest \subseteq TableSet
    BY <1>1
  <2>1. x \in SyncState /\ x.missing = rest /\ x.got = sync[s].got
    BY <1>1, <2>0 DEF SyncState, SyncPc
  <2>2. x.pc = IF rest = {} THEN "replace" ELSE "create"
    BY <1>1 DEF SyncState
  <2>3. sync' = [sync EXCEPT ![s] = x]
    BY <1>4
  <2> HIDE DEF x
  <2>4. sync' \in [Syncs -> SyncState] /\ sync'[s] = x
        /\ \A t \in Syncs : t # s => sync'[t] = sync[t]
    BY <2>1, <2>3, SyncTypes
  <2>6. tables \subseteq tables'
    BY <1>4
  <2>7. TableSet \subseteq tables' \cup rest
    BY <1>1, <1>4
  <2>8. \A t \in Syncs : sync'[t].pc = "create" => TableSet \subseteq tables' \cup sync'[t].missing
    BY <2>1, <2>4, <2>6, <2>7 DEF SchemaInv
  <2>9. \A t \in Syncs : sync'[t].pc \in AfterSchema => TableSet \subseteq tables'
    BY <2>2, <2>4, <2>6, <2>7 DEF SchemaInv, StatementsFindTheirTables, AfterSchema
  <2>10. \A t \in Syncs : /\ sync'[t].pc \in AfterReading => Len(sync'[t].got) = 3
                          /\ sync'[t].pc = "start" => Len(sync'[t].got) < 3
    BY <1>1, <2>1, <2>2, <2>4 DEF SchemaInv
  <2>11. \A i \in Inspections :
           /\ look'[i].pc = "create" => TableSet \subseteq tables' \cup look'[i].missing
           /\ look'[i].pc \in {"select", "done"} => TableSet \subseteq tables'
    BY <1>2, <2>6 DEF SchemaInv, StatementsFindTheirTables
  <2> QED
    BY <1>2, <2>4, <2>6, <2>8, <2>9, <2>10, <2>11
       DEF SchemaInv, StatementsFindTheirTables, AfterSchema
<1> QED  BY <1>3, <1>4 DEF CreateTable

(* A sync that moves on within replace_all. *)
LEMMA SyncBehind ==
  ASSUME SchemaInv, NEW s \in Syncs, NEW pc \in AfterSchema \cup {"done"}, NEW n \in 0..8,
         sync' = [sync EXCEPT ![s].pc = pc, ![s].done = n]
  PROVE  /\ sync' \in [Syncs -> SyncState]
         /\ sync'[s].pc = pc /\ sync'[s].done = n /\ sync'[s].got = sync[s].got
         /\ \A t \in Syncs : t # s => sync'[t] = sync[t]
<1> DEFINE x == [sync[s] EXCEPT !.pc = pc, !.done = n]
<1>1. sync[s] \in SyncState
  BY DEF SchemaInv
<1>2. pc \in SyncPc
  BY DEF SyncPc, AfterSchema
<1>3. x \in SyncState /\ x.pc = pc /\ x.done = n /\ x.got = sync[s].got
  BY <1>1, <1>2 DEF SyncState
<1>4. sync' = [sync EXCEPT ![s] = x]
  OBVIOUS
<1> HIDE DEF x
<1>5. sync' \in [Syncs -> SyncState] /\ sync'[s] = x
      /\ \A t \in Syncs : t # s => sync'[t] = sync[t]
  BY <1>3, <1>4, SyncTypes
<1> QED  BY <1>3, <1>5

(* The same, of a step that leaves tables and files alone. *)
LEMMA SchemaBehind ==
  ASSUME SchemaInv, NEW s \in Syncs, NEW pc \in AfterSchema \cup {"done"}, NEW n \in 0..8,
         sync[s].pc \in AfterSchema,
         sync' = [sync EXCEPT ![s].pc = pc, ![s].done = n],
         look' = look, tables' = tables, disk' = disk
  PROVE  SchemaInv'
<1>1. Len(sync[s].got) = 3 /\ TableSet \subseteq tables
  BY DEF SchemaInv, AfterReading, AfterSchema, StatementsFindTheirTables
<1>2. /\ sync' \in [Syncs -> SyncState]
      /\ sync'[s].pc = pc /\ sync'[s].got = sync[s].got
      /\ \A t \in Syncs : t # s => sync'[t] = sync[t]
  BY SyncBehind
<1> QED  BY <1>1, <1>2, SchemaKept DEF AfterSchema, AfterReading

LEMMA SchemaReplace ==
  ASSUME SchemaInv, NEW s \in Syncs,
         Begin(s) \/ Execute(s) \/ Commit(s) \/ WriteReport(s) \/ Abandon(s)
  PROVE  SchemaInv'
<1>0. sync[s] \in SyncState /\ sync[s].done \in 0..8
  BY DEF SchemaInv, SyncState
<1>1. CASE Begin(s)
  <2>1. CASE SyncFails(s)
    BY <1>1, <2>1, FailedState, SchemaKept DEF Begin, AfterSchema, AfterReading
  <2>2. CASE sync' = [sync EXCEPT ![s].pc = "inside", ![s].done = 1]
    <3>1. sync[s].pc \in AfterSchema /\ "inside" \in AfterSchema \cup {"done"} /\ 1 \in 0..8
      BY <1>1 DEF Begin, AfterSchema
    <3>2. look' = look /\ tables' = tables /\ disk' = disk
      BY <1>1 DEF Begin
    <3> QED  BY <2>2, <3>1, <3>2, SchemaBehind
  <2> QED  BY <1>1, <2>1, <2>2 DEF Begin
<1>2. CASE Execute(s)
  <2>1. sync' = [sync EXCEPT ![s].pc = "inside", ![s].done = sync[s].done + 1]
    BY <1>2, <1>0 DEF Execute, SchemaInv, SyncState
  <2>2. sync[s].done + 1 \in 0..8
    BY <1>2, <1>0 DEF Execute
  <2> QED  BY <1>2, <2>1, <2>2, SchemaBehind DEF Execute, AfterSchema
<1>3. CASE Commit(s)
  <2>1. sync' = [sync EXCEPT ![s].pc = "committed", ![s].done = 8]
    BY <1>3, <1>0 DEF Commit, SchemaInv, SyncState
  <2>2. disk' = disk /\ tables' = tables
    BY <1>3 DEF Commit
  <2> DEFINE y(i) == [look[i] EXCEPT !.disturbed =
                        @ \/ (look[i].pc = "select" /\ look[i].seen # << >>)]
  <2>3. look' = [i \in Inspections |-> y(i)]
    BY <1>3 DEF Commit
  <2>4. ASSUME NEW i \in Inspections
        PROVE  /\ y(i) \in LookState /\ y(i).pc = look[i].pc
               /\ y(i).missing = look[i].missing /\ y(i).seen = look[i].seen
    <3> DEFINE b == look[i].disturbed \/ (look[i].pc = "select" /\ look[i].seen # << >>)
    <3>1. b \in BOOLEAN
      OBVIOUS
    <3>2. y(i) = [look[i] EXCEPT !.disturbed = b]
      OBVIOUS
    <3>3. look[i] \in LookState
      BY DEF SchemaInv
    <3> HIDE DEF b, y
    <3> QED  BY <3>1, <3>2, <3>3 DEF LookState
  <2> HIDE DEF y
  <2>5. look' \in [Inspections -> LookState]
    BY <2>3, <2>4
  <2>6. \A i \in Inspections : /\ look'[i].pc = look[i].pc /\ look'[i].missing = look[i].missing
                               /\ look'[i].seen = look[i].seen
    BY <2>3, <2>4
  <2>7. /\ sync' \in [Syncs -> SyncState]
        /\ sync'[s].pc = "committed" /\ sync'[s].got = sync[s].got
        /\ \A t \in Syncs : t # s => sync'[t] = sync[t]
    <3>1. sync[s].pc \in AfterSchema /\ "committed" \in AfterSchema \cup {"done"} /\ 8 \in 0..8
      BY <1>3 DEF Commit, AfterSchema
    <3> QED  BY <2>1, <3>1, SyncBehind
  <2>8. /\ \A t \in Syncs : sync'[t].pc = "create" => TableSet \subseteq tables' \cup sync'[t].missing
        /\ \A t \in Syncs : sync'[t].pc \in AfterSchema => TableSet \subseteq tables'
    BY <1>3, <2>2, <2>7 DEF SchemaInv, Commit, StatementsFindTheirTables, AfterSchema
  <2>9. \A t \in Syncs : /\ sync'[t].pc \in AfterReading => Len(sync'[t].got) = 3
                         /\ sync'[t].pc = "start" => Len(sync'[t].got) < 3
    BY <1>3, <2>7 DEF SchemaInv, Commit, AfterReading, AfterSchema
  <2> QED
    BY <2>2, <2>5, <2>6, <2>7, <2>8, <2>9 DEF SchemaInv, StatementsFindTheirTables, AfterSchema
<1>4. CASE WriteReport(s)
  <2>1. sync' = [sync EXCEPT ![s].pc = "done", ![s].done = sync[s].done]
    BY <1>4, <1>0 DEF WriteReport, SchemaInv, SyncState
  <2> QED  BY <1>0, <1>4, <2>1, SchemaBehind DEF WriteReport, AfterSchema
<1>5. CASE Abandon(s)
  BY <1>5, FailedState, SchemaKept DEF Abandon, AfterSchema, AfterReading
<1> QED  BY <1>1, <1>2, <1>3, <1>4, <1>5

LEMMA SchemaFiles ==
  ASSUME SchemaInv, Truncate \/ Complete
  PROVE  SchemaInv'
<1> DEFINE f == FileNames[making]
<1>1. sync' = sync /\ look' = look /\ tables' = tables
  BY DEF Truncate, Complete
<1>2. disk' \in [FileSet -> File]
  <2>1. CASE Truncate
    <3> DEFINE d == [gen |-> disk[f].gen + 1, cut |-> TRUE]
    <3>1. disk' = [disk EXCEPT ![f] = d]
      BY <2>1 DEF Truncate
    <3>2. f \in FileSet => d \in File
      <4> SUFFICES ASSUME f \in FileSet  PROVE d \in File
        OBVIOUS
      <4>1. disk[f] \in File
        BY DEF SchemaInv
      <4>2. disk[f].gen + 1 \in 0..MaxGen
        BY <2>1, <4>1, RelationalAssumption DEF Truncate, File
      <4> QED  BY <4>2 DEF File
    <3> HIDE DEF d, f
    <3> QED  BY <3>1, <3>2 DEF SchemaInv
  <2>2. CASE Complete
    <3> DEFINE d == [disk[f] EXCEPT !.cut = FALSE]
    <3>1. disk' = [disk EXCEPT ![f] = d]
      BY <2>2 DEF Complete
    <3>2. f \in FileSet => d \in File
      BY DEF SchemaInv, File
    <3> HIDE DEF d, f
    <3> QED  BY <3>1, <3>2 DEF SchemaInv
  <2> QED  BY <2>1, <2>2
<1> QED  BY <1>1, <1>2 DEF SchemaInv, StatementsFindTheirTables

LEMMA SchemaLook ==
  ASSUME SchemaInv, db \in Database, NEW i \in Inspections, LookStep(i)
  PROVE  SchemaInv'
<1>1. sync' = sync /\ disk' = disk
  BY DEF LookStep, LookSchema, LookCreate, Select, LookUnchanged
<1>2. look[i] \in LookState
  BY DEF SchemaInv
<1>3. ASSUME NEW x \in LookState, look' = [look EXCEPT ![i] = x], tables \subseteq tables',
             x.pc = "create" => TableSet \subseteq tables' \cup x.missing,
             x.pc \in {"select", "done"} => TableSet \subseteq tables',
             x.pc \in {"start", "create", "select"} => Len(x.seen) < Len(Selects)
      PROVE  SchemaInv'
  <2>1. look' \in [Inspections -> LookState] /\ look'[i] = x
        /\ \A k \in Inspections : k # i => look'[k] = look[k]
    BY <1>3 DEF SchemaInv
  <2>2. \A k \in Inspections :
          /\ look'[k].pc = "create" => TableSet \subseteq tables' \cup look'[k].missing
          /\ look'[k].pc \in {"select", "done"} => TableSet \subseteq tables'
          /\ look'[k].pc \in {"start", "create", "select"} =>
               Len(look'[k].seen) < Len(Selects)
    BY <1>3, <2>1 DEF SchemaInv, StatementsFindTheirTables
  <2>3. \A s \in Syncs :
          /\ sync[s].pc = "create" => TableSet \subseteq tables' \cup sync[s].missing
          /\ sync[s].pc \in AfterSchema => TableSet \subseteq tables'
    BY <1>3 DEF SchemaInv, StatementsFindTheirTables, AfterSchema
  <2> QED  BY <1>1, <2>1, <2>2, <2>3 DEF SchemaInv, StatementsFindTheirTables, AfterSchema
<1>4. CASE LookSchema(i)
  <2> DEFINE x == [look[i] EXCEPT !.missing = Missing,
                                  !.pc = IF Missing = {} THEN "select" ELSE "create"]
  <2>1. Missing \subseteq TableSet /\ TableSet \subseteq tables \cup Missing
        /\ (Missing = {} => TableSet \subseteq tables)
    BY DEF Missing
  <2>2. x \in LookState /\ x.missing = Missing /\ x.seen = look[i].seen
    BY <1>2, <2>1 DEF LookState, LookPc
  <2>5. Len(look[i].seen) < Len(Selects)
    BY <1>4 DEF LookSchema, SchemaInv
  <2>3. x.pc = IF Missing = {} THEN "select" ELSE "create"
    BY <1>2 DEF LookState
  <2>4. look' = [look EXCEPT ![i] = x] /\ tables' = tables
    BY <1>4 DEF LookSchema
  <2> HIDE DEF x
  <2> QED  BY <1>3, <2>1, <2>2, <2>3, <2>4, <2>5
<1>5. CASE LookCreate(i)
  <2> DEFINE new == FirstOf(look[i].missing)
             rest == look[i].missing \ {new}
  <2>0. look[i].pc = "create" /\ look[i].missing \subseteq TableSet
        /\ TableSet \subseteq tables \cup look[i].missing /\ Len(look[i].seen) < Len(Selects)
    BY <1>2, <1>5 DEF LookCreate, LookState, SchemaInv
  <2>1. CASE tables' = tables /\ look' = [look EXCEPT ![i].pc = "failed"]
    <3> DEFINE x == [look[i] EXCEPT !.pc = "failed"]
    <3>1. x \in LookState /\ x.pc = "failed"
      BY <1>2 DEF LookState, LookPc
    <3>2. look' = [look EXCEPT ![i] = x]
      BY <2>1
    <3> HIDE DEF x
    <3> QED  BY <1>3, <2>1, <3>1, <3>2
  <2>2. CASE /\ tables' = tables \cup {new}
             /\ look' = [look EXCEPT ![i].missing = rest,
                                     ![i].pc = IF rest = {} THEN "select" ELSE @]
    <3> DEFINE x == [look[i] EXCEPT !.missing = rest, !.pc = IF rest = {} THEN "select" ELSE @]
    <3>0. rest \subseteq TableSet /\ TableSet \subseteq tables' \cup rest /\ tables \subseteq tables'
      BY <2>0, <2>2
    <3>1. x \in LookState /\ x.missing = rest /\ x.seen = look[i].seen
      BY <1>2, <3>0 DEF LookState, LookPc
    <3>2. x.pc = IF rest = {} THEN "select" ELSE "create"
      BY <1>2, <2>0 DEF LookState
    <3>3. look' = [look EXCEPT ![i] = x]
      BY <2>2
    <3> HIDE DEF x, rest
    <3> QED  BY <1>3, <2>0, <3>0, <3>1, <3>2, <3>3
  <2> QED  BY <1>5, <2>1, <2>2 DEF LookCreate
<1>6. CASE Select(i)
  <2> DEFINE n == Len(look[i].seen) + 1
             v == db[Selects[n]]
             x == [look[i] EXCEPT !.seen = Append(@, v),
                                  !.pc = IF n = Len(Selects) THEN "done" ELSE @]
  <2>1. look' = [look EXCEPT ![i] = x] /\ tables' = tables
    BY <1>6 DEF Select
  <2>2. look[i].pc = "select" /\ TableSet \subseteq tables
    BY <1>6 DEF Select, SchemaInv, StatementsFindTheirTables
  <2>3. n \in 1..5
    <3>1. Len(look[i].seen) \in Nat
      BY <1>2 DEF LookState
    <3>2. Len(look[i].seen) < 5
      BY <2>2 DEF SchemaInv, Selects
    <3> DEFINE m == Len(look[i].seen)
    <3> HIDE DEF m
    <3> QED  BY <3>1, <3>2 DEF m
  <2>4. v \in Content \cup {NoRows}
    <3> HIDE DEF n
    <3>1. Selects[n] \in {"events", "features", "snapshots"}
      BY <2>3 DEF Selects
    <3> QED  BY <3>1 DEF Database
  <2> HIDE DEF v
  <2>5. /\ Append(look[i].seen, v) \in Seq(Content \cup {NoRows})
        /\ Len(Append(look[i].seen, v)) = n
    BY <1>2, <2>4 DEF LookState
  <2>6. x \in LookState /\ x.seen = Append(look[i].seen, v)
    BY <1>2, <2>5 DEF LookState, LookPc
  <2>7. x.pc = IF n = Len(Selects) THEN "done" ELSE "select"
    BY <1>2, <2>2 DEF LookState
  <2>8. Len(Selects) = 5
    BY DEF Selects
  <2> HIDE DEF x, n
  <2>9. x.pc \in {"start", "create", "select"} => Len(x.seen) < Len(Selects)
    BY <2>3, <2>5, <2>6, <2>7, <2>8
  <2>10. x.pc \in {"select", "done"}
    BY <2>7
  <2> QED  BY <1>3, <2>1, <2>2, <2>6, <2>9, <2>10
<1> QED  BY <1>4, <1>5, <1>6 DEF LookStep

-----------------------------------------------------------------------------
(* The transaction *)

Deleted(n, table) == \E k \in 1..4 : k <= n /\ Deletes[k] = table
InsertDone(n, table) == \E k \in 1..4 : k + 4 <= n /\ Inserts[k] = table

(* What the table is to hold once its insert is done. *)
Target(s, table) ==
  IF table = "events" /\ sync[s].got[1].part = "none" THEN NoRows ELSE RowsFor(s, table)

(* The transaction has emptied what it has deleted from and filled what it
   has inserted into. *)
WorkDone(s) ==
  \A t \in TableSet : Deleted(sync[s].done, t) =>
     work[t] = IF InsertDone(sync[s].done, t) THEN Target(s, t) ELSE NoRows

DataInv ==
  /\ db \in Database /\ work \in Database
  /\ WholeSync(db)
  /\ writer \subseteq Syncs
  /\ \A s, t \in writer : s = t
  /\ \A s \in Syncs : sync[s].pc = "inside" <=> s \in writer
  /\ \A s \in writer : sync[s].done \in 1..8 /\ WorkDone(s)

LEMMA GotIsTriple ==
  ASSUME NEW s \in Syncs, sync[s] \in SyncState, Len(sync[s].got) = 3
  PROVE  /\ Got(s) \in Triple
         /\ Got(s)["events"] = sync[s].got[1]
         /\ Got(s)["features"] = sync[s].got[2]
         /\ Got(s)["snapshot"] = sync[s].got[3]
         /\ \A n \in 1..3 : sync[s].got[n] \in Content
<1>1. (CHOOSE n \in 1..3 : FileNames[n] = "events") = 1
  BY DEF FileNames
<1>2. (CHOOSE n \in 1..3 : FileNames[n] = "features") = 2
  BY DEF FileNames
<1>3. (CHOOSE n \in 1..3 : FileNames[n] = "snapshot") = 3
  BY DEF FileNames
<1>4. \A n \in 1..3 : sync[s].got[n] \in Content
  BY DEF SyncState
<1>5. /\ Got(s)["events"] = sync[s].got[1]
      /\ Got(s)["features"] = sync[s].got[2]
      /\ Got(s)["snapshot"] = sync[s].got[3]
  BY <1>1, <1>2, <1>3, TableFacts DEF Got
<1>6. Got(s) \in Triple
  <2>1. \A f \in FileSet : Got(s)[f] \in Content
    BY <1>4, <1>5, TableFacts
  <2>2. Got(s) = [f \in FileSet |-> Got(s)[f]]
    BY DEF Got
  <2> QED  BY <2>1, <2>2 DEF Triple
<1> QED  BY <1>4, <1>5, <1>6

LEMMA DatabaseExcept ==
  ASSUME NEW d \in Database, NEW t \in TableSet, NEW v,
         v \in {NoRows} \cup (IF t = "runs" THEN Triple ELSE Content)
  PROVE  /\ [d EXCEPT ![t] = v] \in Database
         /\ [d EXCEPT ![t] = v][t] = v
         /\ \A u \in TableSet : u # t => [d EXCEPT ![t] = v][u] = d[u]
<1>1. CASE t = "events"
  BY <1>1, TableFacts DEF Database
<1>2. CASE t = "features"
  BY <1>2, TableFacts DEF Database
<1>3. CASE t = "snapshots"
  BY <1>3, TableFacts DEF Database
<1>4. CASE t = "runs"
  BY <1>4, TableFacts DEF Database
<1> QED  BY <1>1, <1>2, <1>3, <1>4, TableFacts

LEMMA RowsType ==
  ASSUME NEW s \in Syncs, sync[s] \in SyncState, Len(sync[s].got) = 3, NEW t \in TableSet
  PROVE  /\ RowsFor(s, t) \in (IF t = "runs" THEN Triple ELSE Content)
         /\ Target(s, t) \in {NoRows} \cup (IF t = "runs" THEN Triple ELSE Content)
<1>1. RowsFor(s, t) \in (IF t = "runs" THEN Triple ELSE Content)
  BY GotIsTriple, TableFacts DEF RowsFor
<1> QED  BY <1>1 DEF Target

(* A finished transaction is the work of one sync. *)
LEMMA FinishedIsWhole ==
  ASSUME SchemaInv, NEW s \in Syncs, sync[s].pc = "inside", sync[s].done = 8,
         work \in Database, WorkDone(s)
  PROVE  WholeSync(work)
<1>1. sync[s] \in SyncState /\ Len(sync[s].got) = 3
  BY DEF SchemaInv, AfterReading, AfterSchema
<1>2. \A t \in TableSet : Deleted(8, t) /\ InsertDone(8, t)
  <2>1. Deletes[1] = "runs" /\ Deletes[2] = "snapshots" /\ Deletes[3] = "features"
        /\ Deletes[4] = "events"
    BY DEF Deletes
  <2>2. Inserts[1] = "events" /\ Inserts[2] = "features" /\ Inserts[3] = "snapshots"
        /\ Inserts[4] = "runs"
    BY DEF Inserts
  <2> QED  BY <2>1, <2>2, TableFacts DEF Deleted, InsertDone
<1>3. \A t \in TableSet : work[t] = Target(s, t)
  BY <1>2 DEF WorkDone
<1>4. work["runs"] = Got(s) /\ work["features"] = sync[s].got[2]
      /\ work["snapshots"] = sync[s].got[3]
  BY <1>3, TableFacts DEF Target, RowsFor
<1>5. work["events"] = StoredEvents(Got(s))
  BY <1>1, <1>3, TableFacts, GotIsTriple DEF Target, RowsFor, StoredEvents
<1>6. Got(s) # NoRows
  BY <1>1, GotIsTriple, NoRowsAssumption
<1> QED
  BY <1>1, <1>4, <1>5, <1>6, GotIsTriple DEF WholeSync

LEMMA DataInit == RelInit => DataInv
<1> SUFFICES ASSUME RelInit  PROVE DataInv
  OBVIOUS
<1>1. EmptyDatabase \in Database
  BY TableFacts DEF EmptyDatabase, Database
<1>2. db = EmptyDatabase /\ work = EmptyDatabase /\ writer = {}
  BY DEF RelInit
<1>3. \A s \in Syncs : sync[s].pc = "start"
  BY DEF RelInit
<1>4. WholeSync(db)
  BY <1>2 DEF WholeSync
<1> QED  BY <1>1, <1>2, <1>3, <1>4 DEF DataInv

(* The place of a run that keeps it keeps what the transaction has done. *)
LEMMA WorkDoneKept ==
  ASSUME NEW s \in Syncs, WorkDone(s), work' = work, sync'[s] = sync[s]
  PROVE  WorkDone(s)'
<1>1. \A t \in TableSet : Target(s, t)' = Target(s, t)
  BY DEF Target, RowsFor, Got
<1> QED  BY <1>1 DEF WorkDone

(* A step that neither opens nor closes nor continues a transaction. *)
LEMMA DataAside ==
  ASSUME DataInv, NEW s \in Syncs, sync[s].pc # "inside", sync'[s].pc # "inside",
         \A t \in Syncs : t # s => sync'[t] = sync[t],
         db' = db, work' = work, writer' = writer
  PROVE  DataInv'
<1>1. \A t \in Syncs : sync'[t].pc = "inside" <=> t \in writer'
  BY DEF DataInv
<1>2. \A t \in writer' : sync'[t].done \in 1..8 /\ WorkDone(t)'
  <2> SUFFICES ASSUME NEW t \in writer
               PROVE  sync'[t].done \in 1..8 /\ WorkDone(t)'
    OBVIOUS
  <2>1. t \in Syncs /\ t # s
    BY DEF DataInv
  <2> QED  BY <2>1, WorkDoneKept DEF DataInv
<1>3. WholeSync(db)'
  BY DEF DataInv, WholeSync, StoredEvents
<1> QED  BY <1>1, <1>2, <1>3 DEF DataInv

LEMMA DataOthers ==
  ASSUME DataInv, sync' = sync, db' = db, work' = work, writer' = writer
  PROVE  DataInv'
<1>1. \A t \in writer' : sync'[t].done \in 1..8 /\ WorkDone(t)'
  BY WorkDoneKept DEF DataInv
<1>2. WholeSync(db)'
  BY DEF DataInv, WholeSync, StoredEvents
<1> QED  BY <1>1, <1>2 DEF DataInv

(* A run that goes on inside its transaction. *)
LEMMA InsideStep ==
  ASSUME SchemaInv, NEW s \in Syncs, NEW k,
         sync' = [sync EXCEPT ![s].pc = "inside", ![s].done = k]
  PROVE  /\ sync'[s].pc = "inside" /\ sync'[s].done = k /\ sync'[s].got = sync[s].got
         /\ \A t \in Syncs : t # s => sync'[t] = sync[t]
<1> DEFINE x == [sync[s] EXCEPT !.pc = "inside", !.done = k]
<1>1. sync[s] \in SyncState /\ sync \in [Syncs -> SyncState]
  BY DEF SchemaInv
<1>2. x.pc = "inside" /\ x.done = k /\ x.got = sync[s].got
  BY <1>1 DEF SyncState
<1>3. sync' = [sync EXCEPT ![s] = x]
  OBVIOUS
<1> HIDE DEF x
<1>4. sync'[s] = x /\ \A t \in Syncs : t # s => sync'[t] = sync[t]
  BY <1>1, <1>3
<1> QED  BY <1>2, <1>4

(* The first delete. *)
LEMMA DataBegin ==
  ASSUME SchemaInv, DataInv, NEW s \in Syncs, Begin(s)
  PROVE  DataInv'
<1>1. CASE writer # {} /\ SyncFails(s) /\ UNCHANGED <<writer, work>>
  <2>1. db' = db /\ sync[s].pc # "inside"
    BY DEF Begin
  <2>2. sync'[s].pc # "inside" /\ \A t \in Syncs : t # s => sync'[t] = sync[t]
    BY <1>1, FailedState
  <2> QED  BY <1>1, <2>1, <2>2, DataAside
<1>2. CASE /\ writer = {} /\ writer' = {s} /\ work' = [db EXCEPT ![Deletes[1]] = NoRows]
           /\ sync' = [sync EXCEPT ![s].pc = "inside", ![s].done = 1]
  <2>1. Deletes[1] = "runs" /\ "runs" \in TableSet
    BY TableFacts DEF Deletes
  <2>2. work' \in Database /\ work'["runs"] = NoRows
    <3>1. db \in Database
      BY DEF DataInv
    <3>2. /\ [db EXCEPT !["runs"] = NoRows] \in Database
          /\ [db EXCEPT !["runs"] = NoRows]["runs"] = NoRows
      BY <2>1, <3>1, DatabaseExcept
    <3>3. work' = [db EXCEPT !["runs"] = NoRows]
      BY <1>2, <2>1
    <3> QED  BY <3>2, <3>3
  <2>4. /\ sync'[s].pc = "inside" /\ sync'[s].done = 1
        /\ \A t \in Syncs : t # s => sync'[t] = sync[t]
    <3>1. sync' = [sync EXCEPT ![s].pc = "inside", ![s].done = 1]
      BY <1>2
    <3> QED  BY <3>1, InsideStep
  <2>5. \A t \in TableSet : /\ Deleted(1, t) => t = "runs"
                            /\ ~InsertDone(1, t)
    BY <2>1 DEF Deleted, InsertDone
  <2>6. WorkDone(s)'
    BY <2>2, <2>4, <2>5 DEF WorkDone
  <2>7. \A t \in Syncs : sync'[t].pc = "inside" <=> t \in writer'
    BY <1>2, <2>4 DEF DataInv
  <2>8. db' = db
    BY DEF Begin
  <2>9. WholeSync(db)'
    BY <2>8 DEF DataInv, WholeSync, StoredEvents
  <2>10. writer' = {s}
    BY <1>2
  <2>11. \A t \in writer' : sync'[t].done \in 1..8 /\ WorkDone(t)'
    BY <2>4, <2>6, <2>10
  <2>12. db' \in Database
    BY <2>8 DEF DataInv
  <2> QED  BY <2>2, <2>7, <2>9, <2>10, <2>11, <2>12 DEF DataInv
<1> QED  BY <1>1, <1>2 DEF Begin

(* One more statement. *)
LEMMA DataExecute ==
  ASSUME SchemaInv, DataInv, NEW s \in Syncs, Execute(s)
  PROVE  DataInv'
<1> DEFINE m == sync[s].done
           n == m + 1
<1>1. sync[s] \in SyncState /\ Len(sync[s].got) = 3 /\ sync[s].pc = "inside"
  BY DEF SchemaInv, AfterReading, AfterSchema, Execute
<1>2. s \in writer /\ m \in 1..7 /\ WorkDone(s)
  <2>1. s \in writer /\ m \in 1..8 /\ WorkDone(s)
    BY <1>1 DEF DataInv
  <2>2. m < 8
    BY DEF Execute
  <2> HIDE DEF m
  <2> QED  BY <2>1, <2>2
<1>3. /\ sync'[s].pc = "inside" /\ sync'[s].done = n /\ sync'[s].got = sync[s].got
      /\ \A t \in Syncs : t # s => sync'[t] = sync[t]
  <2>1. sync' = [sync EXCEPT ![s].pc = "inside", ![s].done = n]
    BY <1>1 DEF Execute, SchemaInv, SyncState
  <2> HIDE DEF n
  <2> QED  BY <2>1, InsideStep
<1>4. db' = db /\ writer' = writer
  BY DEF Execute
<1>5. \A t \in TableSet : Target(s, t)' = Target(s, t)
  BY <1>3 DEF Target, RowsFor, Got
<1>6. \A t \in TableSet : Deleted(m, t) =>
        work[t] = IF InsertDone(m, t) THEN Target(s, t) ELSE NoRows
  BY <1>2 DEF WorkDone
<1>7. work' \in Database /\ WorkDone(s)'
  <2>1. CASE n <= 4
    <3> DEFINE d == Deletes[n]
    <3>1. work' = [work EXCEPT ![d] = NoRows]
      BY <2>1 DEF Execute
    <3> HIDE DEF m
    <3>2. d \in TableSet
      BY <1>2, <2>1, TableFacts DEF Deletes
    <3>3. \A t \in TableSet : Deleted(n, t) => Deleted(m, t) \/ t = d
      BY <1>2, <2>1 DEF Deleted
    <3>4. \A t \in TableSet : ~InsertDone(n, t) /\ ~InsertDone(m, t)
      BY <1>2, <2>1 DEF InsertDone
    <3> HIDE DEF d
    <3>5. work' \in Database /\ work'[d] = NoRows
          /\ \A u \in TableSet : u # d => work'[u] = work[u]
      <4>1. work \in Database
        BY DEF DataInv
      <4> DEFINE w == [work EXCEPT ![d] = NoRows]
      <4>2. w \in Database /\ w[d] = NoRows /\ \A u \in TableSet : u # d => w[u] = work[u]
        BY <3>2, <4>1, DatabaseExcept
      <4> QED  BY <3>1, <4>2
    <3>6. \A t \in TableSet : Deleted(n, t) => work'[t] = NoRows
      BY <1>6, <3>3, <3>4, <3>5
    <3> HIDE DEF n
    <3> QED  BY <1>3, <3>4, <3>5, <3>6 DEF WorkDone
  <2>2. CASE ~(n <= 4)
    <3> DEFINE d == Inserts[n - 4]
    <3>1. work' = Inserted(s, d)
      BY <2>2 DEF Execute
    <3> HIDE DEF m
    <3>2. d \in TableSet
      BY <1>2, <2>2, TableFacts DEF Inserts
    <3>3. \A t \in TableSet : Deleted(n, t) /\ Deleted(m, t)
      <4>1. Deletes[1] = "runs" /\ Deletes[2] = "snapshots" /\ Deletes[3] = "features"
            /\ Deletes[4] = "events"
        BY DEF Deletes
      <4>2. 4 <= n /\ 4 <= m
        BY <1>2, <2>2
      <4> HIDE DEF n
      <4>3. n \in Nat /\ m \in Nat
        BY <1>2 DEF n
      <4> QED  BY <4>1, <4>2, <4>3, TableFacts DEF Deleted
    <3>4. \A t \in TableSet : InsertDone(n, t) <=> InsertDone(m, t) \/ t = d
      BY <1>2, <2>2 DEF InsertDone
    <3>5. ~InsertDone(m, d)
      BY <1>2, <2>2 DEF InsertDone, Inserts
    <3> HIDE DEF d
    <3>6. work' \in Database /\ work'[d] = Target(s, d)
          /\ \A u \in TableSet : u # d => work'[u] = work[u]
      <4>1. CASE d = "events" /\ sync[s].got[1].part = "none"
        <5>1. work' = work
          BY <3>1, <4>1 DEF Inserted
        <5>2. work[d] = NoRows
          BY <1>6, <3>2, <3>3, <3>5
        <5> QED  BY <4>1, <5>1, <5>2 DEF DataInv, Target
      <4>2. CASE ~(d = "events" /\ sync[s].got[1].part = "none")
        <5>1. work' = [work EXCEPT ![d] = RowsFor(s, d)]
          BY <3>1, <4>2 DEF Inserted
        <5>2. Target(s, d) = RowsFor(s, d)
          BY <4>2 DEF Target
        <5>3. work \in Database
          BY DEF DataInv
        <5> DEFINE v == RowsFor(s, d)
                   w == [work EXCEPT ![d] = v]
        <5>4. v \in {NoRows} \cup (IF d = "runs" THEN Triple ELSE Content)
          BY <1>1, <3>2, RowsType
        <5> HIDE DEF v
        <5>5. w \in Database /\ w[d] = v /\ \A u \in TableSet : u # d => w[u] = work[u]
          BY <3>2, <5>3, <5>4, DatabaseExcept
        <5>6. work' = w /\ Target(s, d) = v
          BY <5>1, <5>2 DEF v
        <5> HIDE DEF w
        <5> QED  BY <5>5, <5>6
      <4> QED  BY <4>1, <4>2
    <3>7. \A t \in TableSet :
            work'[t] = IF InsertDone(n, t) THEN Target(s, t) ELSE NoRows
      BY <1>6, <3>3, <3>4, <3>6
    <3> HIDE DEF n
    <3> QED  BY <1>3, <1>5, <3>6, <3>7 DEF WorkDone
  <2> QED  BY <2>1, <2>2
<1>8. n \in 1..8
  <2> HIDE DEF m
  <2> QED  BY <1>2
<1>9. \A t \in writer' : t = s
  BY <1>2, <1>4 DEF DataInv
<1>10. \A t \in Syncs : sync'[t].pc = "inside" <=> t \in writer'
  BY <1>2, <1>3, <1>4 DEF DataInv
<1>11. WholeSync(db)'
  BY <1>4 DEF DataInv, WholeSync, StoredEvents
<1> HIDE DEF n
<1> QED  BY <1>3, <1>4, <1>7, <1>8, <1>9, <1>10, <1>11 DEF DataInv

(* A step after which no transaction is open: what is committed is the work
   of one sync, and so nothing else is asked. *)
LEMMA DataClosed ==
  ASSUME NEW s \in Syncs, DataInv, s \in writer,
         sync'[s].pc # "inside", \A t \in Syncs : t # s => sync'[t] = sync[t],
         writer' = {}, work' = EmptyDatabase, db' \in Database, WholeSync(db')
  PROVE  DataInv'
<1>1. EmptyDatabase \in Database
  BY TableFacts DEF EmptyDatabase, Database
<1>2. \A t \in Syncs : t # s => sync[t].pc # "inside"
  BY DEF DataInv
<1>3. \A t \in Syncs : sync'[t].pc = "inside" <=> t \in writer'
  BY <1>2
<1>4. WholeSync(db)'
  BY DEF WholeSync, StoredEvents, EmptyDatabase
<1> QED  BY <1>1, <1>3, <1>4 DEF DataInv

LEMMA DataCommit ==
  ASSUME SchemaInv, DataInv, NEW s \in Syncs, Commit(s)
  PROVE  DataInv'
<1>1. sync[s].pc = "inside" /\ sync[s].done = 8 /\ db' = work
      /\ work' = EmptyDatabase /\ writer' = {}
  BY DEF Commit
<1>2. s \in writer /\ WorkDone(s) /\ work \in Database
  BY <1>1 DEF DataInv
<1>3. WholeSync(work)
  BY <1>1, <1>2, FinishedIsWhole
<1>4. sync'[s].pc # "inside" /\ \A t \in Syncs : t # s => sync'[t] = sync[t]
  <2> DEFINE x == [sync[s] EXCEPT !.pc = "committed"]
  <2>1. sync' = [sync EXCEPT ![s] = x]
    BY DEF Commit
  <2>2. sync \in [Syncs -> SyncState] /\ x.pc = "committed"
    BY DEF SchemaInv, SyncState
  <2> HIDE DEF x
  <2> QED  BY <2>1, <2>2
<1> QED  BY <1>1, <1>2, <1>3, <1>4, DataClosed

(* The run gives up: a transaction of its own is rolled back. *)
LEMMA DataAbandon ==
  ASSUME SchemaInv, DataInv, NEW s \in Syncs, Abandon(s)
  PROVE  DataInv'
<1>1. sync'[s].pc # "inside" /\ \A t \in Syncs : t # s => sync'[t] = sync[t]
  BY FailedState DEF Abandon
<1>2. db' = db /\ db \in Database /\ WholeSync(db)
  BY DEF Abandon, DataInv
<1>3. CASE s \in writer
  <2>1. work' = EmptyDatabase /\ writer' = writer \ {s}
    BY <1>3 DEF Abandon
  <2>2. writer' = {}
    BY <1>3, <2>1 DEF DataInv
  <2> QED  BY <1>1, <1>2, <1>3, <2>1, <2>2, DataClosed
<1>4. CASE s \notin writer
  <2>1. work' = work /\ writer' = writer
    BY <1>4 DEF Abandon
  <2>2. sync[s].pc # "inside"
    BY <1>4 DEF DataInv
  <2> QED  BY <1>1, <1>2, <2>1, <2>2, DataAside
<1> QED  BY <1>3, <1>4

(* Before the transaction and after it. *)
LEMMA DataOutside ==
  ASSUME SchemaInv, DataInv, NEW s \in Syncs,
         ReadFile(s) \/ CheckSchema(s) \/ CreateTable(s) \/ WriteReport(s)
  PROVE  DataInv'
<1>1. db' = db /\ work' = work /\ writer' = writer /\ sync[s].pc # "inside"
  BY DEF ReadFile, CheckSchema, CreateTable, WriteReport
<1>2. sync \in [Syncs -> SyncState] /\ sync[s] \in SyncState
  BY DEF SchemaInv
<1>3. sync'[s].pc # "inside" /\ \A t \in Syncs : t # s => sync'[t] = sync[t]
  <2>1. CASE SyncFails(s)
    BY <2>1, FailedState
  <2>2. ASSUME NEW x \in SyncState, x.pc # "inside", sync' = [sync EXCEPT ![s] = x]
        PROVE  sync'[s].pc # "inside" /\ \A t \in Syncs : t # s => sync'[t] = sync[t]
    BY <2>2, SyncTypes
  <2>3. CASE ReadFile(s)
    BY <1>2, <2>1, <2>3 DEF ReadFile, SyncState
  <2>4. CASE CheckSchema(s)
    BY <1>2, <2>4 DEF CheckSchema, SyncState
  <2>5. CASE CreateTable(s)
    BY <1>2, <2>1, <2>5 DEF CreateTable, SyncState
  <2>6. CASE WriteReport(s)
    BY <1>2, <2>6 DEF WriteReport, SyncState
  <2> QED  BY <2>3, <2>4, <2>5, <2>6
<1> QED  BY <1>1, <1>3, DataAside

LEMMA RelStep == SchemaInv /\ DataInv /\ [RelNext]_relVars => SchemaInv' /\ DataInv'
<1> SUFFICES ASSUME SchemaInv, DataInv, [RelNext]_relVars
             PROVE  SchemaInv' /\ DataInv'
  OBVIOUS
<1>1. CASE Truncate \/ Complete
  <2>1. sync' = sync /\ db' = db /\ work' = work /\ writer' = writer
    BY <1>1 DEF Truncate, Complete
  <2> QED  BY <1>1, <2>1, SchemaFiles, DataOthers
<1>2. ASSUME NEW s \in Syncs, SyncStep(s)
      PROVE  SchemaInv' /\ DataInv'
  <2>1. CASE ReadFile(s)
    BY <2>1, SchemaReadFile, DataOutside
  <2>2. CASE CheckSchema(s)
    BY <2>2, SchemaCheckSchema, DataOutside
  <2>3. CASE CreateTable(s)
    BY <2>3, SchemaCreateTable, DataOutside
  <2>4. CASE WriteReport(s)
    BY <2>4, SchemaReplace, DataOutside
  <2>5. CASE Begin(s)
    BY <2>5, SchemaReplace, DataBegin
  <2>6. CASE Execute(s)
    BY <2>6, SchemaReplace, DataExecute
  <2>7. CASE Commit(s)
    BY <2>7, SchemaReplace, DataCommit
  <2>8. CASE Abandon(s)
    BY <2>8, SchemaReplace, DataAbandon
  <2> QED  BY <1>2, <2>1, <2>2, <2>3, <2>4, <2>5, <2>6, <2>7, <2>8 DEF SyncStep
<1>3. ASSUME NEW i \in Inspections, LookStep(i)
      PROVE  SchemaInv' /\ DataInv'
  <2>1. db \in Database
    BY DEF DataInv
  <2>2. sync' = sync /\ db' = db /\ work' = work /\ writer' = writer
    BY <1>3 DEF LookStep, LookSchema, LookCreate, Select, LookUnchanged
  <2> QED  BY <1>3, <2>1, <2>2, SchemaLook, DataOthers
<1>4. CASE UNCHANGED relVars
  <2>1. /\ sync' = sync /\ db' = db /\ work' = work /\ writer' = writer
        /\ look' = look /\ tables' = tables /\ disk' = disk
    BY <1>4 DEF relVars
  <2>2. SchemaInv'
    BY <2>1 DEF SchemaInv, StatementsFindTheirTables
  <2> QED  BY <2>1, <2>2, DataOthers
<1> QED  BY <1>1, <1>2, <1>3, <1>4 DEF RelNext

-----------------------------------------------------------------------------
(* Inspections and summaries *)

(* The tables hold what sync s read. *)
Source(s, d) ==
  /\ Len(sync[s].got) = 3
  /\ d.runs = Got(s)
  /\ d.events = StoredEvents(Got(s))
  /\ d.features = Got(s)["features"]
  /\ d.snapshots = Got(s)["snapshot"]

Sourced(d) == d = EmptyDatabase \/ \E s \in Syncs : Source(s, d)

(* An inspection that no commit has disturbed has seen what is committed. *)
Faithful(x) ==
  /\ x.pc \in {"start", "create"} => x.seen = << >>
  /\ x.pc = "select" /\ ~x.disturbed =>
       \A n \in 1..Len(x.seen) : x.seen[n] = db[Selects[n]]

(* Where no two commits met before their summaries, the one that is still to
   be written is that of the last commit. *)
ReportInv ==
  /\ ~crossed => \A s \in Reporting : Got(s) = db.runs /\ \A t \in Reporting : t = s
  /\ SummaryLagsOnlyByCrossing

LookInv ==
  /\ Sourced(db)
  /\ \A i \in Inspections : Faithful(look[i])
  /\ QuietInspectionIsWhole

LEMMA FinishedIsSourced ==
  ASSUME SchemaInv, NEW s \in Syncs, sync[s].pc = "inside", sync[s].done = 8,
         work \in Database, WorkDone(s)
  PROVE  Source(s, work)
<1>1. sync[s] \in SyncState /\ Len(sync[s].got) = 3
  BY DEF SchemaInv, AfterReading, AfterSchema
<1>2. \A t \in TableSet : Deleted(8, t) /\ InsertDone(8, t)
  <2>1. Deletes[1] = "runs" /\ Deletes[2] = "snapshots" /\ Deletes[3] = "features"
        /\ Deletes[4] = "events"
    BY DEF Deletes
  <2>2. Inserts[1] = "events" /\ Inserts[2] = "features" /\ Inserts[3] = "snapshots"
        /\ Inserts[4] = "runs"
    BY DEF Inserts
  <2> QED  BY <2>1, <2>2, TableFacts DEF Deleted, InsertDone
<1>3. \A t \in TableSet : work[t] = Target(s, t)
  BY <1>2 DEF WorkDone
<1>4. work["runs"] = Got(s) /\ work["features"] = sync[s].got[2]
      /\ work["snapshots"] = sync[s].got[3]
  BY <1>3, TableFacts DEF Target, RowsFor
<1>5. work["events"] = StoredEvents(Got(s))
  BY <1>1, <1>3, TableFacts, GotIsTriple DEF Target, RowsFor, StoredEvents
<1> QED
  BY <1>1, <1>4, <1>5, GotIsTriple DEF Source

(* Once a sync has read the three files it keeps what it read. *)
LEMMA GotKept ==
  ASSUME SchemaInv, NEW s \in Syncs, SyncStep(s), NEW r \in Syncs, Len(sync[r].got) = 3
  PROVE  sync'[r].got = sync[r].got /\ Got(r)' = Got(r)
<1>0. sync \in [Syncs -> SyncState] /\ sync[s] \in SyncState /\ sync[r] \in SyncState
  BY DEF SchemaInv
<1>1. SyncFails(s) => sync'[r].got = sync[r].got
  BY <1>0 DEF SyncFails, SyncState
<1>2. ReadFile(s) => sync'[r].got = sync[r].got
  <2>1. ReadFile(s) => sync[s].pc = "start" /\ Len(sync[s].got) < 3
    BY DEF ReadFile, SchemaInv
  <2>2. ReadFile(s) => r # s
    <3>1. Len(sync[r].got) < 3 => FALSE
      OBVIOUS
    <3> QED  BY <2>1, <3>1, Zenon
  <2>3. ASSUME NEW c, NEW pc, r # s, sync' = [sync EXCEPT ![s].got = c, ![s].pc = pc]
        PROVE  sync'[r].got = sync[r].got
    BY <2>3, <1>0
  <2>4. SUFFICES ASSUME ReadFile(s), ~SyncFails(s)
                 PROVE  sync'[r].got = sync[r].got
    BY <1>1
  <2>5. PICK part \in {"all", "some", "none"} :
          sync' = [sync EXCEPT
                     ![s].got = Append(sync[s].got,
                                       [gen |-> disk[FileNames[Len(sync[s].got) + 1]].gen,
                                        part |-> part]),
                     ![s].pc = IF Len(sync[s].got) = 2 THEN "schema" ELSE sync[s].pc]
    BY <2>4, Zenon DEF ReadFile
  <2> QED  BY <2>2, <2>3, <2>4, <2>5, Zenon
<1>3. CheckSchema(s) => sync'[r].got = sync[r].got
  BY <1>0 DEF CheckSchema, SyncState
<1>4. CreateTable(s) => sync'[r].got = sync[r].got
  <2>1. ASSUME NEW m, NEW pc, sync' = [sync EXCEPT ![s].missing = m, ![s].pc = pc]
        PROVE  sync'[r].got = sync[r].got
    BY <2>1, <1>0 DEF SyncState
  <2> DEFINE rest == sync[s].missing \ {FirstOf(sync[s].missing)}
  <2>2. CreateTable(s) =>
          \/ SyncFails(s)
          \/ sync' = [sync EXCEPT ![s].missing = rest,
                                  ![s].pc = IF rest = {} THEN "replace" ELSE sync[s].pc]
    BY Zenon DEF CreateTable
  <2> HIDE DEF rest
  <2> QED  BY <1>1, <2>1, <2>2, Zenon
<1>5. Begin(s) => sync'[r].got = sync[r].got
  BY <1>0, <1>1 DEF Begin, SyncState
<1>6. Execute(s) => sync'[r].got = sync[r].got
  BY <1>0 DEF Execute, SyncState
<1>7. Commit(s) => sync'[r].got = sync[r].got
  BY <1>0 DEF Commit, SyncState
<1>8. Abandon(s) => sync'[r].got = sync[r].got
  BY <1>1 DEF Abandon
<1>9. WriteReport(s) => sync'[r].got = sync[r].got
  BY <1>0 DEF WriteReport, SyncState
<1>10. sync'[r].got = sync[r].got
  BY <1>2, <1>3, <1>4, <1>5, <1>6, <1>7, <1>8, <1>9 DEF SyncStep
<1> QED  BY <1>10 DEF Got

(* What was of one sync stays of it, in the database or on its way there. *)
LEMMA SourceKept ==
  ASSUME NEW s \in Syncs,
         (Source(s, db) /\ db' = db) \/ (Source(s, work) /\ db' = work),
         sync'[s].got = sync[s].got, Got(s)' = Got(s)
  PROVE  Source(s, db)'
<1>1. StoredEvents(Got(s))' = StoredEvents(Got(s))
  BY DEF StoredEvents
<1> QED  BY <1>1 DEF Source

LEMMA SourcedKept ==
  ASSUME SchemaInv, Sourced(db), db' = db,
         \A r \in Syncs : Len(sync[r].got) = 3 => sync'[r].got = sync[r].got /\ Got(r)' = Got(r)
  PROVE  Sourced(db)'
<1>1. CASE db = EmptyDatabase
  BY <1>1 DEF Sourced, EmptyDatabase
<1>2. CASE \E s \in Syncs : Source(s, db)
  <2>1. PICK s \in Syncs : Source(s, db)
    BY <1>2
  <2>2. Len(sync[s].got) = 3
    BY <2>1 DEF Source
  <2> QED  BY <2>1, <2>2, SourceKept DEF Sourced
<1> QED  BY <1>1, <1>2 DEF Sourced

(* What a finished inspection tells of one sync it goes on telling of it. *)
LEMMA ToldKept ==
  ASSUME QuietInspectionIsWhole, NEW i \in Inspections,
         look'[i].pc = "done" /\ ~look'[i].disturbed =>
           /\ look[i].pc = "done" /\ ~look[i].disturbed
           /\ look'[i].seen = look[i].seen,
         \A r \in Syncs : Len(sync[r].got) = 3 => sync'[r].got = sync[r].got /\ Got(r)' = Got(r)
  PROVE  look'[i].pc = "done" /\ ~look'[i].disturbed =>
           LET seen == look'[i].seen
           IN  /\ seen[4] = seen[1] /\ seen[5] = seen[1]
               /\ \/ \A n \in 1..3 : seen[n] = NoRows
                  \/ \E s \in Syncs : /\ Len(sync'[s].got) = 3
                                     /\ seen[1] = StoredEvents(Got(s))'
                                     /\ seen[2] = Got(s)'["features"]
                                     /\ seen[3] = Got(s)'["snapshot"]
<1> SUFFICES ASSUME look'[i].pc = "done", ~look'[i].disturbed
             PROVE  LET seen == look'[i].seen
                    IN  /\ seen[4] = seen[1] /\ seen[5] = seen[1]
                        /\ \/ \A n \in 1..3 : seen[n] = NoRows
                           \/ \E s \in Syncs : /\ Len(sync'[s].got) = 3
                                              /\ seen[1] = StoredEvents(Got(s))'
                                              /\ seen[2] = Got(s)'["features"]
                                              /\ seen[3] = Got(s)'["snapshot"]
  OBVIOUS
<1> DEFINE seen == look[i].seen
<1>1. look'[i].seen = seen
  OBVIOUS
<1>2. /\ seen[4] = seen[1] /\ seen[5] = seen[1]
      /\ \/ \A n \in 1..3 : seen[n] = NoRows
         \/ \E s \in Syncs : /\ Len(sync[s].got) = 3
                            /\ seen[1] = StoredEvents(Got(s))
                            /\ seen[2] = Got(s)["features"]
                            /\ seen[3] = Got(s)["snapshot"]
  BY DEF QuietInspectionIsWhole
<1> HIDE DEF seen
<1>3. \A s \in Syncs : Len(sync[s].got) = 3 =>
        /\ Len(sync'[s].got) = 3
        /\ StoredEvents(Got(s))' = StoredEvents(Got(s))
        /\ Got(s)' = Got(s)
  BY DEF StoredEvents
<1> QED  BY <1>1, <1>2, <1>3

LEMMA LookInit == RelInit => LookInv /\ ReportInv
<1> SUFFICES ASSUME RelInit  PROVE LookInv /\ ReportInv
  OBVIOUS
<1>1. db = EmptyDatabase /\ report = NoRows
  BY DEF RelInit
<1>2. \A s \in Syncs : sync[s].pc = "start"
  BY DEF RelInit
<1>3. \A i \in Inspections : look[i].pc = "start" /\ look[i].seen = << >>
  BY DEF RelInit
<1>4. Reporting = {}
  BY <1>2 DEF Reporting
<1>5. db.runs = NoRows
  BY <1>1, TableFacts DEF EmptyDatabase
<1> QED
  BY <1>1, <1>3, <1>4, <1>5
     DEF LookInv, ReportInv, Sourced, Faithful, QuietInspectionIsWhole, SummaryLagsOnlyByCrossing

(* A step that no inspection notices. *)
LEMMA LookAside ==
  ASSUME SchemaInv, LookInv, look' = look, db' = db,
         \A r \in Syncs : Len(sync[r].got) = 3 => sync'[r].got = sync[r].got /\ Got(r)' = Got(r)
  PROVE  LookInv'
<1>1. Sourced(db)'
  BY SourcedKept DEF LookInv
<1>2. \A i \in Inspections : Faithful(look[i])'
  BY DEF LookInv, Faithful
<1>3. QuietInspectionIsWhole'
  BY ToldKept DEF LookInv, QuietInspectionIsWhole
<1> QED  BY <1>1, <1>2, <1>3 DEF LookInv

LEMMA LookCommit ==
  ASSUME SchemaInv, DataInv, LookInv, NEW s \in Syncs, Commit(s)
  PROVE  LookInv'
<1>1. \A r \in Syncs : Len(sync[r].got) = 3 => sync'[r].got = sync[r].got /\ Got(r)' = Got(r)
  BY GotKept DEF SyncStep
<1>2. sync[s].pc = "inside" /\ sync[s].done = 8 /\ db' = work
  BY DEF Commit
<1>3. Source(s, work)
  <2>1. s \in writer /\ WorkDone(s) /\ work \in Database
    BY <1>2 DEF DataInv
  <2> QED  BY <1>2, <2>1, FinishedIsSourced
<1>4. Sourced(db)'
  <2>1. Len(sync[s].got) = 3
    BY <1>3 DEF Source
  <2> QED  BY <1>1, <1>2, <1>3, <2>1, SourceKept DEF Sourced
<1> DEFINE y(i) == [look[i] EXCEPT !.disturbed =
                      @ \/ (look[i].pc = "select" /\ look[i].seen # << >>)]
<1>5. look' = [i \in Inspections |-> y(i)]
  BY DEF Commit
<1>6. ASSUME NEW i \in Inspections
      PROVE  /\ y(i).pc = look[i].pc /\ y(i).seen = look[i].seen
             /\ y(i).disturbed <=>
                  look[i].disturbed \/ (look[i].pc = "select" /\ look[i].seen # << >>)
  <2>1. look[i] \in LookState
    BY DEF SchemaInv
  <2> QED  BY <2>1 DEF LookState
<1> HIDE DEF y
<1>7. \A i \in Inspections :
        /\ look'[i].pc = look[i].pc /\ look'[i].seen = look[i].seen
        /\ look'[i].disturbed <=>
             look[i].disturbed \/ (look[i].pc = "select" /\ look[i].seen # << >>)
  BY <1>5, <1>6
<1>8. ASSUME NEW i \in Inspections  PROVE Faithful(look[i])'
  <2>1. Faithful(look[i])
    BY DEF LookInv
  <2>2. CASE look[i].seen = << >>
    <3>1. Len(<< >>) = 0
      OBVIOUS
    <3> QED  BY <1>7, <2>2, <3>1 DEF Faithful
  <2>3. CASE look[i].seen # << >>
    BY <1>7, <2>1, <2>3 DEF Faithful
  <2> QED  BY <2>2, <2>3
<1>9. QuietInspectionIsWhole'
  <2>1. \A i \in Inspections : look'[i].pc = "done" /\ ~look'[i].disturbed =>
          /\ look[i].pc = "done" /\ ~look[i].disturbed
          /\ look'[i].seen = look[i].seen
    BY <1>7
  <2> QED  BY <1>1, <2>1, ToldKept DEF LookInv, QuietInspectionIsWhole
<1> QED  BY <1>4, <1>8, <1>9 DEF LookInv

(* A step of one inspection that keeps to what it has seen, or ends by telling
   of one sync. *)
LEMMA LookMoves ==
  ASSUME SchemaInv, LookInv, NEW i \in Inspections, NEW x,
         look' = [look EXCEPT ![i] = x], sync' = sync, db' = db,
         Faithful(x),
         x.pc = "done" /\ ~x.disturbed =>
           /\ x.seen[4] = x.seen[1] /\ x.seen[5] = x.seen[1]
           /\ \/ \A n \in 1..3 : x.seen[n] = NoRows
              \/ \E s \in Syncs : /\ Len(sync[s].got) = 3
                                 /\ x.seen[1] = StoredEvents(Got(s))
                                 /\ x.seen[2] = Got(s)["features"]
                                 /\ x.seen[3] = Got(s)["snapshot"]
  PROVE  LookInv'
<1>1. look'[i] = x /\ \A k \in Inspections : k # i => look'[k] = look[k]
  BY DEF SchemaInv
<1>2. \A s \in Syncs : Got(s)' = Got(s) /\ StoredEvents(Got(s))' = StoredEvents(Got(s))
  BY DEF Got, StoredEvents
<1>3. Sourced(db)'
  BY <1>2, SourcedKept DEF LookInv
<1>4. ASSUME NEW k \in Inspections  PROVE Faithful(look[k])'
  <2>1. CASE k = i
    BY <1>1, <2>1 DEF Faithful
  <2>2. CASE k # i
    BY <1>1, <2>2 DEF Faithful, LookInv
  <2> QED  BY <2>1, <2>2
<1>5. ASSUME NEW k \in Inspections, look'[k].pc = "done", ~look'[k].disturbed
      PROVE  LET seen == look'[k].seen
             IN  /\ seen[4] = seen[1] /\ seen[5] = seen[1]
                 /\ \/ \A n \in 1..3 : seen[n] = NoRows
                    \/ \E s \in Syncs : /\ Len(sync'[s].got) = 3
                                       /\ seen[1] = StoredEvents(Got(s))'
                                       /\ seen[2] = Got(s)'["features"]
                                       /\ seen[3] = Got(s)'["snapshot"]
  <2>1. CASE k = i
    BY <1>1, <1>2, <1>5, <2>1
  <2>2. CASE k # i
    <3>1. look'[k] = look[k]
      BY <1>1, <2>2
    <3> QED  BY <1>2, <1>5, <3>1, ToldKept DEF LookInv
  <2> QED  BY <2>1, <2>2
<1>6. QuietInspectionIsWhole'
  BY <1>5 DEF QuietInspectionIsWhole
<1> QED  BY <1>3, <1>4, <1>6 DEF LookInv

LEMMA LookSelect ==
  ASSUME SchemaInv, DataInv, LookInv, NEW i \in Inspections, Select(i)
  PROVE  LookInv'
<1> DEFINE m == Len(look[i].seen)
           v == db[Selects[m + 1]]
           q == Append(look[i].seen, v)
           x == [look[i] EXCEPT !.seen = q,
                                !.pc = IF m + 1 = Len(Selects) THEN "done" ELSE @]
<1>1. look[i] \in LookState /\ look[i].pc = "select" /\ Len(Selects) = 5
  BY DEF Select, SchemaInv, Selects
<1>2. look' = [look EXCEPT ![i] = x] /\ sync' = sync /\ db' = db
  BY DEF Select, LookUnchanged
<1>3. look[i].seen \in Seq(Content \cup {NoRows})
  BY <1>1 DEF LookState
<1>4. m \in 0..4
  <2>1. m \in Nat /\ m < 5
    BY <1>1, <1>3 DEF SchemaInv
  <2> HIDE DEF m
  <2> QED  BY <2>1
<1>5. v \in Content \cup {NoRows}
  <2> HIDE DEF m
  <2>1. m + 1 \in 1..5
    BY <1>4
  <2>2. Selects[m + 1] \in {"events", "features", "snapshots"}
    BY <2>1 DEF Selects
  <2>3. db \in Database
    BY DEF DataInv
  <2> QED  BY <2>2, <2>3 DEF Database
<1>6. /\ q \in Seq(Content \cup {NoRows}) /\ Len(q) = m + 1 /\ q[m + 1] = v
      /\ \A n \in 1..m : q[n] = look[i].seen[n]
  <2> HIDE DEF v
  <2> QED  BY <1>3, <1>5
<1> HIDE DEF q, v, m
<1>7. /\ x.seen = q /\ x.disturbed = look[i].disturbed
      /\ x.pc = IF m + 1 = 5 THEN "done" ELSE "select"
  BY <1>1 DEF LookState
<1> HIDE DEF x
<1>8. ~x.disturbed => \A n \in 1..Len(x.seen) : x.seen[n] = db[Selects[n]]
  <2> SUFFICES ASSUME ~x.disturbed, NEW n \in 1..Len(x.seen)
               PROVE  x.seen[n] = db[Selects[n]]
    OBVIOUS
  <2>1. CASE n = m + 1
    BY <1>6, <1>7, <2>1 DEF v
  <2>2. CASE n # m + 1
    <3>1. n \in 1..m
      BY <1>4, <1>6, <1>7, <2>2
    <3>2. Faithful(look[i])
      BY DEF LookInv
    <3>3. look[i].seen[n] = db[Selects[n]]
      BY <1>1, <1>7, <3>1, <3>2 DEF Faithful, m
    <3> QED  BY <1>6, <1>7, <3>1, <3>3
  <2> QED  BY <2>1, <2>2
<1>9. ASSUME x.pc = "done", ~x.disturbed
      PROVE  /\ x.seen[4] = x.seen[1] /\ x.seen[5] = x.seen[1]
              /\ \/ \A n \in 1..3 : x.seen[n] = NoRows
                 \/ \E s \in Syncs : /\ Len(sync[s].got) = 3
                                    /\ x.seen[1] = StoredEvents(Got(s))
                                    /\ x.seen[2] = Got(s)["features"]
                                    /\ x.seen[3] = Got(s)["snapshot"]
  <2>1. Len(x.seen) = 5
    BY <1>4, <1>6, <1>7, <1>9
  <2>2. \A n \in 1..5 : x.seen[n] = db[Selects[n]]
    BY <1>8, <1>9, <2>1
  <2>3. /\ Selects[1] = "events" /\ Selects[2] = "features" /\ Selects[3] = "snapshots"
        /\ Selects[4] = "events" /\ Selects[5] = "events"
    BY DEF Selects
  <2>4. /\ x.seen[1] = db["events"] /\ x.seen[2] = db["features"]
        /\ x.seen[3] = db["snapshots"]
        /\ x.seen[4] = db["events"] /\ x.seen[5] = db["events"]
    BY <2>2, <2>3
  <2>5. CASE db = EmptyDatabase
    <3>1. db["events"] = NoRows /\ db["features"] = NoRows /\ db["snapshots"] = NoRows
      BY <2>5, TableFacts DEF EmptyDatabase
    <3> QED  BY <2>4, <3>1
  <2>6. CASE \E s \in Syncs : Source(s, db)
    BY <2>4, <2>6 DEF Source
  <2> QED  BY <2>4, <2>5, <2>6 DEF LookInv, Sourced
<1>10. Faithful(x)
  BY <1>7, <1>8 DEF Faithful
<1> QED  BY <1>2, <1>9, <1>10, LookMoves

LEMMA LookStays ==
  ASSUME SchemaInv, LookInv, NEW i \in Inspections, LookSchema(i) \/ LookCreate(i)
  PROVE  LookInv'
<1>1. look[i] \in LookState /\ look[i].pc \in {"start", "create"} /\ look[i].seen = << >>
  BY DEF SchemaInv, LookInv, Faithful, LookSchema, LookCreate
<1>2. sync' = sync /\ db' = db
  BY DEF LookSchema, LookCreate, LookUnchanged
<1>3. ASSUME NEW m, NEW pc \in {"create", "select", "failed"},
             look' = [look EXCEPT ![i] = [look[i] EXCEPT !.missing = m, !.pc = pc]]
      PROVE  LookInv'
  <2> DEFINE x == [look[i] EXCEPT !.missing = m, !.pc = pc]
  <2>1. x.seen = << >> /\ x.pc = pc
    BY <1>1 DEF LookState
  <2>2. look' = [look EXCEPT ![i] = x]
    BY <1>3
  <2> HIDE DEF x
  <2>3. Len(x.seen) = 0
    BY <2>1
  <2>4. Faithful(x)
    BY <2>1, <2>3 DEF Faithful
  <2>5. x.pc # "done"
    BY <2>1
  <2> QED  BY <1>2, <2>2, <2>4, <2>5, LookMoves
<1>4. ASSUME look' = [look EXCEPT ![i].pc = "failed"]  PROVE LookInv'
  <2> DEFINE x == [look[i] EXCEPT !.pc = "failed"]
  <2>1. x.pc = "failed"
    BY <1>1 DEF LookState
  <2>2. look' = [look EXCEPT ![i] = x]
    BY <1>4
  <2> HIDE DEF x
  <2>3. Faithful(x)
    BY <2>1 DEF Faithful
  <2> QED  BY <1>2, <2>1, <2>2, <2>3, LookMoves
<1>5. CASE LookSchema(i)
  <2> DEFINE pc == IF Missing = {} THEN "select" ELSE "create"
  <2>1. look' = [look EXCEPT ![i] = [look[i] EXCEPT !.missing = Missing, !.pc = pc]]
    BY <1>5 DEF LookSchema
  <2>2. pc \in {"create", "select", "failed"}
    OBVIOUS
  <2> HIDE DEF pc
  <2> QED  BY <1>3, <2>1, <2>2
<1>6. CASE LookCreate(i)
  <2> DEFINE rest == look[i].missing \ {FirstOf(look[i].missing)}
             pc == IF rest = {} THEN "select" ELSE look[i].pc
  <2>1. \/ look' = [look EXCEPT ![i].pc = "failed"]
        \/ look' = [look EXCEPT ![i] = [look[i] EXCEPT !.missing = rest, !.pc = pc]]
    BY <1>6, Zenon DEF LookCreate
  <2>2. look[i].pc = "create"
    BY <1>6 DEF LookCreate
  <2>3. pc \in {"create", "select", "failed"}
    BY <2>2
  <2> HIDE DEF rest, pc
  <2> QED  BY <1>3, <1>4, <2>1, <2>3
<1> QED  BY <1>5, <1>6

(* A sync waits to write its summary from its commit on, and no other does
   because of its steps. *)
LEMMA StepPlace ==
  ASSUME SchemaInv, NEW s \in Syncs, SyncStep(s)
  PROVE  /\ \A t \in Syncs : t # s => sync'[t] = sync[t]
         /\ Commit(s) \/ sync'[s].pc # "committed"
         /\ Commit(s) => sync'[s].pc = "committed"
         /\ sync'[s].pc = "create" => CheckSchema(s) \/ CreateTable(s)
<1> DEFINE Others == \A t \in Syncs : t # s => sync'[t] = sync[t]
<1>1. sync \in [Syncs -> SyncState] /\ sync[s] \in SyncState
  BY DEF SchemaInv
<1>2. SyncFails(s) => Others /\ sync'[s].pc \notin {"committed", "create"}
  BY FailedState
<1>3. ASSUME NEW x, sync' = [sync EXCEPT ![s] = x]
      PROVE  Others /\ sync'[s] = x
  BY <1>1, <1>3
<1>4. CASE ReadFile(s)
  <2>1. ASSUME NEW c, NEW pc, pc \notin {"committed", "create"},
               sync' = [sync EXCEPT ![s].got = c, ![s].pc = pc]
        PROVE  Others /\ sync'[s].pc \notin {"committed", "create"}
    <3> DEFINE x == [sync[s] EXCEPT !.got = c, !.pc = pc]
    <3>1. sync' = [sync EXCEPT ![s] = x]
      BY <2>1
    <3>2. x.pc = pc
      BY <1>1 DEF SyncState
    <3> HIDE DEF x
    <3> QED  BY <1>3, <2>1, <3>1, <3>2
  <2> DEFINE pc == IF Len(sync[s].got) = 2 THEN "schema" ELSE sync[s].pc
  <2>2. pc \notin {"committed", "create"}
    BY <1>4 DEF ReadFile
  <2>3. SUFFICES ASSUME ~SyncFails(s)
                 PROVE  Others /\ sync'[s].pc \notin {"committed", "create"}
    BY <1>2, <1>4 DEF Commit, ReadFile
  <2>4. PICK part \in {"all", "some", "none"} :
          sync' = [sync EXCEPT
                     ![s].got = Append(sync[s].got,
                                       [gen |-> disk[FileNames[Len(sync[s].got) + 1]].gen,
                                        part |-> part]),
                     ![s].pc = pc]
    BY <1>4, <2>3, Zenon DEF ReadFile
  <2> HIDE DEF pc
  <2> QED  BY <2>1, <2>2, <2>4
<1>5. CASE CheckSchema(s)
  <2>1. Others /\ sync'[s].pc # "committed"
    BY <1>1, <1>5 DEF CheckSchema, SyncState
  <2> QED  BY <1>5, <2>1 DEF Commit, CheckSchema
<1>6. CASE CreateTable(s)
  <2> DEFINE rest == sync[s].missing \ {FirstOf(sync[s].missing)}
             pc == IF rest = {} THEN "replace" ELSE sync[s].pc
             x == [sync[s] EXCEPT !.missing = rest, !.pc = pc]
  <2>1. SyncFails(s) \/ sync' = [sync EXCEPT ![s] = x]
    BY <1>6, Zenon DEF CreateTable
  <2>2. sync[s].pc = "create"
    BY <1>6 DEF CreateTable
  <2>3. x.pc = pc /\ pc # "committed"
    BY <1>1, <2>2 DEF SyncState
  <2> HIDE DEF x, pc, rest
  <2>4. Others /\ sync'[s].pc # "committed"
    BY <1>2, <1>3, <2>1, <2>3
  <2> QED  BY <1>6, <2>2, <2>4 DEF Commit
<1>7. CASE Begin(s)
  <2>1. SyncFails(s) \/ sync' = [sync EXCEPT ![s].pc = "inside", ![s].done = 1]
    BY <1>7 DEF Begin
  <2>2. Others /\ sync'[s].pc \notin {"committed", "create"}
    BY <1>2, <2>1, InsideStep
  <2> QED  BY <1>7, <2>2 DEF Commit, Begin
<1>8. CASE Execute(s)
  <2>1. sync' = [sync EXCEPT ![s].pc = "inside", ![s].done = sync[s].done + 1]
    BY <1>1, <1>8 DEF Execute, SyncState
  <2>2. Others /\ sync'[s].pc \notin {"committed", "create"}
    BY <2>1, InsideStep
  <2> QED  BY <1>8, <2>2 DEF Commit, Execute
<1>9. CASE Commit(s)
  <2> DEFINE x == [sync[s] EXCEPT !.pc = "committed"]
  <2>1. sync' = [sync EXCEPT ![s] = x]
    BY <1>9 DEF Commit
  <2>2. x.pc = "committed"
    BY <1>1 DEF SyncState
  <2> HIDE DEF x
  <2> QED  BY <1>3, <1>9, <2>1, <2>2
<1>10. ASSUME ~Commit(s), Abandon(s) \/ WriteReport(s)
       PROVE  Others /\ sync'[s].pc \notin {"committed", "create"}
  <2>1. CASE Abandon(s)
    BY <1>2, <2>1 DEF Abandon
  <2>2. CASE WriteReport(s)
    BY <1>1, <2>2 DEF WriteReport, SyncState
  <2> QED  BY <1>10, <2>1, <2>2
<1> QED
  BY <1>4, <1>5, <1>6, <1>7, <1>8, <1>9, <1>10 DEF SyncStep

(* A step of which no summary comes any nearer. *)
LEMMA ReportAside ==
  ASSUME ReportInv, report' = report, db' = db, crossed' <=> crossed,
         \A t \in Syncs : \/ sync'[t] = sync[t]
                          \/ sync[t].pc # "committed" /\ sync'[t].pc # "committed"
  PROVE  ReportInv'
<1>1. Reporting' = Reporting
  BY DEF Reporting
<1>2. \A t \in Reporting : Got(t)' = Got(t)
  BY DEF Got, Reporting
<1> QED  BY <1>1, <1>2 DEF ReportInv, SummaryLagsOnlyByCrossing

LEMMA ReportStep ==
  ASSUME SchemaInv, DataInv, ReportInv, NEW s \in Syncs, SyncStep(s)
  PROVE  ReportInv'
<1>1. /\ \A t \in Syncs : t # s => sync'[t] = sync[t]
      /\ Commit(s) \/ sync'[s].pc # "committed"
      /\ Commit(s) => sync'[s].pc = "committed"
  BY StepPlace
<1>2. CASE Commit(s)
  <2>1. sync[s].pc = "inside" /\ sync[s].done = 8 /\ db' = work /\ crossed' = (Reporting # {})
    BY <1>2 DEF Commit
  <2>2. s \in writer /\ WorkDone(s) /\ work \in Database
    BY <2>1 DEF DataInv
  <2>3. Source(s, work)
    BY <2>1, <2>2, FinishedIsSourced
  <2>4. Len(sync[s].got) = 3 /\ work.runs = Got(s)
    BY <2>3 DEF Source
  <2>5. Got(s)' = db'.runs
    BY <2>1, <2>4, GotKept
  <2>6. CASE Reporting = {}
    <3>1. Reporting' = {s}
      BY <1>1, <1>2, <2>6 DEF Reporting
    <3> QED  BY <2>5, <3>1 DEF ReportInv, SummaryLagsOnlyByCrossing
  <2>7. CASE Reporting # {}
    BY <2>1, <2>7 DEF ReportInv, SummaryLagsOnlyByCrossing
  <2> QED  BY <2>6, <2>7
<1>3. CASE Abandon(s)
  <2>1. report' = report /\ db' = db /\ crossed' = (crossed \/ s \in Reporting)
    BY <1>3 DEF Abandon
  <2>2. CASE s \in Reporting
    BY <2>1, <2>2 DEF ReportInv, SummaryLagsOnlyByCrossing
  <2>3. CASE s \notin Reporting
    <3>1. sync[s].pc # "committed"
      BY <2>3 DEF Reporting
    <3>2. sync'[s].pc # "committed"
      BY <1>3, FailedState DEF Abandon
    <3>3. crossed' <=> crossed
      BY <2>1, <2>3
    <3> QED  BY <1>1, <2>1, <3>1, <3>2, <3>3, ReportAside
  <2> QED  BY <2>2, <2>3
<1>4. CASE WriteReport(s)
  <2>1. s \in Reporting /\ report' = Got(s) /\ db' = db /\ crossed' = crossed
    BY <1>4 DEF WriteReport, Reporting
  <2>2. sync'[s].pc # "committed"
    BY <1>4 DEF WriteReport, SchemaInv, SyncState
  <2>3. ASSUME ~crossed  PROVE report' = db'.runs /\ Reporting' = {}
    <3>1. Got(s) = db.runs /\ \A t \in Reporting : t = s
      BY <2>1, <2>3 DEF ReportInv
    <3> QED  BY <1>1, <2>1, <2>2, <3>1 DEF Reporting
  <2> QED  BY <2>1, <2>3 DEF ReportInv, SummaryLagsOnlyByCrossing
<1>5. CASE ~Commit(s) /\ ~Abandon(s) /\ ~WriteReport(s)
  <2>1. report' = report /\ db' = db /\ crossed' = crossed /\ sync[s].pc # "committed"
    BY <1>5 DEF SyncStep, ReadFile, CheckSchema, CreateTable, Begin, Execute
  <2> QED  BY <1>1, <1>5, <2>1, ReportAside
<1> QED  BY <1>2, <1>3, <1>4, <1>5

LEMMA TellStep ==
  SchemaInv /\ DataInv /\ LookInv /\ ReportInv /\ [RelNext]_relVars => LookInv' /\ ReportInv'
<1> SUFFICES ASSUME SchemaInv, DataInv, LookInv, ReportInv, [RelNext]_relVars
             PROVE  LookInv' /\ ReportInv'
  OBVIOUS
<1>1. ASSUME NEW s \in Syncs, SyncStep(s)
      PROVE  LookInv'
  <2>1. CASE Commit(s)
    BY <2>1, LookCommit
  <2>2. CASE ~Commit(s)
    <3>1. look' = look /\ db' = db
      BY <1>1, <2>2
         DEF SyncStep, ReadFile, CheckSchema, CreateTable, Begin, Execute, Abandon, WriteReport
    <3>2. \A r \in Syncs : Len(sync[r].got) = 3 =>
            sync'[r].got = sync[r].got /\ Got(r)' = Got(r)
      BY <1>1, GotKept
    <3> QED  BY <3>1, <3>2, LookAside
  <2> QED  BY <2>1, <2>2
<1>2. ASSUME sync' = sync, db' = db, report' = report, crossed' = crossed
      PROVE  /\ ReportInv'
             /\ \A r \in Syncs : Len(sync[r].got) = 3 =>
                  sync'[r].got = sync[r].got /\ Got(r)' = Got(r)
  BY <1>2, ReportAside DEF Got
<1>3. ASSUME NEW i \in Inspections, LookStep(i)
      PROVE  LookInv' /\ ReportInv'
  <2>1. sync' = sync /\ db' = db /\ report' = report /\ crossed' = crossed
    BY <1>3 DEF LookStep, LookSchema, LookCreate, Select, LookUnchanged
  <2> QED  BY <1>2, <1>3, <2>1, LookSelect, LookStays DEF LookStep
<1>4. CASE Truncate \/ Complete \/ UNCHANGED relVars
  <2>1. sync' = sync /\ db' = db /\ report' = report /\ crossed' = crossed /\ look' = look
    BY <1>4 DEF Truncate, Complete, relVars
  <2> QED  BY <1>2, <2>1, LookAside
<1> QED  BY <1>1, <1>3, <1>4, ReportStep DEF RelNext

-----------------------------------------------------------------------------
(* Types *)

(* What is left of the type invariant, and that a run that creates tables has
   one left to create. *)
RestInv ==
  /\ making \in 1..3
  /\ tables \subseteq TableSet
  /\ report \in Triple \cup {NoRows}
  /\ crossed \in BOOLEAN
  /\ \A s \in Syncs : sync[s].pc = "create" => sync[s].missing # {}
  /\ \A i \in Inspections : look[i].pc = "create" => look[i].missing # {}

LEMMA FirstIsOne ==
  ASSUME NEW some \in SUBSET TableSet, some # {}
  PROVE  FirstOf(some) \in some
<1> DEFINE P(n) == TableNames[n] \in some /\ \A k \in 1..(n - 1) : TableNames[k] \notin some
<1>1. /\ TableNames[1] = "events" /\ TableNames[2] = "features"
      /\ TableNames[3] = "snapshots" /\ TableNames[4] = "runs"
  BY DEF TableNames
<1>2. \E n \in 1..4 : P(n)
  <2>1. \E n \in 1..4 : TableNames[n] \in some
    <3>1. PICK t \in some : t \in {"events", "features", "snapshots", "runs"}
      BY TableFacts
    <3> QED  BY <1>1, <3>1
  <2>2. CASE TableNames[1] \in some
    BY <2>2
  <2>3. CASE TableNames[1] \notin some /\ TableNames[2] \in some
    BY <2>3
  <2>4. CASE TableNames[1] \notin some /\ TableNames[2] \notin some /\ TableNames[3] \in some
    <3>1. P(3)
      BY <2>4
    <3> QED  BY <3>1
  <2>5. CASE /\ TableNames[1] \notin some /\ TableNames[2] \notin some
             /\ TableNames[3] \notin some /\ TableNames[4] \in some
    <3>1. P(4)
      BY <2>5
    <3> QED  BY <3>1
  <2> QED  BY <2>1, <2>2, <2>3, <2>4, <2>5
<1>3. (CHOOSE n \in 1..4 : P(n)) \in 1..4 /\ P(CHOOSE n \in 1..4 : P(n))
  BY <1>2
<1> QED  BY <1>3 DEF FirstOf

LEMMA RestSync ==
  ASSUME SchemaInv, RestInv, NEW s \in Syncs, SyncStep(s)
  PROVE  RestInv'
<1>1. sync \in [Syncs -> SyncState] /\ sync[s] \in SyncState
  BY DEF SchemaInv
<1>2. /\ \A t \in Syncs : t # s => sync'[t] = sync[t]
      /\ sync'[s].pc = "create" => CheckSchema(s) \/ CreateTable(s)
  BY StepPlace
<1>3. making' = making
  BY DEF SyncStep, ReadFile, CheckSchema, CreateTable, Begin, Execute, Commit, Abandon, WriteReport
<1>4. \A i \in Inspections : look'[i].pc = "create" => look'[i].missing # {}
  <2>1. CASE Commit(s)
    <3> DEFINE y(i) == [look[i] EXCEPT !.disturbed =
                          @ \/ (look[i].pc = "select" /\ look[i].seen # << >>)]
    <3>1. look' = [i \in Inspections |-> y(i)]
      BY <2>1 DEF Commit
    <3>2. ASSUME NEW i \in Inspections
          PROVE  y(i).pc = look[i].pc /\ y(i).missing = look[i].missing
      <4>1. look[i] \in LookState
        BY DEF SchemaInv
      <4> QED  BY <4>1 DEF LookState
    <3> HIDE DEF y
    <3> QED  BY <3>1, <3>2 DEF RestInv
  <2>2. CASE ~Commit(s)
    <3>1. look' = look
      BY <2>2
         DEF SyncStep, ReadFile, CheckSchema, CreateTable, Begin, Execute, Abandon, WriteReport
    <3> QED  BY <3>1 DEF RestInv
  <2> QED  BY <2>1, <2>2
<1>5. tables' \subseteq TableSet
  <2>1. CASE CreateTable(s)
    <3>1. sync[s].missing \in SUBSET TableSet /\ sync[s].missing # {}
      BY <1>1, <2>1 DEF SyncState, CreateTable, RestInv
    <3>2. FirstOf(sync[s].missing) \in TableSet
      BY <3>1, FirstIsOne
    <3> QED  BY <2>1, <3>2 DEF CreateTable, RestInv
  <2>2. CASE ~CreateTable(s)
    BY <2>2 DEF RestInv, SyncStep, ReadFile, CheckSchema, Begin, Execute, Commit, Abandon, WriteReport
  <2> QED  BY <2>1, <2>2
<1>6. sync'[s].pc = "create" => sync'[s].missing # {}
  <2>1. CASE CheckSchema(s)
    BY <1>1, <2>1 DEF CheckSchema, SyncState
  <2>2. CASE CreateTable(s)
    <3> DEFINE rest == sync[s].missing \ {FirstOf(sync[s].missing)}
               pc == IF rest = {} THEN "replace" ELSE sync[s].pc
               x == [sync[s] EXCEPT !.missing = rest, !.pc = pc]
    <3>1. SyncFails(s) \/ sync' = [sync EXCEPT ![s] = x]
      BY <2>2, Zenon DEF CreateTable
    <3>2. x.pc = pc /\ x.missing = rest
      BY <1>1 DEF SyncState
    <3>3. pc = "create" => rest # {}
      OBVIOUS
    <3> HIDE DEF x, pc, rest
    <3> QED  BY <1>1, <3>1, <3>2, <3>3, FailedState
  <2> QED  BY <1>2, <2>1, <2>2
<1>7. report' \in Triple \cup {NoRows}
  <2>1. CASE WriteReport(s)
    <3>1. Len(sync[s].got) = 3
      BY <2>1 DEF SchemaInv, WriteReport, AfterReading, AfterSchema
    <3> QED  BY <1>1, <2>1, <3>1, GotIsTriple DEF WriteReport
  <2>2. CASE ~WriteReport(s)
    BY <2>2 DEF RestInv, SyncStep, ReadFile, CheckSchema, CreateTable, Begin, Execute, Commit, Abandon
  <2> QED  BY <2>1, <2>2
<1>8. crossed' \in BOOLEAN
  <2>1. CASE Commit(s) \/ Abandon(s)
    BY <2>1 DEF Commit, Abandon
  <2>2. CASE ~Commit(s) /\ ~Abandon(s)
    BY <2>2 DEF RestInv, SyncStep, ReadFile, CheckSchema, CreateTable, Begin, Execute, WriteReport
  <2> QED  BY <2>1, <2>2
<1>9. \A t \in Syncs : sync'[t].pc = "create" => sync'[t].missing # {}
  BY <1>2, <1>6 DEF RestInv
<1> QED  BY <1>3, <1>4, <1>5, <1>7, <1>8, <1>9 DEF RestInv

LEMMA RestLook ==
  ASSUME SchemaInv, RestInv, NEW i \in Inspections, LookStep(i)
  PROVE  RestInv'
<1>1. look \in [Inspections -> LookState] /\ look[i] \in LookState
  BY DEF SchemaInv
<1>2. making' = making /\ report' = report /\ crossed' = crossed /\ sync' = sync
  BY DEF LookStep, LookSchema, LookCreate, Select, LookUnchanged
<1>3. ASSUME NEW x, look' = [look EXCEPT ![i] = x], x.pc = "create" => x.missing # {}
      PROVE  \A k \in Inspections : look'[k].pc = "create" => look'[k].missing # {}
  BY <1>1, <1>3 DEF RestInv
<1>4. CASE LookSchema(i)
  <2> DEFINE x == [look[i] EXCEPT !.missing = Missing,
                                  !.pc = IF Missing = {} THEN "select" ELSE "create"]
  <2>1. x.pc = "create" => x.missing # {}
    BY <1>1 DEF LookState
  <2>2. look' = [look EXCEPT ![i] = x] /\ tables' = tables
    BY <1>4 DEF LookSchema
  <2> HIDE DEF x
  <2> QED  BY <1>2, <1>3, <2>1, <2>2 DEF RestInv
<1>5. CASE LookCreate(i)
  <2> DEFINE rest == look[i].missing \ {FirstOf(look[i].missing)}
             pc == IF rest = {} THEN "select" ELSE look[i].pc
             x == [look[i] EXCEPT !.missing = rest, !.pc = pc]
             z == [look[i] EXCEPT !.pc = "failed"]
  <2>1. look[i].missing \in SUBSET TableSet /\ look[i].missing # {}
    BY <1>1, <1>5 DEF LookState, LookCreate, RestInv
  <2>2. tables' \subseteq TableSet
    BY <1>5, <2>1, FirstIsOne DEF LookCreate, RestInv
  <2>3. look' = [look EXCEPT ![i] = z] \/ look' = [look EXCEPT ![i] = x]
    BY <1>5, Zenon DEF LookCreate
  <2>4. z.pc = "failed" /\ x.pc = pc /\ x.missing = rest
    BY <1>1 DEF LookState
  <2>5. pc = "create" => rest # {}
    OBVIOUS
  <2> HIDE DEF z, x, pc, rest
  <2>6. \A k \in Inspections : look'[k].pc = "create" => look'[k].missing # {}
    BY <1>3, <2>3, <2>4, <2>5
  <2> QED  BY <1>2, <2>2, <2>6 DEF RestInv
<1>6. CASE Select(i)
  <2> DEFINE pc == IF Len(look[i].seen) + 1 = Len(Selects) THEN "done" ELSE look[i].pc
             q == Append(look[i].seen, db[Selects[Len(look[i].seen) + 1]])
             x == [look[i] EXCEPT !.seen = q, !.pc = pc]
  <2>1. look' = [look EXCEPT ![i] = x] /\ tables' = tables /\ pc # "create"
    BY <1>6 DEF Select
  <2>2. x.pc = pc
    BY <1>1 DEF LookState
  <2> HIDE DEF x, pc, q
  <2> QED  BY <1>2, <1>3, <2>1, <2>2 DEF RestInv
<1> QED  BY <1>4, <1>5, <1>6 DEF LookStep

LEMMA RestStep == SchemaInv /\ RestInv /\ [RelNext]_relVars => RestInv'
<1> SUFFICES ASSUME SchemaInv, RestInv, [RelNext]_relVars  PROVE RestInv'
  OBVIOUS
<1>1. CASE Truncate
  BY <1>1 DEF Truncate, RestInv
<1>2. CASE Complete
  <2>1. making' \in 1..3
    BY <1>2 DEF Complete, RestInv
  <2> QED  BY <1>2, <2>1 DEF Complete, RestInv
<1>3. CASE UNCHANGED relVars
  BY <1>3 DEF relVars, RestInv
<1> QED  BY <1>1, <1>2, <1>3, RestSync, RestLook DEF RelNext

LEMMA RestInit == RelInit => RestInv
<1> SUFFICES ASSUME RelInit  PROVE RestInv
  OBVIOUS
<1>1. /\ \A s \in Syncs : sync[s].pc = "start"
      /\ \A i \in Inspections : look[i].pc = "start"
  BY DEF RelInit
<1>2. making = 1 /\ tables = {} /\ report = NoRows /\ crossed = FALSE
  BY DEF RelInit
<1>3. making \in 1..3 /\ tables \subseteq TableSet /\ report \in Triple \cup {NoRows}
  BY <1>2
<1>4. crossed \in BOOLEAN
  BY <1>2
<1>5. /\ \A s \in Syncs : sync[s].pc # "create"
      /\ \A i \in Inspections : look[i].pc # "create"
  BY <1>1
<1> QED  BY <1>3, <1>4, <1>5 DEF RestInv

LEMMA OneWriter ==
  ASSUME DataInv
  PROVE  Cardinality(writer) <= 1
<1>1. CASE writer = {}
  BY <1>1, FS_EmptySet
<1>2. CASE writer # {}
  <2>1. PICK s \in writer : writer = {s}
    BY <1>2 DEF DataInv
  <2>2. Cardinality({s}) = 1
    BY FS_Singleton
  <2> QED  BY <2>1, <2>2
<1> QED  BY <1>1, <1>2

-----------------------------------------------------------------------------
(* Whatever is committed is the work of one sync, whole, for any number of
   syncs that overlap, fail or are killed between any two of their steps. *)
THEOREM RelCommittedIsOneSync == RelSpec => []CommittedIsOneSync
<1>1. RelInit => SchemaInv /\ DataInv
  BY SchemaInit, DataInit
<1>2. SchemaInv /\ DataInv => CommittedIsOneSync
  BY DEF DataInv, CommittedIsOneSync
<1> QED  BY <1>1, <1>2, RelStep, PTL DEF RelSpec

(* No run ever uses a table that is not there, however many of them create
   the schema at the same time. *)
THEOREM RelStatementsFindTheirTables == RelSpec => []StatementsFindTheirTables
<1>1. RelInit => SchemaInv /\ DataInv
  BY SchemaInit, DataInit
<1>2. SchemaInv /\ DataInv => StatementsFindTheirTables
  BY DEF SchemaInv
<1> QED  BY <1>1, <1>2, RelStep, PTL DEF RelSpec

(* An inspection that no sync committed under tells of the tables as one sync
   left them, or of empty ones: any number of syncs and inspections at a time,
   though its five statements read outside a transaction. *)
THEOREM RelQuietInspections == RelSpec => []QuietInspectionIsWhole
<1>1. RelInit => SchemaInv /\ DataInv /\ LookInv /\ ReportInv
  BY SchemaInit, DataInit, LookInit
<1>2. LookInv => QuietInspectionIsWhole
  BY DEF LookInv
<1> QED  BY <1>1, <1>2, RelStep, TellStep, PTL DEF RelSpec

(* When no sync is about to write its summary, the one on disk tells of what
   the database holds; only two commits before either summary, or a sync that
   stops in between, can leave an older one. *)
THEOREM RelSummaries == RelSpec => []SummaryLagsOnlyByCrossing
<1>1. RelInit => SchemaInv /\ DataInv /\ LookInv /\ ReportInv
  BY SchemaInit, DataInit, LookInit
<1>2. ReportInv => SummaryLagsOnlyByCrossing
  BY DEF ReportInv
<1> QED  BY <1>1, <1>2, RelStep, TellStep, PTL DEF RelSpec

(* Everything keeps its type, and there is never more than one transaction. *)
THEOREM RelTyping == RelSpec => []RelTypeOK
<1>1. RelInit => SchemaInv /\ DataInv /\ RestInv
  BY SchemaInit, DataInit, RestInit
<1>2. SchemaInv /\ DataInv /\ RestInv => RelTypeOK
  BY OneWriter DEF SchemaInv, DataInv, RestInv, RelTypeOK
<1> QED  BY <1>1, <1>2, RelStep, RestStep, PTL DEF RelSpec
=============================================================================
