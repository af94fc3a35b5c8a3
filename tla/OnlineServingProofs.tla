------------------------- MODULE OnlineServingProofs -------------------------
(* What holds of the two sides of the online snapshot: of the file for any set
   of zones, commands and materialisations, whether commands overlap or not;
   and of the serving process that reads it, for any number of requests, zones
   and restarts, and any sequence of rewrites of the file. *)
EXTENDS OnlineSnapshot, PredictionApi, FiniteSetTheorems, TLAPS

-----------------------------------------------------------------------------
(* The snapshot file and its writers. *)

(* Once a command has rows it keeps rows of a materialisation; once it has
   opened the file, the file exists and someone has touched it. *)
SnapInv ==
  /\ SnapTypeOK
  /\ \A j \in Jobs :
       /\ job[j].pc \notin {"idle", "failed"} => job[j].rows \in Materialisable
       /\ job[j].pc = "truncated" => snapshot # Absent
  /\ snapshot # Absent => toucher \in Jobs

(* Starting a command keeps the commands well typed, gives it its rows, and
   leaves all the others where they are. *)
LEMMA BeginFacts ==
  ASSUME job \in [Jobs -> JobState], NEW j \in Jobs, NEW rows \in Materialisable,
         Begin(j, rows)
  PROVE  /\ job' \in [Jobs -> JobState]
         /\ job'[j].pc = "read" /\ job'[j].rows = rows
         /\ job'[j].live = job[j].live /\ job'[j].mixed = job[j].mixed
         /\ job'[j].crossed = \E k \in Jobs \ {j} : Active(k)
         /\ \A k \in Jobs \ {j} :
              /\ job'[k].pc = job[k].pc /\ job'[k].live = job[k].live
              /\ job'[k].rows = job[k].rows /\ job'[k].mixed = job[k].mixed
              /\ job'[k].crossed = (job[k].crossed \/ Active(k))
<1> DEFINE meets == \E k \in Jobs \ {j} : Active(k)
           first == [job[j] EXCEPT !.pc = "read", !.rows = rows, !.crossed = meets]
           other(k) == [job[k] EXCEPT !.crossed = TRUE]
<1>1. job' = [k \in Jobs |-> IF k = j THEN first ELSE IF Active(k) THEN other(k) ELSE job[k]]
  BY DEF Begin
<1>2. meets \in BOOLEAN
  OBVIOUS
<1>3. /\ first \in JobState
      /\ first.pc = "read" /\ first.rows = rows /\ first.crossed = meets
      /\ first.live = job[j].live /\ first.mixed = job[j].mixed
  <2> HIDE DEF meets
  <2> QED
    BY <1>2 DEF JobState, Steps
<1>4. ASSUME NEW k \in Jobs
      PROVE  /\ other(k) \in JobState
             /\ other(k).pc = job[k].pc /\ other(k).rows = job[k].rows /\ other(k).crossed
             /\ other(k).live = job[k].live /\ other(k).mixed = job[k].mixed
             /\ job[k].crossed \in BOOLEAN
  BY DEF JobState, Steps
<1> HIDE DEF first, other, meets
<1>5. job' \in [Jobs -> JobState]
  BY <1>1, <1>3, <1>4, Zenon
<1>6. job'[j] = first
  BY <1>1
<1>7. ASSUME NEW k \in Jobs \ {j}
      PROVE  job'[k] = IF Active(k) THEN other(k) ELSE job[k]
  BY <1>1
<1>8. ASSUME NEW k \in Jobs \ {j}
      PROVE  /\ job'[k].pc = job[k].pc /\ job'[k].live = job[k].live
             /\ job'[k].rows = job[k].rows /\ job'[k].mixed = job[k].mixed
             /\ job'[k].crossed = (job[k].crossed \/ Active(k))
  <2>1. CASE Active(k)
    BY <2>1, <1>4, <1>7
  <2>2. CASE ~Active(k)
    BY <2>2, <1>4, <1>7
  <2> QED
    BY <2>1, <2>2
<1> QED
  BY <1>3, <1>5, <1>6, <1>8 DEF meets

(* Before any command runs there are no rows and no file. *)
LEMMA SnapInvInit == SnapInit => SnapInv
BY SnapshotAssumption, JobAssumption
   DEF SnapInit, FileInit, SnapInv, SnapTypeOK, FileTypeOK, JobState, Steps

(* Every step of a command, and its death, keeps the invariant. *)
LEMMA SnapInvStep == SnapInv /\ [SnapNext]_snapVars => SnapInv'
<1> SUFFICES ASSUME SnapInv, [SnapNext]_snapVars
             PROVE  SnapInv'
  OBVIOUS
<1>0. ASSUME NEW j \in Jobs, NEW rows \in Materialisable, Begin(j, rows),
             UNCHANGED <<snapshot, manifest, toucher, putter>>
      PROVE  SnapInv'
  <2>1. job \in [Jobs -> JobState]
    BY DEF SnapInv, SnapTypeOK
  <2>2. job' \in [Jobs -> JobState]
    BY <1>0, <2>1, BeginFacts
  <2>3. /\ job'[j].pc = "read" /\ job'[j].rows = rows
        /\ \A k \in Jobs \ {j} : job'[k].pc = job[k].pc /\ job'[k].rows = job[k].rows
    BY <1>0, <2>1, BeginFacts
  <2>4. QED
    BY <1>0, <2>2, <2>3 DEF SnapInv, SnapTypeOK, FileTypeOK
<1> USE SnapshotAssumption, JobAssumption
    DEF SnapInv, SnapTypeOK, FileTypeOK, JobState, Steps, Readable
<1>1. ASSUME NEW j \in Jobs, StartMaterialise(j)
      PROVE  SnapInv'
  <2>1. PICK rows \in Materialisable : Begin(j, rows)
    BY <1>1 DEF StartMaterialise
  <2>2. UNCHANGED <<snapshot, manifest, toucher, putter>>
    BY <1>1 DEF StartMaterialise
  <2>3. QED
    BY <1>0, <2>1, <2>2
<1>2. ASSUME NEW j \in Jobs, StartSync(j)
      PROVE  SnapInv'
  <2>1. CASE Readable
    <3>1. Begin(j, snapshot) /\ UNCHANGED <<snapshot, manifest, toucher, putter>>
      BY <1>2, <2>1 DEF StartSync
    <3>2. QED
      BY <1>0, <2>1, <3>1
  <2>2. CASE ~Readable
    BY <1>2, <2>2 DEF StartSync, MayStart, Advance
  <2>3. QED
    BY <2>1, <2>2
<1>3. ASSUME NEW j \in Jobs, Truncate(j)
      PROVE  SnapInv'
  <2>1. job' \in [Jobs -> JobState]
    <3>1. PICK meets \in BOOLEAN :
            job' = [k \in Jobs |->
                      IF k = j THEN [job[j] EXCEPT !.pc = "truncated", !.mixed = meets]
                      ELSE IF Writing(k) THEN [job[k] EXCEPT !.mixed = TRUE]
                      ELSE job[k]]
      BY <1>3 DEF Truncate
    <3>2. [job[j] EXCEPT !.pc = "truncated", !.mixed = meets] \in JobState
      OBVIOUS
    <3>3. ASSUME NEW k \in Jobs
          PROVE  [job[k] EXCEPT !.mixed = TRUE] \in JobState
      <4>1. job[k] \in JobState
        OBVIOUS
      <4>2. QED
        BY <4>1
    <3>4. QED
      BY <3>1, <3>2, <3>3, Zenon
  <2>2. \A k \in Jobs : job'[k].rows = job[k].rows /\ (k # j => job'[k].pc = job[k].pc)
    BY <1>3 DEF Truncate
  <2>3. snapshot' = Torn /\ toucher' = j /\ UNCHANGED <<manifest, putter>>
    BY <1>3 DEF Truncate
  <2>4. job[j].pc = "read"
    BY <1>3 DEF Truncate
  <2>5. QED
    BY <2>1, <2>2, <2>3, <2>4
<1>4. ASSUME NEW j \in Jobs, Write(j)
      PROVE  SnapInv'
  BY <1>4 DEF Write, Writing, Advance
<1>5. ASSUME NEW j \in Jobs, ReadBack(j)
      PROVE  SnapInv'
  BY <1>5 DEF ReadBack, Advance
<1>6. ASSUME NEW j \in Jobs, WriteManifest(j)
      PROVE  SnapInv'
  <2>1. manifest' \in Nat
    <3>1. IsFiniteSet({z \in Zones : job[j].rows[z] # NoRow})
      BY FS_Subset
    <3>2. QED
      BY <1>6, <3>1, FS_CardinalityType DEF WriteManifest, RowCount
  <2>2. QED
    BY <1>6, <2>1 DEF WriteManifest, Advance
<1>7. ASSUME NEW j \in Jobs, ReadZoneIds(j)
      PROVE  SnapInv'
  BY <1>7 DEF ReadZoneIds, Advance
<1>8. ASSUME NEW j \in Jobs, Kill(j)
      PROVE  SnapInv'
  <2>1. job' = [job EXCEPT ![j] = [job[j] EXCEPT !.live = FALSE]]
    BY <1>8 DEF Kill
  <2>2. job[j] \in JobState
    OBVIOUS
  <2>3. [job[j] EXCEPT !.live = FALSE] \in JobState
    BY <2>2
  <2>4. UNCHANGED <<snapshot, manifest, toucher, putter>>
    BY <1>8 DEF Kill
  <2>5. QED
    BY <2>1, <2>3, <2>4
<1>9. CASE UNCHANGED snapVars
  BY <1>9 DEF snapVars
<1>10. QED
  BY <1>1, <1>2, <1>3, <1>4, <1>5, <1>6, <1>7, <1>8, <1>9 DEF SnapNext, JobStep

(* SnapTypeOK: the state of the commands and of their files is well typed. *)
THEOREM SnapTyping == SnapSpec => []SnapTypeOK
<1>1. SnapInv => SnapTypeOK
  BY DEF SnapInv
<1>2. QED
  BY SnapInvInit, SnapInvStep, <1>1, PTL DEF SnapSpec

(* ImplementsFile: every step of a command changes the snapshot the way
   SnapshotFile allows, or not at all. *)
THEOREM SnapshotRefinement == SnapSpec => ImplementsFile
<1>1. SnapInit => FileInit
  BY DEF SnapInit
<1>2. SnapInv /\ [SnapNext]_snapVars => [FileNext]_snapshot
  <2> SUFFICES ASSUME SnapInv, [SnapNext]_snapVars, snapshot' # snapshot
               PROVE  FileNext
    BY DEF FileNext
  <2>1. PICK j \in Jobs : Truncate(j) \/ Write(j)
    BY DEF SnapNext, JobStep, StartMaterialise, StartSync, ReadBack, WriteManifest,
           ReadZoneIds, Kill, snapVars
  <2>2. CASE Truncate(j)
    BY <2>2 DEF Truncate, FileNext, Tear
  <2>3. CASE Write(j)
    BY <2>3 DEF Write, Writing, SnapInv, FileNext, Tear, Put
  <2>4. QED
    BY <2>1, <2>2, <2>3
<1>3. QED
  BY <1>1, <1>2, SnapInvInit, SnapInvStep, PTL DEF SnapSpec, ImplementsFile, FileSpec

(* A torn snapshot stays the fault of the last command that touched it. *)
LEMMA TornHasCauseStep ==
  SnapInv /\ TornHasCause /\ [SnapNext]_snapVars => TornHasCause'
<1> SUFFICES ASSUME SnapInv, TornHasCause, [SnapNext]_snapVars, snapshot' = Torn
             PROVE  job'[toucher'].pc = "truncated" \/ job'[toucher'].mixed
  BY DEF TornHasCause
<1> USE SnapshotAssumption DEF SnapInv, SnapTypeOK, FileTypeOK, JobState, Steps
<1>1. ASSUME NEW j \in Jobs, Truncate(j)
      PROVE  job'[toucher'].pc = "truncated"
  BY <1>1 DEF Truncate
<1>2. ASSUME NEW j \in Jobs, Write(j)
      PROVE  job'[toucher'].mixed
  BY <1>2 DEF Write, Writing, Advance
<1>3. ASSUME UNCHANGED <<snapshot, toucher>>,
             job[toucher].pc = "truncated" => job'[toucher].pc = "truncated",
             job[toucher].mixed => job'[toucher].mixed
      PROVE  job'[toucher'].pc = "truncated" \/ job'[toucher'].mixed
  BY <1>3 DEF TornHasCause
<1>4. ASSUME NEW j \in Jobs, StartMaterialise(j) \/ StartSync(j)
      PROVE  job'[toucher'].pc = "truncated" \/ job'[toucher'].mixed
  <2>1. UNCHANGED <<snapshot, toucher>> /\ job[j].pc = "idle"
    BY <1>4 DEF StartMaterialise, StartSync, MayStart
  <2>2. toucher \in Jobs
    BY <2>1
  <2>3. CASE Advance(j, "failed")
    BY <1>3, <2>1, <2>2, <2>3 DEF Advance
  <2>4. ASSUME NEW rows \in Materialisable, Begin(j, rows)
        PROVE  job'[toucher'].pc = "truncated" \/ job'[toucher'].mixed
    BY <1>3, <2>1, <2>2, <2>4, BeginFacts
  <2>5. QED
    BY <1>4, <2>3, <2>4 DEF StartMaterialise, StartSync, Readable
<1>5. ASSUME NEW j \in Jobs, ReadBack(j) \/ WriteManifest(j) \/ ReadZoneIds(j) \/ Kill(j)
      PROVE  job'[toucher'].pc = "truncated" \/ job'[toucher'].mixed
  BY <1>3, <1>5 DEF ReadBack, WriteManifest, ReadZoneIds, Kill, Advance
<1>6. CASE UNCHANGED snapVars
  BY <1>3, <1>6 DEF snapVars
<1>7. QED
  BY <1>1, <1>2, <1>4, <1>5, <1>6 DEF SnapNext, JobStep

(* TornHasCause: an unreadable snapshot is the doing of the last command that
   touched it, overlapping or not. *)
THEOREM TornIsExplained == SnapSpec => []TornHasCause
<1>1. SnapInit => TornHasCause
  BY SnapshotAssumption DEF SnapInit, FileInit, TornHasCause
<1>2. QED
  BY <1>1, SnapInvInit, SnapInvStep, TornHasCauseStep, PTL DEF SnapSpec

-----------------------------------------------------------------------------
(* Why the file is what the last materialize wrote.  A command that has met no
   other is alone as long as it is under way.  So when such a materialize has
   written, the file is torn or its rows; every sync that has read the file
   since holds those rows; and no other materialize stands between its own
   write and its manifest. *)
Holds(j) == Active(j) /\ job[j].pc \in {"read", "truncated"}
Checks(j) == Active(j) /\ job[j].pc \in {"written", "checked"}

UncrossedIsAlone ==
  \A j \in Jobs : Active(j) /\ ~job[j].crossed => \A k \in Jobs \ {j} : ~Active(k)

ServedInv ==
  /\ UncrossedIsAlone
  /\ putter = Absent =>
       /\ ~Readable
       /\ \A s \in Syncers : ~Active(s)
       /\ \A m \in Materialisers : ~Checks(m) /\ job[m].pc # "done"
  /\ putter # Absent => job[putter].pc \notin {"idle", "read", "truncated"}
  /\ putter # Absent /\ ~job[putter].crossed =>
       /\ snapshot \in {Torn, job[putter].rows}
       /\ \A s \in Syncers : Holds(s) => job[s].rows = job[putter].rows
       /\ \A m \in Materialisers \ {putter} : ~Checks(m)
       /\ job[putter].pc = "done" => manifest = RowCount(job[putter].rows)

(* Nobody has written, nobody is under way. *)
LEMMA ServedInit == SnapInit => ServedInv
<1> SUFFICES ASSUME SnapInit
             PROVE  ServedInv
  OBVIOUS
<1>1. \A j \in Jobs : ~Active(j) /\ job[j].pc = "idle"
  BY DEF SnapInit, Active
<1>2. ~Readable
  BY SnapshotAssumption DEF SnapInit, FileInit, Readable
<1>3. QED
  BY <1>1, <1>2 DEF SnapInit, ServedInv, UncrossedIsAlone, Checks, Jobs

(* A command that begins is crossed by those under way, and crosses them. *)
LEMMA AloneBegin ==
  ASSUME SnapInv, UncrossedIsAlone, NEW j \in Jobs, NEW rows \in Materialisable,
         job[j].pc = "idle", Begin(j, rows)
  PROVE  UncrossedIsAlone'
<1>1. job \in [Jobs -> JobState]
  BY DEF SnapInv, SnapTypeOK
<1>2. job'[j].crossed = \E k \in Jobs \ {j} : Active(k)
  BY <1>1, BeginFacts
<1>3. ASSUME NEW k \in Jobs \ {j}
      PROVE  /\ Active(k)' = Active(k)
             /\ job'[k].crossed = (job[k].crossed \/ Active(k))
  BY <1>1, BeginFacts DEF Active
<1>4. SUFFICES ASSUME NEW i \in Jobs, Active(i)', ~job'[i].crossed, NEW k \in Jobs \ {i}
               PROVE  ~Active(k)'
  BY DEF UncrossedIsAlone
<1>5. CASE i = j
  BY <1>2, <1>3, <1>4, <1>5
<1>6. CASE i # j
  BY <1>3, <1>4, <1>6
<1>7. QED
  BY <1>5, <1>6

(* A step of a command under way, or one that ends, starts no other. *)
LEMMA AloneOther ==
  ASSUME UncrossedIsAlone,
         \A k \in Jobs : Active(k)' => Active(k),
         \A k \in Jobs : job'[k].crossed = job[k].crossed
  PROVE  UncrossedIsAlone'
BY DEF UncrossedIsAlone

(* A command begins: it writes nothing, and a sync begins with the rows that
   are in the file. *)
LEMMA ServedBegin ==
  ASSUME SnapInv, ServedInv, NEW j \in Jobs, NEW rows \in Materialisable,
         job[j].pc = "idle", j \in Syncers => rows = snapshot,
         Begin(j, rows), UNCHANGED <<snapshot, manifest, toucher, putter>>
  PROVE  ServedInv'
<1>1. job \in [Jobs -> JobState] /\ putter \in Materialisers \cup {Absent}
  BY DEF SnapInv, SnapTypeOK
<1>2. UncrossedIsAlone'
  BY AloneBegin DEF ServedInv
<1>3. job'[j].pc = "read" /\ job'[j].rows = rows
  BY <1>1, BeginFacts
<1>4. ASSUME NEW k \in Jobs \ {j}
      PROVE  /\ job'[k].pc = job[k].pc /\ job'[k].rows = job[k].rows
             /\ job'[k].live = job[k].live
             /\ job[k].crossed => job'[k].crossed
  BY <1>1, BeginFacts
<1>5. Materialisers \subseteq Jobs /\ Syncers \subseteq Jobs /\ Readable' = Readable
  BY DEF Jobs, Readable
<1>6. j \in Syncers => Readable
  BY DEF Readable
<1>7. CASE putter = Absent
  BY <1>2, <1>3, <1>4, <1>5, <1>6, <1>7 DEF ServedInv, Active, Checks
<1>8. CASE putter # Absent
  <2>1. putter \in Jobs \ {j}
    BY <1>1, <1>5, <1>8 DEF ServedInv
  <2>2. job'[putter].pc \notin {"idle", "read", "truncated"}
    BY <1>4, <1>8, <2>1 DEF ServedInv
  <2>3. CASE job'[putter].crossed
    BY <1>2, <1>8, <2>2, <2>3 DEF ServedInv
  <2>4. CASE ~job'[putter].crossed
    <3>1. ~job[putter].crossed
      BY <1>4, <2>1, <2>4
    <3>2. job'[putter].rows = job[putter].rows /\ job'[putter].pc = job[putter].pc
      BY <1>4, <2>1
    <3>3. snapshot \in {Torn, job[putter].rows}
      BY <1>8, <3>1 DEF ServedInv
    <3>4. ASSUME NEW s \in Syncers, Holds(s)'
          PROVE  job'[s].rows = job[putter].rows
      <4>1. CASE s = j
        BY <1>3, <1>6, <3>3, <4>1, SnapshotAssumption DEF Readable
      <4>2. CASE s # j
        BY <1>4, <1>5, <1>8, <3>1, <3>4, <4>2 DEF ServedInv, Holds, Active
      <4>3. QED
        BY <4>1, <4>2
    <3>5. ASSUME NEW m \in Materialisers \ {putter}
          PROVE  ~Checks(m)'
      <4>1. CASE m = j
        BY <1>3, <4>1 DEF Checks
      <4>2. CASE m # j
        BY <1>4, <1>5, <1>8, <3>1, <4>2 DEF ServedInv, Checks, Active
      <4>3. QED
        BY <4>1, <4>2
    <3>6. job'[putter].pc = "done" => manifest' = RowCount(job'[putter].rows)
      BY <1>8, <3>1, <3>2 DEF ServedInv
    <3>7. QED
      BY <1>2, <1>8, <2>2, <3>2, <3>3, <3>4, <3>5, <3>6 DEF ServedInv
  <2>5. QED
    BY <2>3, <2>4
<1>9. QED
  BY <1>7, <1>8

(* What every step of a command that is under way leaves alone. *)
LEMMA StepFacts ==
  ASSUME SnapInv, NEW j \in Jobs, JobStep(j) \/ Kill(j)
  PROVE  /\ Active(j)
         /\ \A k \in Jobs : /\ job'[k].rows = job[k].rows
                            /\ job'[k].crossed = job[k].crossed
                            /\ Active(k)' => Active(k)
         /\ \A k \in Jobs \ {j} : job'[k].pc = job[k].pc
<1>1. job \in [Jobs -> JobState]
  BY DEF SnapInv, SnapTypeOK
<1>2. CASE Truncate(j)
  BY <1>1, <1>2 DEF Truncate, JobState, Active
<1>3. CASE Write(j)
  BY <1>1, <1>3 DEF Write, Writing, JobState, Active, Advance
<1>4. CASE ReadBack(j)
  BY <1>1, <1>4 DEF ReadBack, JobState, Active, Advance
<1>5. CASE WriteManifest(j)
  BY <1>1, <1>5 DEF WriteManifest, JobState, Active, Advance
<1>6. CASE ReadZoneIds(j)
  BY <1>1, <1>6 DEF ReadZoneIds, JobState, Active, Advance
<1>7. CASE Kill(j)
  BY <1>1, <1>7 DEF Kill, JobState, Active
<1>8. QED
  BY <1>2, <1>3, <1>4, <1>5, <1>6, <1>7 DEF JobStep

(* Every step keeps the reasons above. *)
LEMMA ServedStep == SnapInv /\ ServedInv /\ [SnapNext]_snapVars => ServedInv'
<1> SUFFICES ASSUME SnapInv, ServedInv, [SnapNext]_snapVars
             PROVE  ServedInv'
  OBVIOUS
<1>a. job \in [Jobs -> JobState] /\ putter \in Materialisers \cup {Absent}
  BY DEF SnapInv, SnapTypeOK
<1>b. /\ Materialisers \subseteq Jobs /\ Syncers \subseteq Jobs
      /\ Materialisers \cap Syncers = {} /\ Absent \notin Jobs
  BY JobAssumption DEF Jobs
<1>c. Torn \notin Materialisable
  BY SnapshotAssumption
<1>d. ASSUME NEW j \in Jobs, JobStep(j) \/ Kill(j)
      PROVE  UncrossedIsAlone'
  <2>1. \A k \in Jobs : /\ job'[k].rows = job[k].rows
                        /\ job'[k].crossed = job[k].crossed
                        /\ Active(k)' => Active(k)
    BY <1>d, StepFacts
  <2>2. /\ \A k \in Jobs : Active(k)' => Active(k)
        /\ \A k \in Jobs : job'[k].crossed = job[k].crossed
    BY <2>1
  <2>3. QED
    BY <2>2, AloneOther DEF ServedInv
<1>1. ASSUME NEW j \in Jobs, StartMaterialise(j)
      PROVE  ServedInv'
  <2>1. PICK rows \in Materialisable : Begin(j, rows)
    BY <1>1 DEF StartMaterialise
  <2>2. job[j].pc = "idle" /\ j \notin Syncers /\ UNCHANGED <<snapshot, manifest, toucher, putter>>
    BY <1>1, <1>b DEF StartMaterialise, MayStart
  <2>3. QED
    BY <2>1, <2>2, ServedBegin
<1>2. ASSUME NEW j \in Jobs, StartSync(j)
      PROVE  ServedInv'
  <2>1. job[j].pc = "idle" /\ j \in Syncers /\ UNCHANGED <<snapshot, manifest, toucher, putter>>
    BY <1>2 DEF StartSync, MayStart
  <2>2. CASE Readable
    <3>1. Begin(j, snapshot) /\ snapshot \in Materialisable
      BY <1>2, <2>2 DEF StartSync, Readable
    <3>2. QED
      BY <2>1, <3>1, ServedBegin
  <2>3. CASE ~Readable
    <3>1. Advance(j, "failed")
      BY <1>2, <2>3 DEF StartSync
    <3>2. \A k \in Jobs : /\ job'[k].rows = job[k].rows
                          /\ job'[k].crossed = job[k].crossed
                          /\ Active(k)' => Active(k)
      BY <1>a, <3>1 DEF Advance, Active, JobState
    <3>3. (\A k \in Jobs \ {j} : job'[k].pc = job[k].pc) /\ job'[j].pc = "failed"
      BY <1>a, <3>1 DEF Advance, JobState
    <3>4. UncrossedIsAlone'
      BY <3>2, AloneOther DEF ServedInv
    <3>5. QED
      BY <1>a, <1>b, <2>1, <3>2, <3>3, <3>4 DEF ServedInv, Readable, Holds, Checks
  <2>4. QED
    BY <2>2, <2>3
<1>3. ASSUME NEW j \in Jobs, Truncate(j)
      PROVE  ServedInv'
  <2>1. /\ Active(j)
        /\ \A k \in Jobs : /\ job'[k].rows = job[k].rows
                           /\ job'[k].crossed = job[k].crossed
                           /\ Active(k)' => Active(k)
        /\ \A k \in Jobs \ {j} : job'[k].pc = job[k].pc
    BY <1>3, StepFacts DEF JobStep
  <2>2. /\ snapshot' = Torn /\ UNCHANGED <<manifest, putter>>
        /\ job[j].pc = "read" /\ job'[j].pc = "truncated"
    BY <1>3, <1>a DEF Truncate, JobState
  <2>3. UncrossedIsAlone'
    BY <1>3, <1>d DEF JobStep
  <2>4. ~Readable'
    BY <1>c, <2>2 DEF Readable
  <2>5. (\A s \in Syncers : Holds(s)' => Holds(s)) /\ \A m \in Materialisers : Checks(m)' => Checks(m)
    <3>1. ASSUME NEW k \in Jobs
          PROVE  (Holds(k)' => Holds(k)) /\ (Checks(k)' => Checks(k))
      BY <2>1, <2>2 DEF Holds, Checks
    <3>2. QED
      BY <1>b, <3>1
  <2>6. CASE putter = Absent
    BY <1>b, <2>1, <2>2, <2>3, <2>4, <2>5, <2>6 DEF ServedInv
  <2>7. CASE putter # Absent
    <3>1. putter \in Jobs \ {j} /\ job'[putter].pc = job[putter].pc
      BY <1>a, <1>b, <2>1, <2>2, <2>7 DEF ServedInv
    <3>2. QED
      BY <1>a, <1>b, <2>1, <2>2, <2>3, <2>5, <2>7, <3>1 DEF ServedInv
  <2>8. QED
    BY <2>6, <2>7
<1>4. ASSUME NEW j \in Jobs, Write(j)
      PROVE  ServedInv'
  <2>1. /\ Active(j)
        /\ \A k \in Jobs : /\ job'[k].rows = job[k].rows
                           /\ job'[k].crossed = job[k].crossed
                           /\ Active(k)' => Active(k)
        /\ \A k \in Jobs \ {j} : job'[k].pc = job[k].pc
    BY <1>4, StepFacts DEF JobStep
  <2>2. /\ snapshot' \in {Torn, job[j].rows} /\ UNCHANGED manifest
        /\ job[j].pc = "truncated" /\ job'[j].pc = "written"
        /\ putter' = IF j \in Materialisers THEN j ELSE putter
    BY <1>4, <1>a DEF Write, Writing, Advance, JobState
  <2>3. UncrossedIsAlone'
    BY <1>4, <1>d DEF JobStep
  <2>4. CASE j \in Materialisers
    <3>1. putter' = j /\ putter' # Absent
      BY <1>b, <2>2, <2>4
    <3>2. ~job[j].crossed => \A k \in Jobs \ {j} : ~Active(k)'
      <4>1. ~job[j].crossed => \A k \in Jobs \ {j} : ~Active(k)
        BY <2>1 DEF ServedInv, UncrossedIsAlone
      <4>2. QED
        BY <2>1, <4>1
    <3>3. (\A s \in Syncers : s \in Jobs \ {j}) /\ \A m \in Materialisers \ {j} : m \in Jobs \ {j}
      BY <1>b, <2>4
    <3>4. ~job[j].crossed =>
            /\ \A s \in Syncers : ~Holds(s)'
            /\ \A m \in Materialisers \ {j} : ~Checks(m)'
      BY <3>2, <3>3 DEF Holds, Checks
    <3>5. job'[j].rows = job[j].rows /\ job'[j].crossed = job[j].crossed
      BY <2>1
    <3>6. QED
      BY <2>2, <2>3, <3>1, <3>4, <3>5 DEF ServedInv
  <2>5. CASE j \in Syncers
    <3>1. putter' = putter /\ putter # Absent /\ putter # j
      BY <1>a, <1>b, <2>1, <2>2, <2>5 DEF ServedInv
    <3>2. ~job[putter].crossed => job[j].rows = job[putter].rows
      BY <2>1, <2>2, <2>5, <3>1 DEF ServedInv, Holds
    <3>3. putter \in Jobs /\ job'[putter].pc = job[putter].pc
      BY <1>a, <1>b, <2>1, <3>1
    <3>4. (\A s \in Syncers : Holds(s)' => Holds(s)) /\ \A m \in Materialisers : Checks(m)' => Checks(m)
      <4>1. ASSUME NEW k \in Jobs
            PROVE  Holds(k)' => Holds(k)
        BY <2>1, <2>2 DEF Holds
      <4>2. ASSUME NEW m \in Materialisers
            PROVE  Checks(m)' => Checks(m)
        BY <1>b, <2>1, <2>5 DEF Checks
      <4>3. QED
        BY <1>b, <4>1, <4>2
    <3>5. QED
      BY <1>a, <1>b, <2>1, <2>2, <2>3, <3>1, <3>2, <3>3, <3>4 DEF ServedInv
  <2>6. QED
    BY <2>4, <2>5 DEF Jobs
<1>5. ASSUME NEW j \in Jobs, ReadBack(j) \/ ReadZoneIds(j) \/ Kill(j)
      PROVE  ServedInv'
  <2>1. /\ Active(j)
        /\ \A k \in Jobs : /\ job'[k].rows = job[k].rows
                           /\ job'[k].crossed = job[k].crossed
                           /\ Active(k)' => Active(k)
        /\ \A k \in Jobs \ {j} : job'[k].pc = job[k].pc
    BY <1>5, StepFacts DEF JobStep
  <2>2. /\ UNCHANGED <<snapshot, manifest, putter>>
        /\ job[j].pc \in {"written", "checked"} \/ job'[j].pc = job[j].pc
        /\ job'[j].pc \in {"checked", "failed", "done"} \/ job'[j].pc = job[j].pc
        /\ j \in Materialisers => job'[j].pc # "done"
    BY <1>5, <1>a, <1>b, <2>1 DEF ReadBack, ReadZoneIds, Kill, Advance, JobState, Active
  <2>3. UncrossedIsAlone'
    BY <1>5, <1>d DEF JobStep
  <2>4. (\A s \in Syncers : Holds(s)' => Holds(s)) /\ \A m \in Materialisers : Checks(m)' => Checks(m)
    <3>1. ASSUME NEW k \in Jobs
          PROVE  (Holds(k)' => Holds(k)) /\ (Checks(k)' => Checks(k))
      BY <2>1, <2>2 DEF Holds, Checks
    <3>2. QED
      BY <1>b, <3>1
  <2>5. Readable' = Readable
    BY <2>2 DEF Readable
  <2>6. CASE putter = Absent
    <3>1. \A m \in Materialisers : job'[m].pc = "done" => job[m].pc = "done"
      BY <1>b, <2>1, <2>2
    <3>2. QED
      BY <1>b, <2>1, <2>2, <2>3, <2>4, <2>5, <2>6, <3>1 DEF ServedInv
  <2>7. CASE putter # Absent
    <3>1. /\ job'[putter].pc \notin {"idle", "read", "truncated"}
          /\ job'[putter].pc = "done" => job[putter].pc = "done"
      BY <1>a, <1>b, <2>1, <2>2, <2>7 DEF ServedInv
    <3>2. QED
      BY <1>a, <1>b, <2>1, <2>2, <2>3, <2>4, <2>5, <2>7, <3>1 DEF ServedInv
  <2>8. QED
    BY <2>6, <2>7
<1>6. ASSUME NEW j \in Jobs, WriteManifest(j)
      PROVE  ServedInv'
  <2>1. /\ Active(j)
        /\ \A k \in Jobs : /\ job'[k].rows = job[k].rows
                           /\ job'[k].crossed = job[k].crossed
                           /\ Active(k)' => Active(k)
        /\ \A k \in Jobs \ {j} : job'[k].pc = job[k].pc
    BY <1>6, StepFacts DEF JobStep
  <2>2. /\ j \in Materialisers /\ UNCHANGED <<snapshot, putter>>
        /\ job[j].pc = "checked" /\ job'[j].pc = "done"
        /\ manifest' = RowCount(job[j].rows)
    BY <1>6, <1>a DEF WriteManifest, Advance, JobState
  <2>3. UncrossedIsAlone'
    BY <1>6, <1>d DEF JobStep
  <2>4. Checks(j)
    BY <2>1, <2>2 DEF Checks
  <2>5. putter # Absent /\ (~job[putter].crossed => putter = j)
    BY <2>2, <2>4 DEF ServedInv
  <2>6. (\A s \in Syncers : Holds(s)' => Holds(s)) /\ \A m \in Materialisers : Checks(m)' => Checks(m)
    <3>1. ASSUME NEW k \in Jobs
          PROVE  (Holds(k)' => Holds(k)) /\ (Checks(k)' => Checks(k))
      BY <2>1, <2>2 DEF Holds, Checks
    <3>2. QED
      BY <1>b, <3>1
  <2>7. job'[putter].pc \notin {"idle", "read", "truncated"}
    BY <1>a, <1>b, <2>1, <2>2, <2>5 DEF ServedInv
  <2>8. CASE job[putter].crossed
    BY <1>a, <1>b, <2>1, <2>2, <2>3, <2>5, <2>7, <2>8 DEF ServedInv
  <2>9. CASE ~job[putter].crossed
    <3>1. putter = j
      BY <2>5, <2>9
    <3>2. QED
      BY <1>a, <1>b, <2>1, <2>2, <2>3, <2>5, <2>6, <2>7, <2>9, <3>1 DEF ServedInv
  <2>10. QED
    BY <2>8, <2>9
<1>7. CASE UNCHANGED snapVars
  BY <1>7 DEF snapVars, ServedInv, UncrossedIsAlone, Active, Holds, Checks, Readable
<1>8. QED
  BY <1>1, <1>2, <1>3, <1>4, <1>5, <1>6, <1>7 DEF SnapNext, JobStep

(* LastMaterialisedIsServed: through any overlap, the readable content is what
   the last materialize to write the file wrote, if nothing ran beside it. *)
THEOREM ServedIsTheLast == SnapSpec => []LastMaterialisedIsServed
<1>1. SnapInv /\ ServedInv => LastMaterialisedIsServed
  <2>1. Torn \notin Materialisable
    BY SnapshotAssumption
  <2>2. QED
    BY <2>1 DEF ServedInv, LastMaterialisedIsServed, Readable
<1>2. QED
  BY <1>1, SnapInvInit, SnapInvStep, ServedInit, ServedStep, PTL DEF SnapSpec

(* ManifestMatchesSnapshot: the manifest counts the rows on disk. *)
THEOREM ManifestIsTheLast == SnapSpec => []ManifestMatchesSnapshot
<1>1. SnapInv /\ ServedInv => ManifestMatchesSnapshot
  <2>1. Torn \notin Materialisable
    BY SnapshotAssumption
  <2>2. QED
    BY <2>1 DEF ServedInv, ManifestMatchesSnapshot, Readable
<1>2. QED
  BY <1>1, SnapInvInit, SnapInvStep, ServedInit, ServedStep, PTL DEF SnapSpec

-----------------------------------------------------------------------------
(* The serving process. *)

(* A request that is about to log knows what to log. *)
LoggingHasOutcome ==
  \A r \in Requests : req[r].phase = "logging" => req[r].outcome \in Outcomes

ApiTyped == FileTypeOK /\ ApiTypeOK /\ LoggingHasOutcome

(* The updates the actions make to a request keep its type. *)
LEMMA IdUpdate ==
  ASSUME NEW x \in RequestState, NEW n \in Nat
  PROVE  /\ [x EXCEPT !.id = n] \in RequestState
BY DEF RequestState

LEMMA PhaseUpdate ==
  ASSUME NEW x \in RequestState, NEW p \in Phases
  PROVE  /\ [x EXCEPT !.phase = p] \in RequestState
         /\ [x EXCEPT !.phase = p].phase = p
BY DEF RequestState

LEMMA LifeUpdate ==
  ASSUME NEW x \in RequestState, NEW p \in Phases, NEW n \in Nat
  PROVE  /\ [x EXCEPT !.phase = p, !.life = n] \in RequestState
         /\ [x EXCEPT !.phase = p, !.life = n].phase = p
BY DEF RequestState

LEMMA OutcomeUpdate ==
  ASSUME NEW x \in RequestState, NEW p \in Phases, NEW o \in Outcomes
  PROVE  /\ [x EXCEPT !.phase = p, !.outcome = o] \in RequestState
         /\ [x EXCEPT !.phase = p, !.outcome = o].outcome = o
BY DEF RequestState

LEMMA ServedUpdate ==
  ASSUME NEW x \in RequestState, NEW p \in Phases, NEW o \in Outcomes,
         NEW v \in Ages \cup {NoRow}
  PROVE  /\ [x EXCEPT !.phase = p, !.outcome = o, !.served = v] \in RequestState
         /\ [x EXCEPT !.phase = p, !.outcome = o, !.served = v].outcome = o
BY DEF RequestState

LEMMA StatusUpdate ==
  ASSUME NEW x \in RequestState, NEW p \in Phases, NEW s \in Statuses
  PROVE  /\ [x EXCEPT !.phase = p, !.status = s] \in RequestState
         /\ [x EXCEPT !.phase = p, !.status = s].phase = p
BY DEF RequestState

LEMMA RaisedUpdate ==
  ASSUME NEW x \in RequestState, NEW p \in Phases, NEW s \in Statuses
  PROVE  /\ [x EXCEPT !.phase = p, !.status = s, !.outcome = "raised"] \in RequestState
         /\ [x EXCEPT !.phase = p, !.status = s, !.outcome = "raised"].phase = p
BY DEF RequestState

LEMMA RefusedUpdate ==
  ASSUME NEW x \in RequestState, NEW p \in Phases, NEW s \in Statuses, NEW n \in Nat
  PROVE  /\ [x EXCEPT !.phase = p, !.status = s, !.life = n] \in RequestState
         /\ [x EXCEPT !.phase = p, !.status = s, !.life = n].phase = p
BY DEF RequestState

(* What those updates do to the id. *)
LEMMA IdOf ==
  ASSUME NEW x \in RequestState, NEW n \in Nat, NEW p
  PROVE  /\ [x EXCEPT !.id = n].id = n
         /\ [x EXCEPT !.phase = p].id = x.id
BY DEF RequestState

(* The constants that occur in the actions are phases, statuses, outcomes. *)
LEMMA PhaseNames ==
  /\ "new" \in Phases /\ "sent" \in Phases /\ "reading" \in Phases
  /\ "health" \in Phases /\ "logging" \in Phases /\ "handled" \in Phases
  /\ "done" \in Phases /\ "rejected" \in Phases /\ "lost" \in Phases
BY DEF Phases

LEMMA StatusNumbers ==
  /\ 0 \in Statuses /\ 200 \in Statuses /\ 400 \in Statuses
  /\ 401 \in Statuses /\ 403 \in Statuses /\ 404 \in Statuses
  /\ 409 \in Statuses /\ 413 \in Statuses /\ 422 \in Statuses
  /\ 500 \in Statuses /\ 503 \in Statuses
BY DEF Statuses

LEMMA OutcomeNames ==
  /\ "none" \in Outcomes /\ "not_ready" \in Outcomes /\ "unknown_zone" \in Outcomes
  /\ "feature_error" \in Outcomes /\ "serving_error" \in Outcomes /\ "stale_feature" \in Outcomes
BY DEF Outcomes

LEMMA StatusOfType == \A o \in Outcomes : StatusOf[o] \in Statuses
BY DEF Statuses, StatusOf, Outcomes

(* What an endpoint function returns or raises is a well-typed request. *)
LEMMA ReturnTypes ==
  ASSUME NEW r \in Requests, req[r] \in RequestState
  PROVE  \A status \in Statuses :
           Return(r, status) \in RequestState /\ Return(r, status).phase = "handled"
BY StatusUpdate, PhaseNames DEF Return

LEMMA RaiseType ==
  ASSUME NEW x \in RequestState
  PROVE  LET raised == [x EXCEPT !.phase = "handled", !.status = 500, !.outcome = "raised"]
         IN  raised \in RequestState /\ raised.phase = "handled"
<1>1. PICK s \in Statuses : s = 500
  BY StatusNumbers
<1>2. [x EXCEPT !.phase = "handled", !.status = s, !.outcome = "raised"] \in RequestState
  BY RaisedUpdate, PhaseNames
<1>3. [x EXCEPT !.phase = "handled", !.status = s, !.outcome = "raised"].phase = "handled"
  BY RaisedUpdate, PhaseNames
<1>4. QED
  BY <1>1, <1>2, <1>3, Zenon

(* A row read from the file is a row of its zone, or none. *)
LEMMA RowType ==
  ASSUME NEW zone \in Zones
  PROVE  RowOf(zone) \in Ages \cup {NoRow}
BY SnapshotAssumption DEF RowOf, Readable, RowSets

(* The state is well typed before the first start. *)
LEMMA TypeInit == Init => ApiTyped
<1> SUFFICES ASSUME Init
             PROVE  ApiTyped
  OBVIOUS
<1>1. \A k \in Kinds, z \in Zones :
        NewRequest(k, z) \in RequestState /\ NewRequest(k, z).phase = "new"
  <2>1. 0 \in Statuses /\ "new" \in Phases /\ << >> \in Seq(BOOLEAN)
    BY StatusNumbers, PhaseNames
  <2>2. QED
    BY <2>1 DEF NewRequest, RequestState
<1>2. \A r \in Requests : req[r] \in RequestState /\ req[r].phase = "new"
  BY <1>1 DEF Init, ApiInit
<1>3. req \in [Requests -> RequestState]
  BY <1>1 DEF Init, ApiInit
<1>4. context \in [model : BOOLEAN, store : BOOLEAN, errors : BOOLEAN]
  BY DEF Init, ApiInit
<1>5. metrics \in [requests : Nat, predictions : Nat, errors : Nat] /\ log \in Seq(LogRow)
  BY DEF Init, ApiInit, ZeroMetrics
<1>6. LoggingHasOutcome
  BY <1>2 DEF LoggingHasOutcome
<1>7. snapshot = Absent /\ up = FALSE /\ life = 0 /\ counter = 0 /\ busy = Nobody
  BY DEF Init, FileInit, ApiInit
<1>8. QED
  BY <1>3, <1>4, <1>5, <1>6, <1>7 DEF ApiTyped, FileTypeOK, ApiTypeOK

(* One step per action; each rewrites one request at most, and Crash all. *)
LEMMA TypeStep == ApiTyped /\ [Next]_vars => ApiTyped'
<1> SUFFICES ASSUME ApiTyped, [Next]_vars
             PROVE  ApiTyped'
  OBVIOUS
<1>a. ApiTypeOK /\ FileTypeOK /\ LoggingHasOutcome
  BY DEF ApiTyped
<1>b. \A r \in Requests : req[r] \in RequestState
  BY <1>a DEF ApiTypeOK
<1>c. ASSUME NEW r \in Requests, NEW x \in RequestState, req' = [req EXCEPT ![r] = x],
             x.phase = "logging" => x.outcome \in Outcomes
      PROVE  req' \in [Requests -> RequestState] /\ LoggingHasOutcome'
  BY <1>a, <1>c DEF ApiTypeOK, LoggingHasOutcome
<1>d. ASSUME NEW r \in Requests, NEW x \in RequestState, req' = [req EXCEPT ![r] = x],
             x.phase = "logging" => x.outcome \in Outcomes,
             metrics' \in [requests : Nat, predictions : Nat, errors : Nat],
             counter' \in Nat, log' \in Seq(LogRow), busy' \in Requests \cup {Nobody},
             UNCHANGED <<snapshot, up, life, context>>
      PROVE  ApiTyped'
  BY <1>a, <1>c, <1>d DEF ApiTyped, ApiTypeOK, FileTypeOK
<1>1. CASE Start
  <2>1. UNCHANGED <<snapshot, log, req, busy>>
    BY <1>1 DEF Start
  <2>2. context' \in [model : BOOLEAN, store : BOOLEAN, errors : BOOLEAN]
    BY <1>1 DEF Start, Readable
  <2>3. QED
    BY <1>a, <1>1, <2>1, <2>2
       DEF Start, ApiTyped, ApiTypeOK, FileTypeOK, LoggingHasOutcome, ZeroMetrics
<1>2. CASE Crash
  <2>1. \A r \in Requests : /\ [req[r] EXCEPT !.phase = "lost"] \in RequestState
                            /\ [req[r] EXCEPT !.phase = "lost"].phase = "lost"
    BY <1>b, PhaseUpdate, PhaseNames
  <2>2. req' \in [Requests -> RequestState]
    BY <1>b, <1>2, <2>1, Zenon DEF Crash
  <2>3. LoggingHasOutcome'
    BY <1>a, <1>2, <2>1 DEF Crash, LoggingHasOutcome, InFlight
  <2>4. QED
    BY <1>a, <1>2, <2>2, <2>3 DEF Crash, ApiTyped, ApiTypeOK, FileTypeOK
<1>3. ASSUME NEW r \in Requests, Reject(r)
      PROVE  ApiTyped'
  <2>1. PICK status \in Refusals(req[r].kind) :
          req' = [req EXCEPT ![r] =
                    [req[r] EXCEPT !.phase = "rejected", !.status = status, !.life = life]]
    BY <1>3 DEF Reject
  <2>2. status \in Statuses /\ life \in Nat /\ "rejected" \in Phases
    BY <1>a, StatusNumbers, PhaseNames DEF Refusals, ApiTypeOK
  <2>3. [req[r] EXCEPT !.phase = "rejected", !.status = status, !.life = life] \in RequestState
    BY <1>b, <2>2, RefusedUpdate
  <2>4. [req[r] EXCEPT !.phase = "rejected", !.status = status, !.life = life].phase = "rejected"
    BY <1>b DEF RequestState
  <2>5. QED
    BY <1>a, <1>3, <1>d, <2>1, <2>3, <2>4 DEF Reject, ApiTypeOK
<1>4. ASSUME NEW r \in Requests, Accept(r)
      PROVE  ApiTyped'
  <2>1. req' = [req EXCEPT ![r] = [req[r] EXCEPT !.phase = "sent", !.life = life]]
    BY <1>4 DEF Accept
  <2>2. [req[r] EXCEPT !.phase = "sent", !.life = life] \in RequestState
    BY <1>a, <1>b, LifeUpdate, PhaseNames DEF ApiTypeOK
  <2>3. [req[r] EXCEPT !.phase = "sent", !.life = life].phase = "sent"
    BY <1>b DEF RequestState
  <2>4. metrics' \in [requests : Nat, predictions : Nat, errors : Nat]
    BY <1>a, <1>4 DEF Accept, ApiTypeOK
  <2>5. UNCHANGED <<snapshot, up, life, context, counter, log, busy>>
    BY <1>4 DEF Accept
  <2>6. QED
    BY <1>a, <1>d, <2>1, <2>2, <2>3, <2>4, <2>5 DEF ApiTypeOK
<1>5. ASSUME NEW r \in Requests, Respond(r)
      PROVE  ApiTyped'
  <2>1. req' = [req EXCEPT ![r] = [req[r] EXCEPT !.phase = "done"]]
    BY <1>5 DEF Respond
  <2>2. [req[r] EXCEPT !.phase = "done"] \in RequestState
    BY <1>b, PhaseUpdate, PhaseNames
  <2>3. [req[r] EXCEPT !.phase = "done"].phase = "done"
    BY <1>b DEF RequestState
  <2>4. metrics' \in [requests : Nat, predictions : Nat, errors : Nat]
    BY <1>a, <1>5 DEF Respond, ApiTypeOK
  <2>5. QED
    BY <1>a, <1>5, <1>d, <2>1, <2>2, <2>3, <2>4 DEF Respond, ApiTypeOK
<1>6. ASSUME NEW r \in Requests, Invalid(r) \/ Features(r) \/ Model(r) \/ MetricsEndpoint(r)
      PROVE  ApiTyped'
  <2>1. PICK status \in Statuses : req' = [req EXCEPT ![r] = Return(r, status)]
    BY <1>6, StatusNumbers DEF Invalid, Features, Model, MetricsEndpoint
  <2>2. Return(r, status) \in RequestState
    BY <1>b, ReturnTypes
  <2>3. Return(r, status).phase = "handled"
    BY <1>b DEF Return, RequestState
  <2>4. UNCHANGED <<snapshot, up, life, context, metrics, counter, log, busy>>
    BY <1>6 DEF Invalid, Features, Model, MetricsEndpoint
  <2>5. QED
    BY <1>a, <1>d, <2>1, <2>2, <2>3, <2>4 DEF ApiTypeOK
<1>7. ASSUME NEW r \in Requests, Predict(r)
      PROVE  ApiTyped'
  <2> DEFINE started == [req[r] EXCEPT !.id = counter + 1]
  <2>1. counter + 1 \in Nat /\ counter' = counter + 1
    BY <1>a, <1>7 DEF Predict, ApiTypeOK
  <2>2. started \in RequestState
    BY <1>b, <2>1, IdUpdate
  <2> HIDE DEF started
  <2>3. CASE IsReadyRaises
    <3> DEFINE x == [started EXCEPT !.phase = "handled", !.status = 500, !.outcome = "raised"]
    <3>1. req' = [req EXCEPT ![r] = x] /\ busy' = Nobody
      BY <1>7, <2>3 DEF Predict, started
    <3>2. x \in RequestState
      BY <2>2, RaiseType
    <3>3. x.phase = "handled"
      BY <2>2, RaiseType
    <3> HIDE DEF x
    <3>4. UNCHANGED <<snapshot, up, life, context, metrics, log>>
      BY <1>7 DEF Predict
    <3>5. QED
      BY <1>a, <1>d, <2>1, <3>1, <3>2, <3>3, <3>4 DEF ApiTypeOK
  <2>4. CASE ~IsReadyRaises /\ IsReady
    <3> DEFINE x == [started EXCEPT !.phase = "reading"]
    <3>1. req' = [req EXCEPT ![r] = x] /\ busy' = r
      BY <1>7, <2>4 DEF Predict, started
    <3>2. x \in RequestState
      BY <2>2, PhaseUpdate, PhaseNames
    <3>3. x.phase = "reading"
      BY <2>2 DEF RequestState
    <3> HIDE DEF x
    <3>4. UNCHANGED <<snapshot, up, life, context, metrics, log>>
      BY <1>7 DEF Predict
    <3>5. QED
      BY <1>a, <1>d, <2>1, <3>1, <3>2, <3>3, <3>4 DEF ApiTypeOK
  <2>5. CASE ~IsReadyRaises /\ ~IsReady
    <3> DEFINE x == [started EXCEPT !.phase = "logging", !.outcome = "not_ready"]
    <3>1. req' = [req EXCEPT ![r] = x] /\ busy' = r
      BY <1>7, <2>5 DEF Predict, started
    <3>2. x \in RequestState
      BY <2>2, OutcomeUpdate, PhaseNames, OutcomeNames
    <3>3. x.outcome \in Outcomes
      BY <2>2, OutcomeNames DEF RequestState
    <3> HIDE DEF x
    <3>4. UNCHANGED <<snapshot, up, life, context, metrics, log>>
      BY <1>7 DEF Predict
    <3>5. QED
      BY <1>a, <1>d, <2>1, <3>1, <3>2, <3>3, <3>4 DEF ApiTypeOK
  <2>6. QED
    BY <2>3, <2>4, <2>5
<1>8. ASSUME NEW r \in Requests, ReadFeatures(r)
      PROVE  ApiTyped'
  <2>1. RowOf(req[r].zone) \in Ages \cup {NoRow}
    BY <1>b, RowType DEF RequestState
  <2>2. PICK o \in Outcomes, v \in Ages \cup {NoRow} :
          \/ req' = [req EXCEPT ![r].phase = "logging", ![r].outcome = o]
          \/ req' = [req EXCEPT ![r].phase = "logging", ![r].outcome = o, ![r].served = v]
    BY <1>8, <2>1, OutcomeNames DEF ReadFeatures
  <2>3. PICK x \in RequestState : req' = [req EXCEPT ![r] = x] /\ x.outcome = o
    <3>1. /\ [req[r] EXCEPT !.phase = "logging", !.outcome = o] \in RequestState
          /\ [req[r] EXCEPT !.phase = "logging", !.outcome = o, !.served = v] \in RequestState
      BY <1>b, OutcomeUpdate, ServedUpdate, PhaseNames
    <3>2. /\ [req[r] EXCEPT !.phase = "logging", !.outcome = o].outcome = o
          /\ [req[r] EXCEPT !.phase = "logging", !.outcome = o, !.served = v].outcome = o
      BY <1>b DEF RequestState
    <3>3. QED
      BY <2>2, <3>1, <3>2
  <2>4. metrics' \in [requests : Nat, predictions : Nat, errors : Nat]
    BY <1>a, <1>8 DEF ReadFeatures, ApiTypeOK
  <2>5. QED
    BY <1>a, <1>8, <1>d, <2>3, <2>4 DEF ReadFeatures, ApiTypeOK
<1>9. ASSUME NEW r \in Requests, Health(r)
      PROVE  ApiTyped'
  <2>1. req' = [req EXCEPT ![r] = ReadinessRead(r)] /\ busy' \in {r, Nobody}
    BY <1>9 DEF Health
  <2>2. /\ ReadinessRead(r) \in RequestState
        /\ ReadinessRead(r).phase \in {"handled", "health"}
    <3> DEFINE seen == Append(req[r].seen, IsReady)
    <3>1. seen \in Seq(BOOLEAN)
      BY <1>a, <1>b DEF RequestState, IsReady, Loaded, Readable, ApiTypeOK
    <3> HIDE DEF seen
    <3>2. Return(r, 200) \in RequestState /\ Raise(r) \in RequestState
      BY <1>b, ReturnTypes, RaiseType, StatusNumbers DEF Raise
    <3>3. /\ [Return(r, 200) EXCEPT !.seen = seen] \in RequestState
          /\ [req[r] EXCEPT !.phase = "health", !.seen = seen] \in RequestState
      <4>1. \A x \in RequestState :
              /\ [x EXCEPT !.seen = seen] \in RequestState
              /\ \A p \in Phases : [x EXCEPT !.phase = p, !.seen = seen] \in RequestState
        BY <3>1 DEF RequestState
      <4>2. QED
        BY <1>b, <3>2, <4>1, PhaseNames
    <3>4. /\ [Return(r, 200) EXCEPT !.seen = seen].phase = "handled"
          /\ [req[r] EXCEPT !.phase = "health", !.seen = seen].phase = "health"
          /\ Raise(r).phase = "handled"
      BY <1>b DEF RequestState, Return, Raise
    <3>5. QED
      BY <3>2, <3>3, <3>4 DEF ReadinessRead, seen
  <2>3. QED
    BY <1>a, <1>9, <1>d, <2>1, <2>2 DEF Health, ApiTypeOK
<1>10. ASSUME NEW r \in Requests, LogRequest(r)
       PROVE  ApiTyped'
  <2> DEFINE row == [id |-> req[r].id, zone |-> req[r].zone, outcome |-> req[r].outcome,
                     life |-> life, by |-> r]
  <2>1. req[r].outcome \in Outcomes
    BY <1>a, <1>10 DEF LogRequest, LoggingHasOutcome
  <2>2. row \in LogRow
    BY <1>a, <1>b, <2>1 DEF LogRow, RequestState, ApiTypeOK
  <2>3. log' \in Seq(LogRow)
    BY <1>a, <1>10, <2>2 DEF LogRequest, ApiTypeOK
  <2>4. Return(r, StatusOf[req[r].outcome]) \in RequestState
    BY <1>b, <2>1, StatusOfType, ReturnTypes
  <2>5. Return(r, StatusOf[req[r].outcome]).phase = "handled"
    BY <1>b DEF Return, RequestState
  <2>6. req' = [req EXCEPT ![r] = Return(r, StatusOf[req[r].outcome])]
    BY <1>10 DEF LogRequest
  <2>7. QED
    BY <1>a, <1>10, <1>d, <2>3, <2>4, <2>5, <2>6 DEF LogRequest, ApiTypeOK
<1>11. ASSUME NEW r \in Requests, LogFails(r) \/ PredictRaises(r)
       PROVE  ApiTyped'
  <2>1. req' = [req EXCEPT ![r] = Raise(r)]
    BY <1>11 DEF LogFails, PredictRaises
  <2>2. Raise(r) \in RequestState
    BY <1>b, RaiseType DEF Raise
  <2>3. Raise(r).phase = "handled"
    BY <1>b, RaiseType DEF Raise
  <2>4. QED
    BY <1>a, <1>11, <1>d, <2>1, <2>2, <2>3 DEF LogFails, PredictRaises, ApiTypeOK
<1>12. CASE FileNext /\ UNCHANGED apiVars
  BY <1>a, <1>12
     DEF FileNext, Tear, Put, apiVars, ApiTyped, ApiTypeOK, FileTypeOK, LoggingHasOutcome
<1>13. CASE UNCHANGED vars
  BY <1>a, <1>13 DEF vars, apiVars, ApiTyped, ApiTypeOK, FileTypeOK, LoggingHasOutcome
<1>14. QED
  BY <1>1, <1>2, <1>3, <1>4, <1>5, <1>6, <1>7, <1>8, <1>9, <1>10, <1>11, <1>12, <1>13
     DEF Next, ApiNext, Endpoint

(* ApiTypeOK: the serving process's state is well typed. *)
THEOREM ApiTyping == Spec => []ApiTypeOK
<1>1. ApiTyped => ApiTypeOK
  BY DEF ApiTyped
<1>2. QED
  BY TypeInit, TypeStep, <1>1, PTL DEF Spec

-----------------------------------------------------------------------------
(* IdsIncrease is not inductive: a row may only be appended because the id it
   carries is the last one taken, and no other request has taken one since.
   That is what running one endpoint function at a time guarantees. *)
Inside(r) == req[r].phase \in {"reading", "health", "logging"}

Predicting(r) == req[r].phase \in {"reading", "logging"}

LogBelow(bound) ==
  \A i \in 1..Len(log) : log[i].life = life => log[i].id < bound

IdInv ==
  /\ ~up => \A r \in Requests : ~InFlight(r)
  /\ \A r \in Requests : Inside(r) => busy = r
  /\ \A r \in Requests : Predicting(r) => req[r].id = counter /\ LogBelow(counter)
  /\ \A i \in 1..Len(log) : log[i].life <= life
  /\ LogBelow(counter + 1)
  /\ IdsIncrease

(* Before the first start there is no row and no request under way. *)
LEMMA IdInit == Init => IdInv
<1> SUFFICES ASSUME Init
             PROVE  IdInv
  OBVIOUS
<1>1. \A r \in Requests : req[r].phase = "new"
  BY DEF Init, ApiInit, NewRequest
<1>2. log = << >>
  BY DEF Init, ApiInit
<1>3. QED
  BY <1>1, <1>2 DEF IdInv, Inside, Predicting, InFlight, LogBelow, IdsIncrease

(* A step that moves no counter and writes no row keeps the invariant if a
   request found inside an endpoint function is the busy one, and one found
   predicting was predicting before. *)
LEMMA IdQuiet ==
  ASSUME IdInv, UNCHANGED <<life, counter, log>>,
         ~up' => \A r \in Requests : ~InFlight(r)',
         \A r \in Requests : Inside(r)' => busy' = r,
         \A r \in Requests : Predicting(r)' => Predicting(r) /\ req'[r].id = req[r].id
  PROVE  IdInv'
BY DEF IdInv, LogBelow, IdsIncrease

(* One step per action that takes an id, writes a row or starts the process;
   the others are IdQuiet. *)
LEMMA IdStep == ApiTyped /\ IdInv /\ [Next]_vars => IdInv'
<1> SUFFICES ASSUME ApiTyped, IdInv, [Next]_vars
             PROVE  IdInv'
  OBVIOUS
<1>a. /\ counter \in Nat /\ life \in Nat /\ log \in Seq(LogRow)
      /\ req \in [Requests -> RequestState]
  BY DEF ApiTyped, ApiTypeOK
<1>b. /\ \A r \in Requests : req[r] \in RequestState
      /\ \A i \in 1..Len(log) : log[i].life \in Nat /\ log[i].id \in Nat
  <2>1. \A i \in 1..Len(log) : log[i] \in LogRow
    BY <1>a
  <2>2. QED
    BY <1>a, <2>1 DEF LogRow
<1>c. Nobody \notin Requests
  BY ApiAssumption
<1>1. CASE Start
  <2>1. \A r \in Requests : ~InFlight(r) /\ ~Inside(r) /\ ~Predicting(r)
    BY <1>1 DEF Start, IdInv, InFlight, Inside, Predicting
  <2>2. UNCHANGED <<req, log, busy>> /\ up' = TRUE /\ life' = life + 1 /\ counter' = 0
    BY <1>1 DEF Start
  <2>3. \A i \in 1..Len(log) : log[i].life < life'
    BY <1>a, <1>b, <2>2 DEF IdInv
  <2>4. \A r \in Requests : ~Inside(r)' /\ ~Predicting(r)'
    BY <2>1, <2>2 DEF Inside, Predicting
  <2>5. QED
    BY <1>a, <1>b, <2>2, <2>3, <2>4 DEF IdInv, LogBelow, IdsIncrease
<1>2. CASE Crash
  <2>1. \A r \in Requests : ~InFlight(r)'
    BY <1>b, <1>2 DEF Crash, InFlight, RequestState
  <2>2. \A r \in Requests : ~Inside(r)' /\ ~Predicting(r)'
    BY <2>1 DEF InFlight, Inside, Predicting
  <2>3. UNCHANGED <<life, counter, log>>
    BY <1>2 DEF Crash
  <2>4. QED
    BY <2>1, <2>2, <2>3, IdQuiet
<1>3. ASSUME NEW r \in Requests,
             Reject(r) \/ Accept(r) \/ Respond(r) \/ Invalid(r) \/ Features(r) \/ Model(r)
               \/ MetricsEndpoint(r)
      PROVE  IdInv'
  <2>1. UNCHANGED <<life, counter, log, busy>> /\ up /\ up' = up
    BY <1>3 DEF Reject, Accept, Respond, Invalid, Features, Model, MetricsEndpoint, Dispatch
  <2>2. /\ \A q \in Requests \ {r} : req'[q] = req[q]
        /\ req'[r].phase \in {"rejected", "sent", "done", "handled"}
    <3>1. CASE Reject(r)
      BY <1>a, <1>b, <3>1 DEF Reject, RequestState
    <3>2. CASE Accept(r) \/ Respond(r)
      BY <1>a, <1>b, <3>2 DEF Accept, Respond, RequestState
    <3>3. CASE Invalid(r) \/ Features(r) \/ Model(r) \/ MetricsEndpoint(r)
      <4>1. PICK status \in Statuses : req' = [req EXCEPT ![r] = Return(r, status)]
        BY <3>3, StatusNumbers DEF Invalid, Features, Model, MetricsEndpoint
      <4>2. QED
        BY <1>a, <1>b, <4>1, ReturnTypes
    <3>4. QED
      BY <1>3, <3>1, <3>2, <3>3
  <2>3. QED
    BY <2>1, <2>2, IdQuiet DEF IdInv, Inside, Predicting
<1>4. ASSUME NEW r \in Requests, Predict(r)
      PROVE  IdInv'
  <2>1. /\ up /\ up' = up /\ counter' = counter + 1 /\ UNCHANGED <<life, log>>
        /\ busy = Nobody
    BY <1>4 DEF Predict, Dispatch
  <2>2. \A q \in Requests : ~Inside(q) /\ ~Predicting(q)
    BY <1>c, <2>1 DEF IdInv, Inside, Predicting
  <2>3. /\ \A q \in Requests \ {r} : req'[q] = req[q]
        /\ req'[r].id = counter + 1
        /\ req'[r].phase # "handled" => busy' = r
        /\ req'[r].phase \in {"handled", "reading", "logging"}
    <3> DEFINE started == [req[r] EXCEPT !.id = counter + 1]
    <3>a. started \in RequestState /\ started.id = counter + 1
      <4>1. counter + 1 \in Nat
        BY <1>a
      <4>2. QED
        BY <1>b, <4>1, IdUpdate, IdOf, Zenon
    <3>b. ASSUME NEW x \in RequestState, req' = [req EXCEPT ![r] = x], x.id = counter + 1
          PROVE  /\ \A q \in Requests \ {r} : req'[q] = req[q]
                 /\ req'[r] = x /\ req'[r].id = counter + 1
      BY <1>a, <3>b
    <3>1. CASE IsReadyRaises
      <4> DEFINE x == [started EXCEPT !.phase = "handled", !.status = 500, !.outcome = "raised"]
      <4>1. req' = [req EXCEPT ![r] = x]
        BY <1>4, <3>1 DEF Predict
      <4> HIDE DEF started
      <4>2. x \in RequestState
        BY <3>a, RaiseType
      <4>3. x.phase = "handled"
        BY <3>a, RaiseType
      <4>4. x.id = counter + 1
        BY <3>a DEF RequestState
      <4> HIDE DEF x
      <4>5. QED
        BY <3>b, <4>1, <4>2, <4>3, <4>4
    <3>2. CASE ~IsReadyRaises /\ IsReady
      <4> DEFINE x == [started EXCEPT !.phase = "reading"]
      <4>1. req' = [req EXCEPT ![r] = x] /\ busy' = r
        BY <1>4, <3>2 DEF Predict
      <4> HIDE DEF started
      <4>2. x \in RequestState /\ x.phase = "reading" /\ x.id = counter + 1
        BY <3>a, PhaseUpdate, PhaseNames, IdOf, Zenon
      <4> HIDE DEF x
      <4>3. QED
        BY <3>b, <4>1, <4>2
    <3>3. CASE ~IsReadyRaises /\ ~IsReady
      <4> DEFINE x == [started EXCEPT !.phase = "logging", !.outcome = "not_ready"]
      <4>1. req' = [req EXCEPT ![r] = x] /\ busy' = r
        BY <1>4, <3>3 DEF Predict
      <4> HIDE DEF started
      <4>2. x \in RequestState
        BY <3>a, OutcomeUpdate, PhaseNames, OutcomeNames
      <4>3. x.phase = "logging"
        BY <3>a DEF RequestState
      <4>4. x.id = counter + 1
        BY <3>a DEF RequestState
      <4> HIDE DEF x
      <4>5. QED
        BY <3>b, <4>1, <4>2, <4>3, <4>4
    <3>4. QED
      BY <3>1, <3>2, <3>3
  <2>4. \A q \in Requests : (Inside(q)' => busy' = q) /\ (Predicting(q)' => q = r)
    BY <2>2, <2>3 DEF Inside, Predicting
  <2>5. LogBelow(counter)' /\ LogBelow(counter + 1)'
    BY <1>a, <1>b, <2>1 DEF IdInv, LogBelow
  <2>6. QED
    BY <1>a, <2>1, <2>3, <2>4, <2>5 DEF IdInv, IdsIncrease
<1>5. ASSUME NEW r \in Requests, ReadFeatures(r)
      PROVE  IdInv'
  <2>1. UNCHANGED <<up, life, counter, log, busy>> /\ req[r].phase = "reading"
    BY <1>5 DEF ReadFeatures
  <2>2. /\ \A q \in Requests \ {r} : req'[q] = req[q]
        /\ req'[r].phase = "logging" /\ req'[r].id = req[r].id
    BY <1>a, <1>b, <1>5 DEF ReadFeatures, RequestState
  <2>3. up
    BY <2>1 DEF IdInv, InFlight
  <2>4. QED
    BY <2>1, <2>2, <2>3, IdQuiet DEF IdInv, Inside, Predicting
<1>6. ASSUME NEW r \in Requests, Health(r)
      PROVE  IdInv'
  <2>1. UNCHANGED <<up, life, counter, log>> /\ (busy = Nobody \/ req[r].phase = "health")
    BY <1>6 DEF Health, Dispatch
  <2>2. /\ \A q \in Requests \ {r} : req'[q] = req[q]
        /\ req'[r].phase \in {"handled", "health"}
    BY <1>a, <1>b, <1>6 DEF Health, ReadinessRead, Raise, Return, RequestState
  <2>3. \A q \in Requests \ {r} : ~Inside(q)
    BY <1>c, <2>1 DEF IdInv, Inside
  <2>4. up
    BY <1>6 DEF Health, Dispatch, IdInv, InFlight
  <2>5. req'[r].phase = "health" => busy' = r
    BY <1>6 DEF Health
  <2>6. QED
    BY <2>1, <2>2, <2>3, <2>4, <2>5, IdQuiet DEF Inside, Predicting
<1>7. ASSUME NEW r \in Requests, LogRequest(r)
      PROVE  IdInv'
  <2> DEFINE row == [id |-> req[r].id, zone |-> req[r].zone, outcome |-> req[r].outcome,
                     life |-> life, by |-> r]
  <2>1. /\ UNCHANGED <<up, life, counter>> /\ busy' = Nobody /\ log' = Append(log, row)
        /\ req[r].phase = "logging"
    BY <1>7 DEF LogRequest
  <2>2. /\ \A q \in Requests \ {r} : req'[q] = req[q]
        /\ req'[r].phase = "handled"
    BY <1>a, <1>b, <1>7 DEF LogRequest, Return, RequestState
  <2>3. \A q \in Requests : ~Inside(q)' /\ ~Predicting(q)'
    BY <2>1, <2>2 DEF IdInv, Inside, Predicting
  <2>4. up /\ row.id = counter /\ row.life = life /\ LogBelow(counter)
    BY <2>1 DEF IdInv, InFlight, Predicting
  <2> HIDE DEF row
  <2>5. /\ Len(log') = Len(log) + 1
        /\ \A i \in 1..Len(log) : log'[i] = log[i]
        /\ log'[Len(log) + 1] = row
    BY <1>a, <2>1
  <2>6. LogBelow(counter + 1)' /\ \A i \in 1..Len(log') : log'[i].life <= life'
    BY <1>a, <1>b, <2>1, <2>4, <2>5 DEF IdInv, LogBelow
  <2>7. IdsIncrease'
    BY <1>a, <1>b, <2>1, <2>4, <2>5 DEF IdInv, LogBelow, IdsIncrease
  <2>8. QED
    BY <2>1, <2>3, <2>4, <2>6, <2>7 DEF IdInv
<1>8. ASSUME NEW r \in Requests, LogFails(r) \/ PredictRaises(r)
      PROVE  IdInv'
  <2>1. UNCHANGED <<up, life, counter, log>> /\ req[r].phase \in {"logging", "reading"}
    BY <1>8 DEF LogFails, PredictRaises
  <2>2. /\ \A q \in Requests \ {r} : req'[q] = req[q]
        /\ req'[r].phase = "handled"
    <3>1. req' = [req EXCEPT ![r] = Raise(r)]
      BY <1>8 DEF LogFails, PredictRaises
    <3>2. Raise(r) \in RequestState
      BY <1>b, RaiseType DEF Raise
    <3>3. Raise(r).phase = "handled"
      BY <1>b, RaiseType DEF Raise
    <3>4. QED
      BY <1>a, <3>1, <3>2, <3>3
  <2>3. \A q \in Requests : ~Inside(q)' /\ ~Predicting(q)'
    BY <2>1, <2>2 DEF IdInv, Inside, Predicting
  <2>4. up
    BY <2>1 DEF IdInv, InFlight
  <2>5. QED
    BY <2>1, <2>3, <2>4, IdQuiet
<1>9. CASE UNCHANGED apiVars
  BY <1>9, IdQuiet DEF apiVars, IdInv, Inside, Predicting, InFlight
<1>10. QED
  BY <1>1, <1>2, <1>3, <1>4, <1>5, <1>6, <1>7, <1>8, <1>9
     DEF Next, ApiNext, Endpoint, vars

(* IdsIncrease: the log never holds two rows of one process with one id, nor
   out of the order in which the ids were taken. *)
THEOREM IdsAreOrdered == Spec => []IdsIncrease
<1>1. IdInv => IdsIncrease
  BY DEF IdInv
<1>2. QED
  BY TypeInit, TypeStep, IdInit, IdStep, <1>1, PTL DEF Spec

-----------------------------------------------------------------------------
(* What each action does to the one request it is about, field by field. *)
Moves(r, from, to) ==
  /\ \A q \in Requests \ {r} : req'[q] = req[q]
  /\ req'[r].kind = req[r].kind /\ req'[r].zone = req[r].zone
  /\ req[r].phase = from /\ req'[r].phase = to
  /\ up /\ UNCHANGED <<snapshot, up, life, context>>

SameId(r) == req'[r].id = req[r].id
SameLife(r) == req'[r].life = req[r].life
SameStatus(r) == req'[r].status = req[r].status
SameOutcome(r) == req'[r].outcome = req[r].outcome
SameSeen(r) == req'[r].seen = req[r].seen
SameServed(r) == req'[r].served = req[r].served

Rejected(r) ==
  /\ Moves(r, "new", "rejected")
  /\ req'[r].life = life /\ req'[r].status # 404
  /\ SameOutcome(r) /\ SameSeen(r) /\ SameServed(r)
  /\ UNCHANGED <<metrics, log>>

Let(r) ==
  /\ Moves(r, "new", "sent")
  /\ req'[r].life = life
  /\ SameStatus(r) /\ SameOutcome(r) /\ SameSeen(r) /\ SameServed(r)
  /\ metrics' = [metrics EXCEPT !.requests = @ + 1]
  /\ UNCHANGED log

Responded(r) ==
  /\ Moves(r, "handled", "done")
  /\ SameId(r) /\ SameLife(r) /\ SameStatus(r) /\ SameOutcome(r) /\ SameSeen(r) /\ SameServed(r)
  /\ metrics' = IF IsError(r) THEN [metrics EXCEPT !.errors = @ + 1] ELSE metrics
  /\ UNCHANGED log

(* An endpoint function other than predict and health, or a refused body. *)
Answered(r) ==
  /\ Moves(r, "sent", "handled")
  /\ req[r].kind = "predict" => req'[r].status = 422
  /\ req'[r].status = 404 => context.store /\ ~ReadRaises /\ RowOf(req[r].zone) = NoRow
  /\ SameLife(r) /\ SameOutcome(r) /\ SameSeen(r) /\ SameServed(r)
  /\ UNCHANGED <<metrics, log>>

(* The readiness check of predict, when it reads the file. *)
Checked(r) ==
  /\ req[r].kind = "predict"
  /\ \/ Moves(r, "sent", "reading") /\ SameOutcome(r) /\ IsReady
     \/ Moves(r, "sent", "logging") /\ req'[r].outcome = "not_ready" /\ ~IsReady /\ ~IsReadyRaises
  /\ SameLife(r) /\ SameStatus(r) /\ SameSeen(r) /\ SameServed(r)
  /\ UNCHANGED <<metrics, log>>

Failed(r) ==
  /\ Moves(r, "reading", "logging")
  /\ req'[r].outcome \in Outcomes \ {"not_ready"}
  /\ req'[r].outcome = "unknown_zone" => ~ReadRaises /\ RowOf(req[r].zone) = NoRow
  /\ SameLife(r) /\ SameStatus(r) /\ SameSeen(r) /\ SameServed(r)
  /\ UNCHANGED <<metrics, log>>

Predicted(r) ==
  /\ Moves(r, "reading", "logging")
  /\ req'[r].outcome = "none" /\ req'[r].served # NoRow
  /\ SameLife(r) /\ SameStatus(r) /\ SameSeen(r)
  /\ metrics' = [metrics EXCEPT !.predictions = @ + 1]
  /\ UNCHANGED log

(* An exception leaves the endpoint function. *)
Raised(r) ==
  /\ \E from \in {"sent", "reading", "logging", "health"} : Moves(r, from, "handled")
  /\ req'[r].outcome = "raised" /\ req'[r].status = 500
  /\ SameLife(r) /\ SameSeen(r) /\ SameServed(r)
  /\ UNCHANGED <<metrics, log>>

Logged(r) ==
  /\ Moves(r, "logging", "handled")
  /\ req'[r].status = StatusOf[req[r].outcome]
  /\ SameId(r) /\ SameLife(r) /\ SameOutcome(r) /\ SameSeen(r) /\ SameServed(r)
  /\ log' = Append(log, [id |-> req[r].id, zone |-> req[r].zone, outcome |-> req[r].outcome,
                         life |-> life, by |-> r])
  /\ UNCHANGED metrics

(* One reading of is_ready by health that raised nothing. *)
Looked(r) ==
  /\ req[r].kind = "health" \/ req[r].phase = "health"
  /\ \E from \in {"sent", "health"}, to \in {"health", "handled"} : Moves(r, from, to)
  /\ req'[r].seen = Append(req[r].seen, IsReady) /\ ~IsReadyRaises
  /\ req'[r].status \in {200, req[r].status}
  /\ SameLife(r) /\ SameOutcome(r) /\ SameServed(r)
  /\ UNCHANGED <<metrics, log>>

RequestMoves(r) ==
  \/ Rejected(r) \/ Let(r) \/ Responded(r) \/ Answered(r) \/ Checked(r) \/ Failed(r)
  \/ Predicted(r) \/ Raised(r) \/ Logged(r) \/ Looked(r)

(* Every step starts or kills the process, moves one request, or moves none. *)
LEMMA Effects ==
  ApiTyped /\ IdInv /\ [Next]_vars =>
    \/ Start
    \/ Crash
    \/ \E r \in Requests : RequestMoves(r)
    \/ UNCHANGED apiVars /\ (FileNext \/ UNCHANGED snapshot)
<1> SUFFICES ASSUME ApiTyped, IdInv, Next, ~Start, ~Crash, ~(FileNext /\ UNCHANGED apiVars)
             PROVE  \E r \in Requests : RequestMoves(r)
  BY DEF Next, ApiNext, vars
<1>a. req \in [Requests -> RequestState] /\ \A r \in Requests : req[r] \in RequestState
  BY DEF ApiTyped, ApiTypeOK
<1>b. \A r \in Requests : InFlight(r) => up
  BY DEF IdInv
<1>c. ASSUME NEW r \in Requests, NEW x, req' = [req EXCEPT ![r] = x]
      PROVE  (\A q \in Requests \ {r} : req'[q] = req[q]) /\ req'[r] = x
  BY <1>a, <1>c
<1>1. ASSUME NEW r \in Requests, Reject(r)
      PROVE  Rejected(r)
  <2>1. PICK status \in Refusals(req[r].kind) :
          req' = [req EXCEPT ![r] =
                    [req[r] EXCEPT !.phase = "rejected", !.status = status, !.life = life]]
    BY <1>1 DEF Reject
  <2>2. status # 404
    BY DEF Refusals
  <2> DEFINE x == [req[r] EXCEPT !.phase = "rejected", !.status = status, !.life = life]
  <2>3. /\ x.phase = "rejected" /\ x.status = status /\ x.life = life
        /\ x.kind = req[r].kind /\ x.zone = req[r].zone /\ x.id = req[r].id
        /\ x.outcome = req[r].outcome /\ x.seen = req[r].seen /\ x.served = req[r].served
    BY <1>a DEF RequestState
  <2> HIDE DEF x
  <2>4. (\A q \in Requests \ {r} : req'[q] = req[q]) /\ req'[r] = x
    BY <1>c, <2>1 DEF x
  <2>5. QED
    BY <1>1, <2>2, <2>3, <2>4 DEF Reject, Rejected, Moves, SameOutcome, SameSeen, SameServed
<1>2. ASSUME NEW r \in Requests, Accept(r)
      PROVE  Let(r)
  <2> DEFINE x == [req[r] EXCEPT !.phase = "sent", !.life = life]
  <2>3. /\ x.phase = "sent" /\ x.status = req[r].status /\ x.life = life
        /\ x.kind = req[r].kind /\ x.zone = req[r].zone /\ x.id = req[r].id
        /\ x.outcome = req[r].outcome /\ x.seen = req[r].seen /\ x.served = req[r].served
    BY <1>a DEF RequestState
  <2>4. req' = [req EXCEPT ![r] = x]
    BY <1>2 DEF Accept
  <2> HIDE DEF x
  <2>5. (\A q \in Requests \ {r} : req'[q] = req[q]) /\ req'[r] = x
    BY <1>c, <2>4
  <2>6. QED
    BY <1>2, <2>3, <2>5 DEF Accept, Let, Moves, SameStatus, SameOutcome, SameSeen, SameServed
<1>3. ASSUME NEW r \in Requests, Respond(r)
      PROVE  Responded(r)
  <2> DEFINE x == [req[r] EXCEPT !.phase = "done"]
  <2>3. /\ x.phase = "done" /\ x.status = req[r].status /\ x.life = req[r].life
        /\ x.kind = req[r].kind /\ x.zone = req[r].zone /\ x.id = req[r].id
        /\ x.outcome = req[r].outcome /\ x.seen = req[r].seen /\ x.served = req[r].served
    BY <1>a DEF RequestState
  <2>4. req' = [req EXCEPT ![r] = x]
    BY <1>3 DEF Respond
  <2> HIDE DEF x
  <2>5. (\A q \in Requests \ {r} : req'[q] = req[q]) /\ req'[r] = x
    BY <1>c, <2>4
  <2>6. QED
    BY <1>3, <2>3, <2>5
       DEF Respond, Responded, Moves, SameId, SameLife, SameStatus, SameOutcome, SameSeen, SameServed
<1>4. ASSUME NEW r \in Requests, Invalid(r) \/ Features(r) \/ Model(r) \/ MetricsEndpoint(r)
      PROVE  Answered(r)
  <2>1. PICK status : /\ req' = [req EXCEPT ![r] = Return(r, status)]
                      /\ req[r].kind = "predict" => status = 422
                      /\ status = 404 => ~ReadRaises /\ RowOf(req[r].zone) = NoRow /\ context.store
    BY <1>4 DEF Invalid, Features, Model, MetricsEndpoint, Dispatch
  <2> DEFINE x == Return(r, status)
  <2>2. /\ x.phase = "handled" /\ x.status = status /\ x.life = req[r].life
        /\ x.kind = req[r].kind /\ x.zone = req[r].zone
        /\ x.outcome = req[r].outcome /\ x.seen = req[r].seen /\ x.served = req[r].served
    BY <1>a DEF RequestState, Return
  <2> HIDE DEF x
  <2>a. req' = [req EXCEPT ![r] = x]
    BY <2>1, Zenon DEF x
  <2>3. (\A q \in Requests \ {r} : req'[q] = req[q]) /\ req'[r] = x
    BY <1>c, <2>a
  <2>4. /\ up /\ req[r].phase = "sent"
        /\ UNCHANGED <<snapshot, up, life, context, metrics, log>>
    BY <1>4 DEF Invalid, Features, Model, MetricsEndpoint, Dispatch
  <2>5. QED
    BY <2>1, <2>2, <2>3, <2>4 DEF Answered, Moves, SameLife, SameOutcome, SameSeen, SameServed
<1>5. ASSUME NEW r \in Requests, Predict(r)
      PROVE  Raised(r) \/ Checked(r)
  <2> DEFINE started == [req[r] EXCEPT !.id = counter + 1]
  <2>1. /\ started.phase = req[r].phase /\ started.status = req[r].status
        /\ started.life = req[r].life
        /\ started.kind = req[r].kind /\ started.zone = req[r].zone
        /\ started.outcome = req[r].outcome /\ started.seen = req[r].seen
        /\ started.served = req[r].served
    BY <1>a DEF RequestState
  <2>2. started \in RequestState
    BY <1>a, IdUpdate DEF ApiTyped, ApiTypeOK
  <2>3. /\ up /\ req[r].phase = "sent" /\ req[r].kind = "predict"
        /\ UNCHANGED <<snapshot, up, life, context, metrics, log>>
    BY <1>5 DEF Predict, Dispatch
  <2>4. CASE IsReadyRaises
    <3> DEFINE x == [started EXCEPT !.phase = "handled", !.status = 500, !.outcome = "raised"]
    <3>1. req' = [req EXCEPT ![r] = x]
      BY <1>5, <2>4 DEF Predict
    <3> HIDE DEF started
    <3>2. /\ x.phase = "handled" /\ x.status = 500 /\ x.outcome = "raised"
          /\ x.life = started.life /\ x.kind = started.kind /\ x.zone = started.zone
          /\ x.seen = started.seen /\ x.served = started.served
      BY <2>2 DEF RequestState
    <3> HIDE DEF x
    <3>3. (\A q \in Requests \ {r} : req'[q] = req[q]) /\ req'[r] = x
      BY <1>c, <3>1
    <3>4. Moves(r, "sent", "handled")
      BY <2>1, <2>3, <3>2, <3>3 DEF Moves
    <3>5. QED
      BY <2>1, <2>3, <3>2, <3>3, <3>4 DEF Raised, SameLife, SameSeen, SameServed
  <2>5. CASE ~IsReadyRaises /\ IsReady
    <3> DEFINE x == [started EXCEPT !.phase = "reading"]
    <3>1. req' = [req EXCEPT ![r] = x]
      BY <1>5, <2>5 DEF Predict
    <3> HIDE DEF started
    <3>2. /\ x.phase = "reading" /\ x.status = started.status /\ x.outcome = started.outcome
          /\ x.life = started.life /\ x.kind = started.kind /\ x.zone = started.zone
          /\ x.seen = started.seen /\ x.served = started.served
      BY <2>2 DEF RequestState
    <3> HIDE DEF x
    <3>3. (\A q \in Requests \ {r} : req'[q] = req[q]) /\ req'[r] = x
      BY <1>c, <3>1
    <3>4. Moves(r, "sent", "reading")
      BY <2>1, <2>3, <3>2, <3>3 DEF Moves
    <3>5. QED
      BY <2>1, <2>3, <2>5, <3>2, <3>3, <3>4
         DEF Checked, SameLife, SameStatus, SameOutcome, SameSeen, SameServed
  <2>6. CASE ~IsReadyRaises /\ ~IsReady
    <3> DEFINE x == [started EXCEPT !.phase = "logging", !.outcome = "not_ready"]
    <3>1. req' = [req EXCEPT ![r] = x]
      BY <1>5, <2>6 DEF Predict
    <3> HIDE DEF started
    <3>2. /\ x.phase = "logging" /\ x.status = started.status /\ x.outcome = "not_ready"
          /\ x.life = started.life /\ x.kind = started.kind /\ x.zone = started.zone
          /\ x.seen = started.seen /\ x.served = started.served
      BY <2>2 DEF RequestState
    <3> HIDE DEF x
    <3>3. (\A q \in Requests \ {r} : req'[q] = req[q]) /\ req'[r] = x
      BY <1>c, <3>1
    <3>4. Moves(r, "sent", "logging")
      BY <2>1, <2>3, <3>2, <3>3 DEF Moves
    <3>5. QED
      BY <2>1, <2>3, <2>6, <3>2, <3>3, <3>4
         DEF Checked, SameLife, SameStatus, SameSeen, SameServed
  <2>7. QED
    BY <2>4, <2>5, <2>6
<1>6. ASSUME NEW r \in Requests, ReadFeatures(r)
      PROVE  Failed(r) \/ Predicted(r)
  <2>1. /\ up /\ req[r].phase = "reading"
        /\ UNCHANGED <<snapshot, up, life, context, log>>
    BY <1>b, <1>6 DEF ReadFeatures, InFlight
  <2>2. \/ \E o \in Outcomes \ {"not_ready"} :
             /\ req' = [req EXCEPT ![r].phase = "logging", ![r].outcome = o]
             /\ UNCHANGED metrics
             /\ o = "unknown_zone" => ~ReadRaises /\ RowOf(req[r].zone) = NoRow
        \/ /\ req' = [req EXCEPT ![r].phase = "logging", ![r].outcome = "none",
                                 ![r].served = RowOf(req[r].zone)]
           /\ metrics' = [metrics EXCEPT !.predictions = @ + 1]
           /\ RowOf(req[r].zone) # NoRow
    BY <1>6, OutcomeNames DEF ReadFeatures, Acceptable
  <2>3. ASSUME NEW o \in Outcomes \ {"not_ready"},
               req' = [req EXCEPT ![r].phase = "logging", ![r].outcome = o],
               UNCHANGED metrics,
               o = "unknown_zone" => ~ReadRaises /\ RowOf(req[r].zone) = NoRow
        PROVE  Failed(r)
    <3> DEFINE x == [req[r] EXCEPT !.phase = "logging", !.outcome = o]
    <3>2. /\ x.phase = "logging" /\ x.status = req[r].status /\ x.outcome = o
          /\ x.life = req[r].life /\ x.kind = req[r].kind /\ x.zone = req[r].zone
          /\ x.seen = req[r].seen /\ x.served = req[r].served
      BY <1>a DEF RequestState
    <3> HIDE DEF x
    <3>1. req' = [req EXCEPT ![r] = x]
      BY <1>a, <2>3 DEF x
    <3>3. (\A q \in Requests \ {r} : req'[q] = req[q]) /\ req'[r] = x
      BY <1>c, <3>1
    <3>4. Moves(r, "reading", "logging")
      BY <2>1, <3>2, <3>3 DEF Moves
    <3>5. QED
      BY <2>1, <2>3, <3>2, <3>3, <3>4 DEF Failed, SameLife, SameStatus, SameSeen, SameServed
  <2>4. ASSUME req' = [req EXCEPT ![r].phase = "logging", ![r].outcome = "none",
                                  ![r].served = RowOf(req[r].zone)],
               metrics' = [metrics EXCEPT !.predictions = @ + 1],
               RowOf(req[r].zone) # NoRow
        PROVE  Predicted(r)
    <3> DEFINE row == RowOf(req[r].zone)
               x == [req[r] EXCEPT !.phase = "logging", !.outcome = "none", !.served = row]
    <3> HIDE DEF row
    <3>2. /\ x.phase = "logging" /\ x.status = req[r].status /\ x.outcome = "none"
          /\ x.life = req[r].life /\ x.kind = req[r].kind /\ x.zone = req[r].zone
          /\ x.seen = req[r].seen /\ x.served = row
      BY <1>a DEF RequestState
    <3> HIDE DEF x
    <3>1. req' = [req EXCEPT ![r] = x]
      BY <1>a, <2>4 DEF x, row
    <3>3. (\A q \in Requests \ {r} : req'[q] = req[q]) /\ req'[r] = x
      BY <1>c, <3>1
    <3>4. Moves(r, "reading", "logging")
      BY <2>1, <3>2, <3>3 DEF Moves
    <3>5. QED
      BY <2>1, <2>4, <3>2, <3>3, <3>4 DEF Predicted, SameLife, SameStatus, SameSeen, row
  <2>5. QED
    BY <2>2, <2>3, <2>4
<1>7. ASSUME NEW r \in Requests, NEW from \in {"sent", "reading", "logging", "health"},
             req[r].phase = from, up, req' = [req EXCEPT ![r] = Raise(r)],
             UNCHANGED <<snapshot, up, life, context, metrics, log>>
      PROVE  Raised(r)
  <2> DEFINE x == Raise(r)
  <2>1. /\ x.phase = "handled" /\ x.status = 500 /\ x.outcome = "raised"
        /\ x.life = req[r].life /\ x.kind = req[r].kind /\ x.zone = req[r].zone
        /\ x.seen = req[r].seen /\ x.served = req[r].served
    BY <1>a DEF RequestState, Raise
  <2> HIDE DEF x
  <2>2. (\A q \in Requests \ {r} : req'[q] = req[q]) /\ req'[r] = x
    BY <1>c, <1>7 DEF x
  <2>3. Moves(r, from, "handled")
    BY <1>7, <2>1, <2>2 DEF Moves
  <2>4. QED
    BY <1>7, <2>1, <2>2, <2>3 DEF Raised, SameLife, SameSeen, SameServed
<1>8. ASSUME NEW r \in Requests, LogFails(r) \/ PredictRaises(r)
      PROVE  Raised(r)
  <2>1. req[r].phase \in {"reading", "logging"} /\ up
    BY <1>b, <1>8 DEF LogFails, PredictRaises, InFlight
  <2>2. /\ req' = [req EXCEPT ![r] = Raise(r)]
        /\ UNCHANGED <<snapshot, up, life, context, metrics, log>>
    BY <1>8 DEF LogFails, PredictRaises
  <2>3. QED
    BY <1>7, <2>1, <2>2
<1>9. ASSUME NEW r \in Requests, LogRequest(r)
      PROVE  Logged(r)
  <2> DEFINE status == StatusOf[req[r].outcome]
             x == Return(r, status)
  <2> HIDE DEF status
  <2>1. /\ x.phase = "handled" /\ x.status = status /\ x.outcome = req[r].outcome
        /\ x.life = req[r].life /\ x.kind = req[r].kind /\ x.zone = req[r].zone
        /\ x.seen = req[r].seen /\ x.served = req[r].served /\ x.id = req[r].id
    BY <1>a DEF RequestState, Return
  <2> HIDE DEF x
  <2>2. (\A q \in Requests \ {r} : req'[q] = req[q]) /\ req'[r] = x
    BY <1>c, <1>9 DEF LogRequest, x, status
  <2>3. Moves(r, "logging", "handled")
    BY <1>b, <1>9, <2>1, <2>2 DEF LogRequest, Moves, InFlight
  <2>4. req'[r].status = StatusOf[req[r].outcome] /\ req'[r].outcome = req[r].outcome
    BY <2>1, <2>2 DEF status
  <2>5. QED
    BY <1>9, <2>1, <2>2, <2>3, <2>4
       DEF LogRequest, Logged, SameId, SameLife, SameOutcome, SameSeen, SameServed
<1>10. ASSUME NEW r \in Requests, Health(r)
       PROVE  Raised(r) \/ Looked(r)
  <2>1. /\ up /\ req[r].phase \in {"sent", "health"}
        /\ req[r].kind = "health" \/ req[r].phase = "health"
        /\ req' = [req EXCEPT ![r] = ReadinessRead(r)]
        /\ UNCHANGED <<snapshot, up, life, context, metrics, log>>
    BY <1>b, <1>10 DEF Health, Dispatch, InFlight
  <2>2. CASE IsReadyRaises
    BY <1>7, <2>1, <2>2 DEF ReadinessRead
  <2>3. CASE ~IsReadyRaises
    <3> DEFINE seen == Append(req[r].seen, IsReady)
               answer == Return(r, 200)
               x == ReadinessRead(r)
    <3>1. x = IF Len(seen) = 2 THEN [answer EXCEPT !.seen = seen]
              ELSE [req[r] EXCEPT !.phase = "health", !.seen = seen]
      BY <2>3 DEF ReadinessRead
    <3>2. /\ answer \in RequestState /\ answer.phase = "handled" /\ answer.status = 200
          /\ answer.outcome = req[r].outcome
          /\ answer.life = req[r].life /\ answer.kind = req[r].kind /\ answer.zone = req[r].zone
          /\ answer.served = req[r].served
      <4>1. answer \in RequestState
        BY <1>a, ReturnTypes, StatusNumbers
      <4>2. QED
        BY <1>a, <4>1 DEF RequestState, Return
    <3> HIDE DEF seen, answer, x
    <3>3. CASE Len(seen) = 2
      <4>1. x = [answer EXCEPT !.seen = seen]
        BY <3>1, <3>3
      <4>2. /\ x.phase = "handled" /\ x.status = 200 /\ x.outcome = req[r].outcome
            /\ x.life = req[r].life /\ x.kind = req[r].kind /\ x.zone = req[r].zone
            /\ x.served = req[r].served /\ x.seen = seen
        BY <3>2, <4>1 DEF RequestState
      <4>3. (\A q \in Requests \ {r} : req'[q] = req[q]) /\ req'[r] = x
        BY <1>c, <2>1 DEF x
      <4>5. \E from \in {"sent", "health"} : Moves(r, from, "handled")
        BY <2>1, <4>2, <4>3 DEF Moves
      <4>6. req'[r].seen = Append(req[r].seen, IsReady)
        BY <4>2, <4>3 DEF seen
      <4>7. QED
        BY <2>1, <2>3, <4>2, <4>3, <4>5, <4>6
           DEF Looked, SameLife, SameOutcome, SameServed
    <3>4. CASE Len(seen) # 2
      <4>1. x = [req[r] EXCEPT !.phase = "health", !.seen = seen]
        BY <3>1, <3>4
      <4>2. /\ x.phase = "health" /\ x.status = req[r].status /\ x.outcome = req[r].outcome
            /\ x.life = req[r].life /\ x.kind = req[r].kind /\ x.zone = req[r].zone
            /\ x.served = req[r].served /\ x.seen = seen
        BY <1>a, <4>1 DEF RequestState
      <4>3. (\A q \in Requests \ {r} : req'[q] = req[q]) /\ req'[r] = x
        BY <1>c, <2>1 DEF x
      <4>5. \E from \in {"sent", "health"} : Moves(r, from, "health")
        BY <2>1, <4>2, <4>3 DEF Moves
      <4>6. req'[r].seen = Append(req[r].seen, IsReady)
        BY <4>2, <4>3 DEF seen
      <4>7. QED
        BY <2>1, <2>3, <4>2, <4>3, <4>5, <4>6
           DEF Looked, SameLife, SameOutcome, SameServed
    <3>5. QED
      BY <3>3, <3>4
  <2>4. QED
    BY <2>2, <2>3
<1>11. QED
  BY <1>1, <1>2, <1>3, <1>4, <1>5, <1>6, <1>8, <1>9, <1>10
     DEF Next, ApiNext, Endpoint, RequestMoves

-----------------------------------------------------------------------------
(* What the remaining invariants lean on.  A request under way belongs to the
   running process; one whose endpoint function has not got past its first
   reads has no outcome yet; and a store found at start-up means that the file
   exists, which no writer takes back. *)
RequestInv ==
  /\ \A r \in Requests : req[r].life <= life
  /\ \A r \in Requests : InFlight(r) => req[r].life = life
  /\ \A r \in Requests :
       req[r].phase \in {"new", "sent", "reading"} =>
         req[r].outcome = "pending" /\ req[r].served = NoRow
  /\ \A r \in Requests : req[r].phase = "new" => req[r].seen = << >>
  /\ \A r \in Requests : req[r].phase = "reading" => context.store
  /\ \A r \in Requests : req[r].phase = "health" => req[r].kind = "health"
  /\ up /\ context.store => snapshot # Absent

LEMMA RequestInit == Init => RequestInv
<1> SUFFICES ASSUME Init
             PROVE  RequestInv
  OBVIOUS
<1>1. \A r \in Requests : /\ req[r].phase = "new" /\ req[r].life = 0
                          /\ req[r].outcome = "pending" /\ req[r].served = NoRow
                          /\ req[r].seen = << >>
  BY DEF Init, ApiInit, NewRequest
<1>2. life = 0 /\ up = FALSE
  BY DEF Init, ApiInit
<1>3. QED
  BY <1>1, <1>2 DEF RequestInv, InFlight

(* The file is never absent again once it has been there. *)
LEMMA FileStays ==
  ASSUME FileTypeOK, FileNext \/ UNCHANGED snapshot, snapshot # Absent
  PROVE  snapshot' # Absent
<1>1. \A rows \in Materialisable : rows # Absent
  BY SnapshotAssumption
<1>2. QED
  BY <1>1, SnapshotAssumption DEF FileNext, Tear, Put

LEMMA RequestStep == ApiTyped /\ IdInv /\ RequestInv /\ [Next]_vars => RequestInv'
<1> SUFFICES ASSUME ApiTyped, IdInv, RequestInv, [Next]_vars
             PROVE  RequestInv'
  OBVIOUS
<1>a. /\ life \in Nat /\ req \in [Requests -> RequestState]
      /\ \A r \in Requests : req[r] \in RequestState /\ req[r].life \in Nat
  BY DEF ApiTyped, ApiTypeOK, RequestState
<1>1. CASE Start
  <2>1. \A r \in Requests : ~InFlight(r)
    BY <1>1 DEF Start, IdInv
  <2>2. life' = life + 1 /\ UNCHANGED <<snapshot, req>> /\ (context'.store => Readable)
    BY <1>1 DEF Start
  <2>3. Readable => snapshot # Absent
    BY SnapshotAssumption DEF Readable
  <2>4. \A r \in Requests : req'[r].life <= life'
    BY <1>a, <2>2 DEF RequestInv
  <2>5. QED
    BY <2>1, <2>2, <2>3, <2>4 DEF RequestInv, InFlight
<1>2. CASE Crash
  <2>1. \A r \in Requests : IF InFlight(r) THEN req'[r] = [req[r] EXCEPT !.phase = "lost"]
                                           ELSE req'[r] = req[r]
    BY <1>2, Zenon DEF Crash
  <2>2. \A r \in Requests :
          /\ req'[r].life = req[r].life /\ req'[r].outcome = req[r].outcome
          /\ req'[r].served = req[r].served /\ req'[r].seen = req[r].seen
          /\ req'[r].kind = req[r].kind
          /\ req'[r].phase = IF InFlight(r) THEN "lost" ELSE req[r].phase
    BY <1>a, <2>1 DEF RequestState
  <2>3. ~up' /\ life' = life
    BY <1>2 DEF Crash
  <2>4. QED
    BY <2>2, <2>3 DEF RequestInv, InFlight
<1>3. ASSUME NEW r \in Requests, RequestMoves(r)
      PROVE  RequestInv'
  <2>1. /\ \A q \in Requests \ {r} : req'[q] = req[q]
        /\ req'[r].kind = req[r].kind
        /\ UNCHANGED <<snapshot, up, life, context>>
    BY <1>3 DEF RequestMoves, Moves, Rejected, Let, Responded, Answered, Checked, Failed,
                Predicted, Raised, Logged, Looked
  <2>2. /\ req'[r].life <= life
        /\ InFlight(r)' => req'[r].life = life
    <3>1. CASE Rejected(r) \/ Let(r)
      BY <1>a, <3>1 DEF Rejected, Let
    <3>2. CASE ~(Rejected(r) \/ Let(r))
      <4>1. SameLife(r) /\ InFlight(r)
        BY <1>3, <3>2 DEF RequestMoves, Responded, Answered, Checked, Failed,
                          Predicted, Raised, Logged, Looked, Moves, InFlight
      <4>2. QED
        BY <4>1 DEF SameLife, RequestInv
    <3>3. QED
      BY <3>1, <3>2
  <2>3. req'[r].phase \in {"new", "sent", "reading"} =>
          req'[r].outcome = "pending" /\ req'[r].served = NoRow
    BY <1>3 DEF RequestMoves, Moves, Rejected, Let, Responded, Answered, Checked, Failed,
                Predicted, Raised, Logged, Looked, RequestInv, SameOutcome, SameServed
  <2>4. req'[r].phase # "new"
    BY <1>3 DEF RequestMoves, Moves, Rejected, Let, Responded, Answered, Checked, Failed,
                Predicted, Raised, Logged, Looked
  <2>5. req'[r].phase = "reading" => context.store
    <3>1. CASE Checked(r)
      <4>a. Moves(r, "sent", "logging") => req'[r].phase # "reading"
        BY DEF Moves
      <4>1. req'[r].phase = "reading" => IsReady
        BY <3>1, <4>a, Zenon DEF Checked
      <4>2. IsReady => context.store
        BY DEF IsReady, Loaded
      <4>3. QED
        BY <4>1, <4>2
    <3>2. CASE ~Checked(r)
      BY <1>3, <3>2 DEF RequestMoves, Moves, Rejected, Let, Responded, Answered, Failed,
                        Predicted, Raised, Logged, Looked
    <3>3. QED
      BY <3>1, <3>2
  <2>6. req'[r].phase = "health" => req'[r].kind = "health"
    BY <1>3, <2>1 DEF RequestMoves, Moves, Rejected, Let, Responded, Answered, Checked, Failed,
                Predicted, Raised, Logged, Looked, RequestInv
  <2>7. QED
    BY <2>1, <2>2, <2>3, <2>4, <2>5, <2>6 DEF RequestInv, InFlight
<1>4. CASE UNCHANGED apiVars /\ (FileNext \/ UNCHANGED snapshot)
  <2>1. snapshot # Absent => snapshot' # Absent
    BY <1>4, FileStays DEF ApiTyped
  <2>2. UNCHANGED <<req, life, up, context>>
    BY <1>4 DEF apiVars
  <2>3. QED
    BY <2>1, <2>2 DEF RequestInv, InFlight
<1>5. QED
  BY <1>1, <1>2, <1>3, <1>4, Effects

-----------------------------------------------------------------------------
(* A 404 has found the zone missing in rows a command had written. *)
Missing(zone) == \E rows \in Materialisable : rows[zone] = NoRow

ZoneInv ==
  \A r \in Requests :
    req[r].outcome = "unknown_zone" \/ req[r].status = 404 => Missing(req[r].zone)

LEMMA ReadMissing ==
  ASSUME NEW zone \in Zones, FileTypeOK, snapshot # Absent, ~ReadRaises, RowOf(zone) = NoRow
  PROVE  Missing(zone)
BY DEF FileTypeOK, ReadRaises, RowOf, Readable, Missing

LEMMA StatusOf404 == \A o \in Outcomes : StatusOf[o] = 404 => o = "unknown_zone"
BY DEF StatusOf, Outcomes

LEMMA ZoneStep ==
  ApiTyped /\ IdInv /\ RequestInv /\ ZoneInv /\ [Next]_vars => ZoneInv'
<1> SUFFICES ASSUME ApiTyped, IdInv, RequestInv, ZoneInv, [Next]_vars
             PROVE  ZoneInv'
  OBVIOUS
<1>a. \A r \in Requests : req[r] \in RequestState /\ req[r].zone \in Zones
  BY DEF ApiTyped, ApiTypeOK, RequestState
<1>1. CASE Start
  BY <1>1 DEF Start, ZoneInv
<1>2. CASE Crash
  <2>1. \A r \in Requests : \/ req'[r] = [req[r] EXCEPT !.phase = "lost"]
                            \/ req'[r] = req[r]
    BY <1>2, Zenon DEF Crash
  <2>2. \A r \in Requests : /\ req'[r].outcome = req[r].outcome
                            /\ req'[r].status = req[r].status /\ req'[r].zone = req[r].zone
    BY <1>a, <2>1 DEF RequestState
  <2>3. QED
    BY <2>2 DEF ZoneInv
<1>3. ASSUME NEW r \in Requests, RequestMoves(r)
      PROVE  ZoneInv'
  <2>1. /\ \A q \in Requests \ {r} : req'[q] = req[q]
        /\ req'[r].zone = req[r].zone /\ up
    BY <1>3 DEF RequestMoves, Moves, Rejected, Let, Responded, Answered, Checked, Failed,
                Predicted, Raised, Logged, Looked
  <2>2. ASSUME context.store, ~ReadRaises, RowOf(req[r].zone) = NoRow
        PROVE  Missing(req[r].zone)
    BY <1>a, <2>1, <2>2, ReadMissing DEF RequestInv, ApiTyped
  <2>3. req'[r].status = 404 => Missing(req[r].zone)
    <3>1. CASE Logged(r)
      <4>1. req[r].outcome \in Outcomes
        BY <3>1 DEF Logged, Moves, ApiTyped, LoggingHasOutcome
      <4>2. req'[r].status = StatusOf[req[r].outcome]
        BY <3>1 DEF Logged
      <4>3. StatusOf[req[r].outcome] = 404 => req[r].outcome = "unknown_zone"
        BY <4>1, StatusOf404
      <4>4. req[r].outcome = "unknown_zone" => Missing(req[r].zone)
        BY DEF ZoneInv
      <4>5. QED
        BY <4>2, <4>3, <4>4
    <3>2. CASE Answered(r)
      BY <2>2, <3>2 DEF Answered
    <3>3. CASE ~Logged(r) /\ ~Answered(r)
      BY <1>3, <3>3 DEF RequestMoves, Rejected, Let, Responded, Checked, Failed,
                        Predicted, Raised, Looked, SameStatus, ZoneInv
    <3>4. QED
      BY <3>1, <3>2, <3>3
  <2>4. req'[r].outcome = "unknown_zone" => Missing(req[r].zone)
    <3>1. CASE Failed(r)
      <4>1. context.store
        BY <3>1 DEF Failed, Moves, RequestInv
      <4>2. QED
        BY <2>2, <3>1, <4>1 DEF Failed
    <3>2. CASE ~Failed(r)
      BY <1>3, <3>2 DEF RequestMoves, Rejected, Let, Responded, Answered, Checked,
                        Predicted, Raised, Logged, Looked, SameOutcome, ZoneInv
    <3>3. QED
      BY <3>1, <3>2
  <2>5. QED
    BY <2>1, <2>3, <2>4 DEF ZoneInv
<1>4. CASE UNCHANGED apiVars
  BY <1>4 DEF apiVars, ZoneInv
<1>5. QED
  BY <1>1, <1>2, <1>3, <1>4, Effects

(* KnownZoneNeverUnknown: a zone that every materialisation holds is never
   answered 404, for every interleaving of requests with the commands that
   rewrite the snapshot under them. *)
THEOREM KnownZonesAreKnown == Spec => []KnownZoneNeverUnknown
<1>1. Init => ZoneInv
  BY DEF Init, ApiInit, NewRequest, ZoneInv
<1>2. ZoneInv => KnownZoneNeverUnknown
  BY DEF ZoneInv, Missing, KnownZoneNeverUnknown
<1>3. QED
  BY TypeInit, TypeStep, IdInit, IdStep, RequestInit, RequestStep, ZoneStep, <1>1, <1>2, PTL
     DEF Spec

-----------------------------------------------------------------------------
(* A loaded process that reads without an exception finds the snapshot. *)
LEMMA LoadedReads ==
  ASSUME FileTypeOK, Loaded, snapshot # Absent, ~IsReadyRaises
  PROVE  IsReady
BY DEF FileTypeOK, Loaded, IsReadyRaises, ReadRaises, IsReady, Readable

LEMMA ReadyStep ==
  ApiTyped /\ IdInv /\ RequestInv /\ ReadyNeverLapses /\ [Next]_vars => ReadyNeverLapses'
<1> SUFFICES ASSUME ApiTyped, IdInv, RequestInv, ReadyNeverLapses, [Next]_vars
             PROVE  ReadyNeverLapses'
  OBVIOUS
<1>a. /\ life \in Nat
      /\ \A r \in Requests : req[r].life \in Nat /\ req[r].seen \in Seq(BOOLEAN)
  BY DEF ApiTyped, ApiTypeOK, RequestState
<1>1. CASE Start
  <2>1. \A r \in Requests : req'[r].life <= life /\ life' = life + 1
    BY <1>1 DEF Start, RequestInv
  <2>2. \A r \in Requests : req'[r].life # life'
    BY <1>1, <1>a, <2>1 DEF Start
  <2>3. QED
    BY <2>2 DEF ReadyNeverLapses
<1>2. CASE Crash
  BY <1>2 DEF Crash, ReadyNeverLapses
<1>3. ASSUME NEW r \in Requests, RequestMoves(r)
      PROVE  ReadyNeverLapses'
  <2>1. /\ \A q \in Requests \ {r} : req'[q] = req[q]
        /\ up /\ UNCHANGED <<snapshot, up, life, context>>
    BY <1>3 DEF RequestMoves, Moves, Rejected, Let, Responded, Answered, Checked, Failed,
                Predicted, Raised, Logged, Looked
  <2>2. Loaded' <=> Loaded
    BY <2>1 DEF Loaded
  <2>3. SUFFICES ASSUME Loaded, req'[r].life = life
                 PROVE  /\ req'[r].outcome # "not_ready"
                        /\ \A i \in 1..Len(req'[r].seen) : req'[r].seen[i]
    BY <2>1, <2>2 DEF ReadyNeverLapses
  <2>4. /\ req[r].outcome # "not_ready"
        /\ \A i \in 1..Len(req[r].seen) : req[r].seen[i]
    <3>1. CASE req[r].phase = "new"
      BY <3>1 DEF RequestInv
    <3>2. CASE InFlight(r)
      BY <2>1, <2>3, <3>2 DEF RequestInv, ReadyNeverLapses
    <3>3. QED
      BY <1>3, <3>1, <3>2 DEF RequestMoves, Moves, Rejected, Let, Responded, Answered, Checked,
                              Failed, Predicted, Raised, Logged, Looked, InFlight
  <2>5. ASSUME ~IsReadyRaises
        PROVE  IsReady
    BY <2>1, <2>3, <2>5, LoadedReads DEF RequestInv, ApiTyped, Loaded
  <2>6. req'[r].outcome # "not_ready"
    BY <1>3, <2>4, <2>5
       DEF RequestMoves, Rejected, Let, Responded, Answered, Checked, Failed,
           Predicted, Raised, Logged, Looked, SameOutcome
  <2>7. \A i \in 1..Len(req'[r].seen) : req'[r].seen[i]
    <3>1. CASE Looked(r)
      <4>1. req'[r].seen = Append(req[r].seen, IsReady) /\ IsReady
        BY <2>5, <3>1 DEF Looked
      <4>3. IsReady \in BOOLEAN
        BY DEF ApiTyped, ApiTypeOK, IsReady, Loaded, Readable
      <4>4. QED
        BY <1>a, <2>4, <4>1, <4>3
    <3>2. CASE SameSeen(r)
      BY <2>4, <3>2 DEF SameSeen
    <3>3. QED
      BY <1>3, <3>1, <3>2 DEF RequestMoves, Rejected, Let, Responded, Answered, Checked,
                              Failed, Predicted, Raised, Logged
  <2>8. QED
    BY <2>6, <2>7
<1>4. CASE UNCHANGED apiVars
  BY <1>4 DEF apiVars, ReadyNeverLapses, Loaded
<1>5. QED
  BY <1>1, <1>2, <1>3, <1>4, Effects

(* ReadyNeverLapses: a process that loaded everything at start-up finds itself
   ready at every later look, or raises. *)
THEOREM ReadinessLasts == Spec => []ReadyNeverLapses
<1>1. Init => ReadyNeverLapses
  BY DEF Init, ApiInit, ReadyNeverLapses
<1>2. QED
  BY TypeInit, TypeStep, IdInit, IdStep, RequestInit, RequestStep, ReadyStep, <1>1, PTL
     DEF Spec

-----------------------------------------------------------------------------
(* AnsweredIsLogged as an induction: a request has no row while it is under
   way, and the row it gets on its way out is the last one it gets. *)
HasNoRow(r) == \A i \in 1..Len(log) : log[i].by # r

RowTells(r) ==
  \E i \in 1..Len(log) :
    /\ log[i].by = r
    /\ log[i].id = req[r].id
    /\ log[i].life = req[r].life
    /\ StatusOf[log[i].outcome] = req[r].status

OwesRow(r) ==
  /\ req[r].phase \in {"handled", "done"} /\ req[r].kind = "predict"
  /\ req[r].outcome # "raised" /\ req[r].status # 422

RowInv ==
  /\ \A i, j \in 1..Len(log) : log[i].by = log[j].by => i = j
  /\ \A r \in Requests :
       req[r].phase \in {"new", "sent", "reading", "health", "logging", "rejected"} => HasNoRow(r)
  /\ \A r \in Requests :
       /\ req[r].phase \in {"handled", "done"} /\ req[r].kind = "predict"
       /\ req[r].outcome = "raised" \/ req[r].status = 422
       => HasNoRow(r)
  /\ \A r \in Requests : OwesRow(r) => RowTells(r)

LEMMA StatusOfNever422 == \A o \in Outcomes : StatusOf[o] # 422 /\ o # "raised"
BY DEF StatusOf, Outcomes

(* Requests other than the one that moves keep their rows. *)
LEMMA RowKept ==
  ASSUME NEW q \in Requests, req'[q] = req[q], UNCHANGED log
  PROVE  /\ HasNoRow(q)' <=> HasNoRow(q)
         /\ RowTells(q)' <=> RowTells(q)
         /\ OwesRow(q)' <=> OwesRow(q)
BY DEF HasNoRow, RowTells, OwesRow

LEMMA RowStep ==
  ApiTyped /\ IdInv /\ RequestInv /\ RowInv /\ [Next]_vars => RowInv'
<1> SUFFICES ASSUME ApiTyped, IdInv, RequestInv, RowInv, [Next]_vars
             PROVE  RowInv'
  OBVIOUS
<1>a. /\ log \in Seq(LogRow)
      /\ \A r \in Requests : req[r] \in RequestState
  BY DEF ApiTyped, ApiTypeOK
<1>1. CASE Start
  BY <1>1 DEF Start, RowInv, HasNoRow, RowTells, OwesRow
<1>2. CASE Crash
  <2>1. \A r \in Requests : IF InFlight(r) THEN req'[r] = [req[r] EXCEPT !.phase = "lost"]
                                           ELSE req'[r] = req[r]
    BY <1>2, Zenon DEF Crash
  <2>2. \A r \in Requests : req'[r].phase = "lost" \/ req'[r] = req[r]
    BY <1>a, <2>1 DEF RequestState
  <2>3. UNCHANGED log
    BY <1>2 DEF Crash
  <2>4. QED
    BY <2>2, <2>3, RowKept DEF RowInv, OwesRow
<1>3. ASSUME NEW r \in Requests, RequestMoves(r), UNCHANGED log
      PROVE  RowInv'
  <2>1. /\ \A q \in Requests \ {r} : req'[q] = req[q]
        /\ req'[r].kind = req[r].kind
    BY <1>3 DEF RequestMoves, Moves, Rejected, Let, Responded, Answered, Checked, Failed,
                Predicted, Raised, Logged, Looked
  <2>2. HasNoRow(r)' <=> HasNoRow(r)
    BY <1>3 DEF HasNoRow
  <2>3. SUFFICES
          /\ req'[r].phase \in {"new", "sent", "reading", "health", "logging", "rejected"}
               => HasNoRow(r)
          /\ /\ req'[r].phase \in {"handled", "done"} /\ req'[r].kind = "predict"
             /\ req'[r].outcome = "raised" \/ req'[r].status = 422
             => HasNoRow(r)
          /\ OwesRow(r)' => RowTells(r)'
    <3>1. \A q \in Requests \ {r} : /\ HasNoRow(q)' <=> HasNoRow(q)
                                    /\ RowTells(q)' <=> RowTells(q)
                                    /\ OwesRow(q)' <=> OwesRow(q)
      BY <1>3, <2>1, RowKept
    <3>2. QED
      BY <1>3, <2>1, <2>2, <3>1 DEF RowInv
  <2>4. CASE Responded(r)
    <3>1. /\ req[r].phase = "handled" /\ req'[r].phase = "done"
          /\ req'[r].outcome = req[r].outcome /\ req'[r].status = req[r].status
          /\ req'[r].id = req[r].id /\ req'[r].life = req[r].life
      BY <2>4 DEF Responded, Moves, SameId, SameLife, SameStatus, SameOutcome
    <3>2. OwesRow(r)' => OwesRow(r)
      BY <2>1, <3>1 DEF OwesRow
    <3>3. RowTells(r) => RowTells(r)'
      BY <1>3, <3>1 DEF RowTells
    <3>4. QED
      BY <2>1, <3>1, <3>2, <3>3 DEF RowInv
  <2>5. CASE Rejected(r) \/ Let(r) \/ Checked(r) \/ Failed(r) \/ Predicted(r)
    <3>1. /\ req[r].phase \in {"new", "sent", "reading"}
          /\ req'[r].phase \notin {"handled", "done"}
      BY <2>5 DEF Rejected, Let, Checked, Failed, Predicted, Moves
    <3>2. QED
      BY <3>1 DEF RowInv, OwesRow
  <2>6. CASE Answered(r) \/ Raised(r) \/ Looked(r)
    <3>1. /\ req[r].phase \in {"sent", "reading", "logging", "health"}
          /\ req'[r].phase \in {"health", "handled"}
      BY <2>6 DEF Answered, Raised, Looked, Moves
    <3>2. ~OwesRow(r)'
      BY <2>1, <2>6 DEF Answered, Raised, Looked, OwesRow, RequestInv
    <3>3. QED
      BY <3>1, <3>2 DEF RowInv
  <2>7. ~Logged(r)
    <3>1. Len(Append(log, [id |-> req[r].id, zone |-> req[r].zone, outcome |-> req[r].outcome,
                           life |-> life, by |-> r])) = Len(log) + 1
      BY <1>a
    <3>2. QED
      BY <1>3, <1>a, <3>1 DEF Logged
  <2>8. QED
    BY <1>3, <2>4, <2>5, <2>6, <2>7 DEF RequestMoves
<1>4. ASSUME NEW r \in Requests, Logged(r)
      PROVE  RowInv'
  <2> DEFINE row == [id |-> req[r].id, zone |-> req[r].zone, outcome |-> req[r].outcome,
                     life |-> life, by |-> r]
             last == Len(log) + 1
  <2>1. /\ \A q \in Requests \ {r} : req'[q] = req[q]
        /\ req[r].phase = "logging" /\ req'[r].phase = "handled"
        /\ req'[r].id = req[r].id /\ req'[r].life = req[r].life
        /\ req'[r].outcome = req[r].outcome
        /\ req'[r].status = StatusOf[req[r].outcome]
        /\ log' = Append(log, row)
    BY <1>4 DEF Logged, Moves, SameId, SameLife, SameOutcome
  <2>2. HasNoRow(r) /\ req[r].life = life /\ req[r].outcome \in Outcomes
    BY <2>1 DEF RowInv, RequestInv, InFlight, ApiTyped, LoggingHasOutcome
  <2>3. /\ row.by = r /\ row.id = req'[r].id /\ row.life = req'[r].life
        /\ StatusOf[row.outcome] = req'[r].status
    BY <2>1, <2>2
  <2> HIDE DEF row
  <2>4. /\ Len(log') = last
        /\ \A i \in 1..Len(log) : log'[i] = log[i]
        /\ log'[last] = row
        /\ Len(log) \in Nat
    BY <1>a, <2>1
  <2>5. \A i \in 1..Len(log') : i \in 1..Len(log) \/ i = last
    BY <2>4
  <2>6. \A i, j \in 1..Len(log') : log'[i].by = log'[j].by => i = j
    BY <2>2, <2>3, <2>4, <2>5 DEF RowInv, HasNoRow
  <2>7. RowTells(r)'
    <3>1. last \in 1..Len(log')
      BY <2>4
    <3>2. QED
      BY <2>3, <2>4, <3>1 DEF RowTells
  <2>8. ASSUME NEW q \in Requests \ {r}
        PROVE  /\ HasNoRow(q) => HasNoRow(q)'
               /\ RowTells(q) => RowTells(q)'
               /\ OwesRow(q)' <=> OwesRow(q)
    <3>1. HasNoRow(q) => HasNoRow(q)'
      BY <2>3, <2>4, <2>5 DEF HasNoRow
    <3>2. \A i \in 1..Len(log) : i \in 1..Len(log')
      BY <2>4
    <3>3. RowTells(q) => RowTells(q)'
      BY <2>1, <2>4, <3>2 DEF RowTells
    <3>4. OwesRow(q)' <=> OwesRow(q)
      BY <2>1 DEF OwesRow
    <3>5. QED
      BY <3>1, <3>3, <3>4
  <2>9. req'[r].outcome # "raised" /\ req'[r].status # 422
    BY <2>1, <2>2, StatusOfNever422
  <2>10. QED
    BY <2>1, <2>6, <2>7, <2>8, <2>9 DEF RowInv
<1>5. CASE UNCHANGED apiVars
  BY <1>5 DEF apiVars, RowInv, HasNoRow, RowTells, OwesRow
<1>6. QED
  <2>1. ASSUME NEW r \in Requests, RequestMoves(r)
        PROVE  UNCHANGED log \/ Logged(r)
    BY <2>1 DEF RequestMoves, Rejected, Let, Responded, Answered, Checked, Failed,
                Predicted, Raised, Looked
  <2>2. QED
    BY <1>1, <1>2, <1>3, <1>4, <1>5, <2>1, Effects

LEMMA RowsCounted == ApiTyped /\ RowInv => AnsweredIsLogged
<1> SUFFICES ASSUME ApiTyped, RowInv, NEW r \in Requests
             PROVE  /\ req[r].phase \in {"handled", "done"} /\ req[r].kind = "predict" =>
                         IF req[r].outcome = "raised" \/ req[r].status = 422
                         THEN RowsOf(r) = {}
                         ELSE \E i \in RowsOf(r) :
                                /\ RowsOf(r) = {i}
                                /\ log[i].id = req[r].id
                                /\ log[i].life = req[r].life
                                /\ StatusOf[log[i].outcome] = req[r].status
                    /\ req[r].phase \in {"sent", "reading", "health", "logging", "rejected"} =>
                         RowsOf(r) = {}
                    /\ Cardinality(RowsOf(r)) <= 1
  BY DEF AnsweredIsLogged
<1>1. HasNoRow(r) => RowsOf(r) = {}
  BY DEF HasNoRow, RowsOf
<1>2. \A i \in RowsOf(r) : RowsOf(r) = {i}
  BY DEF RowInv, RowsOf
<1>3. Cardinality(RowsOf(r)) <= 1
  <2>1. CASE RowsOf(r) = {}
    BY <2>1, FS_EmptySet
  <2>2. CASE \E i \in RowsOf(r) : RowsOf(r) = {i}
    <3>1. PICK i \in RowsOf(r) : RowsOf(r) = {i}
      BY <2>2
    <3>2. Cardinality({i}) = 1
      BY FS_Singleton
    <3>3. QED
      BY <3>1, <3>2
  <2>3. QED
    BY <1>2, <2>1, <2>2
<1>4. RowTells(r) => \E i \in RowsOf(r) :
                       /\ RowsOf(r) = {i}
                       /\ log[i].id = req[r].id
                       /\ log[i].life = req[r].life
                       /\ StatusOf[log[i].outcome] = req[r].status
  <2>1. ASSUME NEW i \in 1..Len(log), log[i].by = r
        PROVE  i \in RowsOf(r) /\ RowsOf(r) = {i}
    BY <1>2, <2>1 DEF RowsOf
  <2>2. QED
    BY <2>1 DEF RowTells
<1>5. QED
  BY <1>1, <1>3, <1>4 DEF RowInv, OwesRow

(* AnsweredIsLogged: one row per answered prediction, with the answer's id,
   process and status; none for a request that failed before its row. *)
THEOREM AnswersAreLogged == Spec => []AnsweredIsLogged
<1>1. Init => RowInv
  <2>1. Init => log = << >> /\ \A r \in Requests : req[r].phase = "new"
    BY DEF Init, ApiInit, NewRequest
  <2>2. QED
    BY <2>1 DEF RowInv, HasNoRow, OwesRow
<1>2. QED
  BY TypeInit, TypeStep, IdInit, IdStep, RequestInit, RequestStep, RowStep, RowsCounted, <1>1,
     PTL DEF Spec

-----------------------------------------------------------------------------
(* MetricsAddUp: the three sets the counters count. *)
AcceptedSet == {r \in Requests : Accepted(r)}

ErrorSet == {r \in Requests : Accepted(r) /\ req[r].phase = "done" /\ IsError(r)}

ServedSet == {r \in Requests : Accepted(r) /\ req[r].served # NoRow}

Counted ==
  up => /\ metrics.requests = Cardinality(AcceptedSet)
        /\ metrics.errors = Cardinality(ErrorSet)
        /\ metrics.predictions = Cardinality(ServedSet)

LEMMA OneMore ==
  ASSUME NEW S \in SUBSET Requests, NEW r \in Requests, r \notin S
  PROVE  Cardinality(S \cup {r}) = Cardinality(S) + 1
<1>1. IsFiniteSet(S)
  BY ApiAssumption, FS_Subset
<1>2. QED
  BY <1>1, FS_AddElement

LEMMA CountStep ==
  ApiTyped /\ IdInv /\ RequestInv /\ Counted /\ [Next]_vars => Counted'
<1> SUFFICES ASSUME ApiTyped, IdInv, RequestInv, Counted, [Next]_vars
             PROVE  Counted'
  OBVIOUS
<1>a. /\ life \in Nat /\ metrics \in [requests : Nat, predictions : Nat, errors : Nat]
      /\ \A r \in Requests : req[r].life \in Nat
  BY DEF ApiTyped, ApiTypeOK, RequestState
<1>b. /\ AcceptedSet \in SUBSET Requests /\ ErrorSet \in SUBSET Requests
      /\ ServedSet \in SUBSET Requests
  BY DEF AcceptedSet, ErrorSet, ServedSet
<1>1. CASE Start
  <2>1. \A r \in Requests : req'[r].life <= life /\ req'[r].life \in Nat /\ life' = life + 1
    BY <1>1, <1>a DEF Start, RequestInv
  <2>2. \A r \in Requests : ~Accepted(r)'
    BY <1>a, <2>1 DEF Accepted
  <2>3. AcceptedSet' = {} /\ ErrorSet' = {} /\ ServedSet' = {}
    BY <2>2 DEF AcceptedSet, ErrorSet, ServedSet
  <2>4. metrics' = ZeroMetrics
    BY <1>1 DEF Start
  <2>5. QED
    BY <2>3, <2>4, FS_EmptySet DEF Counted, ZeroMetrics
<1>2. CASE Crash
  BY <1>2 DEF Crash, Counted
<1>3. ASSUME NEW r \in Requests, RequestMoves(r)
      PROVE  Counted'
  <2>1. /\ \A q \in Requests \ {r} : req'[q] = req[q]
        /\ up /\ UNCHANGED <<up, life>>
    BY <1>3 DEF RequestMoves, Moves, Rejected, Let, Responded, Answered, Checked, Failed,
                Predicted, Raised, Logged, Looked
  <2>2. /\ metrics.requests = Cardinality(AcceptedSet)
        /\ metrics.errors = Cardinality(ErrorSet)
        /\ metrics.predictions = Cardinality(ServedSet)
    BY <2>1 DEF Counted
  <2>3. \A q \in Requests \ {r} :
          /\ Accepted(q)' <=> Accepted(q)
          /\ IsError(q)' <=> IsError(q)
    BY <2>1 DEF Accepted, IsError
  <2>4. ASSUME Accepted(r)' <=> Accepted(r)
        PROVE  AcceptedSet' = AcceptedSet
    BY <2>3, <2>4 DEF AcceptedSet
  <2>5. ASSUME req[r].phase # "done", req'[r].phase # "done"
        PROVE  ErrorSet' = ErrorSet
    BY <2>1, <2>3, <2>5 DEF ErrorSet
  <2>6. ASSUME (Accepted(r) /\ req[r].served # NoRow)'
                 <=> (Accepted(r) /\ req[r].served # NoRow)
        PROVE  ServedSet' = ServedSet
    BY <2>1, <2>3, <2>6 DEF ServedSet
  <2>7. InFlight(r) => Accepted(r) /\ req[r].life = life
    BY DEF RequestInv, InFlight, Accepted
  <2>8. CASE Rejected(r)
    <3>1. req[r].phase = "new" /\ req'[r].phase = "rejected" /\ metrics' = metrics
      BY <2>8 DEF Rejected, Moves
    <3>2. ~Accepted(r) /\ ~Accepted(r)'
      BY <3>1 DEF Accepted
    <3>3. AcceptedSet' = AcceptedSet /\ ErrorSet' = ErrorSet /\ ServedSet' = ServedSet
      BY <2>4, <2>5, <2>6, <3>1, <3>2
    <3>4. QED
      BY <2>2, <3>1, <3>3 DEF Counted
  <2>9. CASE Let(r)
    <3>1. /\ req[r].phase = "new" /\ req'[r].phase = "sent" /\ req'[r].life = life
          /\ req'[r].served = NoRow
          /\ metrics' = [metrics EXCEPT !.requests = @ + 1]
      BY <2>9 DEF Let, Moves, SameServed, RequestInv
    <3>2. ~Accepted(r) /\ Accepted(r)'
      BY <2>1, <3>1 DEF Accepted
    <3>3. AcceptedSet' = AcceptedSet \cup {r} /\ r \notin AcceptedSet
      BY <2>3, <3>2 DEF AcceptedSet
    <3>4. ErrorSet' = ErrorSet
      BY <2>5, <3>1
    <3>5. ServedSet' = ServedSet
      BY <2>6, <3>1, <3>2
    <3>6. Cardinality(AcceptedSet') = Cardinality(AcceptedSet) + 1
      BY <1>b, <3>3, OneMore
    <3>7. /\ metrics'.requests = metrics.requests + 1 /\ metrics'.errors = metrics.errors
          /\ metrics'.predictions = metrics.predictions
      BY <1>a, <3>1
    <3>8. QED
      BY <2>2, <3>4, <3>5, <3>6, <3>7 DEF Counted
  <2>10. CASE Responded(r)
    <3>1. /\ req[r].phase = "handled" /\ req'[r].phase = "done"
          /\ req'[r].life = req[r].life /\ req'[r].served = req[r].served
          /\ req'[r].status = req[r].status /\ req'[r].outcome = req[r].outcome
      BY <2>10 DEF Responded, Moves, SameLife, SameServed, SameStatus, SameOutcome
    <3>2. Accepted(r) /\ Accepted(r)'
      BY <2>1, <2>7, <3>1 DEF Accepted, InFlight
    <3>3. AcceptedSet' = AcceptedSet /\ ServedSet' = ServedSet
      BY <2>4, <2>6, <3>1, <3>2
    <3>4. IsError(r)' <=> IsError(r)
      BY <3>1 DEF IsError
    <3>5. CASE IsError(r)
      <4>1. metrics' = [metrics EXCEPT !.errors = @ + 1]
        BY <2>10, <3>5 DEF Responded
      <4>2. ErrorSet' = ErrorSet \cup {r} /\ r \notin ErrorSet
        BY <2>1, <2>3, <3>1, <3>2, <3>4, <3>5 DEF ErrorSet
      <4>3. Cardinality(ErrorSet') = Cardinality(ErrorSet) + 1
        BY <1>b, <4>2, OneMore
      <4>4. /\ metrics'.requests = metrics.requests /\ metrics'.errors = metrics.errors + 1
            /\ metrics'.predictions = metrics.predictions
        BY <1>a, <4>1
      <4>5. QED
        BY <2>2, <3>3, <4>3, <4>4 DEF Counted
    <3>6. CASE ~IsError(r)
      <4>1. metrics' = metrics
        BY <2>10, <3>6 DEF Responded
      <4>2. ErrorSet' = ErrorSet
        BY <2>1, <2>3, <3>4, <3>6 DEF ErrorSet
      <4>3. QED
        BY <2>2, <3>3, <4>1, <4>2 DEF Counted
    <3>7. QED
      BY <3>5, <3>6
  <2>11. CASE Predicted(r)
    <3>1. /\ req[r].phase = "reading" /\ req'[r].phase = "logging"
          /\ req'[r].life = req[r].life /\ req'[r].served # NoRow
          /\ metrics' = [metrics EXCEPT !.predictions = @ + 1]
      BY <2>11 DEF Predicted, Moves, SameLife
    <3>2. Accepted(r) /\ Accepted(r)' /\ req[r].served = NoRow
      BY <2>1, <2>7, <3>1 DEF Accepted, InFlight, RequestInv
    <3>3. AcceptedSet' = AcceptedSet /\ ErrorSet' = ErrorSet
      BY <2>4, <2>5, <3>1, <3>2
    <3>4. ServedSet' = ServedSet \cup {r} /\ r \notin ServedSet
      BY <2>1, <2>3, <3>1, <3>2 DEF ServedSet
    <3>5. Cardinality(ServedSet') = Cardinality(ServedSet) + 1
      BY <1>b, <3>4, OneMore
    <3>6. /\ metrics'.requests = metrics.requests /\ metrics'.errors = metrics.errors
          /\ metrics'.predictions = metrics.predictions + 1
      BY <1>a, <3>1
    <3>7. QED
      BY <2>2, <3>3, <3>5, <3>6 DEF Counted
  <2>12. CASE Answered(r) \/ Checked(r) \/ Failed(r) \/ Raised(r) \/ Logged(r) \/ Looked(r)
    <3>1. /\ req[r].phase \in {"sent", "reading", "logging", "health"}
          /\ req'[r].phase \in {"reading", "logging", "health", "handled"}
          /\ req'[r].life = req[r].life /\ req'[r].served = req[r].served
          /\ metrics' = metrics
      BY <2>12 DEF Answered, Checked, Failed, Raised, Logged, Looked, Moves, SameLife, SameServed
    <3>2. Accepted(r) /\ Accepted(r)'
      BY <2>1, <2>7, <3>1 DEF Accepted, InFlight
    <3>3. AcceptedSet' = AcceptedSet /\ ErrorSet' = ErrorSet /\ ServedSet' = ServedSet
      BY <2>4, <2>5, <2>6, <3>1, <3>2
    <3>4. QED
      BY <2>2, <3>1, <3>3 DEF Counted
  <2>13. QED
    BY <1>3, <2>8, <2>9, <2>10, <2>11, <2>12 DEF RequestMoves
<1>4. CASE UNCHANGED apiVars
  BY <1>4 DEF apiVars, Counted, AcceptedSet, ErrorSet, ServedSet, Accepted, IsError
<1>5. QED
  BY <1>1, <1>2, <1>3, <1>4, Effects

(* MetricsAddUp: at any moment the counters of GET /metrics are the numbers of
   requests this process accepted, answered with an error and ran the model
   for. *)
THEOREM CountersAddUp == Spec => []MetricsAddUp
<1>1. Init => Counted
  BY DEF Init, ApiInit, Counted
<1>2. Counted => MetricsAddUp
  BY DEF Counted, MetricsAddUp, AcceptedSet, ErrorSet, ServedSet
<1>3. QED
  BY TypeInit, TypeStep, IdInit, IdStep, RequestInit, RequestStep, CountStep, <1>1, <1>2, PTL
     DEF Spec
=============================================================================
