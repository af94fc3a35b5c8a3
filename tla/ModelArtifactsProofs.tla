------------------------ MODULE ModelArtifactsProofs ------------------------
(* What holds of the model's files for any number of builds, trainings, starts
   of the API and drift checks, however they interleave and wherever they are
   killed. *)
EXTENDS ModelArtifacts, TLAPS, WellFoundedInduction

Writers == Builds \cup Trainings

(* The place of its mark among the files a command writes. *)
MarkAt(w) == IF w \in Builds THEN 2 ELSE 1

Mark(w) == IF w \in Builds THEN "train" ELSE "model"

Group(w) == IF w \in Builds THEN Splits ELSE Bundle

Rivals(c, d) == (c \in Builds /\ d \in Builds) \/ (c \in Trainings /\ d \in Trainings)

-----------------------------------------------------------------------------
(* The plans: who writes and reads which files, in which order. *)

LEMMA WritePlan ==
  ASSUME NEW w \in Writers
  PROVE  /\ Len(Writes(w)) = 4 /\ Writes(w) # << >>
         /\ \A i \in 1..4 : Writes(w)[i] \in Files
         /\ \A i, j \in 1..4 : Writes(w)[i] = Writes(w)[j] => i = j
         /\ Writes(w)[MarkAt(w)] = Mark(w)
         /\ \A f \in Group(w) : \E i \in MarkAt(w)..4 : Writes(w)[i] = f
         /\ MarkAt(w) \in 1..2
<1>1. CASE w \in Builds
  <2>1. Writes(w) = <<"offline", "train", "validation", "test">>
    BY <1>1 DEF Writes
  <2>2. MarkAt(w) = 2 /\ Mark(w) = "train" /\ Group(w) = {"train", "validation", "test"}
    BY <1>1 DEF MarkAt, Mark, Group, Splits
  <2>3. QED
    BY <2>1, <2>2 DEF Files, Splits, Bundle
<1>2. CASE w \in Trainings
  <2>1. w \notin Builds
    BY <1>2, ArtifactsAssumption
  <2>2. Writes(w) = <<"model", "manifest", "metrics", "report">>
    BY <1>2, <2>1 DEF Writes
  <2>3. MarkAt(w) = 1 /\ Mark(w) = "model"
        /\ Group(w) = {"model", "manifest", "metrics", "report"}
    BY <1>2, <2>1 DEF MarkAt, Mark, Group, Bundle
  <2>4. QED
    BY <2>2, <2>3 DEF Files, Splits, Bundle
<1>3. QED
  BY <1>1, <1>2 DEF Writers

LEMMA NoPlan ==
  ASSUME NEW c \in Commands, c \notin Writers
  PROVE  Writes(c) = << >>
BY DEF Writers, Writes

(* Rivals write the same files, other writers other files. *)
LEMMA RivalPlan ==
  ASSUME NEW c \in Writers, NEW d \in Writers
  PROVE  /\ Rivals(c, d) => Writes(c) = Writes(d) /\ MarkAt(c) = MarkAt(d)
         /\ ~Rivals(c, d) => \A i, j \in 1..4 : Writes(c)[i] # Writes(d)[j]
<1>1. Builds \cap Trainings = {}
  BY ArtifactsAssumption
<1>2. \A w \in Builds : Writes(w) = <<"offline", "train", "validation", "test">>
  BY DEF Writes
<1>3. \A w \in Trainings : Writes(w) = <<"model", "manifest", "metrics", "report">>
  BY <1>1 DEF Writes
<1>4. QED
  BY <1>1, <1>2, <1>3 DEF Rivals, Writers, MarkAt

LEMMA ReadPlan ==
  ASSUME NEW c \in Commands
  PROVE  /\ c \in Builds => Reads(c) = << >>
         /\ c \in Trainings => Reads(c) = <<"train", "validation", "test">>
         /\ c \in Loads => Reads(c) = <<"model", "manifest">>
         /\ c \in Checks => Reads(c) = <<"train", "test", "metrics">>
BY ArtifactsAssumption DEF Reads

LEMMA ReadFiles ==
  ASSUME NEW c \in Commands, NEW i \in 1..Len(Reads(c))
  PROVE  Reads(c)[i] \in Files
BY ReadPlan DEF Commands, Files, Splits, Bundle

(* Who disturbs whom. *)
LEMMA DisturbTable ==
  ASSUME NEW c \in Commands, NEW d \in Commands
  PROVE  Disturbs(c, d) <=> \/ c \in Builds /\ d \notin Loads
                            \/ c \in Trainings /\ d \notin Builds
<1> USE ArtifactsAssumption
<1>1. /\ c \in Builds => Elements(Writes(c)) = {"offline", "train", "validation", "test"}
      /\ c \in Trainings => Elements(Writes(c)) = {"model", "manifest", "metrics", "report"}
      /\ c \notin Builds \cup Trainings => Elements(Writes(c)) = {}
  BY DEF Elements, Writes
<1>2. /\ d \in Builds => Elements(Writes(d)) = {"offline", "train", "validation", "test"}
      /\ d \in Trainings => Elements(Writes(d)) = {"model", "manifest", "metrics", "report"}
      /\ d \notin Builds \cup Trainings => Elements(Writes(d)) = {}
  BY DEF Elements, Writes
<1>3. /\ d \in Builds => Elements(Reads(d)) = {}
      /\ d \in Trainings => Elements(Reads(d)) = {"train", "validation", "test"}
      /\ d \in Loads => Elements(Reads(d)) = {"model", "manifest"}
      /\ d \in Checks => Elements(Reads(d)) = {"train", "test", "metrics"}
  BY ReadPlan DEF Elements
<1>4. CASE c \in Builds
  BY <1>1, <1>2, <1>3, <1>4 DEF Disturbs, Commands
<1>5. CASE c \in Trainings
  BY <1>1, <1>2, <1>3, <1>5 DEF Disturbs, Commands
<1>6. CASE c \notin Builds \cup Trainings
  BY <1>1, <1>6 DEF Disturbs
<1>7. QED
  BY <1>4, <1>5, <1>6

-----------------------------------------------------------------------------
(* What each step does to the commands. *)

Typed == cmd \in [Commands -> CommandState] /\ file \in [Files -> Contents]

LEMMA EndedType ==
  ASSUME NEW how \in Phases
  PROVE  /\ Ended(how) \in CommandState
         /\ Ended(how).pc = how /\ Ended(how).at = 0
         /\ ~Ended(how).mixed /\ ~Ended(how).disturbed
BY DEF Ended, CommandState, Nothing, Contents

LEMMA StartFacts ==
  ASSUME Typed, NEW c \in Commands, Start(c)
  PROVE  /\ cmd' \in [Commands -> CommandState] /\ file' = file
         /\ cmd[c].pc = "idle"
         /\ cmd'[c].pc = IF c \in Builds THEN "write" ELSE "read"
         /\ cmd'[c].at = cmd[c].at /\ cmd'[c].mixed = cmd[c].mixed
         /\ cmd'[c].seen = cmd[c].seen
         /\ cmd'[c].disturbed = \E e \in Commands : Active(e) /\ Disturbs(e, c)
         /\ \A d \in Commands \ {c} :
              /\ cmd'[d].pc = cmd[d].pc /\ cmd'[d].at = cmd[d].at
              /\ cmd'[d].seen = cmd[d].seen /\ cmd'[d].mixed = cmd[d].mixed
              /\ cmd'[d].disturbed = (cmd[d].disturbed \/ (Active(d) /\ Disturbs(c, d)))
<1> DEFINE next == IF c \in Builds THEN "write" ELSE "read"
           meets == \E e \in Commands : Active(e) /\ Disturbs(e, c)
           x == [cmd[c] EXCEPT !.pc = next, !.disturbed = meets]
           y(d) == [cmd[d] EXCEPT !.disturbed = TRUE]
<1>1. cmd' = [d \in Commands |->
                IF d = c THEN x ELSE IF Active(d) /\ Disturbs(c, d) THEN y(d) ELSE cmd[d]]
  BY DEF Start
<1>2. meets \in BOOLEAN /\ next \in {"write", "read"}
  OBVIOUS
<1> HIDE DEF meets, next
<1>3. /\ x \in CommandState /\ x.pc = next /\ x.disturbed = meets
      /\ x.at = cmd[c].at /\ x.mixed = cmd[c].mixed /\ x.seen = cmd[c].seen
  BY <1>2 DEF Typed, CommandState, Phases
<1>4. ASSUME NEW d \in Commands
      PROVE  /\ y(d) \in CommandState /\ y(d).disturbed
             /\ y(d).pc = cmd[d].pc /\ y(d).at = cmd[d].at
             /\ y(d).seen = cmd[d].seen /\ y(d).mixed = cmd[d].mixed
             /\ cmd[d].disturbed \in BOOLEAN
  BY DEF Typed, CommandState
<1> HIDE DEF x, y
<1>5. cmd' \in [Commands -> CommandState]
  BY <1>1, <1>3, <1>4, Zenon DEF Typed
<1>6. cmd'[c] = x
  BY <1>1
<1>7. ASSUME NEW d \in Commands \ {c}
      PROVE  /\ cmd'[d].pc = cmd[d].pc /\ cmd'[d].at = cmd[d].at
             /\ cmd'[d].seen = cmd[d].seen /\ cmd'[d].mixed = cmd[d].mixed
             /\ cmd'[d].disturbed = (cmd[d].disturbed \/ (Active(d) /\ Disturbs(c, d)))
  <2>1. cmd'[d] = IF Active(d) /\ Disturbs(c, d) THEN y(d) ELSE cmd[d]
    BY <1>1
  <2>2. CASE Active(d) /\ Disturbs(c, d)
    BY <2>1, <2>2, <1>4
  <2>3. CASE ~(Active(d) /\ Disturbs(c, d))
    BY <2>1, <2>3, <1>4
  <2>4. QED
    BY <2>2, <2>3
<1>8. cmd[c].pc = "idle" /\ file' = file
  BY DEF Start
<1>9. QED
  BY <1>3, <1>5, <1>6, <1>7, <1>8 DEF meets, next

LEMMA ReadFacts ==
  ASSUME Typed, NEW c \in Commands, Read(c), cmd[c].at < Len(Reads(c))
  PROVE  /\ cmd' \in [Commands -> CommandState] /\ file' = file
         /\ cmd[c].pc = "read"
         /\ \A d \in Commands \ {c} : cmd'[d] = cmd[d]
         /\ \/ cmd'[c] = Ended("failed")
            \/ LET n == cmd[c].at + 1
                   f == Reads(c)[n]
               IN  /\ cmd'[c].pc = After(c, n)
                   /\ cmd'[c].at = IF n < Len(Reads(c)) THEN n ELSE 0
                   /\ cmd'[c].seen = [cmd[c].seen EXCEPT ![f] = file[f]]
                   /\ cmd'[c].disturbed = cmd[c].disturbed
                   /\ cmd'[c].mixed = cmd[c].mixed
<1> DEFINE n == cmd[c].at + 1
           f == Reads(c)[n]
           m == IF n < Len(Reads(c)) THEN n ELSE 0
           x == [cmd[c] EXCEPT !.seen[f] = file[f], !.pc = After(c, n), !.at = m]
<1>1. cmd[c].pc = "read" /\ file' = file
  BY DEF Read
<1>2. cmd' = [cmd EXCEPT ![c] = IF Unusable(c, f) THEN Ended("failed") ELSE x]
  BY DEF Read
<1>3. cmd[c] \in CommandState /\ n \in Nat
  BY DEF Typed, CommandState
<1>4. n \in 1..Len(Reads(c))
  <2>1. Len(Reads(c)) \in Nat
    BY ReadPlan DEF Commands
  <2>2. QED
    BY <1>3, <2>1 DEF CommandState
<1>5. f \in Files /\ file[f] \in Contents
  BY <1>4, ReadFiles DEF Typed
<1>6. After(c, n) \in Phases /\ m \in Nat
  BY <1>3 DEF After, Phases
<1> HIDE DEF n, m, f
<1>7. /\ x \in CommandState /\ x.pc = After(c, n) /\ x.at = m
      /\ x.seen = [cmd[c].seen EXCEPT ![f] = file[f]]
      /\ x.disturbed = cmd[c].disturbed /\ x.mixed = cmd[c].mixed
  BY <1>3, <1>5, <1>6 DEF CommandState
<1> HIDE DEF x
<1>8. Ended("failed") \in CommandState
  BY EndedType DEF Phases
<1>9. cmd'[c] = (IF Unusable(c, f) THEN Ended("failed") ELSE x)
      /\ \A d \in Commands \ {c} : cmd'[d] = cmd[d]
  BY <1>2 DEF Typed
<1>10. cmd' \in [Commands -> CommandState]
  BY <1>2, <1>7, <1>8 DEF Typed
<1>11. QED
  BY <1>1, <1>7, <1>9, <1>10 DEF n, m, f

LEMMA TruncateFacts ==
  ASSUME Typed, NEW c \in Commands, Truncate(c)
  PROVE  /\ cmd' \in [Commands -> CommandState] /\ cmd[c].pc = "write"
         /\ file' = [file EXCEPT ![NextFile(c)] = Torn]
         /\ cmd'[c].pc = "open" /\ cmd'[c].at = cmd[c].at
         /\ cmd'[c].seen = cmd[c].seen /\ cmd'[c].disturbed = cmd[c].disturbed
         /\ cmd'[c].mixed => \E d \in Commands : Opened(d, NextFile(c))
         /\ \A d \in Commands \ {c} :
              /\ cmd'[d].pc = cmd[d].pc /\ cmd'[d].at = cmd[d].at
              /\ cmd'[d].seen = cmd[d].seen /\ cmd'[d].disturbed = cmd[d].disturbed
              /\ cmd'[d].mixed => cmd[d].mixed \/ Opened(d, NextFile(c))
<1> DEFINE others == {d \in Commands : Opened(d, NextFile(c))}
           meets == others # {}
           x == [cmd[c] EXCEPT !.pc = "open", !.mixed = meets]
           y(d) == [cmd[d] EXCEPT !.mixed = TRUE]
<1>1. /\ cmd[c].pc = "write" /\ file' = [file EXCEPT ![NextFile(c)] = Torn]
      /\ cmd' = [d \in Commands |-> IF d = c THEN x ELSE IF d \in others THEN y(d) ELSE cmd[d]]
  BY DEF Truncate
<1>2. meets \in BOOLEAN /\ (meets => \E d \in Commands : Opened(d, NextFile(c)))
  OBVIOUS
<1>3. \A d \in others : Opened(d, NextFile(c))
  OBVIOUS
<1> HIDE DEF meets, others
<1>4. /\ x \in CommandState /\ x.pc = "open" /\ x.mixed = meets /\ x.at = cmd[c].at
      /\ x.seen = cmd[c].seen /\ x.disturbed = cmd[c].disturbed
  BY <1>2 DEF Typed, CommandState, Phases
<1>5. ASSUME NEW d \in Commands
      PROVE  /\ y(d) \in CommandState
             /\ y(d).pc = cmd[d].pc /\ y(d).at = cmd[d].at
             /\ y(d).seen = cmd[d].seen /\ y(d).disturbed = cmd[d].disturbed
  BY DEF Typed, CommandState
<1> HIDE DEF x, y
<1>6. cmd' \in [Commands -> CommandState]
  BY <1>1, <1>4, <1>5, Zenon DEF Typed
<1>7. cmd'[c] = x
  BY <1>1
<1>8. ASSUME NEW d \in Commands \ {c}
      PROVE  /\ cmd'[d].pc = cmd[d].pc /\ cmd'[d].at = cmd[d].at
             /\ cmd'[d].seen = cmd[d].seen /\ cmd'[d].disturbed = cmd[d].disturbed
             /\ cmd'[d].mixed => cmd[d].mixed \/ Opened(d, NextFile(c))
  <2>1. cmd'[d] = IF d \in others THEN y(d) ELSE cmd[d]
    BY <1>1
  <2>2. CASE d \in others
    BY <2>1, <2>2, <1>3, <1>5
  <2>3. CASE d \notin others
    BY <2>1, <2>3
  <2>4. QED
    BY <2>2, <2>3
<1>9. QED
  BY <1>1, <1>2, <1>4, <1>6, <1>7, <1>8

LEMMA CompleteFacts ==
  ASSUME Typed, NEW c \in Commands, Complete(c), cmd[c].at \in 0..3, Len(Writes(c)) = 4
  PROVE  /\ cmd' \in [Commands -> CommandState] /\ cmd[c].pc = "open"
         /\ \/ file' = [file EXCEPT ![NextFile(c)] = c]
            \/ cmd[c].mixed /\ file' = [file EXCEPT ![NextFile(c)] = Torn]
         /\ cmd'[c].pc = IF cmd[c].at = 3 THEN "done" ELSE "write"
         /\ cmd'[c].at = cmd[c].at + 1 /\ ~cmd'[c].mixed
         /\ cmd'[c].seen = cmd[c].seen /\ cmd'[c].disturbed = cmd[c].disturbed
         /\ \A d \in Commands \ {c} : cmd'[d] = cmd[d]
<1> DEFINE next == IF cmd[c].at = 3 THEN "done" ELSE "write"
           x == [cmd[c] EXCEPT !.at = @ + 1, !.mixed = FALSE, !.pc = next]
<1>1. cmd[c] \in CommandState
  BY DEF Typed
<1>2. cmd[c].at + 1 = Len(Writes(c)) <=> cmd[c].at = 3
  OBVIOUS
<1>3. cmd' = [cmd EXCEPT ![c] = x]
  BY <1>2 DEF Complete
<1>4. next \in Phases
  BY DEF Phases
<1> HIDE DEF next
<1>5. /\ x \in CommandState /\ x.pc = next /\ x.at = cmd[c].at + 1 /\ ~x.mixed
      /\ x.seen = cmd[c].seen /\ x.disturbed = cmd[c].disturbed
  <2>1. cmd[c].at + 1 \in Nat
    OBVIOUS
  <2>2. QED
    BY <1>1, <1>4, <2>1 DEF CommandState
<1> HIDE DEF x
<1>6. QED
  BY <1>3, <1>5 DEF Complete, Typed, next

LEMMA KillFacts ==
  ASSUME Typed, NEW c \in Commands, Kill(c)
  PROVE  /\ cmd' \in [Commands -> CommandState] /\ file' = file
         /\ Active(c) /\ cmd'[c] = Ended("killed")
         /\ \A d \in Commands \ {c} : cmd'[d] = cmd[d]
<1>1. Ended("killed") \in CommandState
  BY EndedType DEF Phases
<1>2. QED
  BY <1>1 DEF Kill, Typed

-----------------------------------------------------------------------------
(* Where a command is, and who is alone: a command under way that nobody has
   disturbed meets nobody who writes what it uses, and so no other window on a
   file it has opened. *)

Stage(c) ==
  /\ cmd[c].pc = "idle" => cmd[c].at = 0 /\ ~cmd[c].mixed
  /\ cmd[c].pc = "read" => c \notin Builds /\ cmd[c].at < Len(Reads(c))
  /\ cmd[c].pc \in {"write", "open"} => c \in Writers /\ cmd[c].at \in 0..3
  /\ cmd[c].mixed => cmd[c].pc = "open" /\ cmd[c].disturbed

Undisturbed(c) == Active(c) /\ ~cmd[c].disturbed

AloneInv ==
  \A c, d \in Commands : Undisturbed(c) /\ Active(d) /\ c # d => ~Disturbs(d, c)

WrittenBy(f) ==
  file[f] \in Commands =>
    /\ file[f] \in Writers /\ cmd[file[f]].pc # "idle"
    /\ \E i \in 1..4 : Writes(file[f])[i] = f

BaseInv ==
  /\ Typed
  /\ \A c \in Commands : Stage(c)
  /\ AloneInv
  /\ \A f \in Files : WrittenBy(f)

LEMMA BaseInit == ArtInit => BaseInv
<1> SUFFICES ASSUME ArtInit
             PROVE  BaseInv
  OBVIOUS
<1>1. Typed
  BY EndedType DEF ArtInit, Typed, Nothing, Contents, Phases
<1>2. \A c \in Commands : cmd[c] = Ended("idle")
  BY DEF ArtInit
<1>3. \A c \in Commands : cmd[c].pc = "idle" /\ cmd[c].at = 0 /\ ~cmd[c].mixed
  BY <1>2, EndedType DEF Phases
<1>4. \A f \in Files : file[f] \notin Commands
  BY ArtifactsAssumption DEF ArtInit, Nothing
<1>5. QED
  BY <1>1, <1>3, <1>4 DEF BaseInv, Stage, AloneInv, Undisturbed, Active, WrittenBy

(* Two commands that have the same file open are rivals, and disturbed. *)
LEMMA OpenedIsDisturbed ==
  ASSUME BaseInv, NEW c \in Commands, NEW d \in Commands, c # d,
         cmd[c].pc \in {"write", "open"}, Opened(d, NextFile(c))
  PROVE  cmd[c].disturbed /\ cmd[d].disturbed
<1>1. /\ c \in Writers /\ d \in Writers /\ cmd[d].pc = "open"
      /\ cmd[c].at \in 0..3 /\ cmd[d].at \in 0..3
      /\ Writes(d)[cmd[d].at + 1] = Writes(c)[cmd[c].at + 1]
  BY DEF BaseInv, Stage, Opened, NextFile
<1>2. cmd[c].at + 1 \in 1..4 /\ cmd[d].at + 1 \in 1..4
  BY <1>1
<1>3. Rivals(c, d)
  BY <1>1, <1>2, RivalPlan
<1>4. Disturbs(c, d) /\ Disturbs(d, c)
  BY <1>3, DisturbTable, ArtifactsAssumption DEF Rivals
<1>5. QED
  BY <1>1, <1>4 DEF BaseInv, AloneInv, Undisturbed, Active

LEMMA BaseStep == BaseInv /\ [ArtNext]_artVars => BaseInv'
<1> SUFFICES ASSUME BaseInv, [ArtNext]_artVars
             PROVE  BaseInv'
  OBVIOUS
<1>a. Typed /\ (\A c \in Commands : Stage(c)) /\ AloneInv /\ \A f \in Files : WrittenBy(f)
  BY DEF BaseInv
<1>b. Writers \subseteq Commands
  BY DEF Writers, Commands
(* A step that lets no command begin and changes no disturbed of those under
   way leaves the undisturbed alone. *)
<1>c. ASSUME \A d \in Commands : Active(d)' => Active(d) /\ cmd'[d].disturbed = cmd[d].disturbed
      PROVE  AloneInv'
  BY <1>a, <1>c DEF AloneInv, Undisturbed, Disturbs
<1>1. ASSUME NEW c \in Commands, Start(c)
      PROVE  BaseInv'
  <2>1. /\ cmd' \in [Commands -> CommandState] /\ file' = file
        /\ cmd[c].pc = "idle"
        /\ cmd'[c].pc = IF c \in Builds THEN "write" ELSE "read"
        /\ cmd'[c].at = cmd[c].at /\ cmd'[c].mixed = cmd[c].mixed
        /\ cmd'[c].disturbed = \E e \in Commands : Active(e) /\ Disturbs(e, c)
    BY <1>a, <1>1, StartFacts
  <2>2. \A d \in Commands \ {c} :
          /\ cmd'[d].pc = cmd[d].pc /\ cmd'[d].at = cmd[d].at
          /\ cmd'[d].seen = cmd[d].seen /\ cmd'[d].mixed = cmd[d].mixed
          /\ cmd'[d].disturbed = (cmd[d].disturbed \/ (Active(d) /\ Disturbs(c, d)))
    BY <1>a, <1>1, StartFacts
  <2>3. Stage(c)'
    <3>1. cmd[c].at = 0 /\ ~cmd[c].mixed
      BY <1>a, <2>1 DEF Stage
    <3>2. c \notin Builds => 0 < Len(Reads(c))
      BY ReadPlan DEF Commands
    <3>3. QED
      BY <2>1, <3>1, <3>2 DEF Stage, Writers
  <2>4. \A d \in Commands \ {c} : Stage(d)'
    BY <1>a, <2>2 DEF Stage
  <2>5. AloneInv'
    <3>1. SUFFICES ASSUME NEW d \in Commands, NEW e \in Commands,
                          Undisturbed(d)', Active(e)', d # e
                   PROVE  ~Disturbs(e, d)
      BY DEF AloneInv, Disturbs
    <3>2. CASE d = c
      BY <2>1, <2>2, <3>1, <3>2 DEF Undisturbed, Active
    <3>3. CASE e = c
      BY <2>1, <2>2, <3>1, <3>3 DEF Undisturbed, Active
    <3>4. CASE d # c /\ e # c
      BY <1>a, <2>1, <2>2, <3>1, <3>4 DEF Undisturbed, Active, AloneInv
    <3>5. QED
      BY <3>2, <3>3, <3>4
  <2>6. \A f \in Files : WrittenBy(f)'
    BY <1>a, <2>1, <2>2 DEF WrittenBy
  <2>7. QED
    BY <2>1, <2>3, <2>4, <2>5, <2>6, <1>a DEF BaseInv, Typed
<1>2. ASSUME NEW c \in Commands, Read(c)
      PROVE  BaseInv'
  <2>1. cmd[c].at < Len(Reads(c)) /\ c \notin Builds /\ cmd[c].pc = "read"
    BY <1>a, <1>2 DEF Stage, Read
  <2>2. /\ cmd' \in [Commands -> CommandState] /\ file' = file
        /\ \A d \in Commands \ {c} : cmd'[d] = cmd[d]
    BY <1>a, <1>2, <2>1, ReadFacts
  <2>3. \/ cmd'[c] = Ended("failed")
        \/ LET n == cmd[c].at + 1
           IN  /\ cmd'[c].pc = After(c, n)
               /\ cmd'[c].at = IF n < Len(Reads(c)) THEN n ELSE 0
               /\ cmd'[c].disturbed = cmd[c].disturbed
               /\ cmd'[c].mixed = cmd[c].mixed
    BY <1>a, <1>2, <2>1, ReadFacts
  <2>4. ~cmd[c].mixed
    BY <1>a, <2>1 DEF Stage
  <2>5. Stage(c)' /\ cmd'[c].pc # "idle" /\ (Active(c)' => cmd'[c].disturbed = cmd[c].disturbed)
    <3>1. CASE cmd'[c] = Ended("failed")
      BY <3>1, EndedType DEF Stage, Active, Phases
    <3>2. CASE cmd'[c] # Ended("failed")
      <4> DEFINE n == cmd[c].at + 1
      <4>1. /\ cmd'[c].pc = After(c, n)
            /\ cmd'[c].at = IF n < Len(Reads(c)) THEN n ELSE 0
            /\ cmd'[c].disturbed = cmd[c].disturbed
            /\ cmd'[c].mixed = cmd[c].mixed
        BY <2>3, <3>2
      <4>2. Writes(c) # << >> => c \in Writers
        BY NoPlan
      <4> HIDE DEF n
      <4>3. QED
        BY <2>1, <2>4, <4>1, <4>2 DEF Stage, After
    <3>3. QED
      BY <3>1, <3>2
  <2>6. AloneInv'
    BY <1>c, <2>1, <2>2, <2>5 DEF Active
  <2>7. \A f \in Files : WrittenBy(f)'
    BY <1>a, <2>2, <2>5 DEF WrittenBy
  <2>8. \A d \in Commands \ {c} : Stage(d)'
    BY <1>a, <2>2 DEF Stage
  <2>9. QED
    BY <1>a, <2>2, <2>5, <2>6, <2>7, <2>8 DEF BaseInv, Typed
<1>3. ASSUME NEW c \in Commands, Truncate(c)
      PROVE  BaseInv'
  <2>1. /\ cmd' \in [Commands -> CommandState] /\ cmd[c].pc = "write"
        /\ file' = [file EXCEPT ![NextFile(c)] = Torn]
        /\ cmd'[c].pc = "open" /\ cmd'[c].at = cmd[c].at
        /\ cmd'[c].disturbed = cmd[c].disturbed
        /\ cmd'[c].mixed => \E d \in Commands : Opened(d, NextFile(c))
    BY <1>a, <1>3, TruncateFacts
  <2>2. \A d \in Commands \ {c} :
          /\ cmd'[d].pc = cmd[d].pc /\ cmd'[d].at = cmd[d].at
          /\ cmd'[d].disturbed = cmd[d].disturbed
          /\ cmd'[d].mixed => cmd[d].mixed \/ Opened(d, NextFile(c))
    BY <1>a, <1>3, TruncateFacts
  <2>3. c \in Writers /\ cmd[c].at \in 0..3
    BY <1>a, <2>1 DEF Stage
  <2>4. ~Opened(c, NextFile(c))
    BY <2>1 DEF Opened
  <2>5. Stage(c)'
    <3>1. cmd'[c].mixed => cmd[c].disturbed
      BY <2>1, <2>4, OpenedIsDisturbed
    <3>2. QED
      BY <2>1, <2>3, <3>1 DEF Stage
  <2>6. ASSUME NEW d \in Commands \ {c}
        PROVE  Stage(d)'
    <3>1. Opened(d, NextFile(c)) => cmd[d].pc = "open" /\ cmd[d].disturbed
      BY <2>1, OpenedIsDisturbed DEF Opened
    <3>2. QED
      BY <1>a, <2>2, <3>1 DEF Stage
  <2>7. AloneInv'
    BY <1>c, <2>1, <2>2 DEF Active
  <2>8. NextFile(c) \in Files
    BY <2>3, WritePlan DEF NextFile
  <2>9. ASSUME NEW f \in Files
        PROVE  WrittenBy(f)'
    <3>1. CASE f = NextFile(c)
      BY <1>a, <2>1, <2>8, <3>1, ArtifactsAssumption DEF WrittenBy, Typed
    <3>2. CASE f # NextFile(c)
      BY <1>a, <2>1, <2>2, <2>8, <3>2 DEF WrittenBy, Typed
    <3>3. QED
      BY <3>1, <3>2
  <2>10. file' \in [Files -> Contents]
    BY <1>a, <2>1 DEF Typed, Contents
  <2>11. QED
    BY <2>1, <2>5, <2>6, <2>7, <2>9, <2>10 DEF BaseInv, Typed
<1>4. ASSUME NEW c \in Commands, Complete(c)
      PROVE  BaseInv'
  <2>1. c \in Writers /\ cmd[c].at \in 0..3 /\ Len(Writes(c)) = 4
    BY <1>a, <1>4, WritePlan DEF Stage, Complete
  <2>2. /\ cmd' \in [Commands -> CommandState] /\ cmd[c].pc = "open"
        /\ \/ file' = [file EXCEPT ![NextFile(c)] = c]
           \/ cmd[c].mixed /\ file' = [file EXCEPT ![NextFile(c)] = Torn]
        /\ cmd'[c].pc = IF cmd[c].at = 3 THEN "done" ELSE "write"
        /\ cmd'[c].at = cmd[c].at + 1 /\ ~cmd'[c].mixed
        /\ cmd'[c].disturbed = cmd[c].disturbed
        /\ \A d \in Commands \ {c} : cmd'[d] = cmd[d]
    BY <1>a, <1>4, <2>1, CompleteFacts
  <2>3. Stage(c)'
    BY <2>1, <2>2 DEF Stage
  <2>4. \A d \in Commands \ {c} : Stage(d)'
    BY <1>a, <2>2 DEF Stage
  <2>5. AloneInv'
    BY <1>c, <2>2 DEF Active
  <2>6. NextFile(c) \in Files /\ cmd[c].at + 1 \in 1..4
    BY <2>1, WritePlan DEF NextFile
  <2>7. ASSUME NEW f \in Files
        PROVE  WrittenBy(f)'
    <3>1. CASE f = NextFile(c)
      <4>1. file'[f] \in {c, Torn}
        BY <1>a, <2>2, <2>6, <3>1 DEF Typed
      <4>2. Writes(c)[cmd[c].at + 1] = f
        BY <3>1 DEF NextFile
      <4>3. cmd'[c].pc # "idle"
        BY <2>2
      <4>4. QED
        BY <2>1, <2>6, <4>1, <4>2, <4>3, ArtifactsAssumption DEF WrittenBy
    <3>2. CASE f # NextFile(c)
      BY <1>a, <2>2, <2>6, <3>2 DEF WrittenBy, Typed
    <3>3. QED
      BY <3>1, <3>2
  <2>8. file' \in [Files -> Contents]
    BY <1>a, <2>2 DEF Typed, Contents
  <2>9. QED
    BY <2>2, <2>3, <2>4, <2>5, <2>7, <2>8 DEF BaseInv, Typed
<1>5. ASSUME NEW c \in Commands, Kill(c)
      PROVE  BaseInv'
  <2>1. /\ cmd' \in [Commands -> CommandState] /\ file' = file
        /\ cmd'[c] = Ended("killed")
        /\ \A d \in Commands \ {c} : cmd'[d] = cmd[d]
    BY <1>a, <1>5, KillFacts
  <2>2. cmd'[c].pc = "killed" /\ cmd'[c].at = 0 /\ ~cmd'[c].mixed
    BY <2>1, EndedType DEF Phases
  <2>3. \A d \in Commands : Stage(d)'
    BY <1>a, <2>1, <2>2 DEF Stage
  <2>4. AloneInv'
    BY <1>c, <2>1, <2>2 DEF Active
  <2>5. \A f \in Files : WrittenBy(f)'
    BY <1>a, <2>1, <2>2 DEF WrittenBy
  <2>6. QED
    BY <1>a, <2>1, <2>3, <2>4, <2>5 DEF BaseInv, Typed
<1>6. CASE UNCHANGED artVars
  BY <1>6 DEF artVars, BaseInv, Typed, Stage, AloneInv, Undisturbed, Active, WrittenBy, Disturbs
<1>7. QED
  BY <1>1, <1>2, <1>3, <1>4, <1>5, <1>6 DEF ArtNext, Step

(* ArtTypeOK: files and commands stay well typed. *)
THEOREM ArtTyping == ArtSpec => []ArtTypeOK
<1>1. BaseInv => ArtTypeOK
  BY DEF BaseInv, Typed, ArtTypeOK
<1>2. QED
  BY BaseInit, BaseStep, <1>1, PTL DEF ArtSpec

-----------------------------------------------------------------------------
(* A group is whole where its mark is: whoever ended undisturbed wrote it in
   one piece, and a rival that is past the mark has taken the mark away. *)

Written(w) ==
  Undisturbed(w) /\ cmd[w].pc \in {"write", "open"} =>
    \A i \in 1..cmd[w].at : file[Writes(w)[i]] = w

BeforeMark(w, d) ==
  /\ cmd[d].pc = "write" => cmd[d].at < MarkAt(w)
  /\ cmd[d].pc = "open" => cmd[d].at + 1 < MarkAt(w)

Kept(w) ==
  Trusted(w) /\ file[Mark(w)] = w =>
    /\ \A i \in MarkAt(w)..4 : file[Writes(w)[i]] = w
    /\ \A d \in Commands : Rivals(w, d) => BeforeMark(w, d)

GroupInv == \A w \in Writers : Written(w) /\ Kept(w)

(* One write touches no other file, and makes no other command an author. *)
Touches(c, k, v) ==
  /\ \A w \in Writers, i \in 1..4 :
       (Rivals(c, w) => i # k) => file'[Writes(w)[i]] = file[Writes(w)[i]]
  /\ \A w \in Writers, f \in Files : w # c /\ file'[f] = w => file[f] = w
  /\ file'[Writes(c)[k]] = v

LEMMA OneWrite ==
  ASSUME Typed, NEW c \in Writers, NEW k \in 1..4, NEW v \in {c, Torn},
         file' = [file EXCEPT ![Writes(c)[k]] = v]
  PROVE  Touches(c, k, v)
<1>1. Writes(c)[k] \in Files
  BY WritePlan
<1>2. ASSUME NEW w \in Writers, NEW i \in 1..4, Rivals(c, w) => i # k
      PROVE  file'[Writes(w)[i]] = file[Writes(w)[i]]
  <2>1. Writes(w)[i] \in Files
    BY WritePlan
  <2>2. Writes(w)[i] # Writes(c)[k]
    <3>1. CASE Rivals(c, w)
      <4>1. Writes(w) = Writes(c)
        BY <3>1, RivalPlan
      <4>2. QED
        BY <1>2, <3>1, <4>1, WritePlan
    <3>2. CASE ~Rivals(c, w)
      BY <3>2, RivalPlan
    <3>3. QED
      BY <3>1, <3>2
  <2>3. QED
    BY <2>1, <2>2 DEF Typed
<1>3. \A w \in Writers : w # Torn
  BY ArtifactsAssumption DEF Writers, Commands
<1>4. QED
  BY <1>1, <1>2, <1>3 DEF Typed, Touches

LEMMA GroupInit == ArtInit => GroupInv
<1> SUFFICES ASSUME ArtInit
             PROVE  GroupInv
  OBVIOUS
<1>1. \A w \in Writers : cmd[w].pc = "idle"
  BY EndedType DEF ArtInit, Writers, Commands, Phases
<1>2. QED
  BY <1>1 DEF GroupInv, Written, Kept, Undisturbed, Active, Trusted

LEMMA GroupStep == BaseInv /\ GroupInv /\ [ArtNext]_artVars => GroupInv'
<1> SUFFICES ASSUME BaseInv, GroupInv, [ArtNext]_artVars
             PROVE  GroupInv'
  OBVIOUS
<1>a. Typed /\ (\A c \in Commands : Stage(c)) /\ AloneInv
  BY DEF BaseInv
<1>b. \A w \in Writers : Written(w) /\ Kept(w)
  BY DEF GroupInv
<1>c. \A w \in Writers : w \in Commands /\ MarkAt(w) \in 1..2
  BY WritePlan DEF Writers, Commands
<1>d. \A w \in Writers, d \in Commands : Rivals(w, d) => d \in Writers /\ Rivals(d, w) /\ Disturbs(d, w)
  BY <1>c, DisturbTable, ArtifactsAssumption DEF Rivals, Writers, Commands
<1>1. ASSUME NEW c \in Commands, Start(c)
      PROVE  GroupInv'
  <2>1. /\ file' = file /\ cmd[c].pc = "idle"
        /\ cmd'[c].pc = IF c \in Builds THEN "write" ELSE "read"
        /\ cmd'[c].at = cmd[c].at
    BY <1>a, <1>1, StartFacts
  <2>2. \A d \in Commands \ {c} :
          /\ cmd'[d].pc = cmd[d].pc /\ cmd'[d].at = cmd[d].at
          /\ cmd'[d].disturbed = (cmd[d].disturbed \/ (Active(d) /\ Disturbs(c, d)))
    BY <1>a, <1>1, StartFacts
  <2>3. cmd[c].at = 0
    BY <1>a, <2>1 DEF Stage
  <2>4. ASSUME NEW w \in Writers
        PROVE  Written(w)' /\ Kept(w)'
    <3>1. CASE w = c
      <4>1. 1..cmd'[c].at = {}
        BY <2>1, <2>3
      <4>2. cmd'[c].pc # "done"
        BY <2>1
      <4>3. QED
        BY <3>1, <4>1, <4>2 DEF Written, Kept, Trusted
    <3>2. CASE w # c
      <4>1. Written(w)'
        BY <1>b, <1>c, <2>1, <2>2, <3>2 DEF Written, Undisturbed, Active
      <4>2. Trusted(w)' => Trusted(w)
        BY <1>c, <2>2, <3>2 DEF Trusted
      <4>3. \A d \in Commands : BeforeMark(w, d) \/ d = c => BeforeMark(w, d)'
        <5>1. BeforeMark(w, c)'
          BY <1>c, <2>1, <2>3 DEF BeforeMark, MarkAt
        <5>2. QED
          BY <2>2, <5>1 DEF BeforeMark
      <4>4. QED
        BY <1>b, <2>1, <4>1, <4>2, <4>3 DEF Kept
    <3>3. QED
      BY <3>1, <3>2
  <2>5. QED
    BY <2>4 DEF GroupInv
<1>2. ASSUME NEW c \in Commands, file' = file,
             \A d \in Commands \ {c} : cmd'[d] = cmd[d],
             \/ cmd'[c].pc \in {"read", "done", "failed", "killed"} /\ c \notin Writers
             \/ cmd'[c].pc \in {"read", "failed", "killed"}
             \/ cmd'[c].pc = "write" /\ cmd'[c].at = 0
      PROVE  GroupInv'
  <2>1. ASSUME NEW w \in Writers
        PROVE  Written(w)' /\ Kept(w)'
    <3>1. Written(w)'
      BY <1>b, <1>c, <1>2 DEF Written, Undisturbed, Active
    <3>2. Trusted(w)' => Trusted(w)
      BY <1>c, <1>2 DEF Trusted
    <3>3. ASSUME NEW d \in Commands, BeforeMark(w, d), Rivals(w, d)
          PROVE  BeforeMark(w, d)'
      BY <1>c, <1>d, <1>2, <3>3 DEF BeforeMark, MarkAt
    <3>4. QED
      BY <1>b, <1>2, <3>1, <3>2, <3>3 DEF Kept
  <2>2. QED
    BY <2>1 DEF GroupInv
<1>3. ASSUME NEW c \in Commands, Read(c)
      PROVE  GroupInv'
  <2>1. cmd[c].at < Len(Reads(c)) /\ c \notin Builds
    BY <1>a, <1>3 DEF Stage, Read
  <2>2. /\ file' = file /\ \A d \in Commands \ {c} : cmd'[d] = cmd[d]
    BY <1>a, <1>3, <2>1, ReadFacts
  <2>3. \/ cmd'[c] = Ended("failed")
        \/ LET n == cmd[c].at + 1
           IN  /\ cmd'[c].pc = After(c, n)
               /\ cmd'[c].at = IF n < Len(Reads(c)) THEN n ELSE 0
    BY <1>a, <1>3, <2>1, ReadFacts
  <2>4. Writes(c) = << >> => c \notin Writers
    BY WritePlan
  <2>5. Ended("failed").pc = "failed"
    BY EndedType DEF Phases
  <2>6. QED
    BY <1>2, <2>2, <2>3, <2>4, <2>5 DEF After
<1>4. ASSUME NEW c \in Commands, Kill(c)
      PROVE  GroupInv'
  <2>1. /\ file' = file /\ cmd'[c].pc = "killed"
        /\ \A d \in Commands \ {c} : cmd'[d] = cmd[d]
    BY <1>a, <1>4, KillFacts, EndedType DEF Phases
  <2>2. QED
    BY <1>2, <2>1
(* A step of c that writes its file k, and leaves the rest as it was. *)
<1>5. ASSUME NEW c \in Commands, NEW k \in 1..4, NEW v \in {c, Torn},
             cmd[c].pc \in {"write", "open"}, k = cmd[c].at + 1,
             file' = [file EXCEPT ![Writes(c)[k]] = v],
             \A d \in Commands \ {c} :
               /\ cmd'[d].pc = cmd[d].pc /\ cmd'[d].at = cmd[d].at
               /\ cmd'[d].disturbed = cmd[d].disturbed,
             NEW w \in Writers \ {c}
      PROVE  /\ Written(w)'
             /\ Kept(w) /\ (Rivals(w, c) => BeforeMark(w, c)') => Kept(w)'
  <2>1. c \in Writers /\ Active(c)
    BY <1>a, <1>5 DEF Stage, Active
  <2>2. /\ \A i \in 1..4 :
             (Rivals(c, w) => i # k) => file'[Writes(w)[i]] = file[Writes(w)[i]]
        /\ \A f \in Files : file'[f] = w => file[f] = w
        /\ file'[Writes(c)[k]] = v
    <3>1. Touches(c, k, v)
      BY <1>a, <1>5, <2>1, OneWrite
    <3>2. w \in Writers /\ w # c
      BY <1>5
    <3>3. QED
      BY <3>1, <3>2 DEF Touches
  <2>3. /\ cmd'[w].pc = cmd[w].pc /\ cmd'[w].at = cmd[w].at
        /\ cmd'[w].disturbed = cmd[w].disturbed
    BY <1>c, <1>5
  <2>4. Written(w)'
    <3>1. SUFFICES ASSUME Undisturbed(w), cmd[w].pc \in {"write", "open"}
                   PROVE  \A i \in 1..cmd[w].at : file'[Writes(w)[i]] = w
      BY <2>3 DEF Written, Undisturbed, Active
    <3>2. cmd[w].at \in 0..3
      BY <1>a, <1>c, <3>1 DEF Stage
    <3>3. ~Rivals(c, w)
      BY <1>a, <1>c, <1>d, <2>1, <3>1 DEF AloneInv, Rivals
    <3>4. \A i \in 1..cmd[w].at : i \in 1..4 /\ file[Writes(w)[i]] = w
      BY <1>b, <3>1, <3>2 DEF Written
    <3>5. QED
      BY <2>2, <3>3, <3>4
  <2>5. ASSUME Kept(w), Rivals(w, c) => BeforeMark(w, c)', Trusted(w)', (file[Mark(w)] = w)'
        PROVE  /\ \A i \in MarkAt(w)..4 : file'[Writes(w)[i]] = w
               /\ \A d \in Commands : Rivals(w, d) => BeforeMark(w, d)'
    <3>1. Mark(w) \in Files /\ Writes(w)[MarkAt(w)] = Mark(w) /\ MarkAt(w) \in 1..2
      BY WritePlan DEF Mark, Files, Splits, Bundle
    <3>2. file[Mark(w)] = w /\ Trusted(w)
      BY <2>2, <2>3, <2>5, <3>1 DEF Trusted
    <3>3. /\ \A i \in MarkAt(w)..4 : file[Writes(w)[i]] = w
          /\ \A d \in Commands : Rivals(w, d) => BeforeMark(w, d)
      BY <2>5, <3>2 DEF Kept
    <3>4. Rivals(c, w) => k < MarkAt(w)
      <4>1. SUFFICES ASSUME Rivals(c, w)
                     PROVE  k < MarkAt(w)
        OBVIOUS
      <4>2. Rivals(w, c) /\ Writes(c) = Writes(w)
        BY <2>1, <4>1, RivalPlan DEF Rivals
      <4>3. BeforeMark(w, c)
        BY <2>1, <3>3, <4>2 DEF Writers, Commands
      <4>4. cmd[c].at \in 0..3
        BY <1>a, <1>5 DEF Stage
      <4>5. k # MarkAt(w)
        <5>1. v # w
          BY <1>5, <1>c, ArtifactsAssumption
        <5>2. QED
          BY <2>2, <2>5, <3>1, <4>2, <5>1
      <4>6. k <= MarkAt(w)
        BY <1>5, <3>1, <4>3, <4>4 DEF BeforeMark
      <4>7. QED
        BY <1>5, <3>1, <4>5, <4>6
    <3>5. ASSUME NEW i \in MarkAt(w)..4
          PROVE  file'[Writes(w)[i]] = w
      <4>1. i \in 1..4 /\ (Rivals(c, w) => i # k)
        BY <1>5, <3>1, <3>4
      <4>2. QED
        BY <2>2, <3>3, <4>1
    <3>6. ASSUME NEW d \in Commands, Rivals(w, d)
          PROVE  BeforeMark(w, d)'
      <4>1. CASE d = c
        BY <2>5, <3>6, <4>1
      <4>2. CASE d # c
        BY <1>5, <3>3, <3>6, <4>2 DEF BeforeMark
      <4>3. QED
        BY <4>1, <4>2
    <3>7. QED
      BY <3>5, <3>6
  <2>6. QED
    BY <2>4, <2>5 DEF Kept
<1>8. CASE UNCHANGED artVars
  BY <1>b, <1>8 DEF artVars, GroupInv, Written, Kept, Undisturbed, Active, Trusted, BeforeMark
<1>6. ASSUME NEW c \in Commands, Truncate(c)
      PROVE  GroupInv'
  <2>1. /\ cmd[c].pc = "write" /\ file' = [file EXCEPT ![NextFile(c)] = Torn]
        /\ cmd'[c].pc = "open" /\ cmd'[c].at = cmd[c].at
        /\ cmd'[c].disturbed = cmd[c].disturbed
    BY <1>a, <1>6, TruncateFacts
  <2>2. \A d \in Commands \ {c} :
          /\ cmd'[d].pc = cmd[d].pc /\ cmd'[d].at = cmd[d].at
          /\ cmd'[d].disturbed = cmd[d].disturbed
    BY <1>a, <1>6, TruncateFacts
  <2> DEFINE k == cmd[c].at + 1
  <2>3. c \in Writers /\ cmd[c].at \in 0..3 /\ k \in 1..4
    BY <1>a, <2>1 DEF Stage
  <2>4. file' = [file EXCEPT ![Writes(c)[k]] = Torn]
    BY <2>1 DEF NextFile
  <2> HIDE DEF k
  <2>5. /\ \A i \in 1..4 : i # k => file'[Writes(c)[i]] = file[Writes(c)[i]]
        /\ file'[Writes(c)[k]] = Torn
    <3>1. Touches(c, k, Torn)
      BY <1>a, <2>3, <2>4, OneWrite
    <3>2. QED
      BY <3>1, <2>3, <2>4 DEF Touches
  <2>6. ASSUME NEW w \in Writers \ {c}
        PROVE  Written(w)' /\ Kept(w)'
    <3>1. /\ Written(w)'
          /\ Kept(w) /\ (Rivals(w, c) => BeforeMark(w, c)') => Kept(w)'
      BY <1>5, <2>1, <2>2, <2>3, <2>4 DEF k
    <3>2. CASE Trusted(w)' /\ file'[Mark(w)] = w
      <4>1. Rivals(w, c) => BeforeMark(w, c)'
        <5>1. SUFFICES ASSUME Rivals(w, c)
                       PROVE  cmd[c].at + 1 < MarkAt(w)
          BY <2>1 DEF BeforeMark
        <5>2. Writes(c) = Writes(w) /\ Mark(w) \in Files /\ Writes(w)[MarkAt(w)] = Mark(w)
          BY <1>d, <5>1, <2>3, RivalPlan, WritePlan DEF Mark, Files, Splits, Bundle
        <5>3. k # MarkAt(w)
          BY <1>c, <2>5, <3>2, <5>2, ArtifactsAssumption
        <5>4. file[Mark(w)] = w
          BY <1>c, <2>5, <3>2, <5>2, <5>3
        <5>5. Trusted(w)
          BY <1>c, <2>2, <3>2 DEF Trusted
        <5>6. BeforeMark(w, c)
          BY <1>b, <5>1, <5>4, <5>5 DEF Kept
        <5>7. QED
          BY <1>c, <2>1, <2>3, <5>3, <5>6 DEF BeforeMark, k
      <4>2. QED
        BY <1>b, <3>1, <4>1
    <3>3. CASE ~(Trusted(w)' /\ file'[Mark(w)] = w)
      BY <3>1, <3>3 DEF Kept
    <3>4. QED
      BY <3>2, <3>3
  <2>7. Written(c)' /\ Kept(c)'
    <3>1. Undisturbed(c)' => Undisturbed(c)
      BY <2>1 DEF Undisturbed, Active
    <3>2. Undisturbed(c) => \A i \in 1..cmd[c].at : file[Writes(c)[i]] = c
      BY <1>b, <2>1, <2>3 DEF Written
    <3>3. \A i \in 1..cmd[c].at : i \in 1..4 /\ i # k
      BY <2>3 DEF k
    <3>4. Written(c)'
      BY <2>1, <2>5, <3>1, <3>2, <3>3 DEF Written
    <3>5. QED
      BY <2>1, <3>4 DEF Kept, Trusted
  <2>8. QED
    BY <2>6, <2>7 DEF GroupInv
<1>7. ASSUME NEW c \in Commands, Complete(c)
      PROVE  GroupInv'
  <2>1. c \in Writers /\ cmd[c].at \in 0..3 /\ Len(Writes(c)) = 4
    BY <1>a, <1>7, WritePlan DEF Stage, Complete
  <2>2. /\ cmd[c].pc = "open"
        /\ \/ file' = [file EXCEPT ![NextFile(c)] = c]
           \/ cmd[c].mixed /\ file' = [file EXCEPT ![NextFile(c)] = Torn]
        /\ cmd'[c].pc = IF cmd[c].at = 3 THEN "done" ELSE "write"
        /\ cmd'[c].at = cmd[c].at + 1
        /\ cmd'[c].disturbed = cmd[c].disturbed
        /\ \A d \in Commands \ {c} : cmd'[d] = cmd[d]
    BY <1>a, <1>7, <2>1, CompleteFacts
  <2> DEFINE k == cmd[c].at + 1
  <2>3. k \in 1..4
    BY <2>1
  <2>4. PICK v \in {c, Torn} : file' = [file EXCEPT ![Writes(c)[k]] = v]
                               /\ (v = Torn => cmd[c].mixed \/ c = Torn)
    BY <2>2 DEF NextFile
  <2> HIDE DEF k
  <2>5. /\ \A i \in 1..4 : i # k => file'[Writes(c)[i]] = file[Writes(c)[i]]
        /\ file'[Writes(c)[k]] = v
    <3>1. Touches(c, k, v)
      BY <1>a, <2>1, <2>3, <2>4, OneWrite
    <3>2. QED
      BY <3>1, <2>1, <2>3, <2>4 DEF Touches
  <2>6. ASSUME NEW w \in Writers \ {c}
        PROVE  Written(w)' /\ Kept(w)'
    <3>1. /\ Written(w)'
          /\ Kept(w) /\ (Rivals(w, c) => BeforeMark(w, c)') => Kept(w)'
      BY <1>5, <2>2, <2>3, <2>4 DEF k
    <3>2. CASE Trusted(w)' /\ file'[Mark(w)] = w
      <4>1. Rivals(w, c) => BeforeMark(w, c)'
        <5>1. SUFFICES ASSUME Rivals(w, c)
                       PROVE  BeforeMark(w, c)'
          OBVIOUS
        <5>2. Writes(c) = Writes(w) /\ Mark(w) \in Files /\ Writes(w)[MarkAt(w)] = Mark(w)
          BY <1>d, <5>1, <2>1, RivalPlan, WritePlan DEF Mark, Files, Splits, Bundle
        <5>3. v # w
          BY <1>c, ArtifactsAssumption
        <5>4. k # MarkAt(w)
          BY <2>5, <3>2, <5>2, <5>3
        <5>5. file[Mark(w)] = w
          BY <1>c, <2>5, <3>2, <5>2, <5>4
        <5>6. Trusted(w)
          BY <1>c, <2>2, <3>2 DEF Trusted
        <5>7. BeforeMark(w, c)
          BY <1>b, <5>1, <5>5, <5>6 DEF Kept
        <5>8. QED
          BY <1>c, <2>1, <2>2, <5>7 DEF BeforeMark
      <4>2. QED
        BY <1>b, <3>1, <4>1
    <3>3. CASE ~(Trusted(w)' /\ file'[Mark(w)] = w)
      BY <3>1, <3>3 DEF Kept
    <3>4. QED
      BY <3>2, <3>3
  <2>7. cmd[c].disturbed \/ \A i \in 1..k : file'[Writes(c)[i]] = c
    <3>1. SUFFICES ASSUME ~cmd[c].disturbed, NEW i \in 1..k
                   PROVE  file'[Writes(c)[i]] = c
      OBVIOUS
    <3>2. ~cmd[c].mixed /\ Undisturbed(c)
      BY <1>a, <2>1, <2>2, <3>1 DEF Stage, Undisturbed, Active, Writers, Commands
    <3>3. \A j \in 1..cmd[c].at : file[Writes(c)[j]] = c
      BY <1>b, <2>1, <2>2, <3>2 DEF Written
    <3>4. CASE i = k
      BY <2>4, <2>5, <3>2, <3>4
    <3>5. CASE i # k
      <4>1. i \in 1..cmd[c].at /\ i \in 1..4
        BY <2>1, <3>1, <3>5 DEF k
      <4>2. QED
        BY <2>5, <3>3, <3>5, <4>1
    <3>6. QED
      BY <3>4, <3>5
  <2>8. Written(c)'
    BY <2>2, <2>7 DEF Written, Undisturbed, k
  <2>9. Kept(c)'
    <3>1. SUFFICES ASSUME Trusted(c)'
                   PROVE  /\ \A i \in MarkAt(c)..4 : file'[Writes(c)[i]] = c
                          /\ \A d \in Commands : Rivals(c, d) => BeforeMark(c, d)'
      BY DEF Kept
    <3>2. k = 4 /\ ~cmd[c].disturbed /\ Undisturbed(c)
      BY <2>1, <2>2, <3>1 DEF Trusted, k, Undisturbed, Active
    <3>3. \A i \in MarkAt(c)..4 : i \in 1..k
      BY <1>c, <2>1, <3>2
    <3>4. ASSUME NEW d \in Commands, Rivals(c, d)
          PROVE  BeforeMark(c, d)'
      <4>1. CASE d = c
        BY <2>1, <2>2, <4>1, <3>2 DEF BeforeMark, k
      <4>2. CASE d # c
        <5>1. ~Active(d)
          BY <1>a, <1>c, <1>d, <2>1, <3>2, <3>4, <4>2 DEF AloneInv
        <5>2. QED
          BY <2>2, <4>2, <5>1 DEF BeforeMark, Active
      <4>3. QED
        BY <4>1, <4>2
    <3>5. QED
      BY <2>7, <3>2, <3>3, <3>4
  <2>10. QED
    BY <2>6, <2>8, <2>9 DEF GroupInv
<1>9. QED
  BY <1>1, <1>3, <1>4, <1>6, <1>7, <1>8 DEF ArtNext, Step

(* GroupIsWhole: where the model, or the train split, is the work of a run
   that ended undisturbed, the whole bundle, or every split, is. *)
THEOREM WholeGroups == ArtSpec => []GroupIsWhole
<1>1. BaseInv /\ GroupInv => GroupIsWhole
  <2>1. SUFFICES ASSUME GroupInv
                 PROVE  GroupIsWhole
    OBVIOUS
  <2>2. ASSUME NEW w \in Writers, Trusted(w), file[Mark(w)] = w, NEW f \in Group(w)
        PROVE  file[f] = w
    <3>1. PICK i \in MarkAt(w)..4 : Writes(w)[i] = f
      BY <2>2, WritePlan
    <3>2. QED
      BY <2>1, <2>2, <3>1 DEF GroupInv, Kept
  <2>3. \A t \in Trainings : t \in Writers /\ Mark(t) = "model" /\ Group(t) = Bundle
    BY ArtifactsAssumption DEF Writers, Mark, Group
  <2>4. \A b \in Builds : b \in Writers /\ Mark(b) = "train" /\ Group(b) = Splits
    BY DEF Writers, Mark, Group
  <2>5. QED
    BY <2>2, <2>3, <2>4 DEF GroupIsWhole
<1>2. QED
  BY BaseInit, BaseStep, GroupInit, GroupStep, <1>1, PTL DEF ArtSpec

-----------------------------------------------------------------------------
(* Reading undisturbed: the mark is read first, and stays what it was until
   the last file of its group is read. *)

Readers == Trainings \cup Loads \cup Checks

ReadMark(c) == IF c \in Loads THEN "model" ELSE "train"

ReadGroup(c) == IF c \in Loads THEN {"model", "manifest"} ELSE Splits

ReadCount(c) == IF cmd[c].pc = "read" THEN cmd[c].at ELSE Len(Reads(c))

Ends == {"done", "failed", "killed"}

Fresh(c) == cmd[c].pc \in {"idle", "failed", "killed"} => cmd[c].seen = Nothing

AuthorsEnded(c) ==
  ~cmd[c].disturbed =>
    \A f \in Elements(Reads(c)) :
      cmd[c].seen[f] \in Commands => cmd[cmd[c].seen[f]].pc \in Ends

MarkStays(c) ==
  ~cmd[c].disturbed /\ cmd[c].pc = "read" /\ cmd[c].at >= 1
    => file[ReadMark(c)] = cmd[c].seen[ReadMark(c)]

OfOneRun(c) ==
  \A w \in Writers :
    /\ ~cmd[c].disturbed /\ cmd[c].seen[ReadMark(c)] = w
    /\ Mark(w) = ReadMark(c) /\ Trusted(w)
    => \A i \in 1..ReadCount(c) :
         Reads(c)[i] \in ReadGroup(c) => cmd[c].seen[Reads(c)[i]] = w

QuietInv ==
  /\ \A c \in Commands : Fresh(c)
  /\ \A c \in Readers : AuthorsEnded(c) /\ MarkStays(c) /\ OfOneRun(c)

LEMMA ReaderPlan ==
  ASSUME NEW c \in Readers
  PROVE  /\ c \in Commands /\ c \notin Builds
         /\ Len(Reads(c)) \in 2..3 /\ Reads(c)[1] = ReadMark(c)
         /\ ReadMark(c) \in Files
         /\ \A i \in 1..Len(Reads(c)) : Reads(c)[i] = ReadMark(c) => i = 1
         /\ Elements(Reads(c)) \subseteq Files
         /\ \A f \in Elements(Reads(c)) : \E i \in 1..Len(Reads(c)) : Reads(c)[i] = f
         /\ \A i \in 1..Len(Reads(c)) : Reads(c)[i] \in Elements(Reads(c))
<1>1. c \in Commands /\ c \notin Builds
  BY ArtifactsAssumption DEF Readers, Commands
<1>2. CASE c \in Loads
  <2>1. Reads(c) = <<"model", "manifest">>
    BY <1>1, <1>2, ReadPlan
  <2>2. QED
    BY <1>1, <1>2, <2>1 DEF ReadMark, Files, Bundle, Splits, Elements
<1>3. CASE c \in Trainings
  <2>1. Reads(c) = <<"train", "validation", "test">> /\ c \notin Loads
    BY <1>1, <1>3, ReadPlan, ArtifactsAssumption
  <2>2. QED
    BY <1>1, <2>1 DEF ReadMark, Files, Bundle, Splits, Elements
<1>4. CASE c \in Checks
  <2>1. Reads(c) = <<"train", "test", "metrics">> /\ c \notin Loads
    BY <1>1, <1>4, ReadPlan, ArtifactsAssumption
  <2>2. QED
    BY <1>1, <2>1 DEF ReadMark, Files, Bundle, Splits, Elements
<1>5. QED
  BY <1>2, <1>3, <1>4 DEF Readers

(* Whoever writes a file that c reads disturbs c. *)
LEMMA WriterDisturbs ==
  ASSUME NEW c \in Readers, NEW w \in Writers, NEW i \in 1..4,
         Writes(w)[i] \in Elements(Reads(c))
  PROVE  Disturbs(w, c)
<1>1. Writes(w)[i] \in Elements(Writes(w))
  <2>1. CASE w \in Builds
    BY <2>1 DEF Writes, Elements
  <2>2. CASE w \in Trainings
    BY <2>2, ArtifactsAssumption DEF Writes, Elements
  <2>3. QED
    BY <2>1, <2>2 DEF Writers
<1>2. QED
  BY <1>1 DEF Disturbs

LEMMA QuietInit == ArtInit => QuietInv
<1> SUFFICES ASSUME ArtInit
             PROVE  QuietInv
  OBVIOUS
<1>1. \A c \in Commands : cmd[c].seen = Nothing
  BY DEF ArtInit, Ended
<1>2. \A c \in Commands : cmd[c].pc = "idle"
  BY EndedType DEF ArtInit, Phases
<1>3. \A f \in Files : Nothing[f] = Absent
  BY DEF Nothing
<1>4. Absent \notin Commands
  BY ArtifactsAssumption
<1>5. ASSUME NEW c \in Readers
      PROVE  AuthorsEnded(c) /\ MarkStays(c) /\ OfOneRun(c)
  <2>1. c \in Commands /\ ReadMark(c) \in Files /\ Elements(Reads(c)) \subseteq Files
    BY ReaderPlan
  <2>2. \A f \in Files : cmd[c].seen[f] = Absent
    BY <1>1, <1>3, <2>1
  <2>3. QED
    BY <1>2, <1>4, <2>1, <2>2 DEF AuthorsEnded, MarkStays, OfOneRun, Writers, Commands
<1>6. QED
  BY <1>1, <1>5 DEF QuietInv, Fresh

(* A command that has ended stays as it is. *)
LEMMA EndedStays ==
  ASSUME BaseInv, ArtNext, NEW d \in Commands, cmd[d].pc \in Ends
  PROVE  /\ cmd'[d].pc = cmd[d].pc /\ cmd'[d].seen = cmd[d].seen
         /\ cmd'[d].disturbed = cmd[d].disturbed
<1>a. Typed /\ (\A c \in Commands : Stage(c)) /\ ~Active(d) /\ cmd[d].pc # "idle"
  BY DEF BaseInv, Active, Ends
<1>1. PICK c \in Commands : Step(c)
  BY DEF ArtNext
<1>2. CASE Start(c)
  <2>1. d # c
    BY <1>2, <1>a DEF Start
  <2>2. cmd[d].disturbed \in BOOLEAN
    BY <1>a DEF Typed, CommandState
  <2>3. QED
    BY <1>2, <1>a, <2>1, <2>2, StartFacts
<1>3. CASE Read(c)
  <2>1. d # c /\ cmd[c].at < Len(Reads(c))
    BY <1>3, <1>a DEF Read, Stage, Active
  <2>2. QED
    BY <1>3, <1>a, <2>1, ReadFacts
<1>4. CASE Truncate(c)
  <2>1. d # c
    BY <1>4, <1>a DEF Truncate, Active
  <2>2. QED
    BY <1>4, <1>a, <2>1, TruncateFacts
<1>5. CASE Complete(c)
  <2>1. d # c /\ cmd[c].at \in 0..3 /\ Len(Writes(c)) = 4
    BY <1>5, <1>a, WritePlan DEF Complete, Stage, Active
  <2>2. QED
    BY <1>5, <1>a, <2>1, CompleteFacts
<1>6. CASE Kill(c)
  <2>1. d # c
    BY <1>6, <1>a DEF Kill
  <2>2. QED
    BY <1>6, <1>a, <2>1, KillFacts
<1>7. QED
  BY <1>1, <1>2, <1>3, <1>4, <1>5, <1>6 DEF Step

(* A reader that read nothing in this step. *)
LEMMA ReadsNothing ==
  ASSUME BaseInv, QuietInv, ArtNext, NEW c \in Readers,
         cmd'[c].seen = cmd[c].seen, ~cmd'[c].disturbed => ~cmd[c].disturbed,
         1..ReadCount(c)' \subseteq 1..ReadCount(c),
         MarkStays(c)'
  PROVE  AuthorsEnded(c)' /\ MarkStays(c)' /\ OfOneRun(c)'
<1>1. AuthorsEnded(c) /\ OfOneRun(c)
  BY DEF QuietInv
<1>2. AuthorsEnded(c)'
  BY <1>1, EndedStays DEF AuthorsEnded
<1>3. ReadMark(c) \in Elements(Reads(c))
  <2>1. 1 \in 1..Len(Reads(c)) /\ Reads(c)[1] = ReadMark(c)
    BY ReaderPlan
  <2>2. QED
    BY <2>1, ReaderPlan
<1>4. ASSUME NEW w \in Writers, ~cmd'[c].disturbed, cmd'[c].seen[ReadMark(c)] = w,
             Mark(w) = ReadMark(c), Trusted(w)',
             NEW i \in 1..ReadCount(c)', Reads(c)[i] \in ReadGroup(c)
      PROVE  cmd'[c].seen[Reads(c)[i]] = w
  <2>1. w \in Commands /\ cmd[w].pc \in Ends
    BY <1>1, <1>3, <1>4 DEF AuthorsEnded, Writers, Commands
  <2>2. Trusted(w)
    BY <1>4, <2>1, EndedStays DEF Trusted
  <2>3. QED
    BY <1>1, <1>4, <2>2 DEF OfOneRun
<1>5. OfOneRun(c)'
  BY <1>4 DEF OfOneRun
<1>6. QED
  BY <1>2, <1>5

(* A reader that knows nothing any more. *)
LEMMA KnowsNothing ==
  ASSUME NEW c \in Readers, cmd'[c].seen = Nothing, cmd'[c].pc # "read"
  PROVE  AuthorsEnded(c)' /\ MarkStays(c)' /\ OfOneRun(c)'
<1>1. Elements(Reads(c)) \subseteq Files /\ ReadMark(c) \in Files
  BY ReaderPlan
<1>2. \A f \in Files : cmd'[c].seen[f] \notin Commands
  BY ArtifactsAssumption DEF Nothing
<1>3. QED
  BY <1>1, <1>2 DEF AuthorsEnded, MarkStays, OfOneRun, Writers, Commands

(* The mark under the eyes of an undisturbed reader. *)
LEMMA NobodyWritesIt ==
  ASSUME BaseInv, NEW c \in Readers, NEW d \in Commands, d # c,
         cmd[d].pc \in {"write", "open"}, ~cmd[c].disturbed, cmd[c].pc = "read"
  PROVE  NextFile(d) # ReadMark(c)
<1>1. c \in Commands /\ ReadMark(c) \in Elements(Reads(c))
  <2>1. 1 \in 1..Len(Reads(c)) /\ Reads(c)[1] = ReadMark(c)
    BY ReaderPlan
  <2>2. QED
    BY <2>1, ReaderPlan
<1>2. Stage(d) /\ AloneInv
  BY DEF BaseInv
<1>3. d \in Writers /\ cmd[d].at + 1 \in 1..4
  BY <1>2 DEF Stage
<1>4. ~Disturbs(d, c)
  BY <1>1, <1>2 DEF AloneInv, Undisturbed, Active
<1>5. QED
  BY <1>1, <1>3, <1>4, WriterDisturbs DEF NextFile

(* A reader that has read its next file. *)
LEMMA ReadsNext ==
  ASSUME BaseInv, GroupInv, QuietInv, ArtNext, NEW c \in Readers, Read(c),
         cmd'[c] # Ended("failed")
  PROVE  AuthorsEnded(c)' /\ MarkStays(c)' /\ OfOneRun(c)'
<1> DEFINE n == cmd[c].at + 1
           f == Reads(c)[n]
<1>a. Typed /\ AloneInv /\ (\A g \in Files : WrittenBy(g)) /\ Stage(c)
  BY ReaderPlan DEF BaseInv
<1>b. AuthorsEnded(c) /\ MarkStays(c) /\ OfOneRun(c)
  BY DEF QuietInv
<1>c. c \in Commands /\ Len(Reads(c)) \in 2..3 /\ ReadMark(c) \in Files
      /\ Reads(c)[1] = ReadMark(c)
  BY ReaderPlan
<1>1. cmd[c].pc = "read" /\ cmd[c].at < Len(Reads(c)) /\ cmd[c] \in CommandState
  BY <1>a, <1>c DEF Stage, Read, Typed
<1>2. /\ cmd'[c].pc = After(c, n)
      /\ cmd'[c].at = IF n < Len(Reads(c)) THEN n ELSE 0
      /\ cmd'[c].seen = [cmd[c].seen EXCEPT ![f] = file[f]]
      /\ cmd'[c].disturbed = cmd[c].disturbed /\ file' = file
  BY <1>a, <1>c, <1>1, ReadFacts
<1>3. \A d \in Commands \ {c} : cmd'[d] = cmd[d]
  BY <1>a, <1>c, <1>1, ReadFacts
<1>4. n \in 1..Len(Reads(c)) /\ cmd[c].at \in Nat
  BY <1>c, <1>1 DEF CommandState
<1>5. f \in Files /\ f \in Elements(Reads(c)) /\ (f = ReadMark(c) => n = 1)
  BY <1>4, ReaderPlan
<1>6. ReadCount(c)' = n /\ ReadCount(c) = cmd[c].at
  BY <1>c, <1>1, <1>2, <1>4 DEF ReadCount, After
<1>7. cmd[c].seen \in [Files -> Contents]
  BY <1>1 DEF CommandState
<1> HIDE DEF n, f
<1>8. \A g \in Files : cmd'[c].seen[g] = IF g = f THEN file[f] ELSE cmd[c].seen[g]
  BY <1>2, <1>7
<1>9. ASSUME ~cmd[c].disturbed, file[f] \in Commands
      PROVE  cmd[file[f]].pc \in Ends /\ file[f] # c
  <2>1. /\ file[f] \in Writers /\ cmd[file[f]].pc # "idle"
        /\ \E i \in 1..4 : Writes(file[f])[i] = f
    BY <1>a, <1>5, <1>9 DEF WrittenBy
  <2>2. Disturbs(file[f], c)
    BY <1>5, <2>1, WriterDisturbs
  <2>3. file[f] # c
    <3>1. c \in Trainings => \A i \in 1..4 : Writes(c)[i] \in Bundle
      BY ArtifactsAssumption DEF Writes, Bundle
    <3>2. c \in Trainings => f \in Splits
      BY <1>5, <1>c, ReadPlan DEF Elements, Splits
    <3>3. c \in Writers => c \in Trainings
      BY ReaderPlan DEF Writers
    <3>4. Splits \cap Bundle = {}
      BY DEF Splits, Bundle
    <3>5. QED
      BY <2>1, <3>1, <3>2, <3>3, <3>4
  <2>4. ~Active(file[f])
    BY <1>a, <1>c, <1>1, <1>9, <2>2, <2>3 DEF AloneInv, Undisturbed, Active
  <2>5. cmd[file[f]].pc \in Phases
    BY <1>a, <1>9 DEF Typed, CommandState
  <2>6. QED
    BY <2>1, <2>3, <2>4, <2>5 DEF Active, Phases, Ends
<1>10. AuthorsEnded(c)'
  <2>1. SUFFICES ASSUME ~cmd[c].disturbed, NEW g \in Elements(Reads(c)),
                        cmd'[c].seen[g] \in Commands
                 PROVE  cmd'[cmd'[c].seen[g]].pc \in Ends
    BY <1>2 DEF AuthorsEnded
  <2>2. g \in Files
    BY ReaderPlan
  <2>3. CASE g = f
    BY <1>3, <1>8, <1>9, <2>1, <2>2, <2>3
  <2>4. CASE g # f
    BY <1>b, <1>8, <2>1, <2>2, <2>4, EndedStays DEF AuthorsEnded
  <2>5. QED
    BY <2>3, <2>4
<1>11. ASSUME ~cmd[c].disturbed
       PROVE  file[ReadMark(c)] = cmd'[c].seen[ReadMark(c)]
  <2>1. CASE f = ReadMark(c)
    BY <1>c, <1>8, <2>1
  <2>2. CASE f # ReadMark(c)
    <3>1. cmd[c].at >= 1
      BY <1>c, <1>4, <2>2 DEF n, f
    <3>2. QED
      BY <1>b, <1>c, <1>1, <1>8, <1>11, <2>2, <3>1 DEF MarkStays
  <2>3. QED
    BY <2>1, <2>2
<1>12. MarkStays(c)'
  BY <1>2, <1>11 DEF MarkStays
<1>13. OfOneRun(c)'
  <2>1. SUFFICES ASSUME NEW w \in Writers, ~cmd[c].disturbed,
                        cmd'[c].seen[ReadMark(c)] = w, Mark(w) = ReadMark(c), Trusted(w)',
                        NEW i \in 1..n, Reads(c)[i] \in ReadGroup(c)
                 PROVE  cmd'[c].seen[Reads(c)[i]] = w
    BY <1>2, <1>6 DEF OfOneRun
  <2>2. file[ReadMark(c)] = w
    BY <1>11, <2>1
  <2>3. i \in 1..Len(Reads(c)) /\ Reads(c)[i] \in Files
    BY <1>4, <2>1, <1>c, ReadFiles
  <2>4. w \in Commands
    BY DEF Writers, Commands
  <2>5. Trusted(w)
    <3>1. ReadMark(c) \in Elements(Reads(c))
      BY <1>c, ReaderPlan
    <3>2. w # c
      <4>1. c \in Writers => Mark(c) = "model" /\ ReadMark(c) = "train"
        BY ArtifactsAssumption DEF Readers, Writers, Mark, ReadMark
      <4>2. QED
        BY <2>1, <4>1
    <3>3. QED
      BY <1>3, <2>1, <2>4, <3>2 DEF Trusted
  <2>6. CASE Reads(c)[i] = f
    <3>1. \A j \in MarkAt(w)..4 : file[Writes(w)[j]] = w
      BY <2>1, <2>2, <2>5 DEF GroupInv, Kept
    <3>2. f \in Group(w)
      <4>1. ReadGroup(c) \subseteq Group(w)
        <5>1. CASE c \in Loads
          BY <2>1, <5>1 DEF ReadMark, ReadGroup, Mark, Group, Bundle
        <5>2. CASE c \notin Loads
          BY <2>1, <5>2 DEF ReadMark, ReadGroup, Mark, Group
        <5>3. QED
          BY <5>1, <5>2
      <4>2. QED
        BY <2>1, <2>6, <4>1
    <3>3. PICK j \in MarkAt(w)..4 : Writes(w)[j] = f
      BY <3>2, WritePlan
    <3>4. QED
      BY <1>8, <2>3, <2>6, <3>1, <3>3
  <2>7. CASE Reads(c)[i] # f
    <3>1. i \in 1..cmd[c].at
      BY <1>4, <2>1, <2>7 DEF n, f
    <3>2. f # ReadMark(c)
      BY <1>c, <1>4, <1>5, <3>1 DEF n
    <3>3. cmd[c].seen[ReadMark(c)] = w
      BY <1>c, <1>8, <2>1, <3>2
    <3>4. cmd[c].seen[Reads(c)[i]] = w
      BY <1>b, <1>6, <2>1, <2>5, <3>1, <3>3 DEF OfOneRun
    <3>5. QED
      BY <1>8, <2>3, <2>7, <3>4
  <2>8. QED
    BY <2>6, <2>7
<1>14. QED
  BY <1>10, <1>12, <1>13

LEMMA QuietStep == BaseInv /\ GroupInv /\ QuietInv /\ [ArtNext]_artVars => QuietInv'
<1> SUFFICES ASSUME BaseInv, GroupInv, QuietInv, [ArtNext]_artVars
             PROVE  QuietInv'
  OBVIOUS
<1>a. Typed /\ \A c \in Commands : Stage(c)
  BY DEF BaseInv
<1>b. (\A c \in Commands : Fresh(c))
      /\ \A c \in Readers : AuthorsEnded(c) /\ MarkStays(c) /\ OfOneRun(c)
  BY DEF QuietInv
<1>c. Readers \subseteq Commands /\ \A c \in Readers : c \notin Builds /\ Len(Reads(c)) \in 2..3
  BY ReaderPlan
<1>d. Readers \subseteq Commands /\ \A h \in {"failed", "killed"} :
                                      Ended(h).seen = Nothing /\ Ended(h).pc = h
  BY <1>c DEF Ended
<1>1. ASSUME NEW d \in Commands, Start(d)
      PROVE  QuietInv'
  <2>1. /\ file' = file /\ cmd[d].pc = "idle" /\ cmd'[d].seen = cmd[d].seen
        /\ cmd'[d].pc = (IF d \in Builds THEN "write" ELSE "read")
        /\ cmd'[d].at = cmd[d].at
    BY <1>a, <1>1, StartFacts
  <2>2. \A c \in Commands \ {d} :
          /\ cmd'[c].pc = cmd[c].pc /\ cmd'[c].at = cmd[c].at /\ cmd'[c].seen = cmd[c].seen
          /\ cmd'[c].disturbed = (cmd[c].disturbed \/ (Active(c) /\ Disturbs(d, c)))
    BY <1>a, <1>1, StartFacts
  <2>3. cmd[d].at = 0
    BY <1>a, <2>1 DEF Stage
  <2>4. \A c \in Commands : Fresh(c)'
    BY <1>b, <2>1, <2>2 DEF Fresh
  <2>5. ASSUME NEW c \in Readers
        PROVE  AuthorsEnded(c)' /\ MarkStays(c)' /\ OfOneRun(c)'
    <3>1. CASE c = d
      <4>1. cmd'[c].seen = Nothing
        BY <1>b, <2>1, <3>1 DEF Fresh
      <4>2. \A f \in Files : Nothing[f] = Absent
        BY DEF Nothing
      <4>3. Elements(Reads(c)) \subseteq Files
        BY ReaderPlan
      <4>4. AuthorsEnded(c)'
        BY <4>1, <4>2, <4>3, ArtifactsAssumption DEF AuthorsEnded
      <4>5. MarkStays(c)' /\ ReadCount(c)' = 0
        BY <1>c, <2>1, <2>3, <3>1 DEF MarkStays, ReadCount
      <4>6. 1..ReadCount(c)' = {}
        BY <4>5
      <4>7. OfOneRun(c)'
        BY <4>6 DEF OfOneRun
      <4>8. QED
        BY <4>4, <4>5, <4>7
    <3>2. CASE c # d
      <4>1. /\ cmd'[c].pc = cmd[c].pc /\ cmd'[c].at = cmd[c].at /\ cmd'[c].seen = cmd[c].seen
            /\ (~cmd'[c].disturbed => ~cmd[c].disturbed)
        BY <1>c, <2>2, <3>2
      <4>2. MarkStays(c)' /\ ReadCount(c)' = ReadCount(c)
        BY <1>b, <2>1, <4>1 DEF MarkStays, ReadCount
      <4>3. QED
        BY <1>1, <4>1, <4>2, ReadsNothing DEF ArtNext, Step
    <3>3. QED
      BY <3>1, <3>2
  <2>6. QED
    BY <2>4, <2>5 DEF QuietInv
(* A step of d alone, that leaves the marks under the eyes of the others. *)
<1>2. ASSUME NEW d \in Commands, Step(d), NEW c \in Readers \ {d},
             cmd'[c].pc = cmd[c].pc, cmd'[c].at = cmd[c].at, cmd'[c].seen = cmd[c].seen,
             cmd'[c].disturbed = cmd[c].disturbed,
             ~cmd[c].disturbed /\ cmd[c].pc = "read" => file'[ReadMark(c)] = file[ReadMark(c)]
      PROVE  AuthorsEnded(c)' /\ MarkStays(c)' /\ OfOneRun(c)'
  <2>1. MarkStays(c)' /\ ReadCount(c)' = ReadCount(c)
    BY <1>b, <1>2 DEF MarkStays, ReadCount
  <2>2. ArtNext
    BY <1>2 DEF ArtNext
  <2>3. QED
    BY <1>2, <2>1, <2>2, ReadsNothing
<1>3. ASSUME NEW d \in Commands, Read(d)
      PROVE  QuietInv'
  <2>1. cmd[d].at < Len(Reads(d)) /\ cmd[d].pc = "read" /\ d \notin Builds
    BY <1>a, <1>3 DEF Read, Stage
  <2>2. d \in Readers
    BY <2>1 DEF Readers, Commands
  <2>3. file' = file /\ \A c \in Commands \ {d} : cmd'[c] = cmd[c]
    BY <1>a, <1>3, <2>1, ReadFacts
  <2>4. cmd'[d] = Ended("failed") \/ cmd'[d].pc \in {"read", "write", "done"}
    <3>1. cmd'[d] = Ended("failed") \/ cmd'[d].pc = After(d, cmd[d].at + 1)
      BY <1>a, <1>3, <2>1, ReadFacts
    <3>2. QED
      BY <3>1 DEF After
  <2>5. \A c \in Commands : Fresh(c)'
    BY <1>b, <1>d, <2>3, <2>4 DEF Fresh
  <2>6. AuthorsEnded(d)' /\ MarkStays(d)' /\ OfOneRun(d)'
    <3>1. CASE cmd'[d] = Ended("failed")
      <4>1. cmd'[d].seen = Nothing /\ cmd'[d].pc # "read"
        BY <1>d, <3>1
      <4>2. QED
        BY <2>2, <4>1, KnowsNothing
    <3>2. CASE cmd'[d] # Ended("failed")
      BY <1>3, <2>2, <3>2, ReadsNext DEF ArtNext, Step
    <3>3. QED
      BY <3>1, <3>2
  <2>7. ASSUME NEW c \in Readers \ {d}
        PROVE  AuthorsEnded(c)' /\ MarkStays(c)' /\ OfOneRun(c)'
    <3>1. cmd'[c] = cmd[c] /\ Step(d)
      BY <1>3, <1>c, <2>3 DEF Step
    <3>2. QED
      BY <1>2, <2>3, <3>1
  <2>8. QED
    BY <2>5, <2>6, <2>7 DEF QuietInv
<1>4. ASSUME NEW d \in Commands, Kill(d)
      PROVE  QuietInv'
  <2>1. /\ file' = file /\ cmd'[d] = Ended("killed")
        /\ \A c \in Commands \ {d} : cmd'[c] = cmd[c]
    BY <1>a, <1>4, KillFacts
  <2>2. cmd'[d].seen = Nothing /\ cmd'[d].pc = "killed"
    BY <1>d, <2>1
  <2>3. \A c \in Commands : Fresh(c)'
    BY <1>b, <2>1, <2>2 DEF Fresh
  <2>4. ASSUME NEW c \in Readers
        PROVE  AuthorsEnded(c)' /\ MarkStays(c)' /\ OfOneRun(c)'
    <3>1. CASE c = d
      BY <2>2, <3>1, KnowsNothing
    <3>2. CASE c # d
      <4>1. cmd'[c] = cmd[c] /\ Step(d)
        BY <1>4, <1>c, <2>1, <3>2 DEF Step
      <4>2. QED
        BY <1>2, <2>1, <3>2, <4>1
    <3>3. QED
      BY <3>1, <3>2
  <2>5. QED
    BY <2>3, <2>4 DEF QuietInv
(* A step of the writer d on its next file. *)
<1>5. ASSUME NEW d \in Commands, Truncate(d) \/ Complete(d),
             cmd[d].pc \in {"write", "open"}, cmd'[d].pc \in {"write", "open", "done"},
             cmd'[d].seen = cmd[d].seen, cmd'[d].disturbed = cmd[d].disturbed,
             NEW v, file' = [file EXCEPT ![NextFile(d)] = v],
             \A c \in Commands \ {d} :
               /\ cmd'[c].pc = cmd[c].pc /\ cmd'[c].at = cmd[c].at
               /\ cmd'[c].seen = cmd[c].seen /\ cmd'[c].disturbed = cmd[c].disturbed
      PROVE  QuietInv'
  <2>1. \A c \in Commands : Fresh(c)'
    BY <1>b, <1>5 DEF Fresh
  <2>2. ASSUME NEW c \in Readers
        PROVE  AuthorsEnded(c)' /\ MarkStays(c)' /\ OfOneRun(c)'
    <3>1. CASE c = d
      <4>1. MarkStays(c)' /\ ReadCount(c)' = ReadCount(c)
        BY <1>5, <3>1 DEF MarkStays, ReadCount
      <4>2. ArtNext
        BY <1>5 DEF ArtNext, Step
      <4>3. QED
        BY <1>5, <3>1, <4>1, <4>2, ReadsNothing
    <3>2. CASE c # d
      <4>1. ~cmd[c].disturbed /\ cmd[c].pc = "read" => NextFile(d) # ReadMark(c)
        BY <1>5, <3>2, NobodyWritesIt
      <4>2. ~cmd[c].disturbed /\ cmd[c].pc = "read"
              => file'[ReadMark(c)] = file[ReadMark(c)]
        BY <1>5, <4>1, <1>a, ReaderPlan DEF Typed
      <4>3. Step(d)
        BY <1>5 DEF Step
      <4>4. QED
        BY <1>2, <1>5, <1>c, <3>2, <4>2, <4>3
    <3>3. QED
      BY <3>1, <3>2
  <2>3. QED
    BY <2>1, <2>2 DEF QuietInv
<1>6. ASSUME NEW d \in Commands, Truncate(d)
      PROVE  QuietInv'
  <2>1. /\ cmd[d].pc = "write" /\ file' = [file EXCEPT ![NextFile(d)] = Torn]
        /\ cmd'[d].pc = "open" /\ cmd'[d].seen = cmd[d].seen
        /\ cmd'[d].disturbed = cmd[d].disturbed
    BY <1>a, <1>6, TruncateFacts
  <2>2. \A c \in Commands \ {d} :
          /\ cmd'[c].pc = cmd[c].pc /\ cmd'[c].at = cmd[c].at
          /\ cmd'[c].seen = cmd[c].seen /\ cmd'[c].disturbed = cmd[c].disturbed
    BY <1>a, <1>6, TruncateFacts
  <2>3. QED
    BY <1>5, <1>6, <2>1, <2>2
<1>7. ASSUME NEW d \in Commands, Complete(d)
      PROVE  QuietInv'
  <2>1. cmd[d].at \in 0..3 /\ Len(Writes(d)) = 4
    BY <1>a, <1>7, WritePlan DEF Stage, Complete
  <2>2. /\ cmd[d].pc = "open"
        /\ \/ file' = [file EXCEPT ![NextFile(d)] = d]
           \/ file' = [file EXCEPT ![NextFile(d)] = Torn]
        /\ cmd'[d].pc = (IF cmd[d].at = 3 THEN "done" ELSE "write")
        /\ cmd'[d].seen = cmd[d].seen /\ cmd'[d].disturbed = cmd[d].disturbed
        /\ \A c \in Commands \ {d} : cmd'[c] = cmd[c]
    BY <1>a, <1>7, <2>1, CompleteFacts
  <2>3. PICK v : file' = [file EXCEPT ![NextFile(d)] = v]
    BY <2>2
  <2>4. cmd'[d].pc \in {"write", "open", "done"} /\ cmd[d].pc \in {"write", "open"}
    BY <2>2
  <2>5. QED
    BY <1>5, <1>7, <2>2, <2>3, <2>4
<1>8. CASE UNCHANGED artVars
  BY <1>b, <1>8 DEF artVars, QuietInv, Fresh, AuthorsEnded, MarkStays, OfOneRun, ReadCount, Trusted
<1>9. QED
  BY <1>1, <1>3, <1>4, <1>6, <1>7, <1>8 DEF ArtNext, Step

LEMMA QuietInvReads == BaseInv /\ QuietInv => QuietReadIsOfOneRun
<1>1. ASSUME BaseInv, QuietInv, NEW c \in Readers, HasRead(c), ~cmd[c].disturbed,
             NEW w \in Writers, cmd[c].seen[Mark(w)] = w, Trusted(w), Mark(w) = ReadMark(c),
             NEW f \in Elements(Reads(c)) \cap ReadGroup(c)
      PROVE  cmd[c].seen[f] = w
  <2>1. OfOneRun(c) /\ ReadCount(c) = Len(Reads(c))
    BY <1>1 DEF QuietInv, ReadCount, HasRead
  <2>2. PICK i \in 1..Len(Reads(c)) : Reads(c)[i] = f
    BY ReaderPlan
  <2>3. QED
    BY <1>1, <2>1, <2>2 DEF OfOneRun
<1>2. ASSUME NEW c \in Commands
      PROVE  /\ Elements(Reads(c)) # {} => c \in Readers
             /\ ReadMark(c) = IF c \in Loads THEN "model" ELSE "train"
             /\ c \in Loads => Elements(Reads(c)) \cap Splits = {}
             /\ c \notin Loads => Elements(Reads(c)) \cap {"model", "manifest"} = {}
             /\ ReadGroup(c) = IF c \in Loads THEN {"model", "manifest"} ELSE Splits
  <2>1. c \in Builds \/ c \in Readers
    BY DEF Commands, Readers
  <2>2. c \in Builds => Elements(Reads(c)) = {}
    BY ReadPlan DEF Elements
  <2>3. c \in Loads => Elements(Reads(c)) = {"model", "manifest"}
    BY ReadPlan DEF Elements
  <2>4. c \in Trainings \cup Checks => "model" \notin Elements(Reads(c))
                                       /\ "manifest" \notin Elements(Reads(c))
    BY ReadPlan DEF Elements
  <2>5. QED
    BY <2>1, <2>2, <2>3, <2>4 DEF Readers, Splits, ReadMark, ReadGroup
<1>3. /\ \A b \in Builds : b \in Writers /\ Mark(b) = "train"
      /\ \A t \in Trainings : t \in Writers /\ Mark(t) = "model"
  BY ArtifactsAssumption DEF Writers, Mark
<1>4. SUFFICES ASSUME BaseInv, QuietInv, NEW c \in Commands, HasRead(c), ~cmd[c].disturbed
               PROVE  /\ \A f \in Elements(Reads(c)) \cap Splits :
                           cmd[c].seen["train"] \in Builds /\ Trusted(cmd[c].seen["train"])
                             => cmd[c].seen[f] = cmd[c].seen["train"]
                      /\ \A f \in Elements(Reads(c)) \cap {"model", "manifest"} :
                           cmd[c].seen["model"] \in Trainings /\ Trusted(cmd[c].seen["model"])
                             => cmd[c].seen[f] = cmd[c].seen["model"]
  BY DEF QuietReadIsOfOneRun
<1>5. ASSUME NEW f \in Elements(Reads(c)) \cap Splits,
             cmd[c].seen["train"] \in Builds, Trusted(cmd[c].seen["train"])
      PROVE  cmd[c].seen[f] = cmd[c].seen["train"]
  <2>1. c \in Readers /\ c \notin Loads /\ ReadMark(c) = "train" /\ f \in ReadGroup(c)
    BY <1>2, <1>5
  <2>2. QED
    BY <1>1, <1>3, <1>4, <1>5, <2>1
<1>6. ASSUME NEW f \in Elements(Reads(c)) \cap {"model", "manifest"},
             cmd[c].seen["model"] \in Trainings, Trusted(cmd[c].seen["model"])
      PROVE  cmd[c].seen[f] = cmd[c].seen["model"]
  <2>1. c \in Readers /\ c \in Loads /\ ReadMark(c) = "model" /\ f \in ReadGroup(c)
    BY <1>2, <1>6
  <2>2. QED
    BY <1>1, <1>3, <1>4, <1>6, <2>1
<1>7. QED
  BY <1>5, <1>6

(* QuietReadIsOfOneRun: who reads undisturbed, and finds the mark of a run that
   ended undisturbed, has read files of that run alone. *)
THEOREM QuietReads == ArtSpec => []QuietReadIsOfOneRun
BY BaseInit, BaseStep, GroupInit, GroupStep, QuietInit, QuietStep, QuietInvReads, PTL DEF ArtSpec

-----------------------------------------------------------------------------
(* Model selection: the recursion over the candidates finds the first of those
   with the least error. *)

FirstBest(scores, k, i) ==
  /\ i \in 1..k
  /\ \A j \in 1..k : scores[i] <= scores[j] /\ (j < i => scores[i] < scores[j])

(* The better of the first best so far and the next candidate. *)
Better(scores, k, i) == IF scores[k] < scores[i] THEN k ELSE i

LEMMA FirstBestStep ==
  ASSUME NEW n \in Nat, NEW scores \in [1..n -> Nat], NEW k \in 1..n, k # 1,
         NEW i, FirstBest(scores, k - 1, i)
  PROVE  FirstBest(scores, k, Better(scores, k, i))
<1>1. i \in 1..(k - 1) /\ i \in 1..n /\ \A j \in 1..k : j \in 1..(k - 1) \/ j = k
  BY DEF FirstBest
<1>2. \A j \in 1..(k - 1) : scores[i] <= scores[j] /\ (j < i => scores[i] < scores[j])
  BY DEF FirstBest
<1>3. \A j \in 1..k : j \in 1..n /\ scores[j] \in Nat
  OBVIOUS
<1>4. CASE scores[k] < scores[i]
  <2>1. Better(scores, k, i) = k
    BY <1>4 DEF Better
  <2>2. \A j \in 1..k : scores[k] <= scores[j] /\ (j < k => scores[k] < scores[j])
    BY <1>1, <1>2, <1>3, <1>4
  <2>3. QED
    BY <2>1, <2>2 DEF FirstBest
<1>5. CASE ~(scores[k] < scores[i])
  <2>1. Better(scores, k, i) = i
    BY <1>5 DEF Better
  <2>2. \A j \in 1..k : scores[i] <= scores[j] /\ (j < i => scores[i] < scores[j])
    BY <1>1, <1>2, <1>3, <1>5
  <2>3. QED
    BY <1>1, <2>1, <2>2 DEF FirstBest
<1>6. QED
  BY <1>4, <1>5

LEMMA FirstBestUnique ==
  ASSUME NEW n \in Nat, NEW scores \in [1..n -> Nat], NEW k \in 1..n,
         NEW i, NEW j, FirstBest(scores, k, i), FirstBest(scores, k, j)
  PROVE  i = j
<1>1. i \in 1..n /\ j \in 1..n /\ scores[i] \in Nat /\ scores[j] \in Nat
  BY DEF FirstBest
<1>2. /\ scores[i] <= scores[j] /\ (j < i => scores[i] < scores[j])
      /\ scores[j] <= scores[i] /\ (i < j => scores[j] < scores[i])
  BY DEF FirstBest
<1>3. QED
  BY <1>1, <1>2

LEMMA FirstOfOne ==
  ASSUME NEW scores, scores[1] \in Nat
  PROVE  FirstBest(scores, 1, 1)
BY DEF FirstBest

(* A set of places has a least one. *)
LEMMA LeastPlace ==
  ASSUME NEW n \in Nat, NEW places \in SUBSET (1..n), places # {}
  PROVE  \E k \in places : \A l \in places : ~(l < k)
<1>1. places \subseteq Nat
  OBVIOUS
<1>2. PICK k \in places : \A l \in places : ~(<<l, k>> \in OpToRel(<, Nat))
  BY <1>1, WFMin, NatLessThanWellFounded, Zenon
<1>3. \A l \in places : ~(l < k)
  BY <1>1, <1>2, Zenon DEF OpToRel
<1>4. QED
  BY <1>3

LEMMA SelectsFirstBest ==
  ASSUME NEW n \in Nat \ {0}, NEW scores \in [1..n -> Nat], Len(scores) = n
  PROVE  FirstBest(scores, n, SelectModel(scores))
<1> DEFINE rule(best) ==
             [k \in 1..n |-> IF k = 1 THEN 1
                             ELSE IF scores[k] < scores[best[k - 1]] THEN k ELSE best[k - 1]]
           closed == [k \in 1..n |-> CHOOSE i : FirstBest(scores, k, i)]
<1>1. 1 \in 1..n /\ FirstBest(scores, 1, 1) /\ \A k \in 1..n : k # 1 => k - 1 \in 1..n
  BY FirstOfOne
<1>2. \A k \in 1..n : \E i : FirstBest(scores, k, i)
  <2> DEFINE bad == {k \in 1..n : ~\E i : FirstBest(scores, k, i)}
  <2>1. SUFFICES ASSUME bad # {}
                 PROVE  FALSE
    OBVIOUS
  <2>2. PICK k \in bad : \A l \in bad : ~(l < k)
    <3>1. bad \in SUBSET (1..n)
      OBVIOUS
    <3> HIDE DEF bad
    <3>2. QED
      BY <2>1, <3>1, LeastPlace
  <2>3. k \in 1..n /\ k # 1
    BY <1>1
  <2>4. k - 1 \in 1..n /\ k - 1 < k
    BY <2>3
  <2>5. PICK i : FirstBest(scores, k - 1, i)
    BY <2>2, <2>4
  <2>6. FirstBest(scores, k, Better(scores, k, i))
    BY <2>3, <2>5, FirstBestStep
  <2>7. QED
    BY <2>6
<1>3. \A k \in 1..n : FirstBest(scores, k, closed[k])
  BY <1>2
<1>4. closed = rule(closed)
  <2>1. ASSUME NEW k \in 1..n
        PROVE  closed[k] = rule(closed)[k]
    <3>1. CASE k = 1
      BY <1>1, <1>3, <3>1, FirstBestUnique
    <3>2. CASE k # 1
      <4>1. FirstBest(scores, k, Better(scores, k, closed[k - 1]))
        BY <1>1, <1>3, <3>2, FirstBestStep
      <4>2. rule(closed)[k] = Better(scores, k, closed[k - 1])
        BY <3>2 DEF Better
      <4>3. QED
        BY <1>3, <4>1, <4>2, FirstBestUnique
    <3>3. QED
      BY <3>1, <3>2
  <2>2. QED
    BY <2>1
<1> HIDE DEF closed
<1> DEFINE best == CHOOSE f : f = rule(f)
<1>5. best = rule(best)
  BY <1>4
<1>6. SelectModel(scores) = best[n]
  <2>1. DOMAIN scores = 1..n
    OBVIOUS
  <2>2. QED
    BY <2>1 DEF SelectModel
<1> HIDE DEF best
<1>7. \A k \in 1..n : FirstBest(scores, k, best[k])
  <2> DEFINE bad == {k \in 1..n : ~FirstBest(scores, k, best[k])}
  <2>1. SUFFICES ASSUME bad # {}
                 PROVE  FALSE
    OBVIOUS
  <2>2. PICK k \in bad : \A l \in bad : ~(l < k)
    <3>1. bad \in SUBSET (1..n)
      OBVIOUS
    <3> HIDE DEF bad
    <3>2. QED
      BY <2>1, <3>1, LeastPlace
  <2>3. k \in 1..n /\ k # 1
    BY <1>1, <1>5
  <2>4. k - 1 \in 1..n /\ k - 1 < k
    BY <2>3
  <2>5. FirstBest(scores, k - 1, best[k - 1])
    BY <2>2, <2>4
  <2>6. FirstBest(scores, k, Better(scores, k, best[k - 1]))
    BY <2>3, <2>5, FirstBestStep
  <2>7. best[k] = Better(scores, k, best[k - 1])
    BY <1>5, <2>3 DEF Better
  <2>8. QED
    BY <2>6, <2>7
<1>8. QED
  BY <1>6, <1>7

-----------------------------------------------------------------------------
(* The splits a training has read are the work of builds: a missing or torn one
   ends it, and nobody else writes them. *)
Reading == {"read", "write", "open", "done"}

FromBuilds(t) ==
  cmd[t].pc \in Reading =>
    \A i \in 1..ReadCount(t) : cmd[t].seen[Reads(t)[i]] \in Builds

SeenInv == \A t \in Trainings : FromBuilds(t)

LEMMA SplitAuthors ==
  ASSUME BaseInv, NEW f \in Splits
  PROVE  file[f] \in Builds \cup {Absent, Torn}
<1>1. f \in Files /\ f \notin Bundle /\ f # "metrics"
  BY DEF Files, Splits, Bundle
<1>2. file[f] \in Contents /\ WrittenBy(f)
  BY <1>1 DEF BaseInv, Typed
<1>3. CASE file[f] \in Commands
  <2>1. PICK i \in 1..4 : Writes(file[f])[i] = f
    BY <1>2, <1>3 DEF WrittenBy
  <2>2. file[f] \in Writers
    BY <1>2, <1>3 DEF WrittenBy
  <2>3. ASSUME file[f] \in Trainings
        PROVE  FALSE
    <3>1. Writes(file[f]) = <<"model", "manifest", "metrics", "report">>
      BY <2>3, ArtifactsAssumption DEF Writes
    <3>2. QED
      BY <1>1, <2>1, <3>1 DEF Bundle
  <2>4. QED
    BY <2>2, <2>3 DEF Writers
<1>4. QED
  BY <1>2, <1>3 DEF Contents

LEMMA TrainingPlan ==
  ASSUME NEW t \in Trainings
  PROVE  /\ t \in Commands /\ t \notin Loads /\ t \notin Builds
         /\ Reads(t) = <<"train", "validation", "test">> /\ Len(Reads(t)) = 3
         /\ \A i \in 1..3 : Reads(t)[i] \in Splits /\ Reads(t)[i] # "metrics"
         /\ \A i, j \in 1..3 : Reads(t)[i] = Reads(t)[j] => i = j
<1>1. t \in Commands /\ t \notin Loads /\ t \notin Builds
  BY ArtifactsAssumption DEF Commands
<1>2. Reads(t) = <<"train", "validation", "test">>
  BY <1>1, ReadPlan
<1>3. QED
  BY <1>1, <1>2 DEF Splits

LEMMA SeenInit == ArtInit => SeenInv
<1>1. ASSUME ArtInit, NEW t \in Trainings
      PROVE  cmd[t].pc = "idle"
  BY <1>1, TrainingPlan DEF ArtInit, Ended
<1>2. QED
  BY <1>1 DEF SeenInv, FromBuilds, Reading

(* A step that has training t read nothing. *)
LEMMA SeenStays ==
  ASSUME NEW t \in Trainings, FromBuilds(t),
         cmd'[t].pc \in Reading => cmd[t].pc \in Reading,
         cmd'[t].pc \in Reading => ReadCount(t)' = ReadCount(t) /\ cmd'[t].seen = cmd[t].seen
  PROVE  FromBuilds(t)'
BY DEF FromBuilds

LEMMA SeenStep == BaseInv /\ SeenInv /\ [ArtNext]_artVars => SeenInv'
<1> SUFFICES ASSUME BaseInv, SeenInv, [ArtNext]_artVars, NEW t \in Trainings
             PROVE  FromBuilds(t)'
  BY DEF SeenInv
<1>a. Typed /\ (\A c \in Commands : Stage(c)) /\ FromBuilds(t)
  BY DEF BaseInv, SeenInv
<1>b. t \in Commands /\ t \notin Loads /\ t \notin Builds /\ Len(Reads(t)) = 3
  BY TrainingPlan
(* The same place in its plan, and the same files read. *)
<1>s. ASSUME cmd'[t].pc = cmd[t].pc, cmd'[t].at = cmd[t].at, cmd'[t].seen = cmd[t].seen
      PROVE  FromBuilds(t)'
  <2>1. ReadCount(t)' = ReadCount(t)
    BY <1>s DEF ReadCount
  <2>2. QED
    BY <1>a, <1>s, <2>1, SeenStays
<1>1. ASSUME NEW d \in Commands, Start(d)
      PROVE  FromBuilds(t)'
  <2>1. CASE d = t
    <3>1. cmd'[t].pc = "read" /\ cmd'[t].at = cmd[t].at /\ cmd[t].pc = "idle"
      BY <1>a, <1>b, <1>1, <2>1, StartFacts
    <3>2. ReadCount(t)' = 0
      BY <1>a, <1>b, <3>1 DEF ReadCount, Stage
    <3>3. 1..ReadCount(t)' = {}
      BY <3>2
    <3>4. QED
      BY <3>3 DEF FromBuilds
  <2>2. CASE d # t
    <3>1. cmd'[t].pc = cmd[t].pc /\ cmd'[t].at = cmd[t].at /\ cmd'[t].seen = cmd[t].seen
      BY <1>a, <1>b, <1>1, <2>2, StartFacts
    <3>2. QED
      BY <1>s, <3>1
  <2>3. QED
    BY <2>1, <2>2
<1>2. ASSUME NEW d \in Commands, Read(d)
      PROVE  FromBuilds(t)'
  <2>1. cmd[d].at < Len(Reads(d)) /\ cmd[d].pc = "read"
    BY <1>a, <1>2 DEF Read, Stage
  <2>2. CASE d # t
    <3>1. cmd'[t] = cmd[t]
      BY <1>a, <1>b, <1>2, <2>1, <2>2, ReadFacts
    <3>2. QED
      BY <1>s, <3>1
  <2>3. CASE d = t /\ cmd'[t] = Ended("failed")
    <3>1. cmd'[t].pc \notin Reading
      BY <2>3 DEF Ended, Reading
    <3>2. QED
      BY <3>1 DEF FromBuilds
  <2>4. CASE d = t /\ cmd'[t] # Ended("failed")
    <3> DEFINE n == cmd[t].at + 1
               f == Reads(t)[n]
    <3>1. cmd[t].at \in Nat /\ n \in 1..3
      <4>1. cmd[t] \in CommandState
        BY <1>a, <1>b DEF Typed
      <4>2. cmd[t].at \in Nat
        BY <4>1 DEF CommandState
      <4>3. cmd[t].at < 3
        BY <1>b, <2>1, <2>4
      <4>4. QED
        BY <4>2, <4>3
    <3>2. f \in Splits /\ f \in Files /\ f # "metrics"
      <4>1. f \in Splits /\ f # "metrics"
        BY <3>1, TrainingPlan
      <4>2. QED
        BY <4>1 DEF Files
    <3>3. /\ cmd'[t].pc = After(t, n)
          /\ cmd'[t].at = IF n < Len(Reads(t)) THEN n ELSE 0
          /\ cmd'[t].seen = [cmd[t].seen EXCEPT ![f] = file[f]]
      BY <1>a, <1>b, <1>2, <2>1, <2>4, ReadFacts
    <3>4. ~Unusable(t, f)
      <4>1. cmd' = [cmd EXCEPT ![t] = IF Unusable(t, f) THEN Ended("failed")
                                      ELSE [@ EXCEPT !.seen[f] = file[f], !.pc = After(t, n),
                                                     !.at = IF n < Len(Reads(t)) THEN n ELSE 0]]
        BY <1>2, <2>4 DEF Read
      <4>2. Unusable(t, f) => cmd' = [cmd EXCEPT ![t] = Ended("failed")]
        BY <4>1, Zenon
      <4>3. Unusable(t, f) => cmd'[t] = Ended("failed")
        BY <1>a, <1>b, <4>2 DEF Typed
      <4>4. QED
        BY <2>4, <4>3
    <3>5. file[f] \in Builds
      <4>1. file[f] # Torn /\ file[f] # Absent
        BY <1>b, <3>2, <3>4 DEF Unusable
      <4>2. file[f] \in Builds \cup {Absent, Torn}
        BY <3>2, SplitAuthors
      <4>3. QED
        BY <4>1, <4>2
    <3>6. ReadCount(t)' = n /\ ReadCount(t) = n - 1
      <4>1. CASE n < 3
        <5>1. cmd'[t].pc = "read" /\ cmd'[t].at = n
          BY <1>b, <3>3, <4>1 DEF After
        <5>2. QED
          BY <2>1, <2>4, <3>1, <5>1 DEF ReadCount
      <4>2. CASE n = 3
        <5>1. cmd'[t].pc # "read"
          BY <1>b, <3>3, <4>2 DEF After
        <5>2. QED
          BY <1>b, <2>1, <2>4, <3>1, <4>2, <5>1 DEF ReadCount
      <4>3. QED
        BY <3>1, <4>1, <4>2
    <3>7. cmd[t].seen \in [Files -> Contents]
      <4>1. cmd[t] \in CommandState
        BY <1>a, <1>b DEF Typed
      <4>2. QED
        BY <4>1 DEF CommandState
    <3>8. ASSUME NEW i \in 1..n
          PROVE  cmd'[t].seen[Reads(t)[i]] \in Builds
      <4>1. CASE i = n
        BY <3>2, <3>3, <3>5, <3>7, <4>1
      <4>2. CASE i # n
        <5>1. i \in 1..ReadCount(t) /\ i \in 1..3
          BY <3>1, <3>6, <4>2
        <5>2. cmd[t].seen[Reads(t)[i]] \in Builds
          BY <1>a, <2>1, <2>4, <5>1 DEF FromBuilds, Reading
        <5>3. Reads(t)[i] # f /\ Reads(t)[i] \in Files
          <6>1. Reads(t)[i] # f /\ Reads(t)[i] \in Splits
            BY <3>1, <4>2, <5>1, TrainingPlan
          <6>2. QED
            BY <6>1 DEF Files
        <5>4. cmd'[t].seen[Reads(t)[i]] = cmd[t].seen[Reads(t)[i]]
          BY <3>3, <3>7, <5>3
        <5>5. QED
          BY <5>2, <5>4
      <4>3. QED
        BY <4>1, <4>2
    <3> HIDE DEF n, f
    <3>9. QED
      BY <3>6, <3>8 DEF FromBuilds
  <2>5. QED
    BY <2>2, <2>3, <2>4
<1>3. ASSUME NEW d \in Commands, Truncate(d)
      PROVE  FromBuilds(t)'
  <2>1. CASE d # t
    <3>1. cmd'[t].pc = cmd[t].pc /\ cmd'[t].at = cmd[t].at /\ cmd'[t].seen = cmd[t].seen
      BY <1>a, <1>b, <1>3, <2>1, TruncateFacts
    <3>2. QED
      BY <1>s, <3>1
  <2>2. CASE d = t
    <3>1. cmd[t].pc = "write" /\ cmd'[t].pc = "open" /\ cmd'[t].seen = cmd[t].seen
      BY <1>a, <1>b, <1>3, <2>2, TruncateFacts
    <3>2. ReadCount(t)' = ReadCount(t) /\ cmd[t].pc \in Reading
      BY <3>1 DEF ReadCount, Reading
    <3>3. QED
      BY <1>a, <3>1, <3>2, SeenStays
  <2>3. QED
    BY <2>1, <2>2
<1>4. ASSUME NEW d \in Commands, Complete(d)
      PROVE  FromBuilds(t)'
  <2>1. cmd[d].at \in 0..3 /\ Len(Writes(d)) = 4
    BY <1>a, <1>4, WritePlan DEF Stage, Complete
  <2>2. CASE d # t
    <3>1. cmd'[t] = cmd[t]
      BY <1>a, <1>b, <1>4, <2>1, <2>2, CompleteFacts
    <3>2. QED
      BY <1>s, <3>1
  <2>3. CASE d = t
    <3>1. /\ cmd[t].pc = "open" /\ cmd'[t].seen = cmd[t].seen
          /\ cmd'[t].pc = (IF cmd[t].at = 3 THEN "done" ELSE "write")
      BY <1>a, <1>b, <1>4, <2>1, <2>3, CompleteFacts
    <3>2. ReadCount(t)' = ReadCount(t) /\ cmd[t].pc \in Reading
      BY <3>1 DEF ReadCount, Reading
    <3>3. QED
      BY <1>a, <3>1, <3>2, SeenStays
  <2>4. QED
    BY <2>2, <2>3
<1>5. ASSUME NEW d \in Commands, Kill(d)
      PROVE  FromBuilds(t)'
  <2>1. cmd'[t] = cmd[t] \/ cmd'[t] = Ended("killed")
    BY <1>a, <1>b, <1>5, KillFacts
  <2>2. CASE cmd'[t] = cmd[t]
    BY <1>s, <2>2
  <2>3. CASE cmd'[t] = Ended("killed")
    <3>1. cmd'[t].pc \notin Reading
      BY <2>3 DEF Ended, Reading
    <3>2. QED
      BY <3>1 DEF FromBuilds
  <2>4. QED
    BY <2>1, <2>2, <2>3
<1>6. CASE UNCHANGED artVars
  BY <1>s, <1>6 DEF artVars
<1>7. QED
  BY <1>1, <1>2, <1>3, <1>4, <1>5, <1>6 DEF ArtNext, Step

(* BestIsServed: the model a server that loaded undisturbed predicts with is
   the one its manifest names, and the first of those with the least error on
   the validation split its training read. *)
THEOREM TheBestIsServed == ArtSpec => []BestIsServed
<1>1. ASSUME BaseInv, GroupInv, QuietInv, SeenInv, QuietReadIsOfOneRun
      PROVE  BestIsServed
  <2>1. SUFFICES ASSUME NEW c \in Loads, Trusted(c), cmd[c].seen["model"] \in Trainings,
                        Trusted(cmd[c].seen["model"])
                 PROVE  LET t == cmd[c].seen["manifest"]
                            errors == Scores(t, "validation")
                        IN  /\ t = cmd[c].seen["model"]
                            /\ \A i \in DOMAIN Candidates :
                                 /\ errors[Chosen(t)] <= errors[i]
                                 /\ i < Chosen(t) => errors[Chosen(t)] < errors[i]
    BY DEF BestIsServed
  <2>2. PICK t \in Trainings : t = cmd[c].seen["model"]
    BY <2>1
  <2>3. cmd[c].seen["manifest"] = t
    <3>1. c \in Commands /\ HasRead(c) /\ ~cmd[c].disturbed
      BY <2>1 DEF Commands, Trusted, HasRead
    <3>2. "manifest" \in Elements(Reads(c)) \cap {"model", "manifest"}
      <4>1. Reads(c) = <<"model", "manifest">>
        BY <3>1, ReadPlan
      <4>2. 2 \in DOMAIN Reads(c) /\ Reads(c)[2] = "manifest"
        BY <4>1
      <4>3. QED
        BY <4>2 DEF Elements
    <3>3. QED
      BY <1>1, <2>1, <2>2, <3>1, <3>2 DEF QuietReadIsOfOneRun
  <2>4. cmd[t].seen["train"] \in Builds /\ cmd[t].seen["validation"] \in Builds
    <3>1. cmd[t].pc = "done"
      BY <2>1, <2>2 DEF Trusted
    <3>2. ReadCount(t) = 3 /\ cmd[t].pc \in Reading
      BY <3>1, TrainingPlan DEF ReadCount, Reading
    <3>3. \A i \in 1..3 : cmd[t].seen[Reads(t)[i]] \in Builds
      BY <1>1, <3>2 DEF SeenInv, FromBuilds
    <3>4. Reads(t)[1] = "train" /\ Reads(t)[2] = "validation"
      BY TrainingPlan
    <3>5. cmd[t].seen[Reads(t)[1]] \in Builds /\ cmd[t].seen[Reads(t)[2]] \in Builds
      BY <3>3
    <3>6. QED
      BY <3>4, <3>5
  <2>5. PICK n \in Nat \ {0} : DOMAIN Candidates = 1..n /\ Len(Candidates) = n
    <3>1. Candidates \in Seq(STRING) /\ Candidates # << >>
      BY ArtifactsAssumption
    <3>2. Len(Candidates) \in Nat \ {0} /\ DOMAIN Candidates = 1..Len(Candidates)
      BY <3>1
    <3>3. QED
      BY <3>2
  <2>6. PICK errors : errors = Scores(t, "validation")
    OBVIOUS
  <2>7. errors \in [1..n -> Nat]
    <3>1. \A i \in 1..n : Mae[i, cmd[t].seen["train"], "validation", cmd[t].seen["validation"]] \in Nat
      BY <2>4, <2>5, ArtifactsAssumption
    <3>2. QED
      BY <2>5, <2>6, <3>1 DEF Scores
  <2>8. Len(errors) = n
    <3>1. errors \in Seq(Nat) /\ DOMAIN errors = 1..n
      BY <2>7
    <3>2. QED
      BY <3>1
  <2>9. FirstBest(errors, n, SelectModel(errors))
    BY <2>7, <2>8, SelectsFirstBest
  <2>10. Chosen(t) = SelectModel(errors)
    BY <2>6 DEF Chosen
  <2>11. \A i \in DOMAIN Candidates :
           errors[Chosen(t)] <= errors[i] /\ (i < Chosen(t) => errors[Chosen(t)] < errors[i])
    BY <2>5, <2>9, <2>10 DEF FirstBest
  <2>12. QED
    BY <2>2, <2>3, <2>6, <2>11
<1>2. BaseInv /\ QuietInv => QuietReadIsOfOneRun
  BY QuietInvReads
<1>3. QED
  BY BaseInit, BaseStep, GroupInit, GroupStep, QuietInit, QuietStep, SeenInit, SeenStep,
     <1>1, <1>2, PTL DEF ArtSpec
=============================================================================
