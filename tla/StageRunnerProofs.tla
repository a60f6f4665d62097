-------------------------- MODULE StageRunnerProofs --------------------------
(***************************************************************************)
(* Proofs about StageRunner, for every set of commands, number of slots,   *)
(* min_context table and bound.                                            *)
(***************************************************************************)
EXTENDS StageRunner, SequenceTheorems, TLAPS

(***************************************************************************)
(* The command table.                                                      *)
(***************************************************************************)
LEMMA OneOrTwoParts ==
    ASSUME NEW c \in Commands
    PROVE  \/ \E p : PartsOf(c) = <<p>>
           \/ \E p, q : PartsOf(c) = <<p, q>>
<1>1. c.cmd \in CommandNames
  BY ConstantsAssumption DEF Invocations
<1>2. \/ PartsOf(c) = Stage0Parts(c)
      \/ PartsOf(c) = Stage1Parts(c)
      \/ PartsOf(c) = Stage2aParts(c)
      \/ PartsOf(c) = Stage2bParts(c)
      \/ PartsOf(c) = Stage3Parts(c)
      \/ PartsOf(c) = CompactParts(c)
      \/ PartsOf(c) = SamplingParts(c)
  BY <1>1 DEF CommandNames, PartsOf
<1>3. \E p : Stage0Parts(c) = <<p>>
  BY DEF Stage0Parts
<1>4. \E p, q : Stage1Parts(c) = <<p, q>>
  BY DEF Stage1Parts
<1>5. \E p : Stage2aParts(c) = <<p>>
  BY DEF Stage2aParts
<1>6. \E p : Stage2bParts(c) = <<p>>
  BY DEF Stage2bParts
<1>7. \E p, q : Stage3Parts(c) = <<p, q>>
  BY DEF Stage3Parts
<1>8. \E p, q : CompactParts(c) = <<p, q>>
  BY DEF CompactParts
<1>9. \E p, q : SamplingParts(c) = <<p, q>>
  BY DEF SamplingParts
<1>10. QED
  BY <1>2, <1>3, <1>4, <1>5, <1>6, <1>7, <1>8, <1>9

LEMMA PartsAreSequences ==
    ASSUME NEW c \in Commands
    PROVE  /\ PartsOf(c) \in Seq(AllParts)
           /\ PartsOf(c) # <<>>
<1>1. \A i \in DOMAIN PartsOf(c) : PartsOf(c)[i] \in AllParts
  BY DEF AllParts
<1>2. CASE \E p : PartsOf(c) = <<p>>
  BY <1>1, <1>2
<1>3. CASE \E p, q : PartsOf(c) = <<p, q>>
  BY <1>1, <1>3
<1>4. QED
  BY <1>2, <1>3, OneOrTwoParts

LEMMA PartTypes ==
    ASSUME NEW p \in AllParts
    PROVE  /\ CellOf(p) \in Cells
           /\ p.ctx \in Sessions
           /\ p.suite \in Suites
           /\ p.label \in Labels
BY DEF Cells, Sessions, Suites, Labels

-----------------------------------------------------------------------------
(***************************************************************************)
(* Type correctness.                                                       *)
(***************************************************************************)
LEMMA PartTyped ==
    ASSUME TypeOK, pc # "idle"
    PROVE  /\ part \in AllParts
           /\ cell \in Cells
           /\ part.ctx \in Sessions
           /\ part.suite \in Suites
           /\ part.label \in Labels
           /\ Tail(todo) \in Seq(AllParts)
<1>1. part \in AllParts /\ Tail(todo) \in Seq(AllParts)
  BY HeadTailProperties DEF TypeOK, part
<1>2. QED
  BY <1>1, PartTypes DEF cell

LEMMA InitTyped == Init => TypeOK
<1> SUFFICES ASSUME Init PROVE TypeOK
  OBVIOUS
<1>1. raw \in [Cells -> Seq(Records)]
  BY DEF Init
<1>2. todo \in Seq(AllParts)
  BY DEF Init
<1>3. captures \in Seq([ctx : Sessions, label : Labels, version : Nat])
  BY DEF Init
<1>4. cursor \in 1..(Slots + 1)
  BY ConstantsAssumption DEF Init
<1>5. QED
  BY <1>1, <1>2, <1>3, <1>4 DEF Init, TypeOK, NoOutcome

\* An exception or a kill keeps the process variables in range.
LEMMA DiesTyped ==
    ASSUME Dies
    PROVE  /\ pc' = "idle"
           /\ todo' \in Seq(AllParts)
           /\ env' \in Nat
           /\ existing' \subseteq (Suites \X (1..Slots))
           /\ cursor' \in 1..(Slots + 1)
           /\ outcome'.status = "none"
BY ConstantsAssumption DEF Dies, Volatile, NoOutcome

\* So does the return of a part.
LEMMA ReturnTyped ==
    ASSUME TypeOK, pc # "idle", NEW status, NEW records, Return(status, records)
    PROVE  /\ pc' \in {"idle", "open"}
           /\ todo' \in Seq(AllParts)
           /\ (pc' # "idle") => todo' # <<>>
           /\ env' \in Nat
           /\ existing' \subseteq (Suites \X (1..Slots))
           /\ cursor' \in 1..(Slots + 1)
           /\ outcome'.status = status
BY PartTyped, ConstantsAssumption DEF Return, Volatile

LEMMA NewRecordTyped ==
    ASSUME TypeOK, pc = "ran"
    PROVE  NewRecord \in Records
<1>1. part.suite \in Suites /\ part.label \in Labels
  BY PartTyped
<1>2. cursor \in 1..Slots /\ code \in Nat /\ env \in Nat
  BY ConstantsAssumption DEF TypeOK
<1>3. QED
  BY <1>1, <1>2 DEF NewRecord, Records

LEMMA AppendTyped ==
    ASSUME TypeOK, pc = "ran"
    PROVE  [raw EXCEPT ![cell] = Append(@, NewRecord)] \in [Cells -> Seq(Records)]
<1>1. cell \in Cells /\ NewRecord \in Records /\ raw \in [Cells -> Seq(Records)]
  BY PartTyped, NewRecordTyped DEF TypeOK
<1>2. Append(raw[cell], NewRecord) \in Seq(Records)
  BY <1>1
<1>3. QED
  BY <1>1, <1>2

LEMMA SlotsAreNumbers ==
    ASSUME TypeOK, pc # "idle"
    PROVE  cursor \in Int /\ \A i \in DOMAIN raw[cell] : raw[cell][i].slot \in Int
<1>1. cell \in Cells /\ raw \in [Cells -> Seq(Records)]
  BY PartTyped DEF TypeOK
<1>2. \A i \in DOMAIN raw[cell] : raw[cell][i] \in Records
  BY <1>1
<1>3. \A r \in Records : r.slot \in Int
  BY ConstantsAssumption DEF Records
<1>4. cursor \in Int
  BY ConstantsAssumption DEF TypeOK
<1>5. QED
  BY <1>2, <1>3, <1>4

LEMMA KeysTyped ==
    ASSUME TypeOK, NEW c \in Cells
    PROVE  KeysIn(c) \subseteq (Suites \X (1..Slots))
<1>1. \A i \in DOMAIN raw[c] : raw[c][i] \in Records
  BY DEF TypeOK
<1>2. QED
  BY <1>1 DEF KeysIn, RunKey, Records

LEMMA StepTyped == TypeOK /\ [Next]_vars => TypeOK'
<1> SUFFICES ASSUME TypeOK, [Next]_vars PROVE TypeOK'
  OBVIOUS
<1> USE DEF files, process
<1>1. ASSUME NEW c \in Commands, Start(c) PROVE TypeOK'
  BY <1>1, PartsAreSequences DEF Start, TypeOK, NoOutcome
<1>2. CASE BumpVersion
  BY <1>2 DEF BumpVersion, TypeOK
<1>3. ASSUME NEW c \in Cells, Archive(c) PROVE TypeOK'
  BY <1>3 DEF Archive, TypeOK
<1>4. CASE DeclaredUnsupported
  BY <1>4, ReturnTyped DEF DeclaredUnsupported, TypeOK
<1>5. CASE LoadOversized
  BY <1>5, ReturnTyped DEF LoadOversized, TypeOK
<1>6. CASE LoadModel
  BY <1>6 DEF LoadModel, TypeOK
<1>7. CASE Capture
  <2>1. [ctx |-> part.ctx, label |-> part.label, version |-> code]
           \in [ctx : Sessions, label : Labels, version : Nat]
    BY <1>7, PartTyped DEF Capture, TypeOK
  <2>2. captures' \in Seq([ctx : Sessions, label : Labels, version : Nat])
    BY <1>7, <2>1 DEF Capture, TypeOK
  <2>3. Len(captures') \in Nat
    BY <2>2
  <2>4. QED
    BY <1>7, <2>2, <2>3 DEF Capture, TypeOK
<1>8. CASE Resume
  <2>1. existing' \subseteq (Suites \X (1..Slots))
    BY <1>8, PartTyped, KeysTyped DEF Resume, Snapshot
  <2>2. QED
    BY <1>8, <2>1, ConstantsAssumption DEF Resume, TypeOK
<1>9. CASE Refuse
  BY <1>9, DiesTyped DEF Refuse, TypeOK
<1>10. CASE SkipSlot
  BY <1>10, ConstantsAssumption DEF SkipSlot, TypeOK
<1>11. CASE RunTask
  <2>1. transcripts' \in [TranscriptPaths -> Nat]
    BY <1>11 DEF RunTask, TypeOK
  <2>2. QED
    BY <1>11, <2>1 DEF RunTask, TypeOK
<1>12. CASE AppendRecord
  <2>1. raw' \in [Cells -> Seq(Records)]
    BY <1>12, AppendTyped DEF AppendRecord
  <2>2. tail' \in [Cells -> {"newline", "bare", "garbled"}]
    BY <1>12 DEF AppendRecord, TypeOK, TailAfterLine
  <2>3. cursor' \in 1..(Slots + 1)
    BY <1>12, ConstantsAssumption DEF AppendRecord, TypeOK
  <2>4. QED
    BY <1>12, <2>1, <2>2, <2>3 DEF AppendRecord, TypeOK
<1>13. CASE TearRecord
  <2>1. raw' \in [Cells -> Seq(Records)]
    <3>1. pc = "ran"
      BY <1>13 DEF TearRecord
    <3>2. CASE raw' = raw
      BY <3>2 DEF TypeOK
    <3>3. CASE raw' = [raw EXCEPT ![cell] = Append(@, NewRecord)]
      BY <3>1, <3>3, AppendTyped
    <3>4. QED
      BY <1>13, <3>2, <3>3 DEF TearRecord
  <2>2. tail' \in [Cells -> {"newline", "bare", "garbled"}]
    BY <1>13 DEF TearRecord, TypeOK
  <2>3. QED
    BY <1>13, <2>1, <2>2, DiesTyped DEF TearRecord, TypeOK
<1>14. CASE Finish
  BY <1>14, ReturnTyped DEF Finish, TypeOK
<1>15. CASE FinishUnreadable
  BY <1>15, DiesTyped DEF FinishUnreadable, TypeOK
<1>16. CASE Die
  BY <1>16, DiesTyped DEF Die, TypeOK
<1>17. CASE UNCHANGED vars
  BY <1>17 DEF vars, TypeOK
<1>18. QED
  BY <1>1, <1>2, <1>3, <1>4, <1>5, <1>6, <1>7, <1>8, <1>9, <1>10, <1>11, <1>12, <1>13,
     <1>14, <1>15, <1>16, <1>17 DEF Next, ProcessStep

\* Every variable stays in its range (the run's invariant TypeOK), whatever the
\* commands, the slots and the interleaving of kills, bumps and archiving.
THEOREM TypeCorrect == Spec => []TypeOK
<1>1. QED
  BY InitTyped, StepTyped, PTL DEF Spec

-----------------------------------------------------------------------------
(***************************************************************************)
(* The snapshot argument.  RecordedOnce is not inductive: what makes an    *)
(* append safe is that the file holds nothing but the snapshot and the     *)
(* slots of this suite the cursor has passed, all of the process's own     *)
(* version, and that the slot just run is not in the snapshot.             *)
(***************************************************************************)
SnapshotInv ==
    pc \in {"loop", "ran"} =>
        \A i \in DOMAIN raw[cell] :
            /\ \/ RunKey(raw[cell][i]) \in existing
               \/ raw[cell][i].suite = part.suite /\ raw[cell][i].slot < cursor
            /\ raw[cell][i].version = code

UnseenInv == pc = "ran" => <<part.suite, cursor>> \notin existing

IInv ==
    /\ TypeOK
    /\ RecordedOnce
    /\ OneVersionPerFile
    /\ SnapshotInv
    /\ UnseenInv

\* The record being appended is of a run the file does not hold, and of the
\* version of all records the file holds.
LEMMA NewRecordIsNew ==
    ASSUME IInv, pc = "ran", NEW i \in DOMAIN raw[cell]
    PROVE  /\ RunKey(raw[cell][i]) # RunKey(NewRecord)
           /\ raw[cell][i].version = NewRecord.version
<1>1. /\ \/ RunKey(raw[cell][i]) \in existing
         \/ raw[cell][i].suite = part.suite /\ raw[cell][i].slot < cursor
      /\ raw[cell][i].version = code
  BY DEF IInv, SnapshotInv
<1>2. RunKey(NewRecord) = <<part.suite, cursor>> /\ NewRecord.version = code
  BY DEF NewRecord, RunKey
<1>3. <<part.suite, cursor>> \notin existing
  BY DEF IInv, UnseenInv
<1>4. cursor \in Int /\ raw[cell][i].slot \in Int
  BY SlotsAreNumbers DEF IInv
<1>5. QED
  BY <1>1, <1>2, <1>3, <1>4 DEF RunKey

\* Appending to the open file, whether or not the newline follows, keeps both
\* invariants of the files.
LEMMA AppendKeepsFiles ==
    ASSUME IInv, pc = "ran", raw' = [raw EXCEPT ![cell] = Append(@, NewRecord)]
    PROVE  RecordedOnce' /\ OneVersionPerFile'
<1>1. cell \in Cells /\ raw \in [Cells -> Seq(Records)] /\ NewRecord \in Records
  BY PartTyped, NewRecordTyped DEF IInv, TypeOK
<1> DEFINE old == raw[cell]
           new == raw'[cell]
<1>2. /\ old \in Seq(Records)
      /\ new = Append(old, NewRecord)
  BY <1>1
<1>3. /\ DOMAIN old = 1..Len(old)
      /\ DOMAIN new = 1..(Len(old) + 1)
      /\ \A i \in DOMAIN old : new[i] = old[i]
      /\ new[Len(old) + 1] = NewRecord
      /\ Len(old) \in Nat
  BY <1>2
<1>4. \A i \in DOMAIN old : /\ RunKey(old[i]) # RunKey(NewRecord)
                            /\ old[i].version = NewRecord.version
  BY NewRecordIsNew
<1>5. \A c \in Cells : c # cell => raw'[c] = raw[c]
  BY <1>1
<1>6. RecordedOnce'
  <2> SUFFICES ASSUME NEW c \in Cells, NEW i \in DOMAIN raw'[c], NEW j \in DOMAIN raw'[c],
                      RunKey(raw'[c][i]) = RunKey(raw'[c][j])
               PROVE  i = j
    BY DEF RecordedOnce, RunKey
  <2>1. CASE c # cell
    BY <2>1, <1>5 DEF IInv, RecordedOnce
  <2>2. CASE c = cell
    <3>1. \A m, n \in DOMAIN old : RunKey(old[m]) = RunKey(old[n]) => m = n
      BY <1>1 DEF IInv, RecordedOnce
    <3> HIDE DEF old, new
    <3>2. i \in 1..(Len(old) + 1) /\ j \in 1..(Len(old) + 1)
      BY <2>2, <1>3 DEF new
    <3>3. RunKey(new[i]) = RunKey(new[j])
      BY <2>2 DEF new
    <3>4. QED
      BY <3>1, <3>2, <3>3, <1>3, <1>4
  <2>3. QED
    BY <2>1, <2>2
<1>7. OneVersionPerFile'
  <2> SUFFICES ASSUME NEW c \in Cells, NEW i \in DOMAIN raw'[c], NEW j \in DOMAIN raw'[c]
               PROVE  raw'[c][i].version = raw'[c][j].version
    BY DEF OneVersionPerFile
  <2>1. CASE c # cell
    BY <2>1, <1>5 DEF IInv, OneVersionPerFile
  <2>2. CASE c = cell
    <3> HIDE DEF old, new
    <3>1. i \in 1..(Len(old) + 1) /\ j \in 1..(Len(old) + 1)
      BY <2>2, <1>3 DEF new
    <3>2. new[i].version = NewRecord.version /\ new[j].version = NewRecord.version
      BY <3>1, <1>3, <1>4
    <3>3. QED
      BY <3>2, <2>2 DEF new
  <2>3. QED
    BY <2>1, <2>2
<1>8. QED
  BY <1>6, <1>7

\* A step that leaves the files' records and the open session's view of them
\* alone keeps the invariant.
LEMMA FilesUntouched ==
    ASSUME IInv, TypeOK', raw' = raw, UNCHANGED <<pc, todo, code, existing, cursor>>
    PROVE  IInv'
BY DEF IInv, RecordedOnce, OneVersionPerFile, SnapshotInv, UnseenInv, RunKey, cell, part,
       CellOf

\* So does one after which no loop is running.
LEMMA LoopLeft ==
    ASSUME IInv, TypeOK', raw' = raw, pc' \notin {"loop", "ran"}
    PROVE  IInv'
BY DEF IInv, RecordedOnce, OneVersionPerFile, SnapshotInv, UnseenInv, RunKey

LEMMA InitInductive == Init => IInv
<1> SUFFICES ASSUME Init PROVE IInv
  OBVIOUS
<1>1. TypeOK
  BY InitTyped
<1>2. \A c \in Cells : DOMAIN raw[c] = {}
  BY DEF Init
<1>3. QED
  BY <1>1, <1>2 DEF Init, IInv, RecordedOnce, OneVersionPerFile, SnapshotInv, UnseenInv

LEMMA StepInductive == IInv /\ [Next]_vars => IInv'
<1> SUFFICES ASSUME IInv, [Next]_vars PROVE IInv'
  OBVIOUS
<1> USE DEF files, process
<1>1. TypeOK /\ TypeOK'
  BY StepTyped DEF IInv
<1>2. ASSUME NEW c \in Commands, Start(c) PROVE IInv'
  BY <1>1, <1>2, LoopLeft DEF Start
<1>3. CASE BumpVersion
  BY <1>1, <1>3, FilesUntouched DEF BumpVersion
<1>4. ASSUME NEW c \in Cells, Archive(c) PROVE IInv'
  <2>1. pc' = "idle"
    BY <1>4 DEF Archive
  <2>2. \A d \in Cells : raw'[d] = raw[d] \/ raw'[d] = <<>>
    BY <1>1, <1>4 DEF Archive, TypeOK
  <2>3. \A d \in Cells : raw'[d] = raw[d] \/ DOMAIN raw'[d] = {}
    BY <2>2
  <2>4. RecordedOnce' /\ OneVersionPerFile'
    BY <2>3 DEF IInv, RecordedOnce, OneVersionPerFile, RunKey
  <2>5. QED
    BY <1>1, <2>1, <2>4 DEF IInv, SnapshotInv, UnseenInv
<1>5. CASE DeclaredUnsupported \/ LoadOversized \/ Finish
  BY <1>1, <1>5, ReturnTyped, LoopLeft DEF DeclaredUnsupported, LoadOversized, Finish
<1>6. CASE Refuse \/ FinishUnreadable \/ Die
  BY <1>1, <1>6, DiesTyped, LoopLeft DEF Refuse, FinishUnreadable, Die
<1>7. CASE LoadModel \/ Capture
  BY <1>1, <1>7, LoopLeft DEF LoadModel, Capture
<1>8. CASE Resume
  <2>1. /\ pc' = "loop" /\ raw' = raw /\ todo' = todo /\ code' = code
        /\ existing' = KeysIn(cell)
    BY <1>8 DEF Resume, Snapshot
  <2>2. cell' = cell
    BY <2>1 DEF cell, part
  <2>3. \A i \in DOMAIN raw[cell] : /\ RunKey(raw[cell][i]) \in KeysIn(cell)
                                    /\ raw[cell][i].version = code
    BY <1>8 DEF Resume, VersionMatches, KeysIn
  <2>4. SnapshotInv' /\ UnseenInv'
    BY <2>1, <2>2, <2>3 DEF SnapshotInv, UnseenInv, RunKey
  <2>5. RecordedOnce' /\ OneVersionPerFile'
    BY <2>1 DEF IInv, RecordedOnce, OneVersionPerFile, RunKey
  <2>6. QED
    BY <1>1, <2>4, <2>5 DEF IInv
<1>9. CASE SkipSlot \/ RunTask
  <2>1. /\ pc = "loop" /\ pc' \in {"loop", "ran"} /\ raw' = raw /\ todo' = todo
        /\ code' = code /\ existing' = existing
        /\ cursor' = cursor \/ cursor' = cursor + 1
    BY <1>9 DEF SkipSlot, RunTask
  <2>2. cell' = cell /\ part' = part
    BY <2>1 DEF cell, part
  <2>3. cursor \in Int /\ \A i \in DOMAIN raw[cell] : raw[cell][i].slot \in Int
    BY <1>1, <2>1, SlotsAreNumbers
  <2>4. \A i \in DOMAIN raw[cell] :
           raw[cell][i].slot < cursor => raw[cell][i].slot < cursor'
    BY <2>1, <2>3
  <2>5. SnapshotInv'
    BY <2>1, <2>2, <2>4 DEF IInv, SnapshotInv, RunKey
  <2>6. UnseenInv'
    BY <1>9, <2>1, <2>2 DEF UnseenInv, SkipSlot, RunTask, Skips
  <2>7. RecordedOnce' /\ OneVersionPerFile'
    BY <2>1 DEF IInv, RecordedOnce, OneVersionPerFile, RunKey
  <2>8. QED
    BY <1>1, <2>5, <2>6, <2>7 DEF IInv
<1>10. CASE AppendRecord
  <2>1. /\ pc = "ran" /\ pc' = "loop" /\ todo' = todo /\ code' = code
        /\ existing' = existing /\ cursor' = cursor + 1
        /\ raw' = [raw EXCEPT ![cell] = Append(@, NewRecord)]
    BY <1>10 DEF AppendRecord
  <2>2. cell' = cell /\ part' = part
    BY <2>1 DEF cell, part
  <2>3. /\ cell \in Cells /\ raw \in [Cells -> Seq(Records)]
        /\ raw[cell] \in Seq(Records) /\ NewRecord \in Records
    BY <1>1, <2>1, PartTyped, NewRecordTyped DEF TypeOK
  <2>4. raw'[cell] = Append(raw[cell], NewRecord)
    BY <2>1, <2>3
  <2>5. cursor \in Int /\ \A i \in DOMAIN raw[cell] : raw[cell][i].slot \in Int
    BY <1>1, <2>1, SlotsAreNumbers
  <2>6. ASSUME NEW i \in DOMAIN raw'[cell]
        PROVE  /\ \/ RunKey(raw'[cell][i]) \in existing
                  \/ raw'[cell][i].suite = part.suite /\ raw'[cell][i].slot < cursor + 1
               /\ raw'[cell][i].version = code
    <3>1. CASE i \in DOMAIN raw[cell]
      <4>1. raw'[cell][i] = raw[cell][i]
        BY <2>3, <2>4, <3>1
      <4>2. QED
        BY <2>1, <2>5, <3>1, <4>1 DEF IInv, SnapshotInv
    <3>2. CASE i \notin DOMAIN raw[cell]
      <4>1. raw'[cell][i] = NewRecord
        BY <2>3, <2>4, <3>2
      <4>2. QED
        BY <2>5, <4>1 DEF NewRecord
    <3>3. QED
      BY <3>1, <3>2
  <2>7. SnapshotInv' /\ UnseenInv'
    BY <2>1, <2>2, <2>6 DEF SnapshotInv, UnseenInv, RunKey
  <2>8. QED
    BY <1>1, <2>1, <2>7, AppendKeepsFiles DEF IInv
<1>11. CASE TearRecord
  <2>1. CASE raw' = raw
    BY <1>1, <1>11, <2>1, DiesTyped, LoopLeft DEF TearRecord
  <2>2. CASE raw' = [raw EXCEPT ![cell] = Append(@, NewRecord)]
    <3>1. RecordedOnce' /\ OneVersionPerFile' /\ pc' = "idle"
      BY <1>11, <2>2, AppendKeepsFiles, DiesTyped DEF TearRecord
    <3>2. QED
      BY <1>1, <3>1 DEF IInv, SnapshotInv, UnseenInv
  <2>3. QED
    BY <1>11, <2>1, <2>2 DEF TearRecord
<1>12. CASE UNCHANGED vars
  BY <1>1, <1>12, FilesUntouched DEF vars
<1>13. QED
  BY <1>2, <1>3, <1>4, <1>5, <1>6, <1>7, <1>8, <1>9, <1>10, <1>11, <1>12
     DEF Next, ProcessStep

LEMMA Inductive == Spec => []IInv
<1>1. QED
  BY InitInductive, StepInductive, PTL DEF Spec

\* A raw file never holds two records of one run, over any sequence of sessions,
\* kills, torn writes and re-runs (the run's invariant RecordedOnce).
THEOREM RecordedAtMostOnce == Spec => []RecordedOnce
<1>1. IInv => RecordedOnce
  BY DEF IInv
<1>2. QED
  BY <1>1, Inductive, PTL

\* A raw file never pools two task_set_versions, also when the working tree is
\* bumped while a stage runs (the run's invariant OneVersionPerFile).
THEOREM OneVersion == Spec => []OneVersionPerFile
<1>1. IInv => OneVersionPerFile
  BY DEF IInv
<1>2. QED
  BY <1>1, Inductive, PTL

\* What a stage is about to record is not on disk: a resumed stage never repeats a
\* recorded run nor overwrites its transcript (the run's invariant NeverRedone).
THEOREM NothingRedone == Spec => []NeverRedone
<1>1. ASSUME IInv PROVE NeverRedone
  <2> SUFFICES ASSUME pc = "ran", NEW i \in DOMAIN raw[cell],
                      RunKey(raw[cell][i]) = <<part.suite, cursor>>
               PROVE  FALSE
    BY DEF NeverRedone, KeysIn
  <2>1. RunKey(NewRecord) = <<part.suite, cursor>>
    BY DEF NewRecord, RunKey
  <2>2. QED
    BY <1>1, <2>1, NewRecordIsNew
<1>2. QED
  BY <1>1, Inductive, PTL

-----------------------------------------------------------------------------
(***************************************************************************)
(* Refinement: the files implement RunLedger.                              *)
(***************************************************************************)
LedgerOfFiles == [c \in Cells |-> Lines(c)]

LEMMA LinesOfAppend ==
    ASSUME NEW s \in Seq(Records), NEW r \in Records
    PROVE  {Append(s, r)[i] : i \in DOMAIN Append(s, r)} = {s[i] : i \in DOMAIN s} \cup {r}
<1> DEFINE t == Append(s, r)
<1>1. /\ DOMAIN s = 1..Len(s)
      /\ DOMAIN t = 1..(Len(s) + 1)
      /\ \A i \in 1..Len(s) : t[i] = s[i]
      /\ t[Len(s) + 1] = r
      /\ Len(s) \in Nat
  OBVIOUS
<1> HIDE DEF t
<1>2. {t[i] : i \in 1..(Len(s) + 1)} = {s[i] : i \in 1..Len(s)} \cup {r}
  <2>1. ASSUME NEW i \in 1..(Len(s) + 1)
        PROVE  t[i] \in {s[k] : k \in 1..Len(s)} \cup {r}
    <3>1. i \in 1..Len(s) \/ i = Len(s) + 1
      BY <1>1
    <3>2. QED
      BY <3>1, <1>1
  <2>2. ASSUME NEW i \in 1..Len(s)
        PROVE  s[i] \in {t[k] : k \in 1..(Len(s) + 1)}
    <3>1. i \in 1..(Len(s) + 1) /\ t[i] = s[i]
      BY <1>1
    <3>2. QED
      BY <3>1
  <2>3. r \in {t[k] : k \in 1..(Len(s) + 1)}
    <3>1. Len(s) + 1 \in 1..(Len(s) + 1)
      BY <1>1
    <3>2. QED
      BY <3>1, <1>1
  <2>4. QED
    BY <2>1, <2>2, <2>3
<1>3. QED
  BY <1>1, <1>2 DEF t

\* Appending a record to the open file is the ledger's Record of it.
LEMMA AppendIsRecord ==
    ASSUME IInv, pc = "ran", raw' = [raw EXCEPT ![cell] = Append(@, NewRecord)]
    PROVE  Ledger!LedgerNext
<1> PICK c \in Cells : c = cell
  BY PartTyped DEF IInv
<1> PICK r \in Records : r = NewRecord
  BY NewRecordTyped DEF IInv
<1>1. /\ raw \in [Cells -> Seq(Records)]
      /\ raw[c] \in Seq(Records)
      /\ raw' = [raw EXCEPT ![c] = Append(@, r)]
  BY DEF IInv, TypeOK
<1>2. raw'[c] = Append(raw[c], r) /\ \A d \in Cells : d # c => raw'[d] = raw[d]
  BY <1>1
<1>3. Lines(c)' = Lines(c) \cup {r}
  BY <1>1, <1>2, LinesOfAppend DEF Lines
<1>4. \A d \in Cells : d # c => Lines(d)' = Lines(d)
  BY <1>2 DEF Lines
<1>5. LedgerOfFiles' = [LedgerOfFiles EXCEPT ![c] = @ \cup {r}]
  BY <1>3, <1>4 DEF LedgerOfFiles
<1>6. \A q \in Lines(c) : <<q.suite, q.slot>> # <<r.suite, r.slot>> /\ q.version = r.version
  BY NewRecordIsNew DEF Lines, RunKey
<1>7. r \notin Lines(c)
  BY <1>6
<1>8. LedgerOfFiles[c] = Lines(c) /\ LedgerOfFiles'[c] = Lines(c)'
  BY DEF LedgerOfFiles
<1>9. Ledger!Record(c, r)
  BY <1>5, <1>6, <1>8 DEF Ledger!Record, LedgerOfFiles
<1>10. r \in Ledger!Added(c)
  BY <1>3, <1>7, <1>8 DEF Ledger!Added, LedgerOfFiles
<1>11. QED
  BY <1>9, <1>10 DEF Ledger!LedgerNext

\* Moving a raw file away is the ledger's Retire of it.
LEMMA ArchiveIsRetire ==
    ASSUME IInv, NEW c \in Cells, Archive(c)
    PROVE  Ledger!LedgerNext
<1>1. raw \in [Cells -> Seq(Records)] /\ raw' = [raw EXCEPT ![c] = <<>>]
  BY DEF IInv, TypeOK, Archive
<1>2. raw'[c] = <<>> /\ \A d \in Cells : d # c => raw'[d] = raw[d]
  BY <1>1
<1>3. Lines(c)' = {} /\ \A d \in Cells : d # c => Lines(d)' = Lines(d)
  BY <1>2 DEF Lines
<1>4. Ledger!Retire(c)
  BY <1>3 DEF Ledger!Retire
<1>5. QED
  BY <1>4 DEF Ledger!LedgerNext

LEMMA StepRefines == IInv /\ [Next]_vars => [Ledger!LedgerNext]_LedgerOfFiles
<1> SUFFICES ASSUME IInv, [Next]_vars
             PROVE  Ledger!LedgerNext \/ LedgerOfFiles' = LedgerOfFiles
  OBVIOUS
<1> USE DEF files, process
<1>1. CASE raw' = raw
  <2>1. \A c \in Cells : Lines(c)' = Lines(c)
    BY <1>1 DEF Lines
  <2>2. QED
    BY <2>1 DEF LedgerOfFiles
<1>2. ASSUME NEW c \in Cells, Archive(c) PROVE Ledger!LedgerNext
  BY <1>2, ArchiveIsRetire
<1>3. CASE AppendRecord
  BY <1>3, AppendIsRecord DEF AppendRecord
<1>4. CASE TearRecord /\ raw' # raw
  BY <1>4, AppendIsRecord DEF TearRecord
<1>5. \/ raw' = raw
      \/ \E c \in Cells : Archive(c)
      \/ AppendRecord
      \/ TearRecord
  BY DEF Next, ProcessStep, Start, BumpVersion, DeclaredUnsupported, LoadOversized, LoadModel,
         Capture, Resume, Refuse, SkipSlot, RunTask, Finish, FinishUnreadable, Die, vars
<1>6. QED
  BY <1>1, <1>2, <1>3, <1>4, <1>5

\* The raw files implement the ledger a reader relies on (the run's property
\* ImplementsLedger): every step of the runner, the operator or a crash adds one new
\* run of the file's version to one file, archives one file, or changes none.
THEOREM RunnerImplementsLedger == Spec => ImplementsLedger
<1>1. Init => Ledger!LedgerInit
  BY DEF Init, Ledger!LedgerInit, Lines
<1>2. QED
  BY <1>1, Inductive, StepRefines, PTL DEF Spec, ImplementsLedger, Ledger!LedgerSpec, LedgerOfFiles

-----------------------------------------------------------------------------
(***************************************************************************)
(* What every recorded run carries with it.  The four properties of this   *)
(* section rest on one invariant: each record on disk comes from a part of *)
(* the command table, names a capture made for that part, and has its      *)
(* transcript; and the open session is in a position to add such a record. *)
(***************************************************************************)
FromAPart(c, r) ==
    /\ \E p \in AllParts : CellOf(p) = c /\ p.suite = r.suite /\ p.label = r.label
    /\ ~TooSmallFor([ctx |-> c[1], suite |-> r.suite], r.slot)

EnvOfRun(c, r) ==
    /\ r.env \in DOMAIN captures
    /\ captures[r.env] = [ctx |-> c[1], label |-> r.label, version |-> r.version]

PathOf(c, r) ==
    RunId([ctx |-> c[1], label |-> r.label, suite |-> r.suite], r.slot)

Shown(c, r) ==
    r.suite # "1" =>
        \/ transcripts[PathOf(c, r)] = r.env
        \/ RepeatedByStage3(c) /\ transcripts[PathOf(c, r)] > r.env

RecordsInv ==
    \A c \in Cells : \A i \in DOMAIN raw[c] :
        FromAPart(c, raw[c][i]) /\ EnvOfRun(c, raw[c][i]) /\ Shown(c, raw[c][i])

SessionInv ==
    pc \in {"captured", "loop", "ran"} =>
        /\ env \in DOMAIN captures
        /\ env = Len(captures)
        /\ captures[env] = [ctx |-> part.ctx, label |-> part.label, version |-> code]

RanInv ==
    pc = "ran" => /\ ~TooSmallFor(part, cursor)
                  /\ part.suite # "1" => transcripts[RunId(part, cursor)] = env

PassedInv ==
    pc \in {"loop", "ran"} =>
        /\ existing \subseteq KeysIn(cell)
        /\ \A s \in 1..Slots :
              s < cursor => TooSmallFor(part, s) \/ <<part.suite, s>> \in KeysIn(cell)

RInv ==
    /\ IInv
    /\ RecordsInv
    /\ SessionInv
    /\ RanInv
    /\ PassedInv
    /\ CompletedIsWhole

\* The file a run goes to, from its suite and label alone; stage3 has one of its own.
UsualFile(suite, label) ==
    CASE suite = "0" -> <<"stage0", "">>
      [] suite = "1" -> <<"stage1", "">>
      [] suite = "W" /\ label \in {"native", "pi"} -> <<"stage2a", Arm(label)>>
      [] suite = "T" /\ label \in {"native", "pi"} -> <<"stage2b", Arm(label)>>
      [] suite = "W" /\ label = CompactLabel -> <<"stage5b-compact-w", "">>
      [] suite = "T" /\ label = CompactLabel -> <<"stage5b-compact-t", "">>
      [] suite = "W" /\ label \in {"native-sampled", "pi-sampled"} -> <<"stage5b-sampling-w", "">>
      [] suite = "T" /\ label \in {"native-sampled", "pi-sampled"} -> <<"stage5b-sampling-t", "">>

LEMMA OfOne ==
    ASSUME NEW s, NEW a, s = <<a>>, NEW i \in DOMAIN s
    PROVE  s[i] = a
OBVIOUS

LEMMA OfTwo ==
    ASSUME NEW s, NEW a, NEW b, s = <<a, b>>, NEW i \in DOMAIN s
    PROVE  s[i] = a \/ s[i] = b
OBVIOUS

LEMMA FilesTable ==
    /\ \A label : UsualFile("0", label) = <<"stage0", "">>
    /\ \A label : UsualFile("1", label) = <<"stage1", "">>
    /\ \A label \in {"native", "pi"} :
          /\ UsualFile("W", label) = <<"stage2a", Arm(label)>>
          /\ UsualFile("T", label) = <<"stage2b", Arm(label)>>
    /\ UsualFile("W", CompactLabel) = <<"stage5b-compact-w", "">>
    /\ UsualFile("T", CompactLabel) = <<"stage5b-compact-t", "">>
    /\ \A driver : UsualFile("W", SampledLabel(driver)) = <<"stage5b-sampling-w", "">>
    /\ \A driver : UsualFile("T", SampledLabel(driver)) = <<"stage5b-sampling-t", "">>
BY DEF UsualFile, CompactLabel, SampledLabel

LEMMA FileFromSuiteAndLabel ==
    ASSUME NEW p \in AllParts
    PROVE  \/ p.file = UsualFile(p.suite, p.label)
           \/ /\ p.ctx = Context16K
              /\ p.suite \in {"W", "T"}
              /\ p.label \in {"native", "pi"}
              /\ p.file = <<"stage3", Arm(p.label)>>
<1>1. PICK c \in Commands : \E i \in DOMAIN PartsOf(c) : p = PartsOf(c)[i]
  BY DEF AllParts
<1>2. PICK i \in DOMAIN PartsOf(c) : p = PartsOf(c)[i]
  BY <1>1
<1>3. c.cmd \in CommandNames /\ c.driver \in {"native", "pi"}
  BY ConstantsAssumption DEF Invocations
<1>4. CASE c.cmd = "stage0"
  <2> DEFINE a == Part(c.ctx, "stage0", "", "0", "native")
  <2>1. PartsOf(c) = <<a>>
    BY <1>4 DEF PartsOf, Stage0Parts
  <2>2. a.file = UsualFile(a.suite, a.label)
    BY FilesTable DEF Part
  <2> HIDE DEF a
  <2>3. p = a
    BY <1>2, <2>1, OfOne
  <2>4. QED
    BY <2>2, <2>3
<1>5. CASE c.cmd = "stage1"
  <2> DEFINE a == Part(Context8K, "stage1", "", "1", "native")
             b == Part(Context16K, "stage1", "", "1", "native")
  <2>1. PartsOf(c) = <<a, b>>
    BY <1>5 DEF PartsOf, Stage1Parts
  <2>2. a.file = UsualFile(a.suite, a.label)
    BY FilesTable DEF Part
  <2>3. b.file = UsualFile(b.suite, b.label)
    BY FilesTable DEF Part
  <2> HIDE DEF a, b
  <2>4. p = a \/ p = b
    BY <1>2, <2>1, OfTwo
  <2>5. QED
    BY <2>2, <2>3, <2>4
<1>6. CASE c.cmd = "stage2a"
  <2> DEFINE a == Part(c.ctx, "stage2a", Arm(c.driver), "W", c.driver)
  <2>1. PartsOf(c) = <<a>>
    BY <1>6 DEF PartsOf, Stage2aParts
  <2>2. a.file = UsualFile(a.suite, a.label)
    BY <1>3, FilesTable DEF Part
  <2> HIDE DEF a
  <2>3. p = a
    BY <1>2, <2>1, OfOne
  <2>4. QED
    BY <2>2, <2>3
<1>7. CASE c.cmd = "stage2b"
  <2> DEFINE a == Part(c.ctx, "stage2b", Arm(c.driver), "T", c.driver)
  <2>1. PartsOf(c) = <<a>>
    BY <1>7 DEF PartsOf, Stage2bParts
  <2>2. a.file = UsualFile(a.suite, a.label)
    BY <1>3, FilesTable DEF Part
  <2> HIDE DEF a
  <2>3. p = a
    BY <1>2, <2>1, OfOne
  <2>4. QED
    BY <2>2, <2>3
<1>8. CASE c.cmd = "stage3"
  <2> DEFINE a == Part(Context16K, "stage3", Arm(c.driver), "W", c.driver)
             b == Part(Context16K, "stage3", Arm(c.driver), "T", c.driver)
  <2>1. PartsOf(c) = <<a, b>>
    BY <1>8 DEF PartsOf, Stage3Parts
  <2>2. /\ a.ctx = Context16K /\ a.suite = "W" /\ a.label = c.driver
        /\ a.file = <<"stage3", Arm(c.driver)>>
        /\ b.ctx = Context16K /\ b.suite = "T" /\ b.label = c.driver
        /\ b.file = <<"stage3", Arm(c.driver)>>
    BY DEF Part
  <2> HIDE DEF a, b
  <2>3. p = a \/ p = b
    BY <1>2, <2>1, OfTwo
  <2>4. QED
    BY <1>3, <2>2, <2>3
<1>9. CASE c.cmd = "stage5b-compact"
  <2> DEFINE a == Part(c.ctx, "stage5b-compact-w", "", "W", CompactLabel)
             b == Part(c.ctx, "stage5b-compact-t", "", "T", CompactLabel)
  <2>1. PartsOf(c) = <<a, b>>
    BY <1>9 DEF PartsOf, CompactParts
  <2>2. a.file = UsualFile(a.suite, a.label)
    BY FilesTable DEF Part
  <2>3. b.file = UsualFile(b.suite, b.label)
    BY FilesTable DEF Part
  <2> HIDE DEF a, b
  <2>4. p = a \/ p = b
    BY <1>2, <2>1, OfTwo
  <2>5. QED
    BY <2>2, <2>3, <2>4
<1>10. CASE c.cmd = "stage5b-sampling"
  <2> DEFINE a == Part(c.ctx, "stage5b-sampling-w", "", "W", SampledLabel(c.driver))
             b == Part(c.ctx, "stage5b-sampling-t", "", "T", SampledLabel(c.driver))
  <2>1. PartsOf(c) = <<a, b>>
    BY <1>10 DEF PartsOf, SamplingParts
  <2>2. a.file = UsualFile(a.suite, a.label)
    BY FilesTable DEF Part
  <2>3. b.file = UsualFile(b.suite, b.label)
    BY FilesTable DEF Part
  <2> HIDE DEF a, b
  <2>4. p = a \/ p = b
    BY <1>2, <2>1, OfTwo
  <2>5. QED
    BY <2>2, <2>3, <2>4
<1>11. QED
  BY <1>3, <1>4, <1>5, <1>6, <1>7, <1>8, <1>9, <1>10 DEF CommandNames

\* So two files of a session hold runs of one suite and label only where one is
\* stage3's and the other one that stage3 repeats.
LEMMA OneFile ==
    ASSUME NEW c, NEW d, NEW r, NEW q, FromAPart(c, r), FromAPart(d, q),
           c[1] = d[1], r.suite = q.suite, r.label = q.label
    PROVE  \/ c = d
           \/ RepeatedByStage3(c) /\ RepeatedByStage3(d) /\ StagesDiffer(c, d)
<1>1. PICK p \in AllParts : CellOf(p) = c /\ p.suite = r.suite /\ p.label = r.label
  BY DEF FromAPart
<1>2. PICK o \in AllParts : CellOf(o) = d /\ o.suite = q.suite /\ o.label = q.label
  BY DEF FromAPart
<1>3. /\ c = <<p.ctx, p.file>> /\ d = <<o.ctx, o.file>>
      /\ p.ctx = o.ctx /\ p.suite = o.suite /\ p.label = o.label
  BY <1>1, <1>2 DEF CellOf
<1> DEFINE usual == UsualFile(p.suite, p.label)
           own   == <<"stage3", Arm(p.label)>>
           AgentRun == p.ctx = Context16K /\ p.suite \in {"W", "T"} /\ p.label \in {"native", "pi"}
<1>4. \/ p.file = usual
      \/ AgentRun /\ p.file = own
  BY FileFromSuiteAndLabel
<1>5. \/ o.file = usual
      \/ AgentRun /\ o.file = own
  BY <1>3, FileFromSuiteAndLabel
<1>6. AgentRun => usual[1] \in {"stage2a", "stage2b"}
  <2>1. AgentRun => usual = <<"stage2a", Arm(p.label)>> \/ usual = <<"stage2b", Arm(p.label)>>
    BY FilesTable
  <2> HIDE DEF usual
  <2>2. QED
    BY <2>1
<1>7. own[1] = "stage3"
  OBVIOUS
<1>8. p.file = o.file => c = d
  BY <1>3
<1>9. ASSUME p.file # o.file
      PROVE  RepeatedByStage3(c) /\ RepeatedByStage3(d) /\ StagesDiffer(c, d)
  <2>1. AgentRun /\ {p.file, o.file} = {usual, own}
    BY <1>4, <1>5, <1>9
  <2>2. /\ p.file[1] \in {"stage2a", "stage2b", "stage3"}
        /\ o.file[1] \in {"stage2a", "stage2b", "stage3"}
        /\ (p.file[1] = "stage3") # (o.file[1] = "stage3")
    <3> HIDE DEF usual, own
    <3>1. (p.file = usual /\ o.file = own) \/ (p.file = own /\ o.file = usual)
      BY <1>4, <1>5, <1>9
    <3>2. CASE p.file = usual /\ o.file = own
      BY <1>6, <1>7, <2>1, <3>2
    <3>3. CASE p.file = own /\ o.file = usual
      BY <1>6, <1>7, <2>1, <3>3
    <3>4. QED
      BY <3>1, <3>2, <3>3
  <2>3. c[1] = Context16K /\ d[1] = Context16K /\ c[2] = p.file /\ d[2] = o.file
    BY <1>3, <2>1
  <2>4. QED
    BY <2>2, <2>3 DEF RepeatedByStage3, StagesDiffer
<1>10. QED
  BY <1>8, <1>9

LEMMA PathTyped ==
    ASSUME NEW c, NEW r \in Records, FromAPart(c, r)
    PROVE  PathOf(c, r) \in TranscriptPaths
<1>1. PICK p \in AllParts : CellOf(p) = c /\ p.suite = r.suite /\ p.label = r.label
  BY DEF FromAPart
<1>2. PathOf(c, r) = RunId(p, r.slot)
  BY <1>1 DEF CellOf, PathOf, RunId
<1>3. r.slot \in 1..Slots
  BY DEF Records
<1>4. QED
  BY <1>2, <1>3 DEF TranscriptPaths

\* What the run just made would be recorded as.
LEMMA NewRecordCarries ==
    ASSUME RInv, pc = "ran"
    PROVE  FromAPart(cell, NewRecord) /\ EnvOfRun(cell, NewRecord) /\ Shown(cell, NewRecord)
<1>1. TypeOK /\ part \in AllParts
  BY PartTyped DEF RInv, IInv
<1>2. /\ cell[1] = part.ctx
      /\ NewRecord.suite = part.suite /\ NewRecord.label = part.label
      /\ NewRecord.slot = cursor /\ NewRecord.env = env /\ NewRecord.version = code
  BY DEF cell, CellOf, NewRecord
<1>3. FromAPart(cell, NewRecord)
  BY <1>1, <1>2 DEF RInv, RanInv, FromAPart, TooSmallFor, cell
<1>4. EnvOfRun(cell, NewRecord)
  BY <1>2 DEF RInv, SessionInv, EnvOfRun
<1>5. PathOf(cell, NewRecord) = RunId(part, cursor)
  BY <1>2 DEF PathOf, RunId
<1>6. Shown(cell, NewRecord)
  BY <1>2, <1>5 DEF RInv, RanInv, Shown
<1>7. QED
  BY <1>3, <1>4, <1>6

\* How the open file reads after an append, whether or not the newline followed.
LEMMA AfterAppend ==
    ASSUME TypeOK, pc = "ran", raw' = [raw EXCEPT ![cell] = Append(@, NewRecord)]
    PROVE  /\ \A c \in Cells : \A i \in DOMAIN raw'[c] :
                 \/ i \in DOMAIN raw[c] /\ raw'[c][i] = raw[c][i]
                 \/ c = cell /\ raw'[c][i] = NewRecord
           /\ \A i \in DOMAIN raw[cell] :
                 i \in DOMAIN raw'[cell] /\ raw'[cell][i] = raw[cell][i]
           /\ \E i \in DOMAIN raw'[cell] : raw'[cell][i] = NewRecord
<1>1. cell \in Cells /\ NewRecord \in Records /\ raw[cell] \in Seq(Records)
  BY PartTyped, NewRecordTyped DEF TypeOK
<1>2. /\ raw'[cell] = Append(raw[cell], NewRecord)
      /\ \A c \in Cells : c # cell => raw'[c] = raw[c]
  BY <1>1 DEF TypeOK
<1> DEFINE old == raw[cell]
           new == Append(old, NewRecord)
<1>3. /\ DOMAIN old = 1..Len(old)
      /\ DOMAIN new = 1..(Len(old) + 1)
      /\ \A i \in 1..Len(old) : new[i] = old[i]
      /\ new[Len(old) + 1] = NewRecord
      /\ Len(old) \in Nat
  BY <1>1
<1> HIDE DEF old, new
<1>4. /\ \A i \in DOMAIN new : (i \in DOMAIN old /\ new[i] = old[i]) \/ new[i] = NewRecord
      /\ \A i \in DOMAIN old : i \in DOMAIN new /\ new[i] = old[i]
      /\ \E i \in DOMAIN new : new[i] = NewRecord
  BY <1>3
<1>5. QED
  BY <1>2, <1>4 DEF old, new

LEMMA AppendKeepsRecords ==
    ASSUME RInv, pc = "ran", raw' = [raw EXCEPT ![cell] = Append(@, NewRecord)],
           UNCHANGED <<captures, transcripts>>
    PROVE  RecordsInv'
<1> SUFFICES ASSUME NEW c \in Cells, NEW i \in DOMAIN raw'[c]
             PROVE  (FromAPart(c, raw[c][i]) /\ EnvOfRun(c, raw[c][i]) /\ Shown(c, raw[c][i]))'
  BY DEF RecordsInv
<1> DEFINE Carried(r) == FromAPart(c, r) /\ EnvOfRun(c, r) /\ Shown(c, r)
<1>1. Carried(raw'[c][i])
  <2>1. CASE i \in DOMAIN raw[c] /\ raw'[c][i] = raw[c][i]
    BY <2>1 DEF RInv, RecordsInv
  <2>2. CASE c = cell /\ raw'[c][i] = NewRecord
    BY <2>2, NewRecordCarries
  <2>3. QED
    BY <2>1, <2>2, AfterAppend DEF RInv, IInv
<1>2. QED
  BY <1>1 DEF FromAPart, EnvOfRun, Shown, PathOf, RunId

\* Running a task leaves the transcript of every recorded run alone: its path would
\* have to be that run's, which is then in the open file and skipped, unless stage3
\* and a stage it repeats share the path; and then the transcript is the newest.
LEMMA RunTaskKeepsRecords ==
    ASSUME RInv, RunTask
    PROVE  RecordsInv'
<1>1. /\ pc = "loop" /\ ~Skips(cursor) /\ raw' = raw /\ captures' = captures
      /\ TypeOK /\ cursor \in 1..Slots
  BY ConstantsAssumption DEF RunTask, RInv, IInv, TypeOK
<1>2. part \in AllParts /\ env = Len(captures) /\ DOMAIN captures = 1..Len(captures)
  BY <1>1, PartTyped DEF RInv, SessionInv, TypeOK
<1> SUFFICES ASSUME NEW c \in Cells, NEW i \in DOMAIN raw[c]
             PROVE  (FromAPart(c, raw[c][i]) /\ EnvOfRun(c, raw[c][i]) /\ Shown(c, raw[c][i]))'
  BY <1>1 DEF RecordsInv
<1> DEFINE r == raw[c][i]
<1>3. r \in Records /\ FromAPart(c, r) /\ EnvOfRun(c, r) /\ Shown(c, r)
  BY <1>1 DEF RInv, RecordsInv, TypeOK
<1>4. FromAPart(c, r)' /\ EnvOfRun(c, r)'
  BY <1>1, <1>3 DEF FromAPart, EnvOfRun
<1>5. Shown(c, r)'
  <2> SUFFICES ASSUME r.suite # "1"
               PROVE  \/ transcripts'[PathOf(c, r)] = r.env
                      \/ RepeatedByStage3(c) /\ transcripts'[PathOf(c, r)] > r.env
    BY <1>1 DEF Shown, PathOf, RunId
  <2>1. PathOf(c, r) \in TranscriptPaths
    BY <1>3, PathTyped
  <2>2. CASE part.suite = "1" \/ PathOf(c, r) # RunId(part, cursor)
    BY <1>1, <1>3, <2>1, <2>2 DEF RunTask, Shown, TypeOK
  <2>3. CASE part.suite # "1" /\ PathOf(c, r) = RunId(part, cursor)
    <3>1. transcripts'[PathOf(c, r)] = env
      BY <1>1, <2>1, <2>3 DEF RunTask, TypeOK
    <3>2. c[1] = part.ctx /\ r.label = part.label /\ r.suite = part.suite /\ r.slot = cursor
      BY <2>3 DEF PathOf, RunId
    <3>3. ASSUME ~RepeatedByStage3(c) PROVE FALSE
      <4>1. FromAPart(cell, [suite |-> part.suite, label |-> part.label, slot |-> cursor])
        BY <1>1, <1>2 DEF FromAPart, TooSmallFor, Skips, cell, CellOf
      <4>2. cell[1] = part.ctx
        BY DEF cell, CellOf
      <4> DEFINE made == [suite |-> part.suite, label |-> part.label, slot |-> cursor]
      <4>3. FromAPart(cell, made) /\ made.suite = part.suite /\ made.label = part.label
        BY <4>1
      <4> HIDE DEF made
      <4>4. c = cell
        BY <1>3, <3>2, <3>3, <4>2, <4>3, OneFile
      <4>5. RunKey(r) = <<part.suite, cursor>> /\ ~(r.slot < cursor)
        BY <1>1, <3>2 DEF RunKey
      <4>6. RunKey(r) \in existing
        BY <1>1, <4>4, <4>5 DEF RInv, IInv, SnapshotInv
      <4>7. QED
        BY <1>1, <4>5, <4>6 DEF Skips
    <3>4. r.env \in 1..Len(captures) /\ Len(captures) \in Nat
      BY <1>1, <1>2, <1>3 DEF EnvOfRun, TypeOK
    <3>5. QED
      BY <1>2, <3>1, <3>3, <3>4
  <2>4. QED
    BY <2>2, <2>3
<1>6. QED
  BY <1>1, <1>4, <1>5
\* Records are left alone by every other step: captures only grow, and nothing
\* else writes a transcript.
LEMMA OtherStepsKeepRecords ==
    ASSUME RInv, [Next]_vars, ~RunTask, ~AppendRecord, ~TearRecord
    PROVE  RecordsInv'
<1> USE DEF files, process
<1>1. /\ TypeOK
      /\ transcripts' = transcripts
      /\ \A c \in Cells : raw'[c] = raw[c] \/ raw'[c] = <<>>
      /\ \/ captures' = captures
         \/ captures' = Append(captures, [ctx |-> part.ctx, label |-> part.label,
                                          version |-> code])
  BY DEF RInv, IInv, TypeOK, Next, ProcessStep, Start, BumpVersion, Archive,
         DeclaredUnsupported, LoadOversized, LoadModel, Capture, Resume, Refuse, SkipSlot,
         Finish, FinishUnreadable, Die, vars
<1>2. \A n \in DOMAIN captures : n \in DOMAIN captures' /\ captures'[n] = captures[n]
  <2>1. CASE captures' = captures
    BY <2>1
  <2>2. ASSUME NEW new, captures' = Append(captures, new)
        PROVE  \A n \in DOMAIN captures : n \in DOMAIN captures' /\ captures'[n] = captures[n]
    <3>1. /\ DOMAIN captures = 1..Len(captures) /\ Len(captures) \in Nat
          /\ DOMAIN captures' = 1..(Len(captures) + 1)
          /\ \A n \in 1..Len(captures) : captures'[n] = captures[n]
      BY <1>1, <2>2 DEF TypeOK
    <3>2. QED
      BY <3>1
  <2>3. QED
    BY <1>1, <2>1, <2>2
<1> SUFFICES ASSUME NEW c \in Cells, NEW i \in DOMAIN raw'[c]
             PROVE  (FromAPart(c, raw[c][i]) /\ EnvOfRun(c, raw[c][i]) /\ Shown(c, raw[c][i]))'
  BY DEF RecordsInv
<1>3. raw'[c] = raw[c]
  BY <1>1
<1> DEFINE r == raw[c][i]
<1>4. FromAPart(c, r) /\ EnvOfRun(c, r) /\ Shown(c, r)
  BY <1>3 DEF RInv, RecordsInv
<1>5. FromAPart(c, r)' /\ EnvOfRun(c, r)' /\ Shown(c, r)'
  BY <1>1, <1>2, <1>3, <1>4 DEF FromAPart, EnvOfRun, Shown, PathOf, RunId
<1>6. QED
  BY <1>5

LEMMA StepKeepsRecords ==
    ASSUME RInv, [Next]_vars
    PROVE  RecordsInv'
<1>1. CASE RunTask
  BY <1>1, RunTaskKeepsRecords
<1>2. CASE AppendRecord
  BY <1>2, AppendKeepsRecords DEF AppendRecord
<1>3. CASE TearRecord
  <2>1. CASE raw' = raw
    <3>1. transcripts' = transcripts /\ captures' = captures
      BY <1>3 DEF TearRecord
    <3>2. QED
      BY <2>1, <3>1 DEF RInv, RecordsInv, FromAPart, EnvOfRun, Shown, PathOf, RunId
  <2>2. CASE raw' = [raw EXCEPT ![cell] = Append(@, NewRecord)]
    BY <1>3, <2>2, AppendKeepsRecords DEF TearRecord
  <2>3. QED
    BY <1>3, <2>1, <2>2 DEF TearRecord
<1>4. QED
  BY <1>1, <1>2, <1>3, OtherStepsKeepRecords

\* A step that leaves the open session where it is keeps what is known of it.
LEMMA SessionKept ==
    ASSUME RInv, UNCHANGED <<pc, code, todo, env, existing, cursor, raw, transcripts, captures,
                             outcome>>
    PROVE  SessionInv' /\ RanInv' /\ PassedInv' /\ CompletedIsWhole'
<1>1. part' = part /\ cell' = cell /\ KeysIn(cell)' = KeysIn(cell)
  BY DEF part, cell, KeysIn
<1>2. SessionInv' /\ RanInv'
  BY <1>1 DEF RInv, SessionInv, RanInv, TooSmallFor, RunId
<1>3. PassedInv'
  BY <1>1 DEF RInv, PassedInv, TooSmallFor
<1>4. CompletedIsWhole'
  BY DEF RInv, CompletedIsWhole, TooSmallFor
<1>5. QED
  BY <1>2, <1>3, <1>4

\* After a step that leaves no session open nothing need be known of one.
LEMMA SessionLeft ==
    ASSUME pc' \in {"idle", "open", "loaded"}
    PROVE  SessionInv' /\ RanInv' /\ PassedInv'
BY DEF SessionInv, RanInv, PassedInv

\* What a loop that reached the end of its slots hands to the gate.
LEMMA WholeAtTheEnd ==
    ASSUME RInv, pc = "loop", cursor > Slots
    PROVE  LET got == {raw[cell][i] : i \in DOMAIN raw[cell]}
           IN {r.slot : r \in {q \in got : q.suite = part.suite}}
                 = {s \in 1..Slots : ~TooSmallFor(part, s)}
<1> DEFINE got == {raw[cell][i] : i \in DOMAIN raw[cell]}
<1>1. TypeOK /\ cell \in Cells /\ cell[1] = part.ctx
  BY PartTyped DEF RInv, IInv, cell, CellOf
<1>2. ASSUME NEW i \in DOMAIN raw[cell], raw[cell][i].suite = part.suite
      PROVE  raw[cell][i].slot \in {s \in 1..Slots : ~TooSmallFor(part, s)}
  <2>1. raw[cell][i] \in Records /\ FromAPart(cell, raw[cell][i])
    BY <1>1 DEF RInv, RecordsInv, TypeOK
  <2>2. QED
    BY <1>1, <1>2, <2>1 DEF Records, FromAPart, TooSmallFor
<1>3. ASSUME NEW s \in 1..Slots, ~TooSmallFor(part, s)
      PROVE  \E i \in DOMAIN raw[cell] : raw[cell][i].suite = part.suite
                                         /\ raw[cell][i].slot = s
  <2>1. s < cursor
    BY <1>1, ConstantsAssumption DEF TypeOK
  <2>2. <<part.suite, s>> \in KeysIn(cell)
    BY <1>3, <2>1 DEF RInv, PassedInv
  <2>3. QED
    BY <2>2 DEF KeysIn, RunKey
<1>4. QED
  BY <1>2, <1>3

LEMMA StepKeepsSession ==
    ASSUME RInv, [Next]_vars
    PROVE  SessionInv' /\ RanInv' /\ PassedInv' /\ CompletedIsWhole'
<1> USE DEF files, process
<1>1. TypeOK
  BY DEF RInv, IInv
<1>2. ASSUME outcome' = outcome \/ outcome'.status # "completed" PROVE CompletedIsWhole'
  BY <1>2 DEF RInv, CompletedIsWhole, TooSmallFor
<1>3. ASSUME NEW c \in Commands, Start(c)
      PROVE  SessionInv' /\ RanInv' /\ PassedInv' /\ CompletedIsWhole'
  BY <1>2, <1>3, SessionLeft DEF Start, NoOutcome
<1>4. CASE BumpVersion
  BY <1>4, SessionKept DEF BumpVersion
<1>5. ASSUME NEW c \in Cells, Archive(c)
      PROVE  SessionInv' /\ RanInv' /\ PassedInv' /\ CompletedIsWhole'
  BY <1>2, <1>5, SessionLeft DEF Archive
<1>6. CASE DeclaredUnsupported \/ LoadOversized
  BY <1>1, <1>2, <1>6, ReturnTyped, SessionLeft DEF DeclaredUnsupported, LoadOversized
<1>7. CASE Refuse \/ FinishUnreadable \/ Die \/ TearRecord
  BY <1>2, <1>7, DiesTyped, SessionLeft DEF Refuse, FinishUnreadable, Die, TearRecord
<1>8. CASE LoadModel
  BY <1>2, <1>8, SessionLeft DEF LoadModel
<1>9. CASE Capture
  <2>1. /\ pc' = "captured" /\ todo' = todo /\ code' = code /\ outcome' = outcome
        /\ captures' = Append(captures, [ctx |-> part.ctx, label |-> part.label,
                                         version |-> code])
        /\ env' = Len(captures')
    BY <1>9 DEF Capture
  <2>2. part' = part
    BY <2>1 DEF part
  <2> DEFINE new == [ctx |-> part.ctx, label |-> part.label, version |-> code]
  <2>3. env' \in DOMAIN captures' /\ captures'[env'] = new
    BY <1>1, <2>1 DEF TypeOK
  <2>4. SessionInv'
    BY <2>1, <2>2, <2>3 DEF SessionInv
  <2>5. QED
    BY <1>2, <2>1, <2>4 DEF RanInv, PassedInv
<1>10. CASE Resume
  <2>1. /\ pc = "captured" /\ pc' = "loop" /\ existing' = KeysIn(cell) /\ cursor' = 1
        /\ UNCHANGED <<raw, todo, env, code, captures, outcome>>
    BY <1>10 DEF Resume, Snapshot
  <2>2. part' = part /\ cell' = cell /\ KeysIn(cell)' = KeysIn(cell)
    BY <2>1 DEF part, cell, KeysIn
  <2>3. SessionInv' /\ RanInv'
    BY <2>1, <2>2 DEF RInv, SessionInv, RanInv
  <2>4. PassedInv'
    BY <2>1, <2>2 DEF PassedInv
  <2>5. QED
    BY <1>2, <2>1, <2>3, <2>4
<1>11. CASE SkipSlot
  <2>1. /\ pc = "loop" /\ pc' = "loop" /\ cursor' = cursor + 1 /\ Skips(cursor)
        /\ UNCHANGED <<raw, todo, env, code, captures, outcome, existing>>
    BY <1>11 DEF SkipSlot
  <2>2. part' = part /\ cell' = cell /\ KeysIn(cell)' = KeysIn(cell)
    BY <2>1 DEF part, cell, KeysIn
  <2>3. SessionInv' /\ RanInv'
    BY <2>1, <2>2 DEF RInv, SessionInv, RanInv
  <2>4. existing \subseteq KeysIn(cell)
    BY <2>1 DEF RInv, PassedInv
  <2>5. ASSUME NEW s \in 1..Slots, s < cursor + 1
        PROVE  TooSmallFor(part, s) \/ <<part.suite, s>> \in KeysIn(cell)
    <3>1. s < cursor \/ s = cursor
      BY <1>1, <2>5, ConstantsAssumption DEF TypeOK
    <3>2. QED
      BY <2>1, <2>4, <3>1 DEF RInv, PassedInv, Skips
  <2>6. PassedInv'
    BY <2>1, <2>2, <2>4, <2>5 DEF PassedInv, TooSmallFor
  <2>7. QED
    BY <1>2, <2>1, <2>3, <2>6
<1>12. CASE RunTask
  <2>1. /\ pc = "loop" /\ pc' = "ran" /\ cursor \in 1..Slots /\ ~Skips(cursor)
        /\ UNCHANGED <<raw, todo, env, code, captures, outcome, existing, cursor>>
    BY <1>1, <1>12, ConstantsAssumption DEF RunTask, TypeOK
  <2>2. part' = part /\ cell' = cell /\ KeysIn(cell)' = KeysIn(cell)
    BY <2>1 DEF part, cell, KeysIn
  <2>3. SessionInv'
    BY <2>1, <2>2 DEF RInv, SessionInv
  <2>4. PassedInv'
    BY <2>1, <2>2 DEF RInv, PassedInv, TooSmallFor
  <2>5. part.suite # "1" => transcripts'[RunId(part, cursor)] = env
    <3>1. RunId(part, cursor) \in TranscriptPaths
      BY <1>1, <2>1, PartTyped DEF TranscriptPaths
    <3>2. QED
      BY <1>1, <1>12, <3>1 DEF RunTask, TypeOK
  <2>6. RanInv'
    BY <2>1, <2>2, <2>5 DEF RanInv, Skips, TooSmallFor, RunId
  <2>7. QED
    BY <1>2, <2>1, <2>3, <2>4, <2>6
<1>13. CASE AppendRecord
  <2>1. /\ pc = "ran" /\ pc' = "loop" /\ cursor' = cursor + 1
        /\ raw' = [raw EXCEPT ![cell] = Append(@, NewRecord)]
        /\ UNCHANGED <<todo, env, code, captures, outcome, existing>>
    BY <1>13 DEF AppendRecord
  <2>2. part' = part /\ cell' = cell
    BY <2>1 DEF part, cell
  <2>3. SessionInv' /\ RanInv'
    BY <2>1, <2>2 DEF RInv, SessionInv, RanInv
  <2>4. KeysIn(cell) \subseteq KeysIn(cell)'
    BY <1>1, <2>1, <2>2, AfterAppend DEF KeysIn
  <2>5. <<part.suite, cursor>> \in KeysIn(cell)'
    <3>1. RunKey(NewRecord) = <<part.suite, cursor>>
      BY DEF NewRecord, RunKey
    <3>2. \E i \in DOMAIN raw'[cell] : raw'[cell][i] = NewRecord
      BY <1>1, <2>1, AfterAppend
    <3>3. QED
      BY <2>2, <3>1, <3>2 DEF KeysIn, RunKey
  <2>6. ASSUME NEW s \in 1..Slots, s < cursor + 1
        PROVE  TooSmallFor(part, s) \/ <<part.suite, s>> \in KeysIn(cell)'
    <3>1. s < cursor \/ s = cursor
      BY <1>1, <2>6, ConstantsAssumption DEF TypeOK
    <3>2. QED
      BY <2>1, <2>4, <2>5, <3>1 DEF RInv, PassedInv
  <2>7. PassedInv'
    BY <2>1, <2>2, <2>4, <2>6 DEF RInv, PassedInv, TooSmallFor
  <2>8. QED
    BY <1>2, <2>1, <2>3, <2>7
<1>14. CASE Finish
  <2>1. /\ pc = "loop" /\ cursor > Slots /\ pc' \in {"idle", "open"}
        /\ outcome'.part = part /\ outcome'.records = raw[cell]
    BY <1>14 DEF Finish, Return
  <2>2. CompletedIsWhole'
    BY <2>1, WholeAtTheEnd DEF CompletedIsWhole, TooSmallFor
  <2>3. QED
    BY <2>1, <2>2, SessionLeft
<1>15. CASE UNCHANGED vars
  BY <1>15, SessionKept DEF vars
<1>16. QED
  BY <1>3, <1>4, <1>5, <1>6, <1>7, <1>8, <1>9, <1>10, <1>11, <1>12, <1>13, <1>14, <1>15
     DEF Next, ProcessStep

LEMMA RecordsInductive == Spec => []RInv
<1>1. Init => RInv
  <2> SUFFICES ASSUME Init PROVE RInv
    OBVIOUS
  <2>1. \A c \in Cells : DOMAIN raw[c] = {}
    BY DEF Init
  <2>2. outcome.status = "none" /\ pc = "idle"
    BY DEF Init, NoOutcome
  <2>3. QED
    BY <2>1, <2>2, InitInductive
       DEF RInv, RecordsInv, SessionInv, RanInv, PassedInv, CompletedIsWhole
<1>2. RInv /\ [Next]_vars => RInv'
  BY StepInductive, StepKeepsRecords, StepKeepsSession DEF RInv
<1>3. QED
  BY <1>1, <1>2, PTL DEF Spec

\* The report counts no run twice, whichever stages wrote into the session's
\* directory, except where stage3 and a stage it repeats both ran at 16384 (the
\* run's invariant ReportCountsOnce).
THEOREM CountedOnce == Spec => []ReportCountsOnce
<1>1. ASSUME RInv PROVE ReportCountsOnce
  <2> SUFFICES ASSUME NEW c \in Cells, NEW d \in Cells,
                      NEW i \in DOMAIN raw[c], NEW j \in DOMAIN raw[d],
                      c[1] = d[1],
                      RunKey(raw[c][i]) = RunKey(raw[d][j]),
                      raw[c][i].label = raw[d][j].label
               PROVE  \/ c = d /\ i = j
                      \/ RepeatedByStage3(c) /\ RepeatedByStage3(d) /\ StagesDiffer(c, d)
    BY DEF ReportCountsOnce
  <2>1. FromAPart(c, raw[c][i]) /\ FromAPart(d, raw[d][j])
    BY <1>1 DEF RInv, RecordsInv
  <2>2. \/ c = d
        \/ RepeatedByStage3(c) /\ RepeatedByStage3(d) /\ StagesDiffer(c, d)
    BY <2>1, OneFile DEF RunKey
  <2>3. QED
    BY <1>1, <2>2 DEF RInv, IInv, RecordedOnce
<1>2. QED
  BY <1>1, RecordsInductive, PTL

\* A recorded agent run has its transcript on disk, over kills, re-runs and archiving:
\* the transcript of that very run, or a later one's where stage3 and a stage it
\* repeats share the path (the run's invariant TranscriptKept).
THEOREM TranscriptsKept == Spec => []TranscriptKept
<1>1. RInv => TranscriptKept
  BY DEF RInv, RecordsInv, Shown, PathOf, TranscriptKept
<1>2. QED
  BY <1>1, RecordsInductive, PTL

\* The environment a record names was captured for its own context, label and
\* version (the run's invariant EnvironmentIsTheRuns).
THEOREM EnvironmentsMatch == Spec => []EnvironmentIsTheRuns
<1>1. RInv => EnvironmentIsTheRuns
  BY DEF RInv, RecordsInv, EnvOfRun, EnvironmentIsTheRuns
<1>2. QED
  BY <1>1, RecordsInductive, PTL

\* A stage that reports "completed" hands its gate exactly the runs it can make at
\* its context, whichever sessions made them (the run's invariant CompletedIsWhole).
THEOREM CompletedStagesAreWhole == Spec => []CompletedIsWhole
<1>1. RInv => CompletedIsWhole
  BY DEF RInv
<1>2. QED
  BY <1>1, RecordsInductive, PTL

-----------------------------------------------------------------------------
(***************************************************************************)
(* A command is finite.  PartSteps is what one part takes at most: it      *)
(* opens, loads, captures and resumes, runs and records each slot, and     *)
(* returns.                                                                *)
(***************************************************************************)
PartSteps == 2 * Slots + 4

\* At most this many steps of the process are left.
StepsLeft ==
    CASE pc = "idle"     -> 0
      [] pc = "open"     -> Len(todo) * PartSteps
      [] pc = "loaded"   -> Len(Tail(todo)) * PartSteps + 2 * Slots + 3
      [] pc = "captured" -> Len(Tail(todo)) * PartSteps + 2 * Slots + 2
      [] pc = "loop"     -> Len(Tail(todo)) * PartSteps + 2 * (Slots + 1 - cursor) + 1
      [] pc = "ran"      -> Len(Tail(todo)) * PartSteps + 2 * (Slots + 1 - cursor)

\* The operator and the working tree neither hold a command up nor hurry it, a crash ends
\* it, and every step of its own brings its end nearer.
CommandShortens ==
    [][/\ ProcessStep => StepsLeft' < StepsLeft
       /\ BumpVersion \/ (\E c \in Cells : Archive(c)) => StepsLeft' = StepsLeft
       /\ TearRecord \/ Die => StepsLeft' = 0]_vars

\* The parts still to come cost the same before and after a step inside a part, and
\* one part less once it is over.
LEMMA Ahead ==
    ASSUME TypeOK, pc # "idle"
    PROVE  /\ Len(Tail(todo)) * PartSteps \in Nat
           /\ Len(todo) * PartSteps = Len(Tail(todo)) * PartSteps + 2 * Slots + 4
           /\ cursor \in Nat /\ Slots \in Nat /\ cursor <= Slots + 1
<1>1. /\ Len(todo) \in Nat /\ Len(todo) > 0 /\ Len(Tail(todo)) = Len(todo) - 1
      /\ PartSteps \in Nat /\ Slots \in Nat
      /\ cursor \in Nat /\ cursor <= Slots + 1
  BY ConstantsAssumption, EmptySeq, HeadTailProperties DEF TypeOK, PartSteps
<1>2. \A k, n \in Nat : k > 0 => (k - 1) * n \in Nat /\ k * n = (k - 1) * n + n
  OBVIOUS
<1>3. /\ (Len(todo) - 1) * PartSteps \in Nat
      /\ Len(todo) * PartSteps = (Len(todo) - 1) * PartSteps + PartSteps
  BY <1>1, <1>2
<1> DEFINE ahead == (Len(todo) - 1) * PartSteps
<1>4. Len(Tail(todo)) * PartSteps = ahead
  BY <1>1
<1>5. Len(todo) * PartSteps = ahead + 2 * Slots + 4
  <2> HIDE DEF ahead
  <2>1. ahead + PartSteps = ahead + 2 * Slots + 4
    BY <1>1, <1>3 DEF PartSteps, ahead
  <2>2. QED
    BY <1>3, <2>1 DEF ahead
<1>6. QED
  BY <1>1, <1>3, <1>4, <1>5

LEMMA StepsLeftIsNatural ==
    ASSUME TypeOK
    PROVE  /\ StepsLeft \in Nat
           /\ StepsLeft = 0 <=> pc = "idle"
<1>1. CASE pc = "idle"
  BY <1>1 DEF StepsLeft
<1>2. CASE pc # "idle"
  <2> DEFINE ahead == Len(Tail(todo)) * PartSteps
  <2>1. /\ ahead \in Nat /\ Len(todo) * PartSteps = ahead + 2 * Slots + 4
        /\ cursor \in Nat /\ Slots \in Nat /\ cursor <= Slots + 1
    BY <1>2, Ahead
  <2>2. pc = "ran" => cursor <= Slots
    BY DEF TypeOK
  <2>3. \/ pc = "open"     /\ StepsLeft = ahead + 2 * Slots + 4
        \/ pc = "loaded"   /\ StepsLeft = ahead + 2 * Slots + 3
        \/ pc = "captured" /\ StepsLeft = ahead + 2 * Slots + 2
        \/ pc = "loop"     /\ StepsLeft = ahead + 2 * (Slots + 1 - cursor) + 1
        \/ pc = "ran"      /\ StepsLeft = ahead + 2 * (Slots + 1 - cursor)
    BY <1>2, <2>1 DEF TypeOK, StepsLeft
  <2> HIDE DEF ahead
  <2>4. QED
    BY <1>2, <2>1, <2>2, <2>3
<1>3. QED
  BY <1>1, <1>2

\* A part that returns leaves the parts behind it.
LEMMA ReturnShortens ==
    ASSUME TypeOK, pc # "idle", NEW status, NEW records, Return(status, records)
    PROVE  StepsLeft' \in Nat /\ StepsLeft' <= Len(Tail(todo)) * PartSteps
<1>1. Len(Tail(todo)) * PartSteps \in Nat
  BY Ahead
<1>2. CASE pc' = "idle"
  BY <1>1, <1>2 DEF StepsLeft
<1>3. CASE pc' = "open"
  <2>1. StepsLeft' = Len(Tail(todo)) * PartSteps
    BY <1>3 DEF StepsLeft, Return, PartSteps
  <2>2. QED
    BY <1>1, <2>1
<1>4. QED
  BY <1>2, <1>3 DEF Return

LEMMA StepShortens ==
    ASSUME TypeOK, ProcessStep
    PROVE  StepsLeft' < StepsLeft
<1>1. pc # "idle"
  BY DEF ProcessStep, DeclaredUnsupported, LoadOversized, LoadModel, Capture, Resume, Refuse,
         SkipSlot, RunTask, AppendRecord, Finish, FinishUnreadable
<1> DEFINE ahead == Len(Tail(todo)) * PartSteps
<1>2. /\ ahead \in Nat /\ Len(todo) * PartSteps = ahead + 2 * Slots + 4
      /\ cursor \in Nat /\ Slots \in Nat /\ cursor <= Slots + 1
  BY <1>1, Ahead
<1>3. pc = "ran" => cursor <= Slots
  BY DEF TypeOK
<1>4. StepsLeft \in Nat /\ StepsLeft > 0
  BY <1>1, StepsLeftIsNatural
<1>5. CASE DeclaredUnsupported \/ LoadOversized
  <2>1. pc = "open" /\ StepsLeft = ahead + 2 * Slots + 4
    BY <1>2, <1>5 DEF DeclaredUnsupported, LoadOversized, StepsLeft
  <2>2. StepsLeft' \in Nat /\ StepsLeft' <= ahead
    BY <1>1, <1>5, ReturnShortens DEF DeclaredUnsupported, LoadOversized
  <2> HIDE DEF ahead
  <2>3. QED
    BY <1>2, <2>1, <2>2
<1>6. CASE Finish
  <2>1. pc = "loop" /\ StepsLeft = ahead + 2 * (Slots + 1 - cursor) + 1
    BY <1>6 DEF Finish, StepsLeft
  <2>2. StepsLeft' \in Nat /\ StepsLeft' <= ahead
    BY <1>1, <1>6, ReturnShortens DEF Finish
  <2> HIDE DEF ahead
  <2>3. QED
    BY <1>2, <2>1, <2>2
<1>7. CASE Refuse \/ FinishUnreadable
  <2>1. pc' = "idle"
    BY <1>7 DEF Refuse, FinishUnreadable, Dies
  <2>2. QED
    BY <1>4, <2>1 DEF StepsLeft
<1>8. CASE LoadModel
  <2>1. pc = "open" /\ pc' = "loaded" /\ todo' = todo
    BY <1>8 DEF LoadModel
  <2>2. StepsLeft = ahead + 2 * Slots + 4 /\ StepsLeft' = ahead + 2 * Slots + 3
    BY <1>2, <2>1 DEF StepsLeft, PartSteps
  <2> HIDE DEF ahead
  <2>3. QED
    BY <1>2, <2>2
<1>9. CASE Capture
  <2>1. pc = "loaded" /\ pc' = "captured" /\ todo' = todo
    BY <1>9 DEF Capture
  <2>2. StepsLeft = ahead + 2 * Slots + 3 /\ StepsLeft' = ahead + 2 * Slots + 2
    BY <2>1 DEF StepsLeft, PartSteps
  <2> HIDE DEF ahead
  <2>3. QED
    BY <1>2, <2>2
<1>10. CASE Resume
  <2>1. pc = "captured" /\ pc' = "loop" /\ todo' = todo /\ cursor' = 1
    BY <1>10 DEF Resume
  <2>2. StepsLeft = ahead + 2 * Slots + 2 /\ StepsLeft' = ahead + 2 * (Slots + 1 - 1) + 1
    BY <2>1 DEF StepsLeft, PartSteps
  <2> HIDE DEF ahead
  <2>3. QED
    BY <1>2, <2>2
<1>11. CASE SkipSlot
  <2>1. pc = "loop" /\ pc' = "loop" /\ todo' = todo /\ cursor' = cursor + 1
    BY <1>11 DEF SkipSlot
  <2>2. /\ StepsLeft = ahead + 2 * (Slots + 1 - cursor) + 1
        /\ StepsLeft' = ahead + 2 * (Slots + 1 - (cursor + 1)) + 1
    BY <2>1 DEF StepsLeft, PartSteps
  <2> HIDE DEF ahead
  <2>3. QED
    BY <1>2, <2>2
<1>12. CASE RunTask
  <2>1. pc = "loop" /\ pc' = "ran" /\ todo' = todo /\ cursor' = cursor
    BY <1>12 DEF RunTask
  <2>2. /\ StepsLeft = ahead + 2 * (Slots + 1 - cursor) + 1
        /\ StepsLeft' = ahead + 2 * (Slots + 1 - cursor)
    BY <2>1 DEF StepsLeft, PartSteps
  <2> HIDE DEF ahead
  <2>3. QED
    BY <1>2, <2>2
<1>13. CASE AppendRecord
  <2>1. pc = "ran" /\ pc' = "loop" /\ todo' = todo /\ cursor' = cursor + 1
    BY <1>13 DEF AppendRecord
  <2>2. /\ StepsLeft = ahead + 2 * (Slots + 1 - cursor)
        /\ StepsLeft' = ahead + 2 * (Slots + 1 - (cursor + 1)) + 1
    BY <2>1 DEF StepsLeft, PartSteps
  <2> HIDE DEF ahead
  <2>3. QED
    BY <1>2, <2>2
<1>14. QED
  BY <1>5, <1>6, <1>7, <1>8, <1>9, <1>10, <1>11, <1>12, <1>13 DEF ProcessStep

\* Every command ends after at most PartSteps steps for each of its parts, whatever the
\* files hold and however many slots there are: a running process has steps left, each
\* step it takes leaves fewer, and nothing but another command adds to them.  Under the
\* fairness of Spec this is why commands return (the run's property CommandReturns).
THEOREM CommandsAreFinite ==
    Spec => [](StepsLeft \in Nat /\ (StepsLeft = 0 <=> pc = "idle")) /\ CommandShortens
<1>1. TypeOK => StepsLeft \in Nat /\ (StepsLeft = 0 <=> pc = "idle")
  BY StepsLeftIsNatural
<1>2. TypeOK => [/\ ProcessStep => StepsLeft' < StepsLeft
                 /\ BumpVersion \/ (\E c \in Cells : Archive(c)) => StepsLeft' = StepsLeft
                 /\ TearRecord \/ Die => StepsLeft' = 0]_vars
  <2> SUFFICES ASSUME TypeOK
               PROVE  /\ ProcessStep => StepsLeft' < StepsLeft
                      /\ BumpVersion \/ (\E c \in Cells : Archive(c)) => StepsLeft' = StepsLeft
                      /\ TearRecord \/ Die => StepsLeft' = 0
    OBVIOUS
  <2>1. ProcessStep => StepsLeft' < StepsLeft
    BY StepShortens
  <2>2. BumpVersion \/ (\E c \in Cells : Archive(c)) => StepsLeft' = StepsLeft
    BY DEF BumpVersion, Archive, process, StepsLeft, PartSteps
  <2>3. TearRecord \/ Die => StepsLeft' = 0
    BY DEF TearRecord, Die, Dies, StepsLeft
  <2>4. QED
    BY <2>1, <2>2, <2>3
<1>3. QED
  BY <1>1, <1>2, TypeCorrect, PTL DEF Spec, CommandShortens
=============================================================================
