-------------------------- MODULE RunWorkspaceProofs --------------------------
(***************************************************************************)
(* Safety of RunWorkspace for any number of runs, of either driver and     *)
(* check, whatever their commands put in the background.                   *)
(***************************************************************************)
EXTENDS RunWorkspace, TLAPS

-----------------------------------------------------------------------------
(***************************************************************************)
(* The invariant, run by run.  That a live directory is whole rests on no  *)
(* live directory being old; that the grades agree, on nobody writing      *)
(* between them, and so on what a call's end leaves alive: of a leader     *)
(* alive at the limit the group is killed, of one that had exited nobody   *)
(* can put more in it, and whatever is left of either is accounted for.    *)
(***************************************************************************)
Directory(r) ==
    /\ pc[r] = "idle" => dir[r] = NoDir
    /\ pc[r] \in {"made", "copied"} \cup InUse \cup {"cleaning", "removing"} => dir[r].there
    /\ pc[r] \notin {"done", "dead"} => ~dir[r].old
    /\ pc[r] \in InUse => dir[r].mode = "sealed" /\ dir[r].tree # "empty"
    /\ pc[r] = "copied" => dir[r].tree # "empty"
    /\ pc[r] = "removing" => dir[r].mode = "mutable"
    /\ pc[r] = "done" /\ ~escaped[r] /\ dir[r].there => dir[r].locked

Idle(r) == ~leader[r] /\ alive[r] = {}

Processes(r) ==
    /\ pc[r] \notin {"command", "draining"} => Idle(r)
    /\ pc[r] = "draining" => ~leader[r] /\ (alive[r] # {} => escaped[r])
    /\ pc[r] \in {"idle", "made", "copied"} => ~survivors[r]
    /\ pc[r] # "dead" /\ ~escaped[r] => ~survivors[r]

Grades(r) ==
    /\ pc[r] \in {"idle", "made", "copied", "driving", "command", "draining", "answered"} =>
          verdict[r] = "none"
    /\ pc[r] \in InUse \cup {"idle", "made", "copied"} => breakdown[r] = "none"
    /\ pc[r] \in {"checked", "cleaning"} /\ ~escaped[r] /\ verdict[r] = "passed" =>
          dir[r].tree = "right"
    /\ pc[r] = "checked" /\ ~escaped[r] => verdict[r] = "passed" \/ dir[r].tree # "right"
    /\ breakdown[r] # "none" /\ ~escaped[r] =>
          (verdict[r] = "passed") = (breakdown[r] = "held")

Sound(r) == Directory(r) /\ Processes(r) /\ Grades(r)

Inv == TypeOK /\ \A r \in Runs : Sound(r)

\* What one run's step leaves alone: everything of the other runs.
Untouched(s) ==
    /\ dir'[s] = dir[s] /\ pc'[s] = pc[s] /\ call'[s] = call[s]
    /\ leader'[s] = leader[s] /\ alive'[s] = alive[s] /\ survivors'[s] = survivors[s]
    /\ escaped'[s] = escaped[s] /\ verdict'[s] = verdict[s] /\ breakdown'[s] = breakdown[s]

LEMMA OneRunsStep ==
    ASSUME Inv, NEW r \in Runs, TypeOK', Sound(r)',
           \A s \in Runs \ {r} : Untouched(s)
    PROVE  Inv'
<1> SUFFICES ASSUME NEW s \in Runs, s # r PROVE Sound(s)'
  BY DEF Inv
<1>1. Sound(s) /\ Untouched(s)
  BY DEF Inv
<1>2. Directory(s)' /\ Processes(s)' /\ Grades(s)'
  BY <1>1 DEF Sound, Untouched, Directory, Processes, Grades, Idle
<1>3. QED
  BY <1>2 DEF Sound

LEMMA DirsUpdated ==
    ASSUME NEW d \in Dirs
    PROVE  /\ [d EXCEPT !.there = TRUE] \in Dirs /\ [d EXCEPT !.old = TRUE] \in Dirs
           /\ \A m \in {"mutable", "sealed"} : [d EXCEPT !.mode = m] \in Dirs
           /\ \A b \in BOOLEAN : [d EXCEPT !.locked = b] \in Dirs
           /\ \A t \in {"empty", "fixture", "right", "wrong"} : [d EXCEPT !.tree = t] \in Dirs
           /\ NoDir \in Dirs
  BY DEF Dirs, NoDir

\* What rmtree leaves; of a directory that can be emptied and that no process of the
\* run writes in, nothing, unless the agent made a directory in it unwritable.
LEMMA RmtreeLeaves ==
    ASSUME TypeOK, NEW r \in Runs, NEW d \in Rmtree(r)
    PROVE  /\ d \in Dirs
           /\ dir[r].mode = "mutable" /\ ~Writers(r) => d = NoDir \/ d.locked
           /\ dir[r].locked => d.locked
<1>1. dir[r] \in Dirs
  BY DEF TypeOK
<1>2. d \in {NoDir, [dir[r] EXCEPT !.tree = "empty"], [dir[r] EXCEPT !.tree = "wrong"]}
  BY DEF Rmtree
<1>3. d \in Dirs
  BY <1>1, <1>2, DirsUpdated
<1>4. dir[r].locked => d = [dir[r] EXCEPT !.tree = "wrong"]
  BY DEF Rmtree
<1>5. dir[r].locked => d.locked
  BY <1>1, <1>4 DEF Dirs
<1>6. dir[r].mode = "mutable" /\ ~Writers(r) /\ ~dir[r].locked => d = NoDir
  BY DEF Rmtree
<1>7. QED
  BY <1>3, <1>5, <1>6

LEMMA InitInv == Init => Inv
<1> SUFFICES ASSUME Init PROVE Inv
  OBVIOUS
<1>1. NoDir \in Dirs
  BY DEF NoDir, Dirs
<1>2. TypeOK
  BY <1>1 DEF Init, TypeOK
<1>3. \A r \in Runs : Sound(r)
  BY DEF Init, Sound, Directory, Processes, Grades, Idle, NoDir, InUse
<1>4. QED
  BY <1>2, <1>3 DEF Inv

-----------------------------------------------------------------------------
(* Preparing the directory.                                                *)

LEMMA MakeDirectoryKeeps == ASSUME Inv, NEW r \in Runs, MakeDirectory(r) PROVE Inv'
<1>1. TypeOK'
  <2>1. dir' \in [Runs -> Dirs]
    BY DirsUpdated DEF MakeDirectory, Goto, Inv, TypeOK
  <2>2. QED
    BY <2>1 DEF MakeDirectory, Goto, Inv, TypeOK, InUse, processes, grades, sweeper
<1>2. Sound(r)'
  <2>1. Directory(r)'
    BY DEF MakeDirectory, Goto, Inv, TypeOK, Sound, Directory, Processes, InUse, Dirs,
           NoDir, processes, grades, sweeper
  <2>2. Processes(r)'
    BY DEF MakeDirectory, Goto, Inv, TypeOK, Sound, Directory, Processes, Idle, InUse,
           processes, grades, sweeper
  <2>3. Grades(r)'
    BY DEF MakeDirectory, Goto, Inv, TypeOK, Sound, Directory, Processes, Grades, Idle,
           InUse, Dirs, NoDir, processes, grades, sweeper
  <2>4. QED
    BY <2>1, <2>2, <2>3 DEF Sound
<1>3. \A s \in Runs \ {r} : Untouched(s)
  BY DEF MakeDirectory, Goto, Inv, TypeOK, Untouched, processes, grades, sweeper
<1>4. QED
  BY <1>1, <1>2, <1>3, OneRunsStep

LEMMA CopyFixtureKeeps == ASSUME Inv, NEW r \in Runs, CopyFixture(r) PROVE Inv'
<1>1. TypeOK'
  <2>1. dir' \in [Runs -> Dirs]
    BY DirsUpdated DEF CopyFixture, Goto, Inv, TypeOK
  <2>2. QED
    BY <2>1 DEF CopyFixture, Goto, Inv, TypeOK, InUse, processes, grades, sweeper
<1>2. Sound(r)'
  <2>1. Directory(r)'
    BY DEF CopyFixture, Goto, Inv, TypeOK, Sound, Directory, Processes, InUse, Dirs,
           NoDir, processes, grades, sweeper
  <2>2. Processes(r)'
    BY DEF CopyFixture, Goto, Inv, TypeOK, Sound, Directory, Processes, Idle, InUse,
           processes, grades, sweeper
  <2>3. Grades(r)'
    BY DEF CopyFixture, Goto, Inv, TypeOK, Sound, Directory, Processes, Grades, Idle,
           InUse, Dirs, NoDir, processes, grades, sweeper
  <2>4. QED
    BY <2>1, <2>2, <2>3 DEF Sound
<1>3. \A s \in Runs \ {r} : Untouched(s)
  BY DEF CopyFixture, Goto, Inv, TypeOK, Untouched, processes, grades, sweeper
<1>4. QED
  BY <1>1, <1>2, <1>3, OneRunsStep

LEMMA SealKeeps == ASSUME Inv, NEW r \in Runs, Seal(r) PROVE Inv'
<1>1. TypeOK'
  <2>1. dir' \in [Runs -> Dirs]
    BY DirsUpdated DEF Seal, Goto, WorkdirSealed, Inv, TypeOK
  <2>2. QED
    BY <2>1 DEF Seal, Goto, WorkdirSealed, Inv, TypeOK, InUse, processes, grades,
           sweeper
<1>2. Sound(r)'
  <2>1. Directory(r)'
    BY DEF Seal, Goto, WorkdirSealed, Inv, TypeOK, Sound, Directory, Processes, InUse,
           Dirs, NoDir, processes, grades, sweeper
  <2>2. Processes(r)'
    BY DEF Seal, Goto, WorkdirSealed, Inv, TypeOK, Sound, Directory, Processes, Idle,
           InUse, processes, grades, sweeper
  <2>3. Grades(r)'
    BY DEF Seal, Goto, WorkdirSealed, Inv, TypeOK, Sound, Directory, Processes, Grades,
           Idle, InUse, Dirs, NoDir, processes, grades, sweeper
  <2>4. QED
    BY <2>1, <2>2, <2>3 DEF Sound
<1>3. \A s \in Runs \ {r} : Untouched(s)
  BY DEF Seal, Goto, WorkdirSealed, Inv, TypeOK, Untouched, processes, grades, sweeper
<1>4. QED
  BY <1>1, <1>2, <1>3, OneRunsStep

-----------------------------------------------------------------------------
(* The driver and its commands.                                            *)

\* Nobody writes while a run is graded unless a process got away from its call.
LEMMA WriteKeeps == ASSUME Inv, NEW r \in Runs, Write(r) PROVE Inv'
<1>1. TypeOK'
  <2>1. PICK t \in {"right", "wrong"} : dir' = [dir EXCEPT ![r].tree = t]
    BY DEF Write
  <2>2. dir[r] \in Dirs /\ [dir[r] EXCEPT !.tree = t] \in Dirs
    BY DirsUpdated DEF Inv, TypeOK
  <2>3. dir' \in [Runs -> Dirs]
    BY <2>1, <2>2 DEF Inv, TypeOK
  <2>4. QED
    BY <2>3 DEF Write, Inv, TypeOK, harness, processes, grades, sweeper
<1>2. Sound(r)'
  <2>1. Directory(r)'
    BY DEF Write, Writers, Inv, TypeOK, Sound, Directory, Processes, InUse, Dirs, NoDir,
           harness, processes, grades, sweeper
  <2>2. Processes(r)'
    BY DEF Write, Writers, Inv, TypeOK, Sound, Processes, Idle, InUse, harness,
           processes, grades, sweeper
  <2>3. Grades(r)'
    BY DEF Write, Writers, Inv, TypeOK, Sound, Directory, Processes, Grades, Idle,
           InUse, Dirs, harness, processes, grades, sweeper
  <2>4. QED
    BY <2>1, <2>2, <2>3 DEF Sound
<1>3. \A s \in Runs \ {r} : Untouched(s)
  BY DEF Write, Writers, Inv, TypeOK, Untouched, harness, processes, grades, sweeper
<1>4. QED
  BY <1>1, <1>2, <1>3, OneRunsStep

LEMMA ChmodKeeps == ASSUME Inv, NEW r \in Runs, Chmod(r) PROVE Inv'
<1>1. dir' = [dir EXCEPT ![r] = [dir[r] EXCEPT !.locked = ~dir[r].locked]]
  BY DEF Chmod
<1>2. dir[r] \in Dirs /\ (~dir[r].locked) \in BOOLEAN
  BY DEF Inv, TypeOK, Dirs
<1>3. TypeOK'
  <2>1. dir' \in [Runs -> Dirs]
    BY <1>1, <1>2, DirsUpdated DEF Inv, TypeOK
  <2>2. QED
    BY <2>1 DEF Chmod, Inv, TypeOK, harness, processes, grades, sweeper
<1>4. Sound(r)'
  <2>1. /\ dir'[r].there = dir[r].there /\ dir'[r].mode = dir[r].mode
        /\ dir'[r].tree = dir[r].tree /\ dir'[r].old = dir[r].old
    BY <1>1, <1>2 DEF Inv, TypeOK, Dirs
  <2>2. pc[r] # "idle" /\ (pc[r] = "done" => escaped[r])
    BY DEF Chmod, Writers, Inv, Sound, Processes, Idle
  <2>3. QED
    BY <2>1, <2>2 DEF Chmod, Inv, TypeOK, Sound, Directory, Processes, Grades, Idle, InUse,
                      harness, processes, grades, sweeper
<1>5. \A s \in Runs \ {r} : Untouched(s)
  BY <1>1 DEF Chmod, Inv, TypeOK, Untouched, harness, processes, grades, sweeper
<1>6. QED
  BY <1>3, <1>4, <1>5, OneRunsStep

LEMMA RunCommandKeeps == ASSUME Inv, NEW r \in Runs, RunCommand(r) PROVE Inv'
<1>1. TypeOK'
  BY DEF RunCommand, Goto, Popen, Inv, TypeOK, InUse, harness, processes, grades,
         sweeper
<1>2. Sound(r)'
  <2>1. Directory(r)'
    BY DEF RunCommand, Goto, Popen, Inv, TypeOK, Sound, Directory, Processes, InUse,
           Dirs, NoDir, harness, processes, grades, sweeper
  <2>2. Processes(r)'
    BY DEF RunCommand, Goto, Popen, Inv, TypeOK, Sound, Directory, Processes, Idle,
           InUse, harness, processes, grades, sweeper
  <2>3. Grades(r)'
    BY DEF RunCommand, Goto, Popen, Inv, TypeOK, Sound, Directory, Processes, Grades,
           Idle, InUse, Dirs, NoDir, harness, processes, grades, sweeper
  <2>4. QED
    BY <2>1, <2>2, <2>3 DEF Sound
<1>3. \A s \in Runs \ {r} : Untouched(s)
  BY DEF RunCommand, Goto, Popen, Inv, TypeOK, Untouched, harness, processes, grades,
         sweeper
<1>4. QED
  BY <1>1, <1>2, <1>3, OneRunsStep

LEMMA SpawnKeeps == ASSUME Inv, NEW r \in Runs, Spawn(r) PROVE Inv'
<1>1. TypeOK'
  BY DEF Spawn, Goto, Popen, Inv, TypeOK, InUse, harness, processes, grades, sweeper
<1>2. Sound(r)'
  <2>1. Directory(r)'
    BY DEF Spawn, Goto, Popen, Inv, TypeOK, Sound, Directory, Processes, InUse, Dirs,
           NoDir, harness, processes, grades, sweeper
  <2>2. Processes(r)'
    BY DEF Spawn, Goto, Popen, Inv, TypeOK, Sound, Directory, Processes, Idle, InUse,
           harness, processes, grades, sweeper
  <2>3. Grades(r)'
    BY DEF Spawn, Goto, Popen, Inv, TypeOK, Sound, Directory, Processes, Grades, Idle,
           InUse, Dirs, NoDir, harness, processes, grades, sweeper
  <2>4. QED
    BY <2>1, <2>2, <2>3 DEF Sound
<1>3. \A s \in Runs \ {r} : Untouched(s)
  BY DEF Spawn, Goto, Popen, Inv, TypeOK, Untouched, harness, processes, grades,
         sweeper
<1>4. QED
  BY <1>1, <1>2, <1>3, OneRunsStep

LEMMA ForkKeeps == ASSUME Inv, NEW r \in Runs, Fork(r) PROVE Inv'
<1>1. TypeOK'
  <2>1. alive' \in [Runs -> SUBSET Kinds]
    <3>1. Background[r] \subseteq Kinds
      BY WorkspaceAssumption
    <3>2. QED
      BY <3>1 DEF Fork, Inv, TypeOK
  <2>2. \A s \in Runs : pc[s] \notin {"command", "draining"} => alive'[s] = {}
    BY DEF Fork, Inv, TypeOK
  <2>3. QED
    BY <2>1, <2>2 DEF Fork, Inv, TypeOK, harness, grades, sweeper
<1>2. Sound(r)'
  <2>1. Directory(r)'
    BY DEF Fork, Inv, TypeOK, Sound, Directory, Processes, InUse, Dirs, NoDir, harness,
           grades, sweeper
  <2>2. Processes(r)'
    BY DEF Fork, Inv, TypeOK, Sound, Directory, Processes, Idle, InUse, harness, grades,
           sweeper
  <2>3. Grades(r)'
    BY DEF Fork, Inv, TypeOK, Sound, Directory, Processes, Grades, Idle, InUse, Dirs,
           NoDir, harness, grades, sweeper
  <2>4. QED
    BY <2>1, <2>2, <2>3 DEF Sound
<1>3. \A s \in Runs \ {r} : Untouched(s)
  BY DEF Fork, Inv, TypeOK, Untouched, harness, grades, sweeper
<1>4. QED
  BY <1>1, <1>2, <1>3, OneRunsStep

LEMMA ProcessExitsKeeps == ASSUME Inv, NEW r \in Runs, ProcessExits(r) PROVE Inv'
<1>1. TypeOK'
  <2>1. /\ leader' \in [Runs -> BOOLEAN] /\ survivors' \in [Runs -> BOOLEAN]
        /\ alive' \in [Runs -> SUBSET Kinds]
    <3>1. CASE leader[r] /\ leader' = [leader EXCEPT ![r] = FALSE]
                /\ UNCHANGED <<alive, survivors>>
      BY <3>1 DEF Inv, TypeOK
    <3>2. CASE \E k \in alive[r] : alive' = [alive EXCEPT ![r] = @ \ {k}]
                /\ UNCHANGED <<leader, survivors>>
      BY <3>2 DEF Inv, TypeOK
    <3>3. CASE survivors[r] /\ survivors' = [survivors EXCEPT ![r] = FALSE]
                /\ UNCHANGED <<leader, alive>>
      BY <3>3 DEF Inv, TypeOK
    <3>4. QED
      BY <3>1, <3>2, <3>3 DEF ProcessExits
  <2>2. \A s \in Runs : pc[s] \notin {"command", "draining"} => ~leader'[s] /\ alive'[s] = {}
    BY DEF ProcessExits, Inv, TypeOK
  <2>3. QED
    BY <2>1, <2>2 DEF ProcessExits, Inv, TypeOK, harness, grades, sweeper
<1>2. Sound(r)'
  <2>1. Directory(r)'
    BY DEF ProcessExits, Inv, TypeOK, Sound, Directory, Processes, InUse, Dirs, NoDir,
           harness, grades, sweeper
  <2>2. Processes(r)'
    BY DEF ProcessExits, Inv, TypeOK, Sound, Processes, Idle, InUse, harness, grades,
           sweeper
  <2>3. Grades(r)'
    BY DEF ProcessExits, Inv, TypeOK, Sound, Directory, Processes, Grades, Idle, InUse,
           Dirs, harness, grades, sweeper
  <2>4. QED
    BY <2>1, <2>2, <2>3 DEF Sound
<1>3. \A s \in Runs \ {r} : Untouched(s)
  BY DEF ProcessExits, Inv, TypeOK, Untouched, harness, grades, sweeper
<1>4. QED
  BY <1>1, <1>2, <1>3, OneRunsStep

LEMMA ReturnInTimeKeeps == ASSUME Inv, NEW r \in Runs, ReturnInTime(r) PROVE Inv'
<1>1. TypeOK'
  <2>1. /\ pc' \in [Runs -> InUse \cup {"idle", "made", "copied", "cleaning",
                                       "removing", "done", "dead"}]
        /\ call' \in [Runs -> {"none", "run", "spawn", "pytest"}]
        /\ alive' \in [Runs -> SUBSET Kinds]
BY DEF ReturnInTime, Goto, Escape, CallOver, Resumes, Communicated, Inv, TypeOK, InUse
  <2>2. /\ leader' \in [Runs -> BOOLEAN] /\ survivors' \in [Runs -> BOOLEAN]
        /\ escaped' \in [Runs -> BOOLEAN]
BY DEF ReturnInTime, Goto, Escape, CallOver, Resumes, Communicated, Inv, TypeOK
  <2>3. /\ verdict' \in [Runs -> {"none", "passed", "failed"}]
        /\ UNCHANGED <<dir, breakdown, sweep, counted>>
BY DEF ReturnInTime, Goto, Escape, CallOver, Resumes, Communicated, Inv, TypeOK, grades,
           sweeper
  <2>4. \A s \in Runs : pc'[s] \notin {"command", "draining"} =>
           ~leader'[s] /\ alive'[s] = {} /\ call'[s] = "none"
BY DEF ReturnInTime, Goto, Escape, CallOver, Resumes, Communicated, Inv, TypeOK
  <2>5. QED
    BY <2>1, <2>2, <2>3, <2>4 DEF Inv, TypeOK
<1>2. Sound(r)'
  <2>1. Directory(r)'
    BY DEF ReturnInTime, Goto, Escape, CallOver, Resumes, Communicated, Inv, TypeOK, Sound,
           Directory, Processes, InUse, Dirs, NoDir, grades, sweeper
  <2>2. Processes(r)'
    BY DEF ReturnInTime, Goto, Escape, CallOver, Resumes, Communicated, Inv, TypeOK, Sound,
           Processes, Idle, InUse, grades, sweeper
  <2>3. Grades(r)'
    BY DEF ReturnInTime, Goto, Escape, CallOver, Resumes, Communicated, Inv, TypeOK, Sound,
           Directory, Processes, Grades, Idle, InUse, Dirs, grades, sweeper
  <2>4. QED
    BY <2>1, <2>2, <2>3 DEF Sound
<1>3. \A s \in Runs \ {r} : Untouched(s)
  BY DEF ReturnInTime, Goto, Escape, CallOver, Resumes, Communicated, Inv, TypeOK, Untouched,
         grades, sweeper
<1>4. QED
  BY <1>1, <1>2, <1>3, OneRunsStep

\* What the kill spares of a call is accounted for.
LEMMA KillSpares ==
    ASSUME Inv, NEW r \in Runs, NEW left \in KillGroup(r)
    PROVE  left \subseteq Kinds /\ Outlives(r, left) = left
<1>1. left \subseteq alive[r] /\ (leader[r] => \A k \in left : ~k.group)
  BY DEF KillGroup
<1>2. QED
  BY <1>1 DEF Outlives, Inv, TypeOK

LEMMA TimeOutKeeps == ASSUME Inv, NEW r \in Runs, TimeOut(r) PROVE Inv'
<1>1. PICK left \in KillGroup(r) :
         /\ Escape(r, Outlives(r, left))
         /\ \/ /\ call[r] # "spawn"
               /\ CallOver(r, left)
               /\ Resumes(r, TRUE)
            \/ /\ call[r] = "spawn"
               /\ leader' = [leader EXCEPT ![r] = FALSE]
               /\ alive' = [alive EXCEPT ![r] = left]
               /\ Goto(r, "draining")
               /\ UNCHANGED <<call, survivors, grades, sweeper>>
  BY DEF TimeOut
<1>2. left \subseteq Kinds /\ pc[r] = "command" /\ UNCHANGED dir
  BY KillSpares DEF TimeOut
<1>3. escaped' = [escaped EXCEPT ![r] = @ \/ left # {}]
  BY <1>1, KillSpares DEF Escape
<1>4. CASE call[r] # "spawn"
  <2>0. CallOver(r, left) /\ Resumes(r, TRUE)
    BY <1>1, <1>4
  <2>1. /\ leader' \in [Runs -> BOOLEAN] /\ survivors' \in [Runs -> BOOLEAN]
        /\ escaped' \in [Runs -> BOOLEAN]
    <3>1. leader' \in [Runs -> BOOLEAN]
      BY <2>0 DEF CallOver, Inv, TypeOK
    <3>2. survivors' \in [Runs -> BOOLEAN]
      BY <2>0 DEF CallOver, Inv, TypeOK
    <3>3. escaped' \in [Runs -> BOOLEAN]
      BY <1>3 DEF Inv, TypeOK
    <3>4. QED
      BY <3>1, <3>2, <3>3
  <2>2. /\ pc' \in [Runs -> InUse \cup {"idle", "made", "copied", "cleaning",
                                       "removing", "done", "dead"}]
        /\ call' \in [Runs -> {"none", "run", "spawn", "pytest"}]
        /\ alive' \in [Runs -> SUBSET Kinds]
    BY <1>4, <2>0 DEF CallOver, Resumes, Goto, Inv, TypeOK, InUse
  <2>3. /\ verdict' \in [Runs -> {"none", "passed", "failed"}]
        /\ UNCHANGED <<breakdown, sweep, counted>>
    BY <2>0 DEF CallOver, Resumes, Inv, TypeOK, grades, sweeper
  <2>4. \A s \in Runs : pc'[s] \notin {"command", "draining"} =>
           ~leader'[s] /\ alive'[s] = {} /\ call'[s] = "none"
    BY <2>0 DEF CallOver, Resumes, Goto, Inv, TypeOK
  <2>5. TypeOK'
    BY <1>2, <2>1, <2>2, <2>3, <2>4 DEF Inv, TypeOK
  <2>6. Directory(r)'
    BY <1>2, <1>3, <2>0 DEF CallOver, Resumes, Goto, Inv, TypeOK, Sound, Directory, InUse
  <2>7. Processes(r)'
    BY <1>2, <1>3, <2>0 DEF CallOver, Resumes, Goto, Inv, TypeOK, Sound, Processes, Idle
  <2>8. Grades(r)'
    BY <1>2, <1>3, <2>0 DEF CallOver, Resumes, Goto, Inv, TypeOK, Sound, Directory, Grades,
                            InUse, Dirs, grades
  <2>9. \A s \in Runs \ {r} : Untouched(s)
    BY <1>2, <1>3, <2>0 DEF CallOver, Resumes, Goto, Inv, TypeOK, Untouched, grades
  <2>10. QED
    BY <2>5, <2>6, <2>7, <2>8, <2>9, OneRunsStep DEF Sound
<1>5. CASE call[r] = "spawn"
  <2>1. /\ leader' = [leader EXCEPT ![r] = FALSE] /\ alive' = [alive EXCEPT ![r] = left]
        /\ pc' = [pc EXCEPT ![r] = "draining"]
        /\ UNCHANGED <<call, survivors, grades, sweeper>>
    BY <1>1, <1>5 DEF Goto
  <2>2. TypeOK'
    BY <1>2, <1>3, <2>1 DEF Inv, TypeOK, InUse, grades, sweeper
  <2>3. Sound(r)'
    <3>1. Directory(r)'
      BY <1>2, <2>1 DEF Inv, TypeOK, Sound, Directory, InUse
    <3>2. Processes(r)'
      BY <1>2, <1>3, <2>1 DEF Inv, TypeOK, Sound, Processes, Idle
    <3>3. Grades(r)'
      BY <1>2, <2>1 DEF Inv, TypeOK, Sound, Grades, InUse, grades
    <3>4. QED
      BY <3>1, <3>2, <3>3 DEF Sound
  <2>4. \A s \in Runs \ {r} : Untouched(s)
    BY <1>2, <1>3, <2>1 DEF Inv, TypeOK, Untouched, grades
  <2>5. QED
    BY <2>2, <2>3, <2>4, OneRunsStep
<1>6. QED
  BY <1>4, <1>5

LEMMA DrainedKeeps == ASSUME Inv, NEW r \in Runs, Drained(r) PROVE Inv'
<1>1. TypeOK'
  <2>1. /\ pc' \in [Runs -> InUse \cup {"idle", "made", "copied", "cleaning",
                                       "removing", "done", "dead"}]
        /\ call' \in [Runs -> {"none", "run", "spawn", "pytest"}]
        /\ alive' \in [Runs -> SUBSET Kinds]
BY DEF Drained, Goto, Escape, CallOver, Resumes, Communicated, Inv, TypeOK, InUse
  <2>2. /\ leader' \in [Runs -> BOOLEAN] /\ survivors' \in [Runs -> BOOLEAN]
        /\ escaped' \in [Runs -> BOOLEAN]
BY DEF Drained, Goto, Escape, CallOver, Resumes, Communicated, Inv, TypeOK
  <2>3. /\ verdict' \in [Runs -> {"none", "passed", "failed"}]
        /\ UNCHANGED <<dir, breakdown, sweep, counted>>
BY DEF Drained, Goto, Escape, CallOver, Resumes, Communicated, Inv, TypeOK, grades, sweeper
  <2>4. \A s \in Runs : pc'[s] \notin {"command", "draining"} =>
           ~leader'[s] /\ alive'[s] = {} /\ call'[s] = "none"
BY DEF Drained, Goto, Escape, CallOver, Resumes, Communicated, Inv, TypeOK
  <2>5. QED
    BY <2>1, <2>2, <2>3, <2>4 DEF Inv, TypeOK
<1>2. Sound(r)'
  <2>1. Directory(r)'
    BY DEF Drained, Goto, Escape, CallOver, Resumes, Communicated, Inv, TypeOK, Sound,
           Directory, Processes, InUse, Dirs, NoDir, grades, sweeper
  <2>2. Processes(r)'
    BY DEF Drained, Goto, Escape, CallOver, Resumes, Communicated, Inv, TypeOK, Sound,
           Processes, Idle, InUse, grades, sweeper
  <2>3. Grades(r)'
    BY DEF Drained, Goto, Escape, CallOver, Resumes, Communicated, Inv, TypeOK, Sound,
           Directory, Processes, Grades, Idle, InUse, Dirs, grades, sweeper
  <2>4. QED
    BY <2>1, <2>2, <2>3 DEF Sound
<1>3. \A s \in Runs \ {r} : Untouched(s)
  BY DEF Drained, Goto, Escape, CallOver, Resumes, Communicated, Inv, TypeOK, Untouched,
         grades, sweeper
<1>4. QED
  BY <1>1, <1>2, <1>3, OneRunsStep

LEMMA AnswerKeeps == ASSUME Inv, NEW r \in Runs, Answer(r) PROVE Inv'
<1>1. TypeOK'
  BY DEF Answer, Goto, Inv, TypeOK, InUse, harness, processes, grades, sweeper
<1>2. Sound(r)'
  <2>1. Directory(r)'
    BY DEF Answer, Goto, Inv, TypeOK, Sound, Directory, Processes, InUse, Dirs, NoDir,
           harness, processes, grades, sweeper
  <2>2. Processes(r)'
    BY DEF Answer, Goto, Inv, TypeOK, Sound, Directory, Processes, Idle, InUse, harness,
           processes, grades, sweeper
  <2>3. Grades(r)'
    BY DEF Answer, Goto, Inv, TypeOK, Sound, Directory, Processes, Grades, Idle, InUse,
           Dirs, NoDir, harness, processes, grades, sweeper
  <2>4. QED
    BY <2>1, <2>2, <2>3 DEF Sound
<1>3. \A s \in Runs \ {r} : Untouched(s)
  BY DEF Answer, Goto, Inv, TypeOK, Untouched, harness, processes, grades, sweeper
<1>4. QED
  BY <1>1, <1>2, <1>3, OneRunsStep

-----------------------------------------------------------------------------
(* Grading, and the end of a run.                                          *)

LEMMA CheckByTestsKeeps == ASSUME Inv, NEW r \in Runs, CheckByTests(r) PROVE Inv'
<1>1. TypeOK'
  BY DEF CheckByTests, Goto, Popen, Inv, TypeOK, InUse, harness, processes, grades,
         sweeper
<1>2. Sound(r)'
  <2>1. Directory(r)'
    BY DEF CheckByTests, Goto, Popen, Inv, TypeOK, Sound, Directory, Processes, InUse,
           Dirs, NoDir, harness, processes, grades, sweeper
  <2>2. Processes(r)'
    BY DEF CheckByTests, Goto, Popen, Inv, TypeOK, Sound, Directory, Processes, Idle,
           InUse, harness, processes, grades, sweeper
  <2>3. Grades(r)'
    BY DEF CheckByTests, Goto, Popen, Inv, TypeOK, Sound, Directory, Processes, Grades,
           Idle, InUse, Dirs, NoDir, harness, processes, grades, sweeper
  <2>4. QED
    BY <2>1, <2>2, <2>3 DEF Sound
<1>3. \A s \in Runs \ {r} : Untouched(s)
  BY DEF CheckByTests, Goto, Popen, Inv, TypeOK, Untouched, harness, processes,
         grades, sweeper
<1>4. QED
  BY <1>1, <1>2, <1>3, OneRunsStep

LEMMA CheckKeeps == ASSUME Inv, NEW r \in Runs, Check(r) PROVE Inv'
<1>1. TypeOK'
  BY DEF Check, Goto, Inv, TypeOK, InUse, harness, processes, grades, sweeper
<1>2. Sound(r)'
  <2>1. Directory(r)'
    BY DEF Check, Goto, Inv, TypeOK, Sound, Directory, Processes, InUse, Dirs, NoDir,
           harness, processes, grades, sweeper
  <2>2. Processes(r)'
    BY DEF Check, Goto, Inv, TypeOK, Sound, Directory, Processes, Idle, InUse, harness,
           processes, grades, sweeper
  <2>3. Grades(r)'
    BY DEF Check, Goto, Inv, TypeOK, Sound, Directory, Processes, Grades, Idle, InUse,
           Dirs, NoDir, harness, processes, grades, sweeper
  <2>4. QED
    BY <2>1, <2>2, <2>3 DEF Sound
<1>3. \A s \in Runs \ {r} : Untouched(s)
  BY DEF Check, Goto, Inv, TypeOK, Untouched, harness, processes, grades, sweeper
<1>4. QED
  BY <1>1, <1>2, <1>3, OneRunsStep

LEMMA ConditionsKeeps == ASSUME Inv, NEW r \in Runs, Conditions(r) PROVE Inv'
<1>1. TypeOK'
  BY DEF Conditions, Goto, Inv, TypeOK, InUse, harness, processes, grades, sweeper
<1>2. Sound(r)'
  <2>1. Directory(r)'
    BY DEF Conditions, Goto, Inv, TypeOK, Sound, Directory, Processes, InUse, Dirs,
           NoDir, harness, processes, grades, sweeper
  <2>2. Processes(r)'
    BY DEF Conditions, Goto, Inv, TypeOK, Sound, Directory, Processes, Idle, InUse,
           harness, processes, grades, sweeper
  <2>3. Grades(r)'
    BY DEF Conditions, Goto, Inv, TypeOK, Sound, Directory, Processes, Grades, Idle,
           InUse, Dirs, NoDir, harness, processes, grades, sweeper
  <2>4. QED
    BY <2>1, <2>2, <2>3 DEF Sound
<1>3. \A s \in Runs \ {r} : Untouched(s)
  BY DEF Conditions, Goto, Inv, TypeOK, Untouched, harness, processes, grades, sweeper
<1>4. QED
  BY <1>1, <1>2, <1>3, OneRunsStep

LEMMA RaiseKeeps == ASSUME Inv, NEW r \in Runs, Raise(r) PROVE Inv'
<1>1. TypeOK'
  BY DEF Raise, Goto, Writers, Inv, TypeOK, InUse, harness, processes, grades, sweeper
<1>2. Sound(r)'
  <2>1. Directory(r)'
    BY DEF Raise, Goto, Writers, Inv, TypeOK, Sound, Directory, Processes, InUse, Dirs,
           NoDir, harness, processes, grades, sweeper
  <2>2. Processes(r)'
    BY DEF Raise, Goto, Writers, Inv, TypeOK, Sound, Directory, Processes, Idle, InUse,
           harness, processes, grades, sweeper
  <2>3. Grades(r)'
    BY DEF Raise, Goto, Writers, Inv, TypeOK, Sound, Directory, Processes, Grades, Idle,
           InUse, Dirs, NoDir, harness, processes, grades, sweeper
  <2>4. QED
    BY <2>1, <2>2, <2>3 DEF Sound
<1>3. \A s \in Runs \ {r} : Untouched(s)
  BY DEF Raise, Goto, Writers, Inv, TypeOK, Untouched, harness, processes, grades,
         sweeper
<1>4. QED
  BY <1>1, <1>2, <1>3, OneRunsStep

LEMMA UnsealKeeps == ASSUME Inv, NEW r \in Runs, Unseal(r) PROVE Inv'
<1>1. TypeOK'
  <2>1. dir' \in [Runs -> Dirs]
    BY DirsUpdated DEF Unseal, Goto, WorkdirMutable, Inv, TypeOK
  <2>2. QED
    BY <2>1 DEF Unseal, Goto, WorkdirMutable, Inv, TypeOK, InUse, harness, processes,
           grades, sweeper
<1>2. Sound(r)'
  <2>1. Directory(r)'
    BY DEF Unseal, Goto, WorkdirMutable, Inv, TypeOK, Sound, Directory, Processes,
           InUse, Dirs, NoDir, harness, processes, grades, sweeper
  <2>2. Processes(r)'
    BY DEF Unseal, Goto, WorkdirMutable, Inv, TypeOK, Sound, Directory, Processes, Idle,
           InUse, harness, processes, grades, sweeper
  <2>3. Grades(r)'
    BY DEF Unseal, Goto, WorkdirMutable, Inv, TypeOK, Sound, Directory, Processes,
           Grades, Idle, InUse, Dirs, NoDir, harness, processes, grades, sweeper
  <2>4. QED
    BY <2>1, <2>2, <2>3 DEF Sound
<1>3. \A s \in Runs \ {r} : Untouched(s)
  BY DEF Unseal, Goto, WorkdirMutable, Inv, TypeOK, Untouched, harness, processes,
         grades, sweeper
<1>4. QED
  BY <1>1, <1>2, <1>3, OneRunsStep

LEMMA RemoveKeeps == ASSUME Inv, NEW r \in Runs, Remove(r) PROVE Inv'
<1>1. PICK d \in Rmtree(r) : dir' = [dir EXCEPT ![r] = d]
  BY DEF Remove
<1>2. d \in Dirs /\ (dir[r].mode = "mutable" /\ ~Writers(r) => d = NoDir \/ d.locked)
  BY RmtreeLeaves DEF Inv
<1>3. /\ pc[r] = "removing" /\ pc' = [pc EXCEPT ![r] = "done"]
      /\ UNCHANGED <<call, processes, grades, sweeper>>
  BY DEF Remove, Goto
<1>4. TypeOK'
  <2>1. dir' \in [Runs -> Dirs]
    BY <1>1, <1>2 DEF Inv, TypeOK
  <2>2. QED
    BY <2>1, <1>3 DEF Inv, TypeOK, processes, grades, sweeper
<1>5. Sound(r)'
  <2>1. ~escaped[r] => ~Writers(r)
    BY <1>3 DEF Inv, Sound, Processes, Idle, Writers
  <2>2. ~escaped[r] => dir'[r] = NoDir \/ dir'[r].locked
    BY <1>1, <1>2, <1>3, <2>1 DEF Inv, TypeOK, Sound, Directory
  <2>3. QED
    BY <1>3, <2>2 DEF Inv, TypeOK, Sound, Directory, Processes, Grades, Idle, InUse, NoDir,
                      processes, grades
<1>6. \A s \in Runs \ {r} : Untouched(s)
  BY <1>1, <1>3 DEF Inv, TypeOK, Untouched, processes, grades
<1>7. QED
  BY <1>4, <1>5, <1>6, OneRunsStep

LEMMA KillKeeps == ASSUME Inv, NEW r \in Runs, Kill(r) PROVE Inv'
<1>1. TypeOK'
  BY DEF Kill, Goto, Writers, Inv, TypeOK, InUse, harness, processes, grades, sweeper
<1>2. Sound(r)'
  <2>1. Directory(r)'
    BY DEF Kill, Goto, Writers, Inv, TypeOK, Sound, Directory, Processes, InUse, Dirs,
           NoDir, harness, processes, grades, sweeper
  <2>2. Processes(r)'
    BY DEF Kill, Goto, Writers, Inv, TypeOK, Sound, Directory, Processes, Idle, InUse,
           harness, processes, grades, sweeper
  <2>3. Grades(r)'
    BY DEF Kill, Goto, Writers, Inv, TypeOK, Sound, Directory, Processes, Grades, Idle,
           InUse, Dirs, NoDir, harness, processes, grades, sweeper
  <2>4. QED
    BY <2>1, <2>2, <2>3 DEF Sound
<1>3. \A s \in Runs \ {r} : Untouched(s)
  BY DEF Kill, Goto, Writers, Inv, TypeOK, Untouched, harness, processes, grades,
         sweeper
<1>4. QED
  BY <1>1, <1>2, <1>3, OneRunsStep

-----------------------------------------------------------------------------
(* The sweep of another harness process.                                   *)

LEMMA AgeKeeps == ASSUME Inv, NEW r \in Runs, Age(r) PROVE Inv'
<1>1. TypeOK'
  <2>1. dir' \in [Runs -> Dirs]
    BY DirsUpdated DEF Age, Inv, TypeOK
  <2>2. QED
    BY <2>1 DEF Age, Inv, TypeOK, InUse, harness, processes, grades, sweeper
<1>2. Sound(r)'
  <2>1. Directory(r)'
    BY DEF Age, Inv, TypeOK, Sound, Directory, Processes, InUse, Dirs, NoDir, harness,
           processes, grades, sweeper
  <2>2. Processes(r)'
    BY DEF Age, Inv, TypeOK, Sound, Directory, Processes, Idle, InUse, harness,
           processes, grades, sweeper
  <2>3. Grades(r)'
    BY DEF Age, Inv, TypeOK, Sound, Directory, Processes, Grades, Idle, InUse, Dirs,
           NoDir, harness, processes, grades, sweeper
  <2>4. QED
    BY <2>1, <2>2, <2>3 DEF Sound
<1>3. \A s \in Runs \ {r} : Untouched(s)
  BY DEF Age, Inv, TypeOK, Untouched, harness, processes, grades, sweeper
<1>4. QED
  BY <1>1, <1>2, <1>3, OneRunsStep

\* Only a directory whose run is over can be stale.
LEMMA SweepVisitsKeeps == ASSUME Inv, NEW r \in Runs, SweepVisits(r) PROVE Inv'
<1>1. CASE Stale(r)
  <2>1. PICK d \in Rmtree(r) : dir' = [dir EXCEPT ![r] = d]
    BY <1>1 DEF SweepVisits
  <2>2. d \in Dirs /\ (dir[r].locked => d.locked) /\ dir'[r] = d
    BY <2>1, RmtreeLeaves DEF Inv, TypeOK
  <2>3. /\ sweep' \subseteq Runs /\ counted' \subseteq Runs
        /\ UNCHANGED <<harness, processes, grades>>
    BY DEF SweepVisits, Inv, TypeOK
  <2>4. TypeOK'
    <3>1. dir' \in [Runs -> Dirs]
      BY <2>1, <2>2 DEF Inv, TypeOK
    <3>2. QED
      BY <3>1, <2>3 DEF Inv, TypeOK, harness, processes, grades
  <2>5. pc[r] = "dead" \/ (pc[r] = "done" /\ (escaped[r] \/ dir[r].locked))
    BY <1>1 DEF Stale, Inv, TypeOK, Sound, Directory
  <2>6. Sound(r)'
    BY <2>2, <2>3, <2>5 DEF Inv, Sound, Directory, Processes, Grades, Idle, InUse,
                      harness, processes, grades
  <2>7. \A s \in Runs \ {r} : Untouched(s)
    BY <2>1, <2>3 DEF Inv, TypeOK, Untouched, harness, processes, grades
  <2>8. QED
    BY <2>4, <2>6, <2>7, OneRunsStep
<1>2. CASE ~Stale(r)
  <2>1. TypeOK'
    BY <1>2 DEF SweepVisits, Inv, TypeOK, harness, processes, grades
  <2>2. \A s \in Runs : Untouched(s)
    BY <1>2 DEF SweepVisits, Untouched, harness, processes, grades
  <2>3. Sound(r)'
    BY <2>2 DEF Inv, Sound, Untouched, Directory, Processes, Grades, Idle
  <2>4. QED
    BY <2>1, <2>2, <2>3, OneRunsStep
<1>3. QED
  BY <1>1, <1>2

LEMMA SweepBeginsKeeps == ASSUME Inv, SweepBegins PROVE Inv'
<1>1. TypeOK'
  BY DEF SweepBegins, Inv, TypeOK, harness, processes, grades
<1>2. \A r \in Runs : Sound(r)'
  BY DEF SweepBegins, Inv, Sound, Directory, Processes, Grades, Idle, harness, processes, grades
<1>3. QED
  BY <1>1, <1>2 DEF Inv

-----------------------------------------------------------------------------
LEMMA NextKeeps == Inv /\ [Next]_vars => Inv'
<1> SUFFICES ASSUME Inv, [Next]_vars PROVE Inv'
  OBVIOUS
<1>1. CASE UNCHANGED vars
  <2>1. TypeOK'
    BY <1>1 DEF vars, Inv, TypeOK, harness, processes, grades, sweeper
  <2>2. \A r \in Runs : Sound(r)'
    BY <1>1 DEF vars, Inv, Sound, Directory, Processes, Grades, Idle, harness, processes,
                grades, sweeper
  <2>3. QED
    BY <2>1, <2>2 DEF Inv
<1>2. CASE Next
  <2>1. CASE SweepBegins
    BY <2>1, SweepBeginsKeeps
  <2>2. ASSUME NEW r \in Runs,
               \/ MakeDirectory(r) \/ CopyFixture(r) \/ Seal(r) \/ Write(r) \/ Chmod(r)
               \/ RunCommand(r) \/ Spawn(r) \/ Fork(r) \/ ProcessExits(r)
               \/ ReturnInTime(r) \/ TimeOut(r) \/ Drained(r)
        PROVE  Inv'
    BY <2>2, MakeDirectoryKeeps, CopyFixtureKeeps, SealKeeps, WriteKeeps, ChmodKeeps, RunCommandKeeps,
       SpawnKeeps, ForkKeeps, ProcessExitsKeeps, ReturnInTimeKeeps, TimeOutKeeps, DrainedKeeps
  <2>3. ASSUME NEW r \in Runs,
               \/ Answer(r) \/ CheckByTests(r) \/ Check(r) \/ Conditions(r)
               \/ Raise(r) \/ Unseal(r) \/ Remove(r) \/ Kill(r)
               \/ Age(r) \/ SweepVisits(r)
        PROVE  Inv'
    BY <2>3, AnswerKeeps, CheckByTestsKeeps, CheckKeeps, ConditionsKeeps, RaiseKeeps,
       UnsealKeeps, RemoveKeeps, KillKeeps, AgeKeeps, SweepVisitsKeeps
  <2>4. QED
    BY <1>2, <2>1, <2>2, <2>3 DEF Next
<1>3. QED
  BY <1>1, <1>2

LEMMA InvIsInvariant == Spec => []Inv
BY InitInv, NextKeeps, PTL DEF Spec

\* Whatever the runs, their drivers and checks, every variable keeps its range and only
\* a command under way has processes of its own: run, spawn and the check's pytest
\* leave none behind as theirs.
THEOREM TypeCorrect == Spec => []TypeOK
<1>1. Inv => TypeOK
  BY DEF Inv
<1>2. QED
  BY <1>1, InvIsInvariant, PTL

\* However many harness processes work and sweep over one runs root, the directory of
\* a run between prepared's chmod and the end of grade is there, sealed and not empty.
THEOREM LiveTreesAreWhole == Spec => []LiveTreeIsWhole
<1>1. Inv => LiveTreeIsWhole
  BY DEF Inv, Sound, Directory, LiveTreeIsWhole, InUse
<1>2. QED
  BY <1>1, InvIsInvariant, PTL

\* For any commands, whether they end in time, run into their limit or raise, and
\* whether or not the kill finds their group: grade's check and its later conditions
\* agree on the copy that is then deleted, as long as no process outlived its call in
\* one of the ways GradesAgree names.
THEOREM GradesAlwaysAgree == Spec => []GradesAgree
<1>1. Inv => GradesAgree
  BY DEF Inv, Sound, Grades, GradesAgree
<1>2. QED
  BY <1>1, InvIsInvariant, PTL

\* prepared's finally removes the directory and the ends of calls leave no process,
\* for any number of runs and whatever stopped them, again if no process outlived its
\* call, and up to a directory the agent itself made unwritable.
THEOREM RunsLeaveNothing == Spec => []NothingLeftBehind
<1>1. Inv => NothingLeftBehind
  BY DEF Inv, Sound, Directory, Processes, Idle, Writers, NothingLeftBehind
<1>2. QED
  BY <1>1, InvIsInvariant, PTL
=============================================================================
