---------------------------- MODULE RunWorkspace ----------------------------
(***************************************************************************)
(* A run's working directory: prepared, run_task and grade of              *)
(* harness/runner.py, with the commands of harness/execution.py's          *)
(* HostExecutor working in the copy, and paths.sweep_stale of another      *)
(* harness process over the same runs root.                                *)
(*                                                                         *)
(* mkdtemp's names are fresh, so a run and its directory share a name.     *)
(* Runs of several harness processes may be under way at once; runs of one *)
(* process are a special case.                                             *)
(*                                                                         *)
(* Abstractions.  The copy is what its task's check makes of it: the       *)
(* fixture as it was, the right result or a wrong one.  Of the processes   *)
(* of a command only the shell (or argv) it started with is told apart;    *)
(* the others are known by whether they stay in its process group and      *)
(* whether they keep its output pipe open.  Nothing in a run chmods the    *)
(* work directory itself, though its processes have the uid for it.        *)
(***************************************************************************)
EXTENDS Naturals, FiniteSets

CONSTANTS
    Runs,
    Grader,       \* how a run's task is checked: with conditions, or by pytest
    Driver,       \* a run's driver: native or pi
    Background    \* the kinds of processes a run's commands may put in the background

Kinds == [group : BOOLEAN, pipe : BOOLEAN]

ASSUME WorkspaceAssumption ==
    /\ Grader \in [Runs -> {"conditions", "pytest"}]
    /\ Driver \in [Runs -> {"native", "pi"}]
    /\ Background \in [Runs -> SUBSET Kinds]

-----------------------------------------------------------------------------
VARIABLES
    dir,        \* the work directory of each run
    pc,         \* where the harness is in the run
    call,       \* the call under way: the run_command tool, spawn or a check's pytest
    leader,     \* the process Popen started is alive
    alive,      \* the other processes of the command under way
    survivors,  \* processes of calls that have returned are alive
    escaped,    \* history: a process outlived its call, for one of Outlives' reasons
    verdict,    \* what check said
    breakdown,  \* what conditions said after it
    sweep,      \* sweep_stale's listing not visited yet, of a sweep under way
    counted     \* history: the directories sweep_stale has counted as removed

harness == <<pc, call>>
processes == <<leader, alive, survivors, escaped>>
grades == <<verdict, breakdown>>
sweeper == <<sweep, counted>>
vars == <<dir, harness, processes, grades, sweeper>>

\* WORKDIR_SEALED, 0555: nothing can be created in or unlinked from the directory.
WorkdirSealed == "sealed"
WorkdirMutable == "mutable"

\* locked: the copy has a directory, not empty, that the agent made unwritable.
Dirs == [there : BOOLEAN, mode : {"mutable", "sealed"},
         tree : {"empty", "fixture", "right", "wrong"},
         locked : BOOLEAN, old : BOOLEAN]

NoDir == [there |-> FALSE, mode |-> "mutable", tree |-> "empty",
          locked |-> FALSE, old |-> FALSE]

Init ==
    /\ dir = [r \in Runs |-> NoDir]
    /\ pc = [r \in Runs |-> "idle"]
    /\ call = [r \in Runs |-> "none"]
    /\ leader = [r \in Runs |-> FALSE]
    /\ alive = [r \in Runs |-> {}]
    /\ survivors = [r \in Runs |-> FALSE]
    /\ escaped = [r \in Runs |-> FALSE]
    /\ verdict = [r \in Runs |-> "none"]
    /\ breakdown = [r \in Runs |-> "none"]
    /\ sweep = {}
    /\ counted = {}

Goto(r, place) == pc' = [pc EXCEPT ![r] = place]

\* The run has a fixture copy that the driver works in or that is being graded.
InUse == {"driving", "command", "draining", "answered", "checked"}

\* Some process of the run lives.
Writers(r) == leader[r] \/ alive[r] # {} \/ survivors[r]

-----------------------------------------------------------------------------
(* prepared, up to its yield.                                              *)

MakeDirectory(r) ==
    /\ pc[r] = "idle"
    /\ dir' = [dir EXCEPT ![r].there = TRUE]
    /\ Goto(r, "made")
    /\ UNCHANGED <<call, processes, grades, sweeper>>

\* copytree and the task's variant.
CopyFixture(r) ==
    /\ pc[r] = "made"
    /\ dir' = [dir EXCEPT ![r].tree = "fixture"]
    /\ Goto(r, "copied")
    /\ UNCHANGED <<call, processes, grades, sweeper>>

\* chmod to WORKDIR_SEALED; the baseline is hashed and the driver begins.
Seal(r) ==
    /\ pc[r] = "copied"
    /\ dir' = [dir EXCEPT ![r].mode = WorkdirSealed]
    /\ Goto(r, "driving")
    /\ UNCHANGED <<call, processes, grades, sweeper>>

-----------------------------------------------------------------------------
(* The driver and its commands.                                            *)

\* write_file, by the driver itself; or by any process of the run.
Write(r) ==
    /\ pc[r] = "driving" \/ Writers(r)
    /\ dir[r].tree # "empty"
    /\ \E t \in {"right", "wrong"} : dir' = [dir EXCEPT ![r].tree = t]
    /\ UNCHANGED <<harness, processes, grades, sweeper>>

\* mkdir and chmod by a process of the run.
Chmod(r) ==
    /\ Writers(r)
    /\ dir[r].tree # "empty"
    /\ dir' = [dir EXCEPT ![r].locked = ~@]
    /\ UNCHANGED <<harness, processes, grades, sweeper>>

PopenUnawaited(r, kind) ==
    /\ call' = [call EXCEPT ![r] = kind]
    /\ leader' = [leader EXCEPT ![r] = TRUE]
    /\ UNCHANGED <<dir, pc, alive, survivors, escaped, grades, sweeper>>

\* A call begins: the process is in a session of its own (start_new_session).
Popen(r, kind) ==
    /\ call' = [call EXCEPT ![r] = kind]
    /\ leader' = [leader EXCEPT ![r] = TRUE]
    /\ Goto(r, "command")
    /\ UNCHANGED <<dir, alive, survivors, escaped, grades, sweeper>>

\* The native driver sends commands; a pi run is one spawn.
RunCommand(r) ==
    /\ pc[r] = "driving"
    /\ Driver[r] = "native"
    /\ Popen(r, "run")

Spawn(r) ==
    /\ pc[r] = "driving"
    /\ Driver[r] = "pi"
    /\ Popen(r, "spawn")

Fork(r) ==
    /\ leader[r]
    /\ \E k \in Background[r] \ alive[r] : alive' = [alive EXCEPT ![r] = @ \cup {k}]
    /\ UNCHANGED <<dir, harness, leader, survivors, escaped, grades, sweeper>>

ProcessExits(r) ==
    /\ \/ leader[r] /\ leader' = [leader EXCEPT ![r] = FALSE]
          /\ UNCHANGED <<alive, survivors>>
       \/ \E k \in alive[r] : alive' = [alive EXCEPT ![r] = @ \ {k}]
          /\ UNCHANGED <<leader, survivors>>
       \/ survivors[r] /\ survivors' = [survivors EXCEPT ![r] = FALSE]
          /\ UNCHANGED <<leader, alive>>
    /\ UNCHANGED <<dir, harness, escaped, grades, sweeper>>

\* communicate has its end of file and its leader.
Communicated(r) == ~leader[r] /\ \A k \in alive[r] : ~k.pipe

\* The call is over and the processes `left` of it live on.
CallOver(r, left) ==
    /\ leader' = [leader EXCEPT ![r] = FALSE]
    /\ alive' = [alive EXCEPT ![r] = {}]
    /\ survivors' = [survivors EXCEPT ![r] = @ \/ left # {}]
    /\ call' = [call EXCEPT ![r] = "none"]
    /\ UNCHANGED sweeper

Escape(r, loose) == escaped' = [escaped EXCEPT ![r] = @ \/ loose # {}]

\* Where the harness goes on: the loop's next turn, the end of a pi run, or, for a
\* check, its verdict.  A passing pytest is one over the copy as it is left.
Resumes(r, timedOut) ==
    \/ /\ call[r] = "run"
       /\ Goto(r, "driving")
       /\ UNCHANGED grades
    \/ /\ call[r] = "spawn"
       /\ Goto(r, "answered")
       /\ UNCHANGED grades
    \/ /\ call[r] = "pytest"
       /\ Goto(r, "cleaning")
       /\ verdict' = [verdict EXCEPT ![r] =
                        IF ~timedOut /\ dir[r].tree = "right" THEN "passed" ELSE "failed"]
       /\ UNCHANGED breakdown

\* What was put in the background of a command that ends in time is not killed.
ReturnInTime(r) ==
    /\ pc[r] = "command"
    /\ Communicated(r)
    /\ CallOver(r, alive[r])
    /\ Escape(r, alive[r])
    /\ Resumes(r, FALSE)
    /\ UNCHANGED dir

KillsLeaderOnly(r) == {alive[r]}

\* _kill_group, by what it may leave: SIGKILL to the leader's group, and what has
\* left the group lives on.  Of a leader that has exited and is not yet waited for,
\* getpgid or killpg may fail (macOS), which is ignored: nothing is killed.
KillGroup(r) ==
    LET out == {k \in alive[r] : ~k.group}
    IN IF leader[r] THEN {out} ELSE {out, alive[r]}

\* The processes a kill may spare: those outside the group and, of a leader that has
\* exited, the group too.
Outlives(r, left) == {k \in left : ~k.group \/ ~leader[r]}

\* TimeoutExpired: the group is killed.  run waits for its leader and returns; spawn
\* reads the output of whatever still holds its pipe.
TimeOut(r) ==
    /\ pc[r] = "command"
    /\ ~Communicated(r)
    /\ \E left \in KillGroup(r) :
          /\ Escape(r, Outlives(r, left))
          /\ \/ /\ call[r] # "spawn"
                /\ CallOver(r, left)
                /\ Resumes(r, TRUE)
             \/ /\ call[r] = "spawn"
                /\ leader' = [leader EXCEPT ![r] = FALSE]
                /\ alive' = [alive EXCEPT ![r] = left]
                /\ Goto(r, "draining")
                /\ UNCHANGED <<call, survivors, grades, sweeper>>
    /\ UNCHANGED dir

Drained(r) ==
    /\ pc[r] = "draining"
    /\ Communicated(r)
    /\ CallOver(r, alive[r])
    /\ Resumes(r, TRUE)
    /\ UNCHANGED <<dir, escaped>>

Answer(r) ==
    /\ pc[r] = "driving"
    /\ Goto(r, "answered")
    /\ UNCHANGED <<dir, call, processes, grades, sweeper>>

-----------------------------------------------------------------------------
(* grade and condition_failures.                                           *)

CheckByTests(r) ==
    /\ pc[r] = "answered"
    /\ Grader[r] = "pytest"
    /\ Popen(r, "pytest")

Check(r) ==
    /\ pc[r] = "answered"
    /\ Grader[r] = "conditions"
    /\ verdict' = [verdict EXCEPT ![r] =
                     IF dir[r].tree = "right" THEN "passed" ELSE "failed"]
    /\ Goto(r, "checked")
    /\ UNCHANGED <<dir, call, processes, breakdown, sweeper>>

\* conditions reads the copy again, after check and progress_score have.
Conditions(r) ==
    /\ pc[r] = "checked"
    /\ breakdown' = [breakdown EXCEPT ![r] =
                       IF dir[r].tree = "right" THEN "held" ELSE "missed"]
    /\ Goto(r, "cleaning")
    /\ UNCHANGED <<dir, call, processes, verdict, sweeper>>

-----------------------------------------------------------------------------
(* The end of a run.                                                       *)

\* An exception in prepared's try: the copy fails, the driver or the check raises,
\* or the operator interrupts, which no command notices in its own session.
Raise(r) ==
    /\ pc[r] \in InUse \cup {"made", "copied"}
    /\ Goto(r, "cleaning")
    /\ survivors' = [survivors EXCEPT ![r] = Writers(r)]
    /\ escaped' = [escaped EXCEPT ![r] = @ \/ leader[r] \/ alive[r] # {}]
    /\ leader' = [leader EXCEPT ![r] = FALSE]
    /\ alive' = [alive EXCEPT ![r] = {}]
    /\ call' = [call EXCEPT ![r] = "none"]
    /\ UNCHANGED <<dir, grades, sweeper>>

\* The finally: chmod to WORKDIR_MUTABLE, then rmtree.
Unseal(r) ==
    /\ pc[r] = "cleaning"
    /\ dir' = [dir EXCEPT ![r].mode = WorkdirMutable]
    /\ Goto(r, "removing")
    /\ UNCHANGED <<call, processes, grades, sweeper>>

\* What rmtree(ignore_errors=True) leaves of a directory: of a sealed one root/ itself,
\* emptied, which cannot be unlinked; of a copy with a directory the agent made
\* unwritable, that directory and what it is in.  Beside a process that writes, a
\* directory it was emptying may be full again.
Rmtree(r) ==
    LET rest == [dir[r] EXCEPT !.tree = "wrong"]
        root == [dir[r] EXCEPT !.tree = "empty"]
    IN {IF dir[r].locked THEN rest
        ELSE IF dir[r].mode = "sealed" THEN root ELSE NoDir}
           \cup (IF Writers(r) /\ dir[r].tree # "empty" THEN {rest} ELSE {})

Remove(r) ==
    /\ pc[r] = "removing"
    /\ \E d \in Rmtree(r) : dir' = [dir EXCEPT ![r] = d]
    /\ Goto(r, "done")
    /\ UNCHANGED <<call, processes, grades, sweeper>>

\* The harness process is killed.  Its command, in a session of its own, is not.
Kill(r) ==
    /\ pc[r] \notin {"idle", "done", "dead"}
    /\ Goto(r, "dead")
    /\ survivors' = [survivors EXCEPT ![r] = Writers(r)]
    /\ leader' = [leader EXCEPT ![r] = FALSE]
    /\ alive' = [alive EXCEPT ![r] = {}]
    /\ call' = [call EXCEPT ![r] = "none"]
    /\ UNCHANGED <<dir, escaped, grades, sweeper>>

-----------------------------------------------------------------------------
(* sweep_stale, at the start of any stage.                                 *)

\* STALE_AFTER_S passes.  No run takes that long: every turn and command of it has
\* a limit of minutes.
Age(r) ==
    /\ pc[r] \in {"done", "dead"}
    /\ dir[r].there /\ ~dir[r].old
    /\ dir' = [dir EXCEPT ![r].old = TRUE]
    /\ UNCHANGED <<harness, processes, grades, sweeper>>

SweepBegins ==
    /\ sweep = {}
    /\ sweep' = {r \in Runs : dir[r].there}
    /\ UNCHANGED <<dir, harness, processes, grades, counted>>

AnyDirectory(r) == dir[r].there

\* child.is_dir() and child.stat().st_mtime < cutoff
Stale(r) == dir[r].there /\ dir[r].old

SweepVisits(r) ==
    /\ r \in sweep
    /\ sweep' = sweep \ {r}
    /\ \/ /\ Stale(r)
          /\ \E d \in Rmtree(r) : dir' = [dir EXCEPT ![r] = d]
          /\ counted' = counted \cup {r}
       \/ /\ ~Stale(r)
          /\ UNCHANGED <<dir, counted>>
    /\ UNCHANGED <<harness, processes, grades>>

Next ==
    \/ SweepBegins
    \/ \E r \in Runs :
          \/ MakeDirectory(r) \/ CopyFixture(r) \/ Seal(r)
          \/ Write(r) \/ Chmod(r) \/ RunCommand(r) \/ Spawn(r) \/ Fork(r) \/ ProcessExits(r)
          \/ ReturnInTime(r) \/ TimeOut(r) \/ Drained(r) \/ Answer(r)
          \/ CheckByTests(r) \/ Check(r) \/ Conditions(r)
          \/ Raise(r) \/ Unseal(r) \/ Remove(r) \/ Kill(r)
          \/ Age(r) \/ SweepVisits(r)

Spec == Init /\ [][Next]_vars

-----------------------------------------------------------------------------
(* Properties.                                                             *)

\* Every variable stays in its range, and only a command under way has processes
\* of its own.
TypeOK ==
    /\ dir \in [Runs -> Dirs]
    /\ pc \in [Runs -> InUse \cup {"idle", "made", "copied", "cleaning",
                                   "removing", "done", "dead"}]
    /\ call \in [Runs -> {"none", "run", "spawn", "pytest"}]
    /\ leader \in [Runs -> BOOLEAN]
    /\ alive \in [Runs -> SUBSET Kinds]
    /\ survivors \in [Runs -> BOOLEAN]
    /\ escaped \in [Runs -> BOOLEAN]
    /\ verdict \in [Runs -> {"none", "passed", "failed"}]
    /\ breakdown \in [Runs -> {"none", "held", "missed"}]
    /\ sweep \subseteq Runs
    /\ counted \subseteq Runs
    /\ \A r \in Runs : pc[r] \notin {"command", "draining"} =>
                           ~leader[r] /\ alive[r] = {} /\ call[r] = "none"

\* Between its sealing and the end of its grading a run's directory is there,
\* sealed and with its copy in it, whatever other processes sweep meanwhile.
LiveTreeIsWhole ==
    \A r \in Runs : pc[r] \in InUse =>
        dir[r].there /\ dir[r].mode = "sealed" /\ dir[r].tree # "empty"

\* check, the conditions after it and the copy that is then deleted agree, although
\* each reads the files anew, unless a process got away from its call: one that left
\* its group, was put in the background by a command that ended in time, was left in
\* the group by a leader that had exited when the limit passed (_kill_group's ignored
\* errors), or was running at an interrupt.  A command that runs into its limit with
\* its leader alive leaves nobody in its group to write between the two readings.
GradesAgree ==
    \A r \in Runs : ~escaped[r] =>
        /\ breakdown[r] # "none" => (verdict[r] = "passed") = (breakdown[r] = "held")
        /\ pc[r] = "cleaning" /\ verdict[r] = "passed" => dir[r].tree = "right"

\* A run that came to its end, by returning or by an exception, leaves no process
\* behind unless one got away from its call in those four ways, and then no directory
\* either unless the agent made one in it unwritable: rmtree ignores what it cannot
\* remove, and nothing else in the run makes it fail.
NothingLeftBehind ==
    \A r \in Runs : pc[r] = "done" /\ ~escaped[r] =>
        /\ ~Writers(r)
        /\ dir[r].there => dir[r].locked

-----------------------------------------------------------------------------
(* What the repository says and the code does not keep.                    *)

\* sweep_stale: "Delete run directories left behind by an interrupted stage.
\* Returns how many were removed."  A directory it counted is gone.
CountedIsGone == \A r \in counted : ~dir[r].there
=============================================================================
