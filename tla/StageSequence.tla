---------------------------- MODULE StageSequence ----------------------------
(***************************************************************************)
(* The stage sequence of harness/stages.py (run_stages, its registry STEPS *)
(* and the Stage 0 and Stage 2A gates) beside the verdict and the table    *)
(* cells harness/report.py computes from the same raw files.               *)
(*                                                                         *)
(* The sequence decides, stage by stage, from the file of the stage that   *)
(* has just completed.  The report decides later, from every record of     *)
(* every file.  Between the two lie kills, re-runs, runs over other lists  *)
(* of stages, the other driver's run, which shares the Stage 0 file,       *)
(* stages started by themselves at another context, and the archive.       *)
(*                                                                         *)
(* Abstractions.  One configuration.  StageRunner has the inside of a      *)
(* stage (session, snapshot, torn files); here a stage adds the next       *)
(* missing run's record, and a kill falls between two records.  A run is   *)
(* what its grading sees of it: whether it made a valid tool call, touched *)
(* a target, gave an answer of the right shape and passed.                 *)
(***************************************************************************)
EXTENDS Integers, Sequences, FiniteSets, FiniteSetsExt, Functions

CONSTANTS
    Drivers,       \* COMPARISON_DRIVERS: the drivers the report has rows for
    Lists,         \* what the operator gives to `run --stages`: any stages, any order
    Standalone,    \* parts the operator may start by themselves: sequences
    TaskCount,     \* number of tasks of a suite
    Repetitions,   \* STAGE0_REPETITIONS, AGENT_REPETITIONS, STAGE1_REPETITIONS
    MinPasses,     \* STAGE2A_MIN_PASSES
    Outcomes       \* what a run of a stage under a driver can come to

Suites == {"0", "1", "W", "T"}
Stages == {"stage0", "stage1", "stage2a", "stage2b", "stage3"}

\* The registry of run_stages; any other name in the list raises KeyError (Die).
Steps == {"stage0", "stage1", "stage2a", "stage2b"}
Passed == 4

Graded == [valid : BOOLEAN, touched : BOOLEAN, shape : BOOLEAN, passed : BOOLEAN]

\* progress_score.
ProgressScore(o) ==
    IF o.passed THEN Passed
    ELSE IF ~o.valid THEN 0
    ELSE IF o.shape THEN 3
    ELSE IF o.touched THEN 2 ELSE 1

Parts == [stage : Stages, suite : Suites, driver : Drivers, ctx : Nat]

ASSUME SequenceAssumption ==
    /\ "native" \in Drivers /\ "none" \notin Drivers
    /\ Lists \subseteq Seq(Steps)
    /\ Standalone \subseteq Seq(Parts)
    /\ TaskCount \in [Suites -> Nat \ {0}]
    /\ Repetitions \in [Suites -> Nat \ {0}]
    /\ MinPasses \in Nat
    /\ Outcomes \in [Stages \X Drivers -> SUBSET Graded]

\* What the report has a figure of; the smaller context of STAGE1_CONTEXT.
AgentContext == 8192

Part(stage, suite, driver, ctx) ==
    [stage |-> stage, suite |-> suite, driver |-> driver, ctx |-> ctx]

Stage0Part == Part("stage0", "0", "native", AgentContext)
Stage2aPart(d) == Part("stage2a", "W", d, AgentContext)
Stage2bPart(d) == Part("stage2b", "T", d, AgentContext)

\* The parts whose outcome a `run` goes by.
GateParts == {Stage0Part} \cup {Stage2aPart(d) : d \in Drivers}
                          \cup {Stage2bPart(d) : d \in Drivers}

\* StageStep.run: Stages 0 and 1 ignore the driver; stage1 is one run_stage1 call
\* per tier.
StepParts(name, d) ==
    CASE name = "stage0"  -> << Stage0Part >>
      [] name = "stage1"  -> << Part("stage1", "1", "native", AgentContext),
                                Part("stage1", "1", "native", 16384) >>
      [] name = "stage2a" -> << Stage2aPart(d) >>
      [] name = "stage2b" -> << Stage2bPart(d) >>

Records == [stage : Stages, suite : Suites, driver : Drivers, ctx : Nat,
            task : Nat, repetition : Nat,
            valid : BOOLEAN, score : 0..Passed]

-----------------------------------------------------------------------------
VARIABLES
    raw,       \* every record on disk
    names,     \* stages of the `run` not returned from, the one under way at the head
    todo,      \* parts of the stage under way not returned from, <<>> when none runs
    loaded,    \* the model is loaded for the part at the head of todo
    driver,    \* the driver of a `run`, "none" for a stage started by itself
    past,      \* history: the stages of this `run` it has gone on from
    behind,    \* history: parts behind which a `run` has recorded a later stage's run
    told       \* history: what the last command to complete a part heard of it

vars == <<raw, names, todo, loaded, driver, past, behind, told>>

Init ==
    /\ raw = {}
    /\ names = <<>> /\ todo = <<>>
    /\ loaded = FALSE
    /\ driver = "none"
    /\ past = {}
    /\ behind = {}
    /\ told = [p \in GateParts |-> "none"]

part == Head(todo)

\* A raw file is named after the stage and the driver, in the directory of the
\* configuration and context.
SameFile(p, q) == p.stage = q.stage /\ p.driver = q.driver /\ p.ctx = q.ctx

FileOf(p) == {r \in raw : SameFile(r, p)}

SlotsFromZero(p) == (1..TaskCount[p.suite]) \X (0..Repetitions[p.suite])

Slots(p) == (1..TaskCount[p.suite]) \X (1..Repetitions[p.suite])

Done(p) == {<<r.task, r.repetition>> : r \in {q \in FileOf(p) : q.suite = p.suite}}

Missing(p) == Slots(p) \ Done(p)

\* for task in tasks: for repetition in range(1, repetitions + 1)
Before(s, t) == s[1] < t[1] \/ (s[1] = t[1] /\ s[2] < t[2])

-----------------------------------------------------------------------------
(* The gates: pure arithmetic over whatever records they are handed.       *)

\* _evaluate_stage0: at least two thirds of the runs made a valid tool call.
Stage0Gate(R) ==
    /\ R # {}
    /\ 3 * Cardinality({r \in R : r.valid}) >= 2 * Cardinality(R)

OfTask(R, t) == {r \in R : r.task = t}

PassesOf(R) == {r \in R : r.score = Passed}

\* _task_passed_by_majority: a strict majority of the repetitions recorded.
PassedByMajority(R) == 2 * Cardinality(PassesOf(R)) > Cardinality(R)

TasksPassed(R) == {t \in {r.task : r \in R} : PassedByMajority(OfTask(R, t))}

TotalProgress(R) == MapThenSumSet(LAMBDA r : r.score, R)

\* _evaluate_stage2a; STAGE2A_MIN_MEAN_PROGRESS is 2.5.
Stage2aGate(R) ==
    \/ Cardinality(TasksPassed(R)) >= MinPasses
    \/ R # {} /\ 2 * TotalProgress(R) >= 5 * Cardinality(R)

ProceedsUngated(p) == p.stage = "stage0" => Stage0Gate(FileOf(p))

\* StageStep.proceeds of a part that completed.  Stage 1 is not a gate.
Proceeds(p) ==
    /\ p.stage = "stage0" => Stage0Gate(FileOf(p))
    /\ p.stage = "stage2a" => Stage2aGate(FileOf(p))

\* Parts whose unsupported or oversized outcome stops a `run`.
StopsWhenRefused(p) == p.stage \in {"stage0", "stage2a", "stage2b"}

-----------------------------------------------------------------------------
(* The report.                                                             *)

Stage0Records == {r \in raw : r.suite = "0"}

OfDriver(suite, d) == {r \in raw : r.suite = suite /\ r.driver = d}

EveryContext(suite, d) == OfDriver(suite, d)

\* The scope of suite_summary's cells and of _verdict's stages 2A and 2B.
Scoped(suite, d) == {r \in OfDriver(suite, d) : r.ctx = AgentContext}

Stage2aRecords(d) == Scoped("W", d)

\* Stage 1 records are at 16384 too, under suite "1".
Stage3Records(d) ==
    {r \in OfDriver("W", d) \cup OfDriver("T", d) : r.ctx = 16384}

\* _verdict, by the stage its text names.
Verdict(d) ==
    IF Stage0Records = {} THEN "not run"
    ELSE IF ~Stage0Gate(Stage0Records) THEN "excluded at stage0"
    ELSE IF Stage2aRecords(d) = {} THEN "passed stage0"
    ELSE IF ~Stage2aGate(Stage2aRecords(d)) THEN "excluded at stage2a"
    ELSE IF Scoped("T", d) = {} THEN "passed stage2a"
    ELSE IF Stage3Records(d) # {} THEN "stage3" ELSE "stage2b"

\* final_table's cells "passed/total" for a suite, from suite_summary.
Cell(suite, d) ==
    [passed |-> Cardinality(PassesOf(Scoped(suite, d))),
     total  |-> Cardinality(Scoped(suite, d))]

-----------------------------------------------------------------------------
(* The operator and the process.                                           *)

Idle == todo = <<>>

\* The head of a list of stages is begun, or the command is over.
Begin(ns, d) ==
    /\ names' = ns
    /\ todo' = IF ns = <<>> THEN <<>> ELSE StepParts(Head(ns), d)
    /\ loaded' = FALSE

End == Begin(<<>>, "none") /\ driver' = "none" /\ past' = {}

\* `run --stages`, for any list of stages.
StartRun(d, ns) ==
    /\ Idle
    /\ Begin(ns, d)
    /\ driver' = d
    /\ UNCHANGED <<raw, past, behind, told>>

\* stage3, or a stage's own subcommand at a context of the operator's choice.
StartStandalone(ps) ==
    /\ Idle
    /\ todo' = ps
    /\ driver' = "none"
    /\ UNCHANGED <<raw, names, loaded, past, behind, told>>

\* run_stage loads the model for the part, whatever its file already holds.
Load ==
    /\ todo # <<>> /\ ~loaded
    /\ loaded' = TRUE
    /\ UNCHANGED <<raw, names, todo, driver, past, behind, told>>

\* The gates this `run` has gone on from.
GatesPast == {p \in GateParts : \E name \in past : p \in Range(StepParts(name, driver))}

\* run_stage runs and records the first run its file does not hold.
RunTask ==
    /\ loaded
    /\ \E s \in Missing(part) :
          /\ \A t \in Missing(part) : ~Before(t, s)
          /\ \E o \in Outcomes[<<part.stage, part.driver>>] :
                raw' = raw \cup
                    {[stage |-> part.stage, suite |-> part.suite,
                      driver |-> part.driver, ctx |-> part.ctx,
                      task |-> s[1], repetition |-> s[2],
                      valid |-> o.valid, score |-> ProgressScore(o)]}
    /\ behind' = behind \cup GatesPast
    /\ UNCHANGED <<names, todo, loaded, driver, past, told>>

\* The part is over: the stage goes on to its next part, or the `run` to its next
\* stage, or the command ends here.
GoOn ==
    \/ /\ Len(todo) > 1
       /\ todo' = Tail(todo) /\ loaded' = FALSE
       /\ UNCHANGED <<names, driver, past>>
    \/ /\ Len(todo) = 1 /\ Len(names) > 1
       /\ Begin(Tail(names), driver)
       /\ past' = past \cup {Head(names)}
       /\ UNCHANGED driver
    \/ /\ Len(todo) = 1 /\ Len(names) <= 1
       /\ End

\* The part has completed, and its command hears what its gate says.
Hear ==
    told' = IF part \in GateParts
            THEN [told EXCEPT ![part] = IF Proceeds(part) THEN "yes" ELSE "no"]
            ELSE told

\* A part has completed.  A gate that says no ends a `run`; a stage started by
\* itself only prints what the gate says.
PartProceeds ==
    /\ loaded /\ Missing(part) = {}
    /\ driver = "none" \/ Proceeds(part)
    /\ GoOn
    /\ Hear
    /\ UNCHANGED <<raw, behind>>

PartStops ==
    /\ loaded /\ Missing(part) = {}
    /\ driver # "none" /\ ~Proceeds(part)
    /\ End
    /\ Hear
    /\ UNCHANGED <<raw, behind>>

\* The load is refused: the context is unsupported or the model oversized.
PartRefused ==
    /\ todo # <<>> /\ ~loaded
    /\ IF driver # "none" /\ StopsWhenRefused(part) THEN End ELSE GoOn
    /\ UNCHANGED <<raw, behind, told>>

\* An exception or a kill.
Die ==
    /\ todo # <<>>
    /\ End
    /\ UNCHANGED <<raw, behind, told>>

\* The operator archives the raw file that holds r; what was heard of it, and what
\* was run behind it, is heard and run no more.
Archive(r) ==
    /\ Idle
    /\ raw' = raw \ FileOf(r)
    /\ behind' = {p \in behind : ~SameFile(p, r)}
    /\ told' = [p \in GateParts |-> IF SameFile(p, r) THEN "none" ELSE told[p]]
    /\ UNCHANGED <<names, todo, loaded, driver, past>>

Next ==
    \/ \E d \in Drivers, ns \in Lists : StartRun(d, ns)
    \/ \E ps \in Standalone : StartStandalone(ps)
    \/ Load
    \/ RunTask
    \/ PartProceeds
    \/ PartStops
    \/ PartRefused
    \/ Die
    \/ \E r \in raw : Archive(r)

Spec == Init /\ [][Next]_vars

-----------------------------------------------------------------------------
(* Properties.                                                             *)

\* Every record is of a task and repetition of its suite, a model is loaded only for
\* a part to do, and a `run` is at a stage of its list.
TypeOK ==
    /\ raw \subseteq Records
    /\ \A r \in raw : /\ r.task \in 1..TaskCount[r.suite]
                      /\ r.repetition \in 1..Repetitions[r.suite]
    /\ names \in Seq(Steps)
    /\ todo \in Seq(Parts)
    /\ loaded \in BOOLEAN
    /\ loaded => todo # <<>>
    /\ driver \in Drivers \cup {"none"}
    /\ past \subseteq Steps
    /\ behind \subseteq GateParts
    /\ told \in [GateParts -> {"none", "yes", "no"}]

Said(p) ==
    /\ Missing(p) = {}
    /\ p.suite = "0" => Stage0Gate(FileOf(p))
    /\ p.suite = "W" => Stage2aGate(FileOf(p))

\* The hours of a stage are spent only behind the gates listed before it: once a
\* `run` has recorded a run behind Stage 0, Stage 2A or Stage 2B, whatever its list
\* and its order, that stage's file is whole and its gate says yes over it, through
\* kills, re-runs, refused loads and the other driver's runs, until the operator
\* archives that file (run_stages, "no further stages attempted").  A list without a
\* gate puts nothing behind it: `--stages stage2b` runs Stage 2B ungated.
GatedEvidence == \A p \in behind : Said(p)

\* _verdict reads Stage 0's records at every context.
PoolsStage0 == Stage0Records # FileOf(Stage0Part)

\* What a command heard of a stage is what the report makes of it from then on, after
\* any other runs, until that stage's file is archived: the gates recomputed from the
\* raw files (_verdict) do not change their mind, and a row counts every run of a
\* completed suite under its driver at 8192 and no other, though Stage 3 runs the
\* same suites (suite_summary's scope).  The verdict asks Stage 0 first: of a `run`
\* without Stage 0 it may still say "not run", and Stage 0's answer stands only while
\* no other context's Stage 0 is pooled with it.
VerdictStands ==
    /\ ~PoolsStage0 => \A d \in Drivers :
          /\ told[Stage0Part] = "no"  => Verdict(d) = "excluded at stage0"
          /\ told[Stage0Part] = "yes" => Verdict(d) \notin {"not run", "excluded at stage0"}
    /\ \A d \in Drivers :
          /\ told[Stage2aPart(d)] = "no" =>
                Verdict(d) \in {"not run", "excluded at stage0", "excluded at stage2a"}
          /\ told[Stage2aPart(d)] = "yes" =>
                /\ Verdict(d) \notin {"passed stage0", "excluded at stage2a"}
                /\ Cell("W", d).total = TaskCount["W"] * Repetitions["W"]
          /\ told[Stage2bPart(d)] = "yes" =>
                /\ Verdict(d) # "passed stage2a"
                /\ Cell("T", d).total = TaskCount["T"] * Repetitions["T"]
=============================================================================
