----------------------------- MODULE StageRunner -----------------------------
(***************************************************************************)
(* The resumable stage runner of harness/stages.py with the results        *)
(* directory it writes: raw JSONL files, transcripts and environment.json. *)
(*                                                                         *)
(* One harness process runs one command at a time.  A command is a         *)
(* sequence of parts (run_stage or run_stage1 calls); a part opens a model *)
(* session, captures the environment, snapshots the run keys its raw file  *)
(* already holds, walks the (task, repetition) pairs in order, runs those  *)
(* not in the snapshot and appends one record for each.  The process may   *)
(* die at any step (an exception that leaves the stage, a kill, a power    *)
(* cut); only the files survive, and re-running the command is the resume. *)
(*                                                                         *)
(* Abstractions.  One configuration (configurations share no file).  A     *)
(* (task, repetition) pair is its index in the loop order, a slot.  A      *)
(* record keeps the fields that identify the run and say what it was taken *)
(* under; an environment hash is the number of its capture, because every  *)
(* capture holds instant readings and so hashes differently.  A            *)
(* transcript's content is the capture it was run under.                   *)
(***************************************************************************)
EXTENDS Integers, Sequences

CONSTANTS
    Commands,        \* the invocations considered: records [cmd, driver, ctx]
    Slots,           \* number of (task, repetition) pairs of a suite
    MinContext,      \* Task.min_context of the slot's task
    AdvertisedMax,   \* advertised_max_context of the configuration
    Faults,          \* whether processes die and writes are torn
    MaxSessions,     \* bound: environment captures considered
    MaxVersion       \* bound: task_set_version bumps considered

CommandNames == {"stage0", "stage1", "stage2a", "stage2b", "stage3",
                 "stage5b-compact", "stage5b-sampling"}

\* harness/stages.py main(): every subcommand but "run", which issues some of
\* these one after another.  A subcommand without --driver or --context has
\* them fixed to the value its runner hard-codes.
Invocations ==
    [cmd : CommandNames, driver : {"native", "pi"}, ctx : Nat]

ASSUME ConstantsAssumption ==
    /\ Commands \subseteq Invocations
    /\ Slots \in Nat \ {0}
    /\ MinContext \in [1..Slots -> Nat]
    /\ AdvertisedMax \in Nat
    /\ Faults \in BOOLEAN
    /\ MaxSessions \in Nat
    /\ MaxVersion \in Nat \ {0}

-----------------------------------------------------------------------------
(* What each command runs, and where it writes.                            *)

Part(ctx, stage, arm, suite, label) ==
    [ctx |-> ctx, file |-> <<stage, arm>>, suite |-> suite, label |-> label]

\* The driver's part of a raw file name: "stage2a.jsonl", "stage2a-pi.jsonl".
Arm(driver) == IF driver = "native" THEN "" ELSE driver

CompactLabelNative == "native"

CompactLabel == "native-compact"

SampledLabel(driver) ==
    IF driver = "native" THEN "native-sampled" ELSE "pi-sampled"

Stage0Parts(c) == <<Part(c.ctx, "stage0", "", "0", "native")>>

\* STAGE1_CONTEXT; stage3 runs at the larger one.
Context8K  == 8192
Context16K == 16384

Stage1Parts(c) ==
    << Part(Context8K, "stage1", "", "1", "native"),
       Part(Context16K, "stage1", "", "1", "native") >>

Stage2aParts(c) == <<Part(c.ctx, "stage2a", Arm(c.driver), "W", c.driver)>>

Stage2bParts(c) == <<Part(c.ctx, "stage2b", Arm(c.driver), "T", c.driver)>>

\* Both suites go to one file per driver.
Stage3Parts(c) ==
    << Part(Context16K, "stage3", Arm(c.driver), "W", c.driver),
       Part(Context16K, "stage3", Arm(c.driver), "T", c.driver) >>

CompactParts(c) ==
    << Part(c.ctx, "stage5b-compact-w", "", "W", CompactLabel),
       Part(c.ctx, "stage5b-compact-t", "", "T", CompactLabel) >>

\* The file name does not depend on the driver; the label does.
SamplingParts(c) ==
    << Part(c.ctx, "stage5b-sampling-w", "", "W", SampledLabel(c.driver)),
       Part(c.ctx, "stage5b-sampling-t", "", "T", SampledLabel(c.driver)) >>

PartsOf(c) ==
    CASE c.cmd = "stage0"           -> Stage0Parts(c)
      [] c.cmd = "stage1"           -> Stage1Parts(c)
      [] c.cmd = "stage2a"          -> Stage2aParts(c)
      [] c.cmd = "stage2b"          -> Stage2bParts(c)
      [] c.cmd = "stage3"           -> Stage3Parts(c)
      [] c.cmd = "stage5b-compact"  -> CompactParts(c)
      [] c.cmd = "stage5b-sampling" -> SamplingParts(c)

AllParts == UNION {{PartsOf(c)[i] : i \in DOMAIN PartsOf(c)} : c \in Commands}

\* <results>/<config>-<context>/raw/<stage_name>.jsonl
CellOf(p) == <<p.ctx, p.file>>

Cells    == {CellOf(p) : p \in AllParts}
Sessions == {p.ctx : p \in AllParts}
Suites   == {p.suite : p \in AllParts}
Labels   == {p.label : p \in AllParts}

Records == [suite : Suites, slot : 1..Slots, label : Labels,
            version : Nat, env : Nat]

\* results.run_key: neither the driver nor the context is in it.
RunKey(r) == <<r.suite, r.slot>>

RunIdWithoutDriver(p, s) == <<p.ctx, "native", p.suite, s>>

\* The transcript path: the session's directory and the record's run_id.
RunId(p, s) == <<p.ctx, p.label, p.suite, s>>

TranscriptPaths == {RunId(p, s) : p \in AllParts, s \in 1..Slots}

-----------------------------------------------------------------------------
VARIABLES
    \* files
    raw,           \* raw[c]: the records appended to a raw file, in order
    tail,          \* tail[c]: how the file's text ends, see AppendRecord
    envFile,       \* envFile[ctx]: the capture environment.json holds, 0 if none
    transcripts,   \* transcripts[path]: capture of the run it shows, 0 if none
    checkout,      \* TASK_SET_VERSION of the working tree
    \* the harness process
    pc,            \* its next step, "idle" when no process runs
    code,          \* TASK_SET_VERSION it imported
    todo,          \* parts of the command it has not returned from
    env,           \* capture of the open session
    existing,      \* run keys snapshotted at resume
    cursor,        \* slot the loop stands at
    outcome,       \* what the last run_stage call returned
    \* history
    captures       \* what each capture recorded, by number

files   == <<raw, tail, envFile, transcripts>>
process == <<pc, code, todo, env, existing, cursor, outcome>>
vars    == <<files, checkout, process, captures>>

NoOutcome == [status |-> "none", part |-> <<>>, records |-> <<>>]

part == Head(todo)
cell == CellOf(part)

KeysIn(c) == {RunKey(raw[c][i]) : i \in DOMAIN raw[c]}

Readable(c) == tail[c] # "garbled"

Init ==
    /\ raw = [c \in Cells |-> <<>>]
    /\ tail = [c \in Cells |-> "newline"]
    /\ envFile = [x \in Sessions |-> 0]
    /\ transcripts = [t \in TranscriptPaths |-> 0]
    /\ checkout = 1
    /\ pc = "idle"
    /\ code = 1
    /\ todo = <<>>
    /\ env = 0
    /\ existing = {}
    /\ cursor = 1
    /\ outcome = NoOutcome
    /\ captures = <<>>

-----------------------------------------------------------------------------
(* The operator.                                                           *)

Start(c) ==
    /\ pc = "idle"
    /\ Len(captures) + Len(PartsOf(c)) <= MaxSessions
    /\ pc' = "open"
    /\ code' = checkout
    /\ todo' = PartsOf(c)
    /\ outcome' = NoOutcome
    /\ UNCHANGED <<files, checkout, env, existing, cursor, captures>>

\* A bump may land in the working tree while a process runs; the process
\* keeps the version it imported.
BumpVersion ==
    /\ checkout < MaxVersion
    /\ checkout' = checkout + 1
    /\ UNCHANGED <<files, process, captures>>

\* Moving a raw file away, as SessionMismatchError asks.  Transcripts and
\* environment.json stay where they are.
Archive(c) ==
    /\ pc = "idle"
    /\ raw[c] # <<>> \/ tail[c] # "newline"
    /\ raw' = [raw EXCEPT ![c] = <<>>]
    /\ tail' = [tail EXCEPT ![c] = "newline"]
    /\ UNCHANGED <<envFile, transcripts, checkout, process, captures>>

-----------------------------------------------------------------------------
(* The process.                                                            *)

Volatile == /\ env' = 0
            /\ existing' = {}
            /\ cursor' = 1

ReturnAndOpen(status, records) ==
    /\ outcome' = [status |-> status, part |-> part, records |-> records]
    /\ todo' = Tail(todo)
    /\ pc' = "open"
    /\ Volatile

\* run_stage returns; the command goes on to its next part whatever the status.
Return(status, records) ==
    /\ outcome' = [status |-> status, part |-> part, records |-> records]
    /\ todo' = Tail(todo)
    /\ pc' = IF Tail(todo) = <<>> THEN "idle" ELSE "open"
    /\ Volatile

\* An exception leaves the command, or the process is killed.
Dies ==
    /\ pc' = "idle"
    /\ todo' = <<>>
    /\ outcome' = NoOutcome
    /\ Volatile

Die ==
    /\ Faults
    /\ pc # "idle"
    /\ Dies
    /\ UNCHANGED <<files, checkout, code, captures>>

DeclaredUnsupported ==
    /\ pc = "open"
    /\ part.ctx > AdvertisedMax
    /\ Return("unsupported", <<>>)
    /\ UNCHANGED <<files, checkout, code, captures>>

LoadOversized ==
    /\ pc = "open"
    /\ part.ctx <= AdvertisedMax
    /\ Return("oversized", <<>>)
    /\ UNCHANGED <<files, checkout, code, captures>>

LoadModel ==
    /\ pc = "open"
    /\ part.ctx <= AdvertisedMax
    /\ pc' = "loaded"
    /\ UNCHANGED <<files, checkout, code, todo, env, existing, cursor, outcome, captures>>

CaptureOnce ==
    /\ pc = "loaded"
    /\ pc' = "captured"
    /\ \/ /\ envFile[part.ctx] = 0
          /\ captures' = Append(captures,
                [ctx |-> part.ctx, label |-> part.label, version |-> code])
          /\ envFile' = [envFile EXCEPT ![part.ctx] = Len(captures')]
       \/ /\ envFile[part.ctx] # 0
          /\ UNCHANGED <<captures, envFile>>
    /\ env' = envFile'[part.ctx]
    /\ UNCHANGED <<raw, tail, transcripts, checkout, code, todo, existing, cursor, outcome>>

\* environment.capture writes environment.json before the raw file is looked at.
Capture ==
    /\ pc = "loaded"
    /\ pc' = "captured"
    /\ captures' = Append(captures,
          [ctx |-> part.ctx, label |-> part.label, version |-> code])
    /\ envFile' = [envFile EXCEPT ![part.ctx] = Len(captures')]
    /\ env' = Len(captures')
    /\ UNCHANGED <<raw, tail, transcripts, checkout, code, todo, existing, cursor, outcome>>

VersionUnchecked(c) == TRUE

VersionMatches(c) == \A i \in DOMAIN raw[c] : raw[c][i].version = code

SnapshotNothing(c) == {}

Snapshot(c) == KeysIn(c)

Resume ==
    /\ pc = "captured"
    /\ Readable(cell)
    /\ VersionMatches(cell)
    /\ existing' = Snapshot(cell)
    /\ cursor' = 1
    /\ pc' = "loop"
    /\ UNCHANGED <<files, checkout, code, todo, env, outcome, captures>>

\* read_records cannot parse the file, or SessionMismatchError.
Refuse ==
    /\ pc = "captured"
    /\ ~Readable(cell) \/ ~VersionMatches(cell)
    /\ Dies
    /\ UNCHANGED <<files, checkout, code, captures>>

\* Task.min_context is looked at by run_stage and not by run_stage1.
TooSmallFor(p, s) == p.suite # "1" /\ MinContext[s] > p.ctx

SkipsLongOnly(s) == TooSmallFor(part, s)

SkipsAnySuite(s) == TooSmallFor(part, s) \/ \E key \in existing : key[2] = s

Skips(s) == TooSmallFor(part, s) \/ <<part.suite, s>> \in existing

SkipSlotForever ==
    /\ pc = "loop"
    /\ cursor <= Slots
    /\ Skips(cursor)
    /\ UNCHANGED vars

SkipSlot ==
    /\ pc = "loop"
    /\ cursor <= Slots
    /\ Skips(cursor)
    /\ cursor' = cursor + 1
    /\ UNCHANGED <<files, checkout, pc, code, todo, env, existing, outcome, captures>>

\* _record_for runs the task and writes the transcript before the record
\* exists; _stage1_record has no transcript.
RunTask ==
    /\ pc = "loop"
    /\ cursor <= Slots
    /\ ~Skips(cursor)
    /\ transcripts' = IF part.suite = "1" THEN transcripts
                      ELSE [transcripts EXCEPT ![RunId(part, cursor)] = env]
    /\ pc' = "ran"
    /\ UNCHANGED <<raw, tail, envFile, checkout, code, todo, env, existing, cursor,
                   outcome, captures>>

NewRecord ==
    [suite |-> part.suite, slot |-> cursor, label |-> part.label,
     version |-> code, env |-> env]

\* How a file ends: "newline", its last line is whole; "bare", its last line is
\* a whole record whose newline is missing; "garbled", some line is not JSON.
\* A record appended behind a bare one lands on the same line, and json.loads
\* then rejects that line.
TailAfterLine(end) == IF end = "newline" THEN "newline" ELSE "garbled"

TruncatingAppend ==
    /\ pc = "ran"
    /\ raw' = [raw EXCEPT ![cell] = <<NewRecord>>]
    /\ tail' = [tail EXCEPT ![cell] = "newline"]
    /\ cursor' = cursor + 1
    /\ pc' = "loop"
    /\ UNCHANGED <<envFile, transcripts, checkout, code, todo, env, existing,
                   outcome, captures>>

AppendRecord ==
    /\ pc = "ran"
    /\ raw' = [raw EXCEPT ![cell] = Append(@, NewRecord)]
    /\ tail' = [tail EXCEPT ![cell] = TailAfterLine(@)]
    /\ cursor' = cursor + 1
    /\ pc' = "loop"
    /\ UNCHANGED <<envFile, transcripts, checkout, code, todo, env, existing,
                   outcome, captures>>

\* The write stops short (disk full, power cut): the file keeps a prefix of
\* the line, which is torn JSON or the whole record without its newline.
TearRecord ==
    /\ Faults
    /\ pc = "ran"
    /\ \A c \in Cells \ {cell} : tail[c] = "newline"     \* bound: one damaged file
    /\ \/ /\ tail' = [tail EXCEPT ![cell] = "garbled"]
          /\ UNCHANGED raw
       \/ /\ tail[cell] = "newline"
          /\ tail' = [tail EXCEPT ![cell] = "bare"]
          /\ raw' = [raw EXCEPT ![cell] = Append(@, NewRecord)]
    /\ Dies
    /\ UNCHANGED <<envFile, transcripts, checkout, code, captures>>

\* The loop is over: the session closes and the file is read back.
Finish ==
    /\ pc = "loop"
    /\ cursor > Slots
    /\ Readable(cell)
    /\ Return("completed", raw[cell])
    /\ UNCHANGED <<files, checkout, code, captures>>

FinishUnreadable ==
    /\ pc = "loop"
    /\ cursor > Slots
    /\ ~Readable(cell)
    /\ Dies
    /\ UNCHANGED <<files, checkout, code, captures>>

ProcessStep ==
    \/ DeclaredUnsupported \/ LoadOversized \/ LoadModel
    \/ Capture \/ Resume \/ Refuse
    \/ SkipSlot \/ RunTask \/ AppendRecord \/ Finish \/ FinishUnreadable

Next ==
    \/ \E c \in Commands : Start(c)
    \/ BumpVersion
    \/ \E c \in Cells : Archive(c)
    \/ ProcessStep
    \/ TearRecord
    \/ Die

\* A running process takes its next step (every wait of the harness has a
\* timeout).  Nothing obliges the operator to act, or a process to die.
Spec == Init /\ [][Next]_vars /\ WF_vars(ProcessStep)

-----------------------------------------------------------------------------
(* Properties.                                                             *)

\* Every variable stays in its range; a running process has a part to run, and a
\* run waiting to be recorded has a slot of it.
TypeOK ==
    /\ raw \in [Cells -> Seq(Records)]
    /\ tail \in [Cells -> {"newline", "bare", "garbled"}]
    /\ envFile \in [Sessions -> Nat]
    /\ transcripts \in [TranscriptPaths -> Nat]
    /\ checkout \in Nat
    /\ pc \in {"idle", "open", "loaded", "captured", "loop", "ran"}
    /\ code \in Nat
    /\ todo \in Seq(AllParts)
    /\ (pc # "idle") => todo # <<>>
    /\ env \in Nat
    /\ existing \subseteq (Suites \X (1..Slots))
    /\ cursor \in 1..(Slots + 1)
    /\ (pc = "ran") => cursor <= Slots
    /\ outcome.status \in {"none", "unsupported", "oversized", "completed"}
    /\ captures \in Seq([ctx : Sessions, label : Labels, version : Nat])

\* A raw file holds at most one record of a run, over any number of sessions,
\* kills and torn writes: the loop trusts a snapshot of the file taken before it
\* started, which stage3's two suites and a re-run both rely on
\* (results.existing_keys and the skip in run_stage).
RecordedOnce ==
    \A c \in Cells : \A i, j \in DOMAIN raw[c] :
        RunKey(raw[c][i]) = RunKey(raw[c][j]) => i = j

\* No raw file pools two task_set_versions, also when the working tree is bumped
\* while a stage runs (_check_task_set_version_matches).
OneVersionPerFile ==
    \A c \in Cells : \A i, j \in DOMAIN raw[c] : raw[c][i].version = raw[c][j].version

\* Stage 3 runs both suites at 16384 into files of its own.  Where stage2a or stage2b
\* has been asked for that context too, two files of a session have the same runs.
RepeatedByStage3(c) ==
    c[1] = Context16K /\ c[2][1] \in {"stage2a", "stage2b", "stage3"}

StagesDiffer(c, d) == (c[2][1] = "stage3") # (d[2][1] = "stage3")

\* The report pools all raw files of a session and tells runs apart by suite, task,
\* repetition and driver label only.  No run is in two files of a session under one
\* label, so nothing is counted twice, at 8192 and wherever stage3 and the stages it
\* repeats do not meet.
ReportCountsOnce ==
    \A c, d \in Cells : \A i \in DOMAIN raw[c], j \in DOMAIN raw[d] :
        /\ c[1] = d[1]
        /\ RunKey(raw[c][i]) = RunKey(raw[d][j])
        /\ raw[c][i].label = raw[d][j].label
        => \/ c = d /\ i = j
           \/ RepeatedByStage3(c) /\ RepeatedByStage3(d) /\ StagesDiffer(c, d)

\* A task that is about to be recorded is not on disk already, so a resumed stage
\* neither repeats a run nor overwrites the transcript of a recorded one.
NeverRedone == pc = "ran" => <<part.suite, cursor>> \notin KeysIn(cell)

\* A stage that reports "completed" hands its gate every run it could make at this
\* context, whichever sessions made them: the gates divide by what they are handed.
CompletedIsWhole ==
    outcome.status = "completed" =>
        LET p   == outcome.part
            got == {outcome.records[i] : i \in DOMAIN outcome.records}
        IN {r.slot : r \in {q \in got : q.suite = p.suite}}
              = {s \in 1..Slots : ~TooSmallFor(p, s)}

\* A recorded agent run has its transcript on disk, never an earlier one, and the one
\* of that very run unless stage3 and a stage it repeats share its path.
TranscriptKept ==
    \A c \in Cells : \A i \in DOMAIN raw[c] :
        LET r    == raw[c][i]
            kept == transcripts[RunId([ctx |-> c[1], label |-> r.label, suite |-> r.suite],
                                      r.slot)]
        IN r.suite # "1" => kept = r.env \/ (RepeatedByStage3(c) /\ kept > r.env)

\* The environment a record names was captured for its own context, driver label
\* and task_set_version, never for another stage of the same session directory.
EnvironmentIsTheRuns ==
    \A c \in Cells : \A i \in DOMAIN raw[c] :
        LET r == raw[c][i]
        IN captures[r.env] = [ctx |-> c[1], label |-> r.label, version |-> r.version]

Lines(c) == {raw[c][i] : i \in DOMAIN raw[c]}

Ledger == INSTANCE RunLedger WITH ledger <- [c \in Cells |-> Lines(c)]

\* The files implement the ledger a reader relies on: they only grow, one new run
\* of the file's version at a time, or are archived whole.
ImplementsLedger == Ledger!LedgerSpec

\* A command that was started comes to an end: the loop passes over recorded and
\* over too-small slots alike and reaches the end of every part.
CommandReturns == (pc # "idle") ~> (pc = "idle")

-----------------------------------------------------------------------------
(* What the repository says and the code does not keep.                    *)

\* environment.py: "the environment a result was taken under is always
\* retrievable".  A record's environment is the one environment.json holds.
EnvironmentRetrievable ==
    \A c \in Cells : \A i \in DOMAIN raw[c] : envFile[c[1]] = raw[c][i].env

\* run_stage's docstring: "Records from different drivers are never pooled".  A
\* stage that completes under one driver hands over that driver's records.
DriversNeverPooled ==
    outcome.status = "completed" =>
        \A i \in DOMAIN outcome.records : outcome.records[i].label = outcome.part.label
=============================================================================
