# Verification of the agentissima harness

agentissima is a benchmark for local language models used as agents. Its program is
the Python harness under `src/harness/`: it runs task suites against models served by
LM Studio, through one of two agent drivers, executes the agents' commands in a docker
container or on the host, and records every run in JSON lines files from which a report
is made. This directory holds TLA+ models of that program, TLC runs that check them on
small instances and TLAPS proofs for every size. The source is the reference for all of
it; `PROJECT.json` maps every definition to the lines it stands for.

## The system

| Component | State it keeps | Operations | Where | Modelled in |
|---|---|---|---|---|
| Stage runner, results files | raw JSONL files, transcripts, `environment.json`; in the process: the session's run keys, the loop position | every subcommand of `main`, `run_stage`, `run_stage1`, `_model_session`, `append_record`, `existing_keys`; the operator's archiving | `stages.py`, `results.py`, `version.py` | `StageRunner` |
| Stage gates and sequencing | the outcomes of earlier stages | `run_stages`, `STEPS`, the Stage 0 and 2A gates | `stages.py` | `StageSequence` |
| Report | none; reads all raw files | `_verdict`, `suite_summary`, pooling, tables | `report.py` | `StageSequence`, in part |
| Run workspace, grading | run directories, their permissions | `prepared`, `run_task`, `grade`, `sweep_stale` | `runner.py`, `paths.py`, `scoring.py` | `RunWorkspace` |
| Host execution | processes of the host | `HostExecutor.run`, `spawn`, `_kill_group` | `execution.py` | `RunWorkspace` |
| Tool container | docker's containers, the processes in one | `container_session`, `run`, `spawn`, `_exec` | `container.py` | `ModelBracket`, `ContainerExec` |
| Model lifecycle | LM Studio's resident models | `loaded`, `load`, `unload_all`, `list_loaded`, `resolve` | `lmstudio.py` | `ModelBracket` |
| Native agent loop | messages, counters, deadline of a run | `NativeDriver.__call__` | `driver_native.py` | `NativeLoop` |
| Tools and sandbox | the run's copy of the fixture | `dispatch`, `write_file`, `run_command`, the reading tools | `tools.py`, `sandbox.py` | `NativeLoop`, `RunWorkspace`, in part |
| Streaming client | one streamed turn | `stream_turn`, `consume_stream` | `client.py` | `StreamedTurn` |
| pi driver | the output of a pi process | `PiDriver.__call__`, `_outcome_from_output` | `driver_pi.py` | `ContainerExec`, `PiLog` |
| Metrics | the sampler thread, the swap window, the process found | `MemorySampler`, `SwapWindow`, `find_inference_pid`, Stage 1's retry | `metrics.py`, `stages.py` | `Measurement` |
| Environment capture | `environment.json` | `capture`, `_assert_resident_state` | `environment.py` | `StageRunner`, `ModelBracket`, in part |
| Admissibility | none | `classify_declared` and the load failure's text | `admissibility.py` | `StageRunner`, in part |
| Sampling defaults | none | precedence of stated values; GGUF metadata | `sampling.py`, `gguf_meta.py` | not |
| Suites, prompts, assertions, oracle, gates command | none: data and pure checks | | `tasks/`, `prompt.py`, `assertions.py`, `oracle.py`, `gates.py`, `smoke.py` | not |
| Setup probes | none | one-shot scripts | `src/setup/` | not |

How they meet. A subcommand is a sequence of `run_stage` calls; `run` puts gates between
them. Each opens a model session: a tool container, inside it a loaded model, inside it the
environment capture and the snapshot of what the raw file already holds. The stage walks
tasks and repetitions, calls `run_task` for those not in the snapshot, which copies the
fixture, calls a driver and grades the copy, and appends one record. The native driver runs
the agent loop in the harness process, assembles each turn from streamed deltas and sends
commands to the container; the pi driver starts the pi program in the container and reads
its event log. The harness is single-threaded but for the memory sampler. What makes it hard
is everything around it: a run takes hours and is killed and resumed, a version may be
bumped between or during runs and files archived between them, LM Studio, docker and the
runs root are shared with other harness processes and the operator, every command may hang
or time out with its effect done, and the model may send anything.

What makes each part correct: the files hold each run once, under one version, with its
own transcript and environment, and a re-run does what is missing and nothing else; what
a gate let through stays justified by the files, and the report says what the sequence
decided; a stage meets its own model and container and leaves neither behind; a run's
directory is whole while it is used and gone afterwards, and the readings its grade is
made of agree; an agent run ends by the published table and its record agrees with its
transcript; a turn or a log is read as it was sent; a command's result is what became of
the command; a record's figures are of one attempt. The hazards behind these sentences
are listed, each at its line, in `PROJECT.json`.

## The modules

| Module | Models | Composition |
|---|---|---|
| `RunLedger` | what a results directory promises: each file is a set of distinct runs of one version that grows by one, or is archived whole | abstract |
| `StageRunner` | commands, parts, sessions, resume, skip, run, append, return; crash, torn write, version bump, archive | implements `RunLedger` |
| `StageSequence` | `run` and its gates over the files, stages started by themselves, the report's verdict and cells | takes a stage's inside from `StageRunner` as one record at a time; implements `RunLedger` too |
| `LoopTermination` | the table of doc/benchmark.md §4.8 over the turns and calls of a run | abstract |
| `NativeLoop` | the native driver's loop with dispatch and `write_file` | implements `LoopTermination` |
| `StreamedTurn` | one turn put together from chunks | one turn of `NativeLoop` |
| `PiLog` | pi's event log and what is read out of it | the output of a spawn of `ContainerExec` |
| `DriverStreams` | a run reads one of the two | composes `StreamedTurn` and `PiLog` |
| `ModelBracket` | `container_session` around `loaded`, by several processes at shared servers | |
| `ContainerExec` | `run`, `spawn`, `_exec` with timeout(1) in the container, and pi's outcome | |
| `RunWorkspace` | run directories of several processes, the host's commands in them, grading, the sweep | |
| `Measurement` | sampler threads beside the main thread, the swap window, Stage 1's retry | |
| `MC...` | values of the constants for TLC | |
| `...Proofs` | theorems about the module of that name | |

**StageRunner.** `raw`, `tail`, `transcripts` and `envFile` are the files; `tail` says
whether a file's last line is whole, lacks its newline or is torn. `checkout` is the
version in the working tree, `code` the one the running process imported. `todo` holds
the parts the command still has to run, `existing` the keys read at resume, `cursor`
the loop position. A part is one `run_stage` call, as the tables `...Parts` translate
it from the dispatch in `main`. `LoadModel`, `Capture`, `Resume` or `Refuse` open the
session in the code's order (the environment is written before the version is
checked); `SkipSlot`, `RunTask`, `AppendRecord` are one turn of the loop (the transcript
is written by `RunTask`, the record by `AppendRecord`, and a process may die between);
`Finish` reads the file back. `Die` and `TearRecord` lose the process and keep the
files. `captures` is a history of what was captured for which run.

**StageSequence.** `raw` is every record on disk, `names` the stages a `run` has not come
back from, `todo` the parts of the stage under way (Stage 1 is one part per context).
`StartRun` is `run` with any list of stages the operator gives to `--stages`, in any order,
`StartStandalone` another subcommand, `Archive` the removal of a raw file between commands.
`Load` or `PartRefused`, then `RunTask` once per missing run, then `PartProceeds` or
`PartStops` by `Proceeds`, the registry's gate over the part's file. `Die` drops the command
and keeps the files. The gates are pure operators over records (`PassedByMajority`,
`TasksPassed`, `TotalProgress`), and so are the report's `Verdict` and `Cell`, which read
all files. Three histories carry the properties: `past`, the stages this `run` has gone on
from; `behind`, the gates behind which some `run` has recorded a run; `told`, what the last
command to complete a gate's part heard of it. A list is the operator's choice, so a gate
that is not in the list, or comes later in it, puts nothing behind it: `run --stages
stage2b` runs Stage 2B ungated, although the docstring of `run_stage2b` (stages.py:583) says
that `run_stages` only calls it once Stage 2A has proceeded. The properties are stated of
the gates that were listed.

**NativeLoop.** The variables carry the names of the locals of `__call__`. `Ask` is the
request (with the history that `compact` mode sends, `Sent`), `Answers`,
`CallsTools`, `ServerError` and `ClientRaises` what may come back, `Dispatch` one turn
of the loop over the tool calls with its counters, `OutOfSteps` and `OutOfTime` the
loop's head. The deadline is looked at between turns only, as in the code.

**StreamedTurn.** The server has a message of numbered pieces and cuts it as it likes. A
chunk is read in steps, as the body of the loop in `consume_stream` reads it: `SendChunk`
takes its texts and the first time, `SendCall` one of its pieces of calls (as many steps as
the chunk has pieces, several of one call included, each into the fragment of its index,
0 where it is missing), `EndChunk` its finish reason. What the rest of a chunk holds is
chosen as it is read, which is the same as choosing the chunk first, because nothing else
runs meanwhile. `SendUsage` is a last chunk with the token count, `EndOfStream` may come
early, `Break` is an exception; they come between chunks.

**PiLog.** pi settles messages and prints an event for each; `Killed` tears a line
anywhere. `Transcript`, `Steps`, `CallsMade`, `ResultsFor`, `Answered` and
`TurnsMetered` are what `_outcome_from_output` computes from the lines; each picks items
out of a sequence (`Where`), as the comprehensions of the code do.

**ModelBracket.** `resident` and `containers` are LM Studio's and docker's state, shared
by all processes. Each step of a session is one command with its outcomes: done,
failed, timed out with or without effect. `calm`, `took` and `left` are history:
whether others used LM Studio, how far the session came and how it was left. LM
Studio's identifier `bench` is the same for every process and nothing locks it.

**ContainerExec.** A call is a leader, one member of its process group and one stray
outside it; `alarm` and `top` are timeout(1)'s, `pc` is the host waiting for the docker
client or firing the backstop. The client returns the status of timeout(1) (`ClientReturns`)
or, where docker fails, ends with a status of its own while the command runs on
(`ClientFails`), which the host cannot tell from the command's; the history `lost` names
those calls, and `ResultIsHonest` and `SurvivorsKnown` except them. Nothing ends by itself
under fairness: only the alarms and the host do. `Termination` is how the pi driver
classifies the result.

**RunWorkspace.** `dir` is each run's directory with its mode (0555 is `sealed`), its tree,
its age and whether the agent made a directory in it unwritable (`locked`, `Chmod`); `pc` is
where `run_task` is. `leader` is the process `Popen` started, `alive` the others of the
command under way, told apart by whether they stay in its process group and keep its pipe
open, `survivors` those of calls that have returned. `KillGroup` gives what a kill may
leave: what is outside the group, or, where the leader had exited and was not yet waited
for, everything, since `_kill_group` ignores the error that `getpgid` or `killpg` may then
raise. A `spawn` whose time is up then waits, without a limit, for whoever still holds its
pipe (`Drained`). So a process gets away from its call in four ways: out of the group, put
in the background by a command that ended in time, left by such a failing kill, or running
at an interrupt (`escaped`, a history). `prepared` is one action per system call; its
`finally` runs on return and on exceptions and not on a kill. `Rmtree` is what
`rmtree(ignore_errors=True)` may leave: the emptied root of a sealed directory, an
unwritable directory with what is in it, or what a live process wrote meanwhile. A sweep
lists the runs root and visits old directories one at a time, beside everything else;
`counted` is its history.

**Measurement.** Each attempt has a sampler: `SampleBegins`, `SampleEnds`, `Compare` and
`LoopEnds` are its thread, in which the reading and the comparison with the peak are
apart. The main thread is `Discover`, then `Begin`, `EnterWindow`, `Work` or `Raise`,
`LeaveWindow`, `SetStop`, `JoinReturns` or `JoinTimesOut`, then the record or the second
attempt. `highest`, `slow` and `misread` are history.

## What is checked

Runs that pass:

| Run | Question | Bounds, and why they are enough |
|---|---|---|
| `Sessions` | do the files stay a ledger of distinct runs, each with its own transcript and environment, and does the runner implement `RunLedger`, with two arms of Stage 2A and the compaction experiment in one session, and Stage 3 and Stage 2A under pi, which share runs, in another | 2 slots (one done, one not), 3 captures (a run, its resume, another arm), 2 versions, faults |
| `Session16K` | does a completed stage hand over all it could run, does each command return; Stage 3's two suites in one file, contexts under and above what tasks and model allow | as above |
| `Sequence` | is what was run behind a gate backed by a whole file and the gate's yes, does the report say what the commands heard; both drivers over one set of files, with kills, re-runs, refused loads, archiving and Stage 2B at Stage 3's context under pi in between | three lists of stages: all four, 2A and 2B alone, and 2B before 0; one task per suite, suite W by 2 repetitions, whose outcomes make a majority, a tie with a mean of exactly 2.5 and a no; Stage 0 with and without a valid call |
| `AgentRun` | do the counters, requests and the record mean what they say; does the run end by the table | 4 turns of up to 2 calls, limits 3 and 5 as in the code, so that both limits, and both at once, are reached within and across turns; both history modes; four calls: unknown tool, broken arguments, a write, a write that raises |
| `Streams` | is what is read what was sent | content in 2 pieces, reasoning, two calls of 2 and 1 pieces, up to 7 chunks: every cut and interleaving, with empty and crowded chunks, several pieces of one call and of two in a chunk, the index 0 sent or missing; pi logs of 2 turns of up to 2 calls |
| `SharedServers` | does a stage have its model and its container; what is left behind and when; do sessions end | 2 processes, 2 models, 3 sessions: two at once and one that meets what an earlier one left |
| `Commands` | is a result what became of the command; what survives a call; do calls return and does pi die | 2 calls, of either kind, with every mix of members and strays; docker failing at every step, its client with a status of its own included |
| `Workspaces` | is a live directory safe from sweeps, do the readings of a grade agree, is anything left behind | 2 runs in two processes, one native with conditions and one pi with pytest; background processes in and out of the group, those in it with the pipe open (the case of the failing group kill); an unwritable directory, a sweep, exceptions, kills |
| `Sampling` | are a record's figures those of one attempt and of the backend, does the command end | two readings of memory and of swap, a backend and a helper whose RSS exceeds the backend's; both attempts of Stage 1, each with its thread |

Runs that end in a counterexample, each a place where the code does not do what a
comment or the document says:

| Run | What happens |
|---|---|
| `SamplingPooled` | the sampling pass under pi, after native, runs nothing and completes with native's records |
| `SealedLeftover` | a run killed while its directory is sealed: the sweep counts it as removed and leaves it |
| `BrokenLine` | a message with U+2028 in it: `splitlines()` cuts its event and `agent_end`, and a settled run is read as one that did not settle |

Other disagreements, described under "findings" in `PROJECT.json`. The first five can be
seen by adding the named invariant or property to an existing configuration:

| Definition | Configuration | What happens |
|---|---|---|
| `EnvironmentRetrievable` | `Sessions` | a second stage's capture overwrites the `environment.json` that the first stage's records name |
| `RequestsAnswered` | `AgentRun` with `MissingIds = TRUE` | for a call without an id, the assistant message and the answer make up different ones |
| `DispatchNeverRaises` | `AgentRun` | `write_file` on a directory raises out of `dispatch`, the run and the stage |
| `AbortStrandsNothing` | `SharedServers` | a load that times out but takes effect leaves its model resident |
| `OverrunIsTimeout` | `Commands` | a pi that ignores TERM ends with 137 and is recorded as `server_error`, not `timeout` |
| | | members of a process group that ignore TERM survive when their leader dies, though the document says the whole group is reaped |
| | | `spawn` never passes its marker, so that the backstop cannot match a pi process |
| | | `find_inference_pid` compares a helper's footprint with the backend's RSS where `footprint` fails for the backend (the exception `misread` in `RecordIsOneAttempt`) |
| | | the report's Stage 0 verdict pools every context, the gate saw one (hence the exception `PoolsStage0` in `VerdictStands`) |
| | | a `run` whose list has Stage 2B and not Stage 2A before it runs it ungated, although its docstring says it is called only behind the gate |
| | | `annotate_flaky` is called by no report |
| | | a second Stage 1 attempt that is short as well is recorded and used |

Other things seen while modelling and kept in the models as they are: an exception of
the client library that is no `APIError` passes through the native driver; at 16384,
Stage 3 runs under pi what Stage 2A and Stage 2B run there when asked for that context,
into files of its own and under the same transcript paths, so that the report counts
both and the later transcript overwrites the earlier (`TranscriptKept` and
`ReportCountsOnce` hold for every context and name this as their one exception);
the resident check passes when nothing is resident, so
a stage whose model was unloaded before the check starts without it (`calm =
"checked"`); archiving moves raw files and not the transcripts beside them; `lms load`
takes a key that is part of another one (`LoadsAnother`); a settled pi that has to be
killed is recorded with its answer.

What some properties leave out, so that they are not read for more: `EnvironmentIsTheRuns`
says that the capture a record names was made for its run, not that the file still holds it
(it may not: `EnvironmentRetrievable`). `RequestsAnswered` is checked with ids given. In
`BodyStrandsNothing` the body was entered, so that it says nothing of a load that fails
(`AbortStrandsNothing` does). `RecordIsOneAttempt` leaves out an attempt whose sampler
outlived its join and a process found by a misread figure, and does not speak of the swap
figures, which the window reads in the main thread.

Deadlock is not checked: every one of these programs may stop (a returned command, an
ended run, all sessions used, a message sent).

### What the models assume of the world

* A run takes less than the age at which the sweep considers a directory stale (24 h).
* The server numbers the calls of a turn, as the protocol says, and omits at most the number
  0 (`StreamedTurn`); two calls without a number would be one to the code. That it also
  gives them ids is the constant `MissingIds`.
* A line of pi's log that a separator cut is no JSON object in any of its parts, nor any
  other JSON value (`PiLog.LineOf`): a part that is a bare number would raise at `.get`.
* No process of a run changes the mode of the run's work directory itself
  (`RunWorkspace`), though it has the uid for it.
* pi's call ids are unique, and what it writes to the error stream comes as whole lines.
* pytest's verdict is on the copy as the last write before it left it.
* A helper process is smaller than the backend (`MeasurementAssumption`).

### Fairness

* `StageRunner`: weak fairness of `ProcessStep`, the running process. Every wait of
  the harness has a timeout. The operator, version bumps and deaths are not fair.
* `NativeLoop`: weak fairness of `Step`. The client gives up after its timeout, which
  is an `APIError`, and a command has a timeout of its own. The clock is not fair.
* `ModelBracket`: weak fairness of each process's `Step`; every `lms` and `docker`
  command has a timeout. Opening a session, the operator and kills are not fair.
* `ContainerExec`: weak fairness of the host's working steps and of the two alarms of each
  call. Commands, pi and docker owe nothing.
* `Measurement`: weak fairness of the main thread and of each sampler thread. Every
  reading, request and join has a timeout, and the scheduler runs both threads.
* `StageSequence`, `RunWorkspace` and `DriverStreams` state safety only and no fairness.

## What is proved

The proofs assume only the named `ASSUME`s on the constants, which TLC evaluates in
the runs, and the assumptions named with a theorem below: no bound is given a value.
The theorems a reader should know of are listed in `PROJECT.json`.

**StageRunnerProofs** (`TypeCorrect`, `RecordedAtMostOnce`, `OneVersion`, `NothingRedone`,
`RunnerImplementsLedger`, `CountedOnce`, `TranscriptsKept`, `EnvironmentsMatch`,
`CompletedStagesAreWhole`, `CommandsAreFinite`). That a file holds a run once is not
inductive: the loop appends without looking at the file. The invariant `IInv` adds what the
snapshot taken at resume still says while the loop runs: what was in the file then is still
in it or the file was archived, and whatever is in the file now and was not in the snapshot
is a slot of this suite the loop has already passed (`SnapshotInv`, `UnseenInv`). So the
slot at the cursor, if not skipped, is in neither, and the append is a `Record` step of the
ledger. Versions: every record in the open file is of the version the process imported, not
of the one in the tree. `RInv` goes on from there to what a record came from: every record
is of a part of the command tables, its environment was captured for such a part, its
transcript exists (`RecordsInv`), and every slot behind the cursor is too small for the
context or recorded (`PassedInv`). A suite, a label and whether the stage is Stage 3
determine the file in every table of commands: from this follow that the report counts a run
once and that a transcript is the record's own, each but for Stage 3 and the stages it
repeats at 16384. For the latter `SessionInv` also says that captures are numbered in order,
so that a transcript found in the place of another is a later one. `CommandsAreFinite` is
described below.

**StageSequenceProofs** (`TypeCorrect`, `OnlyBehindOpenGates`, `VerdictsStand`,
`SequenceImplementsLedger`). For every set of lists, in every order: what a `run` records
behind a gate it has gone on from has that gate's file whole and its yes, until that file is
archived. A whole file stays as it is, because every part that writes it runs the same
slots; so a gate computed over it cannot change its mind, whatever it computes: the proof
never opens a gate. The one thing that could break this is a stage started by itself that
writes a gate's file for another suite, and the one assumption excludes it: at 8192 each
stage has its own suite (`StandaloneKeepFiles`, as in the subcommands). What the report
makes of Stage 0 follows only while no other context's Stage 0 is pooled with it, which
`VerdictStands` says in its statement (`PoolsStage0`). The module takes the inside of a
stage as one record at a time. `SequenceImplementsLedger` says that this is right: read as
rows of run keys, its files are a behaviour of the same `RunLedger` that
`RunnerImplementsLedger` shows the stage runner to implement, an archiving being its
`Retire`.

**NativeLoopProofs** (`TypeCorrect`, `CountersCount`, `LoopImplementsTable`, `RecordsAddUp`,
`RequestsAreAnswered`, `ReasonsAreEvident`, `RunsAreFinite`). `LoopInv` says of a running
loop that its counters are the lengths of the runs of identical and of invalid calls at the
end of all calls, and that both are strictly below their limits. Lemmas on the end of a
sequence give how appending a call changes these lengths, from which the stop the loop finds
is the verdict of the table; refinement follows step by step. What is proved of the table
then holds of the loop: `ReasonsAreEvident` proves on the table that the reason of a
finished run is what its turns and calls call for (a run of identical calls is there
to see, and no call before it called for an end), and carries it over by
`LoopImplementsTable`. For requests, `TurnInv` says that the conversation is a row of
exchanges, a turn with its answers in order, of which only the last may lack answers, and
lacks those of the calls still to be dispatched; the compact history is a suffix of such a
row. It assumes `MissingIds = FALSE`.

**DriverStreamsProofs** (`TypeCorrect`, `TurnsAreWhatWasSent`, `UncutLogsAreRead`,
`LogsAreRead`). At every step of every chunk, with any number of pieces of calls in it, the
texts and fragments under construction are the first pieces the server has sent of each
(`Texts`, `Pending`), the window opens with the first chunk that carried a token and, once
the reason has come, closes no earlier than the last one (`Times`, against the histories
`began` and `latest`), and no chunk is read after the one with the reason but that with the
token counts (`Chunks`); all of it is part of `StreamInv`. Of pi's log, `LogInv` says that
the messages read back from the lines are those pi had, or all but the last one if a kill
tore its line (`AsPrinted`), and what the messages of a conversation have in common: calls
are numbered in order, answers are to calls made, none to one still open (`InOrder`).
Reading is done by recursive functions (`Compress` in `PiLog`, the library's `FlattenSeq`),
of which the provers know nothing but their definition: that a function with such an
equation exists, so that the chosen one satisfies it, and that a log grown by one line reads
as before plus perhaps one item, are inductions over the length. The library's induction
rule takes an operator, which the backends cannot instantiate, so the module derives one
over sets: a non-empty set of naturals has a least member (from the well-foundedness of
`<`), hence a set that holds 0 and the successor of each member is all of `Nat`.
`LogIsTheConversation` holds as long as no message cuts its own line (`NoneCut`), always
where the constant `Separators` is `FALSE`; that it fails otherwise is the run `BrokenLine`.

**ModelBracketProofs** (`TypeCorrect`, `OwnContainer`, `NoLeakWithoutFault`, `OwnModel`,
`NothingStranded`, `SessionsAreFinite`). `Books` says that session numbers are not shared,
that a session past its start has its container, and that containers belong to sessions that
are open or were left with a fault. `Known` says what each place of a session that has not
been disturbed knows of the resident set: empty before the load, its own model after it.

**ContainerExecProofs** (`TypeCorrect`, `HonestResult`, `Survivors`, `PiStaysUnderTimeout`,
`CallsAreFinite`). The host looks at the status of timeout(1) once and never at the
processes. `Books` therefore says what a status says of the processes for as long as the
container runs (`StatusInv`: a status other than running means the leader is gone, a KILL
means 137 and that the group is gone), and that a call the host has returned from has a
final status, was given up, or was lost with its docker client (`HostInv`, `ResultInv`). The
backstop reaches only the `timeout` of a `run` (`GoneWasRun`), so a pi that lives is under
its own, which has KILL still to send: `--kill-after` does guarantee its death, as the
comment in `spawn` says, though the host may have given the call up long before.

**RunWorkspaceProofs** (`TypeCorrect`, `LiveTreesAreWhole`, `GradesAlwaysAgree`,
`RunsLeaveNothing`). The invariant is one of each run by itself (`Sound`), so that an action
of another run or of a sweep keeps it by leaving the run alone. It says which mode and tree
a directory has at each place of `prepared`, that no live directory is old, and which
processes may be alive where: after the kill of a timed-out command's group with its leader
alive only those outside the group remain, and a call that ended in time has none; in every
other case one got away and the run's `escaped` says so. A directory that is left has one
the agent locked. Grades agree since a copy with no writer does not change between two
readings.

**MeasurementProofs** (`TypeCorrect`, `FiguresAreOneAttempts`, `MeasurementIsFinite`).
`ThreadsFollow` says which threads can be running at each place of the main thread;
`PeakLagsByOne` that a sampler's peak is the highest of its readings but for one it holds
and has not compared; `SampledIsFound` that the process found is the backend unless it could
not be read; `RecordStands` that a record once made stays that of the last attempt, whose
thread is over unless `stop` gave it up.

**Why things end.** The prover has no rule for fairness, but what a liveness property of
these programs rests on is safety, and proved: a measure in the natural numbers that is 0
exactly when the thing is over, that falls in each step owed to it and that nobody else
can raise. `CommandsAreFinite` counts the parts, slots and steps of a slot left to a
command (behind `CommandReturns`; a crash ends the command, a bump or an archiving does
not lengthen it), `RunsAreFinite` the turns and calls left to an agent run (`RunEnds`;
it says besides that the model cannot prolong a run whatever it asks for),
`SessionsAreFinite` the places of a bracket (`SessionsEnd`), `CallsAreFinite` the steps
of the host and the two alarms of a call, and that one of them is due while the call
waits (`CallReturns`; with `PiStaysUnderTimeout`, `SpawnDies`), `MeasurementIsFinite` the
main thread's steps and those of a sampler that was told to stop, the only one it waits
for (`ProcessExits`). What is left to TLC is the last inference, that a step which stays
enabled is taken.

Left to TLC: the liveness properties themselves (`CommandReturns`, `RunEnds`, `SessionsEnd`,
`SpawnDies`, `CallReturns`, `ProcessExits`), because fairness and `ENABLED` are outside what
the prover does; `LogIsTheConversation` where messages may cut their lines; and the
properties of the runs that end in a counterexample. Every safety property of a passing run
is the statement of a theorem.

## What is not modelled

* Sampling defaults: one dictionary laid over another, read once; the GGUF reader is a
  byte parser.
* Suites, prompts, assertions, the oracle, the gates and smoke commands: data and
  straight-line checks without state. A run's outcome is a choice in the models.
* Setup probes: one-shot scripts that keep no state.
* Of the environment capture, the readings of the machine: a capture is a number, and
  only the resident models, which others can change, are modelled.
* Of the tools, the reading tools, which change nothing but a count, and the allowlist
  of `run_command`, which is string matching.
* Of the report, layout, medians, rates and sums; of the metrics, the rates
  (floating-point arithmetic over measured times) and the parsers of `footprint` and
  `sysctl` output.
* The container's image and its mapping of paths, and pi's argument list, which are text.
