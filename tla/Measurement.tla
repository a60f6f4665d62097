----------------------------- MODULE Measurement -----------------------------
(***************************************************************************)
(* What is measured around a run: the memory sampler's thread and the swap *)
(* window of harness/metrics.py, as stages.py puts them around a task's    *)
(* run (_record_for) and around the one or two requests of a Stage 1       *)
(* repetition (_stage1_record), after find_inference_pid has chosen, once  *)
(* for the session, the process whose memory is sampled.                   *)
(*                                                                         *)
(* Each measured attempt has a sampler and a window of its own.  A thread  *)
(* is the only other thread of the process, apart from one that an earlier *)
(* attempt could not join.                                                 *)
(*                                                                         *)
(* Abstractions.  A memory reading is a member of Levels, a swap reading   *)
(* of Swaps; both may fail.  What an attempt brings is its number of       *)
(* completion tokens: none reported, too few for Stage 1, or enough.       *)
(***************************************************************************)
EXTENDS Integers

CONSTANTS
    Levels,        \* what a memory reading may give
    Swaps,         \* what a reading of the swap in use may give
    Candidates,    \* processes whose command line holds one of PROCESS_HINTS
    Backend,       \* the one that holds the weights
    Footprint,     \* dirty and clean memory of a process when it is looked for
    Rss,           \* its resident set size
    MinPlausible   \* MIN_PLAUSIBLE_BYTES

Nobody == "nobody"

\* A helper has less memory by either measure than the backend's dirty and clean.
ASSUME MeasurementAssumption ==
    /\ Levels \subseteq Nat \ {0} /\ Swaps \subseteq Nat
    /\ Nobody \notin Candidates /\ Backend \in Candidates
    /\ Footprint \in [Candidates -> Nat \ {0}] /\ Rss \in [Candidates -> Nat]
    /\ MinPlausible \in Nat
    /\ \A c \in Candidates \ {Backend} :
          Footprint[c] < Footprint[Backend] /\ Rss[c] < Footprint[Backend]

\* A reading that failed, a sampler without readings.
Missing == -1

Attempts == {1, 2}
Tokens == {"none", "few", "enough"}

-----------------------------------------------------------------------------
VARIABLES
    measured,  \* what is measured: a task's run or a Stage 1 repetition
    pid,       \* the process find_inference_pid found, or nobody
    pc,        \* where the main thread is
    attempt,   \* the attempt under way
    thread,    \* the sampler thread of each attempt
    held,      \* the reading a thread has made and not compared yet
    peak,      \* peak_bytes of each attempt's sampler
    stopped,   \* its stop event is set
    window,    \* the swap window entered last
    tokens,    \* what each attempt brought
    record,    \* the figures of the record, once it is made
    highest,   \* history: the highest reading of each sampler
    slow,      \* history: attempts whose thread was not waited for to its end
    misread    \* history: `footprint` failed for the backend when it was looked for

main == <<measured, pid, pc, attempt, window, tokens, record>>
sampler == <<thread, held, peak, stopped>>
history == <<highest, slow, misread>>
vars == <<main, sampler, history>>

NoRecord == [attempt |-> 0, tokens |-> "none", peak |-> Missing,
             flagged |-> FALSE]

Init ==
    /\ measured \in {"task", "stage1"}
    /\ pid = Nobody
    /\ pc = "discovering"
    /\ attempt = 1
    /\ thread = [a \in Attempts |-> "none"]
    /\ held = [a \in Attempts |-> Missing]
    /\ peak = [a \in Attempts |-> Missing]
    /\ stopped = [a \in Attempts |-> FALSE]
    /\ window = [start |-> Missing, end |-> Missing]
    /\ tokens = [a \in Attempts |-> "none"]
    /\ record = NoRecord
    /\ highest = [a \in Attempts |-> Missing]
    /\ slow = {}
    /\ misread = FALSE

-----------------------------------------------------------------------------
(* find_inference_pid.                                                     *)

\* resident_bytes(pid) or rss_bytes(pid) or 0: another measure where the first fails.
MemoryOf(c, failed) ==
    CASE failed[c] = "none"      -> Footprint[c]
      [] failed[c] = "footprint" -> Rss[c]
      [] OTHER                   -> 0

\* `ps` fails; or the largest of the candidates is taken, if it is plausible.
Discover ==
    /\ pc = "discovering"
    /\ pc' = "begin"
    /\ \/ UNCHANGED <<pid, misread>>
       \/ \E failed \in [Candidates -> {"none", "footprint", "both"}], best \in Candidates :
             /\ \A c \in Candidates : MemoryOf(c, failed) <= MemoryOf(best, failed)
             /\ pid' = IF MemoryOf(best, failed) < MinPlausible THEN Nobody ELSE best
             /\ misread' = (failed[Backend] # "none")
    /\ UNCHANGED <<measured, attempt, window, tokens, record, sampler, highest, slow>>

-----------------------------------------------------------------------------
(* The sampler thread: MemorySampler._loop.                                *)

\* while not self._stop.is_set()
LoopEnds(a) ==
    /\ thread[a] = "waiting" /\ stopped[a]
    /\ thread' = [thread EXCEPT ![a] = "ended"]
    /\ UNCHANGED <<main, held, peak, stopped, history>>

SampleBegins(a) ==
    /\ thread[a] = "waiting" /\ ~stopped[a]
    /\ thread' = [thread EXCEPT ![a] = "reading"]
    /\ UNCHANGED <<main, held, peak, stopped, history>>

Higher(v, w) == IF w > v THEN w ELSE v

\* resident_bytes: footprint answers, fails or times out.
SampleEnds(a) ==
    /\ thread[a] = "reading"
    /\ thread' = [thread EXCEPT ![a] = "holding"]
    /\ \E v \in Levels \cup {Missing} :
          /\ held' = [held EXCEPT ![a] = v]
          /\ highest' = [highest EXCEPT ![a] = Higher(@, v)]
    /\ UNCHANGED <<main, peak, stopped, slow, misread>>

\* The maximum is kept, in a step of its own: the main thread may read peak_bytes
\* before it if it has stopped waiting for the thread.
Compare(a) ==
    /\ thread[a] = "holding"
    /\ peak' = [peak EXCEPT ![a] = Higher(@, held[a])]
    /\ thread' = [thread EXCEPT ![a] = "waiting"]
    /\ UNCHANGED <<main, held, stopped, history>>

SamplerStep(a) == LoopEnds(a) \/ SampleBegins(a) \/ SampleEnds(a) \/ Compare(a)

-----------------------------------------------------------------------------
(* The main thread.                                                        *)

\* MemorySampler(pid).start() if pid is not None.
Begin ==
    /\ pc = "begin"
    /\ pc' = "entering"
    /\ thread' = [thread EXCEPT ![attempt] = IF pid # Nobody THEN "waiting" ELSE "none"]
    /\ UNCHANGED <<measured, pid, attempt, window, tokens, record,
                   held, peak, stopped, history>>

EnterWindow ==
    /\ pc = "entering"
    /\ pc' = "working"
    /\ \E v \in Swaps \cup {Missing} : window' = [start |-> v, end |-> Missing]
    /\ UNCHANGED <<measured, pid, attempt, tokens, record, sampler, history>>

\* The streamed turn or the task's run comes back.
Work ==
    /\ pc = "working"
    /\ pc' = "leaving"
    /\ \E t \in Tokens : tokens' = [tokens EXCEPT ![attempt] = t]
    /\ UNCHANGED <<measured, pid, attempt, window, record, sampler, history>>

LeaveWindow ==
    /\ pc = "leaving"
    /\ pc' = "stopping"
    /\ \E v \in Swaps \cup {Missing} : window' = [window EXCEPT !.end = v]
    /\ UNCHANGED <<measured, pid, attempt, tokens, record, sampler, history>>

\* An exception: the request fails, the run raises, the operator interrupts.  The
\* window is left, the sampler is not stopped, and the exception ends the command.
Raise ==
    /\ pc \in {"working", "stopping"}
    /\ pc' = "exiting"
    /\ UNCHANGED <<measured, pid, attempt, window, tokens, record, sampler, history>>

SetStop ==
    /\ pc = "stopping"
    /\ pc' = "joining"
    /\ stopped' = [stopped EXCEPT ![attempt] = TRUE]
    /\ UNCHANGED <<measured, pid, attempt, window, tokens, record,
                   thread, held, peak, history>>

TooShortAnyRun == attempt = 1 /\ tokens[attempt] # "enough"

\* Stage 1's second attempt: _stage1_record, with `or 0` for a count not reported.
TooShort == measured = "stage1" /\ attempt = 1 /\ tokens[attempt] # "enough"

\* SwapWindow.flagged: a window one of whose readings failed is not.
Flagged == Missing \notin {window.start, window.end} /\ window.end > window.start

FiguresOfFirstPeak(a) ==
    [attempt |-> a, tokens |-> tokens[a], peak |-> peak[1],
     flagged |-> Flagged]

\* The figures a record made now would have.
Figures(a) ==
    [attempt |-> a, tokens |-> tokens[a], peak |-> peak[a],
     flagged |-> Flagged]

\* stop() has returned its peak_bytes.
Stopped ==
    IF TooShort
    THEN /\ attempt' = 2
         /\ pc' = "begin"
         /\ UNCHANGED record
    ELSE /\ record' = Figures(attempt)
         /\ pc' = "exiting"
         /\ UNCHANGED attempt

JoinReturns ==
    /\ pc = "joining"
    /\ thread[attempt] \in {"none", "ended"}
    /\ Stopped
    /\ UNCHANGED <<measured, pid, window, tokens, sampler, history>>

\* join(timeout=5): one reading may take ten seconds.
JoinTimesOut ==
    /\ pc = "joining"
    /\ thread[attempt] = "reading"
    /\ Stopped
    /\ slow' = slow \cup {attempt}
    /\ UNCHANGED <<measured, pid, window, tokens, sampler, highest, misread>>

ThreadsEnded == \A a \in Attempts : thread[a] \in {"none", "ended"}

\* The interpreter does not wait for a daemon thread.
MayExit == TRUE

Exit ==
    /\ pc = "exiting"
    /\ MayExit
    /\ pc' = "exited"
    /\ thread' = [a \in Attempts |-> "ended"]
    /\ UNCHANGED <<measured, pid, attempt, window, tokens, record,
                   held, peak, stopped, history>>

MainStep ==
    \/ Discover \/ Begin \/ EnterWindow \/ Work \/ LeaveWindow \/ Raise
    \/ SetStop \/ JoinReturns \/ JoinTimesOut \/ Exit

Next == MainStep \/ \E a \in Attempts : SamplerStep(a)

\* Every reading, request and join has a timeout, and the scheduler runs both threads.
Spec ==
    Init /\ [][Next]_vars /\ WF_vars(MainStep) /\ \A a \in Attempts : WF_vars(SamplerStep(a))

-----------------------------------------------------------------------------
(* Properties.                                                             *)

Readings == Levels \cup {Missing}

\* Every variable stays in its range; the second attempt is Stage 1's, and only an
\* attempt that has begun has a sampler.
TypeOK ==
    /\ measured \in {"task", "stage1"} /\ pid \in Candidates \cup {Nobody}
    /\ pc \in {"discovering", "begin", "entering", "working", "leaving", "stopping", "joining",
               "exiting", "exited"}
    /\ attempt \in Attempts
    /\ attempt = 2 => measured = "stage1"
    /\ thread \in [Attempts -> {"none", "waiting", "reading", "holding", "ended"}]
    /\ held \in [Attempts -> Readings]
    /\ peak \in [Attempts -> Readings]
    /\ stopped \in [Attempts -> BOOLEAN]
    /\ window \in [start : Swaps \cup {Missing}, end : Swaps \cup {Missing}]
    /\ tokens \in [Attempts -> Tokens]
    /\ record \in [attempt : 0..2, tokens : Tokens, peak : Readings,
                   flagged : BOOLEAN]
    /\ highest \in [Attempts -> Readings]
    /\ slow \subseteq Attempts
    /\ misread \in BOOLEAN

\* A record's figures are of one attempt, the last one made: its turn, and
\* as peak memory the highest reading of its own sampler, unless that sampler's last
\* reading took longer than stop() waits.  The first attempt of Stage 1 stands only if
\* it brought enough tokens.  And a memory figure is the backend's and no helper's,
\* unless the backend could not be read while it was looked for.
RecordIsOneAttempt ==
    LET a == record.attempt IN
    a # 0 =>
        /\ a = attempt
        /\ measured = "stage1" /\ a = 1 => record.tokens = "enough"
        /\ record.tokens = tokens[a]
        /\ a \notin slow => record.peak = highest[a]
        /\ record.peak # Missing /\ ~misread => pid = Backend

\* The command comes to its end although an exception leaves the sampler running and
\* a reading may outlast stop().
ProcessExits == <>(pc = "exited")
=============================================================================
