-------------------------- MODULE MeasurementProofs --------------------------
(***************************************************************************)
(* Safety of Measurement for any readings, any candidate processes and any *)
(* plausible size: a record's figures are those of one attempt, and its    *)
(* memory is the backend's.                                                *)
(***************************************************************************)
EXTENDS Measurement, TLAPS

-----------------------------------------------------------------------------
(***************************************************************************)
(* The invariant.  A record is read off a sampler that may still be        *)
(* running, so what it says rests on where each thread is: a sampler's     *)
(* peak lags behind its readings only while its thread holds one, and      *)
(* a record that did not give up on the thread finds it at its end.        *)
(***************************************************************************)
Alive == {"waiting", "reading", "holding"}

\* Attempts still to begin have no thread, and none is left when the process exits.
ThreadsFollow ==
    /\ pc \in {"discovering", "begin"} => thread[attempt] = "none"
    /\ attempt = 1 /\ pc # "exited" => thread[2] = "none"
    /\ pc = "exited" => \A a \in Attempts : thread[a] = "ended"

PeakLagsByOne ==
    \A a \in Attempts :
        /\ thread[a] = "holding" => highest[a] = Higher(peak[a], held[a])
        /\ thread[a] # "holding" /\ pc # "exited" => peak[a] = highest[a]

SampledIsFound ==
    /\ pc = "discovering" => pid = Nobody
    /\ pid # Nobody /\ ~misread => pid = Backend
    /\ pid = Nobody => \A a \in Attempts :
                          thread[a] \notin Alive /\ held[a] = Missing /\ peak[a] = Missing

RecordStands ==
    record.attempt # 0 =>
        /\ pc \in {"exiting", "exited"}
        /\ record.attempt = attempt
        /\ measured = "stage1" /\ attempt = 1 => record.tokens = "enough"
        /\ record.tokens = tokens[attempt]
        /\ attempt \notin slow => thread[attempt] \notin Alive /\ record.peak = highest[attempt]
        /\ record.peak # Missing => pid # Nobody

Inv == TypeOK /\ ThreadsFollow /\ PeakLagsByOne /\ SampledIsFound /\ RecordStands

LEMMA InitInv == Init => Inv
<1> SUFFICES ASSUME Init PROVE Inv
  OBVIOUS
<1>1. TypeOK
  <2>1. record \in [attempt : 0..2, tokens : Tokens, peak : Readings, flagged : BOOLEAN]
    BY DEF Init, NoRecord, Tokens, Readings
  <2>2. window \in [start : Swaps \cup {Missing}, end : Swaps \cup {Missing}]
    BY DEF Init
  <2>3. /\ Missing \in Readings /\ "none" \in Tokens /\ 1 \in Attempts
        /\ Nobody \in Candidates \cup {Nobody}
    BY DEF Readings, Tokens, Attempts
  <2>4. /\ thread \in [Attempts -> {"none", "waiting", "reading", "holding", "ended"}]
        /\ held \in [Attempts -> Readings] /\ peak \in [Attempts -> Readings]
        /\ stopped \in [Attempts -> BOOLEAN] /\ tokens \in [Attempts -> Tokens]
        /\ highest \in [Attempts -> Readings]
    BY <2>3 DEF Init
  <2>5. /\ measured \in {"task", "stage1"} /\ pid \in Candidates \cup {Nobody}
        /\ pc \in {"discovering", "begin", "entering", "working", "leaving", "stopping",
                   "joining", "exiting", "exited"}
        /\ attempt \in Attempts /\ slow \subseteq Attempts
    BY <2>3 DEF Init
  <2>6. misread \in BOOLEAN
    BY Zenon DEF Init
  <2>7. attempt = 2 => measured = "stage1"
    <3>1. attempt = 1
      BY DEF Init
    <3>2. QED
      BY <3>1
  <2>8. QED
    BY <2>1, <2>2, <2>4, <2>5, <2>6, <2>7 DEF TypeOK
<1>2. ThreadsFollow /\ PeakLagsByOne /\ SampledIsFound /\ RecordStands
  BY DEF Init, ThreadsFollow, PeakLagsByOne, SampledIsFound, RecordStands, Attempts, NoRecord, Alive
<1>3. QED
  BY <1>1, <1>2 DEF Inv

\* The process chosen is the backend if the backend could be read.
LEMMA LargestIsBackend ==
    ASSUME NEW failed \in [Candidates -> {"none", "footprint", "both"}],
           NEW best \in Candidates,
           \A c \in Candidates : MemoryOf(c, failed) <= MemoryOf(best, failed),
           failed[Backend] = "none"
    PROVE  best = Backend
<1> SUFFICES ASSUME best # Backend PROVE FALSE
  OBVIOUS
<1>1. /\ Footprint[best] < Footprint[Backend] /\ Rss[best] < Footprint[Backend]
      /\ Backend \in Candidates
      /\ Footprint[best] \in Nat /\ Rss[best] \in Nat /\ Footprint[Backend] \in Nat \ {0}
  BY MeasurementAssumption
<1>2. MemoryOf(Backend, failed) = Footprint[Backend]
  BY DEF MemoryOf
<1>3. MemoryOf(best, failed) \in {Footprint[best], Rss[best], 0}
  BY DEF MemoryOf
<1>4. MemoryOf(best, failed) < Footprint[Backend]
  BY <1>1, <1>3
<1>5. MemoryOf(Backend, failed) <= MemoryOf(best, failed)
  BY <1>1
<1>6. QED
  BY <1>1, <1>2, <1>3, <1>4, <1>5

LEMMA DiscoverKeeps == ASSUME Inv, Discover PROVE Inv'
<1>1. pid' \in Candidates \cup {Nobody} /\ misread' \in BOOLEAN
  BY DEF Discover, Inv, TypeOK
<1>2. pid' # Nobody /\ ~misread' => pid' = Backend
  <2>1. CASE UNCHANGED <<pid, misread>>
    BY <2>1 DEF Discover, Inv, SampledIsFound
  <2>2. CASE \E failed \in [Candidates -> {"none", "footprint", "both"}], best \in Candidates :
                /\ \A c \in Candidates : MemoryOf(c, failed) <= MemoryOf(best, failed)
                /\ pid' = IF MemoryOf(best, failed) < MinPlausible THEN Nobody ELSE best
                /\ misread' = (failed[Backend] # "none")
    BY <2>2, LargestIsBackend
  <2>3. QED
    BY <2>1, <2>2 DEF Discover
<1>3. TypeOK'
  BY <1>1 DEF Discover, Inv, TypeOK, sampler
<1>4. ThreadsFollow' /\ PeakLagsByOne' /\ RecordStands'
  BY DEF Discover, Inv, TypeOK, ThreadsFollow, PeakLagsByOne, RecordStands, sampler
<1>5. SampledIsFound'
  BY <1>2 DEF Discover, Inv, SampledIsFound, sampler
<1>6. QED
  BY <1>3, <1>4, <1>5 DEF Inv

-----------------------------------------------------------------------------
(* The sampler thread.                                                     *)

LEMMA LoopEndsKeeps == ASSUME Inv, NEW a \in Attempts, LoopEnds(a) PROVE Inv'
<1>1. TypeOK'
  BY DEF LoopEnds, Inv, TypeOK, main, history
<1>2. ThreadsFollow' /\ PeakLagsByOne' /\ SampledIsFound' /\ RecordStands'
  BY DEF LoopEnds, Inv, TypeOK, ThreadsFollow, PeakLagsByOne, SampledIsFound, RecordStands,
         main, history, Alive, Attempts
<1>3. QED
  BY <1>1, <1>2 DEF Inv

LEMMA SampleBeginsKeeps == ASSUME Inv, NEW a \in Attempts, SampleBegins(a) PROVE Inv'
<1>1. TypeOK'
  BY DEF SampleBegins, Inv, TypeOK, main, history
<1>2. ThreadsFollow' /\ PeakLagsByOne' /\ SampledIsFound' /\ RecordStands'
  BY DEF SampleBegins, Inv, TypeOK, ThreadsFollow, PeakLagsByOne, SampledIsFound, RecordStands,
         main, history, Alive, Attempts
<1>3. QED
  BY <1>1, <1>2 DEF Inv

LEMMA SampleEndsKeeps == ASSUME Inv, NEW a \in Attempts, SampleEnds(a) PROVE Inv'
<1>1. PICK v \in Readings :
         /\ held' = [held EXCEPT ![a] = v]
         /\ highest' = [highest EXCEPT ![a] = Higher(@, v)]
  BY DEF SampleEnds, Readings
<1>2. Higher(highest[a], v) \in Readings
  BY <1>1 DEF Inv, TypeOK, Higher
<1>3. TypeOK'
  <2>1. held' \in [Attempts -> Readings] /\ highest' \in [Attempts -> Readings]
    BY <1>1, <1>2 DEF Inv, TypeOK
  <2>2. thread' \in [Attempts -> {"none", "waiting", "reading", "holding", "ended"}]
    BY DEF SampleEnds, Inv, TypeOK
  <2>3. UNCHANGED <<main, peak, stopped, slow, misread>>
    BY DEF SampleEnds
  <2>4. QED
    BY <2>1, <2>2, <2>3 DEF Inv, TypeOK, main
<1>4. PeakLagsByOne'
  <2>1. thread' = [thread EXCEPT ![a] = "holding"] /\ peak' = peak /\ pc' = pc
    BY DEF SampleEnds, main
  <2>2. highest[a] = peak[a]
    BY DEF SampleEnds, Inv, TypeOK, PeakLagsByOne, ThreadsFollow
  <2>3. thread'[a] = "holding" /\ highest'[a] = Higher(peak'[a], held'[a])
    BY <1>1, <2>1, <2>2 DEF Inv, TypeOK
  <2>4. \A b \in Attempts : b # a =>
           thread'[b] = thread[b] /\ highest'[b] = highest[b] /\ held'[b] = held[b]
    BY <1>1, <2>1 DEF Inv, TypeOK
  <2>5. QED
    BY <2>1, <2>3, <2>4 DEF Inv, PeakLagsByOne
<1>5. ThreadsFollow' /\ SampledIsFound' /\ RecordStands'
  BY <1>1 DEF SampleEnds, Inv, TypeOK, ThreadsFollow, SampledIsFound, RecordStands, main,
              Alive, Attempts
<1>6. QED
  BY <1>3, <1>4, <1>5 DEF Inv

LEMMA CompareKeeps == ASSUME Inv, NEW a \in Attempts, Compare(a) PROVE Inv'
<1>1. Higher(peak[a], held[a]) \in Readings
  BY DEF Inv, TypeOK, Higher
<1>2. TypeOK'
  BY <1>1 DEF Compare, Inv, TypeOK, main, history
<1>3. PeakLagsByOne'
  BY DEF Compare, Inv, TypeOK, PeakLagsByOne, main, history
<1>4. ThreadsFollow' /\ SampledIsFound' /\ RecordStands'
  BY DEF Compare, Inv, TypeOK, ThreadsFollow, SampledIsFound, RecordStands, main, history,
         Alive, Attempts
<1>5. QED
  BY <1>2, <1>3, <1>4 DEF Inv

-----------------------------------------------------------------------------
(* The main thread.                                                        *)

LEMMA BeginKeeps == ASSUME Inv, Begin PROVE Inv'
<1>1. TypeOK'
  BY DEF Begin, Inv, TypeOK, history
<1>2. ThreadsFollow' /\ PeakLagsByOne' /\ SampledIsFound' /\ RecordStands'
  BY DEF Begin, Inv, TypeOK, ThreadsFollow, PeakLagsByOne, SampledIsFound, RecordStands, history,
         Alive, Attempts
<1>3. QED
  BY <1>1, <1>2 DEF Inv

\* Entering and leaving the swap window, the work, an exception, the stop event.
LEMMA MoveKeeps ==
    ASSUME Inv, EnterWindow \/ Work \/ LeaveWindow \/ Raise \/ SetStop PROVE Inv'
<1>1. TypeOK'
  <2>1. CASE EnterWindow
    BY <2>1 DEF EnterWindow, Inv, TypeOK, sampler, history
  <2>2. CASE Work
    BY <2>2 DEF Work, Inv, TypeOK, sampler, history
  <2>3. CASE LeaveWindow
    BY <2>3 DEF LeaveWindow, Inv, TypeOK, sampler, history
  <2>4. CASE Raise \/ SetStop
    BY <2>4 DEF Raise, SetStop, Inv, TypeOK, sampler, history
  <2>5. QED
    BY <2>1, <2>2, <2>3, <2>4
<1>2. /\ pc \notin {"discovering", "begin", "exiting", "exited"}
      /\ pc' \notin {"discovering", "begin", "exited"}
      /\ UNCHANGED <<pid, attempt, measured, record, thread, held, peak, highest, slow, misread>>
  BY DEF EnterWindow, Work, LeaveWindow, Raise, SetStop, sampler, history
<1>3. ThreadsFollow' /\ PeakLagsByOne' /\ SampledIsFound' /\ RecordStands'
  BY <1>2 DEF Inv, ThreadsFollow, PeakLagsByOne, SampledIsFound, RecordStands
<1>4. QED
  BY <1>1, <1>3 DEF Inv

\* stop() has returned, with the thread at its end or with the attempt named as slow.
LEMMA StoppedKeeps ==
    ASSUME Inv, pc = "joining", Stopped,
           UNCHANGED <<measured, pid, window, tokens, sampler, highest, misread>>,
           slow' \in SUBSET Attempts, slow \subseteq slow',
           thread[attempt] \notin {"none", "ended"} => attempt \in slow'
    PROVE  Inv'
<1>1. record.attempt = 0 /\ attempt \in Attempts
  BY DEF Inv, TypeOK, RecordStands
<1>2. CASE TooShort
  <2>1. attempt = 1 /\ attempt' = 2 /\ pc' = "begin" /\ record' = record /\ measured = "stage1"
    BY <1>2 DEF Stopped, TooShort
  <2>2. TypeOK'
    BY <2>1 DEF Inv, TypeOK, sampler, Attempts
  <2>3. ThreadsFollow' /\ PeakLagsByOne' /\ SampledIsFound' /\ RecordStands'
    BY <1>1, <2>1 DEF Inv, ThreadsFollow, PeakLagsByOne, SampledIsFound, RecordStands, sampler
  <2>4. QED
    BY <2>2, <2>3 DEF Inv
<1>3. CASE ~TooShort
  <2>1. attempt' = attempt /\ pc' = "exiting" /\ record' = Figures(attempt)
    BY <1>3 DEF Stopped
  <2>2. Figures(attempt) \in [attempt : 0..2, tokens : Tokens, peak : Readings,
                              flagged : BOOLEAN]
    <3>1. Flagged \in BOOLEAN /\ attempt \in 0..2
      BY <1>1 DEF Flagged, Attempts
    <3>2. tokens[attempt] \in Tokens /\ peak[attempt] \in Readings
      BY <1>1 DEF Inv, TypeOK
    <3>3. QED
      BY <3>1, <3>2 DEF Figures
  <2>3. TypeOK'
    BY <2>1, <2>2 DEF Inv, TypeOK, sampler
  <2>4. ThreadsFollow' /\ PeakLagsByOne' /\ SampledIsFound'
    BY <2>1 DEF Inv, ThreadsFollow, PeakLagsByOne, SampledIsFound, sampler
  <2>5. RecordStands'
    <3>1. /\ record'.attempt = attempt /\ record'.tokens = tokens[attempt]
          /\ record'.peak = peak[attempt]
      BY <2>1 DEF Figures
    <3>2. measured = "stage1" /\ attempt = 1 => tokens[attempt] = "enough"
      BY <1>3 DEF TooShort
    <3>3. attempt \notin slow' => thread[attempt] \notin Alive /\ peak[attempt] = highest[attempt]
      BY <1>1 DEF Inv, PeakLagsByOne, Alive
    <3>4. peak[attempt] # Missing => pid # Nobody
      BY <1>1 DEF Inv, SampledIsFound
    <3>5. QED
      BY <2>1, <3>1, <3>2, <3>3, <3>4 DEF RecordStands, sampler
  <2>6. QED
    BY <2>3, <2>4, <2>5 DEF Inv
<1>4. QED
  BY <1>2, <1>3

LEMMA JoinKeeps == ASSUME Inv, JoinReturns \/ JoinTimesOut PROVE Inv'
<1>1. CASE JoinReturns
  BY <1>1, StoppedKeeps DEF JoinReturns, Inv, TypeOK, history
<1>2. CASE JoinTimesOut
  BY <1>2, StoppedKeeps DEF JoinTimesOut, Inv, TypeOK
<1>3. QED
  BY <1>1, <1>2

LEMMA ExitKeeps == ASSUME Inv, Exit PROVE Inv'
<1>1. TypeOK'
  BY DEF Exit, Inv, TypeOK, history
<1>2. PeakLagsByOne'
  BY DEF Exit, PeakLagsByOne
<1>3. ThreadsFollow' /\ SampledIsFound' /\ RecordStands'
  BY DEF Exit, Inv, TypeOK, ThreadsFollow, SampledIsFound, RecordStands, history, Alive, Attempts
<1>4. QED
  BY <1>1, <1>2, <1>3 DEF Inv

LEMMA NextKeeps == Inv /\ [Next]_vars => Inv'
<1> SUFFICES ASSUME Inv, [Next]_vars PROVE Inv'
  OBVIOUS
<1>1. CASE MainStep
  BY <1>1, DiscoverKeeps, BeginKeeps, MoveKeeps, JoinKeeps, ExitKeeps DEF MainStep
<1>2. CASE \E a \in Attempts : SamplerStep(a)
  BY <1>2, LoopEndsKeeps, SampleBeginsKeeps, SampleEndsKeeps, CompareKeeps DEF SamplerStep
<1>3. CASE UNCHANGED vars
  BY <1>3 DEF vars, main, sampler, history, Inv, TypeOK, ThreadsFollow, PeakLagsByOne,
              SampledIsFound, RecordStands
<1>4. QED
  BY <1>1, <1>2, <1>3 DEF Next

LEMMA InvIsInvariant == Spec => []Inv
BY InitInv, NextKeeps, PTL DEF Spec

\* Every variable of the measurement keeps its range, whatever the processes and
\* readings are: _record_for and _stage1_record never make a second repetition's
\* attempt of a task's run.
THEOREM TypeCorrect == Spec => []TypeOK
<1>1. Inv => TypeOK
  BY DEF Inv
<1>2. QED
  BY <1>1, InvIsInvariant, PTL

\* For any number of candidate processes and any memory sizes in which the backend is
\* the largest, a record made by _record_for or _stage1_record carries the tokens and
\* the peak of one attempt, the last, and the peak is of the process with the weights.
THEOREM FiguresAreOneAttempts == Spec => []RecordIsOneAttempt
<1>1. Inv => RecordIsOneAttempt
  BY DEF Inv, TypeOK, SampledIsFound, RecordStands, RecordIsOneAttempt
<1>2. QED
  BY <1>1, InvIsInvariant, PTL

-----------------------------------------------------------------------------
(***************************************************************************)
(* Why the command ends.  The main thread waits for a sampler only once it *)
(* has told it to stop, and a sampler that was told reads at most once     *)
(* more.                                                                   *)
(***************************************************************************)
ToldWhenJoined ==
    /\ attempt = 1 => ~stopped[2]
    /\ pc \in {"discovering", "begin", "entering", "working", "leaving", "stopping"}
          => ~stopped[attempt]
    /\ pc = "joining" => stopped[attempt]

\* The main thread's steps left where it is, a second attempt of Stage 1 included.
Ahead(place, a) ==
    CASE place = "discovering" -> 16
      [] place = "exiting"     -> 1
      [] place = "exited"      -> 0
      [] OTHER -> (IF a = 1 THEN 9 ELSE 2) +
                  (CASE place = "begin"    -> 5
                     [] place = "entering" -> 4
                     [] place = "working"  -> 3
                     [] place = "leaving"  -> 2
                     [] place = "stopping" -> 1
                     [] place = "joining"  -> 0)

MainLeft == Ahead(pc, attempt)

\* The steps left to a sampler that has been told to stop.
ThreadLeft(a) ==
    CASE thread[a] = "reading" -> 3
      [] thread[a] = "holding" -> 2
      [] thread[a] = "waiting" -> 1
      [] OTHER                 -> 0

\* The main thread's steps shorten what is left to it and the samplers' do not lengthen
\* it; and once told, a sampler's steps shorten what is left to the sampler.
MeasurementShortens ==
    [][/\ MainLeft' <= MainLeft
       /\ MainStep => MainLeft' < MainLeft
       /\ \A a \in Attempts : stopped[a] =>
             /\ stopped'[a] /\ ThreadLeft(a)' <= ThreadLeft(a)
             /\ SamplerStep(a) => ThreadLeft(a)' < ThreadLeft(a)]_vars

LEMMA StepTold == Inv /\ ToldWhenJoined /\ [Next]_vars => ToldWhenJoined'
<1> SUFFICES ASSUME Inv, ToldWhenJoined, [Next]_vars PROVE ToldWhenJoined'
  OBVIOUS
<1>1. attempt \in {1, 2} /\ stopped \in [{1, 2} -> BOOLEAN]
  BY DEF Inv, TypeOK, Attempts
<1>2. CASE Discover \/ Begin \/ EnterWindow \/ Work \/ LeaveWindow \/ Raise
  <2>1. /\ UNCHANGED <<stopped, attempt>> /\ pc' # "joining"
        /\ pc \in {"discovering", "begin", "entering", "working", "leaving", "stopping"}
    BY <1>2 DEF Discover, Begin, EnterWindow, Work, LeaveWindow, Raise, sampler
  <2>2. QED
    BY <2>1 DEF ToldWhenJoined
<1>3. CASE SetStop
  <2>1. /\ pc = "stopping" /\ pc' = "joining" /\ attempt' = attempt
        /\ stopped' = [stopped EXCEPT ![attempt] = TRUE]
    BY <1>3 DEF SetStop
  <2>2. stopped'[attempt]
    BY <1>1, <2>1
  <2>3. attempt = 1 => stopped'[2] = stopped[2]
    BY <1>1, <2>1
  <2>4. QED
    BY <2>1, <2>2, <2>3 DEF ToldWhenJoined
<1>4. CASE JoinReturns \/ JoinTimesOut
  <2>1. /\ UNCHANGED stopped
        /\ \/ attempt = 1 /\ attempt' = 2 /\ pc' = "begin"
           \/ attempt' = attempt /\ pc' = "exiting"
    BY <1>4 DEF JoinReturns, JoinTimesOut, Stopped, TooShort, sampler
  <2>2. QED
    BY <2>1 DEF ToldWhenJoined
<1>5. CASE Exit
  BY <1>5 DEF Exit, ToldWhenJoined
<1>6. CASE (\E a \in Attempts : SamplerStep(a)) \/ UNCHANGED vars
  BY <1>6 DEF SamplerStep, LoopEnds, SampleBegins, SampleEnds, Compare, vars, main, sampler,
              ToldWhenJoined
<1>7. QED
  BY <1>2, <1>3, <1>4, <1>5, <1>6 DEF Next, MainStep

LEMMA PlacesAhead ==
    \A a \in Attempts, place \in {"discovering", "begin", "entering", "working", "leaving",
                                  "stopping", "joining", "exiting", "exited"} :
        Ahead(place, a) \in 0..16 /\ (Ahead(place, a) = 0 <=> place = "exited")
  BY DEF Ahead, Attempts

LEMMA MainShortens ==
    ASSUME Inv, MainStep
    PROVE  MainLeft' < MainLeft
<1>1. attempt \in {1, 2}
  BY DEF Inv, TypeOK, Attempts
<1>2. CASE Discover
  <2>1. MainLeft = 16
    BY <1>2 DEF Discover, MainLeft, Ahead
  <2>2. MainLeft' = (IF attempt' = 1 THEN 9 ELSE 2) + 5
    BY <1>2 DEF Discover, MainLeft, Ahead
  <2>3. QED
    BY <2>1, <2>2
<1>3. CASE Begin \/ EnterWindow \/ Work \/ LeaveWindow \/ SetStop
  <2>1. /\ attempt' = attempt
        /\ \/ pc = "begin" /\ pc' = "entering"
           \/ pc = "entering" /\ pc' = "working"
           \/ pc = "working" /\ pc' = "leaving"
           \/ pc = "leaving" /\ pc' = "stopping"
           \/ pc = "stopping" /\ pc' = "joining"
    BY <1>3 DEF Begin, EnterWindow, Work, LeaveWindow, SetStop
  <2>2. QED
    BY <1>1, <2>1 DEF MainLeft, Ahead
<1>4. CASE Raise
  <2>1. MainLeft' = 1
    BY <1>4 DEF Raise, MainLeft, Ahead
  <2>2. MainLeft \in 3..16
    BY <1>1, <1>4 DEF Raise, MainLeft, Ahead
  <2>3. QED
    BY <2>1, <2>2
<1>5. CASE JoinReturns \/ JoinTimesOut
  <2>1. MainLeft = IF attempt = 1 THEN 9 ELSE 2
    BY <1>1, <1>5 DEF JoinReturns, JoinTimesOut, MainLeft, Ahead
  <2>2. \/ attempt = 1 /\ attempt' = 2 /\ pc' = "begin"
        \/ pc' = "exiting"
    BY <1>5 DEF JoinReturns, JoinTimesOut, Stopped, TooShort
  <2>3. MainLeft' = 1 \/ (attempt = 1 /\ MainLeft' = 7)
    BY <2>2 DEF MainLeft, Ahead
  <2>4. QED
    BY <1>1, <2>1, <2>3
<1>6. CASE Exit
  BY <1>6 DEF Exit, MainLeft, Ahead
<1>7. QED
  BY <1>2, <1>3, <1>4, <1>5, <1>6 DEF MainStep

LEMMA ThreadShortens ==
    ASSUME Inv, ToldWhenJoined, Next, NEW a \in Attempts, stopped[a]
    PROVE  /\ stopped'[a] /\ ThreadLeft(a)' <= ThreadLeft(a)
           /\ SamplerStep(a) => ThreadLeft(a)' < ThreadLeft(a)
<1>1. /\ attempt \in Attempts /\ stopped \in [Attempts -> BOOLEAN]
      /\ thread \in [Attempts -> {"none", "waiting", "reading", "holding", "ended"}]
  BY DEF Inv, TypeOK
<1>2. ThreadLeft(a) \in 0..3
  BY DEF ThreadLeft
<1>3. CASE SamplerStep(a)
  <2>1. /\ stopped' = stopped
        /\ \/ thread[a] = "waiting" /\ thread'[a] = "ended"
           \/ thread[a] = "reading" /\ thread'[a] = "holding"
           \/ thread[a] = "holding" /\ thread'[a] = "waiting"
    BY <1>1, <1>3 DEF SamplerStep, LoopEnds, SampleBegins, SampleEnds, Compare
  <2>2. QED
    BY <2>1 DEF ThreadLeft
<1>4. ASSUME ~SamplerStep(a)
      PROVE  stopped'[a] /\ (thread'[a] = thread[a] \/ thread'[a] = "ended")
  <2>1. CASE Begin
    <3>1. a # attempt
      BY <2>1 DEF Begin, ToldWhenJoined
    <3>2. QED
      BY <1>1, <2>1, <3>1 DEF Begin
  <2>2. CASE SetStop
    <3>1. stopped'[a]
      BY <1>1, <2>2 DEF SetStop
    <3>2. QED
      BY <2>2, <3>1 DEF SetStop
  <2>3. CASE Exit
    BY <2>3 DEF Exit
  <2>4. CASE Discover \/ EnterWindow \/ Work \/ LeaveWindow \/ Raise
             \/ JoinReturns \/ JoinTimesOut
    BY <2>4 DEF Discover, EnterWindow, Work, LeaveWindow, Raise, JoinReturns, JoinTimesOut,
                sampler
  <2>5. ASSUME NEW b \in Attempts, b # a, SamplerStep(b)
        PROVE  stopped'[a] /\ thread'[a] = thread[a]
    BY <1>1, <2>5 DEF SamplerStep, LoopEnds, SampleBegins, SampleEnds, Compare
  <2>6. QED
    BY <1>4, <2>1, <2>2, <2>3, <2>4, <2>5 DEF Next, MainStep
<1>5. CASE ~SamplerStep(a)
  <2>1. stopped'[a] /\ (thread'[a] = thread[a] \/ thread'[a] = "ended")
    BY <1>4, <1>5
  <2>2. ThreadLeft(a)' = ThreadLeft(a) \/ ThreadLeft(a)' = 0
    BY <2>1 DEF ThreadLeft
  <2>3. QED
    BY <1>2, <1>5, <2>1, <2>2
<1>6. QED
  BY <1>3, <1>5

\* A command's measurement ends by at most sixteen steps of the main thread, of which
\* only joining waits, and then for a sampler that was told to stop and has at most three
\* steps left.  With the fairness of both threads this is what ProcessExits rests on.
THEOREM MeasurementIsFinite ==
    Spec => /\ [](/\ MainLeft \in 0..16 /\ (MainLeft = 0 <=> pc = "exited")
                  /\ pc = "joining" => stopped[attempt])
            /\ MeasurementShortens
<1>1. Init => ToldWhenJoined
  BY DEF Init, ToldWhenJoined, Attempts
<1>2. Inv => MainLeft \in 0..16 /\ (MainLeft = 0 <=> pc = "exited")
  <2> SUFFICES ASSUME Inv PROVE MainLeft \in 0..16 /\ (MainLeft = 0 <=> pc = "exited")
    OBVIOUS
  <2>1. QED
    BY PlacesAhead DEF Inv, TypeOK, MainLeft
<1>3. ToldWhenJoined => (pc = "joining" => stopped[attempt])
  BY DEF ToldWhenJoined
<1>4. ASSUME Inv, ToldWhenJoined, Next
      PROVE  /\ MainLeft' <= MainLeft
             /\ MainStep => MainLeft' < MainLeft
             /\ \A a \in Attempts : stopped[a] =>
                   /\ stopped'[a] /\ ThreadLeft(a)' <= ThreadLeft(a)
                   /\ SamplerStep(a) => ThreadLeft(a)' < ThreadLeft(a)
  <2>1. MainLeft \in 0..16 /\ MainLeft' \in 0..16
    BY <1>4, NextKeeps, PlacesAhead DEF Inv, TypeOK, MainLeft
  <2>2. MainStep => MainLeft' < MainLeft
    BY <1>4, MainShortens
  <2>3. CASE \E a \in Attempts : SamplerStep(a)
    <3>1. UNCHANGED <<pc, attempt>>
      BY <2>3 DEF SamplerStep, LoopEnds, SampleBegins, SampleEnds, Compare, main
    <3>2. MainLeft' = MainLeft
      BY <3>1 DEF MainLeft
    <3>3. QED
      BY <2>1, <2>2, <3>2, <1>4, ThreadShortens
  <2>4. CASE MainStep
    BY <2>1, <2>2, <2>4, <1>4, ThreadShortens
  <2>5. QED
    BY <1>4, <2>3, <2>4 DEF Next
<1>5. Inv /\ ToldWhenJoined /\ [Next]_vars =>
        [/\ MainLeft' <= MainLeft
         /\ MainStep => MainLeft' < MainLeft
         /\ \A a \in Attempts : stopped[a] =>
               /\ stopped'[a] /\ ThreadLeft(a)' <= ThreadLeft(a)
               /\ SamplerStep(a) => ThreadLeft(a)' < ThreadLeft(a)]_vars
  BY <1>4
<1>6. QED
  BY <1>1, <1>2, <1>3, <1>5, StepTold, InvIsInvariant, PTL DEF Spec, MeasurementShortens
=============================================================================
