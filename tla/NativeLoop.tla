------------------------------ MODULE NativeLoop ------------------------------
(***************************************************************************)
(* One agent run of the native driver: NativeDriver.__call__ of            *)
(* harness/driver_native.py with the strict dispatch of harness/tools.py   *)
(* and the part of harness/sandbox.py that writes files.                   *)
(*                                                                         *)
(* The driver asks the model for a turn, executes the tool calls of the    *)
(* turn one by one, feeds their results back and stops on the first of     *)
(* seven conditions.  The model is the environment: it may answer, say     *)
(* nothing, or send any calls, well formed or not.                         *)
(*                                                                         *)
(* Abstractions.  A call is its name, the form of its argument text and    *)
(* the path it names; two calls with the same text are the same call.  A   *)
(* message keeps its role and the call identifiers in it.  The clock is    *)
(* whether the deadline has passed.  Texts, results and timings are left   *)
(* out, and so are run_command's effects on the fixture.                   *)
(***************************************************************************)
EXTENDS Integers, Sequences, FiniteSets

CONSTANTS
    Calls,             \* the tool calls the model may send
    HistoryModes,      \* history modes considered, a subset of {"full", "compact"}
    MissingIds,        \* whether the server may leave a call's id out
    Directories,       \* directories of the fixture, as paths below the root
    MaxSteps,          \* MAX_STEPS, 25 in the code
    IdenticalLimit,    \* IDENTICAL_CALL_LIMIT, 3
    MalformedLimit,    \* MALFORMED_CALL_LIMIT, 5
    MaxFragments       \* bound: tool calls in one turn

Tools == {"read_file", "write_file", "list_files", "search_files", "run_command"}

\* "object": a JSON object with every required argument, all of them strings.
\* "blank" decodes to {}, which lacks one; a path is the names on it.
Forms == {"object", "blank", "unparseable", "not_object", "missing", "mistyped"}

ASSUME LoopAssumption ==
    /\ \A c \in Calls : c.form \in Forms
    /\ HistoryModes \subseteq {"full", "compact"}
    /\ MissingIds \in BOOLEAN
    /\ MaxSteps \in Nat \ {0}
    /\ IdenticalLimit \in Nat \ {0}
    /\ MalformedLimit \in Nat \ {0}
    /\ MaxFragments \in Nat \ {0}

-----------------------------------------------------------------------------
(* Tools.                                                                  *)

Valid(c) == c.tool \in Tools /\ c.form = "object"

Root == <<>>

Parents(path) == {SubSeq(path, 1, n) : n \in 0..(Len(path) - 1)}

-----------------------------------------------------------------------------
VARIABLES
    pc,             \* where __call__ stands; "ended" it returned an outcome,
                    \* "raised" a tool raised, "aborted" the client raised
    mode,           \* history_mode
    late,           \* the clock has passed the deadline
    steps,          \* assistant turns requested
    timed,          \* turns added to RunTiming
    messages,       \* the conversation: [role, ids]
    lastTurnStart,  \* index of the last assistant turn with calls, 0 for None
    fragments,      \* calls of the turn that are still to be dispatched
    ids,            \* their ids as received, NoId where there was none
    calls,          \* every call dispatched
    recent,         \* recent_signature, as a sequence of at most one call
    identicalRun,
    malformedRun,
    termination,
    files,          \* sandbox: regular files and directories below the root
    directories

conversation == <<messages, lastTurnStart>>
turn         == <<fragments, ids>>
counters     == <<recent, identicalRun, malformedRun>>
sandbox      == <<files, directories>>
vars == <<pc, mode, late, steps, timed, conversation, turn, calls, counters,
          termination, sandbox>>

NoId == <<0, 0>>

Init ==
    /\ pc = "top"
    /\ mode \in HistoryModes
    /\ late = FALSE
    /\ steps = 0
    /\ timed = 0
    /\ messages = << [role |-> "system", ids |-> <<>>], [role |-> "user", ids |-> <<>>] >>
    /\ lastTurnStart = 0
    /\ fragments = <<>>
    /\ ids = <<>>
    /\ calls = <<>>
    /\ recent = <<>>
    /\ identicalRun = 0
    /\ malformedRun = 0
    /\ termination = "max_steps"
    /\ files = {}
    /\ directories = Directories

EndWith(reason) == pc' = "ended" /\ termination' = reason

-----------------------------------------------------------------------------
(* The loop head.                                                          *)

TimePasses ==
    /\ pc \in {"top", "asked", "dispatch"}
    /\ ~late
    /\ late' = TRUE
    /\ UNCHANGED <<pc, mode, steps, timed, conversation, turn, calls, counters,
                   termination, sandbox>>

\* `while steps < max_steps` is over: termination keeps its initial value.
OutOfSteps ==
    /\ pc = "top"
    /\ steps >= MaxSteps
    /\ pc' = "ended"
    /\ UNCHANGED <<mode, late, steps, timed, conversation, turn, calls, counters,
                   termination, sandbox>>

OutOfTime ==
    /\ pc = "top"
    /\ steps < MaxSteps
    /\ late
    /\ EndWith("timeout")
    /\ UNCHANGED <<mode, late, steps, timed, conversation, turn, calls, counters, sandbox>>

\* The last turn cut off after a fixed number of messages instead of at its start.
SentLastTwo ==
    IF mode = "compact" /\ lastTurnStart # 0
    THEN SubSeq(messages, 1, 2) \o SubSeq(messages, Len(messages) - 1, Len(messages))
    ELSE messages

\* What a request carries: everything, or the prompt and the last turn.
Sent ==
    IF mode = "compact" /\ lastTurnStart # 0
    THEN SubSeq(messages, 1, 2) \o SubSeq(messages, lastTurnStart, Len(messages))
    ELSE messages

AskOnceMore ==
    /\ pc = "top"
    /\ steps <= MaxSteps
    /\ ~late
    /\ pc' = "asked"
    /\ UNCHANGED <<mode, late, steps, timed, conversation, turn, calls, counters,
                   termination, sandbox>>

Ask ==
    /\ pc = "top"
    /\ steps < MaxSteps
    /\ ~late
    /\ pc' = "asked"
    /\ UNCHANGED <<mode, late, steps, timed, conversation, turn, calls, counters,
                   termination, sandbox>>

-----------------------------------------------------------------------------
(* The model's turn.                                                       *)

ServerErrorRetried ==
    /\ pc = "asked"
    /\ pc' = "top"
    /\ UNCHANGED <<mode, late, steps, timed, conversation, turn, calls, counters,
                   termination, sandbox>>

ServerErrorUncounted ==
    /\ pc = "asked"
    /\ EndWith("server_error")
    /\ UNCHANGED <<mode, late, steps, timed, conversation, turn, calls, counters, sandbox>>

ServerError ==
    /\ pc = "asked"
    /\ steps' = steps + 1
    /\ EndWith("server_error")
    /\ UNCHANGED <<mode, late, timed, conversation, turn, calls, counters, sandbox>>

\* Anything but openai.APIError passes through the driver.
ClientRaises ==
    /\ pc = "asked"
    /\ pc' = "aborted"
    /\ UNCHANGED <<mode, late, steps, timed, conversation, turn, calls, counters,
                   termination, sandbox>>

Answers ==
    /\ pc = "asked"
    /\ steps' = steps + 1
    /\ timed' = timed + 1
    /\ \E reason \in {"final_answer", "empty_answer"} : EndWith(reason)
    /\ UNCHANGED <<mode, late, conversation, turn, calls, counters, sandbox>>

\* _assistant_message: a call without an id is replayed as call_<its index in the
\* turn>, from 0.  An id the server made is the turn and the position.
Replayed(id, position) == IF id = NoId THEN <<0, position - 1>> ELSE id

CallsTools ==
    /\ pc = "asked"
    /\ \E n \in 1..MaxFragments :
         /\ fragments' \in [1..n -> Calls]
         /\ IF MissingIds
            THEN ids' \in [1..n -> {NoId}] \cup {[i \in 1..n |-> <<steps + 1, i>>]}
            ELSE ids' = [i \in 1..n |-> <<steps + 1, i>>]
    /\ steps' = steps + 1
    /\ timed' = timed + 1
    /\ lastTurnStart' = Len(messages) + 1
    /\ messages' = Append(messages,
          [role |-> "assistant",
           ids  |-> [i \in 1..Len(ids') |-> Replayed(ids'[i], i)]])
    /\ pc' = "dispatch"
    /\ UNCHANGED <<mode, late, calls, counters, termination, sandbox>>

-----------------------------------------------------------------------------
(* Dispatch.                                                               *)

call == Head(fragments)

\* write_file makes the missing parents and then writes.  A parent that is a file,
\* or a target that is a directory, is an OSError nobody catches.
WriteFails(path) ==
    \/ path \in directories \cup {Root}
    \/ Parents(path) \cap files # {}

ToolRaises == Valid(call) /\ call.tool = "write_file" /\ WriteFails(call.path)

Execute ==
    IF Valid(call) /\ call.tool = "write_file"
    THEN /\ files' = files \cup {call.path}
         /\ directories' = directories \cup (Parents(call.path) \ {Root})
    ELSE UNCHANGED sandbox

\* The tool message answers a call without an id as call_<calls so far>, from 1.
Answered(id) == IF id = NoId THEN <<0, Len(calls) + 1>> ELSE id

MalformedNeverReset == IF Valid(call) THEN malformedRun ELSE malformedRun + 1

MalformedAfter == IF Valid(call) THEN 0 ELSE malformedRun + 1

IdenticalAfter == IF recent = <<call>> THEN identicalRun + 1 ELSE 1

StopLoopsFirst ==
    IF IdenticalAfter >= IdenticalLimit THEN "loop_detected"
    ELSE IF MalformedAfter >= MalformedLimit THEN "malformed_calls"
    ELSE "none"

Stop ==
    IF MalformedAfter >= MalformedLimit THEN "malformed_calls"
    ELSE IF IdenticalAfter >= IdenticalLimit THEN "loop_detected"
    ELSE "none"

\* The malformed limit breaks out before the signature is looked at.
CountCall ==
    /\ malformedRun' = MalformedAfter
    /\ IF Stop = "malformed_calls" THEN UNCHANGED <<recent, identicalRun>>
       ELSE recent' = <<call>> /\ identicalRun' = IdenticalAfter

Dispatch ==
    /\ pc = "dispatch"
    /\ ~ToolRaises
    /\ Execute
    /\ calls' = Append(calls, call)
    /\ messages' = Append(messages, [role |-> "tool", ids |-> <<Answered(Head(ids))>>])
    /\ fragments' = Tail(fragments)
    /\ ids' = Tail(ids)
    /\ CountCall
    /\ IF Stop # "none" THEN EndWith(Stop)
       ELSE /\ pc' = IF Tail(fragments) = <<>> THEN "top" ELSE "dispatch"
            /\ UNCHANGED termination
    /\ UNCHANGED <<mode, late, steps, timed, lastTurnStart>>

\* The exception leaves dispatch, the driver and the stage.
DispatchRaises ==
    /\ pc = "dispatch"
    /\ ToolRaises
    /\ pc' = "raised"
    /\ UNCHANGED <<mode, late, steps, timed, conversation, turn, calls, counters,
                   termination, sandbox>>

Step ==
    \/ OutOfSteps \/ OutOfTime \/ Ask
    \/ ServerError \/ ClientRaises \/ Answers \/ CallsTools
    \/ Dispatch \/ DispatchRaises

Next == Step \/ TimePasses

\* Every request is answered or fails: the client gives up after its timeout, which
\* is an APIError.  Commands have a timeout of their own.
Spec == Init /\ [][Next]_vars /\ WF_vars(Step)

-----------------------------------------------------------------------------
(* Properties.                                                             *)

Running == pc \in {"top", "asked", "dispatch"}

\* Every variable stays in its range, and the counters and steps in their limits.
TypeOK ==
    /\ pc \in {"top", "asked", "dispatch", "ended", "raised", "aborted"}
    /\ mode \in {"full", "compact"}
    /\ late \in BOOLEAN
    /\ steps \in 0..MaxSteps
    /\ timed \in 0..MaxSteps
    /\ messages \in Seq([role : {"system", "user", "assistant", "tool"},
                         ids : Seq(Nat \X Nat)])
    /\ lastTurnStart \in 0..Len(messages)
    /\ fragments \in Seq(Calls)
    /\ ids \in Seq(Nat \X Nat)
    /\ Len(ids) = Len(fragments)
    /\ (pc = "dispatch") => fragments # <<>>
    /\ calls \in Seq(Calls)
    /\ recent \in Seq(Calls)
    /\ identicalRun \in 0..IdenticalLimit
    /\ malformedRun \in 0..MalformedLimit
    /\ termination \in {"max_steps", "timeout", "server_error", "final_answer",
                         "empty_answer", "malformed_calls", "loop_detected"}

InvalidCalls == {c \in Calls : ~Valid(c)}

Table == INSTANCE LoopTermination WITH
             turns <- steps, made <- calls,
             reason <- IF pc = "ended" THEN termination ELSE "running"

\* The two counters, which run on across turns and are left half-updated when a turn
\* is cut, say what they are meant to say of the calls made: how many of the last
\* ones are identical, and how many are invalid.
CountersAgree ==
    Running =>
        /\ recent = IF calls = <<>> THEN <<>> ELSE <<calls[Len(calls)]>>
        /\ identicalRun <= Len(calls)
        /\ malformedRun <= Len(calls)
        /\ \A n \in 1..Len(calls) :
              /\ n <= identicalRun <=> Table!Repeated(calls, n)
              /\ n <= malformedRun <=> Table!AllInvalid(calls, n)

\* A run ends for the reason the table of §4.8 gives for its turns and calls, at the
\* first call or turn that calls for an end and not later.
EndsByTable == Table!TableSpec

\* Every request is one the API accepts, in both history modes: each assistant
\* message is followed by the answers to all its calls, and no answer stands alone.
RequestsAnswered ==
    pc = "asked" =>
        /\ Sent[1].role = "system" /\ Sent[2].role = "user"
        /\ \A i \in 3..Len(Sent) :
              IF Sent[i].role = "assistant"
              THEN \A k \in DOMAIN Sent[i].ids :
                      /\ i + k <= Len(Sent)
                      /\ Sent[i + k] = [role |-> "tool", ids |-> <<Sent[i].ids[k]>>]
              ELSE \E j \in 3..(i - 1) :
                      /\ Sent[j].role = "assistant"
                      /\ i <= j + Len(Sent[j].ids)

Numbered(role) == Cardinality({i \in DOMAIN messages : messages[i].role = role})

\* The figures of the record agree with its transcript: every turn is a step, one
\* that failed is not timed, one that ended the run has no message, and every call
\* has its result in the transcript.
RecordAddsUp ==
    LET closing == {"final_answer", "empty_answer", "server_error"}
        failed  == pc = "ended" /\ termination = "server_error"
        closed  == pc = "ended" /\ termination \in closing
    IN /\ steps = Numbered("assistant") + IF closed THEN 1 ELSE 0
       /\ timed = steps - IF failed THEN 1 ELSE 0
       /\ Numbered("tool") = Len(calls)

\* Every run comes to an end, whatever the model sends.
RunEnds == <>(pc \in {"ended", "raised", "aborted"})

-----------------------------------------------------------------------------
(* What the repository says and the code does not keep.                    *)

\* dispatch: "Never repairs; never raises."  sandbox.py: "Nothing here raises into
\* the agent loop."
DispatchNeverRaises == pc # "raised"
=============================================================================
