---------------------------- MODULE LoopTermination ----------------------------
(***************************************************************************)
(* When an agent run ends, and why: the table a reader of a record's       *)
(* termination_reason goes by.  It speaks of the assistant turns taken and *)
(* of the tool calls made, over the whole run, and of nothing else; the    *)
(* loop that keeps counters instead is NativeLoop, which implements this.  *)
(***************************************************************************)
EXTENDS Integers, Sequences

CONSTANTS Calls, InvalidCalls, MaxSteps, IdenticalLimit, MalformedLimit

VARIABLES turns,     \* assistant turns taken, a failed one included
          made,      \* the tool calls made, in order
          reason     \* "running", or why the run ended

\* The last n of the calls are one call repeated; the last n are all invalid.
Repeated(s, n) ==
    /\ n <= Len(s)
    /\ \A i \in (Len(s) - n + 1)..Len(s) : s[i] = s[Len(s)]

AllInvalid(s, n) ==
    /\ n <= Len(s)
    /\ \A i \in (Len(s) - n + 1)..Len(s) : s[i] \in InvalidCalls

\* The verdict on the calls so far.  Both rules may come true with the same call;
\* the run is then malformed.
Verdict(s) ==
    IF AllInvalid(s, MalformedLimit) THEN "malformed_calls"
    ELSE IF Repeated(s, IdenticalLimit) THEN "loop_detected"
    ELSE "running"

TableInit == turns = 0 /\ made = <<>> /\ reason = "running"

TakeTurn ==
    /\ turns < MaxSteps
    /\ turns' = turns + 1
    /\ reason' \in {"running", "final_answer", "empty_answer", "server_error"}
    /\ UNCHANGED made

MakeCall ==
    /\ turns > 0
    /\ \E c \in Calls : made' = Append(made, c)
    /\ reason' = Verdict(made')
    /\ UNCHANGED turns

GiveUp ==
    /\ reason' = IF turns < MaxSteps THEN "timeout" ELSE "max_steps"
    /\ UNCHANGED <<turns, made>>

TableNext == reason = "running" /\ (TakeTurn \/ MakeCall \/ GiveUp)

TableSpec == TableInit /\ [][TableNext]_<<turns, made, reason>>

\* What a record's reason tells of its run: the calls made give the verdict it names, and
\* no verdict where it names none; no earlier call had given one; and the turns were
\* used up, or not, as it says.
ReasonIsEvident ==
    /\ Verdict(made) = IF reason \in {"malformed_calls", "loop_detected"} THEN reason
                       ELSE "running"
    /\ \A k \in 0..(Len(made) - 1) : Verdict(SubSeq(made, 1, k)) = "running"
    /\ turns <= MaxSteps
    /\ reason = "max_steps" => turns = MaxSteps
    /\ reason = "timeout" => turns < MaxSteps
=============================================================================
