------------------------------- MODULE PiLog -------------------------------
(***************************************************************************)
(* A pi run's event log and what driver_pi.py reads out of it.             *)
(*                                                                         *)
(* pi prints an event per line: turn_start, message_end for each message   *)
(* that is settled, and at its end agent_end with all messages.  It may be *)
(* killed at any point, also in the middle of a line.  The driver has only *)
(* the output, when the process is over.                                   *)
(*                                                                         *)
(* pi is modelled from what _outcome_from_output and its docstrings say of *)
(* it.  A message is its role, the calls it makes, the call it answers and *)
(* whether it has text.  A line that is not JSON is "noise": a banner, the *)
(* beginning of a torn event, or one that splitlines() has cut.            *)
(***************************************************************************)
EXTENDS Integers, Sequences, FiniteSets, SequencesExt

CONSTANTS
    MaxTurns,      \* bound: turns of a pi run
    MaxCalls,      \* bound: calls in a turn
    Separators     \* TRUE when a message may hold a character such as U+2028

ASSUME PiAssumption ==
    MaxTurns \in Nat /\ MaxCalls \in Nat /\ Separators \in BOOLEAN

\* Roles of messages that are part of the conversation, and extension output.
Roles == {"user", "assistant", "toolResult", "custom"}

NoCallId == 0

Message(role, calls, answers, text, cut) ==
    [role |-> role, calls |-> calls, answers |-> answers, text |-> text, cut |-> cut]

-----------------------------------------------------------------------------
VARIABLES
    pi,          \* starting, between turns, asking the model, settled, dead
    messages,    \* the conversation as pi has settled it
    open,        \* calls of the last assistant message not answered yet
    turns,       \* turns begun
    lastId,      \* the last call id given
    output       \* the lines printed

piVars == <<pi, messages, open, turns, lastId, output>>

PiInit ==
    /\ pi = "starting"
    /\ messages = <<>>
    /\ open = <<>>
    /\ turns = 0
    /\ lastId = NoCallId
    /\ output = <<>>

Noise == [type |-> "noise"]
TurnStart == [type |-> "turn_start"]
MessageEnd(m) == [type |-> "message_end", message |-> m]
AgentEnd(ms) == [type |-> "agent_end", messages |-> ms]

\* stdout.splitlines() also cuts at characters that JSON leaves as they are inside a
\* string.  The pieces of the line fail to parse and are passed over.  (A piece that by
\* itself were a number or a string of JSON would parse, and raise at its .get: pi's
\* lines, cut inside a message, are taken to have no such piece.)
LineOf(event) ==
    CASE event.type = "message_end" -> IF event.message.cut THEN Noise ELSE event
      [] event.type = "agent_end" ->
            IF \E i \in DOMAIN event.messages : event.messages[i].cut THEN Noise ELSE event
      [] OTHER -> event

Emit(event) == output' = Append(output, LineOf(event))

-----------------------------------------------------------------------------
(* pi.                                                                     *)

Cuts == IF Separators THEN BOOLEAN ELSE {FALSE}

\* The warning pi prints before its stream.
Banner ==
    /\ pi = "starting" /\ output = <<>>
    /\ output' = <<Noise>>
    /\ UNCHANGED <<pi, messages, open, turns, lastId>>

\* A message is settled and its event printed; or pi dies over the line.
Settle(m) ==
    /\ messages' = Append(messages, m)
    /\ \/ Emit(MessageEnd(m)) /\ pi' = "between"
       \/ output' = Append(output, Noise) /\ pi' = "dead"

Prompted ==
    /\ pi = "starting"
    /\ Settle(Message("user", <<>>, NoCallId, TRUE, FALSE))
    /\ UNCHANGED <<open, turns, lastId>>

TurnBegins ==
    /\ pi = "between" /\ open = <<>> /\ turns < MaxTurns
    /\ Last(messages).role # "assistant"
    /\ pi' = "asking"
    /\ turns' = turns + 1
    /\ Emit(TurnStart)
    /\ UNCHANGED <<messages, open, lastId>>

\* The model answers: with calls, with text, with both or with neither.
AssistantSettles ==
    /\ pi = "asking"
    /\ \E n \in 0..MaxCalls, text \in BOOLEAN, cut \in Cuts :
          LET calls == [i \in 1..n |-> lastId + i] IN
          /\ Settle(Message("assistant", calls, NoCallId, text, cut))
          /\ open' = calls
          /\ lastId' = lastId + n
    /\ UNCHANGED turns

\* A tool has run.  A result may be empty.
ResultSettles ==
    /\ pi = "between" /\ open # <<>>
    /\ \E text \in BOOLEAN :
          Settle(Message("toolResult", <<>>, Head(open), text, FALSE))
    /\ open' = Tail(open)
    /\ UNCHANGED <<turns, lastId>>

\* Extension output: an event, and no message of the conversation.
CustomMessage ==
    /\ pi = "between" /\ open # <<>>
    /\ Last(output) = MessageEnd(Last(messages))
    /\ Emit(MessageEnd(Message("custom", <<>>, NoCallId, TRUE, FALSE)))
    /\ UNCHANGED <<pi, messages, open, turns, lastId>>

\* The model has made no more calls.
Settles ==
    /\ pi = "between" /\ open = <<>>
    /\ Last(messages).role = "assistant"
    /\ pi' = "settled"
    /\ Emit(AgentEnd(messages))
    /\ UNCHANGED <<messages, open, turns, lastId>>

\* The wall clock, the memory limit or a crash, between lines or within one.
Killed ==
    /\ pi \notin {"settled", "dead"}
    /\ pi' = "dead"
    /\ output' \in {output, Append(output, Noise)}
    /\ UNCHANGED <<messages, open, turns, lastId>>

PiNext ==
    \/ Banner \/ Prompted \/ TurnBegins \/ AssistantSettles \/ ResultSettles
    \/ CustomMessage \/ Settles \/ Killed

PiSpec == PiInit /\ [][PiNext]_piVars

-----------------------------------------------------------------------------
(* _outcome_from_output: pure functions of the lines printed.              *)

\* The elements of s whose flag is set, as a recursive function.
Compress(s, keep) ==
    LET upto[n \in 0..Len(s)] ==
            IF n = 0 THEN <<>>
            ELSE IF keep[n] THEN Append(upto[n - 1], s[n])
            ELSE upto[n - 1]
    IN  upto[Len(s)]

\* [e for e in s if Test(e)]
Where(s, Test(_)) == Compress(s, [i \in DOMAIN s |-> Test(s[i])])

Events(lines) == Where(lines, LAMBDA line : line.type # "noise")

OfType(lines, type) == Where(Events(lines), LAMBDA e : e.type = type)

AnyRole(m) == TRUE

InConversation(m) == m.role \in {"user", "assistant", "toolResult"}

MessagesIn(lines) ==
    LET ends == OfType(lines, "message_end") IN [i \in DOMAIN ends |-> ends[i].message]

\* _transcript_from_events.
Streamed(lines) == Where(MessagesIn(lines), InConversation)

\* agent_end is authoritative when it arrives.
HasEnd(lines) == OfType(lines, "agent_end") # <<>>

Transcript(lines) ==
    IF HasEnd(lines) /\ Last(OfType(lines, "agent_end")).messages # <<>>
    THEN Last(OfType(lines, "agent_end")).messages
    ELSE Streamed(lines)

Steps(lines) == Len(OfType(lines, "turn_start"))

FromAssistant(m) == m.role = "assistant"

Replies(transcript) == Where(transcript, FromAssistant)

\* _final_answer_text of a run that settled: whether there is an answer.
Answered(lines) ==
    LET replies == Replies(Transcript(lines)) IN
    HasEnd(lines) /\ replies # <<>> /\ Last(replies).text

ResultsFor(transcript, id) ==
    Where(transcript, LAMBDA m : m.role = "toolResult" /\ m.answers = id)

\* results.get(id, ""): whether call id is handed a result with text.
HasResult(transcript, id) ==
    LET results == ResultsFor(transcript, id) IN
    \E i \in DOMAIN results : results[i].text

\* _calls_from_transcript: the ids of the calls, in order.
CallsMade(transcript) ==
    LET replies == Replies(transcript) IN
    FlattenSeq([i \in DOMAIN replies |-> replies[i].calls])

\* _metrics_from_events: the assistant messages whose usage is added up.
TurnsMetered(lines) == Len(Where(MessagesIn(lines), FromAssistant))

-----------------------------------------------------------------------------
(* Properties.                                                             *)

PiTypeOK ==
    /\ pi \in {"starting", "between", "asking", "settled", "dead"}
    /\ \A i \in DOMAIN messages : messages[i].role \in Roles \ {"custom"}
    /\ open \in Seq(1..lastId)
    /\ turns \in 0..MaxTurns
    /\ lastId \in Nat
    /\ \A i \in DOMAIN output :
          output[i].type \in {"noise", "turn_start", "message_end", "agent_end"}

\* What is read from the output of a run that is over agrees with the conversation pi
\* had, whether the log has its end or is put together from the stream: the same
\* messages, short by at most one in flight; a step for each turn begun; each call once
\* and in order, with its own result; an answer only from a run that settled; and as
\* many turns metered as the transcript has.
LogIsTheConversation ==
    pi \in {"settled", "dead"} =>
        LET transcript == Transcript(output) IN
        /\ transcript = messages \/ (pi = "dead" /\ transcript = Front(messages))
        /\ Steps(output) = turns
        /\ \A i \in DOMAIN CallsMade(transcript) : CallsMade(transcript)[i] = i
        /\ \A i \in DOMAIN transcript :
              transcript[i].role = "toolResult" =>
                  transcript[i].text = HasResult(transcript, transcript[i].answers)
        /\ Answered(output) => pi = "settled" /\ Last(messages).text
        /\ TurnsMetered(output) = Len(Replies(transcript))

-----------------------------------------------------------------------------
(* What the repository says and the code does not keep.                    *)

\* _outcome_from_output: "agent_end carries the whole log and is authoritative when it
\* arrives".  A run that settled is read as one.
EndIsAuthoritative ==
    pi = "settled" => HasEnd(output) /\ Transcript(output) = messages
=============================================================================
