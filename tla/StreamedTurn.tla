---------------------------- MODULE StreamedTurn ----------------------------
(***************************************************************************)
(* One streamed turn of the native driver: client.consume_stream against   *)
(* a server that cuts a message into chunks as it likes.                   *)
(*                                                                         *)
(* The message has reasoning, content and calls with arguments, each a row *)
(* of numbered pieces; a piece of a call is its id and name, or some of    *)
(* its arguments.  The server sends the pieces of each part in order, and  *)
(* interleaves them in any way: a chunk may carry a piece of the content,  *)
(* one of the reasoning and any number of pieces of calls, several of one  *)
(* call too, or nothing but a role.  It numbers its calls, as the protocol *)
(* says, and may leave out the number where it is 0.  The stream may end   *)
(* early, or break, which loses the whole turn.                            *)
(*                                                                         *)
(* A chunk is read in steps, as the body of the loop reads it: its texts,  *)
(* its pieces of calls one by one, its finish reason.  Nothing else runs   *)
(* meanwhile, so what the rest of a chunk holds is chosen as it is read.   *)
(***************************************************************************)
EXTENDS Integers, Sequences, FiniteSets

CONSTANTS
    Content,      \* number of pieces of the message's content
    Reasoning,    \* of its reasoning
    Arguments,    \* of each call, by the call's index
    MaxChunks     \* bound

Calls == DOMAIN Arguments

ASSUME StreamAssumption ==
    /\ Content \in Nat /\ Reasoning \in Nat /\ MaxChunks \in Nat
    /\ Calls \subseteq Nat /\ IsFiniteSet(Calls)
    /\ Arguments \in [Calls -> Nat \ {0}]

\* An absent field, an unset time.
Nothing == 0

\* The index of a piece that has none, or a null.
Missing == -1

-----------------------------------------------------------------------------
VARIABLES
    stream,    \* open, over, or broken by an exception
    chunk,     \* none at hand, its calls to be read, some of them read, or no calls to read
    sent,      \* how many pieces the server has sent of each part
    clock,     \* chunks received, which is also the time
    turn,      \* the StreamedTurn under construction, with pending in place of tool_calls
    began,     \* history: the time of the first generated token
    latest     \* history: the time of the last one

streamVars == <<stream, chunk, sent, clock, turn, began, latest>>

StreamInit ==
    /\ stream = "open"
    /\ chunk = "none"
    /\ sent = [content |-> 0, reasoning |-> 0, calls |-> [k \in Calls |-> 0]]
    /\ clock = 0
    /\ turn = [content |-> <<>>, reasoning |-> <<>>, pending |-> <<>>,
               finished |-> FALSE, tokens |-> FALSE,
               tFirst |-> Nothing, tLast |-> Nothing]
    /\ began = Nothing
    /\ latest = Nothing

Unsent == {k \in Calls : sent.calls[k] < Arguments[k]}

AllSent == sent.content = Content /\ sent.reasoning = Reasoning /\ Unsent = {}

-----------------------------------------------------------------------------
(* consume_stream, by the parts of a chunk.                                *)

IndexAsSent(d) == d.index

\* getattr(item, "index", 0) or 0
IndexOf(d) == IF d.index = Missing THEN 0 ELSE d.index

NewFragment(p, k) == <<>>

\* pending.setdefault(index, ToolCallFragment(index=index))
Fragment(p, k) == IF k \in DOMAIN p THEN p[k] ELSE <<>>

\* One turn of the loop over the pieces of calls: the arguments of a call are
\* concatenated as they come.
WithDelta(p, d) ==
    [k \in DOMAIN p \cup {IndexOf(d)} |->
        IF k = IndexOf(d) THEN Append(Fragment(p, k), d.piece) ELSE p[k]]

WithPiece(text, piece) == IF piece = Nothing THEN text ELSE Append(text, piece)

\* Reasoning and calls count as generated tokens, a role does not.
CarriesToken(c) == c.content # Nothing \/ c.reasoning # Nothing \/ c.calls

WithTexts(t, c, now) ==
    [t EXCEPT !.content   = WithPiece(@, c.content),
              !.reasoning = WithPiece(@, c.reasoning),
              !.tFirst    = IF @ = Nothing /\ CarriesToken(c) THEN now ELSE @]

\* The position of call k among those pending, whose indices are sorted.
Position(k) == Cardinality({j \in DOMAIN turn.pending : j <= k})

ToolCalls ==
    [i \in 1..Cardinality(DOMAIN turn.pending) |->
        turn.pending[CHOOSE k \in DOMAIN turn.pending : Position(k) = i]]

-----------------------------------------------------------------------------
(* The server's chunks, as the loop reads them.                            *)

\* The next piece of a text of which n of `all` are sent, or nothing of it.
Next1(n, all) == {Nothing} \cup (IF n < all THEN {n + 1} ELSE {})

\* A chunk with choices: a role, pieces of the texts, pieces of calls.
SendChunk ==
    /\ stream = "open" /\ chunk = "none" /\ ~turn.finished
    /\ clock < MaxChunks
    /\ clock' = clock + 1
    /\ \E c \in [content : Next1(sent.content, Content),
                 reasoning : Next1(sent.reasoning, Reasoning),
                 calls : {FALSE, Unsent # {}}] :
          /\ sent' = [sent EXCEPT !.content = IF c.content = Nothing THEN @ ELSE c.content,
                                  !.reasoning = IF c.reasoning = Nothing THEN @ ELSE c.reasoning]
          /\ turn' = WithTexts(turn, c, clock + 1)
          /\ chunk' = IF c.calls THEN "calls" ELSE "texts"
          /\ began' = IF began = Nothing /\ CarriesToken(c) THEN clock + 1 ELSE began
          /\ latest' = IF CarriesToken(c) THEN clock + 1 ELSE latest
    /\ UNCHANGED stream

\* The next of the chunk's pieces of calls, of any call that has one left.
SendCall ==
    /\ chunk \in {"calls", "some"}
    /\ \E k \in Unsent : \E index \in {k} \cup (IF k = 0 THEN {Missing} ELSE {}) :
          LET piece == sent.calls[k] + 1 IN
          /\ sent' = [sent EXCEPT !.calls[k] = piece]
          /\ turn' = [turn EXCEPT !.pending = WithDelta(@, [index |-> index, piece |-> piece])]
    /\ chunk' = "some"
    /\ UNCHANGED <<stream, clock, began, latest>>

\* The end of a chunk, which with or after the last piece has the finish reason.
EndChunk ==
    /\ chunk \in {"texts", "some"}
    /\ chunk' = "none"
    /\ \/ UNCHANGED turn
       \/ AllSent /\ turn' = [turn EXCEPT !.finished = TRUE, !.tLast = clock]
    /\ UNCHANGED <<stream, sent, clock, began, latest>>

\* The chunk with empty choices that carries the token counts.
SendUsage ==
    /\ stream = "open" /\ chunk = "none" /\ turn.finished /\ ~turn.tokens
    /\ clock' = clock + 1
    /\ turn' = [turn EXCEPT !.tokens = TRUE]
    /\ UNCHANGED <<stream, chunk, sent, began, latest>>

\* Between chunks the stream ends, in time or early, and the turn is returned.
EndOfStream ==
    /\ stream = "open" /\ chunk = "none"
    /\ stream' = "over"
    /\ UNCHANGED <<chunk, sent, clock, turn, began, latest>>

\* The connection breaks or the server reports an error: consume_stream raises.
Break ==
    /\ stream = "open" /\ chunk = "none"
    /\ stream' = "broken"
    /\ UNCHANGED <<chunk, sent, clock, turn, began, latest>>

StreamNext == SendChunk \/ SendCall \/ EndChunk \/ SendUsage \/ EndOfStream \/ Break

StreamSpec == StreamInit /\ [][StreamNext]_streamVars

-----------------------------------------------------------------------------
(* Properties.                                                             *)

Upto(n) == [i \in 1..n |-> i]

StreamTypeOK ==
    /\ stream \in {"open", "over", "broken"}
    /\ chunk \in {"none", "calls", "some", "texts"}
    /\ sent \in [content : 0..Content, reasoning : 0..Reasoning, calls : [Calls -> Nat]]
    /\ clock \in 0..(MaxChunks + 1)
    /\ turn.content \in Seq(1..Content) /\ turn.reasoning \in Seq(1..Reasoning)
    /\ DOMAIN turn.pending \subseteq Calls
    /\ \A k \in DOMAIN turn.pending : turn.pending[k] \in Seq(1..Arguments[k])
    /\ turn.finished \in BOOLEAN /\ turn.tokens \in BOOLEAN
    /\ turn.tFirst \in 0..clock /\ turn.tLast \in 0..clock
    /\ began \in 0..clock /\ latest \in 0..clock

Started == {k \in Calls : sent.calls[k] > 0}

\* A returned turn is what the server sent of its message, however it was cut: the
\* content and the reasoning in order, the calls in the order of their indices with
\* the whole of their arguments; all of the message if the turn has its reason.  Its
\* generation window begins with the first generated token of any kind and, once the
\* turn has its reason, ends no earlier than the last.
TurnIsWhatWasSent ==
    stream = "over" =>
        /\ turn.content = Upto(sent.content)
        /\ turn.reasoning = Upto(sent.reasoning)
        /\ Len(ToolCalls) = Cardinality(Started)
        /\ \A k \in Started :
              ToolCalls[Cardinality({j \in Started : j <= k})] = Upto(sent.calls[k])
        /\ turn.tFirst = began
        /\ turn.finished => AllSent /\ turn.tLast >= latest
=============================================================================
