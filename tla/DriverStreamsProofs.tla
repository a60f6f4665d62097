------------------------- MODULE DriverStreamsProofs -------------------------
(***************************************************************************)
(* Safety of DriverStreams: for messages of any size and any numbering of  *)
(* their calls, a streamed turn is what the server sent.  For              *)
(* conversations of any length, and wherever pi is killed, what            *)
(* _outcome_from_output reads out of its log is the conversation.          *)
(***************************************************************************)
EXTENDS DriverStreams, TLAPS, FiniteSetTheorems, SequenceTheorems, WellFoundedInduction

-----------------------------------------------------------------------------
(***************************************************************************)
(* The streamed turn.  The property is about a turn that is returned; the  *)
(* invariant says the same of the turn at every chunk: what is pending is  *)
(* what is sent, call by call, and the generation window is that of the    *)
(* chunks so far.                                                          *)
(***************************************************************************)
Sent ==
    /\ stream \in {"open", "over", "broken"}
    /\ sent \in [content : 0..Content, reasoning : 0..Reasoning, calls : [Calls -> Nat]]
    /\ \A k \in Calls : sent.calls[k] <= Arguments[k]

Shape ==
    turn = [content |-> turn.content, reasoning |-> turn.reasoning, pending |-> turn.pending,
            finished |-> turn.finished, tokens |-> turn.tokens,
            tFirst |-> turn.tFirst, tLast |-> turn.tLast]

\* The reason comes at the end of a chunk, and after it only the token counts.
Chunks ==
    /\ chunk \in {"none", "calls", "some", "texts"}
    /\ turn.finished \in BOOLEAN /\ turn.tokens \in BOOLEAN
    /\ chunk # "none" => ~turn.finished
    /\ turn.tokens => turn.finished

Times ==
    /\ clock \in 0..(MaxChunks + 1) /\ (~turn.tokens => clock <= MaxChunks)
    /\ began \in 0..clock /\ turn.tFirst = began
    /\ latest \in 0..clock /\ turn.tLast \in 0..clock
    /\ turn.finished => AllSent /\ turn.tLast >= latest

Texts ==
    /\ turn.content = Upto(sent.content)
    /\ turn.reasoning = Upto(sent.reasoning)

Pending ==
    /\ DOMAIN turn.pending = Started
    /\ \A k \in Started : turn.pending[k] = Upto(sent.calls[k])

StreamInv == Shape /\ Sent /\ Chunks /\ Times /\ Texts /\ Pending

\* Arguments arrive in order, so concatenating them gives the arguments.
LEMMA AppendNext ==
    ASSUME NEW n \in Nat
    PROVE  /\ Append(Upto(n), n + 1) = Upto(n + 1)
           /\ Upto(n) \in Seq(1..n)
           /\ Upto(0) = <<>>
  BY DEF Upto

LEMMA InitStreamInv == StreamInit => StreamInv
<1> SUFFICES ASSUME StreamInit PROVE StreamInv
  OBVIOUS
<1>1. Shape /\ Sent
  BY StreamAssumption DEF StreamInit, Shape, Sent
<1>2. Chunks
  BY DEF StreamInit, Chunks
<1>3. Times
  BY StreamAssumption DEF StreamInit, Times, Nothing
<1>4. Texts
  BY AppendNext DEF StreamInit, Texts
<1>5. Pending
  <2>1. Started = {} /\ DOMAIN turn.pending = {}
    BY DEF StreamInit, Started
  <2>2. QED
    BY <2>1 DEF Pending
<1>6. QED
  BY <1>1, <1>2, <1>3, <1>4, <1>5 DEF StreamInv

\* A text takes in its next piece, or nothing.
LEMMA PieceTaken ==
    ASSUME NEW n \in Nat, NEW all \in Nat, n <= all, NEW piece \in Next1(n, all)
    PROVE  LET m == IF piece = Nothing THEN n ELSE piece IN
           m \in 0..all /\ WithPiece(Upto(n), piece) = Upto(m)
<1>1. CASE piece = Nothing
  BY <1>1 DEF WithPiece
<1>2. CASE piece # Nothing
  <2>1. piece = n + 1 /\ n < all
    BY <1>2 DEF Next1
  <2>2. QED
    BY <1>2, <2>1, AppendNext DEF WithPiece
<1>3. QED
  BY <1>1, <1>2

LEMMA ChunkKeeps == ASSUME StreamInv, SendChunk PROVE StreamInv'
<1>1. PICK c \in [content : Next1(sent.content, Content),
                  reasoning : Next1(sent.reasoning, Reasoning),
                  calls : {FALSE, Unsent # {}}] :
         /\ sent' = [sent EXCEPT !.content = IF c.content = Nothing THEN @ ELSE c.content,
                                 !.reasoning = IF c.reasoning = Nothing THEN @ ELSE c.reasoning]
         /\ turn' = WithTexts(turn, c, clock + 1)
         /\ chunk' = IF c.calls THEN "calls" ELSE "texts"
         /\ began' = IF began = Nothing /\ CarriesToken(c) THEN clock + 1 ELSE began
         /\ latest' = IF CarriesToken(c) THEN clock + 1 ELSE latest
  BY DEF SendChunk
<1>2. /\ stream' = stream /\ ~turn.finished /\ clock < MaxChunks /\ clock' = clock + 1
      /\ MaxChunks \in Nat /\ Content \in Nat /\ Reasoning \in Nat
  BY StreamAssumption DEF SendChunk
<1>3. sent \in [content : 0..Content, reasoning : 0..Reasoning, calls : [Calls -> Nat]]
  BY DEF StreamInv, Sent
<1>4. /\ sent = [content |-> sent.content, reasoning |-> sent.reasoning, calls |-> sent.calls]
      /\ sent.content \in Nat /\ sent.content <= Content
      /\ sent.reasoning \in Nat /\ sent.reasoning <= Reasoning
  BY <1>2, <1>3
<1>5. sent' = [content   |-> IF c.content = Nothing THEN sent.content ELSE c.content,
                  reasoning |-> IF c.reasoning = Nothing THEN sent.reasoning ELSE c.reasoning,
                  calls     |-> sent.calls]
  BY <1>1, <1>4
<1>6. /\ turn'.content = WithPiece(turn.content, c.content)
      /\ turn'.reasoning = WithPiece(turn.reasoning, c.reasoning)
      /\ turn'.pending = turn.pending
      /\ turn'.finished = turn.finished /\ turn'.tokens = turn.tokens
      /\ turn'.tFirst = IF turn.tFirst = Nothing /\ CarriesToken(c) THEN clock + 1
                        ELSE turn.tFirst
      /\ turn'.tLast = turn.tLast /\ Shape'
  BY <1>1 DEF StreamInv, Shape, WithTexts
<1>7. /\ sent'.content \in 0..Content /\ turn'.content = Upto(sent'.content)
      /\ sent'.reasoning \in 0..Reasoning /\ turn'.reasoning = Upto(sent'.reasoning)
  BY <1>2, <1>4, <1>5, <1>6, PieceTaken DEF StreamInv, Texts
<1>8. Sent'
  BY <1>2, <1>3, <1>5, <1>7 DEF StreamInv, Sent
<1>9. Chunks'
  BY <1>1, <1>2, <1>6 DEF StreamInv, Chunks
<1>10. Times'
  <2>1. ~turn'.finished /\ ~turn'.tokens
    BY <1>2, <1>6 DEF StreamInv, Chunks
  <2>2. clock' \in 0..MaxChunks /\ clock \in Nat
    BY <1>2 DEF StreamInv, Times
  <2>3. began' \in 0..clock' /\ turn'.tFirst = began'
    BY <1>1, <1>2, <1>6, <2>2 DEF StreamInv, Times, Nothing
  <2>4. latest' \in 0..clock' /\ turn'.tLast \in 0..clock'
    BY <1>1, <1>2, <1>6, <2>2 DEF StreamInv, Times
  <2>5. QED
    BY <1>2, <2>1, <2>2, <2>3, <2>4 DEF Times
<1>11. Texts'
  BY <1>7 DEF Texts
<1>12. Pending'
  BY <1>5, <1>6 DEF StreamInv, Pending, Started
<1>13. QED
  BY <1>6, <1>8, <1>9, <1>10, <1>11, <1>12 DEF StreamInv

LEMMA CallKeeps == ASSUME StreamInv, SendCall PROVE StreamInv'
<1>1. PICK k \in Unsent :
         \E index \in {k} \cup (IF k = 0 THEN {Missing} ELSE {}) :
            /\ sent' = [sent EXCEPT !.calls[k] = sent.calls[k] + 1]
            /\ turn' = [turn EXCEPT !.pending =
                           WithDelta(@, [index |-> index, piece |-> sent.calls[k] + 1])]
  BY DEF SendCall
<1>2. PICK index \in {k} \cup (IF k = 0 THEN {Missing} ELSE {}) :
         /\ sent' = [sent EXCEPT !.calls[k] = sent.calls[k] + 1]
         /\ turn' = [turn EXCEPT !.pending =
                        WithDelta(@, [index |-> index, piece |-> sent.calls[k] + 1])]
  BY <1>1
<1> DEFINE d == [index |-> index, piece |-> sent.calls[k] + 1]
<1>3. /\ chunk \in {"calls", "some"} /\ chunk' = "some"
      /\ UNCHANGED <<stream, clock, began, latest>>
  BY DEF SendCall
<1>4. IndexOf(d) = k
  BY StreamAssumption DEF IndexOf, Unsent, Missing
<1>5. /\ turn'.content = turn.content /\ turn'.reasoning = turn.reasoning
      /\ turn'.pending = WithDelta(turn.pending, d)
      /\ turn'.finished = turn.finished /\ turn'.tokens = turn.tokens
      /\ turn'.tFirst = turn.tFirst /\ turn'.tLast = turn.tLast /\ Shape'
  BY <1>2 DEF StreamInv, Shape
<1>6. /\ k \in Calls /\ sent.calls \in [Calls -> Nat] /\ sent.calls[k] < Arguments[k]
      /\ sent.calls[k] \in Nat /\ Arguments[k] \in Nat
  BY StreamAssumption DEF StreamInv, Sent, Unsent
<1>7. /\ sent'.content = sent.content /\ sent'.reasoning = sent.reasoning
      /\ sent'.calls = [sent.calls EXCEPT ![k] = sent.calls[k] + 1]
  BY <1>2 DEF StreamInv, Sent
<1>8. Sent'
  <2>1. sent' \in [content : 0..Content, reasoning : 0..Reasoning, calls : [Calls -> Nat]]
    BY <1>2, <1>6 DEF StreamInv, Sent
  <2>2. \A j \in Calls : sent'.calls[j] <= Arguments[j]
    BY <1>6, <1>7 DEF StreamInv, Sent
  <2>3. QED
    BY <1>3, <2>1, <2>2 DEF StreamInv, Sent
<1>9. Chunks'
  BY <1>3, <1>5 DEF StreamInv, Chunks
<1>10. Times'
  BY <1>3, <1>5 DEF StreamInv, Chunks, Times
<1>11. Texts'
  BY <1>5, <1>7 DEF StreamInv, Texts
<1>12. Pending'
  <2>1. Started' = Started \cup {k}
    BY <1>6, <1>7 DEF Started
  <2>2. turn'.pending =
           [j \in DOMAIN turn.pending \cup {k} |->
              IF j = k THEN Append(Fragment(turn.pending, j), sent.calls[k] + 1)
              ELSE turn.pending[j]]
    BY <1>4, <1>5 DEF WithDelta
  <2>3. Fragment(turn.pending, k) = Upto(sent.calls[k])
    <3>1. CASE k \in Started
      BY <3>1 DEF StreamInv, Pending, Fragment
    <3>2. CASE k \notin Started
      <4>1. sent.calls[k] = 0
        BY <1>6, <3>2 DEF Started
      <4>2. QED
        BY <3>2, <4>1, AppendNext DEF StreamInv, Pending, Fragment
    <3>3. QED
      BY <3>1, <3>2
  <2>4. turn'.pending[k] = Upto(sent'.calls[k])
    BY <1>6, <1>7, <2>2, <2>3, AppendNext
  <2>5. \A j \in Started : j # k => turn'.pending[j] = Upto(sent'.calls[j])
    BY <1>6, <1>7, <2>2 DEF StreamInv, Pending, Started
  <2>6. DOMAIN turn'.pending = Started'
    BY <2>1, <2>2 DEF StreamInv, Pending
  <2>7. QED
    BY <2>1, <2>4, <2>5, <2>6 DEF Pending
<1>13. QED
  BY <1>5, <1>8, <1>9, <1>10, <1>11, <1>12 DEF StreamInv

LEMMA EndKeeps == ASSUME StreamInv, EndChunk PROVE StreamInv'
<1>1. /\ chunk \in {"texts", "some"} /\ chunk' = "none"
      /\ UNCHANGED <<stream, sent, clock, began, latest>>
  BY DEF EndChunk
<1>2. CASE UNCHANGED turn
  <2>1. Shape' /\ Sent' /\ Texts' /\ Pending' /\ Chunks'
    BY <1>1, <1>2 DEF StreamInv, Shape, Sent, Texts, Pending, Started, Chunks
  <2>2. Times'
    BY <1>1, <1>2 DEF StreamInv, Chunks, Times
  <2>3. QED
    BY <1>2, <2>1, <2>2 DEF StreamInv
<1>3. CASE AllSent /\ turn' = [turn EXCEPT !.finished = TRUE, !.tLast = clock]
  <2>1. /\ turn'.content = turn.content /\ turn'.reasoning = turn.reasoning
        /\ turn'.pending = turn.pending /\ turn'.finished = TRUE
        /\ turn'.tokens = turn.tokens /\ turn'.tFirst = turn.tFirst /\ turn'.tLast = clock
        /\ Shape'
    BY <1>3 DEF StreamInv, Shape
  <2>2. Sent' /\ Texts'
    BY <1>1, <2>1 DEF StreamInv, Sent, Texts
  <2>3. Pending' /\ Chunks'
    BY <1>1, <2>1 DEF StreamInv, Pending, Started, Chunks
  <2>4. clock \in Nat /\ latest \in 0..clock /\ MaxChunks \in Nat
    BY StreamAssumption DEF StreamInv, Times
  <2>5. AllSent'
    BY <1>1, <1>3 DEF AllSent, Unsent
  <2>6. Times'
    BY <1>1, <2>1, <2>4, <2>5 DEF StreamInv, Times
  <2>7. QED
    BY <2>1, <2>2, <2>3, <2>6 DEF StreamInv
<1>4. QED
  BY <1>2, <1>3 DEF EndChunk

LEMMA UsageKeeps == ASSUME StreamInv, SendUsage PROVE StreamInv'
<1>1. /\ turn.finished /\ ~turn.tokens /\ clock' = clock + 1 /\ chunk = "none"
      /\ UNCHANGED <<stream, chunk, sent, began, latest>>
  BY DEF SendUsage
<1>2. /\ turn'.content = turn.content /\ turn'.reasoning = turn.reasoning
      /\ turn'.pending = turn.pending /\ turn'.finished = turn.finished
      /\ turn'.tokens = TRUE /\ turn'.tFirst = turn.tFirst /\ turn'.tLast = turn.tLast
      /\ Shape'
  BY DEF SendUsage, StreamInv, Shape
<1>3. Sent' /\ Texts'
  BY <1>1, <1>2 DEF StreamInv, Sent, Texts
<1>4. Pending' /\ Chunks'
  BY <1>1, <1>2 DEF StreamInv, Pending, Started, Chunks
<1>5. Times'
  <2>1. clock \in 0..MaxChunks /\ MaxChunks \in Nat
    BY <1>1, StreamAssumption DEF StreamInv, Times
  <2>2. clock' \in 0..(MaxChunks + 1)
    BY <1>1, <2>1
  <2>3. /\ began' \in 0..clock' /\ turn'.tFirst = began'
        /\ latest' \in 0..clock' /\ turn'.tLast \in 0..clock'
    BY <1>1, <1>2, <2>1 DEF StreamInv, Times
  <2>4. AllSent' /\ turn'.tLast >= latest'
    BY <1>1, <1>2 DEF StreamInv, Times, AllSent, Unsent
  <2>5. QED
    BY <1>2, <2>2, <2>3, <2>4 DEF Times
<1>6. QED
  BY <1>2, <1>3, <1>4, <1>5 DEF StreamInv

LEMMA StreamStep == ASSUME StreamInv, StreamNext \/ UNCHANGED streamVars PROVE StreamInv'
<1>1. CASE EndOfStream \/ Break \/ UNCHANGED streamVars
  BY <1>1 DEF EndOfStream, Break, streamVars, StreamInv, Shape, Sent, Chunks, Times, Texts, Pending,
              Started, AllSent, Unsent
<1>2. QED
  BY <1>1, ChunkKeeps, CallKeeps, EndKeeps, UsageKeeps DEF StreamNext

-----------------------------------------------------------------------------
(***************************************************************************)
(* The order of the calls.  ToolCalls lists the pending fragments by the   *)
(* rank of their indices, and the rank tells any two apart.                *)
(***************************************************************************)
Rank(S, k) == Cardinality({j \in S : j <= k})

LEMMA RankTellsApart ==
    ASSUME NEW S \in SUBSET Nat, IsFiniteSet(S)
    PROVE  /\ \A k \in S : Rank(S, k) \in 1..Cardinality(S)
           /\ \A k, l \in S : Rank(S, k) = Rank(S, l) => k = l
<1> DEFINE Below(k) == {j \in S : j <= k}
<1>1. Cardinality(S) \in Nat
  BY FS_CardinalityType
<1>2. ASSUME NEW k \in S
      PROVE  /\ IsFiniteSet(Below(k)) /\ Rank(S, k) = Cardinality(Below(k))
             /\ Cardinality(Below(k)) \in 1..Cardinality(S)
  <2>1. Below(k) \in SUBSET S
    OBVIOUS
  <2>2. IsFiniteSet(Below(k)) /\ Cardinality(Below(k)) <= Cardinality(S)
    BY <2>1, FS_Subset
  <2>3. k \in Below(k)
    OBVIOUS
  <2>4. Cardinality(Below(k)) # 0 /\ Cardinality(Below(k)) \in Nat
    BY <2>2, <2>3, FS_EmptySet, FS_CardinalityType
  <2>5. QED
    BY <1>1, <2>2, <2>4 DEF Rank
<1>3. ASSUME NEW k \in S, NEW l \in S, k < l
      PROVE  Rank(S, k) # Rank(S, l)
  <2>0. k \in Nat /\ l \in Nat /\ \A j \in S : j \in Nat
    OBVIOUS
  <2>1. Below(k) \in SUBSET Below(l) /\ l \in Below(l) /\ l \notin Below(k)
    <3>1. \A j \in S : j <= k => j <= l
      BY <1>3, <2>0
    <3>2. l <= l /\ ~(l <= k)
      BY <1>3, <2>0
    <3>3. QED
      BY <3>1, <3>2
  <2>2. Cardinality(Below(k)) < Cardinality(Below(l))
    BY <1>2, <2>1, FS_Subset
  <2>3. QED
    BY <1>1, <1>2, <2>2
<1>4. \A k, l \in S : k = l \/ k < l \/ l < k
  OBVIOUS
<1>5. QED
  BY <1>2, <1>3, <1>4 DEF Rank

LEMMA CallsInOrder ==
    ASSUME StreamInv
    PROVE  /\ Len(ToolCalls) = Cardinality(Started)
           /\ \A k \in Started :
                 ToolCalls[Cardinality({j \in Started : j <= k})] = Upto(sent.calls[k])
<1>1. DOMAIN turn.pending = Started
  BY DEF StreamInv, Pending
<1>2. Started \in SUBSET Nat /\ IsFiniteSet(Started)
  <2>1. Started \in SUBSET Calls
    BY DEF Started
  <2>2. QED
    BY <2>1, StreamAssumption, FS_Subset
<1>3. Cardinality(Started) \in Nat
  BY <1>2, FS_CardinalityType
<1>4. ToolCalls = [i \in 1..Cardinality(Started) |->
                     turn.pending[CHOOSE k \in Started : Rank(Started, k) = i]]
  BY <1>1 DEF ToolCalls, Position, Rank
<1>5. Len(ToolCalls) = Cardinality(Started)
  BY <1>3, <1>4
<1>6. ASSUME NEW k \in Started
      PROVE  ToolCalls[Cardinality({j \in Started : j <= k})] = Upto(sent.calls[k])
  <2>1. Rank(Started, k) \in 1..Cardinality(Started)
    BY <1>2, RankTellsApart
  <2>2. (CHOOSE l \in Started : Rank(Started, l) = Rank(Started, k)) = k
    BY <1>2, RankTellsApart
  <2>3. ToolCalls[Rank(Started, k)] = turn.pending[k]
    BY <1>4, <2>1, <2>2
  <2>4. QED
    BY <2>3 DEF Rank, StreamInv, Pending
<1>7. QED
  BY <1>5, <1>6

-----------------------------------------------------------------------------
(* pi's log.                                                               *)

Bodies == [calls : Seq(Nat), answers : Nat, text : BOOLEAN, cut : BOOLEAN]

Said(roles) ==
    {Message(role, m.calls, m.answers, m.text, m.cut) : role \in roles, m \in Bodies}

Conversation == Said(Roles \ {"custom"})

PiEvents ==
    {TurnStart} \cup {MessageEnd(m) : m \in Said(Roles)}
                \cup {AgentEnd(ms) : ms \in Seq(Conversation)}

Lines == {Noise} \cup PiEvents

PiInv ==
    /\ pi \in {"starting", "between", "asking", "settled", "dead"}
    /\ messages \in Seq(Conversation)
    /\ open \in Seq(1..lastId)
    /\ turns \in 0..MaxTurns
    /\ lastId \in Nat
    /\ output \in Seq(Lines)

LEMMA InitPiInv == PiInit => PiInv
  BY PiAssumption DEF PiInit, PiInv, NoCallId

LEMMA LineOfEvent == ASSUME NEW e \in PiEvents PROVE LineOf(e) \in Lines
  BY DEF LineOf, PiEvents, Lines, TurnStart, MessageEnd, AgentEnd

LEMMA OneMoreLine == ASSUME PiInv, NEW l \in Lines PROVE Append(output, l) \in Seq(Lines)
  BY DEF PiInv

LEMMA SettleKeeps ==
    ASSUME PiInv, NEW m \in Conversation, Settle(m)
    PROVE  /\ messages' \in Seq(Conversation) /\ output' \in Seq(Lines)
           /\ pi' \in {"between", "dead"}
<1>1. MessageEnd(m) \in PiEvents
  BY DEF Conversation, Said, PiEvents
<1>2. LineOf(MessageEnd(m)) \in Lines /\ Noise \in Lines
  BY <1>1, LineOfEvent DEF Lines
<1>3. messages' \in Seq(Conversation)
  BY DEF Settle, PiInv
<1>4. output' \in Seq(Lines) /\ pi' \in {"between", "dead"}
  <2>1. CASE Emit(MessageEnd(m)) /\ pi' = "between"
    BY <1>2, <2>1, OneMoreLine DEF Emit
  <2>2. CASE output' = Append(output, Noise) /\ pi' = "dead"
    BY <1>2, <2>2, OneMoreLine
  <2>3. QED
    BY <2>1, <2>2 DEF Settle
<1>5. QED
  BY <1>3, <1>4

LEMMA Messages ==
    ASSUME NEW role \in Roles, NEW calls \in Seq(Nat), NEW answers \in Nat,
           NEW text \in BOOLEAN, NEW cut \in BOOLEAN
    PROVE  /\ Message(role, calls, answers, text, cut) \in Said(Roles)
           /\ role # "custom" => Message(role, calls, answers, text, cut) \in Conversation
<1> DEFINE m == [calls |-> calls, answers |-> answers, text |-> text, cut |-> cut]
<1>1. m \in Bodies /\ m.calls = calls /\ m.answers = answers /\ m.text = text /\ m.cut = cut
  BY DEF Bodies
<1>2. QED
  BY <1>1 DEF Said, Conversation

\* A message that makes no calls.
LEMMA PlainMessages ==
    ASSUME NEW role \in Roles, NEW answers \in Nat, NEW text \in BOOLEAN
    PROVE  /\ Message(role, <<>>, answers, text, FALSE) \in Said(Roles)
           /\ role # "custom" => Message(role, <<>>, answers, text, FALSE) \in Conversation
<1>1. <<>> \in Seq(Nat) /\ FALSE \in BOOLEAN
  OBVIOUS
<1>2. QED
  BY <1>1, Messages

LEMMA PiStep == ASSUME PiInv, PiNext \/ UNCHANGED piVars PROVE PiInv'
<1>1. CASE Banner
  BY <1>1 DEF Banner, PiInv, Lines
<1>2. CASE Prompted
  <2>1. Message("user", <<>>, NoCallId, TRUE, FALSE) \in Conversation
    <3>1. "user" \in Roles /\ NoCallId \in Nat /\ TRUE \in BOOLEAN /\ "user" # "custom"
      BY DEF Roles, NoCallId
    <3>2. QED
      BY <3>1, PlainMessages
  <2>2. QED
    BY <1>2, <2>1, SettleKeeps DEF Prompted, PiInv
<1>3. CASE TurnBegins
  <2>1. LineOf(TurnStart) \in Lines
    BY LineOfEvent DEF PiEvents
  <2>2. turns' \in 0..MaxTurns
    BY <1>3, PiAssumption DEF TurnBegins, PiInv
  <2>3. QED
    BY <1>3, <2>1, <2>2 DEF TurnBegins, Emit, PiInv
<1>4. CASE AssistantSettles
  <2>1. PICK n \in 0..MaxCalls, text \in BOOLEAN, cut \in Cuts :
           LET calls == [i \in 1..n |-> lastId + i] IN
           /\ Settle(Message("assistant", calls, NoCallId, text, cut))
           /\ open' = calls
           /\ lastId' = lastId + n
    BY <1>4 DEF AssistantSettles
  <2> DEFINE calls == [i \in 1..n |-> lastId + i]
  <2>2. n \in Nat /\ lastId \in Nat /\ lastId + n \in Nat
    BY PiAssumption DEF PiInv
  <2>3. calls \in Seq(1..(lastId + n)) /\ calls \in Seq(Nat)
    BY <2>2
  <2>4. cut \in BOOLEAN
    BY DEF Cuts
  <2>5. Message("assistant", calls, NoCallId, text, cut) \in Conversation
    BY <2>3, <2>4, Messages DEF Roles, NoCallId
  <2>6. QED
    BY <1>4, <2>1, <2>2, <2>3, <2>5, SettleKeeps DEF AssistantSettles, PiInv
<1>5. CASE ResultSettles
  <2>1. Head(open) \in Nat /\ Tail(open) \in Seq(1..lastId)
    <3>1. Head(open) \in 1..lastId /\ Tail(open) \in Seq(1..lastId)
      BY <1>5, HeadTailProperties DEF ResultSettles, PiInv
    <3>2. QED
      BY <3>1 DEF PiInv
  <2>2. \A text \in BOOLEAN :
           Message("toolResult", <<>>, Head(open), text, FALSE) \in Conversation
    <3>1. "toolResult" \in Roles /\ "toolResult" # "custom"
      BY DEF Roles
    <3>2. QED
      BY <2>1, <3>1, PlainMessages
  <2>3. QED
    BY <1>5, <2>1, <2>2, SettleKeeps DEF ResultSettles, PiInv
<1>6. CASE CustomMessage
  <2>1. Message("custom", <<>>, NoCallId, TRUE, FALSE) \in Said(Roles)
    <3>1. "custom" \in Roles /\ NoCallId \in Nat /\ TRUE \in BOOLEAN
      BY DEF Roles, NoCallId
    <3>2. QED
      BY <3>1, PlainMessages
  <2>2. LineOf(MessageEnd(Message("custom", <<>>, NoCallId, TRUE, FALSE))) \in Lines
    BY <2>1, LineOfEvent DEF PiEvents
  <2>3. QED
    BY <1>6, <2>2, OneMoreLine DEF CustomMessage, Emit, PiInv
<1>7. CASE Settles
  <2>1. LineOf(AgentEnd(messages)) \in Lines
    BY LineOfEvent DEF PiInv, PiEvents
  <2>2. QED
    BY <1>7, <2>1 DEF Settles, Emit, PiInv
<1>8. CASE Killed
  BY <1>8 DEF Killed, PiInv, Lines
<1>9. CASE UNCHANGED piVars
  BY <1>9 DEF piVars, PiInv
<1>10. QED
  BY <1>1, <1>2, <1>3, <1>4, <1>5, <1>6, <1>7, <1>8, <1>9 DEF PiNext

-----------------------------------------------------------------------------
(***************************************************************************)
(* Induction over the naturals, from the least number of a set of them.    *)
(* The library's own induction theorem takes an operator as a parameter;   *)
(* here what is shown of every number is a set.                            *)
(***************************************************************************)
LessThan == OpToRel(<, Nat)

LEMMA LessThanIsLess == \A m, n \in Nat : <<m, n>> \in LessThan <=> m < n
<1>1. LessThan = {pair \in Nat \X Nat : pair[1] < pair[2]}
  BY DEF LessThan, OpToRel
<1>2. QED
  BY <1>1, SMT

LEMMA LeastNumber ==
    ASSUME NEW T, T \subseteq Nat, T # {}
    PROVE  \E n \in T : \A m \in T : n <= m
<1>1. IsWellFoundedOn(LessThan, Nat)
  BY NatLessThanWellFounded DEF LessThan
<1>2. PICK n \in T : \A m \in T : ~(<<m, n>> \in LessThan)
  BY <1>1, WFMin
<1>3. \A m \in T : m \in Nat /\ n \in Nat /\ ~(m < n)
  BY <1>2, LessThanIsLess
<1>4. QED
  BY <1>3

LEMMA Induction ==
    ASSUME NEW T, T \subseteq Nat, 0 \in T, \A n \in T : n + 1 \in T
    PROVE  T = Nat
<1> SUFFICES ASSUME Nat \ T # {} PROVE FALSE
  OBVIOUS
<1>1. PICK n \in Nat \ T : \A m \in Nat \ T : n <= m
  BY LeastNumber
<1>2. n # 0 /\ n - 1 \in Nat
  BY <1>1
<1>3. n - 1 \in T
  BY <1>1, <1>2
<1>4. QED
  BY <1>1, <1>2, <1>3

-----------------------------------------------------------------------------
(***************************************************************************)
(* Compress and FlattenSeq are recursive functions, and a recursive        *)
(* function is the function chosen to satisfy its equation: one exists, by *)
(* induction, and so the chosen one satisfies it too.                      *)
(***************************************************************************)
Step(s, keep, f, i) == IF i = 0 THEN <<>>
                       ELSE IF keep[i] THEN Append(f[i - 1], s[i]) ELSE f[i - 1]

Builds(f, s, keep, n) == f = [i \in 0..n |-> Step(s, keep, f, i)]

LEMMA BuildsMeans ==
    ASSUME NEW s, NEW keep, NEW n \in Nat, NEW f
    PROVE  /\ Builds(f, s, keep, n) => \A i \in 0..n : f[i] = Step(s, keep, f, i)
           /\ f = [i \in 0..n |-> f[i]] /\ (\A i \in 0..n : f[i] = Step(s, keep, f, i))
                => Builds(f, s, keep, n)
<1>1. ASSUME Builds(f, s, keep, n), NEW i \in 0..n PROVE f[i] = Step(s, keep, f, i)
  <2> DEFINE F == [j \in 0..n |-> Step(s, keep, f, j)]
  <2>1. F[i] = Step(s, keep, f, i)
    OBVIOUS
  <2>2. f = F
    BY <1>1 DEF Builds
  <2> HIDE DEF F
  <2>3. QED
    BY <2>1, <2>2
<1>2. ASSUME f = [i \in 0..n |-> f[i]], \A i \in 0..n : f[i] = Step(s, keep, f, i)
      PROVE  Builds(f, s, keep, n)
  <2>1. [i \in 0..n |-> f[i]] = [i \in 0..n |-> Step(s, keep, f, i)]
    BY <1>2
  <2>2. QED
    BY <1>2, <2>1 DEF Builds
<1>3. QED
  BY <1>1, <1>2

LEMMA BuilderExists ==
    ASSUME NEW s, NEW keep, NEW n \in Nat
    PROVE  \E f : Builds(f, s, keep, n)
<1> DEFINE T == {m \in Nat : \E f : Builds(f, s, keep, m)}
<1>1. 0 \in T
  <2>1. Builds([i \in 0..0 |-> <<>>], s, keep, 0)
    BY DEF Builds, Step
  <2>2. QED
    BY <2>1
<1>2. ASSUME NEW m \in T PROVE m + 1 \in T
  <2>1. PICK f : Builds(f, s, keep, m)
    OBVIOUS
  <2> DEFINE g == [i \in 0..(m + 1) |-> IF i = m + 1 THEN Step(s, keep, f, i) ELSE f[i]]
  <2>2. \A i \in 0..m : f[i] = Step(s, keep, f, i)
    BY <2>1, BuildsMeans
  <2>3. \A i \in 0..(m + 1) : Step(s, keep, g, i) = Step(s, keep, f, i)
    BY DEF Step
  <2>4. \A i \in 0..(m + 1) : g[i] = Step(s, keep, g, i)
    BY <2>2, <2>3
  <2>5. g = [i \in 0..(m + 1) |-> g[i]]
    OBVIOUS
  <2>6. Builds(g, s, keep, m + 1)
    <3> HIDE DEF g
    <3> QED BY <2>4, <2>5, BuildsMeans
  <2>7. QED
    BY <2>6
<1>3. T = Nat
  <2> HIDE DEF T
  <2>1. T \subseteq Nat
    BY DEF T
  <2> QED BY <1>1, <1>2, <2>1, Induction
<1>4. QED
  BY <1>3

SameUpto(n, s, keep, t, kept) == \A i \in 1..n : s[i] = t[i] /\ keep[i] = kept[i]

\* Two builders agree as far as both reach
LEMMA BuildersAgree ==
    ASSUME NEW s, NEW t, NEW keep, NEW kept, NEW n \in Nat, NEW m \in Nat, n <= m,
           NEW f, Builds(f, s, keep, n), NEW g, Builds(g, t, kept, m),
           SameUpto(n, s, keep, t, kept)
    PROVE  f[n] = g[n]
<1> DEFINE T == {k \in Nat : k <= n => f[k] = g[k]}
<1>1. /\ \A i \in 0..n : f[i] = Step(s, keep, f, i)
      /\ \A i \in 0..m : g[i] = Step(t, kept, g, i)
  BY BuildsMeans
<1>2. 0 \in T
  BY <1>1 DEF Step
<1>3. ASSUME NEW k \in T PROVE k + 1 \in T
  <2> SUFFICES ASSUME k + 1 <= n PROVE f[k + 1] = g[k + 1]
    OBVIOUS
  <2>1. f[k] = g[k] /\ (k + 1) - 1 = k /\ k + 1 # 0 /\ s[k + 1] = t[k + 1] /\ keep[k+1] = kept[k+1]
    BY DEF SameUpto
  <2>2. f[k + 1] = Step(s, keep, f, k + 1) /\ g[k + 1] = Step(t, kept, g, k + 1)
    BY <1>1
  <2>3. QED
    BY <2>1, <2>2 DEF Step
<1>4. T = Nat
  <2> HIDE DEF T
  <2>1. T \subseteq Nat
    BY DEF T
  <2> QED BY <1>2, <1>3, <2>1, Induction
<1>5. QED
  BY <1>4

LEMMA CompressIsBuilt ==
    ASSUME NEW s, NEW keep, Len(s) \in Nat
    PROVE  \E f : Builds(f, s, keep, Len(s)) /\ Compress(s, keep) = f[Len(s)]
<1> DEFINE B(f) == Builds(f, s, keep, Len(s))
<1>1. \E f : B(f)
  BY BuilderExists
<1>2. B(CHOOSE f : B(f))
  <2> HIDE DEF B
  <2> QED BY <1>1
<1>3. Compress(s, keep) = (CHOOSE f : B(f))[Len(s)]
  BY DEF Compress, Builds, Step
<1>4. QED
  BY <1>2, <1>3

LEMMA CompressEmpty == ASSUME NEW keep PROVE Compress(<<>>, keep) = <<>>
<1> DEFINE s == <<>>
<1>1. Len(s) = 0 /\ Len(s) \in Nat
  OBVIOUS
<1> HIDE DEF s
<1>2. PICK f : Builds(f, s, keep, Len(s)) /\ Compress(s, keep) = f[Len(s)]
  BY <1>1, CompressIsBuilt
<1>3. f[0] = Step(s, keep, f, 0)
  BY <1>1, <1>2, BuildsMeans
<1>4. QED
  BY <1>1, <1>2, <1>3 DEF Step, s

LEMMA CompressAppend ==
    ASSUME NEW S, NEW s \in Seq(S), NEW e \in S, NEW keep, NEW kept,
           \A i \in 1..Len(s) : keep[i] = kept[i]
    PROVE  Compress(Append(s, e), kept) = IF kept[Len(s) + 1] THEN Append(Compress(s, keep), e)
                                         ELSE Compress(s, keep)
<1> DEFINE n == Len(s)
           t == Append(s, e)
<1>1. /\ n \in Nat /\ Len(t) = n + 1 /\ n + 1 \in Nat /\ n <= n + 1 /\ n + 1 \in 0..(n + 1)
      /\ \A i \in 1..n : s[i] = t[i] /\ keep[i] = kept[i]
      /\ t[n + 1] = e
  OBVIOUS
<1>0. Len(s) = n
  OBVIOUS
<1> HIDE DEF n, t
<1>2. PICK f : Builds(f, s, keep, n) /\ Compress(s, keep) = f[n]
  BY <1>0, <1>1, CompressIsBuilt
<1>3. PICK g : Builds(g, t, kept, n + 1) /\ Compress(t, kept) = g[n + 1]
  BY <1>1, CompressIsBuilt
<1> DEFINE m == n + 1
<1>4. f[n] = g[n]
  <2>1. /\ m \in Nat /\ n <= m /\ Builds(f, s, keep, n) /\ Builds(g, t, kept, m)
        /\ SameUpto(n, s, keep, t, kept)
    BY <1>1, <1>2, <1>3 DEF SameUpto
  <2> HIDE DEF m
  <2>2. QED
    BY <1>1, <2>1, BuildersAgree
<1>5. g[n + 1] = Step(t, kept, g, n + 1)
  BY <1>1, <1>3, BuildsMeans
<1>6. n + 1 # 0 /\ (n + 1) - 1 = n
  BY <1>1
<1>7. QED
  BY <1>0, <1>1, <1>2, <1>3, <1>4, <1>5, <1>6 DEF Step, t

\* What Compress keeps: members of s that are to be kept, and each of them.
LEMMA CompressKeeps ==
    ASSUME NEW S, NEW s \in Seq(S), NEW keep
    PROVE  /\ Compress(s, keep) \in Seq(S)
           /\ \A j \in DOMAIN Compress(s, keep) :
                 \E i \in DOMAIN s : keep[i] /\ Compress(s, keep)[j] = s[i]
           /\ \A i \in DOMAIN s : keep[i] =>
                 \E j \in DOMAIN Compress(s, keep) : Compress(s, keep)[j] = s[i]
<1>1. PICK f : Builds(f, s, keep, Len(s)) /\ Compress(s, keep) = f[Len(s)]
  BY CompressIsBuilt
<1>2. \A i \in 0..Len(s) : f[i] = Step(s, keep, f, i)
  BY <1>1, BuildsMeans
<1> DEFINE Right(c, k) ==
              /\ c \in Seq(S)
              /\ \A j \in DOMAIN c : \E i \in 1..k : keep[i] /\ c[j] = s[i]
              /\ \A i \in 1..k : keep[i] => \E j \in DOMAIN c : c[j] = s[i]
           T == {k \in Nat : k <= Len(s) => Right(f[k], k)}
<1>0. Len(s) \in Nat
  OBVIOUS
<1>3. 0 \in T
  <2>1. f[0] = <<>>
    BY <1>0, <1>2 DEF Step
  <2>2. Right(<<>>, 0)
    OBVIOUS
  <2> HIDE DEF Right
  <2>3. QED
    BY <2>1, <2>2
<1>4. ASSUME NEW k \in T PROVE k + 1 \in T
  <2> SUFFICES ASSUME k + 1 <= Len(s) PROVE Right(f[k + 1], k + 1)
    <3> HIDE DEF Right
    <3>1. QED
      OBVIOUS
  <2>1. Right(f[k], k) /\ k \in Nat /\ s[k + 1] \in S
    <3> HIDE DEF Right
    <3>1. k \in Nat /\ (k <= Len(s) => Right(f[k], k))
      OBVIOUS
    <3>2. k <= Len(s) /\ k + 1 \in 1..Len(s)
      BY <1>0, <3>1
    <3>3. QED
      BY <3>1, <3>2
  <2>2. k + 1 # 0 /\ (k + 1) - 1 = k
    <3> HIDE DEF T, Right
    <3>1. QED
      BY <2>1
  <2>3. f[k + 1] = IF keep[k + 1] THEN Append(f[k], s[k + 1]) ELSE f[k]
    BY <1>2, <2>2 DEF Step
  <2> HIDE DEF T
  <2>4. CASE keep[k + 1]
    <3> DEFINE old == f[k]
               new == Append(old, s[k + 1])
    <3>1. /\ new \in Seq(S) /\ Len(old) \in Nat
          /\ DOMAIN old = 1..Len(old) /\ DOMAIN new = 1..(Len(old) + 1)
          /\ \A j \in 1..Len(old) : new[j] = old[j]
          /\ new[Len(old) + 1] = s[k + 1]
      BY <2>1
    <3>2. f[k + 1] = new
      BY <2>3, <2>4
    <3> HIDE DEF old, new
    <3>0. Right(old, k)
      BY <2>1 DEF old
    <3>3. ASSUME NEW j \in DOMAIN new PROVE \E i \in 1..(k + 1) : keep[i] /\ new[j] = s[i]
      <4>1. CASE j = Len(old) + 1
        BY <2>1, <2>4, <3>1, <4>1
      <4>2. CASE j # Len(old) + 1
        <5>1. j \in DOMAIN old /\ new[j] = old[j]
          BY <3>1, <4>2
        <5>2. PICK i \in 1..k : keep[i] /\ old[j] = s[i]
          BY <3>0, <5>1
        <5>3. i \in 1..(k + 1)
          BY <2>1
        <5>4. QED
          BY <5>1, <5>2, <5>3
      <4>3. QED
        BY <4>1, <4>2
    <3>4. ASSUME NEW i \in 1..(k + 1), keep[i] PROVE \E j \in DOMAIN new : new[j] = s[i]
      <4>1. CASE i = k + 1
        BY <3>1, <4>1
      <4>2. CASE i # k + 1
        <5>1. i \in 1..k
          BY <2>1, <4>2
        <5>2. PICK j \in DOMAIN old : old[j] = s[i]
          BY <3>0, <3>4, <5>1
        <5>3. QED
          BY <3>1, <5>2
      <4>3. QED
        BY <4>1, <4>2
    <3>5. QED
      BY <3>1, <3>2, <3>3, <3>4
  <2>5. CASE ~keep[k + 1]
    <3>1. f[k + 1] = f[k]
      BY <2>3, <2>5
    <3>2. \A i \in 1..(k + 1) : keep[i] => i \in 1..k
      BY <2>1, <2>5
    <3>3. \A i \in 1..k : i \in 1..(k + 1)
      BY <2>1
    <3> DEFINE old == f[k]
    <3>4. Right(old, k)
      BY <2>1
    <3> HIDE DEF old
    <3>5. Right(old, k + 1)
      BY <3>2, <3>3, <3>4
    <3>6. QED
      BY <3>1, <3>5 DEF old
  <2>6. QED
    BY <2>4, <2>5
<1>5. T = Nat
  <2> HIDE DEF T
  <2>1. T \subseteq Nat
    BY DEF T
  <2>2. QED
    BY <1>3, <1>4, <2>1, Induction
<1>6. Right(f[Len(s)], Len(s))
  <2>1. Len(s) \in T /\ Len(s) <= Len(s)
    BY <1>0, <1>5
  <2> HIDE DEF Right
  <2>2. QED
    BY <2>1
<1>7. DOMAIN s = 1..Len(s)
  OBVIOUS
<1> DEFINE c == f[Len(s)]
<1>8. Right(c, Len(s)) /\ Compress(s, keep) = c
  BY <1>1, <1>6
<1> HIDE DEF c
<1>9. QED
  BY <1>7, <1>8

-----------------------------------------------------------------------------
Joined(ss, f, i) == IF i = 1 THEN ss[i] ELSE f[i - 1] \o ss[i]

Chains(f, ss, n) ==
    /\ f = [i \in 1..n |-> Joined(ss, f, i)]

LEMMA ChainsMeans ==
    ASSUME NEW ss, NEW n \in Nat, NEW f
    PROVE  /\ Chains(f, ss, n) => \A i \in 1..n : f[i] = Joined(ss, f, i)
           /\ f = [i \in 1..n |-> f[i]] /\ (\A i \in 1..n : f[i] = Joined(ss, f, i))
                => Chains(f, ss, n)
<1>1. ASSUME Chains(f, ss, n), NEW i \in 1..n PROVE f[i] = Joined(ss, f, i)
  <2> DEFINE F == [j \in 1..n |-> Joined(ss, f, j)]
  <2>1. F[i] = Joined(ss, f, i)
    OBVIOUS
  <2>2. f = F
    BY <1>1 DEF Chains
  <2> HIDE DEF F
  <2>3. QED
    BY <2>1, <2>2
<1>2. ASSUME f = [i \in 1..n |-> f[i]], \A i \in 1..n : f[i] = Joined(ss, f, i)
      PROVE  Chains(f, ss, n)
  <2>1. [i \in 1..n |-> f[i]] = [i \in 1..n |-> Joined(ss, f, i)]
    BY <1>2
  <2>2. QED
    BY <1>2, <2>1 DEF Chains
<1>3. QED
  BY <1>1, <1>2

LEMMA ChainExists ==
    ASSUME NEW ss, NEW n \in Nat
    PROVE  \E f : Chains(f, ss, n)
<1> DEFINE T == {m \in Nat : \E f : Chains(f, ss, m)}
<1>1. 0 \in T
  <2> DEFINE e == [i \in 1..0 |-> <<>>]
  <2>1. Chains(e, ss, 0)
    <3>1. e = [i \in 1..0 |-> e[i]] /\ \A i \in 1..0 : e[i] = Joined(ss, e, i)
      OBVIOUS
    <3> HIDE DEF e
    <3>2. QED
      BY <3>1, ChainsMeans
  <2>2. QED
    BY <2>1
<1>2. ASSUME NEW m \in T PROVE m + 1 \in T
  <2>1. PICK f : Chains(f, ss, m)
    OBVIOUS
  <2> DEFINE g == [i \in 1..(m + 1) |-> IF i = m + 1 THEN Joined(ss, f, i) ELSE f[i]]
  <2>2. \A i \in 1..m : f[i] = Joined(ss, f, i)
    BY <2>1, ChainsMeans
  <2>3. \A i \in 1..(m + 1) : Joined(ss, g, i) = Joined(ss, f, i)
    BY DEF Joined
  <2>4. \A i \in 1..(m + 1) : g[i] = Joined(ss, g, i)
    BY <2>2, <2>3
  <2>5. g = [i \in 1..(m + 1) |-> g[i]]
    OBVIOUS
  <2>6. Chains(g, ss, m + 1)
    <3>1. m + 1 \in Nat
      OBVIOUS
    <3> HIDE DEF g
    <3>2. QED
      BY <2>4, <2>5, <3>1, ChainsMeans
  <2>7. QED
    BY <2>6
<1>3. T = Nat
  <2> HIDE DEF T
  <2>1. T \subseteq Nat
    BY DEF T
  <2> QED BY <1>1, <1>2, <2>1, Induction
<1>4. QED
  BY <1>3

LEMMA FlattenIsChained ==
    ASSUME NEW ss, Len(ss) \in Nat \ {0}
    PROVE  \E f : Chains(f, ss, Len(ss)) /\ FlattenSeq(ss) = f[Len(ss)]
<1> DEFINE C(f) == Chains(f, ss, Len(ss))
<1>1. \E f : C(f)
  BY ChainExists
<1>2. C(CHOOSE f : C(f))
  <2> HIDE DEF C
  <2> QED BY <1>1
<1>3. FlattenSeq(ss) = (CHOOSE f : C(f))[Len(ss)]
  BY DEF FlattenSeq, Chains, Joined
<1>4. QED
  BY <1>2, <1>3

LEMMA FlattenAppend ==
    ASSUME NEW S, NEW ss \in Seq(Seq(S)), NEW t \in Seq(S)
    PROVE  /\ FlattenSeq(ss) \in Seq(S)
           /\ FlattenSeq(Append(ss, t)) = FlattenSeq(ss) \o t
<1> DEFINE n == Len(ss)
           tt == Append(ss, t)
<1>1. /\ n \in Nat /\ Len(tt) = n + 1
      /\ \A i \in 1..n : ss[i] \in Seq(S) /\ tt[i] = ss[i]
      /\ tt[n + 1] = t
      /\ n + 1 \in Nat \ {0} /\ n + 1 \in 1..(n + 1) /\ (n + 1) - 1 = n
  OBVIOUS
<1>0. Len(ss) = n
  OBVIOUS
<1> HIDE DEF n, tt
<1>2. PICK g : Chains(g, tt, n + 1) /\ FlattenSeq(tt) = g[n + 1]
  BY <1>1, FlattenIsChained
<1>3. \A i \in 1..(n + 1) : g[i] = Joined(tt, g, i)
  BY <1>1, <1>2, ChainsMeans
<1>4. CASE n = 0
  <2>1. ss = <<>>
    BY <1>0, <1>4
  <2>2. FlattenSeq(ss) = <<>>
    BY <2>1 DEF FlattenSeq
  <2>3. FlattenSeq(tt) = t
    BY <1>1, <1>2, <1>3, <1>4 DEF Joined
  <2>4. QED
    BY <2>2, <2>3 DEF tt
<1>5. CASE n # 0
  <2>1. PICK f : Chains(f, ss, n) /\ FlattenSeq(ss) = f[n]
    BY <1>0, <1>1, <1>5, FlattenIsChained
  <2>2. \A i \in 1..n : f[i] = Joined(ss, f, i)
    BY <1>1, <2>1, ChainsMeans
  <2> DEFINE T == {k \in Nat : k + 1 <= n => f[k + 1] = g[k + 1] /\ f[k + 1] \in Seq(S)}
  <2>3. 0 \in T
    <3>1. 1 \in 1..n /\ 1 \in 1..(n + 1) /\ 0 + 1 = 1
      BY <1>1, <1>5
    <3>2. f[1] = ss[1] /\ g[1] = tt[1]
      BY <1>3, <2>2, <3>1 DEF Joined
    <3>3. QED
      BY <1>1, <3>1, <3>2
  <2>4. ASSUME NEW k \in T PROVE k + 1 \in T
    <3> SUFFICES ASSUME (k + 1) + 1 <= n
                 PROVE  f[(k + 1) + 1] = g[(k + 1) + 1] /\ f[(k + 1) + 1] \in Seq(S)
      OBVIOUS
    <3> DEFINE i == (k + 1) + 1
    <3>1. i \in 1..n /\ i # 1 /\ i - 1 = k + 1 /\ i \in 1..(n + 1)
      BY <1>1
    <3>2. f[k + 1] = g[k + 1] /\ f[k + 1] \in Seq(S)
      BY <1>1
    <3> HIDE DEF i, T
    <3>3. f[i] = f[k + 1] \o ss[i] /\ g[i] = g[k + 1] \o tt[i]
      BY <1>3, <2>2, <3>1 DEF Joined
    <3>4. ss[i] \in Seq(S) /\ tt[i] = ss[i]
      BY <1>1, <3>1
    <3>5. f[k + 1] \o ss[i] \in Seq(S)
      BY <3>2, <3>4, ConcatProperties
    <3>6. QED
      BY <3>2, <3>3, <3>4, <3>5 DEF i
  <2>5. T = Nat
    <3> HIDE DEF T
    <3>1. T \subseteq Nat
      BY DEF T
    <3>2. QED
      BY <2>3, <2>4, <3>1, Induction
  <2>6. n - 1 \in Nat /\ (n - 1) + 1 = n
    BY <1>1, <1>5
  <2>7. f[n] = g[n] /\ f[n] \in Seq(S)
    <3>1. (n - 1) + 1 <= n
      BY <1>1, <2>6
    <3>2. n - 1 \in T
      <4> HIDE DEF T
      <4>1. QED
        BY <2>5, <2>6
    <3>3. QED
      BY <2>6, <3>1, <3>2
  <2>8. g[n + 1] = g[n] \o t
    <3>1. n + 1 # 1
      BY <1>1, <1>5
    <3>2. g[n + 1] = Joined(tt, g, n + 1)
      BY <1>1, <1>3
    <3>3. QED
      BY <1>1, <3>1, <3>2 DEF Joined
  <2>9. QED
    BY <1>2, <2>1, <2>7, <2>8 DEF tt
<1>6. QED
  BY <1>4, <1>5
-----------------------------------------------------------------------------
(***************************************************************************)
(* What _outcome_from_output reads when a line has been added, and what    *)
(* _calls_from_transcript reads when a message has.                        *)
(***************************************************************************)
LEMMA LinesHave ==
    /\ \A l \in Lines : l.type \in {"noise", "turn_start", "message_end", "agent_end"}
    /\ \A l \in Lines : l.type = "message_end" =>
          l.message \in Said(Roles) /\ l = MessageEnd(l.message)
  BY DEF Lines, PiEvents, Noise, TurnStart, MessageEnd, AgentEnd

LEMMA EventsAppend ==
    ASSUME NEW lines \in Seq(Lines), NEW l \in Lines
    PROVE  /\ Events(lines) \in Seq(Lines)
           /\ Events(<<>>) = <<>>
           /\ Events(Append(lines, l)) = IF l.type # "noise" THEN Append(Events(lines), l)
                                         ELSE Events(lines)
<1> DEFINE Test(line) == line.type # "noise"
           more == Append(lines, l)
           keep == [i \in DOMAIN lines |-> Test(lines[i])]
           kept == [i \in DOMAIN more |-> Test(more[i])]
           none == [i \in DOMAIN <<>> |-> Test(<<>>[i])]
<1>1. /\ Events(lines) = Compress(lines, keep)
      /\ Events(more) = Compress(more, kept)
      /\ Events(<<>>) = Compress(<<>>, none)
  BY DEF Events, Where
<1>2. /\ \A i \in 1..Len(lines) : keep[i] = kept[i]
      /\ kept[Len(lines) + 1] <=> Test(l)
  <2>1. /\ \A i \in 1..Len(lines) : more[i] = lines[i]
        /\ more[Len(lines) + 1] = l
        /\ DOMAIN more = 1..(Len(lines) + 1) /\ DOMAIN lines = 1..Len(lines)
        /\ Len(lines) \in Nat
    OBVIOUS
  <2> HIDE DEF more, Test
  <2>2. QED
    BY <2>1
<1> HIDE DEF keep, kept, none
<1>3. Compress(more, kept) = IF kept[Len(lines) + 1] THEN Append(Compress(lines, keep), l)
                             ELSE Compress(lines, keep)
  BY <1>2, CompressAppend
<1>4. Compress(lines, keep) \in Seq(Lines) /\ Compress(<<>>, none) = <<>>
  BY CompressKeeps, CompressEmpty
<1>5. QED
  BY <1>1, <1>2, <1>3, <1>4

LEMMA OfTypeAppend ==
    ASSUME NEW lines \in Seq(Lines), NEW l \in Lines, NEW type, type # "noise"
    PROVE  /\ OfType(lines, type) \in Seq(Lines)
           /\ \A i \in DOMAIN OfType(lines, type) : OfType(lines, type)[i].type = type
           /\ OfType(<<>>, type) = <<>>
           /\ OfType(Append(lines, l), type) =
                 IF l.type = type THEN Append(OfType(lines, type), l) ELSE OfType(lines, type)
<1> DEFINE Test(e) == e.type = type
           old == Events(lines)
           new == Append(old, l)
           keep == [i \in DOMAIN old |-> Test(old[i])]
           kept == [i \in DOMAIN new |-> Test(new[i])]
           none == [i \in DOMAIN <<>> |-> Test(<<>>[i])]
<1>1. /\ old \in Seq(Lines) /\ Events(<<>>) = <<>>
      /\ Events(Append(lines, l)) = IF l.type # "noise" THEN new ELSE old
  BY EventsAppend
<1>2. /\ OfType(lines, type) = Compress(old, keep)
      /\ l.type # "noise" => OfType(Append(lines, l), type) = Compress(new, kept)
      /\ l.type = "noise" => OfType(Append(lines, l), type) = Compress(old, keep)
      /\ OfType(<<>>, type) = Compress(<<>>, none)
  BY <1>1 DEF OfType, Where
<1>3. /\ \A i \in 1..Len(old) : keep[i] = kept[i]
      /\ kept[Len(old) + 1] <=> Test(l)
      /\ \A i \in DOMAIN old : keep[i] <=> Test(old[i])
  <2>1. /\ \A i \in 1..Len(old) : new[i] = old[i]
        /\ new[Len(old) + 1] = l
        /\ DOMAIN new = 1..(Len(old) + 1) /\ DOMAIN old = 1..Len(old)
        /\ Len(old) \in Nat
    BY <1>1
  <2> HIDE DEF old, new, Test
  <2>2. QED
    BY <2>1
<1> HIDE DEF old, new, keep, kept, none
<1>4. Compress(new, kept) = IF kept[Len(old) + 1] THEN Append(Compress(old, keep), l)
                            ELSE Compress(old, keep)
  BY <1>1, <1>3, CompressAppend DEF new
<1>5. /\ Compress(old, keep) \in Seq(Lines)
      /\ \A j \in DOMAIN Compress(old, keep) :
            \E i \in DOMAIN old : keep[i] /\ Compress(old, keep)[j] = old[i]
  BY <1>1, CompressKeeps
<1>6. Compress(<<>>, none) = <<>>
  BY CompressEmpty
<1>7. \A i \in DOMAIN OfType(lines, type) : OfType(lines, type)[i].type = type
  BY <1>2, <1>3, <1>5
<1>8. OfType(Append(lines, l), type) =
         IF l.type = type THEN Append(OfType(lines, type), l) ELSE OfType(lines, type)
  <2>1. CASE l.type = "noise"
    BY <1>2, <2>1
  <2>2. CASE l.type # "noise"
    BY <1>2, <1>3, <1>4, <2>2
  <2>3. QED
    BY <2>1, <2>2
<1>9. QED
  BY <1>2, <1>5, <1>6, <1>7, <1>8

LEMMA MessagesInAppend ==
    ASSUME NEW lines \in Seq(Lines), NEW l \in Lines
    PROVE  /\ MessagesIn(lines) \in Seq(Said(Roles))
           /\ MessagesIn(<<>>) = <<>>
           /\ MessagesIn(Append(lines, l)) =
                 IF l.type = "message_end" THEN Append(MessagesIn(lines), l.message)
                 ELSE MessagesIn(lines)
<1> DEFINE ends == OfType(lines, "message_end")
<1>1. /\ ends \in Seq(Lines)
      /\ \A i \in DOMAIN ends : ends[i] \in Lines /\ ends[i].type = "message_end"
      /\ OfType(<<>>, "message_end") = <<>>
      /\ OfType(Append(lines, l), "message_end") =
            IF l.type = "message_end" THEN Append(ends, l) ELSE ends
  <2>1. \A i \in DOMAIN ends : ends[i].type = "message_end"
    BY OfTypeAppend
  <2>2. ends \in Seq(Lines)
    BY OfTypeAppend
  <2> HIDE DEF ends
  <2>3. \A i \in DOMAIN ends : ends[i] \in Lines
    BY <2>2
  <2>4. QED
    BY <2>1, <2>2, <2>3, OfTypeAppend DEF ends
<1>2. /\ MessagesIn(lines) = [i \in DOMAIN ends |-> ends[i].message]
      /\ MessagesIn(<<>>) = [i \in DOMAIN <<>> |-> <<>>[i].message]
      /\ l.type # "message_end" => MessagesIn(Append(lines, l)) = MessagesIn(lines)
      /\ l.type = "message_end" =>
            MessagesIn(Append(lines, l)) =
               [i \in DOMAIN Append(ends, l) |-> Append(ends, l)[i].message]
  BY <1>1 DEF MessagesIn
<1> HIDE DEF ends
<1>3. \A i \in DOMAIN ends : ends[i].message \in Said(Roles)
  BY <1>1, LinesHave
<1>4. MessagesIn(lines) \in Seq(Said(Roles)) /\ Len(MessagesIn(lines)) = Len(ends)
  BY <1>1, <1>2, <1>3
<1>5. [i \in DOMAIN Append(ends, l) |-> Append(ends, l)[i].message]
         = Append([i \in DOMAIN ends |-> ends[i].message], l.message)
  BY <1>1
<1>6. MessagesIn(<<>>) = <<>>
  BY <1>2
<1>7. QED
  BY <1>2, <1>4, <1>5, <1>6

LEMMA StreamedAppend ==
    ASSUME NEW lines \in Seq(Lines), NEW l \in Lines
    PROVE  /\ Streamed(<<>>) = <<>>
           /\ Streamed(Append(lines, l)) =
                 IF l.type = "message_end" /\ InConversation(l.message)
                 THEN Append(Streamed(lines), l.message) ELSE Streamed(lines)
<1> DEFINE old == MessagesIn(lines)
           new == Append(old, l.message)
           keep == [i \in DOMAIN old |-> InConversation(old[i])]
           kept == [i \in DOMAIN new |-> InConversation(new[i])]
           none == [i \in DOMAIN <<>> |-> InConversation(<<>>[i])]
<1>1. /\ old \in Seq(Said(Roles)) /\ MessagesIn(<<>>) = <<>>
      /\ MessagesIn(Append(lines, l)) = IF l.type = "message_end" THEN new ELSE old
  BY MessagesInAppend
<1>2. /\ Streamed(lines) = Compress(old, keep)
      /\ l.type = "message_end" => Streamed(Append(lines, l)) = Compress(new, kept)
      /\ l.type # "message_end" => Streamed(Append(lines, l)) = Compress(old, keep)
      /\ Streamed(<<>>) = Compress(<<>>, none)
  BY <1>1 DEF Streamed, Where
<1>3. /\ \A i \in 1..Len(old) : keep[i] = kept[i]
      /\ kept[Len(old) + 1] <=> InConversation(l.message)
  BY <1>1
<1>4. l.type = "message_end" => l.message \in Said(Roles)
  BY LinesHave
<1> HIDE DEF old, new, keep, kept, none
<1>5. l.type = "message_end" =>
         Compress(new, kept) = IF kept[Len(old) + 1] THEN Append(Compress(old, keep), l.message)
                               ELSE Compress(old, keep)
  <2> SUFFICES ASSUME l.type = "message_end"
               PROVE  Compress(new, kept) =
                         IF kept[Len(old) + 1] THEN Append(Compress(old, keep), l.message)
                         ELSE Compress(old, keep)
    OBVIOUS
  <2>1. l.message \in Said(Roles) /\ old \in Seq(Said(Roles))
    BY <1>1, <1>4
  <2>2. QED
    BY <1>3, <2>1, CompressAppend DEF new
<1>6. Compress(<<>>, none) = <<>>
  BY CompressEmpty
<1>7. QED
  BY <1>2, <1>3, <1>5, <1>6

LEMMA RepliesAppend ==
    ASSUME NEW ms \in Seq(Said(Roles)), NEW m \in Said(Roles)
    PROVE  /\ Replies(ms) \in Seq(Said(Roles))
           /\ Replies(<<>>) = <<>>
           /\ Replies(Append(ms, m)) =
                 IF m.role = "assistant" THEN Append(Replies(ms), m) ELSE Replies(ms)
<1> DEFINE more == Append(ms, m)
           keep == [i \in DOMAIN ms |-> FromAssistant(ms[i])]
           kept == [i \in DOMAIN more |-> FromAssistant(more[i])]
           none == [i \in DOMAIN <<>> |-> FromAssistant(<<>>[i])]
<1>1. /\ Replies(ms) = Compress(ms, keep)
      /\ Replies(more) = Compress(more, kept)
      /\ Replies(<<>>) = Compress(<<>>, none)
  BY DEF Replies, Where
<1>2. /\ \A i \in 1..Len(ms) : keep[i] = kept[i]
      /\ kept[Len(ms) + 1] <=> FromAssistant(m)
  <2>1. /\ \A i \in 1..Len(ms) : more[i] = ms[i]
        /\ more[Len(ms) + 1] = m
        /\ DOMAIN more = 1..(Len(ms) + 1) /\ DOMAIN ms = 1..Len(ms)
        /\ Len(ms) \in Nat
    OBVIOUS
  <2> HIDE DEF more
  <2>2. QED
    BY <2>1
<1> HIDE DEF more, keep, kept, none
<1>3. Compress(more, kept) = IF kept[Len(ms) + 1] THEN Append(Compress(ms, keep), m)
                             ELSE Compress(ms, keep)
  BY <1>2, CompressAppend DEF more
<1>4. Compress(ms, keep) \in Seq(Said(Roles)) /\ Compress(<<>>, none) = <<>>
  BY CompressKeeps, CompressEmpty
<1>5. QED
  BY <1>1, <1>2, <1>3, <1>4 DEF more, FromAssistant

\* The turns metered are the assistant messages of the stream.
LEMMA MeteredAppend ==
    ASSUME NEW lines \in Seq(Lines), NEW l \in Lines
    PROVE  /\ TurnsMetered(lines) \in Nat
           /\ TurnsMetered(<<>>) = 0
           /\ TurnsMetered(Append(lines, l)) =
                 IF l.type = "message_end" /\ l.message.role = "assistant"
                 THEN TurnsMetered(lines) + 1 ELSE TurnsMetered(lines)
<1> DEFINE old == MessagesIn(lines)
           more == MessagesIn(Append(lines, l))
<1>1. /\ old \in Seq(Said(Roles)) /\ MessagesIn(<<>>) = <<>>
      /\ more = IF l.type = "message_end" THEN Append(old, l.message) ELSE old
  BY MessagesInAppend
<1>2. /\ TurnsMetered(lines) = Len(Replies(old))
      /\ TurnsMetered(Append(lines, l)) = Len(Replies(more))
      /\ TurnsMetered(<<>>) = Len(Replies(<<>>))
  BY <1>1 DEF TurnsMetered, Replies
<1> HIDE DEF old, more
<1>3. Replies(old) \in Seq(Said(Roles)) /\ Replies(<<>>) = <<>>
  <2>1. PICK m : m \in Said(Roles)
    BY PlainMessages DEF Roles
  <2>2. QED
    BY <1>1, <2>1, RepliesAppend
<1>4. Len(Replies(old)) \in Nat /\ Len(<<>>) = 0
  BY <1>3
<1>5. Len(Replies(more)) = IF l.type = "message_end" /\ l.message.role = "assistant"
                           THEN Len(Replies(old)) + 1 ELSE Len(Replies(old))
  <2>1. CASE l.type = "message_end"
    <3>1. l.message \in Said(Roles)
      BY <2>1, LinesHave
    <3>2. Replies(more) = IF l.message.role = "assistant" THEN Append(Replies(old), l.message)
                          ELSE Replies(old)
      BY <1>1, <2>1, <3>1, RepliesAppend
    <3>3. Len(Append(Replies(old), l.message)) = Len(Replies(old)) + 1
      BY <1>3, <3>1
    <3>4. QED
      BY <2>1, <3>2, <3>3
  <2>2. CASE l.type # "message_end"
    BY <1>1, <2>2
  <2>3. QED
    BY <2>1, <2>2
<1>6. QED
  BY <1>2, <1>3, <1>4, <1>5

LEMMA CallsAppend ==
    ASSUME NEW ms \in Seq(Said(Roles)), NEW m \in Said(Roles)
    PROVE  /\ CallsMade(ms) \in Seq(Nat)
           /\ CallsMade(<<>>) = <<>>
           /\ CallsMade(Append(ms, m)) =
                 IF m.role = "assistant" THEN CallsMade(ms) \o m.calls ELSE CallsMade(ms)
<1> DEFINE replies == Replies(ms)
           calls == [i \in DOMAIN replies |-> replies[i].calls]
<1>1. /\ replies \in Seq(Said(Roles)) /\ Replies(<<>>) = <<>>
      /\ Replies(Append(ms, m)) =
            IF m.role = "assistant" THEN Append(replies, m) ELSE replies
  BY RepliesAppend
<1>2. \A n \in Said(Roles) : n.calls \in Seq(Nat)
  BY DEF Said, Bodies, Message
<1>3. /\ CallsMade(ms) = FlattenSeq(calls)
      /\ CallsMade(<<>>) = FlattenSeq([i \in DOMAIN <<>> |-> <<>>[i].calls])
      /\ m.role # "assistant" => CallsMade(Append(ms, m)) = FlattenSeq(calls)
      /\ m.role = "assistant" =>
            CallsMade(Append(ms, m)) =
               FlattenSeq([i \in DOMAIN Append(replies, m) |-> Append(replies, m)[i].calls])
  BY <1>1 DEF CallsMade
<1> HIDE DEF replies
<1>4. calls \in Seq(Seq(Nat))
  <2>1. \A i \in 1..Len(replies) : replies[i] \in Said(Roles)
    BY <1>1
  <2>2. \A i \in 1..Len(replies) : replies[i].calls \in Seq(Nat)
    BY <1>2, <2>1
  <2>3. calls = [i \in 1..Len(replies) |-> replies[i].calls] /\ Len(replies) \in Nat
    BY <1>1
  <2>4. QED
    BY <2>2, <2>3
<1>5. [i \in DOMAIN Append(replies, m) |-> Append(replies, m)[i].calls] = Append(calls, m.calls)
  BY <1>1
<1>6. [i \in DOMAIN <<>> |-> <<>>[i].calls] = <<>>
  OBVIOUS
<1>7. FlattenSeq(<<>>) = <<>>
  BY DEF FlattenSeq
<1> HIDE DEF calls
<1>8. FlattenSeq(calls) \in Seq(Nat) /\ FlattenSeq(Append(calls, m.calls)) = FlattenSeq(calls) \o m.calls
  BY <1>2, <1>4, FlattenAppend
<1>9. QED
  BY <1>3, <1>5, <1>6, <1>7, <1>8

-----------------------------------------------------------------------------
(***************************************************************************)
(* The log is the conversation.  The property is about a run that is over; *)
(* the invariant says it of the log at every line.  What is read from the  *)
(* log is the conversation as long as pi lives, and short of at most the   *)
(* message in flight when it is dead; the calls are numbered as they are   *)
(* made, and the open ones are the last of them, so no two results answer  *)
(* the same call.                                                          *)
(***************************************************************************)
NoneCut == \A i \in DOMAIN messages : ~messages[i].cut

Ended == IF pi = "settled" THEN <<AgentEnd(messages)>> ELSE <<>>

\* What is read from the lines printed.
AsPrinted ==
    /\ \/ Streamed(output) = messages
       \/ pi = "dead" /\ messages # <<>> /\ Streamed(output) = Front(messages)
    /\ TurnsMetered(output) = Len(Replies(Streamed(output)))
    /\ OfType(output, "agent_end") = Ended

IsResult(m) == m.role = "toolResult"

\* The calls and their results, in the conversation.
InOrder ==
    /\ pi = "asking" => open = <<>>
    /\ pi \in {"between", "asking", "settled"} => messages # <<>>
    /\ pi = "settled" => Last(messages).role = "assistant"
    /\ CallsMade(messages) = Upto(lastId)
    /\ Len(open) <= lastId
    /\ \A i \in 1..Len(open) : open[i] = lastId - Len(open) + i
    /\ \A i \in DOMAIN messages :
          IsResult(messages[i]) => messages[i].answers \in 1..(lastId - Len(open))
    /\ \A i, j \in DOMAIN messages :
          IsResult(messages[i]) /\ IsResult(messages[j])
              /\ messages[i].answers = messages[j].answers => i = j

LogInv == Steps(output) = turns /\ InOrder /\ (NoneCut => AsPrinted)

LEMMA ConversationIsSaid ==
    /\ Conversation \subseteq Said(Roles)
    /\ \A m \in Conversation : InConversation(m) /\ m.role # "custom"
  BY DEF Conversation, Said, InConversation, Roles, Message

LEMMA InitLogInv == PiInit => LogInv
<1> SUFFICES ASSUME PiInit PROVE LogInv
  OBVIOUS
<1>1. Noise \in Lines /\ <<>> \in Seq(Lines) /\ <<>> \in Seq(Said(Roles))
  BY DEF Lines
<1>2. PICK m : m \in Said(Roles)
  BY PlainMessages DEF Roles
<1>3. Streamed(<<>>) = <<>> /\ TurnsMetered(<<>>) = 0
  BY <1>1, StreamedAppend, MeteredAppend
<1>4. OfType(<<>>, "agent_end") = <<>> /\ OfType(<<>>, "turn_start") = <<>>
  BY <1>1, OfTypeAppend
<1>5. Replies(<<>>) = <<>> /\ CallsMade(<<>>) = <<>>
  BY <1>1, <1>2, RepliesAppend, CallsAppend
<1>6. Upto(0) = <<>> /\ Len(<<>>) = 0
  BY DEF Upto
<1>7. InOrder
  BY <1>5, <1>6 DEF PiInit, InOrder, NoCallId
<1>8. Steps(output) = turns
  BY <1>4, <1>6 DEF PiInit, Steps
<1>9. AsPrinted
  BY <1>3, <1>4, <1>5, <1>6 DEF PiInit, AsPrinted, Ended
<1>10. QED
  BY <1>7, <1>8, <1>9 DEF LogInv

\* A line that is no message and no end leaves what is read of them as it was.
LEMMA OtherLine ==
    ASSUME NEW lines \in Seq(Lines), NEW l \in Lines, l.type \in {"noise", "turn_start"}
    PROVE  /\ Streamed(Append(lines, l)) = Streamed(lines)
           /\ TurnsMetered(Append(lines, l)) = TurnsMetered(lines)
           /\ OfType(Append(lines, l), "agent_end") = OfType(lines, "agent_end")
           /\ Steps(Append(lines, l)) =
                 IF l.type = "turn_start" THEN Steps(lines) + 1 ELSE Steps(lines)
<1>1. Streamed(Append(lines, l)) = Streamed(lines)
  BY StreamedAppend
<1>2. TurnsMetered(Append(lines, l)) = TurnsMetered(lines)
  BY MeteredAppend
<1>3. OfType(Append(lines, l), "agent_end") = OfType(lines, "agent_end")
  BY OfTypeAppend
<1>4. /\ OfType(lines, "turn_start") \in Seq(Lines)
      /\ OfType(Append(lines, l), "turn_start") =
            IF l.type = "turn_start" THEN Append(OfType(lines, "turn_start"), l)
            ELSE OfType(lines, "turn_start")
  BY OfTypeAppend
<1>5. QED
  BY <1>1, <1>2, <1>3, <1>4 DEF Steps

\* The line of a message.
LEMMA MessageLine ==
    ASSUME NEW lines \in Seq(Lines), NEW m \in Said(Roles), ~m.cut
    PROVE  /\ LineOf(MessageEnd(m)) = MessageEnd(m)
           /\ Streamed(Append(lines, MessageEnd(m))) =
                 IF InConversation(m) THEN Append(Streamed(lines), m) ELSE Streamed(lines)
           /\ TurnsMetered(Append(lines, MessageEnd(m))) =
                 IF m.role = "assistant" THEN TurnsMetered(lines) + 1 ELSE TurnsMetered(lines)
           /\ OfType(Append(lines, MessageEnd(m)), "agent_end") = OfType(lines, "agent_end")
<1> DEFINE l == MessageEnd(m)
<1>1. l \in Lines /\ l.type = "message_end" /\ l.message = m
  BY DEF MessageEnd, Lines, PiEvents
<1>2. LineOf(l) = l
  BY <1>1 DEF LineOf
<1> HIDE DEF l
<1>3. Streamed(Append(lines, l)) =
         IF InConversation(m) THEN Append(Streamed(lines), m) ELSE Streamed(lines)
  BY <1>1, StreamedAppend
<1>4. TurnsMetered(Append(lines, l)) =
         IF m.role = "assistant" THEN TurnsMetered(lines) + 1 ELSE TurnsMetered(lines)
  BY <1>1, MeteredAppend
<1>5. OfType(Append(lines, l), "agent_end") = OfType(lines, "agent_end")
  BY <1>1, OfTypeAppend
<1>6. QED
  BY <1>2, <1>3, <1>4, <1>5 DEF l

\* However its line is printed, a message begins no turn.
LEMMA MessageIsNoTurn ==
    ASSUME NEW lines \in Seq(Lines), NEW m \in Said(Roles)
    PROVE  Steps(Append(lines, LineOf(MessageEnd(m)))) = Steps(lines)
<1> DEFINE l == LineOf(MessageEnd(m))
<1>1. MessageEnd(m) \in PiEvents /\ l.type # "turn_start"
  BY DEF PiEvents, LineOf, MessageEnd, Noise
<1>2. l \in Lines
  BY <1>1, LineOfEvent
<1> HIDE DEF l
<1>3. OfType(Append(lines, l), "turn_start") = OfType(lines, "turn_start")
  BY <1>1, <1>2, OfTypeAppend
<1>4. QED
  BY <1>3 DEF Steps, l

LEMMA SettleReads ==
    ASSUME PiInv, LogInv, NEW m \in Conversation, Settle(m), pi \notin {"settled", "dead"}
    PROVE  Steps(output') = Steps(output) /\ (NoneCut' => AsPrinted')
<1>1. /\ m \in Said(Roles) /\ InConversation(m) /\ output \in Seq(Lines)
      /\ messages \in Seq(Conversation) /\ messages' = Append(messages, m)
      /\ Noise \in Lines /\ Noise.type = "noise"
  BY ConversationIsSaid DEF PiInv, Settle, Lines, Noise
<1>2. Steps(output') = Steps(output)
  BY <1>1, OtherLine, MessageIsNoTurn DEF Settle, Emit
<1>3. ASSUME NoneCut' PROVE AsPrinted'
  <2>1. ~m.cut /\ NoneCut
    <3>1. /\ Len(messages) + 1 \in DOMAIN messages' /\ messages'[Len(messages) + 1] = m
          /\ \A i \in DOMAIN messages : i \in DOMAIN messages' /\ messages'[i] = messages[i]
      BY <1>1
    <3>2. QED
      BY <1>3, <3>1 DEF NoneCut
  <2>2. /\ Streamed(output) = messages
        /\ TurnsMetered(output) = Len(Replies(messages))
        /\ OfType(output, "agent_end") = <<>>
    BY <2>1 DEF LogInv, AsPrinted, Ended
  <2>3. pi' # "settled"
    BY DEF Settle
  <2>4. CASE Emit(MessageEnd(m)) /\ pi' = "between"
    <3>1. output' = Append(output, MessageEnd(m))
      BY <1>1, <2>1, <2>4, MessageLine DEF Emit
    <3>2. /\ Streamed(output') = messages'
          /\ OfType(output', "agent_end") = <<>>
          /\ TurnsMetered(output') = IF m.role = "assistant" THEN TurnsMetered(output) + 1
                                     ELSE TurnsMetered(output)
      BY <1>1, <2>1, <2>2, <3>1, MessageLine
    <3>3. messages \in Seq(Said(Roles))
      BY <1>1, ConversationIsSaid, SeqMonotonic
    <3>4. /\ Replies(messages) \in Seq(Said(Roles))
          /\ Replies(messages') = IF m.role = "assistant" THEN Append(Replies(messages), m)
                                  ELSE Replies(messages)
      BY <1>1, <3>3, RepliesAppend
    <3>5. Len(Replies(messages')) = IF m.role = "assistant" THEN Len(Replies(messages)) + 1
                                    ELSE Len(Replies(messages))
      BY <1>1, <3>4
    <3>6. TurnsMetered(output') = Len(Replies(messages'))
      BY <2>2, <3>2, <3>5
    <3>7. QED
      BY <2>3, <3>2, <3>6 DEF AsPrinted, Ended
  <2>5. CASE output' = Append(output, Noise) /\ pi' = "dead"
    <3>1. /\ Streamed(output') = messages
          /\ TurnsMetered(output') = TurnsMetered(output)
          /\ OfType(output', "agent_end") = <<>>
      BY <1>1, <2>2, <2>5, OtherLine
    <3>2. Front(messages') = messages /\ messages' # <<>>
      BY <1>1 DEF Front
    <3>3. QED
      BY <2>2, <2>3, <2>5, <3>1, <3>2 DEF AsPrinted, Ended
  <2>6. QED
    BY <2>4, <2>5 DEF Settle
<1>4. QED
  BY <1>2, <1>3

\* A message that answers a call not answered before, or none, keeps the answers apart.
LEMMA AnswersApart ==
    ASSUME PiInv, InOrder, NEW m \in Conversation, messages' = Append(messages, m),
           NEW b \in Int, lastId - Len(open) <= b,
           IsResult(m) => m.answers \in (lastId - Len(open) + 1)..b
    PROVE  /\ \A i \in DOMAIN messages' :
                 IsResult(messages'[i]) => messages'[i].answers \in 1..b
           /\ \A i, j \in DOMAIN messages' :
                 IsResult(messages'[i]) /\ IsResult(messages'[j])
                     /\ messages'[i].answers = messages'[j].answers => i = j
<1> DEFINE n == Len(messages)
           a == lastId - Len(open)
<1>1. /\ n \in Nat /\ DOMAIN messages = 1..n /\ DOMAIN messages' = 1..(n + 1)
      /\ messages'[n + 1] = m /\ \A i \in 1..n : messages'[i] = messages[i]
  BY DEF PiInv
<1>2. a \in Int /\ a <= b /\ 0 <= a
  BY DEF PiInv, InOrder
<1>3. /\ \A i \in 1..n : IsResult(messages[i]) => messages[i].answers \in 1..a
      /\ \A i, j \in 1..n : IsResult(messages[i]) /\ IsResult(messages[j])
                              /\ messages[i].answers = messages[j].answers => i = j
  BY <1>1 DEF InOrder
<1>4. IsResult(m) => m.answers \in (a + 1)..b
  OBVIOUS
<1> HIDE DEF n, a
<1>5. ASSUME NEW i \in 1..(n + 1), IsResult(messages'[i])
      PROVE  /\ messages'[i].answers \in 1..b
             /\ IF i = n + 1 THEN messages'[i].answers \in (a + 1)..b
                ELSE i \in 1..n /\ messages'[i] = messages[i] /\ messages'[i].answers \in 1..a
  <2>1. CASE i = n + 1
    BY <1>1, <1>2, <1>4, <1>5, <2>1
  <2>2. CASE i # n + 1
    <3>1. i \in 1..n
      BY <1>1, <2>2
    <3>2. messages'[i] = messages[i] /\ messages[i].answers \in 1..a
      BY <1>1, <1>3, <1>5, <3>1
    <3>3. QED
      BY <1>2, <2>2, <3>1, <3>2
  <2>3. QED
    BY <2>1, <2>2
<1>6. ASSUME NEW i \in 1..(n + 1), NEW j \in 1..(n + 1),
             IsResult(messages'[i]), IsResult(messages'[j]),
             messages'[i].answers = messages'[j].answers
      PROVE  i = j
  <2>1. \A k \in (a + 1)..b : k \notin 1..a
    BY <1>2
  <2>2. CASE i = n + 1 \/ j = n + 1
    BY <1>5, <1>6, <2>1, <2>2
  <2>3. CASE i # n + 1 /\ j # n + 1
    BY <1>3, <1>5, <1>6, <2>3
  <2>4. QED
    BY <2>2, <2>3
<1>7. QED
  BY <1>1, <1>5, <1>6

LEMMA CallsWhenSettled ==
    ASSUME PiInv, NEW m \in Conversation, Settle(m)
    PROVE  /\ messages' = Append(messages, m) /\ messages' # <<>>
           /\ pi' \in {"between", "dead"}
           /\ CallsMade(messages') = IF m.role = "assistant" THEN CallsMade(messages) \o m.calls
                                     ELSE CallsMade(messages)
<1>1. /\ messages' = Append(messages, m) /\ messages' # <<>>
      /\ pi' \in {"between", "dead"}
  <2>1. messages' = Append(messages, m) /\ pi' \in {"between", "dead"}
    BY DEF Settle
  <2>2. QED
    BY <2>1, AppendProperties DEF PiInv
<1>2. m \in Said(Roles) /\ messages \in Seq(Said(Roles))
  BY ConversationIsSaid, SeqMonotonic DEF PiInv
<1>3. QED
  BY <1>1, <1>2, CallsAppend

LEMMA PromptedLog == ASSUME PiInv, LogInv, Prompted PROVE LogInv'
<1> DEFINE m == Message("user", <<>>, NoCallId, TRUE, FALSE)
<1>1. m \in Conversation /\ m.role = "user"
  <2>1. "user" \in Roles /\ NoCallId \in Nat /\ TRUE \in BOOLEAN /\ "user" # "custom"
    BY DEF Roles, NoCallId
  <2>2. QED
    BY <2>1, PlainMessages DEF Message
<1>2. Settle(m) /\ pi = "starting" /\ UNCHANGED <<open, turns, lastId>>
  BY DEF Prompted
<1> HIDE DEF m
<1>3. Steps(output') = turns' /\ (NoneCut' => AsPrinted')
  BY <1>1, <1>2, SettleReads DEF LogInv
<1>4. /\ messages' = Append(messages, m) /\ messages' # <<>> /\ pi' \in {"between", "dead"}
      /\ CallsMade(messages') = CallsMade(messages)
  BY <1>1, <1>2, CallsWhenSettled
<1>5. lastId - Len(open) \in Int /\ ~IsResult(m)
  BY <1>1 DEF IsResult, PiInv
<1>6. /\ \A i \in DOMAIN messages' :
            IsResult(messages'[i]) => messages'[i].answers \in 1..(lastId - Len(open))
      /\ \A i, j \in DOMAIN messages' :
            IsResult(messages'[i]) /\ IsResult(messages'[j])
                /\ messages'[i].answers = messages'[j].answers => i = j
  BY <1>1, <1>4, <1>5, AnswersApart DEF LogInv
<1>7. InOrder'
  BY <1>2, <1>4, <1>6 DEF LogInv, InOrder
<1>8. QED
  BY <1>3, <1>7 DEF LogInv

LEMMA ResultLog == ASSUME PiInv, LogInv, ResultSettles PROVE LogInv'
<1>1. PICK text \in BOOLEAN : Settle(Message("toolResult", <<>>, Head(open), text, FALSE))
  BY DEF ResultSettles
<1> DEFINE m == Message("toolResult", <<>>, Head(open), text, FALSE)
           n == Len(open)
<1>2. /\ n \in Nat \ {0} /\ n <= lastId /\ lastId \in Nat
      /\ Head(open) = lastId - n + 1 /\ Head(open) \in Nat
      /\ Tail(open) \in Seq(1..lastId) /\ Len(Tail(open)) = n - 1
      /\ \A i \in 1..(n - 1) : Tail(open)[i] = open[i + 1]
  <2>1. open \in Seq(1..lastId) /\ open # <<>> /\ lastId \in Nat
    BY DEF PiInv, ResultSettles
  <2>2. n \in Nat \ {0} /\ Head(open) = open[1] /\ 1 \in 1..n
    BY <2>1
  <2>3. n <= lastId /\ open[1] = lastId - n + 1
    BY <2>2 DEF LogInv, InOrder
  <2>4. /\ Tail(open) \in Seq(1..lastId) /\ Len(Tail(open)) = n - 1
        /\ \A i \in 1..(n - 1) : Tail(open)[i] = open[i + 1]
    BY <2>1, HeadTailProperties
  <2>5. QED
    BY <2>1, <2>2, <2>3, <2>4
<1>3. m \in Conversation /\ m.role = "toolResult" /\ m.answers = lastId - n + 1
  <2>1. "toolResult" \in Roles /\ "toolResult" # "custom"
    BY DEF Roles
  <2>2. QED
    BY <1>2, <2>1, PlainMessages DEF Message
<1>4. Settle(m) /\ pi = "between" /\ open' = Tail(open) /\ UNCHANGED <<turns, lastId>>
  BY <1>1 DEF ResultSettles
<1> HIDE DEF m
<1>5. Steps(output') = turns' /\ (NoneCut' => AsPrinted')
  BY <1>3, <1>4, SettleReads DEF LogInv
<1>6. /\ messages' = Append(messages, m) /\ messages' # <<>> /\ pi' \in {"between", "dead"}
      /\ CallsMade(messages') = CallsMade(messages)
  BY <1>3, <1>4, CallsWhenSettled
<1>7. /\ lastId - n + 1 \in Int /\ lastId - n <= lastId - n + 1
      /\ m.answers \in (lastId - n + 1)..(lastId - n + 1)
      /\ lastId' - Len(open') = lastId - n + 1
  BY <1>2, <1>3, <1>4
<1>8. /\ \A i \in DOMAIN messages' :
            IsResult(messages'[i]) => messages'[i].answers \in 1..(lastId - n + 1)
      /\ \A i, j \in DOMAIN messages' :
            IsResult(messages'[i]) /\ IsResult(messages'[j])
                /\ messages'[i].answers = messages'[j].answers => i = j
  BY <1>3, <1>6, <1>7, AnswersApart DEF LogInv
<1>9. Len(open') <= lastId' /\ \A i \in 1..Len(open') : open'[i] = lastId' - Len(open') + i
  <2>1. \A i \in 1..(n - 1) : open[i + 1] = lastId - n + (i + 1)
    BY <1>2 DEF LogInv, InOrder
  <2>2. QED
    BY <1>2, <1>4, <2>1
<1>10. InOrder'
  BY <1>4, <1>6, <1>7, <1>8, <1>9 DEF LogInv, InOrder
<1>11. QED
  BY <1>5, <1>10 DEF LogInv

LEMMA AssistantLog == ASSUME PiInv, LogInv, AssistantSettles PROVE LogInv'
<1>1. PICK n \in 0..MaxCalls, text \in BOOLEAN, cut \in Cuts :
         LET calls == [i \in 1..n |-> lastId + i] IN
         /\ Settle(Message("assistant", calls, NoCallId, text, cut))
         /\ open' = calls
         /\ lastId' = lastId + n
  BY DEF AssistantSettles
<1> DEFINE calls == [i \in 1..n |-> lastId + i]
           m == Message("assistant", calls, NoCallId, text, cut)
<1>2. /\ n \in Nat /\ lastId \in Nat /\ lastId + n \in Nat /\ pi = "asking" /\ open = <<>>
      /\ Len(open) = 0 /\ turns' = turns
  BY PiAssumption DEF AssistantSettles, PiInv, LogInv, InOrder
<1>3. calls \in Seq(Nat) /\ Len(calls) = n /\ \A i \in 1..n : calls[i] = lastId + i
  BY <1>2
<1>4. Settle(m) /\ open' = calls /\ lastId' = lastId + n
  BY <1>1
<1> HIDE DEF calls
<1>5. m \in Conversation /\ m.role = "assistant" /\ m.calls = calls
  <2>1. /\ "assistant" \in Roles /\ "assistant" # "custom" /\ NoCallId \in Nat
        /\ cut \in BOOLEAN
    BY DEF Roles, NoCallId, Cuts
  <2>2. QED
    BY <1>3, <2>1, Messages DEF Message
<1> HIDE DEF m
<1>6. Steps(output') = turns' /\ (NoneCut' => AsPrinted')
  BY <1>2, <1>4, <1>5, SettleReads DEF LogInv
<1>7. /\ messages' = Append(messages, m) /\ messages' # <<>> /\ pi' \in {"between", "dead"}
      /\ CallsMade(messages') = CallsMade(messages) \o calls
  BY <1>4, <1>5, CallsWhenSettled
<1>8. CallsMade(messages') = Upto(lastId')
  <2>1. CallsMade(messages) = Upto(lastId) /\ Upto(lastId) \in Seq(Nat) /\ Len(Upto(lastId)) = lastId
    <3>1. CallsMade(messages) = Upto(lastId)
      BY DEF LogInv, InOrder
    <3>2. Upto(lastId) \in Seq(Nat) /\ Len(Upto(lastId)) = lastId
      BY <1>2 DEF Upto
    <3>3. QED
      BY <3>1, <3>2
  <2>2. \A i \in 1..lastId : Upto(lastId)[i] = i
    BY DEF Upto
  <2>3. /\ Upto(lastId) \o calls \in Seq(Nat)
        /\ Len(Upto(lastId) \o calls) = lastId + n
        /\ \A i \in 1..(lastId + n) : (Upto(lastId) \o calls)[i] =
                IF i <= lastId THEN Upto(lastId)[i] ELSE calls[i - lastId]
    BY <1>3, <2>1, ConcatProperties
  <2>4. /\ Upto(lastId + n) \in Seq(Nat) /\ Len(Upto(lastId + n)) = lastId + n
        /\ \A i \in 1..(lastId + n) : Upto(lastId + n)[i] = i
    BY <1>2 DEF Upto
  <2>5. ASSUME NEW i \in 1..(lastId + n)
        PROVE  (Upto(lastId) \o calls)[i] = Upto(lastId + n)[i]
    <3>1. CASE i <= lastId
      <4>1. i \in 1..lastId
        BY <1>2, <3>1
      <4>2. Upto(lastId)[i] = i
        BY <2>2, <4>1
      <4>3. QED
        BY <2>3, <2>4, <3>1, <4>2
    <3>2. CASE ~(i <= lastId)
      <4>1. i - lastId \in 1..n
        BY <1>2, <3>2
      <4>2. calls[i - lastId] = i
        BY <1>2, <1>3, <4>1
      <4>3. QED
        BY <2>3, <2>4, <3>2, <4>2
    <3>3. QED
      BY <3>1, <3>2
  <2>6. Upto(lastId) \o calls = Upto(lastId + n)
    BY <1>2, <2>3, <2>4, <2>5, SeqEqual
  <2>7. QED
    BY <1>4, <1>7, <2>1, <2>6
<1>9. /\ ~IsResult(m) /\ lastId \in Int /\ lastId - Len(open) <= lastId
      /\ lastId' - Len(open') = lastId
  BY <1>2, <1>3, <1>4, <1>5 DEF IsResult
<1>10. /\ \A i \in DOMAIN messages' :
            IsResult(messages'[i]) => messages'[i].answers \in 1..lastId
      /\ \A i, j \in DOMAIN messages' :
            IsResult(messages'[i]) /\ IsResult(messages'[j])
                /\ messages'[i].answers = messages'[j].answers => i = j
  BY <1>5, <1>7, <1>9, AnswersApart DEF LogInv
<1>11. Len(open') <= lastId' /\ \A i \in 1..Len(open') : open'[i] = lastId' - Len(open') + i
  <2>1. Len(open') = n /\ lastId' = lastId + n /\ \A i \in 1..n : open'[i] = lastId + i
    BY <1>3, <1>4
  <2>2. lastId' - n = lastId /\ n <= lastId'
    BY <1>2, <2>1
  <2>3. QED
    BY <2>1, <2>2
<1>12. InOrder'
  BY <1>7, <1>8, <1>9, <1>10, <1>11 DEF LogInv, InOrder
<1>13. QED
  BY <1>6, <1>12 DEF LogInv

\* A line that is no message and no end, with the conversation as it was.
LEMMA QuietLog ==
    ASSUME PiInv, LogInv, NEW l \in Lines, l.type \in {"noise", "turn_start"},
           output' = Append(output, l), UNCHANGED messages,
           pi # "settled", pi' # "settled", pi = "dead" => pi' = "dead",
           turns' = IF l.type = "turn_start" THEN turns + 1 ELSE turns
    PROVE  Steps(output') = turns' /\ (NoneCut' => AsPrinted')
<1>1. output \in Seq(Lines)
  BY DEF PiInv
<1>2. /\ Streamed(output') = Streamed(output) /\ TurnsMetered(output') = TurnsMetered(output)
      /\ OfType(output', "agent_end") = OfType(output, "agent_end")
      /\ Steps(output') = IF l.type = "turn_start" THEN Steps(output) + 1 ELSE Steps(output)
  BY <1>1, OtherLine
<1>3. QED
  BY <1>2 DEF LogInv, AsPrinted, Ended, NoneCut

LEMMA CustomLog == ASSUME PiInv, LogInv, CustomMessage PROVE LogInv'
<1> DEFINE m == Message("custom", <<>>, NoCallId, TRUE, FALSE)
<1>1. m \in Said(Roles) /\ m.role = "custom" /\ ~m.cut
  <2>1. "custom" \in Roles /\ NoCallId \in Nat /\ TRUE \in BOOLEAN
    BY DEF Roles, NoCallId
  <2>2. QED
    BY <2>1, PlainMessages DEF Message
<1>2. /\ output' = Append(output, LineOf(MessageEnd(m))) /\ output \in Seq(Lines)
      /\ pi = "between" /\ UNCHANGED <<pi, messages, open, turns, lastId>>
  BY DEF CustomMessage, Emit, PiInv
<1> HIDE DEF m
<1>3. ~InConversation(m) /\ m.role # "assistant"
  BY <1>1 DEF InConversation
<1>4. output' = Append(output, MessageEnd(m))
  BY <1>1, <1>2, MessageLine
<1>5. /\ Streamed(output') = Streamed(output) /\ TurnsMetered(output') = TurnsMetered(output)
      /\ OfType(output', "agent_end") = OfType(output, "agent_end")
  BY <1>1, <1>2, <1>3, <1>4, MessageLine
<1>6. Steps(output') = Steps(output)
  BY <1>1, <1>2, MessageIsNoTurn
<1>7. QED
  BY <1>2, <1>5, <1>6 DEF LogInv, InOrder, AsPrinted, Ended, NoneCut

LEMMA SettledLog == ASSUME PiInv, LogInv, Settles PROVE LogInv'
<1> DEFINE e == AgentEnd(messages)
           l == LineOf(e)
<1>1. /\ pi = "between" /\ pi' = "settled" /\ output' = Append(output, l)
      /\ UNCHANGED <<messages, open, turns, lastId>>
      /\ open = <<>> /\ Last(messages).role = "assistant"
      /\ output \in Seq(Lines) /\ messages \in Seq(Conversation)
  BY DEF Settles, Emit, PiInv
<1>2. e \in PiEvents /\ e.type = "agent_end" /\ e.messages = messages
  BY <1>1 DEF PiEvents, AgentEnd
<1>3. l \in Lines /\ l.type \in {"noise", "agent_end"} /\ e \in Lines
  BY <1>2, LineOfEvent DEF LineOf, Noise, Lines
<1>4. NoneCut => l = e
  BY <1>2 DEF LineOf, NoneCut
<1>5. messages # <<>>
  BY <1>1 DEF LogInv, InOrder
<1> HIDE DEF e, l
<1>6. Steps(output') = Steps(output)
  <2>1. OfType(output', "turn_start") = OfType(output, "turn_start")
    BY <1>1, <1>3, OfTypeAppend
  <2>2. QED
    BY <2>1 DEF Steps
<1>7. ASSUME NoneCut' PROVE AsPrinted'
  <2>1. NoneCut /\ l = e
    BY <1>1, <1>4, <1>7 DEF NoneCut
  <2>2. /\ Streamed(output') = Streamed(output)
        /\ TurnsMetered(output') = TurnsMetered(output)
    BY <1>1, <1>2, <1>3, <2>1, StreamedAppend, MeteredAppend
  <2>3. OfType(output', "agent_end") = Append(OfType(output, "agent_end"), e)
    BY <1>1, <1>2, <1>3, <2>1, OfTypeAppend
  <2>4. OfType(output, "agent_end") = <<>> /\ Append(<<>>, e) = <<e>>
    BY <1>1, <2>1 DEF LogInv, AsPrinted, Ended
  <2>5. QED
    BY <1>1, <2>1, <2>2, <2>3, <2>4 DEF LogInv, AsPrinted, Ended, e
<1>8. InOrder'
  BY <1>1, <1>5 DEF LogInv, InOrder
<1>9. QED
  BY <1>1, <1>6, <1>7, <1>8 DEF LogInv

LEMMA LogStep == ASSUME PiInv, LogInv, PiNext \/ UNCHANGED piVars PROVE LogInv'
<1>1. Noise \in Lines /\ Noise.type = "noise" /\ output \in Seq(Lines)
  BY DEF Noise, Lines, PiInv
<1>2. CASE Banner
  <2>1. output' = Append(output, Noise) /\ UNCHANGED <<pi, messages, open, turns, lastId>>
    BY <1>2 DEF Banner
  <2>2. pi = "starting"
    BY <1>2 DEF Banner
  <2>3. Steps(output') = turns' /\ (NoneCut' => AsPrinted')
    BY <1>1, <2>1, <2>2, QuietLog
  <2>4. QED
    BY <2>1, <2>3 DEF LogInv, InOrder
<1>3. CASE TurnBegins
  <2>1. /\ output' = Append(output, TurnStart) /\ TurnStart \in Lines
        /\ TurnStart.type = "turn_start"
    BY <1>3 DEF TurnBegins, Emit, LineOf, TurnStart, Lines, PiEvents
  <2>2. /\ pi = "between" /\ pi' = "asking" /\ open = <<>> /\ turns' = turns + 1
        /\ UNCHANGED <<messages, open, lastId>>
    BY <1>3 DEF TurnBegins
  <2>3. Steps(output') = turns' /\ (NoneCut' => AsPrinted')
    BY <2>1, <2>2, QuietLog
  <2>4. QED
    BY <2>2, <2>3 DEF LogInv, InOrder
<1>4. CASE Killed
  <2>1. /\ pi \notin {"settled", "dead"} /\ pi' = "dead"
        /\ output' \in {output, Append(output, Noise)}
        /\ UNCHANGED <<messages, open, turns, lastId>>
    BY <1>4 DEF Killed
  <2>2. Steps(output') = turns' /\ (NoneCut' => AsPrinted')
    <3>1. CASE output' = Append(output, Noise)
      BY <1>1, <2>1, <3>1, QuietLog
    <3>2. CASE output' = output
      BY <2>1, <3>2 DEF LogInv, AsPrinted, Ended, NoneCut
    <3>3. QED
      BY <2>1, <3>1, <3>2
  <2>3. QED
    BY <2>1, <2>2 DEF LogInv, InOrder
<1>5. CASE UNCHANGED piVars
  BY <1>5 DEF piVars, LogInv, InOrder, AsPrinted, Ended, NoneCut
<1>6. QED
  BY <1>2, <1>3, <1>4, <1>5, PromptedLog, AssistantLog, ResultLog, CustomLog, SettledLog
  DEF PiNext

\* A run that is over is read as the whole of its conversation, or without the message
\* in flight.
LEMMA TranscriptRead ==
    ASSUME PiInv, LogInv, NoneCut, pi \in {"settled", "dead"}
    PROVE  /\ Transcript(output) = Streamed(output)
           /\ HasEnd(output) <=> pi = "settled"
           /\ Transcript(output) \in Seq(Conversation)
           /\ \/ Transcript(output) = messages
              \/ /\ pi = "dead" /\ Transcript(output) = Front(messages)
                 /\ \E m \in Conversation : messages = Append(Transcript(output), m)
<1>1. /\ AsPrinted /\ InOrder /\ messages \in Seq(Conversation)
  BY DEF LogInv, PiInv
<1>2. CASE pi = "settled"
  <2>1. OfType(output, "agent_end") = <<AgentEnd(messages)>>
    BY <1>1, <1>2 DEF AsPrinted, Ended
  <2>2. /\ <<AgentEnd(messages)>> # <<>>
        /\ Last(<<AgentEnd(messages)>>).messages = messages
    BY DEF Last, AgentEnd
  <2>3. messages # <<>> /\ Streamed(output) = messages
    BY <1>1, <1>2 DEF InOrder, AsPrinted
  <2>4. HasEnd(output) /\ Transcript(output) = messages
    BY <2>1, <2>2, <2>3 DEF HasEnd, Transcript
  <2>5. QED
    BY <1>1, <1>2, <2>3, <2>4
<1>3. CASE pi = "dead"
  <2>1. OfType(output, "agent_end") = <<>>
    BY <1>1, <1>3 DEF AsPrinted, Ended
  <2>2. ~HasEnd(output) /\ Transcript(output) = Streamed(output)
    BY <2>1 DEF HasEnd, Transcript
  <2>3. CASE Streamed(output) = messages
    BY <1>1, <1>3, <2>2, <2>3
  <2>4. CASE messages # <<>> /\ Streamed(output) = Front(messages)
    <3>1. PICK s \in Seq(Conversation), m \in Conversation : messages = Append(s, m)
      BY <1>1, <2>4, SequenceEmptyOrAppend
    <3>2. Front(messages) = s
      BY <3>1 DEF Front
    <3>3. QED
      BY <1>3, <2>2, <2>4, <3>1, <3>2
  <2>5. QED
    BY <1>1, <2>3, <2>4 DEF AsPrinted
<1>4. QED
  BY <1>2, <1>3

LEMMA CallsRead ==
    ASSUME PiInv, LogInv, NEW t \in Seq(Conversation),
           t = messages \/ \E m \in Conversation : messages = Append(t, m)
    PROVE  \A i \in DOMAIN CallsMade(t) : CallsMade(t)[i] = i
<1>1. t \in Seq(Said(Roles)) /\ CallsMade(messages) = Upto(lastId) /\ lastId \in Nat
  BY ConversationIsSaid, SeqMonotonic DEF LogInv, InOrder, PiInv
<1>2. \A i \in 1..lastId : Upto(lastId)[i] = i
  BY DEF Upto
<1>3. DOMAIN Upto(lastId) = 1..lastId
  BY DEF Upto
<1>4. CASE t = messages
  BY <1>1, <1>2, <1>3, <1>4
<1>5. ASSUME NEW m \in Conversation, messages = Append(t, m)
      PROVE  \A i \in DOMAIN CallsMade(t) : CallsMade(t)[i] = i
  <2>1. /\ m \in Said(Roles) /\ m.calls \in Seq(Nat)
    BY ConversationIsSaid DEF Said, Bodies, Message
  <2>2. /\ CallsMade(t) \in Seq(Nat)
        /\ Upto(lastId) = IF m.role = "assistant" THEN CallsMade(t) \o m.calls ELSE CallsMade(t)
    BY <1>1, <1>5, <2>1, CallsAppend
  <2>3. CASE m.role = "assistant"
    <3> DEFINE c == CallsMade(t)
    <3>1. /\ Len(c) \in Nat /\ Len(m.calls) \in Nat /\ DOMAIN c = 1..Len(c)
          /\ c \o m.calls \in Seq(Nat)
          /\ Len(c \o m.calls) = Len(c) + Len(m.calls)
          /\ \A i \in 1..(Len(c) + Len(m.calls)) : (c \o m.calls)[i] =
                IF i <= Len(c) THEN c[i] ELSE m.calls[i - Len(c)]
      BY <2>1, <2>2, ConcatProperties
    <3>2. Upto(lastId) = c \o m.calls /\ Len(Upto(lastId)) = lastId
      <4>1. Upto(lastId) = c \o m.calls
        BY <2>2, <2>3
      <4>2. Len(Upto(lastId)) = lastId
        BY <1>1 DEF Upto
      <4>3. QED
        BY <4>1, <4>2
    <3> HIDE DEF c
    <3>3. lastId = Len(c) + Len(m.calls)
      BY <3>1, <3>2
    <3>4. ASSUME NEW i \in 1..Len(c) PROVE c[i] = i
      <4>1. i \in 1..(Len(c) + Len(m.calls)) /\ i <= Len(c)
        BY <3>1
      <4>2. QED
        BY <1>2, <3>1, <3>2, <3>3, <4>1
    <3>5. QED
      BY <3>1, <3>4 DEF c
  <2>4. CASE m.role # "assistant"
    BY <1>2, <1>3, <2>2, <2>4
  <2>5. QED
    BY <2>3, <2>4
<1>6. QED
  BY <1>4, <1>5

LEMMA ResultsRead ==
    ASSUME PiInv, LogInv, NEW t \in Seq(Conversation),
           t = messages \/ \E m \in Conversation : messages = Append(t, m)
    PROVE  \A i \in DOMAIN t :
              t[i].role = "toolResult" => t[i].text = HasResult(t, t[i].answers)
<1>1. DOMAIN t \subseteq DOMAIN messages /\ \A i \in DOMAIN t : t[i] = messages[i]
  <2>1. CASE t = messages
    BY <2>1
  <2>2. CASE \E m \in Conversation : messages = Append(t, m)
    BY <2>2
  <2>3. QED
    BY <2>1, <2>2
<1>2. \A i, j \in DOMAIN t : IsResult(t[i]) /\ IsResult(t[j])
                                /\ t[i].answers = t[j].answers => i = j
  BY <1>1 DEF LogInv, InOrder
<1>3. SUFFICES ASSUME NEW i \in DOMAIN t, IsResult(t[i])
               PROVE  t[i].text = HasResult(t, t[i].answers)
  BY DEF IsResult
<1> DEFINE id == t[i].answers
           Test(m) == m.role = "toolResult" /\ m.answers = id
           keep == [j \in DOMAIN t |-> Test(t[j])]
           results == Compress(t, keep)
<1>4. ResultsFor(t, id) = results
  BY DEF ResultsFor, Where
<1>5. \A j \in DOMAIN t : keep[j] <=> Test(t[j])
  <2> HIDE DEF Test
  <2>1. QED
    OBVIOUS
<1>6. \A j \in DOMAIN t : Test(t[j]) <=> j = i
  BY <1>2, <1>3 DEF IsResult
<1> HIDE DEF id, Test, keep, results
<1>7. /\ \A k \in DOMAIN results : \E j \in DOMAIN t : keep[j] /\ results[k] = t[j]
      /\ \A j \in DOMAIN t : keep[j] => \E k \in DOMAIN results : results[k] = t[j]
  BY CompressKeeps DEF results
<1>8. /\ \A k \in DOMAIN results : results[k] = t[i]
      /\ \E k \in DOMAIN results : results[k] = t[i]
  BY <1>5, <1>6, <1>7
<1>9. HasResult(t, id) <=> t[i].text
  BY <1>4, <1>8 DEF HasResult
<1>10. t[i].text \in BOOLEAN /\ HasResult(t, id) \in BOOLEAN
  <2>1. t[i] \in Conversation
    OBVIOUS
  <2>2. \A m \in Conversation : m.text \in BOOLEAN
    BY DEF Conversation, Said, Bodies, Message
  <2>3. QED
    BY <2>1, <2>2 DEF HasResult
<1>11. QED
  BY <1>9, <1>10 DEF id

LEMMA AnswerRead ==
    ASSUME PiInv, LogInv, pi = "settled", Transcript(output) = messages, Answered(output)
    PROVE  Last(messages).text
<1>1. messages \in Seq(Conversation) /\ messages # <<>> /\ Last(messages).role = "assistant"
  BY DEF PiInv, LogInv, InOrder
<1>2. PICK s \in Seq(Conversation), m \in Conversation : messages = Append(s, m)
  BY <1>1, SequenceEmptyOrAppend
<1>3. Last(messages) = m
  BY <1>2 DEF Last
<1>4. s \in Seq(Said(Roles)) /\ m \in Said(Roles)
  BY ConversationIsSaid, SeqMonotonic
<1>5. Replies(messages) = Append(Replies(s), m) /\ Replies(s) \in Seq(Said(Roles))
  BY <1>1, <1>2, <1>3, <1>4, RepliesAppend
<1>6. Last(Replies(messages)) = m
  BY <1>4, <1>5 DEF Last
<1>7. QED
  BY <1>3, <1>6 DEF Answered

LEMMA LogReads == PiInv /\ LogInv => (NoneCut => LogIsTheConversation)
<1> SUFFICES ASSUME PiInv, LogInv, NoneCut, pi \in {"settled", "dead"}
             PROVE  LogIsTheConversation
  BY DEF LogIsTheConversation
<1> DEFINE t == Transcript(output)
<1>1. /\ t = Streamed(output) /\ (HasEnd(output) <=> pi = "settled")
      /\ t \in Seq(Conversation)
      /\ \/ t = messages
         \/ /\ pi = "dead" /\ t = Front(messages)
            /\ \E m \in Conversation : messages = Append(t, m)
  BY TranscriptRead
<1>2. Answered(output) => pi = "settled" /\ Last(messages).text
  <2> SUFFICES ASSUME Answered(output) PROVE pi = "settled" /\ Last(messages).text
    OBVIOUS
  <2>1. pi = "settled"
    BY <1>1 DEF Answered
  <2>2. QED
    BY <1>1, <2>1, AnswerRead
<1>3. Steps(output) = turns /\ TurnsMetered(output) = Len(Replies(t))
  BY <1>1 DEF LogInv, AsPrinted
<1> HIDE DEF t
<1>4. \A i \in DOMAIN CallsMade(t) : CallsMade(t)[i] = i
  BY <1>1, CallsRead
<1>5. \A i \in DOMAIN t : t[i].role = "toolResult" => t[i].text = HasResult(t, t[i].answers)
  BY <1>1, ResultsRead
<1>6. QED
  BY <1>1, <1>2, <1>3, <1>4, <1>5 DEF LogIsTheConversation, t

-----------------------------------------------------------------------------
Inv == driver \in {"native", "pi"} /\ StreamInv /\ PiInv /\ LogInv

LEMMA InvStep == ASSUME Inv, [Next]_<<driver, streamVars, piVars>> PROVE Inv'
<1>1. CASE driver = "native" /\ StreamNext /\ UNCHANGED <<driver, piVars>>
  BY <1>1, StreamStep, PiStep, LogStep DEF Inv
<1>2. CASE driver = "pi" /\ PiNext /\ UNCHANGED <<driver, streamVars>>
  BY <1>2, StreamStep, PiStep, LogStep DEF Inv
<1>3. CASE UNCHANGED <<driver, streamVars, piVars>>
  BY <1>3, StreamStep, PiStep, LogStep DEF Inv
<1>4. QED
  BY <1>1, <1>2, <1>3 DEF Next

LEMMA InvIsInvariant == Spec => []Inv
<1>1. Init => Inv
  BY InitStreamInv, InitPiInv, InitLogInv DEF Init, Inv
<1>2. QED
  BY <1>1, InvStep, PTL DEF Spec

LEMMA InvTyped == Inv => TypeOK
<1> SUFFICES ASSUME Inv PROVE TypeOK
  OBVIOUS
<1>1. ASSUME NEW n \in Nat, NEW m \in Nat, n <= m PROVE Upto(n) \in Seq(1..m)
  BY <1>1 DEF Upto
<1>2. StreamTypeOK
  <2>1. turn.content \in Seq(1..Content) /\ turn.reasoning \in Seq(1..Reasoning)
    BY <1>1, StreamAssumption DEF Inv, StreamInv, Sent, Texts
  <2>2. DOMAIN turn.pending \subseteq Calls
    BY DEF Inv, StreamInv, Pending, Started
  <2>3. \A k \in DOMAIN turn.pending : turn.pending[k] \in Seq(1..Arguments[k])
    <3> SUFFICES ASSUME NEW k \in Started PROVE turn.pending[k] \in Seq(1..Arguments[k])
      BY DEF Inv, StreamInv, Pending
    <3>1. sent.calls[k] \in Nat /\ Arguments[k] \in Nat /\ sent.calls[k] <= Arguments[k]
      BY StreamAssumption DEF Inv, StreamInv, Sent, Started
    <3>2. QED
      BY <1>1, <3>1 DEF Inv, StreamInv, Pending
  <2>4. QED
    BY <2>1, <2>2, <2>3 DEF Inv, StreamInv, Sent, Chunks, Times, StreamTypeOK
<1>3. PiTypeOK
  <2>1. \A m \in Conversation : m.role \in Roles \ {"custom"}
    BY DEF Conversation, Said, Message
  <2>2. \A line \in Lines : line.type \in {"noise", "turn_start", "message_end", "agent_end"}
    BY DEF Lines, PiEvents, Noise, TurnStart, MessageEnd, AgentEnd
  <2>3. QED
    BY <2>1, <2>2 DEF Inv, PiInv, PiTypeOK
<1>4. QED
  BY <1>2, <1>3 DEF Inv, TypeOK

\* For messages of any size: consume_stream keeps fragments only of calls the server
\* has numbered, each within its arguments, and pi's log has only events of the four
\* kinds that _outcome_from_output knows.
THEOREM TypeCorrect == Spec => []TypeOK
BY InvIsInvariant, InvTyped, PTL

\* However the server cuts and interleaves a message of any length, with any numbering
\* of its calls, the turn consume_stream returns is what was sent: content, reasoning
\* and calls in order with their arguments whole, and the generation window around them.
THEOREM TurnsAreWhatWasSent == Spec => []TurnIsWhatWasSent
<1>1. Inv => TurnIsWhatWasSent
  BY CallsInOrder DEF Inv, StreamInv, Texts, Times, TurnIsWhatWasSent
<1>2. QED
  BY <1>1, InvIsInvariant, PTL

\* Whatever pi prints of a conversation of any length, and wherever it is killed: if no
\* message has a character that cuts its line, what _outcome_from_output reads from the
\* lines is the conversation, short of at most the message in flight.
THEOREM UncutLogsAreRead == Spec => [](NoneCut => LogIsTheConversation)
<1>1. Inv => (NoneCut => LogIsTheConversation)
  BY LogReads DEF Inv
<1>2. QED
  BY <1>1, InvIsInvariant, PTL

\* Where no message can have such a character, every log is read so.
THEOREM LogsAreRead ==
    ASSUME Separators = FALSE
    PROVE  Spec => []LogIsTheConversation
<1>1. Init => NoneCut
  BY DEF Init, PiInit, NoneCut
<1>2. ASSUME Inv, NoneCut, [Next]_<<driver, streamVars, piVars>> PROVE NoneCut'
  <2>1. ASSUME NEW m, ~m.cut, Settle(m) PROVE NoneCut'
    <3>1. messages' = Append(messages, m) /\ messages \in Seq(Conversation)
      BY <1>2, <2>1 DEF Inv, PiInv, Settle
    <3>2. \A i \in DOMAIN messages' :
             \/ messages'[i] = m
             \/ i \in DOMAIN messages /\ messages'[i] = messages[i]
      <4>1. /\ Len(messages) \in Nat /\ DOMAIN messages = 1..Len(messages)
            /\ \A i \in 1..Len(messages) : messages'[i] = messages[i]
            /\ messages'[Len(messages) + 1] = m
            /\ DOMAIN messages' = 1..(Len(messages) + 1)
        BY <3>1
      <4>2. QED
        BY <4>1
    <3>3. QED
      BY <1>2, <2>1, <3>2 DEF NoneCut
  <2>2. CASE UNCHANGED messages
    BY <1>2, <2>2 DEF NoneCut
  <2>3. CASE PiNext
    <3>1. CASE Prompted
      BY <2>1, <3>1 DEF Prompted, Message
    <3>2. CASE AssistantSettles
      BY <2>1, <3>2 DEF AssistantSettles, Message, Cuts
    <3>3. CASE ResultSettles
      BY <2>1, <3>3 DEF ResultSettles, Message
    <3>4. CASE Banner \/ TurnBegins \/ CustomMessage \/ Settles \/ Killed
      BY <2>2, <3>4 DEF Banner, TurnBegins, CustomMessage, Settles, Killed
    <3>5. QED
      BY <2>3, <3>1, <3>2, <3>3, <3>4 DEF PiNext
  <2>4. QED
    BY <1>2, <2>2, <2>3 DEF Next, piVars
<1>3. Spec => []NoneCut
  BY <1>1, <1>2, InvIsInvariant, PTL DEF Spec
<1>4. QED
  BY <1>3, UncutLogsAreRead, PTL
=============================================================================
