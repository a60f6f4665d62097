--------------------------- MODULE NativeLoopProofs ---------------------------
(***************************************************************************)
(* NativeLoop for any calls, limits and number of steps: types, what the   *)
(* two counters say of the calls made, and that the loop ends its run by   *)
(* the table of LoopTermination.                                           *)
(***************************************************************************)
EXTENDS NativeLoop, FiniteSetTheorems, SequenceTheorems, TLAPS

-----------------------------------------------------------------------------
(* Runs at the end of a sequence, as one call is added to it.              *)

\* Appending a call to the sequence adds one to the run of invalid calls at its end,
\* or breaks it off.
LEMMA InvalidRunExtends ==
    ASSUME NEW s \in Seq(Calls), NEW c \in Calls, NEW k \in Nat, k <= Len(s),
           \A n \in 1..Len(s) : n <= k <=> Table!AllInvalid(s, n)
    PROVE  LET t == Append(s, c)
               m == IF Valid(c) THEN 0 ELSE k + 1
           IN  /\ m \in Nat /\ m <= Len(t)
               /\ \A n \in 1..Len(t) : n <= m <=> Table!AllInvalid(t, n)
<1> DEFINE t == Append(s, c)
           m == IF Valid(c) THEN 0 ELSE k + 1
<1>1. /\ Len(s) \in Nat /\ Len(t) = Len(s) + 1 /\ t[Len(s) + 1] = c
      /\ \A i \in 1..Len(s) : t[i] = s[i]
  OBVIOUS
<1>2. m \in Nat /\ m <= Len(t)
  BY <1>1
<1>3. ASSUME NEW n \in 1..Len(t) PROVE n <= m <=> Table!AllInvalid(t, n)
  <2>1. CASE Valid(c)
    <3>1. Len(t) \in (Len(t) - n + 1)..Len(t)
      BY <1>1
    <3>2. ~Table!AllInvalid(t, n)
      BY <1>1, <2>1, <3>1 DEF Table!AllInvalid, InvalidCalls
    <3>3. QED
      BY <2>1, <3>2
  <2>2. CASE ~Valid(c) /\ n = 1
    <3>1. \A i \in (Len(t) - 1 + 1)..Len(t) : i = Len(t)
      BY <1>1
    <3>2. Table!AllInvalid(t, 1)
      BY <1>1, <2>2, <3>1 DEF Table!AllInvalid, InvalidCalls
    <3>3. QED
      BY <2>2, <3>2
  <2>3. CASE ~Valid(c) /\ n > 1
    <3>1. n - 1 \in 1..Len(s) /\ (n <= m <=> n - 1 <= k)
      BY <1>1, <2>3
    <3>2. \A i : i \in (Len(t) - n + 1)..Len(t)
                    <=> i \in (Len(s) - (n - 1) + 1)..Len(s) \/ i = Len(s) + 1
      BY <1>1, <3>1
    <3>3. \A i \in (Len(s) - (n - 1) + 1)..Len(s) : t[i] = s[i]
      BY <1>1, <3>1
    <3>4. Table!AllInvalid(t, n) <=> Table!AllInvalid(s, n - 1)
      BY <1>1, <2>3, <3>1, <3>2, <3>3 DEF Table!AllInvalid, InvalidCalls
    <3>5. QED
      BY <3>1, <3>4
  <2>4. QED
    BY <1>1, <2>1, <2>2, <2>3
<1>4. QED
  BY <1>2, <1>3

\* The same for the run of identical calls: another call of the run makes it one
\* longer, any other call starts a run of one.
LEMMA IdenticalRunExtends ==
    ASSUME NEW s \in Seq(Calls), NEW c \in Calls, NEW k \in Nat, k <= Len(s),
           \A n \in 1..Len(s) : n <= k <=> Table!Repeated(s, n)
    PROVE  LET t == Append(s, c)
               m == IF s # <<>> /\ s[Len(s)] = c THEN k + 1 ELSE 1
           IN  /\ m \in Nat /\ m <= Len(t)
               /\ \A n \in 1..Len(t) : n <= m <=> Table!Repeated(t, n)
<1> DEFINE t == Append(s, c)
           m == IF s # <<>> /\ s[Len(s)] = c THEN k + 1 ELSE 1
<1>1. /\ Len(s) \in Nat /\ Len(t) = Len(s) + 1 /\ t[Len(s) + 1] = c
      /\ \A i \in 1..Len(s) : t[i] = s[i]
  OBVIOUS
<1>2. m \in Nat /\ m <= Len(t) /\ m >= 1
  BY <1>1
<1>3. ASSUME NEW n \in 1..Len(t) PROVE n <= m <=> Table!Repeated(t, n)
  <2>1. CASE n = 1
    <3>1. \A i \in (Len(t) - 1 + 1)..Len(t) : i = Len(t)
      BY <1>1
    <3>2. Table!Repeated(t, 1)
      BY <1>1, <3>1 DEF Table!Repeated
    <3>3. QED
      BY <1>2, <2>1, <3>2
  <2>2. CASE n > 1 /\ s # <<>> /\ s[Len(s)] = c
    <3>1. n - 1 \in 1..Len(s) /\ (n <= m <=> n - 1 <= k)
      BY <1>1, <2>2
    <3>2. \A i : i \in (Len(t) - n + 1)..Len(t)
                    <=> i \in (Len(s) - (n - 1) + 1)..Len(s) \/ i = Len(s) + 1
      BY <1>1, <3>1
    <3>3. \A i \in (Len(s) - (n - 1) + 1)..Len(s) : t[i] = s[i]
      BY <1>1, <3>1
    <3>4. Table!Repeated(t, n) <=> Table!Repeated(s, n - 1)
      BY <1>1, <2>2, <3>1, <3>2, <3>3 DEF Table!Repeated
    <3>5. QED
      BY <3>1, <3>4
  <2>3. CASE n > 1 /\ ~(s # <<>> /\ s[Len(s)] = c)
    <3>1. Len(s) \in 1..Len(s) /\ Len(s) \in (Len(t) - n + 1)..Len(t)
      BY <1>1, <2>3
    <3>2. t[Len(s)] # t[Len(t)]
      BY <1>1, <2>3, <3>1
    <3>3. ~Table!Repeated(t, n)
      BY <3>1, <3>2 DEF Table!Repeated
    <3>4. QED
      BY <2>3, <3>3
  <2>4. QED
    BY <1>1, <2>1, <2>2, <2>3
<1>4. QED
  BY <1>2, <1>3

-----------------------------------------------------------------------------
(***************************************************************************)
(* The inductive invariant.  That the counters stay within their limits,   *)
(* which TypeOK says, rests on a running loop being strictly below them:   *)
(* the call that reaches a limit ends the run.                             *)
(***************************************************************************)
InLimits ==
    /\ Running => /\ identicalRun < IdenticalLimit
                  /\ malformedRun < MalformedLimit
                  /\ termination = "max_steps"
    /\ pc = "asked" => steps < MaxSteps
    /\ pc = "dispatch" => steps > 0
    /\ timed <= steps

LoopInv == TypeOK /\ CountersAgree /\ InLimits

Message == [role : {"system", "user", "assistant", "tool"}, ids : Seq(Nat \X Nat)]

LEMMA LimitsPositive ==
    /\ MaxSteps \in Nat /\ MaxSteps > 0
    /\ IdenticalLimit \in Nat /\ IdenticalLimit > 0
    /\ MalformedLimit \in Nat /\ MalformedLimit > 0
BY LoopAssumption

LEMMA InitLoop == Init => LoopInv
<1> SUFFICES ASSUME Init PROVE LoopInv
  OBVIOUS
<1>1. messages \in Seq(Message) /\ Len(messages) = 2
  <2>1. [role |-> "system", ids |-> <<>>] \in Message /\ [role |-> "user", ids |-> <<>>] \in Message
    BY DEF Message
  <2>2. QED
    BY <2>1 DEF Init
<1>2. mode \in {"full", "compact"}
  BY LoopAssumption DEF Init
<1>3. /\ fragments = <<>> /\ ids = <<>> /\ calls = <<>> /\ recent = <<>>
      /\ fragments \in Seq(Calls) /\ ids \in Seq(Nat \X Nat) /\ Len(ids) = Len(fragments)
      /\ Len(calls) = 0
  BY DEF Init
<1>4. TypeOK
  <2>1. /\ steps \in 0..MaxSteps /\ timed \in 0..MaxSteps
        /\ identicalRun \in 0..IdenticalLimit /\ malformedRun \in 0..MalformedLimit
        /\ lastTurnStart \in 0..Len(messages)
    BY <1>1, LimitsPositive DEF Init
  <2>2. pc = "top" /\ late \in BOOLEAN /\ termination = "max_steps"
    BY DEF Init
  <2>3. recent \in Seq(Calls) /\ calls \in Seq(Calls)
    BY <1>3
  <2>4. QED
    BY <1>1, <1>2, <1>3, <2>1, <2>2, <2>3 DEF TypeOK, Message
<1>5. CountersAgree
  BY <1>3 DEF Init, CountersAgree
<1>6. InLimits
  BY LimitsPositive DEF Init, InLimits, Running
<1>7. QED
  BY <1>4, <1>5, <1>6 DEF LoopInv

-----------------------------------------------------------------------------
(* The model's turn.                                                       *)

LEMMA TurnTyped ==
    ASSUME LoopInv, CallsTools
    PROVE  /\ fragments' \in Seq(Calls) /\ fragments' # <<>>
           /\ ids' \in Seq(Nat \X Nat) /\ Len(ids') = Len(fragments')
           /\ messages' \in Seq(Message)
           /\ lastTurnStart' \in 0..Len(messages')
           /\ \E x \in Message : messages' = Append(messages, x) /\ x.role = "assistant"
                                 /\ x.ids = [i \in 1..Len(ids') |-> Replayed(ids'[i], i)]
<1>1. steps \in Nat /\ messages \in Seq(Message)
  BY DEF LoopInv, TypeOK, Message
<1>2. PICK n \in 1..MaxFragments :
         /\ fragments' \in [1..n -> Calls]
         /\ \/ ids' \in [1..n -> {NoId}]
            \/ ids' = [i \in 1..n |-> <<steps + 1, i>>]
  BY DEF CallsTools
<1>3. n \in Nat /\ n > 0
  BY <1>2, LoopAssumption
<1>4. fragments' \in Seq(Calls) /\ Len(fragments') = n /\ fragments' # <<>>
  BY <1>2, <1>3
<1>5. ids' \in [1..n -> Nat \X Nat]
  BY <1>1, <1>2, <1>3 DEF NoId
<1>6. ids' \in Seq(Nat \X Nat) /\ Len(ids') = n
  BY <1>3, <1>5
<1> DEFINE replayed == [i \in 1..Len(ids') |-> Replayed(ids'[i], i)]
<1>7. replayed \in Seq(Nat \X Nat)
  <2>1. \A i \in 1..n : Replayed(ids'[i], i) \in Nat \X Nat
    BY <1>3, <1>5 DEF Replayed
  <2>2. replayed \in [1..n -> Nat \X Nat]
    BY <1>6, <2>1
  <2>3. QED
    BY <1>3, <2>2
<1>8. messages' = Append(messages, [role |-> "assistant", ids |-> replayed])
  BY DEF CallsTools
<1>9. [role |-> "assistant", ids |-> replayed] \in Message
  BY <1>7 DEF Message
<1>10. messages' \in Seq(Message) /\ Len(messages') = Len(messages) + 1
  BY <1>1, <1>8, <1>9
<1>11. lastTurnStart' \in 0..Len(messages')
  BY <1>1, <1>10 DEF CallsTools
<1>12. QED
  BY <1>4, <1>6, <1>8, <1>9, <1>10, <1>11

-----------------------------------------------------------------------------
(* Dispatch: what the counters become, and that Stop is the table's verdict. *)

LEMMA CallTyped ==
    ASSUME LoopInv, pc = "dispatch"
    PROVE  call \in Calls /\ Head(ids) \in Nat \X Nat
BY DEF LoopInv, TypeOK, call

LEMMA AfterCall ==
    ASSUME LoopInv, pc = "dispatch"
    PROVE  /\ MalformedAfter \in 0..MalformedLimit /\ MalformedAfter <= Len(calls) + 1
           /\ IdenticalAfter \in 0..IdenticalLimit /\ IdenticalAfter <= Len(calls) + 1
           /\ \A n \in 1..(Len(calls) + 1) :
                 /\ n <= IdenticalAfter <=> Table!Repeated(Append(calls, call), n)
                 /\ n <= MalformedAfter <=> Table!AllInvalid(Append(calls, call), n)
<1>1. /\ call \in Calls /\ calls \in Seq(Calls) /\ Len(calls) \in Nat
      /\ Len(Append(calls, call)) = Len(calls) + 1
  BY CallTyped DEF LoopInv, TypeOK
<1>2. /\ identicalRun \in Nat /\ identicalRun < IdenticalLimit
      /\ malformedRun \in Nat /\ malformedRun < MalformedLimit
  BY LimitsPositive DEF LoopInv, TypeOK, InLimits, Running
<1>3. /\ recent = IF calls = <<>> THEN <<>> ELSE <<calls[Len(calls)]>>
      /\ identicalRun <= Len(calls) /\ malformedRun <= Len(calls)
      /\ \A n \in 1..Len(calls) : n <= identicalRun <=> Table!Repeated(calls, n)
      /\ \A n \in 1..Len(calls) : n <= malformedRun <=> Table!AllInvalid(calls, n)
  BY DEF LoopInv, CountersAgree, Running
<1>4. recent = <<call>> <=> calls # <<>> /\ calls[Len(calls)] = call
  BY <1>3
<1>5. IdenticalAfter = IF calls # <<>> /\ calls[Len(calls)] = call THEN identicalRun + 1 ELSE 1
  BY <1>4 DEF IdenticalAfter
<1>6. /\ IdenticalAfter <= Len(calls) + 1
      /\ \A n \in 1..(Len(calls) + 1) :
            n <= IdenticalAfter <=> Table!Repeated(Append(calls, call), n)
  BY <1>1, <1>2, <1>3, <1>5, IdenticalRunExtends
<1>7. /\ MalformedAfter <= Len(calls) + 1
      /\ \A n \in 1..(Len(calls) + 1) :
            n <= MalformedAfter <=> Table!AllInvalid(Append(calls, call), n)
  BY <1>1, <1>2, <1>3, InvalidRunExtends DEF MalformedAfter
<1>8. IdenticalAfter \in 0..IdenticalLimit /\ MalformedAfter \in 0..MalformedLimit
  BY <1>2, <1>5, LimitsPositive DEF MalformedAfter
<1>9. QED
  BY <1>6, <1>7, <1>8

LEMMA StopIsVerdict ==
    ASSUME LoopInv, pc = "dispatch"
    PROVE  Table!Verdict(Append(calls, call)) = IF Stop = "none" THEN "running" ELSE Stop
<1> DEFINE t == Append(calls, call)
<1>1. Len(t) = Len(calls) + 1 /\ Len(calls) \in Nat
  BY CallTyped DEF LoopInv, TypeOK
<1>2. Table!AllInvalid(t, MalformedLimit) <=> MalformedAfter >= MalformedLimit
  <2>1. Table!AllInvalid(t, MalformedLimit) => MalformedLimit <= Len(t)
    BY DEF Table!AllInvalid
  <2>2. QED
    BY <1>1, <2>1, AfterCall, LimitsPositive
<1>3. Table!Repeated(t, IdenticalLimit) <=> IdenticalAfter >= IdenticalLimit
  <2>1. Table!Repeated(t, IdenticalLimit) => IdenticalLimit <= Len(t)
    BY DEF Table!Repeated
  <2>2. QED
    BY <1>1, <2>1, AfterCall, LimitsPositive
<1>4. QED
  BY <1>2, <1>3 DEF Table!Verdict, Stop

LEMMA LastAppended ==
    ASSUME NEW S, NEW s \in Seq(S), NEW x \in S
    PROVE  LET t == Append(s, x)
           IN  t \in Seq(S) /\ Len(t) = Len(s) + 1 /\ t[Len(t)] = x /\ t # <<>>
<1> DEFINE t == Append(s, x)
<1>1. t \in Seq(S) /\ Len(t) = Len(s) + 1 /\ t[Len(s) + 1] = x /\ Len(s) \in Nat
  OBVIOUS
<1>2. t # <<>>
  BY <1>1
<1>3. QED
  BY <1>1, <1>2

LEMMA CountersUntouched ==
    ASSUME CountersAgree, Running, UNCHANGED <<calls, recent, identicalRun, malformedRun>>
    PROVE  CountersAgree'
BY DEF CountersAgree, Running

LEMMA DispatchKeepsLoopInv == LoopInv /\ Dispatch => LoopInv'
<1> SUFFICES ASSUME LoopInv, Dispatch PROVE LoopInv'
  OBVIOUS
<1>1. /\ pc = "dispatch" /\ fragments \in Seq(Calls) /\ fragments # <<>>
      /\ ids \in Seq(Nat \X Nat) /\ Len(ids) = Len(fragments)
      /\ calls \in Seq(Calls) /\ messages \in Seq(Message)
  BY DEF LoopInv, TypeOK, Dispatch, Message
<1>2. call \in Calls /\ Head(ids) \in Nat \X Nat
  BY <1>1, CallTyped
<1>3. /\ calls' = Append(calls, call) /\ calls' \in Seq(Calls)
      /\ Len(calls') = Len(calls) + 1 /\ calls'[Len(calls')] = call /\ calls' # <<>>
  <2>1. calls' = Append(calls, call)
    BY DEF Dispatch
  <2>2. calls \in Seq(Calls) /\ call \in Calls
    BY <1>1, <1>2
  <2>3. QED
    BY <2>1, <2>2, LastAppended
<1>4. /\ fragments' \in Seq(Calls) /\ ids' \in Seq(Nat \X Nat) /\ Len(ids') = Len(fragments')
  BY <1>1 DEF Dispatch
<1>5. messages' \in Seq(Message) /\ Len(messages') = Len(messages) + 1
  <2>1. Answered(Head(ids)) \in Nat \X Nat
    BY <1>1, <1>2 DEF Answered
  <2>2. [role |-> "tool", ids |-> <<Answered(Head(ids))>>] \in Message
    BY <2>1 DEF Message
  <2>3. QED
    BY <1>1, <2>2 DEF Dispatch
<1>6. lastTurnStart' \in 0..Len(messages')
  <2>1. lastTurnStart \in 0..Len(messages) /\ Len(messages) \in Nat
    BY <1>1 DEF LoopInv, TypeOK
  <2>2. QED
    BY <1>5, <2>1 DEF Dispatch
<1>7. /\ MalformedAfter \in 0..MalformedLimit /\ IdenticalAfter \in 0..IdenticalLimit
  BY <1>1, AfterCall
<1>8. /\ malformedRun' \in 0..MalformedLimit /\ identicalRun' \in 0..IdenticalLimit
      /\ recent' \in Seq(Calls)
  <2>1. CASE Stop = "malformed_calls"
    BY <1>7, <2>1 DEF Dispatch, CountCall, LoopInv, TypeOK
  <2>2. CASE Stop # "malformed_calls"
    <3>1. malformedRun' = MalformedAfter /\ identicalRun' = IdenticalAfter /\ recent' = <<call>>
      BY <2>2 DEF Dispatch, CountCall
    <3>2. <<call>> \in Seq(Calls)
      BY <1>2
    <3>3. QED
      BY <1>7, <3>1, <3>2
  <2>3. QED
    BY <2>1, <2>2
<1>9. CASE Stop = "none"
  <2>1. /\ pc' = IF Tail(fragments) = <<>> THEN "top" ELSE "dispatch"
        /\ termination' = termination
        /\ fragments' = Tail(fragments)
        /\ UNCHANGED <<mode, late, steps, timed>>
    BY <1>9 DEF Dispatch
  <2>2. /\ malformedRun' = MalformedAfter /\ recent' = <<call>> /\ identicalRun' = IdenticalAfter
    BY <1>9 DEF Dispatch, CountCall
  <2>3. MalformedAfter < MalformedLimit /\ IdenticalAfter < IdenticalLimit
    BY <1>7, <1>9, LimitsPositive DEF Stop
  <2>4. TypeOK'
    BY <1>3, <1>4, <1>5, <1>6, <1>8, <2>1 DEF LoopInv, TypeOK, Message
  <2>5. CountersAgree'
    BY <1>1, <1>3, <2>2, AfterCall DEF CountersAgree
  <2>6. InLimits'
    BY <1>1, <2>1, <2>2, <2>3 DEF LoopInv, InLimits, Running
  <2>7. QED
    BY <2>4, <2>5, <2>6 DEF LoopInv
<1>10. CASE Stop # "none"
  <2>1. pc' = "ended" /\ termination' = Stop /\ UNCHANGED <<mode, late, steps, timed>>
    BY <1>10 DEF Dispatch, EndWith
  <2>2. Stop \in {"malformed_calls", "loop_detected"}
    BY <1>10 DEF Stop
  <2>3. TypeOK'
    BY <1>3, <1>4, <1>5, <1>6, <1>8, <2>1, <2>2 DEF LoopInv, TypeOK, Message
  <2>4. CountersAgree' /\ InLimits'
    BY <2>1 DEF LoopInv, CountersAgree, InLimits, Running
  <2>5. QED
    BY <2>3, <2>4 DEF LoopInv
<1>11. QED
  BY <1>9, <1>10

LEMMA StepLoop == LoopInv /\ [Next]_vars => LoopInv'
<1> SUFFICES ASSUME LoopInv, [Next]_vars PROVE LoopInv'
  OBVIOUS
<1> USE DEF conversation, turn, counters, sandbox
<1>0. /\ steps \in 0..MaxSteps /\ timed \in 0..MaxSteps /\ timed <= steps
      /\ pc = "asked" => steps < MaxSteps
  BY DEF LoopInv, TypeOK, InLimits
<1>1. CASE TimePasses
  <2>1. Running /\ UNCHANGED <<calls, recent, identicalRun, malformedRun>>
    BY <1>1 DEF TimePasses, Running
  <2>2. TypeOK' /\ InLimits'
    BY <1>1 DEF TimePasses, LoopInv, TypeOK, InLimits, Running
  <2>3. QED
    BY <2>1, <2>2, CountersUntouched DEF LoopInv
<1>2. CASE OutOfSteps
  BY <1>2 DEF OutOfSteps, LoopInv, TypeOK, CountersAgree, InLimits, Running
<1>3. CASE OutOfTime
  BY <1>3 DEF OutOfTime, EndWith, LoopInv, TypeOK, CountersAgree, InLimits, Running
<1>4. CASE Ask
  <2>1. Running /\ UNCHANGED <<calls, recent, identicalRun, malformedRun>>
    BY <1>4 DEF Ask, Running
  <2>2. TypeOK' /\ InLimits'
    BY <1>4 DEF Ask, LoopInv, TypeOK, InLimits, Running
  <2>3. QED
    BY <2>1, <2>2, CountersUntouched DEF LoopInv
<1>5. CASE ServerError
  <2>1. steps' \in 0..MaxSteps /\ timed <= steps'
    BY <1>0, <1>5, LimitsPositive DEF ServerError
  <2>2. QED
    BY <1>5, <2>1 DEF ServerError, EndWith, LoopInv, TypeOK, CountersAgree, InLimits, Running
<1>6. CASE ClientRaises
  BY <1>6 DEF ClientRaises, LoopInv, TypeOK, CountersAgree, InLimits, Running
<1>7. CASE Answers
  <2>1. steps' \in 0..MaxSteps /\ timed' \in 0..MaxSteps /\ timed' <= steps'
    BY <1>0, <1>7, LimitsPositive DEF Answers
  <2>2. QED
    BY <1>7, <2>1 DEF Answers, EndWith, LoopInv, TypeOK, CountersAgree, InLimits, Running
<1>8. CASE CallsTools
  <2>1. /\ steps' \in 0..MaxSteps /\ timed' \in 0..MaxSteps /\ timed' <= steps' /\ steps' > 0
    BY <1>0, <1>8, LimitsPositive DEF CallsTools
  <2>2. /\ pc = "asked" /\ pc' = "dispatch"
        /\ UNCHANGED <<mode, late, calls, recent, identicalRun, malformedRun, termination>>
    BY <1>8 DEF CallsTools
  <2>3. TypeOK'
    BY <1>8, <2>1, <2>2, TurnTyped DEF LoopInv, TypeOK, Message
  <2>4. CountersAgree'
    BY <2>2, CountersUntouched DEF LoopInv, Running
  <2>5. InLimits'
    BY <2>1, <2>2 DEF LoopInv, InLimits, Running
  <2>6. QED
    BY <2>3, <2>4, <2>5 DEF LoopInv
<1>9. CASE Dispatch
  BY <1>9, DispatchKeepsLoopInv
<1>10. CASE DispatchRaises
  BY <1>10 DEF DispatchRaises, LoopInv, TypeOK, CountersAgree, InLimits, Running
<1>11. CASE UNCHANGED vars
  BY <1>11 DEF vars, LoopInv, TypeOK, CountersAgree, InLimits, Running
<1>12. QED
  BY <1>1, <1>2, <1>3, <1>4, <1>5, <1>6, <1>7, <1>8, <1>9, <1>10, <1>11 DEF Next, Step

LEMMA LoopInvariant == Spec => []LoopInv
<1>1. QED
  BY InitLoop, StepLoop, PTL DEF Spec

\* Every variable is in its range in every state, whatever calls the model sends and
\* whatever the limits.
THEOREM TypeCorrect == Spec => []TypeOK
<1>1. LoopInv => TypeOK
  BY DEF LoopInv
<1>2. QED
  BY <1>1, LoopInvariant, PTL

\* The two counters count what they are named for, over turns cut short and across
\* turns, for any limits.
THEOREM CountersCount == Spec => []CountersAgree
<1>1. LoopInv => CountersAgree
  BY DEF LoopInv
<1>2. QED
  BY <1>1, LoopInvariant, PTL

-----------------------------------------------------------------------------
(* The table.                                                              *)

tableReason == IF pc = "ended" THEN termination ELSE "running"

LEMMA InitIsTables == Init => Table!TableInit
BY DEF Init, Table!TableInit

LEMMA StepIsTables ==
    LoopInv /\ [Next]_vars => [Table!TableNext]_<<steps, calls, tableReason>>
<1> SUFFICES ASSUME LoopInv, [Next]_vars
             PROVE  Table!TableNext \/ UNCHANGED <<steps, calls, tableReason>>
  OBVIOUS
<1> USE DEF conversation, turn, counters, sandbox, tableReason
<1>1. CASE TimePasses \/ Ask \/ ClientRaises \/ DispatchRaises
  BY <1>1 DEF TimePasses, Ask, ClientRaises, DispatchRaises
<1>2. CASE OutOfSteps
  <2>1. steps >= MaxSteps /\ steps \in Nat /\ termination = "max_steps"
    BY <1>2, LimitsPositive DEF OutOfSteps, LoopInv, TypeOK, InLimits, Running
  <2>2. Table!GiveUp
    BY <1>2, <2>1, LimitsPositive DEF OutOfSteps, Table!GiveUp
  <2>3. QED
    BY <1>2, <2>2 DEF OutOfSteps, Table!TableNext
<1>3. CASE OutOfTime
  <2>1. Table!GiveUp
    BY <1>3 DEF OutOfTime, EndWith, Table!GiveUp
  <2>2. QED
    BY <1>3, <2>1 DEF OutOfTime, Table!TableNext
<1>4. CASE ServerError \/ Answers \/ CallsTools
  <2>1. pc = "asked" /\ steps < MaxSteps /\ steps' = steps + 1 /\ UNCHANGED calls
    BY <1>4 DEF ServerError, Answers, CallsTools, LoopInv, InLimits
  <2>2. tableReason' \in {"running", "final_answer", "empty_answer", "server_error"}
    BY <1>4 DEF ServerError, Answers, CallsTools, EndWith
  <2>3. Table!TakeTurn
    BY <2>1, <2>2 DEF Table!TakeTurn
  <2>4. QED
    BY <2>1, <2>3 DEF Table!TableNext
<1>5. CASE Dispatch
  <2>1. /\ pc = "dispatch" /\ steps > 0 /\ call \in Calls
        /\ calls' = Append(calls, call) /\ UNCHANGED steps
    BY <1>5, CallTyped DEF Dispatch, LoopInv, InLimits
  <2>2. tableReason' = IF Stop = "none" THEN "running" ELSE Stop
    BY <1>5 DEF Dispatch, EndWith
  <2>3. tableReason' = Table!Verdict(calls')
    BY <2>1, <2>2, StopIsVerdict
  <2>4. Table!MakeCall
    BY <2>1, <2>3 DEF Table!MakeCall
  <2>5. QED
    BY <2>1, <2>4 DEF Table!TableNext
<1>6. CASE UNCHANGED vars
  BY <1>6 DEF vars
<1>7. QED
  BY <1>1, <1>2, <1>3, <1>4, <1>5, <1>6 DEF Next, Step

\* The loop with its counters implements the table over the whole run: it ends at the
\* first turn or call that calls for an end, for the reason the table gives.
THEOREM LoopImplementsTable == Spec => EndsByTable
<1>1. QED
  BY InitIsTables, StepIsTables, LoopInvariant, PTL
  DEF Spec, EndsByTable, Table!TableSpec, tableReason

(***************************************************************************)
(* What follows from the table alone, and so, by refinement, for the loop: *)
(* its steps are not looked at again.                                      *)
(***************************************************************************)
Evident == steps \in Nat /\ calls \in Seq(Calls) /\ Table!ReasonIsEvident

LEMMA NoVerdictYet == Table!Verdict(<<>>) = "running"
BY LimitsPositive DEF Table!Verdict, Table!AllInvalid, Table!Repeated

LEMMA InitEvident == Table!TableInit => Evident
<1> SUFFICES ASSUME Table!TableInit PROVE Evident
  OBVIOUS
<1>1. steps = 0 /\ calls = <<>> /\ tableReason = "running"
  BY DEF Table!TableInit, tableReason
<1>2. 0..(Len(calls) - 1) = {}
  BY <1>1
<1>3. QED
  BY <1>1, <1>2, NoVerdictYet, LimitsPositive DEF Evident, Table!ReasonIsEvident, tableReason

LEMMA StepEvident ==
    ASSUME Evident, [Table!TableNext]_<<steps, calls, tableReason>>
    PROVE  Evident'
<1> DEFINE named == {"malformed_calls", "loop_detected"}
<1>1. /\ steps \in Nat /\ calls \in Seq(Calls) /\ Len(calls) \in Nat
      /\ Table!Verdict(calls) = IF tableReason \in named THEN tableReason ELSE "running"
      /\ \A k \in 0..(Len(calls) - 1) : Table!Verdict(SubSeq(calls, 1, k)) = "running"
      /\ steps <= MaxSteps
      /\ tableReason = "max_steps" => steps = MaxSteps
      /\ tableReason = "timeout" => steps < MaxSteps
  BY DEF Evident, Table!ReasonIsEvident, tableReason
<1>2. SUFFICES
        /\ steps' \in Nat /\ calls' \in Seq(Calls)
        /\ Table!Verdict(calls') = IF tableReason' \in named THEN tableReason' ELSE "running"
        /\ \A k \in 0..(Len(calls') - 1) : Table!Verdict(SubSeq(calls', 1, k)) = "running"
        /\ steps' <= MaxSteps
        /\ tableReason' = "max_steps" => steps' = MaxSteps
        /\ tableReason' = "timeout" => steps' < MaxSteps
  BY DEF Evident, Table!ReasonIsEvident, tableReason, Table!Verdict, Table!AllInvalid,
         Table!Repeated, InvalidCalls
<1>3. CASE UNCHANGED <<steps, calls, tableReason>>
  BY <1>1, <1>3
<1>4. CASE tableReason = "running" /\ Table!TakeTurn
  <2>1. /\ steps < MaxSteps /\ steps' = steps + 1 /\ calls' = calls
        /\ tableReason' \in {"running", "final_answer", "empty_answer", "server_error"}
    BY <1>4 DEF Table!TakeTurn, tableReason
  <2>2. QED
    BY <1>1, <1>4, <2>1, LimitsPositive
<1>5. CASE tableReason = "running" /\ Table!GiveUp
  <2>1. /\ steps' = steps /\ calls' = calls
        /\ tableReason' = IF steps < MaxSteps THEN "timeout" ELSE "max_steps"
    BY <1>5 DEF Table!GiveUp, tableReason
  <2>2. QED
    BY <1>1, <1>5, <2>1, LimitsPositive
<1>6. CASE tableReason = "running" /\ Table!MakeCall
  <2>1. PICK c \in Calls : calls' = Append(calls, c)
    BY <1>6 DEF Table!MakeCall
  <2>2. /\ steps' = steps /\ tableReason' = Table!Verdict(calls')
    BY <1>6 DEF Table!MakeCall, Table!Verdict, Table!AllInvalid, Table!Repeated, InvalidCalls,
                tableReason
  <2>3. Table!Verdict(calls') \in named \cup {"running"}
    BY DEF Table!Verdict
  <2>4. calls' \in Seq(Calls) /\ Len(calls') = Len(calls) + 1
    BY <1>1, <2>1
  <2>5. ASSUME NEW k \in 0..Len(calls) PROVE SubSeq(calls', 1, k) = SubSeq(calls, 1, k)
    BY <1>1, <2>1
  <2>6. SubSeq(calls, 1, Len(calls)) = calls
    BY <1>1
  <2>7. ASSUME NEW k \in 0..(Len(calls') - 1)
        PROVE  Table!Verdict(SubSeq(calls', 1, k)) = "running"
    <3>1. k \in 0..Len(calls)
      BY <1>1, <2>4
    <3>2. k \in 0..(Len(calls) - 1) \/ k = Len(calls)
      BY <1>1, <3>1
    <3>3. QED
      BY <1>1, <1>6, <2>5, <2>6, <3>1, <3>2
  <2>8. QED
    BY <1>1, <1>6, <2>2, <2>3, <2>4, <2>7
<1>7. QED
  BY <1>3, <1>4, <1>5, <1>6 DEF Table!TableNext, tableReason

\* The reason of a native run and its transcript agree, for any limits and calls: a run
\* that reports loop_detected or malformed_calls ends with just such calls and no earlier
\* call was such an end, any other run never met one, max_steps has used up the turns and
\* timeout has not.  It follows from the table, which the loop implements.
THEOREM ReasonsAreEvident == Spec => []Table!ReasonIsEvident
<1>1. EndsByTable => []Evident
  BY InitEvident, StepEvident, PTL DEF EndsByTable, Table!TableSpec, tableReason
<1>2. Evident => Table!ReasonIsEvident
  BY DEF Evident
<1>3. QED
  BY <1>1, <1>2, LoopImplementsTable, PTL
-----------------------------------------------------------------------------
(***************************************************************************)
(* The figures of the record.  Messages are only ever appended, so the     *)
(* number of a role grows by one with each message of that role.           *)
(***************************************************************************)
LEMMA NumberedAfterAppend ==
    ASSUME NEW x \in Message, messages \in Seq(Message), messages' = Append(messages, x),
           NEW role
    PROVE  /\ Numbered(role) \in Nat
           /\ Numbered(role)' = Numbered(role) + IF x.role = role THEN 1 ELSE 0
<1> DEFINE n    == Len(messages)
           had  == {i \in 1..n : messages[i].role = role}
           has  == {i \in 1..(n + 1) : messages'[i].role = role}
<1>1. /\ n \in Nat /\ DOMAIN messages = 1..n /\ DOMAIN messages' = 1..(n + 1)
      /\ messages'[n + 1] = x
      /\ \A i \in 1..n : messages'[i] = messages[i]
  OBVIOUS
<1>2. Numbered(role) = Cardinality(had) /\ Numbered(role)' = Cardinality(has)
  BY <1>1 DEF Numbered
<1> HIDE DEF n
<1>3. IsFiniteSet(had) /\ Cardinality(had) \in Nat
  <2>1. IsFiniteSet(1..n)
    BY <1>1, FS_Interval
  <2>2. had \subseteq 1..n
    OBVIOUS
  <2>3. QED
    BY <2>1, <2>2, FS_Subset, FS_CardinalityType
<1>4. has = IF x.role = role THEN had \cup {n + 1} ELSE had
  <2>1. \A i : i \in 1..(n + 1) <=> i \in 1..n \/ i = n + 1
    BY <1>1
  <2>2. QED
    BY <1>1, <2>1
<1>5. n + 1 \notin had
  BY <1>1
<1> HIDE DEF had, has
<1>6. CASE x.role = role
  BY <1>2, <1>3, <1>4, <1>5, <1>6, FS_AddElement
<1>7. CASE x.role # role
  BY <1>2, <1>3, <1>4, <1>7
<1>8. QED
  BY <1>6, <1>7

LEMMA WhileRunning ==
    ASSUME RecordAddsUp, LoopInv, pc # "ended"
    PROVE  steps = Numbered("assistant") /\ timed = steps /\ Numbered("tool") = Len(calls)
<1>1. messages \in Seq(Message) /\ steps \in Nat
  BY LimitsPositive DEF LoopInv, TypeOK, Message
<1> DEFINE turns == {i \in DOMAIN messages : messages[i].role = "assistant"}
<1>2. Numbered("assistant") \in Nat
  <2>1. IsFiniteSet(1..Len(messages)) /\ turns \subseteq 1..Len(messages)
    BY <1>1, FS_Interval
  <2>2. QED
    BY <2>1, FS_Subset, FS_CardinalityType DEF Numbered
<1>3. QED
  BY <1>1, <1>2 DEF RecordAddsUp

\* A step that adds no message and does not end the run counts nothing.
LEMMA NothingCounted ==
    ASSUME RecordAddsUp, pc # "ended", UNCHANGED <<messages, calls, steps, timed>>,
           pc' # "ended" \/ termination' \notin {"final_answer", "empty_answer", "server_error"}
    PROVE  RecordAddsUp'
BY DEF RecordAddsUp, Numbered

LEMMA InitAddsUp == Init => RecordAddsUp
<1> SUFFICES ASSUME Init PROVE RecordAddsUp
  OBVIOUS
<1>1. /\ pc = "top" /\ steps = 0 /\ timed = 0 /\ Len(calls) = 0
      /\ DOMAIN messages = {1, 2}
      /\ messages[1].role = "system" /\ messages[2].role = "user"
  BY DEF Init
<1>2. {i \in DOMAIN messages : messages[i].role = "assistant"} = {}
      /\ {i \in DOMAIN messages : messages[i].role = "tool"} = {}
  BY <1>1
<1>3. Numbered("assistant") = 0 /\ Numbered("tool") = 0
  BY <1>2, FS_EmptySet DEF Numbered
<1>4. QED
  BY <1>1, <1>3 DEF RecordAddsUp

LEMMA StepAddsUp == LoopInv /\ RecordAddsUp /\ [Next]_vars => RecordAddsUp'
<1> SUFFICES ASSUME LoopInv, RecordAddsUp, [Next]_vars PROVE RecordAddsUp'
  OBVIOUS
<1> USE DEF conversation, turn, counters, sandbox
<1>1. /\ messages \in Seq(Message) /\ steps \in Nat /\ timed \in Nat /\ calls \in Seq(Calls)
      /\ Running => termination = "max_steps"
  BY LimitsPositive DEF LoopInv, TypeOK, InLimits, Message
<1>2. CASE TimePasses \/ OutOfSteps \/ OutOfTime \/ Ask \/ ClientRaises \/ DispatchRaises
  BY <1>1, <1>2, NothingCounted
     DEF TimePasses, OutOfSteps, OutOfTime, Ask, ClientRaises, DispatchRaises, EndWith, Running
<1>3. CASE ServerError
  <2>1. /\ pc = "asked" /\ steps' = steps + 1 /\ pc' = "ended" /\ termination' = "server_error"
        /\ UNCHANGED <<timed, messages, calls>>
    BY <1>3 DEF ServerError, EndWith
  <2>2. Numbered("assistant")' = Numbered("assistant") /\ Numbered("tool")' = Numbered("tool")
    BY <2>1 DEF Numbered
  <2>3. steps = Numbered("assistant") /\ timed = steps /\ Numbered("tool") = Len(calls)
    BY <2>1, WhileRunning
  <2>4. QED
    BY <1>1, <2>1, <2>2, <2>3 DEF RecordAddsUp
<1>4. CASE Answers
  <2>1. /\ pc = "asked" /\ steps' = steps + 1 /\ timed' = timed + 1 /\ pc' = "ended"
        /\ termination' \in {"final_answer", "empty_answer"}
        /\ UNCHANGED <<messages, calls>>
    BY <1>4 DEF Answers, EndWith
  <2>2. Numbered("assistant")' = Numbered("assistant") /\ Numbered("tool")' = Numbered("tool")
    BY <2>1 DEF Numbered
  <2>3. steps = Numbered("assistant") /\ timed = steps /\ Numbered("tool") = Len(calls)
    BY <2>1, WhileRunning
  <2>4. QED
    BY <1>1, <2>1, <2>2, <2>3 DEF RecordAddsUp
<1>5. CASE CallsTools
  <2>1. /\ pc = "asked" /\ steps' = steps + 1 /\ timed' = timed + 1 /\ pc' = "dispatch"
        /\ calls' = calls
    BY <1>5 DEF CallsTools
  <2>2. PICK x \in Message : messages' = Append(messages, x) /\ x.role = "assistant"
    BY <1>5, TurnTyped
  <2>3. /\ Numbered("assistant")' = Numbered("assistant") + 1
        /\ Numbered("tool")' = Numbered("tool")
        /\ Numbered("tool") \in Nat
    BY <1>1, <2>2, NumberedAfterAppend
  <2>4. steps = Numbered("assistant") /\ timed = steps /\ Numbered("tool") = Len(calls)
    BY <2>1, WhileRunning
  <2>5. QED
    BY <1>1, <2>1, <2>3, <2>4 DEF RecordAddsUp
<1>6. CASE Dispatch
  <2>1. /\ pc = "dispatch" /\ steps' = steps /\ timed' = timed
        /\ pc' = "ended" => termination' \in {"malformed_calls", "loop_detected"}
    BY <1>6 DEF Dispatch, EndWith, Stop
  <2>2. Len(calls') = Len(calls) + 1 /\ Len(calls) \in Nat
    BY <1>1, <1>6, <2>1, CallTyped DEF Dispatch
  <2>3. PICK x \in Message : messages' = Append(messages, x) /\ x.role = "tool"
    <3>1. Answered(Head(ids)) \in Nat \X Nat
      BY <1>1, <2>1, CallTyped DEF Answered
    <3>2. [role |-> "tool", ids |-> <<Answered(Head(ids))>>] \in Message
      BY <3>1 DEF Message
    <3>3. QED
      BY <1>6, <3>2 DEF Dispatch
  <2>4. /\ Numbered("assistant")' = Numbered("assistant")
        /\ Numbered("tool")' = Numbered("tool") + 1
        /\ Numbered("assistant") \in Nat
    BY <1>1, <2>3, NumberedAfterAppend
  <2>5. steps = Numbered("assistant") /\ timed = steps /\ Numbered("tool") = Len(calls)
    BY <2>1, WhileRunning
  <2>6. QED
    BY <1>1, <2>1, <2>2, <2>4, <2>5 DEF RecordAddsUp
<1>7. CASE UNCHANGED vars
  BY <1>7 DEF vars, RecordAddsUp, Numbered
<1>8. QED
  BY <1>2, <1>3, <1>4, <1>5, <1>6, <1>7 DEF Next, Step

\* The steps, the timed turns and the calls of a record agree with its transcript,
\* however the run ended (the run's invariant RecordAddsUp).
THEOREM RecordsAddUp == Spec => []RecordAddsUp
<1>1. LoopInv /\ [Next]_vars /\ RecordAddsUp => RecordAddsUp'
  BY StepAddsUp
<1>2. QED
  BY <1>1, InitAddsUp, LoopInvariant, PTL DEF Spec
-----------------------------------------------------------------------------
(***************************************************************************)
(* Requests.  Between two turns the conversation is a sequence of          *)
(* exchanges, an assistant message with the answers to its calls in order; *)
(* while a turn is being dispatched its last exchange lacks the answers to *)
(* the calls still in ids.  This needs a server that numbers its calls:    *)
(* MissingIds = FALSE.                                                     *)
(***************************************************************************)
Exchange(m, i) ==
    IF m[i].role = "assistant"
    THEN \A k \in DOMAIN m[i].ids :
            /\ i + k <= Len(m)
            /\ m[i + k] = [role |-> "tool", ids |-> <<m[i].ids[k]>>]
    ELSE \E j \in 3..(i - 1) :
            /\ m[j].role = "assistant"
            /\ i <= j + Len(m[j].ids)

Asked == messages[lastTurnStart].ids

LastTurn ==
    /\ lastTurnStart \in 3..Len(messages)
    /\ messages[lastTurnStart].role = "assistant"
    /\ lastTurnStart + Len(Asked) = Len(messages) + Len(ids)
    /\ \A k \in 1..Len(ids) : Asked[(Len(messages) - lastTurnStart) + k] = ids[k]
    /\ \A k \in 1..(Len(messages) - lastTurnStart) :
          messages[lastTurnStart + k] = [role |-> "tool", ids |-> <<Asked[k]>>]

TurnInv ==
    /\ Len(messages) >= 2
    /\ messages[1].role = "system" /\ messages[2].role = "user"
    /\ \A k \in 1..Len(ids) : ids[k] # NoId
    /\ pc \in {"top", "asked"} => ids = <<>>
    /\ lastTurnStart = 0 => Len(messages) = 2 /\ ids = <<>>
    /\ lastTurnStart # 0 => LastTurn
    /\ \A i \in 3..(lastTurnStart - 1) : Exchange(messages, i)

LEMMA MessageAppended ==
    ASSUME NEW x \in Message, messages \in Seq(Message), messages' = Append(messages, x)
    PROVE  /\ Len(messages') = Len(messages) + 1 /\ Len(messages) \in Nat
           /\ messages'[Len(messages) + 1] = x
           /\ \A i \in 1..Len(messages) : messages'[i] = messages[i]
OBVIOUS

LEMMA ExchangeKept ==
    ASSUME NEW m \in Seq(Message), NEW t, Len(t) = Len(m) + 1,
           \A i \in 1..Len(m) : t[i] = m[i],
           NEW i \in 3..Len(m), Exchange(m, i)
    PROVE  Exchange(t, i)
<1>1. Len(m) \in Nat /\ i \in 1..Len(m)
  OBVIOUS
<1>2. t[i] = m[i] /\ m[i] \in Message
  BY <1>1, ElementOfSeq
<1>3. CASE m[i].role = "assistant"
  <2>1. ASSUME NEW k \in DOMAIN m[i].ids
        PROVE  i + k <= Len(t) /\ t[i + k] = [role |-> "tool", ids |-> <<m[i].ids[k]>>]
    <3>1. k \in Nat
      <4>1. m[i].ids \in Seq(Nat \X Nat)
        BY <1>2 DEF Message
      <4>2. QED
        BY <4>1
    <3>2. i + k <= Len(m) /\ m[i + k] = [role |-> "tool", ids |-> <<m[i].ids[k]>>]
      BY <1>3 DEF Exchange
    <3>3. i + k \in 1..Len(m)
      BY <1>1, <3>1, <3>2
    <3>4. QED
      BY <1>1, <3>2, <3>3
  <2>2. QED
    BY <1>2, <1>3, <2>1 DEF Exchange
<1>4. CASE m[i].role # "assistant"
  <2>1. PICK j \in 3..(i - 1) : m[j].role = "assistant" /\ i <= j + Len(m[j].ids)
    BY <1>4 DEF Exchange
  <2>2. t[j] = m[j]
    BY <1>1, <2>1
  <2>3. QED
    BY <1>2, <1>4, <2>1, <2>2 DEF Exchange
<1>5. QED
  BY <1>3, <1>4

\* Once a turn's calls are all answered, its messages are exchanges like the rest.
LEMMA AllExchanges ==
    ASSUME LoopInv, TurnInv, ids = <<>>
    PROVE  \A i \in 3..Len(messages) : Exchange(messages, i)
<1>1. messages \in Seq(Message) /\ Len(messages) \in Nat /\ Len(ids) = 0
  BY DEF LoopInv, TypeOK, Message
<1>2. CASE lastTurnStart = 0
  <2>1. Len(messages) = 2
    BY <1>2 DEF TurnInv
  <2>2. 3..Len(messages) = {}
    BY <2>1
  <2>3. QED
    BY <2>2
<1>3. CASE lastTurnStart # 0
  <2> DEFINE L == lastTurnStart
             n == Len(messages) - L
  <2>1. /\ L \in 3..Len(messages) /\ messages[L].role = "assistant" /\ Len(Asked) = n
        /\ \A k \in 1..n : messages[L + k] = [role |-> "tool", ids |-> <<Asked[k]>>]
    BY <1>1, <1>3 DEF TurnInv, LastTurn
  <2>2. DOMAIN Asked = 1..n
    <3>1. messages[L] \in Message
      BY <1>1, <2>1
    <3>2. Asked \in Seq(Nat \X Nat)
      BY <3>1 DEF Message, Asked
    <3>3. QED
      BY <2>1, <3>2
  <2>3. Exchange(messages, L)
    BY <1>1, <2>1, <2>2 DEF Exchange, Asked
  <2>4. ASSUME NEW i \in 3..Len(messages), i > L PROVE Exchange(messages, i)
    <3>1. i - L \in 1..n /\ L + (i - L) = i
      BY <1>1, <2>1, <2>4
    <3>2. messages[i].role = "tool"
      <4>1. PICK k \in 1..n : k = i - L
        BY <3>1
      <4>2. messages[L + k] = [role |-> "tool", ids |-> <<Asked[k]>>]
        BY <2>1
      <4>3. L + k = i
        BY <2>1, <3>1, <4>1
      <4>4. messages[L + k].role = "tool"
        BY <4>2
      <4>5. QED
        BY <4>3, <4>4
    <3>3. L \in 3..(i - 1) /\ i <= L + Len(messages[L].ids)
      BY <1>1, <2>1, <2>4, <3>1 DEF Asked
    <3>4. QED
      BY <2>1, <3>2, <3>3 DEF Exchange
  <2>5. QED
    BY <1>1, <2>1, <2>3, <2>4 DEF TurnInv
<1>4. QED
  BY <1>2, <1>3

LEMMA InitTurns == Init => TurnInv
<1> SUFFICES ASSUME Init PROVE TurnInv
  OBVIOUS
<1>1. Len(messages) = 2 /\ messages[1].role = "system" /\ messages[2].role = "user"
  BY DEF Init
<1>2. ids = <<>> /\ Len(ids) = 0 /\ lastTurnStart = 0
  BY DEF Init
<1>3. QED
  BY <1>1, <1>2 DEF TurnInv

LEMMA TurnsUntouched ==
    ASSUME TurnInv, UNCHANGED <<messages, ids, lastTurnStart>>,
           pc' \in {"top", "asked"} => pc \in {"top", "asked"}
    PROVE  TurnInv'
BY DEF TurnInv, LastTurn, Asked, Exchange

LEMMA CallsToolsKeepsTurns ==
    ASSUME MissingIds = FALSE, LoopInv, TurnInv, CallsTools
    PROVE  TurnInv'
<1>1. /\ pc = "asked" /\ pc' = "dispatch" /\ lastTurnStart' = Len(messages) + 1
      /\ ids = <<>>
  BY DEF CallsTools, TurnInv
<1>2. PICK x \in Message : /\ messages' = Append(messages, x) /\ x.role = "assistant"
                           /\ x.ids = [i \in 1..Len(ids') |-> Replayed(ids'[i], i)]
  BY TurnTyped
<1>3. /\ Len(messages') = Len(messages) + 1 /\ Len(messages) \in Nat
      /\ messages'[Len(messages) + 1] = x
      /\ \A i \in 1..Len(messages) : messages'[i] = messages[i]
      /\ messages \in Seq(Message)
  <2>1. messages \in Seq(Message)
    BY DEF LoopInv, TypeOK, Message
  <2>2. QED
    BY <1>2, <2>1, MessageAppended
<1>4. ids' \in Seq(Nat \X Nat) /\ Len(ids') \in Nat
  BY TurnTyped
<1>5. \A k \in 1..Len(ids') : ids'[k] # NoId
  <2>1. PICK n \in 1..MaxFragments : ids' = [i \in 1..n |-> <<steps + 1, i>>]
    BY DEF CallsTools
  <2>2. Len(ids') = n /\ n \in Nat
    BY <2>1, LoopAssumption
  <2>3. QED
    BY <2>1, <2>2 DEF NoId
<1>6. /\ Len(x.ids) = Len(ids')
      /\ \A k \in 1..Len(ids') : x.ids[k] = ids'[k]
  BY <1>2, <1>4, <1>5 DEF Replayed
<1>7. Len(messages) >= 2 /\ messages[1].role = "system" /\ messages[2].role = "user"
  BY DEF TurnInv
<1>8. LastTurn'
  <2>1. messages'[lastTurnStart'] = x /\ Len(messages') = lastTurnStart'
    BY <1>1, <1>3
  <2>2. lastTurnStart' \in 3..Len(messages')
    BY <1>1, <1>3, <1>7
  <2>3. lastTurnStart' + Len(x.ids) = Len(messages') + Len(ids')
    BY <1>6, <2>1
  <2>4. \A k \in 1..Len(ids') : x.ids[(Len(messages') - lastTurnStart') + k] = ids'[k]
    BY <1>3, <1>6, <2>1
  <2>5. 1..(Len(messages') - lastTurnStart') = {}
    BY <1>3, <2>1
  <2>6. QED
    BY <1>2, <2>1, <2>2, <2>3, <2>4, <2>5 DEF LastTurn, Asked
<1>9. \A i \in 3..(lastTurnStart' - 1) : Exchange(messages', i)
  <2> SUFFICES ASSUME NEW i \in 3..Len(messages) PROVE Exchange(messages', i)
    BY <1>1, <1>3
  <2>1. Exchange(messages, i)
    BY <1>1, AllExchanges
  <2>2. QED
    BY <1>3, <2>1, ExchangeKept
<1>10. lastTurnStart' # 0
  BY <1>1, <1>3
<1>11. Len(messages') >= 2 /\ messages'[1].role = "system" /\ messages'[2].role = "user"
  BY <1>3, <1>7
<1>12. QED
  BY <1>1, <1>5, <1>8, <1>9, <1>10, <1>11 DEF TurnInv, Exchange

LEMMA DispatchKeepsTurns ==
    ASSUME LoopInv, TurnInv, Dispatch
    PROVE  TurnInv'
<1>1. /\ pc = "dispatch" /\ ids' = Tail(ids) /\ lastTurnStart' = lastTurnStart
      /\ fragments' = Tail(fragments)
      /\ messages' = Append(messages, [role |-> "tool", ids |-> <<Answered(Head(ids))>>])
      /\ pc' \in {"top", "asked"} => Tail(fragments) = <<>>
  BY DEF Dispatch, EndWith
<1>2. /\ messages \in Seq(Message) /\ ids \in Seq(Nat \X Nat) /\ fragments \in Seq(Calls)
      /\ Len(ids) = Len(fragments) /\ fragments # <<>>
  BY <1>1 DEF LoopInv, TypeOK, Message
<1>3. /\ Len(ids) \in Nat /\ Len(ids) > 0 /\ Head(ids) = ids[1]
      /\ ids' \in Seq(Nat \X Nat) /\ Len(ids') = Len(ids) - 1
      /\ \A k \in 1..Len(ids') : ids'[k] = ids[k + 1]
  BY <1>1, <1>2
<1>4. Answered(Head(ids)) = ids[1] /\ ids[1] \in Nat \X Nat
  BY <1>2, <1>3 DEF TurnInv, Answered
<1> DEFINE x == [role |-> "tool", ids |-> <<ids[1]>>]
<1>5. x \in Message
  BY <1>4 DEF Message
<1>6. /\ Len(messages') = Len(messages) + 1 /\ Len(messages) \in Nat
      /\ messages'[Len(messages) + 1] = x
      /\ \A i \in 1..Len(messages) : messages'[i] = messages[i]
  <2>1. messages' = Append(messages, x) /\ messages \in Seq(Message)
    BY <1>1, <1>2, <1>4
  <2> HIDE DEF x
  <2>2. QED
    BY <1>5, <2>1, MessageAppended
<1>7. lastTurnStart # 0 /\ LastTurn
  <2>1. ids # <<>>
    BY <1>2, <1>3
  <2>2. QED
    BY <2>1 DEF TurnInv
<1>8. /\ lastTurnStart \in 3..Len(messages) /\ Asked' = Asked
      /\ messages'[lastTurnStart] = messages[lastTurnStart]
  <2>1. lastTurnStart \in 3..Len(messages)
    BY <1>7 DEF LastTurn
  <2>2. messages'[lastTurnStart] = messages[lastTurnStart]
    BY <1>6, <2>1
  <2>3. QED
    BY <1>1, <2>1, <2>2 DEF Asked
<1> DEFINE L == lastTurnStart
           n == Len(messages) - L
<1>9. /\ n \in Nat /\ L \in Nat /\ L + n = Len(messages)
      /\ Len(messages') - L = n + 1
  BY <1>6, <1>8
<1>10. LastTurn'
  <2>1. L \in 3..Len(messages') /\ messages'[L].role = "assistant"
    BY <1>6, <1>7, <1>8 DEF LastTurn
  <2>2. L + Len(Asked) = Len(messages') + Len(ids')
    <3>1. L + Len(Asked) = Len(messages) + Len(ids)
      BY <1>7 DEF LastTurn
    <3>2. Len(messages) + Len(ids) = Len(messages') + Len(ids')
      BY <1>3, <1>6
    <3>3. QED
      BY <3>1, <3>2
  <2>3. \A k \in 1..Len(ids) : Asked[n + k] = ids[k]
    BY <1>7 DEF LastTurn
  <2>4. \A k \in 1..n : messages[L + k] = [role |-> "tool", ids |-> <<Asked[k]>>]
    BY <1>7 DEF LastTurn
  <2> HIDE DEF n
  <2>5. ASSUME NEW k \in 1..Len(ids') PROVE Asked[(n + 1) + k] = ids'[k]
    <3>1. k + 1 \in 1..Len(ids) /\ n + (k + 1) = (n + 1) + k
      BY <1>3, <1>9
    <3>2. QED
      BY <1>3, <2>3, <3>1
  <2>6. ASSUME NEW k \in 1..(n + 1)
        PROVE  messages'[L + k] = [role |-> "tool", ids |-> <<Asked[k]>>]
    <3>1. CASE k = n + 1
      <4>1. L + k = Len(messages) + 1
        BY <1>9, <3>1
      <4>2. Asked[n + 1] = ids[1]
        BY <1>3, <2>3
      <4>3. QED
        BY <1>6, <3>1, <4>1, <4>2
    <3>2. CASE k # n + 1
      <4>1. k \in 1..n /\ L + k \in 1..Len(messages)
        BY <1>9, <3>2
      <4>2. QED
        BY <1>6, <2>4, <4>1
    <3>3. QED
      BY <3>1, <3>2
  <2>7. QED
    BY <1>1, <1>8, <1>9, <2>1, <2>2, <2>5, <2>6 DEF LastTurn
<1>11. \A i \in 3..(L - 1) : Exchange(messages', i)
  <2> TAKE i \in 3..(L - 1)
  <2>1. Exchange(messages, i) /\ i \in 3..Len(messages)
    BY <1>6, <1>8 DEF TurnInv
  <2>2. QED
    BY <1>2, <1>6, <2>1, ExchangeKept
<1>12. Len(messages') >= 2 /\ messages'[1].role = "system" /\ messages'[2].role = "user"
  BY <1>6 DEF TurnInv
<1>13. \A k \in 1..Len(ids') : ids'[k] # NoId
  <2>1. \A k \in 1..Len(ids') : k + 1 \in 1..Len(ids)
    BY <1>3
  <2>2. QED
    BY <1>3, <2>1 DEF TurnInv
<1>14. pc' \in {"top", "asked"} => ids' = <<>>
  BY <1>1, <1>2, <1>3
<1>15. QED
  BY <1>1, <1>7, <1>10, <1>11, <1>12, <1>13, <1>14 DEF TurnInv, Exchange

LEMMA StepTurns == MissingIds = FALSE /\ LoopInv /\ TurnInv /\ [Next]_vars => TurnInv'
<1> SUFFICES ASSUME MissingIds = FALSE, LoopInv, TurnInv, [Next]_vars PROVE TurnInv'
  OBVIOUS
<1> USE DEF conversation, turn, counters, sandbox
<1>1. CASE TimePasses \/ OutOfSteps \/ OutOfTime \/ Ask \/ ServerError \/ ClientRaises
           \/ Answers \/ DispatchRaises
  BY <1>1, TurnsUntouched
     DEF TimePasses, OutOfSteps, OutOfTime, Ask, ServerError, ClientRaises, Answers,
         DispatchRaises, EndWith
<1>2. CASE CallsTools
  BY <1>2, CallsToolsKeepsTurns
<1>3. CASE Dispatch
  BY <1>3, DispatchKeepsTurns
<1>4. CASE UNCHANGED vars
  BY <1>4, TurnsUntouched DEF vars
<1>5. QED
  BY <1>1, <1>2, <1>3, <1>4 DEF Next, Step

LEMMA AssistantWithItsAnswers ==
    ASSUME NEW s, NEW n \in Nat, Len(s) = n + 3,
           s[3].role = "assistant", DOMAIN s[3].ids = 1..n, Len(s[3].ids) = n,
           \A k \in 1..n : s[3 + k] = [role |-> "tool", ids |-> <<s[3].ids[k]>>]
    PROVE  \A i \in 3..Len(s) : Exchange(s, i)
<1>1. Exchange(s, 3)
  BY DEF Exchange
<1>2. ASSUME NEW i \in 3..Len(s), i # 3 PROVE Exchange(s, i)
  <2>1. i - 3 \in 1..n /\ 3 + (i - 3) = i
    BY <1>2
  <2>2. s[i].role = "tool"
    <3>1. PICK k \in 1..n : k = i - 3
      BY <2>1
    <3>2. s[3 + k] = [role |-> "tool", ids |-> <<s[3].ids[k]>>]
      OBVIOUS
    <3>3. 3 + k = i
      BY <2>1, <3>1
    <3>4. s[3 + k].role = "tool"
      BY <3>2
    <3>5. QED
      BY <3>3, <3>4
  <2>3. 3 \in 3..(i - 1) /\ i <= 3 + Len(s[3].ids)
    BY <2>1
  <2>4. QED
    BY <2>1, <2>2, <2>3 DEF Exchange
<1>3. QED
  BY <1>1, <1>2

LEMMA PromptAndRest ==
    ASSUME NEW front \in Seq(Message), NEW back \in Seq(Message), Len(front) = 2
    PROVE  /\ Len(front \o back) = 2 + Len(back) /\ Len(back) \in Nat
           /\ (front \o back)[1] = front[1] /\ (front \o back)[2] = front[2]
           /\ \A k \in 1..Len(back) : (front \o back)[2 + k] = back[k]
<1>1. /\ Len(front \o back) = 2 + Len(back) /\ Len(back) \in Nat
      /\ \A i \in 1..(2 + Len(back)) :
            (front \o back)[i] = IF i <= 2 THEN front[i] ELSE back[i - 2]
  <2>1. Len(back) \in Nat
    BY LenProperties
  <2>2. /\ Len(front \o back) = Len(front) + Len(back)
        /\ \A i \in 1..(Len(front) + Len(back)) :
              (front \o back)[i] = IF i <= Len(front) THEN front[i]
                                   ELSE back[i - Len(front)]
    BY ConcatProperties
  <2>3. QED
    BY <2>1, <2>2
<1> DEFINE len == Len(back)
           all == front \o back
<1> HIDE DEF len, all
<1>2. len \in Nat /\ \A i \in 1..(2 + len) : all[i] = IF i <= 2 THEN front[i] ELSE back[i - 2]
  BY <1>1 DEF len, all
<1>3. all[1] = front[1] /\ all[2] = front[2]
  BY <1>2
<1>4. ASSUME NEW k \in 1..len PROVE all[2 + k] = back[k]
  <2>1. 2 + k \in 1..(2 + len) /\ ~(2 + k <= 2) /\ (2 + k) - 2 = k
    BY <1>2
  <2>2. QED
    BY <1>2, <2>1
<1>5. QED
  BY <1>1, <1>3, <1>4 DEF len, all

LEMMA RestOf ==
    ASSUME NEW m \in Seq(Message), NEW from \in 3..Len(m)
    PROVE  /\ SubSeq(m, 1, 2) \in Seq(Message) /\ Len(SubSeq(m, 1, 2)) = 2
           /\ SubSeq(m, 1, 2)[1] = m[1] /\ SubSeq(m, 1, 2)[2] = m[2]
           /\ SubSeq(m, from, Len(m)) \in Seq(Message)
           /\ Len(SubSeq(m, from, Len(m))) = Len(m) - from + 1
           /\ \A k \in 1..(Len(m) - from + 1) :
                 SubSeq(m, from, Len(m))[k] = m[from + k - 1]
<1>1. Len(m) \in Nat /\ from \in 1..Len(m) /\ 2 <= Len(m)
  OBVIOUS
<1>2. QED
  BY <1>1

\* What compact history sends: the prompt and the last turn, which is one exchange.
LEMMA CompactIsAnExchange ==
    ASSUME LoopInv, TurnInv, ids = <<>>, lastTurnStart # 0,
           Sent = SubSeq(messages, 1, 2) \o SubSeq(messages, lastTurnStart, Len(messages))
    PROVE  /\ Sent[1].role = "system" /\ Sent[2].role = "user"
           /\ \A i \in 3..Len(Sent) : Exchange(Sent, i)
<1> DEFINE L == lastTurnStart
           n == Len(messages) - L
           front == SubSeq(messages, 1, 2)
           back  == SubSeq(messages, L, Len(messages))
<1>1. messages \in Seq(Message) /\ Len(messages) \in Nat /\ Len(ids) = 0
  BY DEF LoopInv, TypeOK, Message
<1>2. LastTurn
  BY DEF TurnInv
<1>3. /\ L \in 3..Len(messages) /\ messages[L].role = "assistant" /\ Len(Asked) = n
      /\ \A k \in 1..n : messages[L + k] = [role |-> "tool", ids |-> <<Asked[k]>>]
  BY <1>1, <1>2 DEF LastTurn
<1>4. n \in Nat /\ L \in Nat
  BY <1>1, <1>3
<1>5. DOMAIN Asked = 1..n
  <2>1. messages[L] \in Message
    BY <1>1, <1>3
  <2>2. Asked \in Seq(Nat \X Nat)
    BY <2>1 DEF Message, Asked
  <2>3. QED
    BY <1>3, <2>2
<1>6. /\ front \in Seq(Message) /\ Len(front) = 2
      /\ front[1] = messages[1] /\ front[2] = messages[2]
      /\ back \in Seq(Message) /\ Len(back) = n + 1
      /\ \A k \in 1..(n + 1) : back[k] = messages[L + k - 1]
  BY <1>1, <1>3, RestOf
<1>7. Sent = front \o back
  OBVIOUS
<1> HIDE DEF n, front, back
<1>8. /\ Len(Sent) = 2 + (n + 1)
      /\ Sent[1] = messages[1] /\ Sent[2] = messages[2]
      /\ \A k \in 1..(n + 1) : Sent[2 + k] = back[k]
  <2>1. /\ Len(front \o back) = 2 + Len(back)
        /\ (front \o back)[1] = front[1] /\ (front \o back)[2] = front[2]
        /\ \A k \in 1..Len(back) : (front \o back)[2 + k] = back[k]
    BY <1>6, PromptAndRest
  <2>2. QED
    BY <1>6, <1>7, <2>1
<1>9. \A k \in 0..n : Sent[3 + k] = messages[L + k]
  <2> TAKE k \in 0..n
  <2>1. k + 1 \in 1..(n + 1) /\ 2 + (k + 1) = 3 + k /\ L + (k + 1) - 1 = L + k
    BY <1>4
  <2>2. Sent[2 + (k + 1)] = messages[L + (k + 1) - 1]
    BY <1>6, <1>8, <2>1
  <2>3. QED
    BY <2>1, <2>2
<1>10. Sent[3] = messages[L]
  <2>1. 0 \in 0..n /\ 3 + 0 = 3 /\ L + 0 = L
    BY <1>4
  <2>2. Sent[3 + 0] = messages[L + 0]
    BY <1>9, <2>1
  <2>3. QED
    BY <2>1, <2>2
<1>11. Len(Sent) = n + 3
  BY <1>4, <1>8
<1>12. \A k \in 1..n : Sent[3 + k] = [role |-> "tool", ids |-> <<Asked[k]>>]
  <2> TAKE k \in 1..n
  <2>1. k \in 0..n
    BY <1>4
  <2>2. Sent[3 + k] = messages[L + k]
    BY <1>9, <2>1
  <2>3. QED
    BY <1>3, <2>2
<1>13. \A i \in 3..Len(Sent) : Exchange(Sent, i)
  BY <1>3, <1>4, <1>5, <1>10, <1>11, <1>12, AssistantWithItsAnswers DEF Asked
<1>14. QED
  BY <1>8, <1>13 DEF TurnInv

\* Every request is one the API accepts in both history modes, whatever calls the
\* model sends and wherever its turns are cut, as long as the server numbers its
\* calls (the run's invariant RequestsAnswered).
THEOREM RequestsAreAnswered == ASSUME MissingIds = FALSE PROVE Spec => []RequestsAnswered
<1>1. ASSUME LoopInv, TurnInv PROVE RequestsAnswered
  <2> SUFFICES ASSUME pc = "asked"
               PROVE  /\ Sent[1].role = "system" /\ Sent[2].role = "user"
                      /\ \A i \in 3..Len(Sent) : Exchange(Sent, i)
    BY DEF RequestsAnswered, Exchange
  <2>1. ids = <<>>
    BY <1>1 DEF TurnInv
  <2>2. CASE mode = "compact" /\ lastTurnStart # 0
    BY <1>1, <2>1, <2>2, CompactIsAnExchange DEF Sent
  <2>3. CASE ~(mode = "compact" /\ lastTurnStart # 0)
    <3>1. Sent = messages
      BY <2>3 DEF Sent
    <3>2. QED
      BY <1>1, <2>1, <3>1, AllExchanges DEF TurnInv
  <2>4. QED
    BY <2>2, <2>3
<1>2. LoopInv /\ TurnInv /\ [Next]_vars => TurnInv'
  BY StepTurns
<1>3. QED
  BY <1>1, <1>2, InitTurns, LoopInvariant, PTL DEF Spec

-----------------------------------------------------------------------------
(***************************************************************************)
(* A run is finite.  A turn takes at most TurnSteps: the request, the      *)
(* answer and the calls in it.                                             *)
(***************************************************************************)
TurnSteps == MaxFragments + 2

\* At most this many steps of the run are left.
StepsLeft ==
    CASE pc = "top"      -> (MaxSteps - steps) * TurnSteps + 1
      [] pc = "asked"    -> (MaxSteps - steps) * TurnSteps
      [] pc = "dispatch" -> (MaxSteps - steps) * TurnSteps + Len(fragments) + 1
      [] OTHER           -> 0

RunShortens ==
    [][(Step => StepsLeft' < StepsLeft) /\ (TimePasses => StepsLeft' = StepsLeft)]_vars

FewCalls == Len(fragments) <= MaxFragments

LEMMA FewCallsStep == LoopInv /\ FewCalls /\ [Next]_vars => FewCalls'
<1> SUFFICES ASSUME LoopInv, FewCalls, [Next]_vars PROVE FewCalls'
  OBVIOUS
<1> USE DEF conversation, turn, counters, sandbox
<1>1. CASE CallsTools
  <2>1. PICK n \in 1..MaxFragments : fragments' \in [1..n -> Calls]
    BY <1>1 DEF CallsTools
  <2>2. n \in Nat /\ n <= MaxFragments
    BY <2>1, LoopAssumption
  <2>3. Len(fragments') = n
    BY <2>1, <2>2
  <2>4. QED
    BY <2>2, <2>3 DEF FewCalls
<1>2. CASE Dispatch
  <2>1. fragments \in Seq(Calls) /\ fragments # <<>> /\ fragments' = Tail(fragments)
    BY <1>2 DEF Dispatch, LoopInv, TypeOK
  <2>2. Len(fragments') = Len(fragments) - 1 /\ Len(fragments) \in Nat
    BY <2>1
  <2>3. QED
    BY <2>2, LoopAssumption DEF FewCalls
<1>3. CASE fragments' = fragments
  BY <1>3 DEF FewCalls
<1>4. QED
  BY <1>1, <1>2, <1>3 DEF Next, Step, TimePasses, OutOfSteps, OutOfTime, Ask, ServerError,
     ClientRaises, Answers, DispatchRaises, vars

\* The turns still to come, and what one turn less leaves of them.
LEMMA TurnsAhead ==
    ASSUME LoopInv
    PROVE  /\ (MaxSteps - steps) * TurnSteps \in Nat
           /\ steps < MaxSteps =>
                 /\ (MaxSteps - (steps + 1)) * TurnSteps \in Nat
                 /\ (MaxSteps - steps) * TurnSteps
                       = (MaxSteps - (steps + 1)) * TurnSteps + MaxFragments + 2
           /\ Len(fragments) \in Nat
           /\ pc = "dispatch" => Len(fragments) > 0
           /\ MaxFragments \in Nat
<1>1. /\ MaxSteps - steps \in Nat /\ TurnSteps \in Nat /\ MaxFragments \in Nat
      /\ steps \in Nat /\ MaxSteps \in Nat
  BY LimitsPositive, LoopAssumption DEF LoopInv, TypeOK, TurnSteps
<1>2. /\ \A k, n \in Nat : k * n \in Nat
      /\ \A k, n \in Nat : k > 0 => (k - 1) * n \in Nat /\ k * n = (k - 1) * n + n
  OBVIOUS
<1>3. (MaxSteps - steps) * TurnSteps \in Nat
  BY <1>1, <1>2
<1>4. ASSUME steps < MaxSteps
      PROVE  /\ (MaxSteps - (steps + 1)) * TurnSteps \in Nat
             /\ (MaxSteps - steps) * TurnSteps
                   = (MaxSteps - (steps + 1)) * TurnSteps + MaxFragments + 2
  <2>1. /\ (MaxSteps - steps) - 1 = MaxSteps - (steps + 1)
        /\ MaxSteps - steps > 0
    BY <1>1, <1>4
  <2>2. /\ ((MaxSteps - steps) - 1) * TurnSteps \in Nat
        /\ (MaxSteps - steps) * TurnSteps = ((MaxSteps - steps) - 1) * TurnSteps + TurnSteps
    BY <1>1, <1>2, <2>1
  <2> DEFINE rest == (MaxSteps - (steps + 1)) * TurnSteps
  <2>3. rest \in Nat /\ (MaxSteps - steps) * TurnSteps = rest + TurnSteps
    BY <2>1, <2>2
  <2> HIDE DEF rest
  <2>4. rest + TurnSteps = rest + MaxFragments + 2
    BY <1>1, <2>3 DEF TurnSteps
  <2>5. QED
    BY <2>3, <2>4 DEF rest
<1>5. Len(fragments) \in Nat /\ (pc = "dispatch" => Len(fragments) > 0)
  BY DEF LoopInv, TypeOK
<1>6. QED
  BY <1>1, <1>3, <1>4, <1>5

LEMMA StepsLeftIsNatural ==
    ASSUME LoopInv
    PROVE  StepsLeft \in Nat /\ (StepsLeft = 0 <=> ~Running)
<1> DEFINE ahead == (MaxSteps - steps) * TurnSteps
<1>1. /\ ahead \in Nat
      /\ pc = "asked" => ahead > 0
      /\ Len(fragments) \in Nat
  BY TurnsAhead DEF LoopInv, InLimits
<1>2. \/ pc = "top" /\ StepsLeft = ahead + 1
      \/ pc = "asked" /\ StepsLeft = ahead
      \/ pc = "dispatch" /\ StepsLeft = ahead + Len(fragments) + 1
      \/ pc \notin {"top", "asked", "dispatch"} /\ StepsLeft = 0
  BY DEF StepsLeft
<1> HIDE DEF ahead
<1>3. QED
  BY <1>1, <1>2 DEF Running

LEMMA StepShortens ==
    ASSUME LoopInv, FewCalls, FewCalls', Step
    PROVE  StepsLeft' < StepsLeft
<1>1. Running
  BY DEF Step, OutOfSteps, OutOfTime, Ask, ServerError, ClientRaises, Answers, CallsTools,
         Dispatch, DispatchRaises, Running
<1>2. StepsLeft \in Nat /\ StepsLeft > 0
  BY <1>1, StepsLeftIsNatural
<1> DEFINE ahead == (MaxSteps - steps) * TurnSteps
           rest  == (MaxSteps - (steps + 1)) * TurnSteps
<1>3. /\ ahead \in Nat /\ Len(fragments) \in Nat /\ MaxFragments \in Nat
      /\ pc = "dispatch" => Len(fragments) > 0
      /\ pc = "asked" => rest \in Nat /\ ahead = rest + MaxFragments + 2
  BY TurnsAhead DEF LoopInv, InLimits
<1>4. CASE pc' \in {"ended", "raised", "aborted"}
  BY <1>2, <1>4 DEF StepsLeft
<1>5. CASE Ask
  <2>1. StepsLeft = ahead + 1 /\ StepsLeft' = ahead
    BY <1>5 DEF Ask, StepsLeft, TurnSteps
  <2> HIDE DEF ahead
  <2>2. QED
    BY <1>3, <2>1
<1>6. CASE CallsTools
  <2>1. StepsLeft = ahead /\ StepsLeft' = rest + Len(fragments') + 1 /\ pc = "asked"
    BY <1>6 DEF CallsTools, StepsLeft, TurnSteps
  <2>2. Len(fragments') \in Nat /\ Len(fragments') <= MaxFragments
    BY <1>6, TurnTyped DEF FewCalls
  <2> HIDE DEF ahead, rest
  <2>3. QED
    BY <1>3, <2>1, <2>2
<1>7. CASE Dispatch /\ pc' \in {"top", "dispatch"}
  <2>1. pc = "dispatch" /\ fragments' = Tail(fragments) /\ steps' = steps
    BY <1>7 DEF Dispatch
  <2>2. StepsLeft = ahead + Len(fragments) + 1
    BY <2>1 DEF StepsLeft
  <2>3. Len(fragments') = Len(fragments) - 1
    BY <2>1 DEF LoopInv, TypeOK
  <2>4. \/ pc' = "dispatch" /\ StepsLeft' = ahead + Len(fragments') + 1
        \/ pc' = "top" /\ StepsLeft' = ahead + 1
    BY <1>7, <2>1 DEF StepsLeft, TurnSteps
  <2> HIDE DEF ahead
  <2>5. QED
    BY <1>3, <2>1, <2>2, <2>3, <2>4
<1>8. QED
  BY <1>4, <1>5, <1>6, <1>7
  DEF Step, OutOfSteps, OutOfTime, ServerError, ClientRaises, Answers, Dispatch,
      DispatchRaises, EndWith

\* Whatever the model sends, a run takes at most MaxSteps turns of TurnSteps steps each:
\* a running loop has steps left and each step leaves fewer, while the clock, which may
\* strike at any time, takes none away.  Under the fairness of Spec this is why runs end
\* (the run's property RunEnds).
THEOREM RunsAreFinite ==
    Spec => [](StepsLeft \in Nat /\ (StepsLeft = 0 <=> ~Running)) /\ RunShortens
<1>1. Init => FewCalls
  BY LoopAssumption DEF Init, FewCalls
<1>2. Spec => []FewCalls
  BY <1>1, FewCallsStep, LoopInvariant, PTL DEF Spec
<1>3. LoopInv => StepsLeft \in Nat /\ (StepsLeft = 0 <=> ~Running)
  BY StepsLeftIsNatural
<1>4. LoopInv /\ FewCalls /\ FewCalls' =>
         [(Step => StepsLeft' < StepsLeft) /\ (TimePasses => StepsLeft' = StepsLeft)]_vars
  <2> SUFFICES ASSUME LoopInv, FewCalls, FewCalls'
               PROVE  /\ Step => StepsLeft' < StepsLeft
                      /\ TimePasses => StepsLeft' = StepsLeft
    OBVIOUS
  <2>1. TimePasses => StepsLeft' = StepsLeft
    BY DEF TimePasses, turn, StepsLeft, TurnSteps
  <2>2. QED
    BY <2>1, StepShortens
<1>5. QED
  BY <1>2, <1>3, <1>4, LoopInvariant, PTL DEF Spec, RunShortens
=============================================================================
