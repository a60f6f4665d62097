-------------------------- MODULE ModelBracketProofs --------------------------
(***************************************************************************)
(* Safety of ModelBracket for any processes, models and number of          *)
(* sessions: what is in its range, whose a container is, and which model a *)
(* stage runs against.                                                     *)
(***************************************************************************)
EXTENDS ModelBracket, TLAPS

-----------------------------------------------------------------------------
(***************************************************************************)
(* The books.  TypeOK is not inductive alone: leaving marks the session    *)
(* as left, and that another open session is not marked with it rests on   *)
(* open sessions having different numbers.  That a clean exit leaks no     *)
(* container rests on a session's container not being there before it is   *)
(* started.                                                                *)
(***************************************************************************)
NotStarted ==
    \A p \in Processes : At(p, "start_container") => session[p] \notin containers

Books == TypeOK /\ ContainerIsThere /\ NotStarted /\ LeaksOnlyByFaults

Inside == Places \ {"out", "start_container"}

LEMMA InitBooks == Init => Books
<1> SUFFICES ASSUME Init PROVE Books
  OBVIOUS
<1>1. started \in 0..MaxSessions /\ 0 \in 0..started
  BY BracketAssumption DEF Init
<1>2. TypeOK
  BY <1>1 DEF Init, TypeOK, Places, At
<1>3. ContainerIsThere /\ NotStarted /\ LeaksOnlyByFaults
  BY DEF Init, ContainerIsThere, NotStarted, LeaksOnlyByFaults, At, Others
<1>4. QED
  BY <1>2, <1>3 DEF Books

\* A session that goes on, touching neither docker nor the history of sessions.
LEMMA MoveKeepsBooks ==
    ASSUME Books, NEW p \in Processes, pc[p] \in Inside,
           NEW place \in Inside, Go(p, place),
           UNCHANGED <<containers, model, session, started, left>>,
           resident' \subseteq Models,
           took' \in [Processes -> {"nothing", "load", "body"}],
           calm' \in [Processes -> {"opened", "checked", "disturbed"}]
    PROVE  Books'
<1>1. pc' \in [Processes -> Places] /\ pc'[p] \in Inside
  BY DEF Books, TypeOK, Go, Inside
<1>2. \A q \in Processes : q # p => pc'[q] = pc[q]
  BY DEF Books, TypeOK, Go
<1>3. TypeOK'
  BY <1>1, <1>2 DEF Books, TypeOK, At, Inside
<1>4. ContainerIsThere'
  BY <1>1, <1>2 DEF Books, ContainerIsThere, At, Inside, Others
<1>5. NotStarted' /\ LeaksOnlyByFaults'
  BY <1>1, <1>2 DEF Books, NotStarted, LeaksOnlyByFaults, At, Inside
<1>6. QED
  BY <1>3, <1>4, <1>5 DEF Books

\* A session that is left, having at most removed or leaked its own container.
LEMMA LeaveKeepsBooks ==
    ASSUME Books, NEW p \in Processes, ~At(p, "out"),
           NEW how \in {"cleanly", "failing", "killed"}, Leave(p, how),
           UNCHANGED <<resident, started>>,
           containers' \subseteq containers \cup {session[p]},
           containers \ {session[p]} \subseteq containers',
           how = "cleanly" => session[p] \notin containers'
    PROVE  Books'
<1>1. 0 \in 0..started /\ session[p] \in 1..started /\ started \in 0..MaxSessions
  <2>1. session[p] \in 0..started /\ session[p] \in 1..MaxSessions /\ started \in 0..MaxSessions
    BY DEF Books, TypeOK
  <2>2. QED
    BY <2>1, BracketAssumption
<1>2. /\ pc' \in [Processes -> Places] /\ pc'[p] = "out"
      /\ session' \in [Processes -> 0..started]
      /\ \A q \in Processes : q # p =>
            pc'[q] = pc[q] /\ session'[q] = session[q] /\ model'[q] = model[q]
  BY <1>1 DEF Books, TypeOK, Leave, Go, Places
<1>3. \A q \in Processes : q # p /\ pc[q] # "out" => session[q] # session[p]
  BY DEF Books, ContainerIsThere, At, Others
<1>4. \A s \in 1..MaxSessions : s # session[p] => left'[s] = left[s]
  BY DEF Books, TypeOK, Leave
<1>5. left' \in [1..MaxSessions -> {"unused", "open", "cleanly", "failing", "killed"}]
  BY DEF Books, TypeOK, Leave
<1>6. /\ model' \in [Processes -> Models \cup {NoModel}]
      /\ took' \in [Processes -> {"nothing", "load", "body"}]
      /\ calm' \in [Processes -> {"opened", "checked", "disturbed"}]
  BY DEF Books, TypeOK, Leave, Took
<1>7. TypeOK'
  <2>1. containers' \subseteq 1..started'
    BY <1>1 DEF Books, TypeOK
  <2>2. \A q \in Processes : pc'[q] # "out" =>
           model'[q] \in Models /\ session'[q] \in 1..MaxSessions /\ left'[session'[q]] = "open"
    BY <1>2, <1>3, <1>4 DEF Books, TypeOK, At
  <2>3. QED
    BY <1>2, <1>5, <1>6, <2>1, <2>2 DEF Books, TypeOK, At
<1>8. ContainerIsThere'
  BY <1>2, <1>3 DEF Books, ContainerIsThere, At, Others
<1>9. NotStarted'
  BY <1>2, <1>3 DEF Books, NotStarted, At
<1>10. LeaksOnlyByFaults'
  <2> SUFFICES ASSUME NEW s \in containers' PROVE left'[s] # "cleanly"
    BY DEF LeaksOnlyByFaults
  <2>1. CASE s = session[p]
    <3>1. left'[s] = how
      BY <1>1, <2>1 DEF Books, TypeOK, Leave, At
    <3>2. QED
      BY <2>1, <3>1
  <2>2. CASE s # session[p]
    <3>1. s \in containers /\ containers \subseteq 1..started
      BY <2>2 DEF Books, TypeOK
    <3>2. s \in 1..MaxSessions
      BY <1>1, <3>1, BracketAssumption
    <3>3. left'[s] = left[s] /\ left[s] # "cleanly"
      BY <1>4, <2>2, <3>1, <3>2 DEF Books, LeaksOnlyByFaults
    <3>4. QED
      BY <3>3
  <2>3. QED
    BY <2>1, <2>2
<1>11. QED
  BY <1>7, <1>8, <1>9, <1>10 DEF Books

LEMMA DisturbTyped ==
    ASSUME TypeOK, NEW others, Disturb(others)
    PROVE  /\ calm' \in [Processes -> {"opened", "checked", "disturbed"}]
           /\ \A q \in Processes : calm'[q] # calm[q] => calm'[q] = "disturbed"
           /\ \A q \in Processes \cap others : ~At(q, "out") => calm'[q] = "disturbed"
BY DEF TypeOK, Disturb

\* What a session's own steps inside the bracket change at the servers and in the
\* history, as far as their types go.
LEMMA InsideStepTyped ==
    ASSUME TypeOK, NEW p \in Processes, ~At(p, "out"),
           \/ ProvenanceFails(p) \/ UnloadFirst(p) \/ UnloadFirstFails(p)
           \/ Load(p) \/ LoadsAnother(p) \/ LoadFails(p) \/ Verify(p) \/ VerifyFails(p)
           \/ Capture(p) \/ CaptureRefuses(p) \/ Body(p)
           \/ UnloadLast(p) \/ UnloadLastFails(p)
    PROVE  /\ resident' \subseteq Models
           /\ took' \in [Processes -> {"nothing", "load", "body"}]
           /\ calm' \in [Processes -> {"opened", "checked", "disturbed"}]
           /\ pc[p] \in Inside
           /\ \E place \in Inside : Go(p, place)
           /\ UNCHANGED <<containers, model, session, started, left>>
<1>1. /\ pc[p] \in Inside
      /\ \E place \in Inside : Go(p, place)
      /\ UNCHANGED <<containers, model, session, started, left>>
  BY DEF ProvenanceFails, UnloadFirst, UnloadFirstFails, Load, LoadsAnother, LoadFails,
         Verify, VerifyFails, Capture, CaptureRefuses, Body, UnloadLast, UnloadLastFails,
         At, Inside, Places, servers
<1>2. model[p] \in Models
  BY DEF TypeOK
<1>3. resident' \subseteq Models
  BY <1>2 DEF TypeOK, ProvenanceFails, UnloadFirst, UnloadFirstFails, Load, LoadsAnother,
         LoadFails, Verify, VerifyFails, Capture, CaptureRefuses, Body, UnloadLast,
         UnloadLastFails, servers
<1>4. UNCHANGED took \/ \E what \in {"load", "body"} : Took(p, what)
  BY DEF ProvenanceFails, UnloadFirst, UnloadFirstFails, Load, LoadsAnother, LoadFails,
         Verify, VerifyFails, Capture, CaptureRefuses, Body, UnloadLast, UnloadLastFails
<1>5. took' \in [Processes -> {"nothing", "load", "body"}]
  BY <1>4 DEF TypeOK, Took
<1>6. UNCHANGED calm \/ Disturb(Others(p)) \/ Checked(p)
  BY DEF ProvenanceFails, UnloadFirst, UnloadFirstFails, Load, LoadsAnother, LoadFails,
         Verify, VerifyFails, Capture, CaptureRefuses, Body, UnloadLast, UnloadLastFails
<1>7. calm' \in [Processes -> {"opened", "checked", "disturbed"}]
  <2>1. CASE UNCHANGED calm
    BY <2>1 DEF TypeOK
  <2>2. CASE Disturb(Others(p))
    BY <2>2, DisturbTyped
  <2>3. CASE Checked(p)
    BY <2>3 DEF TypeOK, Checked
  <2>4. QED
    BY <1>6, <2>1, <2>2, <2>3
<1>8. QED
  BY <1>1, <1>3, <1>5, <1>7

LEMMA StepBooks == Books /\ [Next]_vars => Books'
<1> SUFFICES ASSUME Books, [Next]_vars PROVE Books'
  OBVIOUS
<1>1. ASSUME NEW p \in Processes, NEW m \in Models, Open(p, m) PROVE Books'
  <2>1. /\ started' = started + 1 /\ started' \in 1..MaxSessions
        /\ started \in Nat
        /\ containers \subseteq 1..started
        /\ \A q \in Processes : session[q] \in 0..started
    BY <1>1, BracketAssumption DEF Open, Books, TypeOK
  <2>2. /\ started' \notin containers
        /\ \A q \in Processes : session[q] # started' /\ session[q] \in 0..started'
        /\ containers \subseteq 1..started'
    BY <2>1
  <2>3. /\ pc' = [pc EXCEPT ![p] = "start_container"]
        /\ session' = [session EXCEPT ![p] = started']
        /\ left' = [left EXCEPT ![started'] = "open"]
        /\ model' = [model EXCEPT ![p] = m]
        /\ UNCHANGED <<resident, containers, took, calm>>
        /\ pc[p] = "out"
    BY <1>1 DEF Open, Go, servers, At
  <2>4. /\ pc' \in [Processes -> Places]
        /\ session' \in [Processes -> 0..started']
        /\ model' \in [Processes -> Models \cup {NoModel}]
        /\ left' \in [1..MaxSessions -> {"unused", "open", "cleanly", "failing", "killed"}]
    <3>1. session \in [Processes -> 0..started']
      BY <2>2 DEF Books, TypeOK
    <3>2. started' \in 0..started'
      BY <2>1
    <3>3. QED
      BY <2>1, <2>3, <3>1, <3>2 DEF Books, TypeOK, Places
  <2>5. \A q \in Processes : pc'[q] # "out" =>
            model'[q] \in Models /\ session'[q] \in 1..MaxSessions /\ left'[session'[q]] = "open"
    BY <2>1, <2>2, <2>3 DEF Books, TypeOK, At
  <2>6. TypeOK'
    <3>1. started' \in 0..MaxSessions
      BY <2>1, BracketAssumption
    <3>2. QED
      BY <2>2, <2>3, <2>4, <2>5, <3>1 DEF Books, TypeOK, At
  <2>7. ContainerIsThere' /\ NotStarted'
    BY <2>2, <2>3 DEF Books, TypeOK, ContainerIsThere, NotStarted, At, Others
  <2>8. LeaksOnlyByFaults'
    BY <2>1, <2>2, <2>3 DEF Books, TypeOK, LeaksOnlyByFaults
  <2>9. QED
    BY <2>6, <2>7, <2>8 DEF Books
<1>2. ASSUME NEW m \in Models, LoadByHand(m) PROVE Books'
  <2>1. calm' \in [Processes -> {"opened", "checked", "disturbed"}]
    BY <1>2, DisturbTyped DEF LoadByHand, Books
  <2>2. QED
    BY <1>2, <2>1 DEF LoadByHand, Books, TypeOK, ContainerIsThere, NotStarted,
                      LeaksOnlyByFaults, At, Others
<1>3. ASSUME NEW p \in Processes, Die(p) PROVE Books'
  BY <1>3, LeaveKeepsBooks DEF Die, servers
<1>4. ASSUME NEW p \in Processes, StartContainer(p) PROVE Books'
  <2>1. /\ pc[p] = "start_container" /\ pc' = [pc EXCEPT ![p] = "unload_first"]
        /\ containers' = containers \cup {session[p]}
        /\ UNCHANGED <<resident, model, session, started, took, calm, left>>
    BY <1>4 DEF StartContainer, Go, At
  <2>2. /\ session[p] \in 1..MaxSessions /\ left[session[p]] = "open"
        /\ session[p] \in 0..started
    BY <2>1 DEF Books, TypeOK, At
  <2>3. session[p] \in 1..started
    BY <2>2, BracketAssumption DEF Books, TypeOK
  <2>4. /\ pc' \in [Processes -> Places] /\ pc'[p] = "unload_first"
        /\ \A q \in Processes : q # p => pc'[q] = pc[q]
    BY <2>1 DEF Books, TypeOK, Places
  <2>5. TypeOK'
    BY <2>1, <2>3, <2>4 DEF Books, TypeOK, At
  <2>6. \A q \in Others(p) : pc[q] # "out" => session[q] # session[p]
    BY <2>1 DEF Books, ContainerIsThere, At, Others
  <2>7. ContainerIsThere' /\ NotStarted' /\ LeaksOnlyByFaults'
    BY <2>1, <2>2, <2>4, <2>6 DEF Books, ContainerIsThere, NotStarted, LeaksOnlyByFaults,
                                  At, Others
  <2>8. QED
    BY <2>5, <2>7 DEF Books
<1>5. ASSUME NEW p \in Processes, StartFails(p) PROVE Books'
  <2>1. /\ ~At(p, "out") /\ session[p] \notin containers /\ UNCHANGED <<resident, started>>
    BY <1>5 DEF StartFails, Books, NotStarted, At
  <2>2. CASE UNCHANGED containers /\ Leave(p, "cleanly")
    BY <2>1, <2>2, LeaveKeepsBooks
  <2>3. CASE containers' = containers \cup {session[p]} /\ Leave(p, "failing")
    BY <2>1, <2>3, LeaveKeepsBooks
  <2>4. QED
    BY <1>5, <2>2, <2>3 DEF StartFails
<1>6. ASSUME NEW p \in Processes, RemoveContainer(p) PROVE Books'
  <2>1. PICK how \in {"cleanly", "failing"} : Leave(p, how)
    BY <1>6 DEF RemoveContainer
  <2>2. QED
    BY <1>6, <2>1, LeaveKeepsBooks DEF RemoveContainer, Removing, At
<1>7. ASSUME NEW p \in Processes, RemoveFails(p) PROVE Books'
  BY <1>7, LeaveKeepsBooks DEF RemoveFails, Removing, At
<1>8. ASSUME NEW p \in Processes,
             \/ ProvenanceFails(p) \/ UnloadFirst(p) \/ UnloadFirstFails(p)
             \/ Load(p) \/ LoadsAnother(p) \/ LoadFails(p) \/ Verify(p) \/ VerifyFails(p)
             \/ Capture(p) \/ CaptureRefuses(p) \/ Body(p)
             \/ UnloadLast(p) \/ UnloadLastFails(p)
      PROVE  Books'
  <2>1. ~At(p, "out")
    BY <1>8 DEF ProvenanceFails, UnloadFirst, UnloadFirstFails, Load, LoadsAnother,
         LoadFails, Verify, VerifyFails, Capture, CaptureRefuses, Body, UnloadLast,
         UnloadLastFails, At
  <2>2. /\ resident' \subseteq Models
        /\ took' \in [Processes -> {"nothing", "load", "body"}]
        /\ calm' \in [Processes -> {"opened", "checked", "disturbed"}]
        /\ pc[p] \in Inside
        /\ UNCHANGED <<containers, model, session, started, left>>
    BY <1>8, <2>1, InsideStepTyped DEF Books
  <2>3. PICK place \in Inside : Go(p, place)
    BY <1>8, <2>1, InsideStepTyped DEF Books
  <2>4. QED
    BY <2>2, <2>3, MoveKeepsBooks
<1>9. CASE UNCHANGED vars
  BY <1>9 DEF vars, Books, TypeOK, ContainerIsThere, NotStarted, LeaksOnlyByFaults, At, Others
<1>10. QED
  BY <1>1, <1>2, <1>3, <1>4, <1>5, <1>6, <1>7, <1>8, <1>9 DEF Next, Step

\* Every variable is in its range in every state, for any processes, models and
\* number of sessions.
THEOREM TypeCorrect == Spec => []TypeOK
<1>1. Books => TypeOK
  BY DEF Books
<1>2. QED
  BY <1>1, InitBooks, StepBooks, PTL DEF Spec

\* A session has its own container from start to end, whatever the others do.
THEOREM OwnContainer == Spec => []ContainerIsThere
<1>1. Books => ContainerIsThere
  BY DEF Books
<1>2. QED
  BY <1>1, InitBooks, StepBooks, PTL DEF Spec

\* A session that left cleanly left no container running.
THEOREM NoLeakWithoutFault == Spec => []LeaksOnlyByFaults
<1>1. Books => LeaksOnlyByFaults
  BY DEF Books
<1>2. QED
  BY <1>1, InitBooks, StepBooks, PTL DEF Spec

-----------------------------------------------------------------------------
(***************************************************************************)
(* The model.  What a session may conclude about LM Studio depends on how  *)
(* far it came and since when nobody else used LM Studio; every step of    *)
(* another process either leaves the models alone or is on record as a     *)
(* disturbance.                                                            *)
(***************************************************************************)
Entered == {"body", "unload", "remove", "remove_failing"}

KnowsOf(p) ==
    /\ At(p, "load") /\ calm[p] = "opened" => resident = {}
    /\ At(p, "verify") /\ calm[p] = "opened" => \E m \in Models : resident = {m}
    /\ At(p, "capture") /\ calm[p] = "opened" => resident = {model[p]}
    /\ At(p, "body") /\ calm[p] = "opened" => resident = {model[p]}
    /\ At(p, "body") /\ calm[p] = "checked" => resident \subseteq {model[p]}
    /\ At(p, "remove") /\ calm[p] = "opened" /\ took[p] = "body" => resident = {}
    /\ calm[p] = "checked" => pc[p] \in Entered
    /\ took[p] = "body" => pc[p] \in Entered

Known == \A p \in Processes : KnowsOf(p)

LEMMA InitKnown == Init => Known
BY DEF Init, Known, KnowsOf, At

\* A step of somebody else.
LEMMA OthersKeepKnowing ==
    ASSUME NEW q \in Processes, KnowsOf(q),
           pc'[q] = pc[q], model'[q] = model[q], took'[q] = took[q],
           \/ calm'[q] = calm[q] /\ (resident' = resident \/ pc[q] = "out")
           \/ calm'[q] = "disturbed"
    PROVE  KnowsOf(q)'
BY DEF KnowsOf, At, Entered

LEMMA LeaverKnows ==
    ASSUME TypeOK, NEW p \in Processes, NEW how, Leave(p, how)
    PROVE  /\ KnowsOf(p)'
           /\ \A q \in Others(p) : /\ pc'[q] = pc[q] /\ model'[q] = model[q]
                                   /\ took'[q] = took[q] /\ calm'[q] = calm[q]
BY DEF TypeOK, KnowsOf, Leave, Go, Took, At, Entered, Others

\* The bracket's own steps, for the process that takes one.
LEMMA StepperKnows ==
    ASSUME TypeOK, NEW p \in Processes, KnowsOf(p),
           \/ StartContainer(p) \/ ProvenanceFails(p)
           \/ UnloadFirst(p) \/ UnloadFirstFails(p)
           \/ Load(p) \/ LoadsAnother(p) \/ LoadFails(p) \/ Verify(p) \/ VerifyFails(p)
           \/ Capture(p) \/ CaptureRefuses(p) \/ Body(p)
           \/ UnloadLast(p) \/ UnloadLastFails(p)
    PROVE  KnowsOf(p)'
<1> USE DEF At, Go, Took, servers
<1>0. \A place : Go(p, place) => pc'[p] = place
  BY DEF TypeOK
<1>00. \A what : Took(p, what) => took'[p] = what
  BY DEF TypeOK
<1>01. Disturb(Others(p)) => calm'[p] = calm[p]
  BY DEF Disturb, Others
<1>02. Checked(p) => calm'[p] = IF calm[p] = "disturbed" THEN "checked" ELSE calm[p]
  BY DEF TypeOK, Checked
<1>03. model[p] \in Models \/ pc[p] = "out"
  BY DEF TypeOK
<1>1. CASE StartContainer(p) \/ ProvenanceFails(p)
  BY <1>0, <1>1 DEF StartContainer, ProvenanceFails, KnowsOf, Entered
<1>2. CASE UnloadFirst(p) \/ UnloadFirstFails(p)
  BY <1>0, <1>01, <1>2 DEF UnloadFirst, UnloadFirstFails, KnowsOf, Entered
<1>3. CASE Load(p)
  BY <1>0, <1>00, <1>01, <1>03, <1>3 DEF Load, KnowsOf, Entered
<1>4. CASE LoadsAnother(p)
  BY <1>0, <1>01, <1>4 DEF LoadsAnother, KnowsOf, Entered
<1>5. CASE LoadFails(p)
  BY <1>0, <1>00, <1>01, <1>5 DEF LoadFails, KnowsOf, Entered
<1>6. CASE Verify(p) \/ VerifyFails(p)
  BY <1>0, <1>6 DEF Verify, VerifyFails, KnowsOf, Entered
<1>7. CASE Capture(p)
  BY <1>0, <1>00, <1>02, <1>7 DEF Capture, KnowsOf, Entered
<1>8. CASE CaptureRefuses(p) \/ Body(p)
  BY <1>0, <1>00, <1>8 DEF CaptureRefuses, Body, KnowsOf, Entered
<1>9. CASE UnloadLast(p) \/ UnloadLastFails(p)
  BY <1>0, <1>01, <1>9 DEF UnloadLast, UnloadLastFails, KnowsOf, Entered
<1>10. QED
  BY <1>1, <1>2, <1>3, <1>4, <1>5, <1>6, <1>7, <1>8, <1>9

\* The same steps, as the others see them.
LEMMA OthersSeeStep ==
    ASSUME TypeOK, NEW p \in Processes, NEW q \in Others(p),
           \/ StartContainer(p) \/ ProvenanceFails(p)
           \/ UnloadFirst(p) \/ UnloadFirstFails(p)
           \/ Load(p) \/ LoadsAnother(p) \/ LoadFails(p) \/ Verify(p) \/ VerifyFails(p)
           \/ Capture(p) \/ CaptureRefuses(p) \/ Body(p)
           \/ UnloadLast(p) \/ UnloadLastFails(p)
    PROVE  /\ pc'[q] = pc[q] /\ model'[q] = model[q] /\ took'[q] = took[q]
           /\ \/ calm'[q] = calm[q] /\ (resident' = resident \/ pc[q] = "out")
              \/ calm'[q] = "disturbed"
<1>1. /\ \E place : Go(p, place)
      /\ UNCHANGED model
      /\ UNCHANGED took \/ \E what : Took(p, what)
      /\ \/ resident' = resident /\ (UNCHANGED calm \/ Checked(p))
         \/ Disturb(Others(p))
  BY DEF StartContainer, ProvenanceFails, UnloadFirst, UnloadFirstFails, Load,
         LoadsAnother, LoadFails, Verify, VerifyFails, Capture, CaptureRefuses, Body,
         UnloadLast, UnloadLastFails, servers
<1>2. pc'[q] = pc[q] /\ model'[q] = model[q] /\ took'[q] = took[q]
  BY <1>1 DEF TypeOK, Go, Took, Others
<1>3. CASE resident' = resident /\ (UNCHANGED calm \/ Checked(p))
  BY <1>2, <1>3 DEF TypeOK, Checked, Others
<1>4. CASE Disturb(Others(p))
  BY <1>2, <1>4 DEF Disturb, Others, At
<1>5. QED
  BY <1>1, <1>2, <1>3, <1>4

LEMMA StepKnown == TypeOK /\ Known /\ [Next]_vars => Known'
<1> SUFFICES ASSUME TypeOK, Known, [Next]_vars PROVE Known'
  OBVIOUS
<1>1. ASSUME NEW p \in Processes, NEW m \in Models, Open(p, m) PROVE Known'
  <2>1. /\ pc' = [pc EXCEPT ![p] = "start_container"]
        /\ model' = [model EXCEPT ![p] = m]
        /\ UNCHANGED <<resident, took, calm>>
        /\ pc[p] = "out"
    BY <1>1 DEF Open, Go, servers, At
  <2>2. KnowsOf(p)'
    BY <2>1 DEF Known, TypeOK, KnowsOf, At, Entered
  <2>3. ASSUME NEW q \in Others(p) PROVE KnowsOf(q)'
    BY <2>1, <2>3, OthersKeepKnowing DEF Known, TypeOK, Others
  <2>4. QED
    BY <2>2, <2>3 DEF Known, Others
<1>2. ASSUME NEW m \in Models, LoadByHand(m) PROVE Known'
  <2> SUFFICES ASSUME NEW q \in Processes PROVE KnowsOf(q)'
    BY DEF Known
  <2>1. calm'[q] = "disturbed" \/ (calm'[q] = calm[q] /\ pc[q] = "out")
    BY <1>2 DEF LoadByHand, Disturb, At
  <2>2. QED
    BY <1>2, <2>1, OthersKeepKnowing DEF Known, LoadByHand
<1>3. ASSUME NEW p \in Processes, Die(p) \/ StartFails(p) \/ RemoveContainer(p) \/ RemoveFails(p)
      PROVE  Known'
  <2>1. PICK how : Leave(p, how)
    BY <1>3 DEF Die, StartFails, RemoveContainer, RemoveFails
  <2>2. resident' = resident
    BY <1>3 DEF Die, StartFails, RemoveContainer, RemoveFails, servers
  <2>3. ASSUME NEW q \in Others(p) PROVE KnowsOf(q)'
    BY <2>1, <2>2, LeaverKnows, OthersKeepKnowing DEF Known, Others
  <2>4. KnowsOf(p)'
    BY <2>1, LeaverKnows
  <2>5. QED
    BY <2>3, <2>4 DEF Known, Others
<1>4. ASSUME NEW p \in Processes,
             \/ StartContainer(p) \/ ProvenanceFails(p)
             \/ UnloadFirst(p) \/ UnloadFirstFails(p)
             \/ Load(p) \/ LoadsAnother(p) \/ LoadFails(p) \/ Verify(p) \/ VerifyFails(p)
             \/ Capture(p) \/ CaptureRefuses(p) \/ Body(p)
             \/ UnloadLast(p) \/ UnloadLastFails(p)
      PROVE  Known'
  <2>1. KnowsOf(p)'
    BY <1>4, StepperKnows DEF Known
  <2>2. ASSUME NEW q \in Others(p) PROVE KnowsOf(q)'
    <3>1. /\ pc'[q] = pc[q] /\ model'[q] = model[q] /\ took'[q] = took[q]
          /\ \/ calm'[q] = calm[q] /\ (resident' = resident \/ pc[q] = "out")
             \/ calm'[q] = "disturbed"
      BY <1>4, <2>2, OthersSeeStep
    <3>2. QED
      BY <3>1, <2>2, OthersKeepKnowing DEF Known, Others
  <2>3. QED
    BY <2>1, <2>2 DEF Known, Others
<1>5. CASE UNCHANGED vars
  BY <1>5 DEF vars, Known, KnowsOf, At
<1>6. QED
  BY <1>1, <1>2, <1>3, <1>4, <1>5 DEF Next, Step

LEMMA InvariantKnown == Spec => [](TypeOK /\ Known)
<1>1. Init => TypeOK /\ Known
  BY InitBooks, InitKnown DEF Books
<1>2. Books /\ Known /\ [Next]_vars => Known'
  BY StepKnown DEF Books
<1>3. Books /\ Known => TypeOK /\ Known
  BY DEF Books
<1>4. QED
  BY <1>1, <1>2, <1>3, InitBooks, StepBooks, PTL DEF Spec

\* A stage runs against the model it chose and no other, with any number of other
\* processes, killed sessions and stranded models about.
THEOREM OwnModel == Spec => []StageHasItsModel
<1>1. Known => StageHasItsModel
  BY DEF Known, KnowsOf, StageHasItsModel
<1>2. QED
  BY <1>1, InvariantKnown, PTL

\* A session that entered its stage and left cleanly has emptied LM Studio.
THEOREM NothingStranded == Spec => BodyStrandsNothing
<1>1. ASSUME TypeOK, Known, [Next]_vars,
             NEW p \in Processes, Leaves(p, "cleanly"), took[p] = "body", calm[p] = "opened"
      PROVE  resident' = {}
  <2>1. pc[p] \in Entered /\ pc[p] # "out"
    BY <1>1 DEF Known, KnowsOf, Entered
  <2>2. session[p] \in 1..MaxSessions /\ left[session[p]] = "open"
    BY <1>1, <2>1 DEF TypeOK, At
  <2>3. CASE \E how : Leave(p, how) /\ (Die(p) \/ StartFails(p) \/ RemoveFails(p) \/ RemoveContainer(p))
    <3>1. left'[session[p]] = "cleanly" /\ left \in [1..MaxSessions -> {"unused", "open", "cleanly", "failing", "killed"}]
      BY <1>1 DEF Leaves, TypeOK
    <3>2. ~Die(p) /\ ~RemoveFails(p)
      BY <2>2, <3>1 DEF Die, RemoveFails, Leave
    <3>3. ~StartFails(p)
      BY <2>1 DEF StartFails, At, Entered
    <3>4. RemoveContainer(p) /\ At(p, "remove")
      BY <2>2, <2>3, <3>1, <3>2, <3>3 DEF RemoveContainer, Leave
    <3>5. QED
      BY <1>1, <3>4 DEF RemoveContainer, Known, KnowsOf
  <2>4. \E how : Leave(p, how) /\ (Die(p) \/ StartFails(p) \/ RemoveFails(p) \/ RemoveContainer(p))
    <3>1. pc'[p] = "out"
      BY <1>1 DEF Leaves
    <3>2. \A place : Go(p, place) => pc'[p] = place
      BY <1>1 DEF TypeOK, Go
    <3>3. \A q \in Others(p) : ~Step(q) /\ ~Die(q)
      <4> SUFFICES ASSUME NEW q \in Others(p), Step(q) \/ Die(q) PROVE FALSE
        OBVIOUS
      <4>1. \E place, how : Go(q, place) \/ Leave(q, how)
        BY DEF Step, StartContainer, StartFails, ProvenanceFails, RemoveContainer,
               RemoveFails, UnloadFirst, UnloadFirstFails, Load, LoadsAnother, LoadFails,
               Verify, VerifyFails, Capture, CaptureRefuses, Body, UnloadLast,
               UnloadLastFails, Die
      <4>2. pc'[p] = pc[p]
        BY <1>1, <4>1 DEF TypeOK, Leave, Go, Others
      <4>3. QED
        BY <2>1, <3>1, <4>2
    <3>4. \A q \in Processes, m \in Models : ~Open(q, m)
      BY <1>1, <2>1, <3>1 DEF Open, Go, At, TypeOK
    <3>5. \A m \in Models : ~LoadByHand(m)
      BY <2>1, <3>1 DEF LoadByHand
    <3>6. ~UNCHANGED vars
      BY <2>1, <3>1 DEF vars
    <3>7. Step(p) \/ Die(p)
      BY <1>1, <3>3, <3>4, <3>5, <3>6 DEF Next, Others
    <3>8. ~StartContainer(p) /\ ~ProvenanceFails(p) /\ ~UnloadFirst(p) /\ ~UnloadFirstFails(p)
      BY <3>1, <3>2 DEF StartContainer, ProvenanceFails, UnloadFirst, UnloadFirstFails
    <3>9. /\ ~Load(p) /\ ~LoadsAnother(p) /\ ~LoadFails(p) /\ ~Verify(p) /\ ~VerifyFails(p)
          /\ ~Capture(p) /\ ~CaptureRefuses(p) /\ ~Body(p)
          /\ ~UnloadLast(p) /\ ~UnloadLastFails(p)
      BY <3>1, <3>2 DEF Load, LoadsAnother, LoadFails, Verify, VerifyFails, Capture,
                        CaptureRefuses, Body, UnloadLast, UnloadLastFails
    <3>10. QED
      BY <3>7, <3>8, <3>9 DEF Step, Die, StartFails, RemoveFails, RemoveContainer
  <2>5. QED
    BY <2>3, <2>4
<1>2. TypeOK /\ Known /\ [Next]_vars =>
         [\A p \in Processes :
            Leaves(p, "cleanly") /\ took[p] = "body" /\ calm[p] = "opened" => resident' = {}]_vars
  BY <1>1
<1>3. QED
  BY <1>2, InvariantKnown, PTL DEF Spec, BodyStrandsNothing

-----------------------------------------------------------------------------
(* Why a session ends: its way through the bracket only leads out.         *)

\* At most this many steps are left to a session that is at the place.
Ahead(place) ==
    CASE place = "start_container" -> 8
      [] place = "unload_first"    -> 7
      [] place = "load"            -> 6
      [] place = "verify"          -> 5
      [] place = "capture"         -> 4
      [] place = "body"            -> 3
      [] place = "unload"          -> 2
      [] place \in {"remove", "remove_failing"} -> 1
      [] place = "out"             -> 0

StepsLeft(p) == Ahead(pc[p])

\* A session's own steps shorten it, to being over where it is killed, and nobody else,
\* another harness process or the operator, can lengthen it.
SessionsShorten ==
    [][\A p \in Processes : ~At(p, "out") =>
          /\ StepsLeft(p)' <= StepsLeft(p)
          /\ Step(p) => StepsLeft(p)' < StepsLeft(p)
          /\ Die(p) => StepsLeft(p)' = 0]_vars

LEMMA PlacesAhead ==
    /\ \A place \in Places : Ahead(place) \in 0..8 /\ (Ahead(place) = 0 <=> place = "out")
    /\ Ahead("out") = 0
  BY DEF Ahead, Places

LEMMA OwnStepShortens ==
    ASSUME TypeOK, NEW p \in Processes, Step(p)
    PROVE  pc'[p] \in Places /\ Ahead(pc'[p]) < Ahead(pc[p])
<1>1. pc \in [Processes -> Places] /\ \A place : Go(p, place) => pc'[p] = place
  BY DEF TypeOK, Go
<1>2. \A how : Leave(p, how) => pc'[p] = "out"
  BY <1>1 DEF Leave
<1>3. CASE StartContainer(p) \/ StartFails(p)
  <2>1. pc[p] = "start_container" /\ pc'[p] \in {"unload_first", "out"}
    BY <1>1, <1>2, <1>3 DEF StartContainer, StartFails, At
  <2>2. QED
    BY <2>1 DEF Ahead, Places
<1>4. CASE ProvenanceFails(p) \/ UnloadFirst(p) \/ UnloadFirstFails(p)
  <2>1. pc[p] = "unload_first" /\ pc'[p] \in {"load", "remove", "remove_failing"}
    BY <1>1, <1>4 DEF ProvenanceFails, UnloadFirst, UnloadFirstFails, At
  <2>2. QED
    BY <2>1 DEF Ahead, Places
<1>5. CASE Load(p) \/ LoadsAnother(p) \/ LoadFails(p)
  <2>1. pc[p] = "load" /\ pc'[p] \in {"verify", "remove"}
    BY <1>1, <1>5 DEF Load, LoadsAnother, LoadFails, At
  <2>2. QED
    BY <2>1 DEF Ahead, Places
<1>6. CASE Verify(p) \/ VerifyFails(p)
  <2>1. pc[p] = "verify" /\ pc'[p] \in {"capture", "remove"}
    BY <1>1, <1>6 DEF Verify, VerifyFails, At
  <2>2. QED
    BY <2>1 DEF Ahead, Places
<1>7. CASE Capture(p) \/ CaptureRefuses(p) \/ Body(p)
  <2>1. \/ pc[p] = "capture" /\ pc'[p] \in {"body", "unload"}
        \/ pc[p] = "body" /\ pc'[p] = "unload"
    BY <1>1, <1>7 DEF Capture, CaptureRefuses, Body, At
  <2>2. QED
    BY <2>1 DEF Ahead, Places
<1>8. CASE UnloadLast(p) \/ UnloadLastFails(p)
  <2>1. pc[p] = "unload" /\ pc'[p] \in {"remove", "remove_failing"}
    BY <1>1, <1>8 DEF UnloadLast, UnloadLastFails, At
  <2>2. QED
    BY <2>1 DEF Ahead, Places
<1>9. CASE RemoveContainer(p) \/ RemoveFails(p)
  <2>1. pc[p] \in {"remove", "remove_failing"} /\ pc'[p] = "out"
    BY <1>2, <1>9 DEF RemoveContainer, RemoveFails, Removing, At
  <2>2. QED
    BY <2>1 DEF Ahead, Places
<1>10. QED
  BY <1>3, <1>4, <1>5, <1>6, <1>7, <1>8, <1>9 DEF Step

\* What a process does leaves every other one where it is.
LEMMA OthersStay ==
    ASSUME TypeOK, NEW p \in Processes, NEW q \in Others(p),
           Step(q) \/ Die(q) \/ \E m \in Models : Open(q, m)
    PROVE  pc'[p] = pc[p]
<1>1. \E place, how : Go(q, place) \/ Leave(q, how)
  BY DEF Step, StartContainer, StartFails, ProvenanceFails, RemoveContainer,
         RemoveFails, UnloadFirst, UnloadFirstFails, Load, LoadsAnother, LoadFails,
         Verify, VerifyFails, Capture, CaptureRefuses, Body, UnloadLast,
         UnloadLastFails, Die, Open
<1>2. QED
  BY <1>1 DEF TypeOK, Leave, Go, Others

\* A session of loaded inside container_session ends by at most eight steps of its own,
\* whatever fails and whatever other processes do to the servers meanwhile.  With the
\* fairness of its steps this is what SessionsEnd rests on.
THEOREM SessionsAreFinite ==
    Spec => /\ [](\A p \in Processes :
                    StepsLeft(p) \in 0..8 /\ (StepsLeft(p) = 0 <=> At(p, "out")))
            /\ SessionsShorten
<1>1. TypeOK => \A p \in Processes :
                   StepsLeft(p) \in 0..8 /\ (StepsLeft(p) = 0 <=> At(p, "out"))
  BY PlacesAhead DEF TypeOK, StepsLeft, At
<1>2. ASSUME TypeOK, Next, NEW p \in Processes, ~At(p, "out")
      PROVE  /\ StepsLeft(p)' <= StepsLeft(p)
             /\ Step(p) => StepsLeft(p)' < StepsLeft(p)
             /\ Die(p) => StepsLeft(p)' = 0
  <2>1. StepsLeft(p) \in 1..8 /\ StepsLeft(p)' = Ahead(pc'[p])
    BY <1>1, <1>2 DEF StepsLeft
  <2>2. Step(p) => Ahead(pc'[p]) \in 0..8 /\ Ahead(pc'[p]) < Ahead(pc[p])
    BY <1>2, OwnStepShortens, PlacesAhead
  <2>3. Die(p) => Ahead(pc'[p]) = 0
    BY <1>2, PlacesAhead DEF Die, Leave, Go, TypeOK
  <2>4. CASE Step(p) \/ Die(p)
    BY <2>1, <2>2, <2>3, <2>4 DEF StepsLeft
  <2>5. CASE pc'[p] = pc[p]
    BY <2>1, <2>2, <2>3, <2>5 DEF StepsLeft
  <2>6. \A m \in Models : ~Open(p, m)
    BY <1>2 DEF Open
  <2>7. Step(p) \/ Die(p) \/ pc'[p] = pc[p]
    BY <1>2, <2>6, OthersStay DEF Next, LoadByHand, Others
  <2>8. QED
    BY <2>4, <2>5, <2>7
<1>3. TypeOK /\ [Next]_vars =>
        [\A p \in Processes : ~At(p, "out") =>
            /\ StepsLeft(p)' <= StepsLeft(p)
            /\ Step(p) => StepsLeft(p)' < StepsLeft(p)
            /\ Die(p) => StepsLeft(p)' = 0]_vars
  BY <1>2
<1>4. QED
  BY <1>1, <1>3, TypeCorrect, PTL DEF Spec, SessionsShorten
=============================================================================
