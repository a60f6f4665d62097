----------------------------- MODULE ModelBracket -----------------------------
(***************************************************************************)
(* What a stage takes from the machine and gives back: the tool container  *)
(* (container_session of harness/container.py) around the resident model   *)
(* (loaded, load, unload_all and list_loaded of harness/lmstudio.py), as   *)
(* _model_session nests them.                                              *)
(*                                                                         *)
(* Every command goes to a server, docker or LM Studio, that all harness   *)
(* processes share; it may fail, or time out with its effect done or not.  *)
(* A process may be killed at any step and start another session later.    *)
(* The operator may load models by hand.                                   *)
(*                                                                         *)
(* Abstractions.  A model is its path.  A container is the number of the   *)
(* session that started it, its name being unique.  The stage itself is    *)
(* one step that returns or raises.                                        *)
(***************************************************************************)
EXTENDS Integers

CONSTANTS
    Processes,     \* harness processes on the machine
    Models,        \* paths of the downloaded models
    Faults,        \* whether commands fail or time out, and processes die
    MaxSessions    \* bound: sessions started

ASSUME BracketAssumption == Faults \in BOOLEAN /\ MaxSessions \in Nat

VARIABLES
    resident,      \* LM Studio: models loaded now
    containers,    \* docker: tool containers running
    pc,            \* pc[p]: "out" of any session, or what p does next
    model,         \* model[p]: what p's session loads, NoModel when out
    session,       \* session[p]: the number of p's session, 0 when out
    started,       \* history: sessions started
    took,          \* history: how far p's session came, see Took
    calm,          \* history: since when nobody else has loaded or unloaded
    left           \* history: left[s] is how session s was left, see Leave

vars == <<resident, containers, pc, model, session, started, took, calm, left>>

servers == <<resident, containers>>

NoModel == "none"

Init ==
    /\ resident \in SUBSET Models
    /\ containers = {}
    /\ pc = [p \in Processes |-> "out"]
    /\ model = [p \in Processes |-> NoModel]
    /\ session = [p \in Processes |-> 0]
    /\ started = 0
    /\ took = [p \in Processes |-> "nothing"]
    /\ calm = [p \in Processes |-> "opened"]
    /\ left = [s \in 1..MaxSessions |-> "unused"]

-----------------------------------------------------------------------------
(* Steps of a session.                                                     *)

At(p, place) == pc[p] = place

Go(p, place) == pc' = [pc EXCEPT ![p] = place]

\* "load": the session's own load made its model resident; "body": the stage ran.
Took(p, what) == took' = [took EXCEPT ![p] = what]

\* LM Studio changes under the other open sessions, which were undisturbed since
\* they were "opened", or since they had it "checked".
Disturb(others) ==
    calm' = [p \in Processes |-> IF p \in others /\ ~At(p, "out") THEN "disturbed" ELSE calm[p]]

Others(p) == Processes \ {p}

LeaveInPlace(p, how) ==
    /\ left' = [left EXCEPT ![session[p]] = how]
    /\ UNCHANGED <<pc, model, session, took, calm>>

\* The session is over and what it knew is gone.  "cleanly": what it issued on the way
\* out did what it was asked; "failing": some of it did not; "killed": it issued nothing.
Leave(p, how) ==
    /\ Go(p, "out")
    /\ left' = [left EXCEPT ![session[p]] = how]
    /\ model' = [model EXCEPT ![p] = NoModel]
    /\ session' = [session EXCEPT ![p] = 0]
    /\ Took(p, "nothing")
    /\ calm' = [calm EXCEPT ![p] = "opened"]

Open(p, m) ==
    /\ At(p, "out")
    /\ started < MaxSessions
    /\ started' = started + 1
    /\ session' = [session EXCEPT ![p] = started']
    /\ left' = [left EXCEPT ![started'] = "open"]
    /\ model' = [model EXCEPT ![p] = m]
    /\ Go(p, "start_container")
    /\ UNCHANGED <<servers, took, calm>>

LoadByHand(m) ==
    /\ resident' = resident \cup {m}
    /\ Disturb(Processes)
    /\ UNCHANGED <<containers, pc, model, session, started, took, left>>

Die(p) ==
    /\ Faults
    /\ ~At(p, "out")
    /\ Leave(p, "killed")
    /\ UNCHANGED <<servers, started>>

-----------------------------------------------------------------------------
(* container_session.                                                      *)

StartContainer(p) ==
    /\ At(p, "start_container")
    /\ containers' = containers \cup {session[p]}
    /\ Go(p, "unload_first")
    /\ UNCHANGED <<resident, model, session, started, took, calm, left>>

\* No docker, no image, or `docker run` fails; or its client times out and the
\* container runs all the same.  The try has not been entered.
StartFails(p) ==
    /\ Faults
    /\ At(p, "start_container")
    /\ \/ UNCHANGED containers /\ Leave(p, "cleanly")
       \/ containers' = containers \cup {session[p]} /\ Leave(p, "failing")
    /\ UNCHANGED <<resident, started>>

\* _image_provenance times out, inside the try.
ProvenanceFails(p) ==
    /\ Faults
    /\ At(p, "unload_first")
    /\ Go(p, "remove")
    /\ UNCHANGED <<servers, model, session, started, took, calm, left>>

Removing(p) == At(p, "remove") \/ At(p, "remove_failing")

LeaveRunning(p) ==
    /\ Removing(p)
    /\ Leave(p, IF At(p, "remove") THEN "cleanly" ELSE "failing")
    /\ UNCHANGED <<servers, started>>

RemoveEveryContainer(p) ==
    /\ Removing(p)
    /\ containers' = {}
    /\ Leave(p, IF At(p, "remove") THEN "cleanly" ELSE "failing")
    /\ UNCHANGED <<resident, started>>

\* The finally: `docker rm -f`.
RemoveContainer(p) ==
    /\ Removing(p)
    /\ containers' = containers \ {session[p]}
    /\ Leave(p, IF At(p, "remove") THEN "cleanly" ELSE "failing")
    /\ UNCHANGED <<resident, started>>

\* Its exit status is ignored, a timeout raises.
RemoveFails(p) ==
    /\ Faults
    /\ Removing(p)
    /\ containers' \in {containers, containers \ {session[p]}}
    /\ Leave(p, "failing")
    /\ UNCHANGED <<resident, started>>

-----------------------------------------------------------------------------
(* lmstudio.loaded.                                                        *)

UnloadFirst(p) ==
    /\ At(p, "unload_first")
    /\ resident' = {}
    /\ Disturb(Others(p))
    /\ Go(p, "load")
    /\ UNCHANGED <<containers, model, session, started, took, left>>

\* unload_all raises on a non-zero status and on a timeout.
UnloadFirstFails(p) ==
    /\ Faults
    /\ At(p, "unload_first")
    /\ \/ UNCHANGED <<resident, calm>>
       \/ resident' = {} /\ Disturb(Others(p))
    /\ Go(p, "remove_failing")
    /\ UNCHANGED <<containers, model, session, started, took, left>>

Load(p) ==
    /\ At(p, "load")
    /\ resident' = resident \cup {model[p]}
    /\ Disturb(Others(p))
    /\ Took(p, "load")
    /\ Go(p, "verify")
    /\ UNCHANGED <<containers, model, session, started, left>>

\* `lms load` takes a key that is part of another model's key for that model.
LoadsAnother(p) ==
    /\ At(p, "load")
    /\ \E m \in Models \ {model[p]} : resident' = resident \cup {m}
    /\ Disturb(Others(p))
    /\ Go(p, "verify")
    /\ UNCHANGED <<containers, model, session, started, took, left>>

\* resolve matches no model, the load is refused (ModelOversizedError among it), or
\* `lms load` times out and the server loads all the same.  None of it is in the try.
LoadFails(p) ==
    /\ At(p, "load")
    /\ \/ UNCHANGED <<resident, calm, took>>
       \/ Faults /\ resident' = resident \cup {model[p]} /\ Disturb(Others(p))
                 /\ Took(p, "load")
    /\ Go(p, "remove")
    /\ UNCHANGED <<containers, model, session, started, left>>

\* `lms ps` shows the artefact that was asked for.
Verify(p) ==
    /\ At(p, "verify")
    /\ model[p] \in resident
    /\ Go(p, "capture")
    /\ UNCHANGED <<servers, model, session, started, took, calm, left>>

\* It does not, or it fails; load raises, still outside the try.
VerifyFails(p) ==
    /\ At(p, "verify")
    /\ Faults \/ model[p] \notin resident
    /\ Go(p, "remove")
    /\ UNCHANGED <<servers, model, session, started, took, calm, left>>

UnloadOthers(p) ==
    /\ At(p, "unload")
    /\ resident' = resident \cap {model[p]}
    /\ Disturb(Others(p))
    /\ Go(p, "remove")
    /\ UNCHANGED <<containers, model, session, started, took, left>>

\* The finally: `lms unload --all`.
UnloadLast(p) ==
    /\ At(p, "unload")
    /\ resident' = {}
    /\ Disturb(Others(p))
    /\ Go(p, "remove")
    /\ UNCHANGED <<containers, model, session, started, took, left>>

UnloadLastFails(p) ==
    /\ Faults
    /\ At(p, "unload")
    /\ \/ UNCHANGED <<resident, calm>>
       \/ resident' = {} /\ Disturb(Others(p))
    /\ Go(p, "remove_failing")
    /\ UNCHANGED <<containers, model, session, started, took, left>>

-----------------------------------------------------------------------------
(* The stage.                                                              *)

Checked(p) ==
    calm' = [calm EXCEPT ![p] = IF @ = "disturbed" THEN "checked" ELSE @]

CaptureUnchecked(p) ==
    /\ At(p, "capture")
    /\ Took(p, "body")
    /\ Checked(p)
    /\ Go(p, "body")
    /\ UNCHANGED <<servers, model, session, started, left>>

\* environment._assert_resident_state: no other model is resident.
Capture(p) ==
    /\ At(p, "capture")
    /\ resident \subseteq {model[p]}
    /\ Took(p, "body")
    /\ Checked(p)
    /\ Go(p, "body")
    /\ UNCHANGED <<servers, model, session, started, left>>

CaptureRefuses(p) ==
    /\ At(p, "capture")
    /\ Faults \/ ~(resident \subseteq {model[p]})
    /\ Took(p, "body")
    /\ Go(p, "unload")
    /\ UNCHANGED <<servers, model, session, started, calm, left>>

BodyWaitsForTheOthers(p) ==
    /\ At(p, "body")
    /\ \A q \in Others(p) : At(q, "out")
    /\ Go(p, "unload")
    /\ UNCHANGED <<servers, model, session, started, took, calm, left>>

\* The stage returns or raises.
Body(p) ==
    /\ At(p, "body")
    /\ Go(p, "unload")
    /\ UNCHANGED <<servers, model, session, started, took, calm, left>>

Step(p) ==
    \/ StartContainer(p) \/ StartFails(p) \/ ProvenanceFails(p)
    \/ RemoveContainer(p) \/ RemoveFails(p)
    \/ UnloadFirst(p) \/ UnloadFirstFails(p)
    \/ Load(p) \/ LoadsAnother(p) \/ LoadFails(p)
    \/ Verify(p) \/ VerifyFails(p) \/ UnloadLast(p) \/ UnloadLastFails(p)
    \/ Capture(p) \/ CaptureRefuses(p) \/ Body(p)

Next ==
    \/ \E p \in Processes : Step(p) \/ Die(p) \/ \E m \in Models : Open(p, m)
    \/ \E m \in Models : LoadByHand(m)

\* Every command has a timeout, so a process in a session takes its next step.
Spec == Init /\ [][Next]_vars /\ \A p \in Processes : WF_vars(Step(p))

-----------------------------------------------------------------------------
(* Properties.                                                             *)

Places == {"out", "start_container", "unload_first", "load", "verify", "capture",
           "body", "unload", "remove", "remove_failing"}

\* Every variable stays in its range, and an open session is the process's own.
TypeOK ==
    /\ resident \subseteq Models
    /\ containers \subseteq 1..started
    /\ pc \in [Processes -> Places]
    /\ model \in [Processes -> Models \cup {NoModel}]
    /\ session \in [Processes -> 0..started]
    /\ started \in 0..MaxSessions
    /\ took \in [Processes -> {"nothing", "load", "body"}]
    /\ calm \in [Processes -> {"opened", "checked", "disturbed"}]
    /\ left \in [1..MaxSessions -> {"unused", "open", "cleanly", "failing", "killed"}]
    /\ \A p \in Processes : ~At(p, "out") =>
          /\ model[p] \in Models
          /\ session[p] \in 1..MaxSessions
          /\ left[session[p]] = "open"

\* A stage runs against the model it chose and no other, whatever earlier sessions
\* left behind, were they killed, timed out or stranded.  Where somebody used LM
\* Studio before the session's check, its model may be gone but no other is there.
StageHasItsModel ==
    \A p \in Processes : At(p, "body") =>
        /\ calm[p] = "opened" => resident = {model[p]}
        /\ calm[p] = "checked" => resident \subseteq {model[p]}

\* A session has its own container from start to end, whatever other sessions start,
\* remove or leak meanwhile.
ContainerIsThere ==
    \A p \in Processes :
        /\ pc[p] \notin {"out", "start_container"} => session[p] \in containers
        /\ \A q \in Others(p) :
              ~At(p, "out") /\ ~At(q, "out") => session[p] # session[q]

\* Only sessions that were killed, or met a failing docker or lms command on the way
\* out, leave a container running.
LeaksOnlyByFaults == \A s \in containers : left[s] # "cleanly"

Leaves(p, how) ==
    /\ ~At(p, "out")
    /\ pc'[p] = "out"
    /\ left'[session[p]] = how

\* A session whose stage was entered, and whose commands on the way out worked,
\* leaves no model in memory.
BodyStrandsNothing ==
    [][\A p \in Processes :
          Leaves(p, "cleanly") /\ took[p] = "body" /\ calm[p] = "opened" => resident' = {}]_vars

\* Every session ends.
SessionsEnd == \A p \in Processes : ~At(p, "out") ~> At(p, "out")

-----------------------------------------------------------------------------
(* What the repository says and the code does not keep.                    *)

\* lmstudio.loaded: "always unloads on the way out -- including on failure, so an
\* aborted stage does not strand a model in memory".
AbortStrandsNothing ==
    [][\A p \in Processes :
          Leaves(p, "cleanly") /\ took[p] # "nothing" /\ calm[p] = "opened" =>
              model[p] \notin resident']_vars
=============================================================================
