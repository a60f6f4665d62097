---------------------------- MODULE ContainerExec ----------------------------
(***************************************************************************)
(* Commands in the tool container: ContainerExecutor.run, spawn and _exec  *)
(* of harness/container.py, and how PiDriver reads the result of a spawn   *)
(* (harness/driver_pi.py).                                                 *)
(*                                                                         *)
(* A call starts `timeout` in the container, which starts the command and  *)
(* signals its process group when the time is up, first TERM and, if the   *)
(* command is still there some seconds later, KILL.  The host waits a few  *)
(* seconds longer than the time allowed and then, as a backstop, asks the  *)
(* container to kill what carries the call's marker.  The host runs one    *)
(* call after another, but what a call leaves running runs on.             *)
(*                                                                         *)
(* Abstractions.  A command is its leader (the shell or pi), one member of *)
(* its process group and one stray outside it, present or not.  Time is    *)
(* the signals sent so far.  An output is whether pi's agent_end is in it. *)
(***************************************************************************)
EXTENDS Integers, Sequences

CONSTANTS
    Kinds,          \* the calls considered, a subset of {"run", "spawn"}
    Faults,         \* whether docker, its client or its daemon, fails or hangs
    MaxCommands     \* bound: calls made

ASSUME ExecAssumption ==
    /\ Kinds \subseteq {"run", "spawn"}
    /\ Faults \in BOOLEAN
    /\ MaxCommands \in Nat

\* --kill-after, and BACKSTOP_GRACE_S.
KillAfter     == [run |-> 2, spawn |-> 5]
BackstopGrace == 5

VARIABLES
    pc,         \* the host: "idle", "waiting" for the client, "reaping"
    kinds,      \* the calls made, in order; the last is the current one
    alarm,      \* alarm[c]: "set", or the signal `timeout` sent last
    top,        \* top[c]: `timeout` is "running", was killed ("gone"), or its status
    alive,      \* processes in the container, [cmd, role]
    settled,    \* spawned calls whose pi has written agent_end
    result,     \* what the last call returned
    reaped,     \* history: calls that ended by the backstop
    lost        \* history: calls whose docker client failed

vars == <<pc, kinds, alarm, top, alive, settled, result, reaped, lost>>

n == Len(kinds)

Started == 1..n

Proc(c, role) == [cmd |-> c, role |-> role]
Leader(c)     == Proc(c, "leader")
Group(c)      == {Leader(c), Proc(c, "member")}
Of(c)         == Group(c) \cup {Proc(c, "stray")}

Init ==
    /\ pc = "idle"
    /\ kinds = <<>>
    /\ alarm = [c \in 1..MaxCommands |-> "set"]
    /\ top = [c \in 1..MaxCommands |-> "running"]
    /\ alive = {}
    /\ settled = {}
    /\ result = [cmd |-> 0, status |-> "none", code |-> "none", agentEnd |-> FALSE]
    /\ reaped = {}
    /\ lost = {}

Returns(status, code, agentEnd) ==
    /\ pc' = "idle"
    /\ result' = [cmd |-> n, status |-> status, code |-> code, agentEnd |-> agentEnd]

-----------------------------------------------------------------------------
(* In the container.                                                       *)

container == <<alarm, top, alive, settled>>
host      == <<pc, kinds, result, reaped, lost>>

\* The leader ends by itself, with any status (the memory limit kills with 137), and
\* `timeout` with it.  Once the alarm has gone off its status is 124.
LeaderEnds(c) ==
    /\ Leader(c) \in alive
    /\ alive' = alive \ {Leader(c)}
    /\ IF top[c] # "running" THEN UNCHANGED top
       ELSE \E status \in IF alarm[c] = "set" THEN {"own", "124", "137"} ELSE {"124"} :
               top' = [top EXCEPT ![c] = status]
    /\ UNCHANGED <<host, alarm, settled>>

OtherEnds(p) ==
    /\ p \in alive
    /\ p.role # "leader"
    /\ alive' = alive \ {p}
    /\ UNCHANGED <<host, alarm, top, settled>>

Settles(c) ==
    /\ kinds[c] = "spawn"
    /\ Leader(c) \in alive
    /\ settled' = settled \cup {c}
    /\ UNCHANGED <<host, alarm, top, alive>>

\* The time is up: TERM to the group, of which any may ignore it or take its time.
\* `timeout` waits for the leader only.
AlarmFires(c) ==
    /\ top[c] = "running"
    /\ alarm[c] = "set"
    /\ alarm' = [alarm EXCEPT ![c] = "term"]
    /\ \E dead \in SUBSET Group(c) :
         /\ alive' = alive \ dead
         /\ top' = [top EXCEPT ![c] = IF Leader(c) \in dead THEN "124" ELSE "running"]
    /\ UNCHANGED <<host, settled>>

KillsLeaderOnly(c) ==
    /\ top[c] = "running"
    /\ alarm[c] = "term"
    /\ alarm' = [alarm EXCEPT ![c] = "kill"]
    /\ alive' = alive \ {Leader(c)}
    /\ top' = [top EXCEPT ![c] = "137"]
    /\ UNCHANGED <<host, settled>>

\* The leader is still there after --kill-after: KILL to the group, `timeout` itself
\* in it, so that the status is 137.
KillFires(c) ==
    /\ top[c] = "running"
    /\ alarm[c] = "term"
    /\ alarm' = [alarm EXCEPT ![c] = "kill"]
    /\ alive' = alive \ Group(c)
    /\ top' = [top EXCEPT ![c] = "137"]
    /\ UNCHANGED <<host, settled>>

-----------------------------------------------------------------------------
(* On the host.                                                            *)

Start(k) ==
    /\ pc = "idle"
    /\ n < MaxCommands
    /\ kinds' = Append(kinds, k)
    /\ pc' = "waiting"
    /\ \E others \in SUBSET {Proc(n + 1, "member"), Proc(n + 1, "stray")} :
         alive' = alive \cup others \cup {Leader(n + 1)}
    /\ UNCHANGED <<alarm, top, settled, result, reaped, lost>>

\* No docker client, or no process for it.
StartFails ==
    /\ Faults
    /\ pc = "idle"
    /\ n < MaxCommands
    /\ result' = [cmd |-> 0, status |-> "error", code |-> "none", agentEnd |-> FALSE]
    /\ UNCHANGED <<pc, kinds, reaped, lost, container>>

ClientReturnsEarly ==
    /\ pc = "waiting"
    /\ Returns(IF top[n] = "124" THEN "timed_out" ELSE "exited", top[n], n \in settled)
    /\ UNCHANGED <<kinds, reaped, lost, container>>

\* The docker client exits with the status of `timeout`.
ClientReturns ==
    /\ pc = "waiting"
    /\ top[n] # "running"
    /\ Returns(IF top[n] = "124" THEN "timed_out" ELSE "exited", top[n], n \in settled)
    /\ UNCHANGED <<kinds, reaped, lost, container>>

\* The docker client ends by itself, its connection lost or the daemon gone, with a
\* status of its own and what it has printed so far; the command may run on.  The host
\* takes the status for the command's.
ClientFails ==
    /\ Faults
    /\ pc = "waiting"
    /\ \E agentEnd \in BOOLEAN :
         /\ agentEnd => n \in settled
         /\ Returns("exited", "client", agentEnd)
    /\ lost' = lost \cup {n}
    /\ UNCHANGED <<kinds, reaped, container>>

\* communicate's own timeout: the container was slower than the grace, as it may be
\* where both wait the same five seconds, or the client waits for a process that
\* still holds the output, or docker hangs.
HostTimer ==
    /\ pc = "waiting"
    /\ \/ Faults
       \/ alarm[n] = "term" /\ KillAfter[kinds[n]] >= BackstopGrace
       \/ top[n] # "running" /\ Of(n) \cap alive # {}
    /\ pc' = "reaping"
    /\ UNCHANGED <<kinds, result, reaped, lost, container>>

PkillTimeout ==
    /\ top' = [top EXCEPT ![n] = IF @ = "running" THEN "gone" ELSE @]
    /\ UNCHANGED <<alarm, alive, settled>>

\* pkill -KILL by the marker.  The marker of a run is in the command lines of
\* `timeout`, of the shell and of what the shell forks, but not of what it executes; a
\* spawn is not given its marker.
Pkill ==
    /\ \E hit \in IF kinds[n] = "run" THEN SUBSET Of(n) ELSE {{}} : alive' = alive \ hit
    /\ top' = [top EXCEPT ![n] = IF kinds[n] = "run" /\ @ = "running" THEN "gone" ELSE @]
    /\ UNCHANGED <<alarm, settled>>

\* The client is waited for without having been killed.
ReapWaits ==
    /\ pc = "reaping"
    /\ Of(n) \cap alive = {}
    /\ Pkill
    /\ Returns("timed_out", "124", FALSE)
    /\ reaped' = reaped \cup {n}
    /\ UNCHANGED <<kinds, lost>>

\* The backstop.
Reap ==
    /\ pc = "reaping"
    /\ Pkill
    /\ Returns("timed_out", "124", FALSE)
    /\ reaped' = reaped \cup {n}
    /\ UNCHANGED <<kinds, lost>>

\* `docker exec pkill` hangs too, its work done or not: the ExecutionError leaves _exec.
ReapFails ==
    /\ Faults
    /\ pc = "reaping"
    /\ Pkill \/ UNCHANGED container
    /\ Returns("error", "none", FALSE)
    /\ reaped' = reaped \cup {n}
    /\ UNCHANGED <<kinds, lost>>

HostStep == ClientReturns \/ HostTimer \/ Reap

Next ==
    \/ \E k \in Kinds : Start(k)
    \/ StartFails
    \/ HostStep \/ ReapFails \/ ClientFails
    \/ \E c \in Started : LeaderEnds(c) \/ Settles(c) \/ AlarmFires(c) \/ KillFires(c)
    \/ \E p \in alive : OtherEnds(p)

\* The host takes its next step and the two alarms go off.  Nothing in the container
\* ends by itself, and no failure is owed.
Spec ==
    /\ Init /\ [][Next]_vars
    /\ WF_vars(HostStep)
    /\ \A c \in 1..MaxCommands :
          /\ WF_vars(c \in Started /\ AlarmFires(c))
          /\ WF_vars(c \in Started /\ KillFires(c))

-----------------------------------------------------------------------------
(* PiDriver: what a spawned run is recorded as.                            *)

AnswerFirst(r) ==
    IF r.agentEnd THEN "answered"
    ELSE IF r.status = "timed_out" THEN "timeout"
    ELSE "server_error"

\* "answered" is final_answer or empty_answer, by the text.
Termination(r) ==
    IF r.status = "error" THEN "server_error"
    ELSE IF r.status = "timed_out" THEN "timeout"
    ELSE IF r.agentEnd THEN "answered"
    ELSE "server_error"

-----------------------------------------------------------------------------
(* Properties.                                                             *)

TypeOK ==
    /\ pc \in {"idle", "waiting", "reaping"}
    /\ kinds \in Seq(Kinds) /\ n <= MaxCommands
    /\ alarm \in [1..MaxCommands -> {"set", "term", "kill"}]
    /\ top \in [1..MaxCommands -> {"running", "gone", "own", "124", "137"}]
    /\ alive \subseteq UNION {Of(c) : c \in Started}
    /\ settled \subseteq Started
    /\ reaped \subseteq Started /\ lost \subseteq Started
    /\ result \in [cmd : 0..MaxCommands, status : {"none", "exited", "timed_out", "error"},
                   code : {"none", "own", "124", "137", "client"}, agentEnd : BOOLEAN]

\* What a call returns is what became of its command, whatever was left running by the
\* calls before: a command that "exited" is over and ended in time or by a KILL; one
\* that "timed out" was over its time, chose 124 itself, or was given up; and an answer
\* is recorded only of a pi that settled and was not reported as timed out.  Only where
\* docker's client itself failed does "exited" say nothing of the command.
ResultIsHonest ==
    LET c == result.cmd IN
    (pc = "idle" /\ c > 0) =>
        /\ result.status = "exited" /\ c \notin lost =>
             /\ Leader(c) \notin alive
             /\ top[c] = result.code
             /\ alarm[c] = "set" \/ result.code = "137"
        /\ result.status = "timed_out" => alarm[c] # "set" \/ top[c] = "124" \/ c \in reaped
        /\ Termination(result) = "answered" =>
             c \in settled /\ c \notin reaped /\ (top[c] # "124" \/ c \in lost)

\* What is still running of a call that has returned left its process group, was left
\* by a leader that ended, outlived TERM when its leader did not, or belongs to a call
\* that had to be given up or was lost with its docker client.  A leader, above all pi,
\* never outlives its call otherwise.
SurvivorsKnown ==
    \A p \in alive :
        \/ p.cmd = n /\ pc # "idle"
        \/ p.role = "stray"
        \/ p.cmd \in reaped \cup lost
        \/ p.role = "member" /\ alarm[p.cmd] # "kill"

\* A pi whose time is up dies, though it ignores TERM and though the backstop gives it
\* up first (the comment in spawn: --kill-after still guarantees death).
SpawnDies ==
    \A c \in 1..MaxCommands :
        (c \in Started /\ kinds[c] = "spawn" /\ alarm[c] = "term") ~> (Leader(c) \notin alive)

\* A call returns, whatever its command does and docker fails to do.
CallReturns == (pc # "idle") ~> (pc = "idle")

\* A pi run that was over its time is recorded as a timeout (the comment in spawn, and
\* the termination table of doc/benchmark.md).
OverrunIsTimeout ==
    LET c == result.cmd IN
    (pc = "idle" /\ c > 0 /\ kinds[c] = "spawn" /\ alarm[c] # "set")
        => Termination(result) = "timeout"
=============================================================================
