------------------------- MODULE ContainerExecProofs -------------------------
(***************************************************************************)
(* Proofs about ContainerExec: what a call returns, and what survives it.  *)
(*                                                                         *)
(* Neither is inductive: the host looks at the status of `timeout` once    *)
(* and never at the processes.  The invariant adds what the status of a    *)
(* call says of its processes for as long as the container runs, and what  *)
(* the host knows of the calls it has returned from.                       *)
(***************************************************************************)
EXTENDS ContainerExec, TLAPS

-----------------------------------------------------------------------------
(* The invariant.                                                          *)

Over(c) == top[c] \notin {"running", "gone"}

HasReturned(c) == c \in Started /\ (pc = "idle" \/ c < n)

\* A call not yet made is as Init left it.
FreshInv == \A c \in 1..MaxCommands : c > n => alarm[c] = "set" /\ top[c] = "running"

\* What `timeout` and its alarms say of the processes.
StatusInv ==
    \A c \in Started :
        /\ Over(c) => Leader(c) \notin alive
        /\ alarm[c] = "term" => top[c] \in {"running", "gone", "124"}
        /\ alarm[c] = "kill" => top[c] = "137" /\ Group(c) \cap alive = {}

\* What the host knows of its calls.
HostInv ==
    /\ pc # "idle" => n > 0 /\ n \notin reaped /\ n \notin lost
    /\ \A c \in Started : top[c] = "gone" => c \in reaped
    /\ \A c \in Started : HasReturned(c) => c \in reaped \cup lost \/ Over(c)

\* What the last result still says, however long ago it was returned.
ResultInv ==
    LET c == result.cmd IN
    c > 0 =>
        /\ HasReturned(c)
        /\ result.status # "none"
        /\ result.agentEnd => c \in settled
        /\ result.status = "exited" =>
             /\ c \notin reaped
             /\ c \in lost \/ (Over(c) /\ top[c] = result.code /\ top[c] # "124")
        /\ result.status = "timed_out" => top[c] = "124" \/ c \in reaped

Books == TypeOK /\ FreshInv /\ StatusInv /\ HostInv /\ ResultInv

-----------------------------------------------------------------------------
(* Processes.                                                              *)

\* A process is named by its call and its role.
LEMMA Names ==
    /\ \A c, d : \A p \in Of(c) : p \in Of(d) => c = d
    /\ \A c : \A p \in Of(c) : p.cmd = c /\ p.role \in {"leader", "member", "stray"}
    /\ \A c : \A p \in Of(c) : p.role = "leader" => p = Leader(c)
    /\ \A c : \A p \in Of(c) : p.role = "member" => p \in Group(c)
    /\ \A c : Leader(c) \in Group(c) /\ Group(c) \subseteq Of(c)
  BY DEF Of, Group, Leader, Proc

\* The calls made so far are numbered from 1.
LEMMA Numbers ==
    ASSUME TypeOK
    PROVE  /\ n \in 0..MaxCommands /\ n \in Nat
           /\ Started \subseteq 1..MaxCommands
           /\ \A c : c \in Started <=> c \in Nat /\ 1 <= c /\ c <= n
<1>1. n \in Nat /\ n <= MaxCommands
  BY DEF TypeOK, n
<1>2. QED
  BY <1>1, ExecAssumption DEF Started

-----------------------------------------------------------------------------
(* Steps.                                                                  *)

\* The invariant holds before the first call.
LEMMA InitBooks == Init => Books
<1> SUFFICES ASSUME Init PROVE Books
  OBVIOUS
<1>1. n = 0 /\ Started = {} /\ kinds \in Seq(Kinds)
  BY DEF Init, n, Started
<1>2. TypeOK
  BY <1>1, ExecAssumption DEF Init, TypeOK
<1>3. QED
  BY <1>1, <1>2 DEF Init, Books, FreshInv, StatusInv, HostInv, ResultInv

\* What happens in the container while the host does nothing.
LEMMA InContainer ==
    ASSUME Books, UNCHANGED host,
           alive' \subseteq alive,
           settled \subseteq settled', settled' \subseteq Started,
           NEW c \in Started,
           alarm' \in [1..MaxCommands -> {"set", "term", "kill"}],
           top' \in [1..MaxCommands -> {"running", "gone", "own", "124", "137"}],
           \A d \in 1..MaxCommands : d # c => alarm'[d] = alarm[d] /\ top'[d] = top[d],
           top'[c] # top[c] => top[c] = "running" /\ top'[c] # "gone",
           top'[c] \notin {"running", "gone"} => Leader(c) \notin alive',
           alarm'[c] = "term" => top'[c] \in {"running", "gone", "124"},
           alarm'[c] = "kill" => top'[c] = "137" /\ Group(c) \cap alive' = {}
    PROVE  Books'
<1>1. /\ n' = n /\ Started' = Started /\ pc' = pc /\ kinds' = kinds
      /\ result' = result /\ reaped' = reaped /\ lost' = lost
  BY DEF host, n, Started
<1>2. n \in Nat /\ Started \subseteq 1..MaxCommands /\ (\A d : d \in Started => d <= n)
  BY Numbers DEF Books
<1>3. TypeOK'
  BY <1>1 DEF Books, TypeOK
<1>4. FreshInv'
  BY <1>1, <1>2 DEF Books, FreshInv
<1>5. StatusInv'
  BY <1>1, <1>2 DEF Books, StatusInv, Over
<1>6. HostInv'
  BY <1>1, <1>2 DEF Books, HostInv, HasReturned, Over
<1>7. ResultInv'
  BY <1>1, <1>2 DEF Books, ResultInv, HasReturned, Over
<1>8. QED
  BY <1>3, <1>4, <1>5, <1>6, <1>7 DEF Books

\* A command that ends or settles, and the two alarms, keep the invariant.
LEMMA ContainerKeepsBooks ==
    ASSUME Books, NEW c \in Started,
           LeaderEnds(c) \/ Settles(c) \/ AlarmFires(c) \/ KillFires(c)
    PROVE  Books'
<1> USE DEF Books
<1>0. Started \subseteq 1..MaxCommands /\ c \in 1..MaxCommands
  BY Numbers
<1>t. /\ alarm \in [1..MaxCommands -> {"set", "term", "kill"}]
      /\ top \in [1..MaxCommands -> {"running", "gone", "own", "124", "137"}]
      /\ settled \subseteq Started
  BY DEF TypeOK
<1>s. /\ top[c] \notin {"running", "gone"} => Leader(c) \notin alive
      /\ alarm[c] = "term" => top[c] \in {"running", "gone", "124"}
      /\ alarm[c] = "kill" => top[c] = "137" /\ Group(c) \cap alive = {}
  BY DEF StatusInv, Over
<1>1. CASE LeaderEnds(c)
  <2>1. alarm[c] # "kill"
    BY <1>1, <1>s, Names DEF LeaderEnds
  <2>2. CASE top[c] # "running"
    BY <1>0, <1>1, <1>t, <1>s, <2>2, InContainer DEF LeaderEnds
  <2>3. CASE top[c] = "running"
    <3>1. PICK status \in {"own", "124", "137"} :
              /\ top' = [top EXCEPT ![c] = status]
              /\ alarm[c] # "set" => status = "124"
      BY <1>1, <2>3 DEF LeaderEnds
    <3>2. alive' = alive \ {Leader(c)} /\ UNCHANGED <<host, alarm, settled>>
      BY <1>1 DEF LeaderEnds
    <3>3. top'[c] = status /\ \A d \in 1..MaxCommands : d # c => top'[d] = top[d]
      BY <1>0, <1>t, <3>1
    <3>4. top' \in [1..MaxCommands -> {"running", "gone", "own", "124", "137"}]
      BY <1>0, <1>t, <3>1
    <3>5. QED
      BY <1>0, <1>t, <1>s, <2>1, <2>3, <3>1, <3>2, <3>3, <3>4, InContainer
  <2>4. QED
    BY <2>2, <2>3
<1>2. CASE Settles(c)
  BY <1>0, <1>2, <1>t, <1>s, InContainer DEF Settles
<1>3. CASE AlarmFires(c)
  <2>1. PICK dead \in SUBSET Group(c) :
            /\ alive' = alive \ dead
            /\ top' = [top EXCEPT ![c] = IF Leader(c) \in dead THEN "124" ELSE "running"]
    BY <1>3 DEF AlarmFires
  <2>2. /\ top[c] = "running" /\ alarm' = [alarm EXCEPT ![c] = "term"]
        /\ UNCHANGED <<host, settled>>
    BY <1>3 DEF AlarmFires
  <2>3. /\ alarm'[c] = "term" /\ top'[c] \in {"running", "124"}
        /\ top'[c] = "124" => Leader(c) \notin alive'
        /\ \A d \in 1..MaxCommands : d # c => alarm'[d] = alarm[d] /\ top'[d] = top[d]
    BY <1>0, <1>t, <2>1, <2>2
  <2>4. /\ alarm' \in [1..MaxCommands -> {"set", "term", "kill"}]
        /\ top' \in [1..MaxCommands -> {"running", "gone", "own", "124", "137"}]
    BY <1>0, <1>t, <2>1, <2>2
  <2>5. QED
    BY <1>t, <2>1, <2>2, <2>3, <2>4, InContainer
<1>4. CASE KillFires(c)
  <2>1. /\ top[c] = "running" /\ alarm' = [alarm EXCEPT ![c] = "kill"]
        /\ alive' = alive \ Group(c) /\ top' = [top EXCEPT ![c] = "137"]
        /\ UNCHANGED <<host, settled>>
    BY <1>4 DEF KillFires
  <2>2. /\ alarm'[c] = "kill" /\ top'[c] = "137"
        /\ \A d \in 1..MaxCommands : d # c => alarm'[d] = alarm[d] /\ top'[d] = top[d]
    BY <1>0, <1>t, <2>1
  <2>3. /\ alarm' \in [1..MaxCommands -> {"set", "term", "kill"}]
        /\ top' \in [1..MaxCommands -> {"running", "gone", "own", "124", "137"}]
    BY <1>0, <1>t, <2>1
  <2>4. Group(c) \cap alive' = {} /\ Leader(c) \notin alive'
    BY <2>1, Names
  <2>5. QED
    BY <1>t, <2>1, <2>2, <2>3, <2>4, InContainer
<1>5. QED
  BY <1>1, <1>2, <1>3, <1>4

\* So does the end of anything else a command started.
LEMMA OtherEndsKeepsBooks ==
    ASSUME Books, NEW p \in alive, OtherEnds(p)
    PROVE  Books'
<1>1. PICK c \in Started : p \in Of(c)
  BY DEF Books, TypeOK
<1>2. alive' = alive \ {p} /\ UNCHANGED <<host, alarm, top, settled>>
  BY DEF OtherEnds
<1>3. /\ top[c] \notin {"running", "gone"} => Leader(c) \notin alive
      /\ alarm[c] = "term" => top[c] \in {"running", "gone", "124"}
      /\ alarm[c] = "kill" => top[c] = "137" /\ Group(c) \cap alive = {}
  BY DEF Books, StatusInv, Over
<1>4. /\ alarm \in [1..MaxCommands -> {"set", "term", "kill"}]
      /\ top \in [1..MaxCommands -> {"running", "gone", "own", "124", "137"}]
      /\ settled \subseteq Started
  BY DEF Books, TypeOK
<1>5. QED
  BY <1>2, <1>3, <1>4, InContainer

\* A new call disturbs nothing of the calls before.
LEMMA StartKeepsBooks ==
    ASSUME Books, NEW k \in Kinds, Start(k)
    PROVE  Books'
<1> USE DEF Books
<1>1. /\ pc = "idle" /\ pc' = "waiting" /\ n < MaxCommands
      /\ kinds' = Append(kinds, k)
      /\ UNCHANGED <<alarm, top, settled, result, reaped, lost>>
  BY DEF Start
<1>2. PICK others \in SUBSET {Proc(n + 1, "member"), Proc(n + 1, "stray")} :
          alive' = alive \cup others \cup {Leader(n + 1)}
  BY DEF Start
<1>3. kinds' \in Seq(Kinds) /\ n' = n + 1 /\ n \in Nat /\ n + 1 \in 1..MaxCommands
  BY <1>1, Numbers, ExecAssumption DEF TypeOK, n
<1>4. /\ Started' = Started \cup {n + 1} /\ n + 1 \notin Started
      /\ Started' \subseteq 1..MaxCommands
      /\ \A c : c \in Started <=> c \in Nat /\ 1 <= c /\ c <= n
  BY <1>3, Numbers, ExecAssumption DEF Started
<1>5. alive' \ alive \subseteq Of(n + 1)
  BY <1>2 DEF Of, Group, Leader
<1>6. TypeOK'
  BY <1>1, <1>3, <1>4, <1>5 DEF TypeOK
<1>7. FreshInv'
  BY <1>1, <1>3 DEF FreshInv
<1>8. \A c \in Started : Of(c) \cap alive' = Of(c) \cap alive
  BY <1>2, <1>4, <1>5, Names
<1>9. StatusInv'
  <2>1. ASSUME NEW c \in Started
        PROVE  /\ Over(c)' => Leader(c) \notin alive'
               /\ alarm'[c] = "term" => top'[c] \in {"running", "gone", "124"}
               /\ alarm'[c] = "kill" => top'[c] = "137" /\ Group(c) \cap alive' = {}
    BY <1>1, <1>8, Names DEF StatusInv, Over
  <2>2. alarm'[n + 1] = "set" /\ top'[n + 1] = "running"
    BY <1>1, <1>3 DEF FreshInv
  <2>3. QED
    BY <1>4, <2>1, <2>2 DEF StatusInv, Over
<1>10. reaped \subseteq Started /\ lost \subseteq Started /\ settled \subseteq Started
  BY DEF TypeOK
<1>11. HostInv'
  <2>1. top[n + 1] = "running"
    BY <1>3 DEF FreshInv
  <2>2. QED
    BY <1>1, <1>3, <1>4, <1>10, <2>1 DEF HostInv, HasReturned, Over
<1>12. ResultInv'
  BY <1>1, <1>3, <1>4 DEF ResultInv, HasReturned, Over
<1>13. QED
  BY <1>6, <1>7, <1>9, <1>11, <1>12

\* The client's return tells the host of a status that is final.
LEMMA ClientKeepsBooks ==
    ASSUME Books, StartFails \/ ClientReturns \/ ClientFails \/ HostTimer
    PROVE  Books'
<1> USE DEF Books
<1>1. n' = n /\ Started' = Started /\ UNCHANGED <<kinds, alarm, top, alive, settled, reaped>>
  BY DEF StartFails, ClientReturns, ClientFails, HostTimer, Returns, container, n, Started
<1>2. n \in Nat /\ n <= MaxCommands /\ \A c : c \in Started <=> c \in Nat /\ 1 <= c /\ c <= n
  BY Numbers
<1>3. FreshInv' /\ StatusInv'
  BY <1>1 DEF FreshInv, StatusInv, Over
<1>4. CASE StartFails
  <2>1. pc' = pc /\ lost' = lost /\ result' = [cmd |-> 0, status |-> "error", code |-> "none", agentEnd |-> FALSE]
    BY <1>4 DEF StartFails
  <2>2. TypeOK'
    BY <1>1, <2>1, ExecAssumption DEF TypeOK
  <2>3. HostInv' /\ ResultInv'
    BY <1>1, <2>1 DEF HostInv, ResultInv, HasReturned, Over
  <2>4. QED
    BY <1>3, <2>2, <2>3
<1>5. CASE ClientReturns
  <2>1. /\ pc = "waiting" /\ pc' = "idle" /\ top[n] # "running" /\ lost' = lost
        /\ result' = [cmd |-> n, status |-> IF top[n] = "124" THEN "timed_out" ELSE "exited",
                      code |-> top[n], agentEnd |-> n \in settled]
    BY <1>5 DEF ClientReturns, Returns
  <2>2. n \in Started /\ n \in 1..MaxCommands /\ n \notin reaped
    BY <1>2, <2>1 DEF HostInv
  <2>3. top[n] \in {"own", "124", "137"}
    BY <2>1, <2>2 DEF TypeOK, HostInv
  <2>4. result' \in [cmd : 0..MaxCommands, status : {"none", "exited", "timed_out", "error"},
                     code : {"none", "own", "124", "137", "client"}, agentEnd : BOOLEAN]
    BY <2>1, <2>2, <2>3
  <2>5. TypeOK'
    BY <1>1, <2>1, <2>4 DEF TypeOK
  <2>6. HostInv'
    BY <1>1, <1>2, <2>1, <2>3 DEF HostInv, HasReturned, Over
  <2>7. ResultInv'
    BY <1>1, <2>1, <2>2, <2>3 DEF ResultInv, HasReturned, Over
  <2>8. QED
    BY <1>3, <2>5, <2>6, <2>7
<1>6. CASE HostTimer
  <2>1. pc = "waiting" /\ pc' = "reaping" /\ result' = result /\ lost' = lost
    BY <1>6 DEF HostTimer
  <2>2. TypeOK'
    BY <1>1, <2>1 DEF TypeOK
  <2>3. HostInv' /\ ResultInv'
    BY <1>1, <2>1 DEF HostInv, ResultInv, HasReturned, Over
  <2>4. QED
    BY <1>3, <2>2, <2>3
<1>7. CASE ClientFails
  <2>1. PICK agentEnd \in BOOLEAN :
            /\ agentEnd => n \in settled
            /\ result' = [cmd |-> n, status |-> "exited", code |-> "client",
                          agentEnd |-> agentEnd]
    BY <1>7 DEF ClientFails, Returns
  <2>2. pc = "waiting" /\ pc' = "idle" /\ lost' = lost \cup {n}
    BY <1>7 DEF ClientFails, Returns
  <2>3. n \in Started /\ n \in 1..MaxCommands /\ n \notin reaped
    BY <1>2, <2>2 DEF HostInv
  <2>4. result' \in [cmd : 0..MaxCommands, status : {"none", "exited", "timed_out", "error"},
                     code : {"none", "own", "124", "137", "client"}, agentEnd : BOOLEAN]
    BY <2>1, <2>3
  <2>5. TypeOK'
    BY <1>1, <2>2, <2>3, <2>4 DEF TypeOK
  <2>6. HostInv'
    BY <1>1, <1>2, <2>2 DEF HostInv, HasReturned, Over
  <2>7. ResultInv'
    BY <1>1, <2>1, <2>2, <2>3 DEF ResultInv, HasReturned, Over
  <2>8. QED
    BY <1>3, <2>5, <2>6, <2>7
<1>8. QED
  BY <1>4, <1>5, <1>6, <1>7

\* The backstop gives the call up, whatever it did or did not kill.
LEMMA BackstopKeepsBooks ==
    ASSUME Books, Reap \/ ReapFails
    PROVE  Books'
<1> USE DEF Books
<1>1. /\ pc = "reaping" /\ pc' = "idle" /\ kinds' = kinds /\ reaped' = reaped \cup {n}
      /\ lost' = lost
      /\ \/ result' = [cmd |-> n, status |-> "timed_out", code |-> "124", agentEnd |-> FALSE]
         \/ result' = [cmd |-> n, status |-> "error", code |-> "none", agentEnd |-> FALSE]
  BY DEF Reap, ReapFails, Returns
<1>2. n' = n /\ Started' = Started
  BY <1>1 DEF n, Started
<1>3. /\ n \in Started /\ n \in 1..MaxCommands /\ n \notin reaped /\ n \notin lost
      /\ \A c : c \in Started <=> c \in Nat /\ 1 <= c /\ c <= n
  BY <1>1, Numbers DEF HostInv
<1>4. top \in [1..MaxCommands -> {"running", "gone", "own", "124", "137"}]
  BY DEF TypeOK
<1>5. /\ alive' \subseteq alive /\ UNCHANGED <<alarm, settled>>
      /\ top' = top \/ (top[n] = "running" /\ top' = [top EXCEPT ![n] = "gone"])
  <2>1. CASE Pkill
    <3>1. top' = [top EXCEPT ![n] = IF kinds[n] = "run" /\ top[n] = "running"
                                    THEN "gone" ELSE top[n]]
      BY <2>1 DEF Pkill
    <3>2. top' = top \/ (top[n] = "running" /\ top' = [top EXCEPT ![n] = "gone"])
      BY <1>3, <1>4, <3>1
    <3>3. QED
      BY <2>1, <3>2 DEF Pkill
  <2>2. CASE UNCHANGED container
    BY <2>2 DEF container
  <2>3. QED
    BY <2>1, <2>2 DEF Reap, ReapFails
<1>6. /\ top' \in [1..MaxCommands -> {"running", "gone", "own", "124", "137"}]
      /\ \A c \in 1..MaxCommands : c # n => top'[c] = top[c]
      /\ top'[n] = top[n] \/ (top[n] = "running" /\ top'[n] = "gone")
  BY <1>3, <1>4, <1>5
<1>7. Started \subseteq 1..MaxCommands
  BY Numbers
<1>8. TypeOK'
  <2> DEFINE Results == [cmd : 0..MaxCommands,
                         status : {"none", "exited", "timed_out", "error"},
                         code : {"none", "own", "124", "137", "client"}, agentEnd : BOOLEAN]
  <2>1. result' \in Results
    <3>1. ASSUME NEW c \in 0..MaxCommands
          PROVE  /\ [cmd |-> c, status |-> "timed_out", code |-> "124", agentEnd |-> FALSE]
                      \in Results
                 /\ [cmd |-> c, status |-> "error", code |-> "none", agentEnd |-> FALSE]
                      \in Results
      OBVIOUS
    <3>2. n \in 0..MaxCommands
      BY Numbers
    <3>3. QED
      BY <1>1, <3>1, <3>2
  <2>2. QED
    BY <1>1, <1>2, <1>3, <1>5, <1>6, <2>1 DEF TypeOK
<1>9. FreshInv'
  BY <1>2, <1>3, <1>5, <1>6 DEF FreshInv
<1>10. StatusInv'
  BY <1>2, <1>5, <1>6, <1>7 DEF StatusInv, Over
<1>11. HostInv'
  BY <1>1, <1>2, <1>3, <1>6, <1>7 DEF HostInv, HasReturned, Over
<1>12. ResultInv'
  BY <1>1, <1>2, <1>3 DEF ResultInv, HasReturned
<1>13. QED
  BY <1>8, <1>9, <1>10, <1>11, <1>12

\* The invariant is inductive.
LEMMA StepKeepsBooks == Books /\ [Next]_vars => Books'
<1> SUFFICES ASSUME Books, [Next]_vars PROVE Books'
  OBVIOUS
<1>1. ASSUME NEW k \in Kinds, Start(k) PROVE Books'
  BY <1>1, StartKeepsBooks
<1>2. CASE StartFails \/ ClientReturns \/ ClientFails \/ HostTimer
  BY <1>2, ClientKeepsBooks
<1>3. CASE Reap \/ ReapFails
  BY <1>3, BackstopKeepsBooks
<1>4. ASSUME NEW c \in Started, LeaderEnds(c) \/ Settles(c) \/ AlarmFires(c) \/ KillFires(c)
      PROVE  Books'
  BY <1>4, ContainerKeepsBooks
<1>5. ASSUME NEW p \in alive, OtherEnds(p) PROVE Books'
  BY <1>5, OtherEndsKeepsBooks
<1>6. CASE UNCHANGED vars
  BY <1>6 DEF vars, Books, TypeOK, FreshInv, StatusInv, HostInv, ResultInv, HasReturned,
              Over, Started, n
<1>7. QED
  BY <1>1, <1>2, <1>3, <1>4, <1>5, <1>6 DEF Next, HostStep

\* The invariant holds throughout.
LEMMA BooksAlways == Spec => []Books
<1>1. QED
  BY InitBooks, StepKeepsBooks, PTL DEF Spec

-----------------------------------------------------------------------------
(* Theorems.                                                               *)

\* Every variable stays in its range, for any number of calls.
THEOREM TypeCorrect == Spec => []TypeOK
<1>1. Books => TypeOK
  BY DEF Books
<1>2. QED
  BY <1>1, BooksAlways, PTL

\* What a call returns is what became of its command, whatever earlier calls have left
\* running in the container, unless docker's client itself failed.
THEOREM HonestResult == Spec => []ResultIsHonest
<1>1. ASSUME Books PROVE ResultIsHonest
  <2> DEFINE c == result.cmd
  <2> SUFFICES ASSUME pc = "idle", c > 0
               PROVE  /\ result.status = "exited" /\ c \notin lost =>
                           /\ Leader(c) \notin alive
                           /\ top[c] = result.code
                           /\ alarm[c] = "set" \/ result.code = "137"
                      /\ result.status = "timed_out" =>
                           alarm[c] # "set" \/ top[c] = "124" \/ c \in reaped
                      /\ Termination(result) = "answered" =>
                           c \in settled /\ c \notin reaped /\ (top[c] # "124" \/ c \in lost)
    BY DEF ResultIsHonest
  <2>1. /\ c \in Started /\ result.status # "none"
        /\ result.agentEnd => c \in settled
        /\ result.status = "exited" =>
             /\ c \notin reaped
             /\ c \in lost \/ (Over(c) /\ top[c] = result.code /\ top[c] # "124")
        /\ result.status = "timed_out" => top[c] = "124" \/ c \in reaped
    BY <1>1 DEF Books, ResultInv, HasReturned
  <2>2. c \in 1..MaxCommands
    BY <1>1, <2>1, Numbers DEF Books
  <2>3. /\ result.status \in {"none", "exited", "timed_out", "error"}
        /\ alarm[c] \in {"set", "term", "kill"}
    BY <1>1, <2>2 DEF Books, TypeOK
  <2>4. /\ Over(c) => Leader(c) \notin alive
        /\ alarm[c] = "term" => top[c] \in {"running", "gone", "124"}
        /\ alarm[c] = "kill" => top[c] = "137"
    BY <1>1, <2>1 DEF Books, StatusInv
  <2>5. Termination(result) = "answered" => result.status = "exited" /\ result.agentEnd
    BY <2>1, <2>3 DEF Termination
  <2>6. QED
    BY <2>1, <2>3, <2>4, <2>5 DEF Over
<1>2. QED
  BY <1>1, BooksAlways, PTL

\* A leader outlives its call only where the backstop had to give the call up or the
\* docker client failed, and a member of its group only until a KILL.
THEOREM Survivors == Spec => []SurvivorsKnown
<1>1. ASSUME Books PROVE SurvivorsKnown
  <2> SUFFICES ASSUME NEW p \in alive, ~(p.cmd = n /\ pc # "idle"), p.role # "stray",
                      p.cmd \notin reaped, p.cmd \notin lost
               PROVE  p.role = "member" /\ alarm[p.cmd] # "kill"
    BY DEF SurvivorsKnown
  <2>1. PICK c \in Started : p \in Of(c)
    BY <1>1 DEF Books, TypeOK
  <2>2. p.cmd = c /\ p.role \in {"leader", "member"}
    BY <2>1, Names
  <2>3. HasReturned(c)
    BY <1>1, <2>1, <2>2, Numbers DEF Books, HasReturned, TypeOK
  <2>4. Over(c)
    BY <1>1, <2>1, <2>2, <2>3 DEF Books, HostInv
  <2>5. p.role # "leader"
    BY <1>1, <2>1, <2>4, Names DEF Books, StatusInv
  <2>6. p \in Group(c)
    BY <2>1, <2>2, <2>5, Names
  <2>7. alarm[c] # "kill"
    BY <1>1, <2>1, <2>6 DEF Books, StatusInv
  <2>8. QED
    BY <2>2, <2>5, <2>7
<1>2. QED
  BY <1>1, BooksAlways, PTL

-----------------------------------------------------------------------------
(* Why calls return and a pi dies: what the alarms still have to do.       *)

\* The backstop of a call kills its `timeout` only where it knows the marker.
GoneWasRun == \A c \in Started : top[c] = "gone" => kinds[c] = "run"

\* A pi that lives is under its `timeout`, which has not sent KILL yet.
PiUnderTimeout ==
    \A c \in Started :
        kinds[c] = "spawn" /\ Leader(c) \in alive =>
            top[c] = "running" /\ alarm[c] \in {"set", "term"}

LEMMA WaitingCall ==
    ASSUME Books, pc # "idle"
    PROVE  /\ n \in Started /\ n \in 1..MaxCommands /\ top[n] # "gone"
           /\ alarm[n] = "kill" => top[n] = "137"
           /\ alarm[n] \in {"set", "term", "kill"}
<1>1. n > 0 /\ n \notin reaped
  BY DEF Books, HostInv
<1>2. n \in Started /\ n \in 1..MaxCommands
  BY <1>1, Numbers DEF Books
<1>3. QED
  BY <1>1, <1>2 DEF Books, TypeOK, HostInv, StatusInv

LEMMA StepGoneWasRun == Books /\ GoneWasRun /\ [Next]_vars => GoneWasRun'
<1> SUFFICES ASSUME Books, GoneWasRun, [Next]_vars PROVE GoneWasRun'
  OBVIOUS
<1> USE DEF host, container
<1>1. /\ n \in Nat /\ Started \subseteq 1..MaxCommands
      /\ \A c : c \in Started <=> c \in Nat /\ 1 <= c /\ c <= n
      /\ top \in [1..MaxCommands -> {"running", "gone", "own", "124", "137"}]
      /\ kinds \in Seq(Kinds) /\ n = Len(kinds)
  BY Numbers DEF Books, TypeOK, n
<1>2. ASSUME NEW k \in Kinds, Start(k) PROVE GoneWasRun'
  <2>1. kinds' = Append(kinds, k) /\ top' = top /\ n < MaxCommands
    BY <1>2 DEF Start
  <2>2. n' = n + 1 /\ (\A c \in Started : kinds'[c] = kinds[c])
    BY <1>1, <2>1 DEF n, Started
  <2>3. \A c \in Started' : c \in Started \/ c = n + 1
    BY <1>1, <2>2 DEF Started
  <2>4. top[n + 1] = "running"
    BY <1>1, <2>1, ExecAssumption DEF Books, FreshInv
  <2>5. QED
    BY <2>1, <2>2, <2>3, <2>4 DEF GoneWasRun
<1>3. CASE Reap \/ (ReapFails /\ Pkill)
  <2>1. /\ kinds' = kinds /\ n \in Started
        /\ top' = [top EXCEPT ![n] = IF kinds[n] = "run" /\ @ = "running" THEN "gone" ELSE @]
    <3>1. pc # "idle" /\ Pkill /\ kinds' = kinds
      BY <1>3 DEF Reap, ReapFails
    <3>2. QED
      BY <3>1, WaitingCall DEF Pkill
  <2>2. n' = n /\ Started' = Started
    BY <2>1 DEF n, Started
  <2>3. QED
    BY <1>1, <2>1, <2>2 DEF GoneWasRun
<1>4. ASSUME NEW c \in Started, LeaderEnds(c) \/ Settles(c) \/ AlarmFires(c) \/ KillFires(c)
      PROVE  GoneWasRun'
  <2>1. /\ kinds' = kinds
        /\ \/ top' = top
           \/ \E status \in {"own", "124", "137", "running"} : top' = [top EXCEPT ![c] = status]
    BY <1>4 DEF LeaderEnds, Settles, AlarmFires, KillFires
  <2>2. n' = n /\ Started' = Started
    BY <2>1 DEF n, Started
  <2>3. QED
    BY <1>1, <2>1, <2>2 DEF GoneWasRun
<1>5. CASE UNCHANGED <<kinds, top>>
  BY <1>5 DEF GoneWasRun, Started, n
<1>6. QED
  BY <1>2, <1>3, <1>4, <1>5 DEF Next, HostStep, StartFails, ClientReturns, ClientFails, HostTimer, ReapFails,
     OtherEnds, vars

\* However a pi ignores TERM, and though the host gave it up, what keeps it alive no longer
\* than its time and --kill-after is there: its `timeout` runs and has KILL still to send.
\* The safety part of SpawnDies.
THEOREM PiStaysUnderTimeout == Spec => []PiUnderTimeout
<1>1. Init => GoneWasRun
  BY DEF Init, GoneWasRun, Started, n
<1>2. Books /\ GoneWasRun => PiUnderTimeout
  BY Numbers DEF Books, TypeOK, StatusInv, GoneWasRun, PiUnderTimeout, Over, Group
<1>3. QED
  BY <1>1, <1>2, BooksAlways, StepGoneWasRun, PTL DEF Spec

\* At most this many steps of the host and of the call's own alarms are left.
CallLeft ==
    CASE pc = "idle"    -> 0
      [] pc = "reaping" -> 1
      [] pc = "waiting" -> IF top[n] # "running" THEN 2
                           ELSE IF alarm[n] = "term" THEN 3 ELSE 4

\* What the call under way is owed: the host's step, and its alarms while it is waited for.
Owed == HostStep \/ (pc = "waiting" /\ (AlarmFires(n) \/ KillFires(n)))

\* A step owed to the call under way shortens it; none lengthens it.
CallShortens ==
    [][pc # "idle" => CallLeft' <= CallLeft /\ (Owed => CallLeft' < CallLeft)]_vars

\* A call that waits has something owed to it.
WaitsForSomething ==
    pc = "waiting" => \/ top[n] \notin {"running", "gone"}
                      \/ top[n] = "running" /\ alarm[n] \in {"set", "term"}

LEMMA StepShortens ==
    ASSUME Books, Next, pc # "idle"
    PROVE  CallLeft' <= CallLeft /\ (Owed => CallLeft' < CallLeft)
<1> USE DEF host, container
<1>1. /\ n \in Started /\ n \in 1..MaxCommands /\ top[n] # "gone"
      /\ alarm[n] = "kill" => top[n] = "137"
      /\ alarm[n] \in {"set", "term", "kill"}
  BY WaitingCall
<1>2. /\ pc \in {"waiting", "reaping"}
      /\ top \in [1..MaxCommands -> {"running", "gone", "own", "124", "137"}]
      /\ alarm \in [1..MaxCommands -> {"set", "term", "kill"}]
  BY DEF Books, TypeOK
<1>3. CallLeft \in 1..4 /\ (pc = "waiting" => CallLeft >= 2)
  BY <1>2 DEF CallLeft
<1>4. CASE ClientReturns \/ ClientFails \/ Reap \/ ReapFails
  <2>1. CallLeft' = 0
    BY <1>4 DEF ClientReturns, ClientFails, Reap, ReapFails, Returns, CallLeft
  <2>2. QED
    BY <1>3, <2>1
<1>5. CASE HostTimer
  <2>1. pc = "waiting" /\ CallLeft' = 1
    BY <1>5 DEF HostTimer, CallLeft
  <2>2. QED
    BY <1>3, <2>1
<1>6. ASSUME NEW c \in Started, LeaderEnds(c) \/ Settles(c) \/ AlarmFires(c) \/ KillFires(c)
      PROVE  CallLeft' <= CallLeft
  <2>1. /\ pc' = pc /\ kinds' = kinds
        /\ \/ top' = top
           \/ top[c] = "running" /\ \E status : top' = [top EXCEPT ![c] = status]
        /\ \/ alarm' = alarm
           \/ alarm' = [alarm EXCEPT ![c] = "term"]
           \/ alarm' = [alarm EXCEPT ![c] = "kill"] /\ top' = [top EXCEPT ![c] = "137"]
    BY <1>6 DEF LeaderEnds, Settles, AlarmFires, KillFires
  <2>2. n' = n
    BY <2>1 DEF n
  <2>3. \/ top'[n] = top[n] /\ alarm'[n] = alarm[n]
        \/ top'[n] = top[n] /\ alarm'[n] = "term"
        \/ top[n] = "running" /\ alarm'[n] \in {alarm[n], "term"}
        \/ top'[n] = "137"
    BY <1>1, <1>2, <2>1
  <2>4. CASE pc = "reaping"
    BY <2>1, <2>4 DEF CallLeft
  <2>5. CASE pc = "waiting"
    <3>1. CallLeft = IF top[n] # "running" THEN 2
                     ELSE IF alarm[n] = "term" THEN 3 ELSE 4
      BY <2>5 DEF CallLeft
    <3>2. CallLeft' = IF top'[n] # "running" THEN 2
                      ELSE IF alarm'[n] = "term" THEN 3 ELSE 4
      BY <2>1, <2>2, <2>5 DEF CallLeft
    <3>3. QED
      BY <2>3, <3>1, <3>2
  <2>6. QED
    BY <1>2, <2>4, <2>5
<1>7. ASSUME UNCHANGED <<pc, kinds, top, alarm>> PROVE CallLeft' <= CallLeft
  <2>1. n' = n
    BY <1>7 DEF n
  <2>2. CallLeft' = CallLeft
    BY <1>7, <2>1 DEF CallLeft
  <2>3. QED
    BY <1>3, <2>2
<1>8. CallLeft' <= CallLeft
  BY <1>3, <1>4, <1>5, <1>6, <1>7 DEF Next, HostStep, Start, StartFails, OtherEnds
<1>9. CASE pc = "waiting" /\ (AlarmFires(n) \/ KillFires(n))
  <2>1. pc' = pc /\ n' = n
    BY <1>9 DEF AlarmFires, KillFires, n
  <2>2. /\ top[n] = "running"
        /\ \/ alarm[n] = "set" /\ alarm'[n] = "term"
           \/ alarm[n] = "term" /\ top'[n] = "137"
    BY <1>1, <1>2, <1>9 DEF AlarmFires, KillFires
  <2>3. CallLeft = IF alarm[n] = "term" THEN 3 ELSE 4
    BY <1>9, <2>2 DEF CallLeft
  <2>4. CallLeft' = IF top'[n] # "running" THEN 2
                    ELSE IF alarm'[n] = "term" THEN 3 ELSE 4
    BY <1>9, <2>1 DEF CallLeft
  <2>5. QED
    BY <2>2, <2>3, <2>4
<1>10. QED
  <2>1. ClientReturns \/ Reap => CallLeft' < CallLeft
    BY <1>4 DEF HostStep, Owed
  <2>2. QED
    BY <1>5, <1>8, <1>9, <2>1 DEF HostStep, Owed

\* A call returns by at most four steps: each step of the host or of the call's own alarms
\* lowers the measure, nothing the container does raises it, and a call that waits has one
\* of them due.  With their fairness this is what CallReturns rests on.
THEOREM CallsAreFinite == Spec => []WaitsForSomething /\ CallShortens
<1>1. Books => WaitsForSomething
  <2> SUFFICES ASSUME Books, pc = "waiting" PROVE WaitsForSomething
    BY DEF WaitsForSomething
  <2>1. QED
    BY WaitingCall DEF Books, TypeOK, WaitsForSomething
<1>2. Books /\ [Next]_vars =>
        [pc # "idle" => CallLeft' <= CallLeft /\ (Owed => CallLeft' < CallLeft)]_vars
  BY StepShortens
<1>3. QED
  BY <1>1, <1>2, BooksAlways, PTL DEF Spec, CallShortens
=============================================================================
