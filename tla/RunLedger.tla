------------------------------ MODULE RunLedger ------------------------------
(***************************************************************************)
(* What a results directory promises to whoever reads it back: each raw    *)
(* file is a set of result records that only ever grows by a run it does   *)
(* not hold yet, all of one task_set_version, until the operator moves the *)
(* whole file to the archive.  How the records get there (sessions,        *)
(* snapshots, cursors, crashes) is StageRunner's business; StageRunner is  *)
(* shown to implement this module.                                         *)
(***************************************************************************)
CONSTANTS Cells,     \* raw files, each with its session's context length
          Records    \* result records: suite, slot, label, version, env

VARIABLE ledger      \* the records each raw file holds

LedgerInit == ledger = [c \in Cells |-> {}]

\* One run of one task repetition is recorded, for the first time.
Record(c, r) ==
    /\ \A q \in ledger[c] :
          /\ <<q.suite, q.slot>> # <<r.suite, r.slot>>
          /\ q.version = r.version
    /\ ledger' = [ledger EXCEPT ![c] = @ \cup {r}]

\* The operator archives a raw file as a whole.
Retire(c) == ledger' = [ledger EXCEPT ![c] = {}]

\* The records a step adds are named through ledger', which keeps the formula
\* cheap to evaluate on a given step.
Added(c) == (ledger'[c] \ ledger[c]) \cap Records

LedgerNext == \E c \in Cells : Retire(c) \/ \E r \in Added(c) : Record(c, r)

LedgerSpec == LedgerInit /\ [][LedgerNext]_ledger
=============================================================================
