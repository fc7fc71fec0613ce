--------------------------- MODULE PublishLedger ---------------------------
(***************************************************************************)
(* The durable publish ledger (storage/publishing.py): one row per         *)
(* semantic publish request and an append-only list of attempts under it.  *)
(* Every operator below is one BEGIN IMMEDIATE transaction of the           *)
(* repository, so it is a single step; the conditions under which the code  *)
(* raises StorageConflictError are the negation of its guard.              *)
(*                                                                         *)
(* attempt_number is MAX + 1 over rows that are never deleted, so the       *)
(* attempts of one request are a sequence and the number is the index.      *)
(***************************************************************************)
EXTENDS Naturals, Sequences, FiniteSets

CONSTANTS Ops           \* semantic publish requests (request_sha256)

VARIABLES operations,   \* rows of publish_operations
          ledger        \* ledger[op]: states of op's attempts, in attempt_number order

ledgerVars == <<operations, ledger>>

AttemptState == {"prepared", "running", "succeeded", "failed", "outcome_unknown"}
Active       == {"prepared", "running"}
Settled      == {"succeeded", "outcome_unknown"}

LedgerTypeOK ==
  /\ operations \subseteq Ops
  /\ ledger \in [Ops -> Seq(AttemptState)]

LedgerInit ==
  /\ operations = {}
  /\ ledger = [op \in Ops |-> <<>>]

HasAttempt(op, n) == n \in DOMAIN ledger[op]
HasState(op, S)   == \E i \in DOMAIN ledger[op] : ledger[op][i] \in S

\* The state that decides what may happen next: the newest attempt's.
LastState(op) == IF ledger[op] = <<>> THEN "none" ELSE ledger[op][Len(ledger[op])]

Move(op, n, from, to) ==
  /\ HasAttempt(op, n)
  /\ ledger[op][n] = from
  /\ ledger' = [ledger EXCEPT ![op][n] = to]
  /\ UNCHANGED operations

\* INSERT the operation row unless it is there (its identity is the digest).
EnsureOperation(op) ==
  /\ operations' = operations \cup {op}
  /\ UNCHANGED ledger

\* Slip: an unknown remote outcome does not block a new attempt.
InsertAttemptAfterUnknown(op) ==
  /\ ~HasState(op, {"succeeded"} \cup Active)
  /\ ledger' = [ledger EXCEPT ![op] = Append(@, "prepared")]
  /\ UNCHANGED operations

InsertAttempt(op) ==
  /\ ~HasState(op, {"succeeded"})
  /\ ~HasState(op, {"outcome_unknown"})
  /\ ~HasState(op, Active)
  /\ ledger' = [ledger EXCEPT ![op] = Append(@, "prepared")]
  /\ UNCHANGED operations

MarkRunning(op, n)        == Move(op, n, "prepared", "running")
MarkSucceeded(op, n)      == Move(op, n, "running", "succeeded")

MarkFailed(op, n)         == Move(op, n, "prepared", "failed")

\* Slip: an unclear outcome is recorded as a plain, retryable failure.
MarkUnknownAsFailed(op, n) == Move(op, n, "running", "failed")

MarkOutcomeUnknown(op, n) == Move(op, n, "running", "outcome_unknown")

\* Slip: restart recovery also retires approvals that never started.
ReconcileActiveAsUnknown ==
  /\ ledger' = [op \in Ops |-> [i \in DOMAIN ledger[op] |->
                   IF ledger[op][i] \in Active THEN "outcome_unknown" ELSE ledger[op][i]]]
  /\ UNCHANGED operations

\* Slip: restart recovery resumes interrupted attempts instead of retiring them.
ReconcileRunningAsPrepared ==
  /\ ledger' = [op \in Ops |-> [i \in DOMAIN ledger[op] |->
                   IF ledger[op][i] = "running" THEN "prepared" ELSE ledger[op][i]]]
  /\ UNCHANGED operations

\* One UPDATE ... WHERE state = 'running' over the whole table.
ReconcileInterrupted ==
  /\ ledger' = [op \in Ops |-> [i \in DOMAIN ledger[op] |->
                   IF ledger[op][i] = "running" THEN "outcome_unknown" ELSE ledger[op][i]]]
  /\ UNCHANGED operations
=============================================================================
