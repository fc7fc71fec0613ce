----------------------------- MODULE Publishing -----------------------------
(***************************************************************************)
(* Human-approved publishing of one final render: the HTTP handlers         *)
(* (api/publishing_routes.py) run PublishingService                         *)
(* (application/publishing.py) on the threads of a worker pool, over the    *)
(* ledger of PublishLedger.  The process can die at any step and be started *)
(* again; a ledger transaction can fail; the provider is external.         *)
(*                                                                         *)
(* Handlers interleave at every transaction, provider call and lock         *)
(* operation.  RuntimeLease makes the process the only one on its root.     *)
(***************************************************************************)
EXTENDS PublishLedger

CONSTANTS Threads,      \* worker-pool threads
          NoThread,     \* the reconciliation lock is free
          MaxAttempts,  \* bound: attempts per request
          MaxCrashes,   \* bound: process deaths
          MaxFaults     \* bound: failed ledger transactions and escaping exceptions

ASSUME PublishingAssumption ==
  /\ NoThread \notin Threads
  /\ MaxAttempts \in Nat /\ MaxCrashes \in Nat /\ MaxFaults \in Nat

VARIABLES up,           \* the API process is alive
          reconciled,   \* ensure_reconciled's nonlocal flag
          lock,         \* holder of reconciliation_lock
          pc,           \* pc[t]: where t's handler stands
          req,          \* req[t]: the request t serves
          calls,        \* calls[op]: provider.publish calls ever begun (the remote world)
          crashes, faults

procVars == <<up, reconciled, lock, pc, req>>
budget   == <<crashes, faults>>
vars     == <<ledgerVars, procVars, calls, budget>>

Kind    == {"approve", "execute", "read"}
Request == [kind : Kind, op : Ops, n : Nat]

\* Where a handler can stand.  "idle" also stands for "response sent".
Entering  == {"enter", "reconcile", "release"}
Approving == {"prepare", "ensure", "insert"}
BeforeRun == {"load", "artifact", "health", "preflight", "reject", "claim"}
Remote    == {"publish", "confirm", "giveup"}
PC        == {"idle"} \cup Entering \cup Approving \cup BeforeRun \cup Remote

\* The handler is past ensure_reconciled.
Admitted == Approving \cup BeforeRun \cup Remote

TypeOK ==
  /\ LedgerTypeOK
  /\ up \in BOOLEAN
  /\ reconciled \in BOOLEAN
  /\ lock \in Threads \cup {NoThread}
  /\ pc \in [Threads -> PC]
  /\ req \in [Threads -> Request]
  /\ calls \in [Ops -> Nat]
  /\ crashes \in 0..MaxCrashes
  /\ faults \in 0..MaxFaults

Init ==
  /\ LedgerInit
  /\ up = TRUE
  /\ reconciled = FALSE
  /\ lock = NoThread
  /\ pc = [t \in Threads |-> "idle"]
  /\ req \in [Threads -> {[kind |-> "read", op |-> op, n |-> 0] : op \in Ops}]
  /\ calls = [op \in Ops |-> 0]
  /\ crashes = 0
  /\ faults = 0

----------------------------------------------------------------------------
(* Helpers *)

At(t, where)   == up /\ pc[t] = where
Goto(t, where) == pc' = [pc EXCEPT ![t] = where]
Op(t) == req[t].op
N(t)  == req[t].n

\* A step of t that touches neither the lock, the process nor the world.
Local == UNCHANGED <<up, reconciled, lock, req, calls, budget>>

\* Where a handler goes once ensure_reconciled has returned.
Handler(kind) ==
  CASE kind = "approve" -> "prepare"
    [] kind = "execute" -> "load"
    [] kind = "read"    -> "idle"

----------------------------------------------------------------------------
(* Request arrival and ensure_reconciled *)

\* A client asks for approval of a candidate, execution of an attempt it was
\* given, or status.  The confirmed digest is the request's own here: the
\* mismatch is rejected before anything is read.
Arrive(t) ==
  /\ At(t, "idle")
  /\ \E kind \in Kind, op \in Ops, n \in 0..MaxAttempts :
       /\ kind = "execute" <=> HasAttempt(op, n)
       /\ kind # "execute" => n = 0
       /\ req' = [req EXCEPT ![t] = [kind |-> kind, op |-> op, n |-> n]]
  /\ Goto(t, "enter")
  /\ UNCHANGED <<ledgerVars, up, reconciled, lock, calls, budget>>

\* Slip: the flag is tested before the lock is taken.
AcquireAfterFlagTest(t) ==
  /\ At(t, "enter")
  /\ Goto(t, IF reconciled THEN Handler(req[t].kind) ELSE "reconcile")
  /\ UNCHANGED <<ledgerVars, up, reconciled, lock, req, calls, budget>>

\* with reconciliation_lock: if reconciled: return
Acquire(t) ==
  /\ At(t, "enter")
  /\ lock = NoThread
  /\ lock' = t
  /\ Goto(t, IF reconciled THEN "release" ELSE "reconcile")
  /\ UNCHANGED <<ledgerVars, up, reconciled, req, calls, budget>>

\* service.reconcile_interrupted(): the transaction, then the flag.
Reconcile(t) ==
  /\ At(t, "reconcile")
  /\ ReconcileInterrupted
  /\ reconciled' = TRUE
  /\ Goto(t, "release")
  /\ UNCHANGED <<up, lock, req, calls, budget>>

Release(t) ==
  /\ At(t, "release")
  /\ lock' = NoThread
  /\ Goto(t, Handler(req[t].kind))
  /\ UNCHANGED <<ledgerVars, up, reconciled, req, calls, budget>>

----------------------------------------------------------------------------
(* approve: authenticate, read, then two transactions *)

\* Newest attempt first: an active or succeeded one is returned, an unknown
\* outcome raises, a failed one is passed over.  The artifact may fail to
\* authenticate.  The read is not part of the inserting transaction.
ReadExisting(t) ==
  /\ At(t, "prepare")
  /\ \/ Goto(t, "idle")
     \/ ~HasState(Op(t), Active \cup Settled) /\ Goto(t, "ensure")
  /\ UNCHANGED ledgerVars
  /\ Local

EnsureRow(t) ==
  /\ At(t, "ensure")
  /\ EnsureOperation(Op(t))
  /\ Goto(t, "insert")
  /\ Local

\* prepare_attempt re-decides inside its transaction and may refuse.
Insert(t) ==
  /\ At(t, "insert")
  /\ \/ Len(ledger[Op(t)]) < MaxAttempts /\ InsertAttempt(Op(t))
     \/ /\ HasState(Op(t), Active \cup Settled) \/ Len(ledger[Op(t)]) >= MaxAttempts
        /\ UNCHANGED ledgerVars
  /\ Goto(t, "idle")
  /\ Local

----------------------------------------------------------------------------
(* execute_prepared *)

\* Only an attempt read as prepared goes on; every other state answers.
Load(t) ==
  /\ At(t, "load")
  /\ Goto(t, IF ledger[Op(t)][N(t)] = "prepared" THEN "artifact" ELSE "idle")
  /\ UNCHANGED ledgerVars
  /\ Local

\* No provider, or a final artifact that no longer authenticates: the
\* attempt stays prepared.
Authenticate(t) ==
  /\ At(t, "artifact")
  /\ \E next \in {"idle", "health"} : Goto(t, next)
  /\ UNCHANGED ledgerVars
  /\ Local

\* health() raises, reports unavailable or another provider identity; or fits.
Health(t) ==
  /\ At(t, "health")
  /\ \E next \in {"reject", "preflight"} : Goto(t, next)
  /\ UNCHANGED ledgerVars
  /\ Local

\* preflight() is optional; it may reject the approved request.
Preflight(t) ==
  /\ At(t, "preflight")
  /\ \E next \in {"reject", "claim"} : Goto(t, next)
  /\ UNCHANGED ledgerVars
  /\ Local

\* mark_failed; a conflict (another thread moved the attempt) only raises.
Reject(t) ==
  /\ At(t, "reject")
  /\ \/ MarkFailed(Op(t), N(t))
     \/ ledger[Op(t)][N(t)] # "prepared" /\ UNCHANGED ledgerVars
  /\ Goto(t, "idle")
  /\ Local

\* mark_running: the durable boundary before the remote side effect.
Claim(t) ==
  /\ At(t, "claim")
  /\ \/ MarkRunning(Op(t), N(t)) /\ Goto(t, "publish")
     \/ /\ ledger[Op(t)][N(t)] # "prepared"
        /\ Goto(t, "idle")
        /\ UNCHANGED ledgerVars
  /\ Local

\* provider.publish: the call begins, and returns a result that validates
\* or anything else (an exception, a result that does not validate).
CallPublish(t) ==
  /\ At(t, "publish")
  /\ calls' = [calls EXCEPT ![Op(t)] = @ + 1]
  /\ \E next \in {"confirm", "giveup"} : Goto(t, next)
  /\ UNCHANGED <<ledgerVars, up, reconciled, lock, req, budget>>

\* mark_succeeded; a conflict is an Exception, so it leads to giveup.
Confirm(t) ==
  /\ At(t, "confirm")
  /\ \/ MarkSucceeded(Op(t), N(t)) /\ Goto(t, "idle")
     \/ /\ ledger[Op(t)][N(t)] # "running"
        /\ Goto(t, "giveup")
        /\ UNCHANGED ledgerVars
  /\ Local

\* mark_outcome_unknown; a conflict is reported and changes nothing.
GiveUp(t) ==
  /\ At(t, "giveup")
  /\ \/ MarkOutcomeUnknown(Op(t), N(t))
     \/ ledger[Op(t)][N(t)] # "running" /\ UNCHANGED ledgerVars
  /\ Goto(t, "idle")
  /\ Local

----------------------------------------------------------------------------
(* Failures *)

\* A ledger transaction raises something else than a conflict and is rolled
\* back, or an exception no handler catches escapes from publish.  Before
\* the remote call the handler just ends; a failed mark_succeeded falls to
\* mark_outcome_unknown, and if that fails too the attempt stays running.
Fault(t) ==
  /\ up
  /\ faults < MaxFaults
  /\ pc[t] \in {"reconcile", "ensure", "insert", "reject", "claim", "publish", "confirm", "giveup"}
  /\ faults' = faults + 1
  /\ Goto(t, IF pc[t] = "confirm" THEN "giveup" ELSE "idle")
  /\ lock' = IF pc[t] = "reconcile" THEN NoThread ELSE lock
  /\ calls' = IF pc[t] = "publish" THEN [calls EXCEPT ![Op(t)] = @ + 1] ELSE calls
  /\ UNCHANGED <<ledgerVars, up, reconciled, req, crashes>>

\* Slip: the flag outlives the process that set it.
CrashKeepingFlag ==
  /\ up
  /\ crashes < MaxCrashes
  /\ up' = FALSE
  /\ lock' = NoThread
  /\ pc' = [t \in Threads |-> "idle"]
  /\ crashes' = crashes + 1
  /\ UNCHANGED <<ledgerVars, reconciled, req, calls, faults>>

\* The process dies: every handler, the flag and the lock are gone.
Crash ==
  /\ up
  /\ crashes < MaxCrashes
  /\ up' = FALSE
  /\ reconciled' = FALSE
  /\ lock' = NoThread
  /\ pc' = [t \in Threads |-> "idle"]
  /\ crashes' = crashes + 1
  /\ UNCHANGED <<ledgerVars, req, calls, faults>>

\* install_publishing_routes in a new process: nothing is reconciled yet.
Restart ==
  /\ ~up
  /\ up' = TRUE
  /\ UNCHANGED <<ledgerVars, reconciled, lock, pc, req, calls, budget>>

----------------------------------------------------------------------------

Step(t) ==
  \/ Acquire(t) \/ Reconcile(t) \/ Release(t)
  \/ ReadExisting(t) \/ EnsureRow(t) \/ Insert(t)
  \/ Load(t) \/ Authenticate(t) \/ Health(t) \/ Preflight(t) \/ Reject(t)
  \/ Claim(t) \/ CallPublish(t) \/ Confirm(t) \/ GiveUp(t)

Next ==
  \/ \E t \in Threads : Arrive(t) \/ Step(t) \/ Fault(t)
  \/ Crash
  \/ Restart

Spec == Init /\ [][Next]_vars

\* Handlers run on, a dead process is started again, and clients keep
\* asking (the PWA polls): nothing is assumed of faults and crashes.
Fairness ==
  /\ \A t \in Threads : WF_vars(Step(t)) /\ WF_vars(Arrive(t))
  /\ WF_vars(Restart)

FairSpec == Spec /\ Fairness

----------------------------------------------------------------------------
(* Safety *)

\* However often a request is approved, executed, retried, interrupted and
\* restarted, on however many threads: provider.publish is begun at most
\* once for it (the reason the ledger exists; publish_idempotency_key alone
\* does not make a YouTube upload idempotent).
AtMostOneRemoteCall == \A op \in Ops : calls[op] <= 1

\* The ledger never calls a request safe to retry (no attempt, prepared,
\* failed) once its remote call has begun, and reports success only of a
\* request whose call was made.
LedgerKnowsTheRisk ==
  \A op \in Ops :
    /\ calls[op] > 0 => LastState(op) \in {"running", "succeeded", "outcome_unknown"}
    /\ LastState(op) = "succeeded" => calls[op] > 0

\* A handler at or after the remote call owns its attempt: it is recorded as
\* running, no other handler is there for the same request, and restart
\* recovery never retires it under the handler.  So mark_succeeded and
\* mark_outcome_unknown can only fail for storage reasons, and
\* PublishOrchestrationError("failed to persist unknown ...") is unreachable.
LiveCallOwnsAttempt ==
  \A t \in Threads : pc[t] \in Remote =>
    /\ HasAttempt(Op(t), N(t))
    /\ ledger[Op(t)][N(t)] = "running"
    /\ \A u \in Threads \ {t} : pc[u] \in Remote => Op(u) # Op(t)

\* All attempts before the newest failed before the remote boundary: there
\* is at most one that is active or settled, and it is the newest.
OnlyNewestIsOpen ==
  \A op \in Ops : \A i \in DOMAIN ledger[op] :
    i < Len(ledger[op]) => ledger[op][i] = "failed"

\* The ledger and the remote calls of a request (application/publishing.py, over
\* storage/publishing.py): these three, and the types.
PublishingInv == TypeOK /\ AtMostOneRemoteCall /\ LedgerKnowsTheRisk /\ OnlyNewestIsOpen

----------------------------------------------------------------------------
(* Action properties *)

\* A succeeded or unknown outcome is final: neither recovery nor any handler
\* changes it or adds an attempt after it.
SettledIsFinal ==
  [][\A op \in Ops : HasState(op, Settled) => ledger'[op] = ledger[op]]_vars

\* An approval that was never started survives: only a handler that works
\* on that very attempt takes it out of prepared, never a crash, a restart or
\* the recovery pass (publishing_hardening.py, reconcile_interrupted).
ApprovalSurvivesRecovery ==
  [][\A op \in Ops : LastState(op) = "prepared" /\ LastState(op)' # "prepared" =>
        \E t \in Threads : /\ pc[t] \in {"reject", "claim"}
                           /\ req[t].op = op /\ req[t].n = Len(ledger[op])
                           /\ pc'[t] # pc[t]]_vars

----------------------------------------------------------------------------
(* Refinement of PublishOnce *)

PhaseOf(op) ==
  CASE LastState(op) \in {"none", "failed"}  -> "open"
    [] LastState(op) = "prepared"            -> "approved"
    [] LastState(op) = "running"             -> "committed"
    [] LastState(op) = "succeeded"           -> "published"
    [] LastState(op) = "outcome_unknown"     -> "unknown"

Once == INSTANCE PublishOnce WITH phase <- [op \in Ops |-> PhaseOf(op)], calls <- calls

\* The handlers, the ledger, crashes and recovery together implement
\* "committed once, called at most once, then published or unknown".
ImplementsPublishOnce == Once!Spec

----------------------------------------------------------------------------
(* Liveness *)

\* An attempt a dead process left running does not stay running: the first
\* request served after a restart settles it (or the next process's first,
\* if that one dies before).
StaleRunIsSettled ==
  \A op \in Ops : (~up /\ LastState(op) = "running") ~> HasState(op, Settled)
=============================================================================
