-------------------------- MODULE PublishingProofs --------------------------
(***************************************************************************)
(* Proofs about Publishing, for any sets of requests and threads and any    *)
(* bounds.  Inv is the inductive invariant: the safety properties alone are *)
(* not inductive, because they do not say that a handler beyond             *)
(* ensure_reconciled implies a reconciled process, nor that a handler about *)
(* to call the provider has not called it yet.                              *)
(***************************************************************************)
EXTENDS Publishing, TLAPS

\* ensure_reconciled as the handlers see it: who is past it runs in a
\* reconciled process, who is inside its critical section holds the lock.
Gate ==
  \A t \in Threads :
    /\ pc[t] # "idle" => up
    /\ pc[t] \in Admitted => reconciled
    /\ pc[t] \in {"reconcile", "release"} => lock = t
    /\ pc[t] = "reconcile" => ~reconciled
    /\ pc[t] = "release" => reconciled

\* A request to execute names an attempt that exists (attempts are never
\* deleted).
Target ==
  \A t \in Threads :
    /\ pc[t] \in BeforeRun \cup Remote => HasAttempt(Op(t), N(t))
    /\ pc[t] # "idle" /\ req[t].kind = "execute" => HasAttempt(Op(t), N(t))

\* A handler stands before its remote call exactly until it makes it.
CallCount ==
  \A t \in Threads :
    /\ pc[t] = "publish" => calls[Op(t)] = 0
    /\ pc[t] = "confirm" => calls[Op(t)] = 1

Inv ==
  /\ TypeOK
  /\ OnlyNewestIsOpen
  /\ Gate
  /\ Target
  /\ LiveCallOwnsAttempt
  /\ CallCount
  /\ AtMostOneRemoteCall
  /\ LedgerKnowsTheRisk

----------------------------------------------------------------------------
(* What each ledger transaction does *)

\* Move changes one entry of one request's attempts and nothing else.
LEMMA MoveEffect ==
  ASSUME LedgerTypeOK, NEW op \in Ops, NEW n, NEW from, NEW to \in AttemptState,
         Move(op, n, from, to)
  PROVE  /\ LedgerTypeOK'
         /\ n \in 1..Len(ledger[op]) /\ ledger[op][n] = from
         /\ \A o \in Ops : /\ o # op => ledger'[o] = ledger[o]
                           /\ Len(ledger'[o]) = Len(ledger[o])
         /\ \A i \in 1..Len(ledger[op]) :
              ledger'[op][i] = IF i = n THEN to ELSE ledger[op][i]
  BY DEF LedgerTypeOK, Move, HasAttempt

\* InsertAttempt adds one prepared attempt, after failed ones only.
LEMMA InsertEffect ==
  ASSUME LedgerTypeOK, NEW op \in Ops, InsertAttempt(op)
  PROVE  /\ LedgerTypeOK'
         /\ \A i \in 1..Len(ledger[op]) : ledger[op][i] = "failed"
         /\ \A o \in Ops : o # op => ledger'[o] = ledger[o]
         /\ Len(ledger'[op]) = Len(ledger[op]) + 1
         /\ \A i \in 1..Len(ledger[op]) : ledger'[op][i] = ledger[op][i]
         /\ ledger'[op][Len(ledger[op]) + 1] = "prepared"
<1>1. ledger[op] \in Seq(AttemptState) /\ "prepared" \in AttemptState
  BY DEF LedgerTypeOK, AttemptState
<1>2. ledger' = [ledger EXCEPT ![op] = Append(ledger[op], "prepared")] /\ operations' = operations
  BY DEF InsertAttempt
<1>3. LedgerTypeOK'
  BY <1>1, <1>2 DEF LedgerTypeOK
<1>4. \A i \in 1..Len(ledger[op]) : ledger[op][i] = "failed"
  BY <1>1 DEF InsertAttempt, HasState, AttemptState, Active
<1>5. QED
  BY <1>1, <1>2, <1>3, <1>4 DEF LedgerTypeOK

\* Recovery retires exactly the running attempts.
LEMMA ReconcileEffect ==
  ASSUME LedgerTypeOK, ReconcileInterrupted
  PROVE  /\ LedgerTypeOK'
         /\ \A o \in Ops : Len(ledger'[o]) = Len(ledger[o])
         /\ \A o \in Ops : \A i \in 1..Len(ledger[o]) :
              ledger'[o][i] = IF ledger[o][i] = "running" THEN "outcome_unknown" ELSE ledger[o][i]
<1>1. SUFFICES ASSUME NEW o \in Ops
               PROVE  /\ ledger'[o] \in Seq(AttemptState)
                      /\ Len(ledger'[o]) = Len(ledger[o])
                      /\ \A i \in 1..Len(ledger[o]) :
                           ledger'[o][i] = IF ledger[o][i] = "running" THEN "outcome_unknown" ELSE ledger[o][i]
  BY DEF LedgerTypeOK, ReconcileInterrupted
<1>2. ledger[o] \in Seq(AttemptState) /\ DOMAIN ledger[o] = 1..Len(ledger[o])
  BY DEF LedgerTypeOK
<1>3. ledger'[o] = [i \in 1..Len(ledger[o]) |->
                      IF ledger[o][i] = "running" THEN "outcome_unknown" ELSE ledger[o][i]]
  BY <1>2 DEF ReconcileInterrupted
<1>4. \A i \in 1..Len(ledger[o]) : ledger[o][i] \in AttemptState
  BY <1>2
<1>5. ledger'[o] \in [1..Len(ledger[o]) -> AttemptState]
  BY <1>3, <1>4 DEF AttemptState
<1>6. Len(ledger[o]) \in Nat
  BY <1>2
<1>7. ledger'[o] \in Seq(AttemptState) /\ Len(ledger'[o]) = Len(ledger[o])
  BY <1>5, <1>6
<1>8. QED
  BY <1>3, <1>7

----------------------------------------------------------------------------
(* The inductive step, one lemma per group of actions *)

\* It holds of an empty database and idle processes.
LEMMA InitInv == Init => Inv
<1> SUFFICES ASSUME Init PROVE Inv
  OBVIOUS
<1>1. \A t \in Threads : pc[t] = "idle"
  BY DEF Init
<1>2. \A op \in Ops : ledger[op] = <<>> /\ calls[op] = 0 /\ LastState(op) = "none"
  BY DEF Init, LedgerInit, LastState
<1>3. LedgerTypeOK
  BY DEF Init, LedgerInit, LedgerTypeOK
<1>4. TypeOK
  <2>1. req \in [Threads -> Request]
    BY DEF Init, Request, Kind
  <2>2. pc \in [Threads -> PC]
    BY DEF Init, PC
  <2>3. calls \in [Ops -> Nat]
    BY DEF Init
  <2>4. up \in BOOLEAN /\ reconciled \in BOOLEAN /\ lock \in Threads \cup {NoThread}
    BY DEF Init
  <2>5. crashes \in 0..MaxCrashes /\ faults \in 0..MaxFaults
    BY PublishingAssumption DEF Init
  <2> QED
    BY <1>3, <2>1, <2>2, <2>3, <2>4, <2>5 DEF TypeOK
<1>5. OnlyNewestIsOpen
  BY <1>2 DEF OnlyNewestIsOpen
<1>6. Gate /\ Target /\ LiveCallOwnsAttempt /\ CallCount
  BY <1>1 DEF Gate, Target, LiveCallOwnsAttempt, CallCount, Admitted, Approving, BeforeRun, Remote
<1>7. AtMostOneRemoteCall /\ LedgerKnowsTheRisk
  BY <1>2 DEF AtMostOneRemoteCall, LedgerKnowsTheRisk
<1> QED
  BY <1>4, <1>5, <1>6, <1>7 DEF Inv

\* A handler past ensure_reconciled stays inside Gate wherever it goes next.
LEMMA GateStep ==
  ASSUME TypeOK, Gate, NEW t \in Threads, NEW w \in {"idle"} \cup Admitted,
         up, pc[t] \in Admitted, Goto(t, w), UNCHANGED <<up, reconciled, lock>>
  PROVE  Gate'
  BY DEF TypeOK, Gate, Goto, Admitted, Approving, BeforeRun, Remote

\* A step that changes neither the attempts nor the calls, and does not
\* enter the remote part of a handler.
LEMMA QuietStep ==
  ASSUME Inv, NEW t \in Threads, NEW w \in PC \ Remote, Goto(t, w), Gate',
         UNCHANGED <<ledger, calls, req>>,
         operations' \subseteq Ops, up' \in BOOLEAN, reconciled' \in BOOLEAN,
         lock' \in Threads \cup {NoThread}, crashes' \in 0..MaxCrashes, faults' \in 0..MaxFaults,
         w \in BeforeRun => HasAttempt(Op(t), N(t)),
         w # "idle" /\ req[t].kind = "execute" => HasAttempt(Op(t), N(t))
  PROVE  Inv'
<1> USE DEF Inv
<1>1. pc' \in [Threads -> PC] /\ \A u \in Threads : pc'[u] = IF u = t THEN w ELSE pc[u]
  BY DEF Goto, TypeOK
<1>2. TypeOK'
  BY <1>1 DEF TypeOK, LedgerTypeOK
<1>3. OnlyNewestIsOpen' /\ AtMostOneRemoteCall' /\ LedgerKnowsTheRisk'
  BY DEF OnlyNewestIsOpen, AtMostOneRemoteCall, LedgerKnowsTheRisk, LastState
<1>4. Target'
  BY <1>1 DEF Target, HasAttempt, Op, N, Remote
<1>5. LiveCallOwnsAttempt'
  BY <1>1 DEF LiveCallOwnsAttempt, HasAttempt, Op, N
<1>6. CallCount'
  BY <1>1 DEF CallCount, Op, Remote
<1> QED
  BY <1>2, <1>3, <1>4, <1>5, <1>6

\* A request arrives at an idle thread.
LEMMA ArriveInv == ASSUME Inv, NEW t \in Threads, Arrive(t) PROVE Inv'
<1> USE DEF Inv
<1>1. PICK kind \in Kind, op \in Ops, n \in 0..MaxAttempts :
        /\ kind = "execute" <=> HasAttempt(op, n)
        /\ req' = [req EXCEPT ![t] = [kind |-> kind, op |-> op, n |-> n]]
  BY DEF Arrive
<1>2. pc[t] = "idle" /\ up /\ UNCHANGED <<ledger, operations, up, reconciled, lock, calls, crashes, faults>>
  BY DEF Arrive, At, ledgerVars, budget
<1>3. pc' \in [Threads -> PC] /\ \A u \in Threads : pc'[u] = IF u = t THEN "enter" ELSE pc[u]
  BY DEF Arrive, Goto, TypeOK, PC, Entering
<1>4. [kind |-> kind, op |-> op, n |-> n] \in Request
  BY PublishingAssumption DEF Request
<1>5. req' \in [Threads -> Request] /\ \A u \in Threads :
        req'[u] = IF u = t THEN [kind |-> kind, op |-> op, n |-> n] ELSE req[u]
  BY <1>1, <1>4 DEF TypeOK
<1>6. TypeOK'
  BY <1>2, <1>3, <1>5 DEF TypeOK, LedgerTypeOK
<1>7. OnlyNewestIsOpen' /\ AtMostOneRemoteCall' /\ LedgerKnowsTheRisk'
  BY <1>2 DEF OnlyNewestIsOpen, AtMostOneRemoteCall, LedgerKnowsTheRisk, LastState
<1>8. Gate'
  BY <1>2, <1>3 DEF Gate, Admitted, Approving, BeforeRun, Remote
<1>9. Target'
  BY <1>1, <1>2, <1>3, <1>5 DEF Target, HasAttempt, Op, N, BeforeRun, Remote
<1>10. LiveCallOwnsAttempt' /\ CallCount'
  BY <1>2, <1>3, <1>5 DEF LiveCallOwnsAttempt, CallCount, HasAttempt, Op, N, Remote
<1> QED
  BY <1>6, <1>7, <1>8, <1>9, <1>10

\* The ledger's lock is taken or given back.
LEMMA EnterInv == ASSUME Inv, NEW t \in Threads, Acquire(t) \/ Release(t) PROVE Inv'
<1> USE DEF Inv
<1>1. UNCHANGED <<ledger, operations, calls, req, crashes, faults, up, reconciled>> /\ up
  BY DEF Acquire, Release, ledgerVars, budget, At
<1>2. lock' \in Threads \cup {NoThread}
  BY DEF Acquire, Release, TypeOK
<1>3. CASE Acquire(t)
  <2> DEFINE w == IF reconciled THEN "release" ELSE "reconcile"
  <2>1. w \in PC \ Remote /\ w \notin BeforeRun /\ Goto(t, w) /\ pc[t] = "enter"
    BY <1>3 DEF Acquire, PC, Entering, Remote, BeforeRun, At
  <2>2. Gate'
    BY <1>1, <1>3, <2>1, PublishingAssumption
       DEF Acquire, Goto, Gate, TypeOK, Admitted, Approving, BeforeRun, Remote
  <2> HIDE DEF w
  <2> QED
    BY <1>1, <1>2, <2>1, <2>2, QuietStep DEF TypeOK, Target, LedgerTypeOK
<1>4. CASE Release(t)
  <2> DEFINE w == Handler(req[t].kind)
  <2>1. req[t].kind \in Kind
    BY DEF TypeOK, Request
  <2>2. /\ w \in PC \ Remote /\ Goto(t, w) /\ pc[t] = "release"
        /\ w \in {"idle"} \cup Admitted
        /\ w \in BeforeRun => req[t].kind = "execute"
    BY <1>4, <2>1 DEF Release, Handler, Kind, PC, Approving, BeforeRun, Remote, At, Admitted
  <2> HIDE DEF w
  <2>3. Gate'
    BY <1>1, <1>4, <2>2, PublishingAssumption
       DEF Release, Goto, Gate, TypeOK, Admitted, Approving, BeforeRun, Remote
  <2> QED
    BY <1>1, <1>2, <2>2, <2>3, QuietStep DEF TypeOK, Target, LedgerTypeOK
<1> QED
  BY <1>3, <1>4

\* The handler steps that change no attempt: reads, checks and the row of
\* publish_operations.
LEMMA LocalInv ==
  ASSUME Inv, NEW t \in Threads,
         ReadExisting(t) \/ EnsureRow(t) \/ Load(t) \/ Authenticate(t) \/ Health(t) \/ Preflight(t)
  PROVE  Inv'
<1> USE DEF Inv
<1>1. /\ UNCHANGED <<ledger, calls, req, crashes, faults, up, reconciled, lock>> /\ up
      /\ operations' \subseteq Ops
  <2>1. UNCHANGED <<ledger, calls, req, crashes, faults, up, reconciled, lock>> /\ up
    BY DEF ReadExisting, EnsureRow, Load, Authenticate, Health, Preflight, EnsureOperation,
           Local, ledgerVars, budget, At
  <2>2. Op(t) \in Ops /\ operations \subseteq Ops
    BY DEF TypeOK, LedgerTypeOK, Op, Request
  <2> QED
    BY <2>1, <2>2
       DEF ReadExisting, EnsureRow, Load, Authenticate, Health, Preflight, EnsureOperation, ledgerVars
<1>2. PICK w \in {"idle"} \cup Approving \cup BeforeRun :
        /\ Goto(t, w)
        /\ w \in BeforeRun => pc[t] \in BeforeRun
  BY DEF ReadExisting, EnsureRow, Load, Authenticate, Health, Preflight, Approving, BeforeRun, At
<1>3. pc[t] \in Admitted
  BY DEF ReadExisting, EnsureRow, Load, Authenticate, Health, Preflight, At,
         Admitted, Approving, BeforeRun
<1>4. w \in PC \ Remote /\ w \in {"idle"} \cup Admitted
  BY DEF PC, Remote, Admitted, Approving, BeforeRun
<1>5. Gate'
  BY <1>1, <1>2, <1>3, <1>4, GateStep
<1>6. HasAttempt(Op(t), N(t)) \/ (w \notin BeforeRun /\ req[t].kind # "execute")
  BY <1>2, <1>3 DEF Target, Admitted, Approving, BeforeRun, Remote
<1> QED
  BY <1>1, <1>2, <1>4, <1>5, <1>6, QuietStep DEF TypeOK

\* An attempt that has not failed is the newest one and decides LastState.
LEMMA OpenIsNewest ==
  ASSUME LedgerTypeOK, OnlyNewestIsOpen, NEW op \in Ops, NEW n, HasAttempt(op, n),
         ledger[op][n] # "failed"
  PROVE  n = Len(ledger[op]) /\ LastState(op) = ledger[op][n] /\ Len(ledger[op]) \in Nat \ {0}
<1>1. ledger[op] \in Seq(AttemptState) /\ n \in 1..Len(ledger[op]) /\ DOMAIN ledger[op] = 1..Len(ledger[op])
  BY DEF LedgerTypeOK, HasAttempt
<1>2. n = Len(ledger[op])
  BY <1>1 DEF OnlyNewestIsOpen
<1> QED
  BY <1>1, <1>2 DEF LastState

\* A transition of an open attempt changes the LastState of its request only.
LEMMA MoveNewest ==
  ASSUME LedgerTypeOK, OnlyNewestIsOpen, NEW op \in Ops, NEW n, NEW from, NEW to \in AttemptState,
         from # "failed", Move(op, n, from, to)
  PROVE  /\ LedgerTypeOK' /\ OnlyNewestIsOpen'
         /\ LastState(op) = from /\ LastState(op)' = to
         /\ \A o \in Ops : o # op => ledger'[o] = ledger[o] /\ LastState(o)' = LastState(o)
         /\ \A o \in Ops, i \in Nat : HasAttempt(o, i) => HasAttempt(o, i)'
         /\ ledger'[op][n] = to
<1>1. HasAttempt(op, n) /\ ledger[op][n] = from
  BY DEF Move
<1>2. n = Len(ledger[op]) /\ LastState(op) = from /\ Len(ledger[op]) \in Nat \ {0}
  BY <1>1, OpenIsNewest
<1>3. /\ LedgerTypeOK'
      /\ \A o \in Ops : /\ o # op => ledger'[o] = ledger[o]
                        /\ Len(ledger'[o]) = Len(ledger[o])
      /\ \A i \in 1..Len(ledger[op]) : ledger'[op][i] = IF i = n THEN to ELSE ledger[op][i]
  BY MoveEffect
<1>4. \A o \in Ops : /\ ledger[o] \in Seq(AttemptState) /\ ledger'[o] \in Seq(AttemptState)
                     /\ DOMAIN ledger[o] = 1..Len(ledger[o])
                     /\ DOMAIN ledger'[o] = 1..Len(ledger'[o])
  BY <1>3 DEF LedgerTypeOK
<1>5. OnlyNewestIsOpen'
  <2> SUFFICES ASSUME NEW o \in Ops, NEW i \in 1..Len(ledger[o]), i < Len(ledger[o])
               PROVE  ledger'[o][i] = "failed"
    BY <1>3, <1>4 DEF OnlyNewestIsOpen
  <2>1. ledger[o][i] = "failed"
    BY <1>4 DEF OnlyNewestIsOpen
  <2> QED
    BY <1>2, <1>3, <2>1
<1>6. ledger'[op][n] = to /\ LastState(op)' = to
  BY <1>2, <1>3, <1>4 DEF LastState
<1>7. \A o \in Ops : o # op => LastState(o)' = LastState(o)
  BY <1>3 DEF LastState
<1>8. \A o \in Ops, i \in Nat : HasAttempt(o, i) => HasAttempt(o, i)'
  BY <1>3, <1>4 DEF HasAttempt
<1> QED
  BY <1>2, <1>3, <1>5, <1>6, <1>7, <1>8

\* A handler in its remote part works on the newest attempt, and it runs.
LEMMA RemoteIsRunning ==
  ASSUME Inv, NEW u \in Threads, pc[u] \in Remote
  PROVE  LastState(Op(u)) = "running" /\ N(u) = Len(ledger[Op(u)]) /\ Op(u) \in Ops
<1>1. Op(u) \in Ops /\ LedgerTypeOK /\ OnlyNewestIsOpen
  BY DEF Inv, TypeOK, Op, Request
<1>2. HasAttempt(Op(u), N(u)) /\ ledger[Op(u)][N(u)] = "running"
  BY DEF Inv, LiveCallOwnsAttempt
<1> QED
  BY <1>1, <1>2, OpenIsNewest

\* A transition of an open attempt by the handler that works on it keeps
\* Inv.  The three last hypotheses are what differs between the transitions.
LEMMA TransitionInv ==
  ASSUME Inv, NEW t \in Threads, NEW from \in Active, NEW to \in AttemptState, NEW w \in PC,
         up, pc[t] \in Admitted, NEW op, NEW n, op = Op(t), n = N(t), Move(op, n, from, to), Goto(t, w), Local,
         w = IF to = "running" THEN "publish" ELSE "idle",
         from = "prepared" => to \in {"running", "failed"},
         from = "running" => to \in Settled /\ pc[t] \in Remote,
         to = "succeeded" => pc[t] = "confirm"
  PROVE  Inv'
<1> USE DEF Inv
<1>0. op \in Ops /\ LedgerTypeOK /\ OnlyNewestIsOpen /\ from # "failed"
  BY DEF TypeOK, Op, Request, Active
<1>1. UNCHANGED <<up, reconciled, lock, req, calls, crashes, faults>>
  BY DEF Local, budget
<1>2. pc' \in [Threads -> PC] /\ \A u \in Threads : pc'[u] = IF u = t THEN w ELSE pc[u]
  BY DEF Goto, TypeOK
<1>3. /\ LedgerTypeOK' /\ OnlyNewestIsOpen'
      /\ LastState(op) = from /\ LastState(op)' = to
      /\ \A o \in Ops : o # op => ledger'[o] = ledger[o] /\ LastState(o)' = LastState(o)
      /\ \A o \in Ops, i \in Nat : HasAttempt(o, i) => HasAttempt(o, i)'
      /\ ledger'[op][n] = to
  BY <1>0, MoveNewest
<1>4. n \in Nat /\ HasAttempt(op, n)
  BY DEF Move, TypeOK, Request, N
<1>5. TypeOK'
  BY <1>1, <1>2, <1>3 DEF TypeOK
<1>6. Gate'
  BY <1>1, GateStep DEF Admitted, Remote
<1>7. \A u \in Threads : Op(u)' = Op(u) /\ N(u)' = N(u) /\ Op(u) \in Ops /\ N(u) \in Nat
  BY <1>1 DEF Op, N, TypeOK, Request
<1>8. Target'
  BY <1>1, <1>2, <1>3, <1>4, <1>7 DEF Target, BeforeRun, Remote
<1>9. \A u \in Threads \ {t} : pc[u] \in Remote => Op(u) # op
  <2> SUFFICES ASSUME NEW u \in Threads \ {t}, pc[u] \in Remote, Op(u) = op PROVE FALSE
    OBVIOUS
  <2>1. from = "running"
    BY <1>3, RemoteIsRunning
  <2>2. pc[t] \in Remote
    BY <2>1
  <2> QED
    BY <2>2 DEF LiveCallOwnsAttempt
<1>10. LiveCallOwnsAttempt'
  <2> SUFFICES ASSUME NEW u \in Threads, pc'[u] \in Remote
               PROVE  /\ HasAttempt(Op(u), N(u))' /\ ledger'[Op(u)][N(u)] = "running"
                      /\ \A v \in Threads \ {u} : pc'[v] \in Remote => Op(v) # Op(u)
    BY <1>7 DEF LiveCallOwnsAttempt
  <2>1. CASE u = t
    BY <1>2, <1>3, <1>4, <1>7, <1>9, <2>1 DEF Remote
  <2>2. CASE u # t
    <3>1. pc[u] \in Remote /\ Op(u) # op
      BY <1>2, <1>9, <2>2
    <3>2. HasAttempt(Op(u), N(u)) /\ ledger[Op(u)][N(u)] = "running"
      BY <3>1 DEF LiveCallOwnsAttempt
    <3> QED
      BY <1>2, <1>3, <1>7, <3>1, <3>2 DEF LiveCallOwnsAttempt
  <2> QED
    BY <2>1, <2>2
<1>11. CallCount'
  <2>1. from = "prepared" => calls[op] = 0
    BY <1>0, <1>3 DEF LedgerKnowsTheRisk, TypeOK
  <2> QED
    BY <1>1, <1>2, <1>7, <2>1 DEF CallCount, Active, Settled
<1>12. LedgerKnowsTheRisk'
  <2> SUFFICES ASSUME NEW o \in Ops
               PROVE  /\ calls[o] > 0 => LastState(o)' \in {"running", "succeeded", "outcome_unknown"}
                      /\ LastState(o)' = "succeeded" => calls[o] > 0
    BY <1>1 DEF LedgerKnowsTheRisk
  <2>1. CASE o # op
    BY <1>3, <2>1 DEF LedgerKnowsTheRisk
  <2>2. CASE o = op
    <3>1. to = "succeeded" => calls[op] = 1
      BY DEF CallCount
    <3>2. from = "prepared" => ~(calls[op] > 0)
      BY <1>0, <1>3 DEF LedgerKnowsTheRisk
    <3>3. from = "running" => to \in {"succeeded", "outcome_unknown"}
      BY DEF Settled
    <3> QED
      BY <1>3, <2>2, <3>1, <3>2, <3>3 DEF Active
  <2> QED
    BY <2>1, <2>2
<1>13. AtMostOneRemoteCall'
  BY <1>1 DEF AtMostOneRemoteCall
<1> QED
  BY <1>3, <1>5, <1>6, <1>8, <1>10, <1>11, <1>12, <1>13

\* An attempt is inserted, or found.
LEMMA InsertInv == ASSUME Inv, NEW t \in Threads, Insert(t) PROVE Inv'
<1> USE DEF Inv
<1>1. UNCHANGED <<up, reconciled, lock, req, calls, crashes, faults>> /\ up /\ pc[t] = "insert"
  BY DEF Insert, Local, budget, At
<1>2. Goto(t, "idle") /\ "idle" \in PC \ Remote /\ "idle" \notin BeforeRun
  BY DEF Insert, PC, Remote, BeforeRun
<1>3. Gate'
  BY <1>1, <1>2, GateStep DEF Admitted, Approving
<1>4. CASE UNCHANGED ledgerVars
  BY <1>1, <1>2, <1>3, <1>4, QuietStep DEF ledgerVars, TypeOK, LedgerTypeOK
<1>5. CASE InsertAttempt(Op(t))
  <2>1. PICK op \in Ops : op = Op(t)
    BY DEF TypeOK, Op, Request
  <2>2. LedgerTypeOK /\ InsertAttempt(op)
    BY <1>5, <2>1 DEF TypeOK
  <2>3. /\ LedgerTypeOK'
        /\ \A i \in 1..Len(ledger[op]) : ledger[op][i] = "failed"
        /\ \A o \in Ops : o # op => ledger'[o] = ledger[o]
        /\ Len(ledger'[op]) = Len(ledger[op]) + 1
        /\ \A i \in 1..Len(ledger[op]) : ledger'[op][i] = ledger[op][i]
        /\ ledger'[op][Len(ledger[op]) + 1] = "prepared"
    BY <2>2, InsertEffect
  <2>4. \A o \in Ops : /\ ledger[o] \in Seq(AttemptState) /\ ledger'[o] \in Seq(AttemptState)
                       /\ DOMAIN ledger[o] = 1..Len(ledger[o])
                       /\ DOMAIN ledger'[o] = 1..Len(ledger'[o])
                       /\ Len(ledger[o]) \in Nat
    BY <2>2, <2>3 DEF LedgerTypeOK
  <2>5. pc' \in [Threads -> PC] /\ \A u \in Threads : pc'[u] = IF u = t THEN "idle" ELSE pc[u]
    BY <1>2 DEF Goto, TypeOK
  <2>6. TypeOK'
    BY <1>1, <2>3, <2>5 DEF TypeOK
  <2>7. OnlyNewestIsOpen'
    BY <2>3, <2>4 DEF OnlyNewestIsOpen
  <2>8. LastState(op) \in {"none", "failed"} /\ LastState(op)' = "prepared"
    BY <2>3, <2>4 DEF LastState
  <2>9. \A o \in Ops : o # op => LastState(o)' = LastState(o)
    BY <2>3 DEF LastState
  <2>10. calls' = calls /\ calls[op] = 0
    BY <1>1, <2>8 DEF LedgerKnowsTheRisk, TypeOK
  <2>11. \A o \in Ops, i \in Nat : HasAttempt(o, i) => HasAttempt(o, i)'
    BY <2>3, <2>4 DEF HasAttempt
  <2>12. \A u \in Threads : Op(u)' = Op(u) /\ N(u)' = N(u) /\ Op(u) \in Ops /\ N(u) \in Nat
    BY <1>1 DEF Op, N, TypeOK, Request
  <2>13. \A u \in Threads : pc[u] \in Remote => Op(u) # op
    BY <2>8, RemoteIsRunning
  <2>14. Target'
    BY <1>1, <2>5, <2>11, <2>12 DEF Target, BeforeRun, Remote
  <2>15. LiveCallOwnsAttempt'
    <3> SUFFICES ASSUME NEW u \in Threads, pc'[u] \in Remote
                 PROVE  /\ HasAttempt(Op(u), N(u))' /\ ledger'[Op(u)][N(u)] = "running"
                        /\ \A v \in Threads \ {u} : pc'[v] \in Remote => Op(v) # Op(u)
      BY <2>12 DEF LiveCallOwnsAttempt
    <3>1. pc[u] \in Remote /\ u # t
      BY <2>5 DEF Remote
    <3>2. ledger'[Op(u)] = ledger[Op(u)]
      BY <2>3, <2>12, <2>13, <3>1
    <3> QED
      BY <2>5, <2>11, <2>12, <3>1, <3>2 DEF LiveCallOwnsAttempt, Remote
  <2>16. CallCount'
    BY <1>1, <2>5, <2>12 DEF CallCount
  <2>17. LedgerKnowsTheRisk' /\ AtMostOneRemoteCall'
    BY <2>8, <2>9, <2>10 DEF LedgerKnowsTheRisk, AtMostOneRemoteCall
  <2> QED
    BY <1>3, <2>6, <2>7, <2>14, <2>15, <2>16, <2>17
<1> QED
  BY <1>4, <1>5 DEF Insert

\* A handler that is in its remote part sees its own transition accepted.
LEMMA RemoteStep ==
  ASSUME Inv, NEW t \in Threads, pc[t] \in Remote
  PROVE  ledger[Op(t)][N(t)] = "running" /\ HasAttempt(Op(t), N(t))
  BY DEF Inv, LiveCallOwnsAttempt

\* A statement that moves the attempt a process works on.
LEMMA AttemptStepInv ==
  ASSUME Inv, NEW t \in Threads, Reject(t) \/ Claim(t) \/ Confirm(t) \/ GiveUp(t)
  PROVE  Inv'
<1>0. PICK op, n : op = Op(t) /\ n = N(t)
  OBVIOUS
<1>1. Local /\ up /\ pc[t] \in Admitted
  BY DEF Reject, Claim, Confirm, GiveUp, At, Admitted, BeforeRun, Remote
<1>2. CASE UNCHANGED ledgerVars /\ Goto(t, "idle")
  <2>1. UNCHANGED <<ledger, operations, up, reconciled, lock, req, calls, crashes, faults>>
    BY <1>1, <1>2 DEF Local, budget, ledgerVars
  <2>2. Gate'
    BY <1>1, <1>2, <2>1, GateStep DEF Inv
  <2>3. "idle" \in PC \ Remote /\ "idle" \notin BeforeRun
    BY DEF PC, Remote, BeforeRun
  <2> QED
    BY <1>2, <2>1, <2>2, <2>3, QuietStep DEF Inv, TypeOK, LedgerTypeOK
<1>3. CASE Reject(t) /\ MarkFailed(Op(t), N(t))
  <2>1. Move(op, n, "prepared", "failed") /\ Goto(t, "idle")
    BY <1>0, <1>3 DEF Reject, MarkFailed
  <2> QED
    BY <1>0, <1>1, <2>1, TransitionInv DEF Active, AttemptState, PC
<1>4. CASE Claim(t) /\ MarkRunning(Op(t), N(t)) /\ Goto(t, "publish")
  <2>1. Move(op, n, "prepared", "running")
    BY <1>0, <1>4 DEF MarkRunning
  <2> QED
    BY <1>0, <1>1, <1>4, <2>1, TransitionInv DEF Active, AttemptState, PC, Remote
<1>5. CASE Confirm(t)
  <2>1. pc[t] = "confirm" /\ pc[t] \in Remote
    BY <1>5 DEF Confirm, At, Remote
  <2>2. Move(op, n, "running", "succeeded") /\ Goto(t, "idle")
    BY <1>0, <1>5, <2>1, RemoteStep DEF Confirm, MarkSucceeded
  <2> QED
    BY <1>0, <1>1, <2>1, <2>2, TransitionInv DEF Active, AttemptState, PC, Settled
<1>6. CASE GiveUp(t)
  <2>1. pc[t] = "giveup" /\ pc[t] \in Remote
    BY <1>6 DEF GiveUp, At, Remote
  <2>2. Move(op, n, "running", "outcome_unknown") /\ Goto(t, "idle")
    BY <1>0, <1>6, <2>1, RemoteStep DEF GiveUp, MarkOutcomeUnknown
  <2> QED
    BY <1>0, <1>1, <2>1, <2>2, TransitionInv DEF Active, AttemptState, PC, Settled
<1> QED
  BY <1>2, <1>3, <1>4, <1>5, <1>6 DEF Reject, Claim

\* The remote call, whether it comes back to the handler or not.
LEMMA CallInv ==
  ASSUME Inv, NEW t \in Threads, NEW w \in {"confirm", "giveup", "idle"}, up, pc[t] = "publish",
         Goto(t, w), calls' = [calls EXCEPT ![Op(t)] = @ + 1],
         UNCHANGED <<ledgerVars, up, reconciled, lock, req, crashes>>, faults' \in 0..MaxFaults
  PROVE  Inv'
<1> USE DEF Inv
<1>1. PICK op \in Ops : op = Op(t)
  BY DEF TypeOK, Op, Request
<1>2. calls[op] = 0
  BY <1>1 DEF CallCount
<1>3. /\ calls' \in [Ops -> Nat] /\ calls'[op] = 1
      /\ \A o \in Ops : o # op => calls'[o] = calls[o]
  BY <1>1, <1>2 DEF TypeOK
<1>4. pc' \in [Threads -> PC] /\ \A u \in Threads : pc'[u] = IF u = t THEN w ELSE pc[u]
  BY DEF Goto, TypeOK, PC, Remote
<1>5. UNCHANGED <<ledger, operations>>
  BY DEF ledgerVars
<1>6. \A u \in Threads : Op(u)' = Op(u) /\ N(u)' = N(u) /\ Op(u) \in Ops
  BY DEF Op, N, TypeOK, Request
<1>7. pc[t] \in Remote /\ LastState(op) = "running"
  BY <1>1, RemoteIsRunning DEF Remote
<1>8. \A u \in Threads \ {t} : pc[u] \in Remote => Op(u) # op
  BY <1>1, <1>7 DEF LiveCallOwnsAttempt
<1>9. TypeOK'
  BY <1>3, <1>4, <1>5 DEF TypeOK, LedgerTypeOK
<1>10. Gate'
  BY GateStep DEF Admitted, Remote
<1>11. Target'
  BY <1>4, <1>5, <1>6 DEF Target, HasAttempt, BeforeRun, Remote
<1>12. LiveCallOwnsAttempt'
  BY <1>4, <1>5, <1>6, <1>7 DEF LiveCallOwnsAttempt, HasAttempt
<1>13. CallCount'
  BY <1>1, <1>3, <1>4, <1>6, <1>8 DEF CallCount, Remote
<1>14. OnlyNewestIsOpen' /\ \A o \in Ops : LastState(o)' = LastState(o)
  BY <1>5 DEF OnlyNewestIsOpen, LastState
<1>15. AtMostOneRemoteCall' /\ LedgerKnowsTheRisk'
  BY <1>3, <1>7, <1>14 DEF AtMostOneRemoteCall, LedgerKnowsTheRisk
<1> QED
  BY <1>9, <1>10, <1>11, <1>12, <1>13, <1>14, <1>15

\* Recovery runs before any handler is admitted, so it retires no live call.
LEMMA ReconcileInv == ASSUME Inv, NEW t \in Threads, Reconcile(t) PROVE Inv'
<1> USE DEF Inv
<1>1. /\ up /\ pc[t] = "reconcile" /\ reconciled' = TRUE /\ Goto(t, "release")
      /\ ReconcileInterrupted /\ LedgerTypeOK
      /\ UNCHANGED <<up, lock, req, calls, crashes, faults>>
  BY DEF Reconcile, At, budget, TypeOK
<1>2. ~reconciled /\ lock = t
  BY <1>1 DEF Gate
<1>3. \A u \in Threads : pc[u] \notin Admitted
  BY <1>2 DEF Gate
<1>4. pc' \in [Threads -> PC] /\ \A u \in Threads : pc'[u] = IF u = t THEN "release" ELSE pc[u]
  BY <1>1 DEF Goto, TypeOK, PC, Entering
<1>5. \A u \in Threads : pc'[u] \notin Admitted
  BY <1>3, <1>4 DEF Admitted, Approving, BeforeRun, Remote
<1>6. /\ LedgerTypeOK'
      /\ \A o \in Ops : Len(ledger'[o]) = Len(ledger[o])
      /\ \A o \in Ops : \A i \in 1..Len(ledger[o]) :
           ledger'[o][i] = IF ledger[o][i] = "running" THEN "outcome_unknown" ELSE ledger[o][i]
  BY <1>1, ReconcileEffect
<1>7. \A o \in Ops : /\ ledger[o] \in Seq(AttemptState) /\ ledger'[o] \in Seq(AttemptState)
                     /\ DOMAIN ledger[o] = 1..Len(ledger[o])
                     /\ DOMAIN ledger'[o] = 1..Len(ledger'[o])
                     /\ Len(ledger[o]) \in Nat
  BY <1>1, <1>6 DEF LedgerTypeOK
<1>8. TypeOK'
  BY <1>1, <1>4, <1>6 DEF TypeOK
<1>9. OnlyNewestIsOpen'
  BY <1>6, <1>7 DEF OnlyNewestIsOpen
<1>10. \A o \in Ops : LastState(o)' =
          IF LastState(o) = "running" THEN "outcome_unknown" ELSE LastState(o)
  <2> SUFFICES ASSUME NEW o \in Ops
               PROVE  LastState(o)' = IF LastState(o) = "running" THEN "outcome_unknown" ELSE LastState(o)
    OBVIOUS
  <2>1. CASE ledger[o] = <<>>
    <3>1. ledger'[o] = <<>>
      BY <1>6, <1>7, <2>1
    <3> QED
      BY <2>1, <3>1 DEF LastState
  <2>2. CASE ledger[o] # <<>>
    <3>1. Len(ledger[o]) \in 1..Len(ledger[o]) /\ ledger'[o] # <<>>
      BY <1>6, <1>7, <2>2
    <3> QED
      BY <1>6, <2>2, <3>1 DEF LastState
  <2> QED
    BY <2>1, <2>2
<1>11. Gate'
  BY <1>1, <1>2, <1>4, <1>5, PublishingAssumption DEF Gate
<1>12. Target'
  <2>1. \A u \in Threads : Op(u)' = Op(u) /\ N(u)' = N(u) /\ Op(u) \in Ops
    BY <1>1 DEF Op, N, TypeOK, Request
  <2>2. \A u \in Threads : HasAttempt(Op(u), N(u)) => HasAttempt(Op(u), N(u))'
    BY <1>6, <1>7, <2>1 DEF HasAttempt
  <2> QED
    BY <1>1, <1>4, <1>5, <2>2 DEF Target, Admitted
<1>13. LiveCallOwnsAttempt' /\ CallCount'
  BY <1>5 DEF LiveCallOwnsAttempt, CallCount, Admitted, Remote
<1>14. AtMostOneRemoteCall' /\ LedgerKnowsTheRisk'
  BY <1>1, <1>10 DEF AtMostOneRemoteCall, LedgerKnowsTheRisk
<1> QED
  BY <1>8, <1>9, <1>11, <1>12, <1>13, <1>14

\* A statement that fails or blocks leaves the database as it is.
LEMMA FaultInv == ASSUME Inv, NEW t \in Threads, Fault(t) PROVE Inv'
<1> USE DEF Inv
<1>1. /\ up /\ UNCHANGED <<ledgerVars, up, reconciled, req, crashes>>
      /\ faults' \in 0..MaxFaults
  BY PublishingAssumption DEF Fault, TypeOK
<1>2. UNCHANGED <<ledger, operations>>
  BY <1>1 DEF ledgerVars
<1>3. CASE pc[t] = "publish"
  <2>1. Goto(t, "idle") /\ calls' = [calls EXCEPT ![Op(t)] = @ + 1] /\ lock' = lock
    BY <1>3 DEF Fault
  <2> QED
    BY <1>1, <1>3, <2>1, CallInv
<1>4. CASE pc[t] = "confirm"
  <2>1. Goto(t, "giveup") /\ calls' = calls /\ lock' = lock
    BY <1>4 DEF Fault
  <2>2. pc' \in [Threads -> PC] /\ \A u \in Threads : pc'[u] = IF u = t THEN "giveup" ELSE pc[u]
    BY <2>1 DEF Goto, TypeOK, PC, Remote
  <2>3. TypeOK'
    BY <1>1, <1>2, <2>1, <2>2 DEF TypeOK, LedgerTypeOK
  <2>4. OnlyNewestIsOpen' /\ AtMostOneRemoteCall' /\ LedgerKnowsTheRisk'
    BY <1>2, <2>1 DEF OnlyNewestIsOpen, AtMostOneRemoteCall, LedgerKnowsTheRisk, LastState
  <2>5. Gate'
    BY <1>1, <1>4, <2>1, GateStep DEF Admitted, Remote
  <2>6. Target' /\ LiveCallOwnsAttempt' /\ CallCount'
    BY <1>1, <1>2, <1>4, <2>1, <2>2
       DEF Target, LiveCallOwnsAttempt, CallCount, HasAttempt, Op, N, Remote
  <2> QED
    BY <2>3, <2>4, <2>5, <2>6
<1>5. CASE pc[t] \notin {"publish", "confirm"}
  <2>1. /\ Goto(t, "idle") /\ calls' = calls
        /\ lock' = IF pc[t] = "reconcile" THEN NoThread ELSE lock
    BY <1>5 DEF Fault
  <2>2. "idle" \in PC \ Remote /\ "idle" \notin BeforeRun /\ lock' \in Threads \cup {NoThread}
    BY <2>1 DEF PC, Remote, BeforeRun, TypeOK
  <2>3. Gate'
    BY <1>1, <1>5, <2>1, PublishingAssumption
       DEF Gate, Goto, TypeOK, Admitted, Approving, BeforeRun, Remote
  <2> QED
    BY <1>1, <1>2, <2>1, <2>2, <2>3, QuietStep DEF TypeOK, LedgerTypeOK
<1> QED
  BY <1>3, <1>4, <1>5

\* The process dies, or starts again.
LEMMA ProcessInv == ASSUME Inv, Crash \/ Restart PROVE Inv'
<1> USE DEF Inv
<1>1. UNCHANGED <<ledger, operations, req, calls>>
  BY DEF Crash, Restart, ledgerVars
<1>2. TypeOK'
  <2>1. up' \in BOOLEAN /\ reconciled' \in BOOLEAN /\ lock' \in Threads \cup {NoThread}
    BY DEF Crash, Restart, TypeOK
  <2>2. pc' \in [Threads -> PC]
    BY DEF Crash, Restart, TypeOK, PC
  <2>3. crashes' \in 0..MaxCrashes /\ faults' \in 0..MaxFaults
    BY PublishingAssumption DEF Crash, Restart, TypeOK, budget
  <2> QED
    BY <1>1, <2>1, <2>2, <2>3 DEF TypeOK, LedgerTypeOK
<1>3. OnlyNewestIsOpen' /\ AtMostOneRemoteCall' /\ LedgerKnowsTheRisk'
  BY <1>1 DEF OnlyNewestIsOpen, AtMostOneRemoteCall, LedgerKnowsTheRisk, LastState
<1>4. \A t \in Threads : pc'[t] = "idle"
  BY DEF Crash, Restart, Gate
<1>5. Gate' /\ Target' /\ LiveCallOwnsAttempt' /\ CallCount'
  BY <1>4 DEF Gate, Target, LiveCallOwnsAttempt, CallCount, Admitted, Approving, BeforeRun, Remote
<1> QED
  BY <1>2, <1>3, <1>5

\* Every step of the specification keeps it.
LEMMA NextInv == Inv /\ [Next]_vars => Inv'
<1> SUFFICES ASSUME Inv, [Next]_vars PROVE Inv'
  OBVIOUS
<1>1. ASSUME NEW t \in Threads, Arrive(t) PROVE Inv'
  BY <1>1, ArriveInv
<1>2. ASSUME NEW t \in Threads, Step(t) PROVE Inv'
  <2>1. CASE CallPublish(t)
    <3>1. PICK w \in {"confirm", "giveup"} : Goto(t, w)
      BY <2>1 DEF CallPublish
    <3> QED
      BY <2>1, <3>1, CallInv DEF CallPublish, At, budget, Inv, TypeOK
  <2> QED
    BY <1>2, <2>1, EnterInv, ReconcileInv, LocalInv, InsertInv, AttemptStepInv DEF Step
<1>3. ASSUME NEW t \in Threads, Fault(t) PROVE Inv'
  BY <1>3, FaultInv
<1>4. CASE UNCHANGED vars
  BY <1>4 DEF vars, ledgerVars, procVars, budget, Inv, TypeOK, LedgerTypeOK, OnlyNewestIsOpen, Gate,
     Target, LiveCallOwnsAttempt, CallCount, AtMostOneRemoteCall, LedgerKnowsTheRisk, LastState,
     HasAttempt, Op, N
<1> QED
  BY <1>1, <1>2, <1>3, <1>4, ProcessInv DEF Next

----------------------------------------------------------------------------
(* The theorems *)

\* Inv holds in every reachable state, for every instance.
THEOREM Invariance == Spec => []Inv
  BY InitInv, NextInv, PTL DEF Spec

\* provider.publish is begun at most once per semantic request, the ledger never
\* offers a request for retry after that, at most the newest attempt is open or
\* settled, and every step keeps the types.
THEOREM PublishingSafety == Spec => []PublishingInv
  BY Invariance, PTL DEF Inv, PublishingInv

\* No recovery pass and no second handler touches the attempt of a live call.
THEOREM LiveCallIsOwned == Spec => []LiveCallOwnsAttempt
  BY Invariance, PTL DEF Inv

----------------------------------------------------------------------------
(* What one step does to the attempts of one request, as seen from outside *)

\* Every step but recovery either leaves the ledger alone, appends a prepared
\* attempt to failed ones, or moves the newest attempt of one request.
LEMMA StepShape ==
  ASSUME Inv, NEW t \in Threads, Step(t) \/ Fault(t) \/ Arrive(t), ~Reconcile(t)
  PROVE  \/ UNCHANGED ledger
         \/ Insert(t) /\ InsertAttempt(Op(t))
         \/ Reject(t) /\ Move(Op(t), N(t), "prepared", "failed")
         \/ Claim(t) /\ Move(Op(t), N(t), "prepared", "running")
         \/ Confirm(t) /\ Move(Op(t), N(t), "running", "succeeded")
         \/ GiveUp(t) /\ Move(Op(t), N(t), "running", "outcome_unknown")
<1>1. CASE Fault(t) \/ Arrive(t)
  BY <1>1 DEF Fault, Arrive, ledgerVars
<1>2. CASE Step(t)
  <2>1. CASE Insert(t) \/ Reject(t) \/ Claim(t) \/ Confirm(t) \/ GiveUp(t)
    BY <2>1 DEF Insert, Reject, Claim, Confirm, GiveUp, ledgerVars,
                MarkFailed, MarkRunning, MarkSucceeded, MarkOutcomeUnknown
  <2>2. CASE \/ Acquire(t) \/ Release(t) \/ ReadExisting(t) \/ EnsureRow(t) \/ Load(t)
             \/ Authenticate(t) \/ Health(t) \/ Preflight(t) \/ CallPublish(t)
    BY <2>2 DEF Acquire, Release, ReadExisting, EnsureRow, EnsureOperation, Load, Authenticate,
                Health, Preflight, CallPublish, ledgerVars
  <2> QED
    BY <1>2, <2>1, <2>2 DEF Step
<1> QED
  BY <1>1, <1>2

\* A succeeded or unknown attempt is the newest, so no step has a transition
\* for it and prepare_attempt refuses another.
LEMMA SettledStep ==
  ASSUME Inv, [Next]_vars, NEW op \in Ops, HasState(op, Settled)
  PROVE  ledger'[op] = ledger[op]
<1>1. LedgerTypeOK /\ OnlyNewestIsOpen
  BY DEF Inv, TypeOK
<1>2. PICK i \in DOMAIN ledger[op] : ledger[op][i] \in Settled
  BY DEF HasState
<1>3. HasAttempt(op, i) /\ ledger[op][i] # "failed"
  BY <1>2 DEF HasAttempt, Settled
<1>4. i = Len(ledger[op]) /\ LastState(op) = ledger[op][i] /\ Len(ledger[op]) \in Nat \ {0}
  BY <1>1, <1>3, OpenIsNewest
<1>5. LastState(op) \in Settled
  BY <1>2, <1>4
<1>6. ASSUME NEW t \in Threads, Step(t) \/ Fault(t) \/ Arrive(t), ~Reconcile(t)
      PROVE  ledger'[op] = ledger[op]
  <2>1. PICK o \in Ops, n \in Nat : o = Op(t) /\ n = N(t)
    BY DEF Inv, TypeOK, Op, N, Request
  <2>2. CASE InsertAttempt(o)
    <3>1. o # op
      BY <1>2, <2>2 DEF InsertAttempt, HasState, Settled
    <3> QED
      BY <1>1, <2>2, <3>1, InsertEffect
  <2>3. ASSUME NEW from \in Active, NEW to \in AttemptState, Move(o, n, from, to)
        PROVE  ledger'[op] = ledger[op]
    <3>1. LastState(o) = from /\ \A q \in Ops : q # o => ledger'[q] = ledger[q]
      BY <1>1, <2>3, MoveNewest DEF Active
    <3>2. o # op
      BY <1>5, <3>1 DEF Active, Settled
    <3> QED
      BY <3>1, <3>2
  <2> QED
    BY <1>6, <2>1, <2>2, <2>3, StepShape DEF Active, AttemptState
<1>7. ASSUME NEW t \in Threads, Reconcile(t) PROVE ledger'[op] = ledger[op]
  <2>1. /\ LedgerTypeOK'
        /\ Len(ledger'[op]) = Len(ledger[op])
        /\ \A j \in 1..Len(ledger[op]) : ledger'[op][j] =
             IF ledger[op][j] = "running" THEN "outcome_unknown" ELSE ledger[op][j]
    BY <1>1, <1>7, ReconcileEffect DEF Reconcile
  <2>2. /\ ledger[op] \in Seq(AttemptState) /\ ledger'[op] \in Seq(AttemptState)
        /\ DOMAIN ledger[op] = 1..Len(ledger[op])
    BY <1>1, <2>1 DEF LedgerTypeOK
  <2>3. \A j \in 1..Len(ledger[op]) : ledger[op][j] # "running"
    BY <1>2, <1>4, <2>2, <1>1 DEF OnlyNewestIsOpen, Settled
  <2> QED
    BY <2>1, <2>2, <2>3
<1>8. CASE Crash \/ Restart \/ UNCHANGED vars
  BY <1>8 DEF Crash, Restart, vars, ledgerVars
<1> QED
  BY <1>6, <1>7, <1>8 DEF Next

\* A published or unknown outcome is never overwritten nor retried.
THEOREM OutcomesAreFinal == Spec => SettledIsFinal
<1>1. Inv /\ [Next]_vars =>
        [\A op \in Ops : HasState(op, Settled) => ledger'[op] = ledger[op]]_vars
  BY SettledStep
<1> QED
  BY <1>1, Invariance, PTL DEF Spec, SettledIsFinal

\* What takes the newest attempt out of prepared is the transaction of a
\* handler that was sent for this very attempt.
LEMMA ApprovalStep ==
  ASSUME Inv, [Next]_vars, NEW op \in Ops, LastState(op) = "prepared", LastState(op)' # "prepared"
  PROVE  \E t \in Threads : /\ pc[t] \in {"reject", "claim"}
                            /\ req[t].op = op /\ req[t].n = Len(ledger[op])
                            /\ pc'[t] # pc[t]
<1>1. LedgerTypeOK /\ OnlyNewestIsOpen
  BY DEF Inv, TypeOK
<1>2. ledger[op] \in Seq(AttemptState) /\ ledger[op] # <<>> /\ ledger[op][Len(ledger[op])] = "prepared"
  BY <1>1 DEF LedgerTypeOK, LastState
<1>3. Len(ledger[op]) \in DOMAIN ledger[op] /\ Len(ledger[op]) \in Nat
  BY <1>2
<1>4. ledger'[op] # ledger[op]
  BY DEF LastState
<1>5. ASSUME NEW t \in Threads, Step(t) \/ Fault(t) \/ Arrive(t), ~Reconcile(t)
      PROVE  /\ pc[t] \in {"reject", "claim"}
             /\ req[t].op = op /\ req[t].n = Len(ledger[op])
             /\ pc'[t] # pc[t]
  <2>1. PICK o \in Ops, n \in Nat : o = Op(t) /\ n = N(t)
    BY DEF Inv, TypeOK, Op, N, Request
  <2>2. ~InsertAttempt(o)
    <3>1. SUFFICES ASSUME InsertAttempt(o) PROVE FALSE
      OBVIOUS
    <3>2. o = op
      BY <1>1, <1>4, <3>1, InsertEffect
    <3> QED
      BY <1>2, <1>3, <3>1, <3>2 DEF InsertAttempt, HasState, Active
  <2>3. ~Move(o, n, "running", "succeeded") /\ ~Move(o, n, "running", "outcome_unknown")
    <3>1. ASSUME NEW to \in AttemptState, Move(o, n, "running", to) PROVE FALSE
      <4>1. LastState(o) = "running" /\ \A q \in Ops : q # o => ledger'[q] = ledger[q]
        BY <1>1, <3>1, MoveNewest
      <4> QED
        BY <1>4, <4>1
    <3> QED
      BY <3>1 DEF AttemptState
  <2>4. ASSUME NEW to \in AttemptState, Move(o, n, "prepared", to)
        PROVE  o = op /\ n = Len(ledger[op])
    <3>1. \A q \in Ops : q # o => ledger'[q] = ledger[q]
      BY <1>1, <2>4, MoveNewest
    <3>2. o = op
      BY <1>4, <3>1
    <3>3. HasAttempt(op, n) /\ ledger[op][n] # "failed"
      BY <2>4, <3>2 DEF Move
    <3> QED
      BY <1>1, <3>2, <3>3, OpenIsNewest
  <2>5. Reject(t) \/ Claim(t)
    BY <1>4, <1>5, <2>1, <2>2, <2>3, StepShape
  <2>6. o = op /\ n = Len(ledger[op])
    BY <1>4, <1>5, <2>1, <2>2, <2>3, <2>4, StepShape DEF AttemptState
  <2>7. pc[t] \in {"reject", "claim"} /\ pc'[t] # pc[t]
    BY <2>5 DEF Reject, Claim, At, Goto, Inv, TypeOK
  <2> QED
    BY <2>1, <2>6, <2>7 DEF Op, N
<1>6. ASSUME NEW t \in Threads, Reconcile(t) PROVE FALSE
  <2>1. /\ LedgerTypeOK'
        /\ Len(ledger'[op]) = Len(ledger[op])
        /\ ledger'[op][Len(ledger[op])] = "prepared"
    BY <1>1, <1>2, <1>3, <1>6, ReconcileEffect DEF Reconcile
  <2>2. ledger'[op] # <<>>
    BY <1>2, <2>1 DEF LedgerTypeOK
  <2> QED
    BY <2>1, <2>2 DEF LastState
<1>7. ~(Crash \/ Restart \/ UNCHANGED vars)
  BY <1>4 DEF Crash, Restart, vars, ledgerVars
<1> QED
  BY <1>5, <1>6, <1>7 DEF Next

\* An approval that was never started survives crashes, restarts and recovery
\* passes: only a handler that executes it takes it out of prepared.
THEOREM ApprovalsSurvive == Spec => ApprovalSurvivesRecovery
<1>1. Inv /\ [Next]_vars =>
        [\A op \in Ops : LastState(op) = "prepared" /\ LastState(op)' # "prepared" =>
           \E t \in Threads : /\ pc[t] \in {"reject", "claim"}
                              /\ req[t].op = op /\ req[t].n = Len(ledger[op])
                              /\ pc'[t] # pc[t]]_vars
  BY ApprovalStep
<1> QED
  BY <1>1, Invariance, PTL DEF Spec, ApprovalSurvivesRecovery

----------------------------------------------------------------------------
(* Refinement *)

\* The abstract phase under the refinement mapping, as a function.
Phases == [op \in Ops |-> PhaseOf(op)]

\* PhaseOf follows LastState.
LEMMA PhaseCases ==
  ASSUME NEW op \in Ops
  PROVE  /\ LastState(op) \in {"none", "failed"} => PhaseOf(op) = "open"
         /\ LastState(op) = "prepared" => PhaseOf(op) = "approved"
         /\ LastState(op) = "running" => PhaseOf(op) = "committed"
         /\ LastState(op) = "succeeded" => PhaseOf(op) = "published"
         /\ LastState(op) = "outcome_unknown" => PhaseOf(op) = "unknown"
  BY DEF PhaseOf

\* A transition of one request's newest attempt is a transition of its phase.
LEMMA PhaseMove ==
  ASSUME Inv, NEW op \in Ops, NEW n, NEW from \in Active, NEW to \in AttemptState,
         Move(op, n, from, to)
  PROVE  /\ LastState(op) = from /\ LastState(op)' = to
         /\ Phases' = [Phases EXCEPT ![op] = PhaseOf(op)']
<1>1. LastState(op) = from /\ LastState(op)' = to
      /\ \A o \in Ops : o # op => LastState(o)' = LastState(o)
  BY MoveNewest DEF Inv, TypeOK, Active
<1>2. \A o \in Ops : o # op => PhaseOf(o)' = PhaseOf(o)
  BY <1>1 DEF PhaseOf
<1> QED
  BY <1>1, <1>2 DEF Phases

\* An empty ledger is an empty abstract ledger.
LEMMA InitRefines == Init => Once!Init
<1> SUFFICES ASSUME Init PROVE Once!Init
  OBVIOUS
<1>1. \A op \in Ops : LastState(op) = "none"
  BY DEF Init, LedgerInit, LastState
<1>2. \A op \in Ops : PhaseOf(op) = "open"
  BY <1>1, PhaseCases
<1> QED
  BY <1>2 DEF Once!Init, Init

\* Steps of one handler, recovery apart.
LEMMA HandlerRefines ==
  ASSUME Inv, NEW t \in Threads, Step(t) \/ Fault(t) \/ Arrive(t), ~Reconcile(t)
  PROVE  [Once!Next]_<<Phases, calls>>
<1>0. PICK op \in Ops, n \in Nat : op = Op(t) /\ n = N(t)
  BY DEF Inv, TypeOK, Op, N, Request
<1>1. "prepared" \in Active /\ "running" \in Active
  BY DEF Active
<1>2. CASE CallPublish(t) \/ (Fault(t) /\ pc[t] = "publish")
  <2>1. pc[t] = "publish" /\ UNCHANGED ledger /\ calls' = [calls EXCEPT ![op] = @ + 1]
    BY <1>0, <1>2 DEF CallPublish, Fault, At, ledgerVars
  <2>2. calls[op] = 0 /\ LastState(op) = "running"
    BY <1>0, <2>1, RemoteIsRunning DEF Inv, CallCount, Remote
  <2>3. Phases' = Phases /\ Phases[op] = "committed"
    BY <2>1, <2>2, PhaseCases DEF Phases, PhaseOf, LastState
  <2>4. calls' = [calls EXCEPT ![op] = 1]
    BY <2>1, <2>2
  <2>5. Once!Call(op)
    BY <2>2, <2>3, <2>4 DEF Once!Call, Phases
  <2> QED
    BY <2>5 DEF Once!Next
<1>3. CASE ~(CallPublish(t) \/ (Fault(t) /\ pc[t] = "publish"))
  <2>1. calls' = calls
    BY <1>3 DEF Step, Fault, Arrive, Acquire, Release, ReadExisting, EnsureRow, Insert, Load,
                Authenticate, Health, Preflight, Reject, Claim, Confirm, GiveUp, Local
  <2>2. CASE UNCHANGED ledger
    <3>1. Phases' = Phases
      BY <2>2 DEF Phases, PhaseOf, LastState
    <3> QED
      BY <2>1, <3>1
  <2>3. CASE InsertAttempt(op)
    <3>1. LedgerTypeOK /\ LedgerTypeOK'
          /\ (\A i \in 1..Len(ledger[op]) : ledger[op][i] = "failed")
          /\ (\A o \in Ops : o # op => ledger'[o] = ledger[o])
          /\ Len(ledger'[op]) = Len(ledger[op]) + 1
          /\ ledger'[op][Len(ledger[op]) + 1] = "prepared"
      BY <2>3, InsertEffect DEF Inv, TypeOK
    <3>2. ledger[op] \in Seq(AttemptState) /\ ledger'[op] \in Seq(AttemptState)
      BY <3>1 DEF LedgerTypeOK
    <3>3. LastState(op) \in {"none", "failed"} /\ LastState(op)' = "prepared"
      BY <3>1, <3>2 DEF LastState
    <3>4. PhaseOf(op) = "open" /\ PhaseOf(op)' = "approved"
      BY <3>3 DEF PhaseOf
    <3>5. \A o \in Ops : o # op => PhaseOf(o)' = PhaseOf(o)
      BY <3>1 DEF PhaseOf, LastState
    <3>6. Phases[op] = "open" /\ Phases' = [Phases EXCEPT ![op] = "approved"]
      BY <3>4, <3>5 DEF Phases
    <3>7. Once!Approve(op)
      BY <2>1, <3>6 DEF Once!Approve, Once!To, Phases
    <3> QED
      BY <3>7 DEF Once!Next
  <2>4. CASE Move(op, n, "prepared", "failed")
    <3>1. LastState(op) = "prepared" /\ LastState(op)' = "failed"
          /\ Phases' = [Phases EXCEPT ![op] = PhaseOf(op)']
      BY <1>1, <2>4, PhaseMove DEF AttemptState
    <3>2. Phases[op] = "approved" /\ PhaseOf(op)' = "open"
      BY <3>1 DEF PhaseOf, Phases
    <3>3. Once!Decline(op)
      BY <2>1, <3>1, <3>2 DEF Once!Decline, Once!To, Phases
    <3> QED
      BY <3>3 DEF Once!Next
  <2>5. CASE Move(op, n, "prepared", "running")
    <3>1. LastState(op) = "prepared" /\ LastState(op)' = "running"
          /\ Phases' = [Phases EXCEPT ![op] = PhaseOf(op)']
      BY <1>1, <2>5, PhaseMove DEF AttemptState
    <3>2. Phases[op] = "approved" /\ PhaseOf(op)' = "committed"
      BY <3>1 DEF PhaseOf, Phases
    <3>3. Once!Commit(op)
      BY <2>1, <3>1, <3>2 DEF Once!Commit, Once!To, Phases
    <3> QED
      BY <3>3 DEF Once!Next
  <2>6. CASE Confirm(t) /\ Move(op, n, "running", "succeeded")
    <3>1. LastState(op) = "running" /\ LastState(op)' = "succeeded"
          /\ Phases' = [Phases EXCEPT ![op] = PhaseOf(op)']
      BY <1>1, <2>6, PhaseMove DEF AttemptState
    <3>2. Phases[op] = "committed" /\ PhaseOf(op)' = "published"
      BY <3>1 DEF PhaseOf, Phases
    <3>3. calls[op] = 1
      BY <1>0, <2>6 DEF Confirm, At, Inv, CallCount
    <3>4. Once!Confirm(op)
      BY <2>1, <3>1, <3>2, <3>3 DEF Once!Confirm, Once!To, Phases
    <3> QED
      BY <3>4 DEF Once!Next
  <2>7. CASE Move(op, n, "running", "outcome_unknown")
    <3>1. LastState(op) = "running" /\ LastState(op)' = "outcome_unknown"
          /\ Phases' = [Phases EXCEPT ![op] = PhaseOf(op)']
      BY <1>1, <2>7, PhaseMove DEF AttemptState
    <3>2. Phases[op] = "committed" /\ PhaseOf(op)' = "unknown"
      BY <3>1 DEF PhaseOf, Phases
    <3>3. Phases' = [o \in Ops |-> IF o \in {op} THEN "unknown" ELSE Phases[o]]
      BY <3>1, <3>2 DEF Phases
    <3>4. Once!LoseTrack({op})
      BY <2>1, <3>2, <3>3 DEF Once!LoseTrack, Phases
    <3> QED
      BY <3>4 DEF Once!Next
  <2> QED
    BY <1>0, <2>2, <2>3, <2>4, <2>5, <2>6, <2>7, StepShape
<1> QED
  BY <1>2, <1>3

\* Recovery retires the committed requests, all of them in one step.
LEMMA ReconcileRefines ==
  ASSUME Inv, NEW t \in Threads, Reconcile(t)
  PROVE  [Once!Next]_<<Phases, calls>>
<1> DEFINE S == {op \in Ops : LastState(op) = "running"}
<1>1. calls' = calls /\ LedgerTypeOK /\ ReconcileInterrupted
  BY DEF Reconcile, Inv, TypeOK
<1>2. /\ LedgerTypeOK'
      /\ \A o \in Ops : Len(ledger'[o]) = Len(ledger[o])
      /\ \A o \in Ops : \A i \in 1..Len(ledger[o]) :
           ledger'[o][i] = IF ledger[o][i] = "running" THEN "outcome_unknown" ELSE ledger[o][i]
  BY <1>1, ReconcileEffect
<1>3. ASSUME NEW o \in Ops
      PROVE  LastState(o)' = IF LastState(o) = "running" THEN "outcome_unknown" ELSE LastState(o)
  <2>1. ledger[o] \in Seq(AttemptState) /\ ledger'[o] \in Seq(AttemptState) /\ Len(ledger[o]) \in Nat
    BY <1>1, <1>2 DEF LedgerTypeOK
  <2>2. CASE ledger[o] = <<>>
    <3>1. ledger'[o] = <<>>
      BY <1>2, <2>1, <2>2
    <3> QED
      BY <2>2, <3>1 DEF LastState
  <2>3. CASE ledger[o] # <<>>
    <3>1. Len(ledger[o]) \in 1..Len(ledger[o]) /\ ledger'[o] # <<>>
      BY <1>2, <2>1, <2>3
    <3> QED
      BY <1>2, <2>3, <3>1 DEF LastState
  <2> QED
    BY <2>2, <2>3
<1>4. ASSUME NEW o \in Ops
      PROVE  PhaseOf(o)' = IF o \in S THEN "unknown" ELSE PhaseOf(o)
  <2>1. CASE LastState(o) = "running"
    <3>1. LastState(o)' = "outcome_unknown"
      BY <1>3, <2>1
    <3> QED
      BY <2>1, <3>1 DEF PhaseOf
  <2>2. CASE LastState(o) # "running"
    <3>1. LastState(o)' = LastState(o) /\ o \notin S
      BY <1>3, <2>2
    <3>2. LastState(o) \in {"none", "prepared", "running", "succeeded", "failed", "outcome_unknown"}
      BY <1>1 DEF LedgerTypeOK, AttemptState, LastState
    <3> HIDE DEF S
    <3> QED
      BY <2>2, <3>1, <3>2 DEF PhaseOf
  <2> QED
    BY <2>1, <2>2
<1>5. Phases' = [o \in Ops |-> IF o \in S THEN "unknown" ELSE Phases[o]]
  BY <1>4 DEF Phases
<1>6. \A o \in S : Phases[o] = "committed"
  BY PhaseCases DEF Phases
<1>7. CASE S = {}
  <2>1. Phases' = Phases
    BY <1>5, <1>7 DEF Phases
  <2> QED
    BY <1>1, <2>1
<1>8. CASE S # {}
  <2>1. Once!LoseTrack(S)
    BY <1>1, <1>5, <1>6, <1>8 DEF Once!LoseTrack, Phases
  <2>2. S \in SUBSET Ops
    OBVIOUS
  <2> QED
    BY <2>1, <2>2 DEF Once!Next
<1> QED
  BY <1>7, <1>8

\* Every step of the ledger is one of the abstract ledger, or none.
LEMMA NextRefines == Inv /\ [Next]_vars => [Once!Next]_(Once!vars)
<1> SUFFICES ASSUME Inv, [Next]_vars PROVE [Once!Next]_<<Phases, calls>>
  BY DEF Once!vars, Phases
<1>1. CASE Crash \/ Restart \/ UNCHANGED vars
  <2>1. UNCHANGED <<ledger, calls>>
    BY <1>1 DEF Crash, Restart, vars, ledgerVars
  <2>2. Phases' = Phases
    BY <2>1 DEF Phases, PhaseOf, LastState
  <2> QED
    BY <2>1, <2>2
<1> QED
  BY <1>1, HandlerRefines, ReconcileRefines DEF Next, Step

\* The publishing subsystem implements PublishOnce, for any number of
\* requests, threads, attempts, crashes and faults.
THEOREM RefinesPublishOnce == Spec => ImplementsPublishOnce
<1>1. Inv /\ [Next]_vars => [Once!Next]_(Once!vars)
  BY NextRefines
<1> QED
  BY InitRefines, <1>1, Invariance, PTL DEF Spec, Once!Spec, ImplementsPublishOnce

=============================================================================
