----------------------------- MODULE PublishOnce -----------------------------
(***************************************************************************)
(* What the publishing subsystem promises for every semantic request: the   *)
(* remote side effect is begun at most once, only after a human approval    *)
(* was durably committed to it, and once it may have begun the request can  *)
(* only end as published or as an unknown outcome that blocks any retry.    *)
(***************************************************************************)
EXTENDS Naturals

CONSTANTS Ops

VARIABLES phase,   \* phase[op]: where the request stands
          calls    \* calls[op]: remote publish calls ever begun for op

vars == <<phase, calls>>

Phase == {"open", "approved", "committed", "published", "unknown"}

Init ==
  /\ phase = [op \in Ops |-> "open"]
  /\ calls = [op \in Ops |-> 0]

To(op, from, to) == phase[op] = from /\ phase' = [phase EXCEPT ![op] = to]

Approve(op) == To(op, "open", "approved") /\ UNCHANGED calls

\* The approval is spent on a failure that happened before the remote boundary.
Decline(op) == To(op, "approved", "open") /\ UNCHANGED calls

Commit(op)  == To(op, "approved", "committed") /\ UNCHANGED calls

Call(op) ==
  /\ phase[op] = "committed"
  /\ calls[op] = 0
  /\ calls' = [calls EXCEPT ![op] = 1]
  /\ UNCHANGED phase

Confirm(op) ==
  /\ calls[op] = 1
  /\ To(op, "committed", "published")
  /\ UNCHANGED calls

\* A set of requests at once: recovery after a restart retires every one
\* that was committed, whether or not its call had begun.
LoseTrack(S) ==
  /\ S # {}
  /\ \A op \in S : phase[op] = "committed"
  /\ phase' = [op \in Ops |-> IF op \in S THEN "unknown" ELSE phase[op]]
  /\ UNCHANGED calls

Next ==
  \/ \E op \in Ops : Approve(op) \/ Decline(op) \/ Commit(op) \/ Call(op) \/ Confirm(op)
  \/ \E S \in SUBSET Ops : LoseTrack(S)

Spec == Init /\ [][Next]_vars
=============================================================================
