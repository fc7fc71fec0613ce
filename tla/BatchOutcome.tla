---------------------------- MODULE BatchOutcome ----------------------------
(***************************************************************************)
(* What batch production promises: nothing is rendered before the batch is   *)
(* committed, every item is rendered successfully at most once however often *)
(* its drain is interrupted, and the verdicts are published once, together,  *)
(* none of them better than what was rendered.                             *)
(***************************************************************************)
EXTENDS Naturals

CONSTANTS Items

VARIABLES phase,    \* the batch as a whole
          renders,  \* renders[i]: successful renders of item i
          verdict   \* verdict[i]: what the batch result says of item i

vars == <<phase, renders, verdict>>

Init ==
  /\ phase = "draft"
  /\ renders = [i \in Items |-> 0]
  /\ verdict = [i \in Items |-> "open"]

Decide(next) == phase = "draft" /\ phase' = next /\ UNCHANGED <<renders, verdict>>

Render(i) ==
  /\ phase = "committed"
  /\ renders[i] = 0
  /\ renders' = [renders EXCEPT ![i] = 1]
  /\ UNCHANGED <<phase, verdict>>

Close ==
  /\ phase = "committed"
  /\ phase' = "closed"
  /\ verdict' \in [Items -> {"ok", "bad"}]
  /\ \A i \in Items : verdict'[i] = "ok" => renders[i] = 1
  /\ UNCHANGED renders

Next == Decide("committed") \/ Decide("void") \/ Close \/ \E i \in Items : Render(i)

Spec == Init /\ [][Next]_vars
=============================================================================
