---------------------------- MODULE ApprovedFilm ----------------------------
(***************************************************************************)
(* What the review lifecycle promises the person who approves: a film is     *)
(* begun only of the revision and look that carry the approval, nothing is   *)
(* edited while it is made or delivered, and what is delivered is what was   *)
(* approved.  Whatever goes wrong, the film is withdrawn, and either the     *)
(* approved revision stands unchanged or the approval is gone with it.       *)
(***************************************************************************)
EXTENDS Naturals

CONSTANTS Looks, None

VARIABLES copy,   \* the revision and the look the project has now
          seal,   \* those of them a person approved, if any
          film,   \* the look of the film that was made, if any
          phase   \* "editing", "making" or "delivered"

vars == <<copy, seal, film, phase>>

Init ==
  /\ copy \in {[rev |-> 1, look |-> l] : l \in Looks}
  /\ seal = None /\ film = None /\ phase = "editing"

\* An edit may leave the approval of an older revision behind; it counts no more.
Edit ==
  /\ phase = "editing"
  /\ \E l \in Looks : copy' = [rev |-> copy.rev + 1, look |-> l]
  /\ seal' \in {seal, None}
  /\ UNCHANGED <<film, phase>>

Approve == phase = "editing" /\ seal' = copy /\ UNCHANGED <<copy, film, phase>>

Begin == phase = "editing" /\ seal = copy /\ phase' = "making" /\ UNCHANGED <<copy, seal, film>>

Make == phase = "making" /\ film = None /\ film' = seal.look /\ UNCHANGED <<copy, seal, phase>>

Deliver ==
  /\ phase = "making" /\ film = seal.look
  /\ phase' = "delivered" /\ UNCHANGED <<copy, seal, film>>

\* The film is lost or failed; the approved revision may be made again.
Withdraw == phase # "editing" /\ phase' = "editing" /\ film' = None /\ UNCHANGED <<copy, seal>>

\* The project goes back to review: what is approved next is another revision.
Reopen ==
  /\ copy' = [copy EXCEPT !.rev = @ + 1]
  /\ seal' = None /\ film' = None /\ phase' = "editing"

Next == Edit \/ Approve \/ Begin \/ Make \/ Deliver \/ Withdraw \/ Reopen

Spec == Init /\ [][Next]_vars
=============================================================================
