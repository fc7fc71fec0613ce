------------------------------ MODULE MCInbox ------------------------------
(* Bounded instances of Inbox for TLC. *)
EXTENDS Inbox, TLC

\* Intakes, and file contents, are interchangeable.
InboxSymmetry == Permutations(Keys) \cup Permutations(Contents)
=============================================================================
