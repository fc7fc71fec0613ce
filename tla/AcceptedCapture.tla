--------------------------- MODULE AcceptedCapture ---------------------------
(***************************************************************************)
(* What the Inbox promises whoever captures a file under an idempotency key: *)
(* the key stands for the bytes it accepted first, a 201 is given only for   *)
(* these bytes while a durable copy of them is held, what was acknowledged   *)
(* is never refused, and a copy is given up only of what is refused.         *)
(***************************************************************************)
CONSTANTS Keys, Contents, NoBytes

VARIABLES accepted,  \* accepted[k]: the bytes the key stands for, once accepted
          kept,      \* kept[k]: a durable copy of them is held
          refused,   \* refused[k]: the capture is on record as failed
          told       \* told[k]: the bytes a 201 has acknowledged

vars == <<accepted, kept, refused, told>>

Init ==
  /\ accepted = [k \in Keys |-> NoBytes] /\ told = [k \in Keys |-> NoBytes]
  /\ kept = [k \in Keys |-> FALSE] /\ refused = [k \in Keys |-> FALSE]

Accept(k) ==
  /\ accepted[k] = NoBytes
  /\ \E c \in Contents : accepted' = [accepted EXCEPT ![k] = c]
  /\ kept' = [kept EXCEPT ![k] = TRUE]
  /\ UNCHANGED <<refused, told>>

Tell(k) ==
  /\ accepted[k] # NoBytes /\ kept[k] /\ ~refused[k]
  /\ told' = [told EXCEPT ![k] = accepted[k]]
  /\ UNCHANGED <<accepted, kept, refused>>

Refuse(k) ==
  /\ accepted[k] # NoBytes /\ told[k] = NoBytes
  /\ refused' = [refused EXCEPT ![k] = TRUE]
  /\ UNCHANGED <<accepted, kept, told>>

Drop(k) ==
  /\ refused[k]
  /\ kept' = [kept EXCEPT ![k] = FALSE]
  /\ UNCHANGED <<accepted, refused, told>>

\* A power loss undoes refusals and removals that had not reached the disk, and
\* a capture of the same bytes under another key brings a copy back: for any
\* number of keys at once.
Return ==
  /\ kept' \in [Keys -> BOOLEAN] /\ \A k \in Keys : kept[k] => kept'[k]
  /\ refused' \in [Keys -> BOOLEAN] /\ \A k \in Keys : refused'[k] => refused[k]
  /\ UNCHANGED <<accepted, told>>

Next ==
  \/ \E k \in Keys : Accept(k) \/ Tell(k) \/ Refuse(k) \/ Drop(k)
  \/ Return

Spec == Init /\ [][Next]_vars
=============================================================================
