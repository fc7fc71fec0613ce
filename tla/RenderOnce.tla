----------------------------- MODULE RenderOnce -----------------------------
(***************************************************************************)
(* What a persistent render job promises whoever submitted it: it is begun   *)
(* at most once, by one worker, and while that worker lives nobody else ends *)
(* it; what it delivers is that worker's own film; and what it once said,    *)
(* the film or the reason there is none, it says for ever.                   *)
(***************************************************************************)
CONSTANTS Jobs, Workers, Nobody,
          Interruptions  \* reasons given by others, for a worker that is gone

VARIABLES status,  \* status[j]: where the job stands
          runner,  \* runner[j]: the worker that is running it
          film,    \* film[j]: whose film is loaded for it
          reason   \* reason[j]: the reason that is loaded for there being none

vars == <<status, runner, film, reason>>

Init ==
  /\ status = [j \in Jobs |-> "none"] /\ runner = [j \in Jobs |-> Nobody]
  /\ film = [j \in Jobs |-> Nobody] /\ reason = [j \in Jobs |-> Nobody]

Turn(j, from, to) == status[j] = from /\ status' = [status EXCEPT ![j] = to]

Submit(j) == Turn(j, "none", "waiting") /\ UNCHANGED <<runner, film, reason>>

\* A worker runs one job at a time.
Begin(j, w) ==
  /\ Turn(j, "waiting", "running")
  /\ \A i \in Jobs : runner[i] # w
  /\ runner' = [runner EXCEPT ![j] = w] /\ UNCHANGED <<film, reason>>

Dismiss(j) == runner[j] # Nobody /\ runner' = [runner EXCEPT ![j] = Nobody]

Deliver(j) ==
  /\ Turn(j, "running", "succeeded") /\ Dismiss(j)
  /\ film' = [film EXCEPT ![j] = runner[j]] /\ UNCHANGED reason

\* Its own worker ends it without a film; the reason may get lost.
GiveUp(j, code) ==
  /\ Turn(j, "running", code) /\ Dismiss(j)
  /\ reason' \in {reason, [reason EXCEPT ![j] = code]} /\ UNCHANGED film

\* The worker dies, or cannot record how it ended.
Vanish(j) == Dismiss(j) /\ UNCHANGED <<status, film, reason>>

\* Nobody is running it, and somebody else ends it with an explanation.
Retire(j) ==
  /\ Turn(j, "waiting", "failed") \/ Turn(j, "running", "failed")
  /\ runner[j] = Nobody
  /\ \E code \in Interruptions : reason' = [reason EXCEPT ![j] = code]
  /\ UNCHANGED <<runner, film>>

Cancel(j) == Turn(j, "waiting", "cancelled") /\ UNCHANGED <<runner, film, reason>>

Next == \E j \in Jobs :
  \/ Submit(j) \/ Deliver(j) \/ Vanish(j) \/ Retire(j) \/ Cancel(j)
  \/ \E w \in Workers : Begin(j, w)
  \/ \E code \in {"failed", "cancelled"} : GiveUp(j, code)

Spec == Init /\ [][Next]_vars
=============================================================================
