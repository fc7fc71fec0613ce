----------------------------- MODULE PhoneQueue -----------------------------
(* The phone web client: browser tabs and the service worker over one        *)
(* IndexedDB, which holds the queue of captured shares and the slot of the   *)
(* one persisted bearer, against a server that issues, expires and revokes   *)
(* sessions.  A page runs two asynchronous flows that interleave at every    *)
(* await: the drain of the queue, and pairing, revocation or the Inbox poll. *)
(* A share is its Idempotency-Key; a session is its bearer token.            *)
EXTENDS Naturals, FiniteSets

CONSTANTS
  Shares, Tabs, Challenges, Sessions,
  NoSession,
  MaxQueue,     \* limits.maxQueueEntries
  MaxAttempts   \* AuthManager.max_attempts

ASSUME PhoneAssumption ==
  /\ NoSession \notin Sessions /\ IsFiniteSet(Shares)
  /\ MaxQueue \in Nat \ {0} /\ MaxAttempts \in Nat \ {0}

VARIABLES
  captured,  \* shares a capture has reported as queued
  queue,     \* IndexedDB "shares"
  slot,      \* IndexedDB "kv": the persisted bearer
  admitted,  \* shares whose share-target request passed the worker's checks
  bearer,    \* bearerToken of each page
  drain,     \* drainQueue of each page
  dialog,    \* the pairing, revocation or poll of each page
  attempts,  \* attempt_count of each pairing challenge
  issued,    \* sessions each challenge has been exchanged for
  live,      \* sessions authenticate accepts
  verdict    \* what the server has durably decided on each share

phoneVars == <<captured, queue, slot, admitted, bearer, drain, dialog,
               attempts, issued, live, verdict>>
server == <<attempts, issued, live>>

Bearer == Sessions \cup {NoSession}

\* requestBearer, what finalizeInvalidatedSession invalidates, and what it read.
Flow(pcs) == [pc : pcs, with : Bearer, invalid : Bearer, found : Bearer]
Rest == [pc |-> "rest", with |-> NoSession, invalid |-> NoSession, found |-> NoSession]
Invalidating(with, invalid) ==
  [Rest EXCEPT !.pc = "clear", !.with = with, !.invalid = invalid]
Ending == {"clear", "read", "adopt"}   \* the awaits of finalizeInvalidatedSession

PhoneInit ==
  /\ captured = {} /\ queue = {} /\ admitted = {}
  /\ slot = NoSession
  /\ bearer = [t \in Tabs |-> NoSession]
  /\ drain = [t \in Tabs |-> [flow |-> Rest, todo |-> {}]]
  /\ dialog = [t \in Tabs |-> Rest]
  /\ attempts = [c \in Challenges |-> 0]
  /\ issued = [c \in Challenges |-> {}]
  /\ live = {}
  /\ verdict = [s \in Shares |-> "none"]

----------------------------------------------------------------------------
(* The server *)

Used == UNION {issued[c] : c \in Challenges}

\* exchange: every refusal but a wrong code leaves the challenge alone.
Exchangeable(c) == issued[c] = {} /\ attempts[c] < MaxAttempts

Issue(c, s) ==
  /\ Exchangeable(c) /\ s \notin Used
  /\ issued' = [issued EXCEPT ![c] = @ \cup {s}]
  /\ live' = live \cup {s}
  /\ UNCHANGED attempts

WrongCode(c) ==
  /\ Exchangeable(c)
  /\ attempts' = [attempts EXCEPT ![c] = @ + 1]
  /\ UNCHANGED <<captured, queue, slot, admitted, bearer, drain, dialog,
                 issued, live, verdict>>

Expire(s) ==
  /\ s \in live
  /\ live' = live \ {s}
  /\ UNCHANGED <<captured, queue, slot, admitted, bearer, drain, dialog,
                 attempts, issued, verdict>>

----------------------------------------------------------------------------
(* Capture *)

\* validateQueueMutation, inside the transaction that adds the entries.
QueueAdmits(adding) == Cardinality(queue) + Cardinality(adding) <= MaxQueue

Enqueue(adding) ==
  /\ QueueAdmits(adding)
  /\ queue' = queue \cup adding
  /\ captured' = captured \cup adding

\* queueFiles, saveNote: a batch is queued whole or not at all.
CaptureInPage(t, adding) ==
  /\ adding # {} /\ adding \cap (captured \cup admitted) = {}
  /\ bearer[t] # NoSession              \* the capture panel is shown
  /\ Enqueue(adding)
  /\ UNCHANGED <<slot, admitted, bearer, drain, dialog, server, verdict>>

\* queueShareTarget up to the parsed body: a paired browser, room by the usage read.
AdmitShare(s) ==
  /\ s \notin captured \cup admitted
  /\ slot # NoSession
  /\ Cardinality(queue) < MaxQueue
  /\ admitted' = admitted \cup {s}
  /\ UNCHANGED <<captured, queue, slot, bearer, drain, dialog, server, verdict>>

\* ... and its transaction; without room the share is refused with share_error.
QueueShare(s) ==
  /\ s \in admitted
  /\ admitted' = admitted \ {s}
  /\ \/ Enqueue({s})
     \/ ~QueueAdmits({s}) /\ UNCHANGED <<captured, queue>>
  /\ UNCHANGED <<slot, bearer, drain, dialog, server, verdict>>

----------------------------------------------------------------------------
(* finalizeInvalidatedSession, run by either flow `f` of tab t *)

\* The bearer that authorized the request must still be the page's.
Finalizable(t, invalid) == invalid # NoSession /\ bearer[t] = invalid

\* Slip: clearToken, which deletes whatever is there.
ClearAnySlot(invalid) == slot' = NoSession

\* clearTokenIfMatches: compare and delete.
ClearSlot(invalid) == slot' = IF slot = invalid THEN NoSession ELSE slot

\* One await of the finalization of flow f ...
EndSession(t, f) ==
  \/ f.pc = "clear" /\ ClearSlot(f.invalid) /\ UNCHANGED bearer
  \/ f.pc = "read" /\ UNCHANGED <<slot, bearer>>
  \/ /\ f.pc = "adopt"
     /\ bearer' = IF f.found \in {NoSession, f.invalid} THEN bearer
                  ELSE [bearer EXCEPT ![t] = f.found]
     /\ UNCHANGED slot

\* ... and the flow after it.  A page that has paired meanwhile stops here.
Onward(t, f) ==
  CASE f.pc = "clear" /\ bearer[t] = NoSession -> [f EXCEPT !.pc = "read"]
    [] f.pc = "read" -> [f EXCEPT !.pc = "adopt", !.found = slot]
    [] OTHER -> Rest

----------------------------------------------------------------------------
(* drainQueue.  The drain that follows an older bearer's 401 is a StartDrain. *)

SetFlow(t, f) == drain' = [drain EXCEPT ![t].flow = f]
Drained(t) == drain' = [drain EXCEPT ![t] = [flow |-> Rest, todo |-> {}]]

\* listShares: the drain works on the queue as it was when it began.
StartDrain(t) ==
  /\ drain[t].flow.pc = "rest"         \* ~queueDraining
  /\ bearer[t] # NoSession /\ queue # {}
  /\ drain' = [drain EXCEPT ![t] = [flow |-> [Rest EXCEPT !.pc = "next"], todo |-> queue]]
  /\ UNCHANGED <<captured, queue, slot, admitted, bearer, dialog, server, verdict>>

\* The next upload.  Without a bearer a file is rejected on the spot, which ends
\* the drain; a note is posted all the same.
NextShare(t) ==
  /\ drain[t].flow.pc = "next"
  /\ \/ /\ drain[t].todo # {}
        /\ SetFlow(t, [Rest EXCEPT !.pc = "sent", !.with = bearer[t]])
     \/ /\ drain[t].todo = {} \/ bearer[t] = NoSession
        /\ Drained(t)
  /\ UNCHANGED <<captured, queue, slot, admitted, bearer, dialog, server, verdict>>

\* The share is settled for this drain, which goes on with the others.
GoOn(t, s) ==
  drain' = [drain EXCEPT ![t] = [flow |-> [Rest EXCEPT !.pc = "next"], todo |-> @.todo \ {s}]]

\* What a delivery of the key is answered; one decided earlier is answered alike.
Answers(s) ==
  IF verdict[s] = "none" THEN {"accepted", "refused", "tooLarge", "trouble"}
  ELSE {verdict[s], "trouble"}

\* Slip: a share that is too large for the server's present limit goes as well.
DisposesTooLarge(seen) == seen \in {"accepted", "refused", "tooLarge"}

\* A 2xx or a permanent rejection takes the share off the device.
Disposes(seen) == seen \in {"accepted", "refused"}

\* The server answers an authenticated upload; the answer may be lost on the way.
UploadAnswered(t, s, answer, lost) ==
  /\ drain[t].flow.pc = "sent" /\ s \in drain[t].todo
  /\ drain[t].flow.with \in live
  /\ answer \in Answers(s)
  /\ verdict' = [verdict EXCEPT ![s] = IF answer \in {"accepted", "refused"} THEN answer ELSE @]
  /\ LET seen == IF lost THEN "trouble" ELSE answer IN
       /\ queue' = IF Disposes(seen) THEN queue \ {s} ELSE queue
       /\ IF seen = "trouble" THEN Drained(t) ELSE GoOn(t, s)
  /\ UNCHANGED <<captured, slot, admitted, bearer, dialog, server>>

\* A 401 by an older bearer leaves the share for the next drain; any other
\* finalizes the session, which ends the drain.
UploadUnauthorized(t, s) ==
  LET with == drain[t].flow.with
      invalid == IF with = NoSession THEN bearer[t] ELSE with
  IN
  /\ drain[t].flow.pc = "sent" /\ s \in drain[t].todo
  /\ with \notin live
  /\ \/ /\ with # NoSession /\ with # bearer[t]
        /\ IF bearer[t] # NoSession THEN GoOn(t, s) ELSE Drained(t)
        /\ UNCHANGED bearer
     \/ /\ Finalizable(t, invalid)
        /\ bearer' = [bearer EXCEPT ![t] = NoSession]
        /\ SetFlow(t, Invalidating(with, invalid))
     \/ /\ invalid = NoSession
        /\ Drained(t) /\ UNCHANGED bearer
  /\ UNCHANGED <<captured, queue, slot, admitted, dialog, server, verdict>>

DrainEndsSession(t) ==
  /\ EndSession(t, drain[t].flow)
  /\ IF Onward(t, drain[t].flow) = Rest THEN Drained(t)
     ELSE SetFlow(t, Onward(t, drain[t].flow))
  /\ UNCHANGED <<captured, queue, admitted, dialog, server, verdict>>

----------------------------------------------------------------------------
(* Pairing, revocation, the Inbox poll and reload *)

SetDialog(t, f) == dialog' = [dialog EXCEPT ![t] = f]

\* exchangePairing: the server issues a session; its answer may never arrive.
Pair(t, c, s, lost) ==
  /\ dialog[t].pc = "rest" /\ bearer[t] = NoSession
  /\ Issue(c, s)
  /\ IF lost THEN UNCHANGED dialog
     ELSE SetDialog(t, [Rest EXCEPT !.pc = "persist", !.with = s])
  /\ UNCHANGED <<captured, queue, slot, admitted, bearer, drain, verdict>>

\* setToken: compare and set on the empty slot; storage may fail as well.  The
\* page of a bearer that was not persisted holds it while it asks for revocation.
Persist(t, stored) ==
  /\ dialog[t].pc = "persist"
  /\ stored => slot \in {NoSession, dialog[t].with}
  /\ IF stored
     THEN /\ slot' = dialog[t].with
          /\ SetDialog(t, [dialog[t] EXCEPT !.pc = "stored"])
          /\ UNCHANGED bearer
     ELSE /\ bearer' = [bearer EXCEPT ![t] = dialog[t].with]
          /\ SetDialog(t, [dialog[t] EXCEPT !.pc = "undo"])
          /\ UNCHANGED slot
  /\ UNCHANGED <<captured, queue, admitted, drain, server, verdict>>

Paired(t) ==
  /\ dialog[t].pc = "stored"
  /\ bearer' = [bearer EXCEPT ![t] = dialog[t].with]
  /\ SetDialog(t, Rest)
  /\ UNCHANGED <<captured, queue, slot, admitted, drain, server, verdict>>

\* revokeSession and loadInbox capture the page's bearer.
Ask(t, pc) ==
  /\ dialog[t].pc = "rest" /\ bearer[t] # NoSession
  /\ pc \in {"revoke", "poll"}
  /\ SetDialog(t, [Rest EXCEPT !.pc = pc, !.with = bearer[t]])
  /\ UNCHANGED <<captured, queue, slot, admitted, bearer, drain, server, verdict>>

\* The server's answer: DELETE revokes; a 401 or a revocation finalizes the
\* session unless the page has gone on to another bearer.
Answered(t, lost) ==
  LET with == dialog[t].with
      revoking == dialog[t].pc \in {"revoke", "undo"}
      invalid == ~lost /\ (revoking \/ with \notin live)
  IN
  /\ dialog[t].pc \in {"revoke", "poll", "undo"}
  /\ live' = IF revoking THEN live \ {with} ELSE live
  /\ IF invalid /\ Finalizable(t, with)
     THEN /\ bearer' = [bearer EXCEPT ![t] = NoSession]
          /\ SetDialog(t, Invalidating(with, with))
     ELSE SetDialog(t, Rest) /\ UNCHANGED bearer
  /\ UNCHANGED <<captured, queue, slot, admitted, drain, attempts, issued, verdict>>

\* The request never reached the server.
Unanswered(t) ==
  /\ dialog[t].pc \in {"revoke", "undo"}
  /\ SetDialog(t, Rest)
  /\ UNCHANGED <<captured, queue, slot, admitted, bearer, drain, server, verdict>>

DialogEndsSession(t) ==
  /\ EndSession(t, dialog[t])
  /\ SetDialog(t, Onward(t, dialog[t]))
  /\ UNCHANGED <<captured, queue, admitted, drain, server, verdict>>

\* A page is closed at any await and initialized from the slot.
Reload(t) ==
  /\ bearer' = [bearer EXCEPT ![t] = slot]
  /\ SetDialog(t, Rest) /\ Drained(t)
  /\ UNCHANGED <<captured, queue, slot, admitted, server, verdict>>

PhoneNext ==
  \/ \E c \in Challenges : WrongCode(c)
  \/ \E s \in Sessions : Expire(s)
  \/ \E s \in Shares : AdmitShare(s) \/ QueueShare(s)
  \/ \E t \in Tabs :
       \/ \E adding \in SUBSET Shares : CaptureInPage(t, adding)
       \/ StartDrain(t) \/ NextShare(t) \/ DrainEndsSession(t)
       \/ \E s \in Shares :
            \/ UploadUnauthorized(t, s)
            \/ \E lost \in BOOLEAN, answer \in {"accepted", "refused", "tooLarge", "trouble"} :
                 UploadAnswered(t, s, answer, lost)
       \/ \E c \in Challenges, s \in Sessions, lost \in BOOLEAN : Pair(t, c, s, lost)
       \/ \E flag \in BOOLEAN : Persist(t, flag) \/ Answered(t, flag)
       \/ \E pc \in {"revoke", "poll"} : Ask(t, pc)
       \/ Paired(t) \/ Unanswered(t) \/ DialogEndsSession(t) \/ Reload(t)

PhoneSpec == PhoneInit /\ [][PhoneNext]_phoneVars

----------------------------------------------------------------------------
(* Properties *)

PhoneTypeOK ==
  /\ queue \subseteq captured /\ captured \cup admitted \subseteq Shares
  /\ slot \in Bearer /\ bearer \in [Tabs -> Bearer]
  /\ drain \in [Tabs -> [flow : Flow(Ending \cup {"rest", "next", "sent"}),
                         todo : SUBSET Shares]]
  /\ dialog \in [Tabs -> Flow(Ending \cup {"rest", "persist", "stored", "undo",
                                           "revoke", "poll"})]
  /\ attempts \in [Challenges -> 0..MaxAttempts]
  /\ issued \in [Challenges -> SUBSET Sessions] /\ live \subseteq Sessions
  /\ verdict \in [Shares -> {"none", "accepted", "refused"}]

\* A share the device reported as queued leaves it only after the server has
\* decided on it: pages that drain one queue side by side, answers that are lost
\* and a batch that finds the queue full never drop the only copy (app.js
\* drainQueue, shared.js enqueueSharesWithLimits).
CapturedIsKept == \A s \in captured : s \in queue \/ verdict[s] # "none"

\* The queue keeps to its limit although room was read before the body was
\* (validateQueueMutation); and one challenge is exchanged for one session.
PhoneLimits ==
  /\ Cardinality(queue) <= MaxQueue
  /\ \A c \in Challenges : Cardinality(issued[c]) <= 1

\* The offline queue and the pairing challenges (web/static/app.js, shared.js,
\* sw.js, application/auth.py): both of these, and the types.
PhoneInv == PhoneTypeOK /\ CapturedIsKept /\ PhoneLimits

\* The persisted bearer is taken from its slot, or replaced, only when the server
\* no longer honours it: the late answer to an older request, in this page or in
\* another, never disconnects the device from a session that is live (the comment
\* of finalizeInvalidatedSession; clearTokenIfMatches, setToken).
LiveSessionIsKept == [][slot' = slot \/ slot \notin live]_phoneVars

\* ... what the code does keep to: a request that carried a bearer never takes a
\* live session, however late its answer; a note posted with none may.
BearersAnswerForThemselves ==
  [][\/ slot' = slot \/ slot \notin live
     \/ \E t \in Tabs : /\ drain[t].flow.pc = "clear"
                        /\ drain[t].flow.with = NoSession
                        /\ drain[t].flow.invalid = slot]_phoneVars

=============================================================================
