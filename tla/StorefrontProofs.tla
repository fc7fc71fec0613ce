--------------------------- MODULE StorefrontProofs ---------------------------
(***************************************************************************)
(* Proofs about the parts that face the phone and YouTube: the phone's queue  *)
(* and bearers (PhoneQueue), the YouTube provider (YouTubeUpload), collected   *)
(* statistics (Analytics) and the production page (ProductionHome).  The       *)
(* parts share no state, so each theorem is of a part's own specification.     *)
(***************************************************************************)
EXTENDS PhoneQueue, YouTubeUpload, Analytics, ProductionHome,
        FiniteSetTheorems, SequenceTheorems,
        WellFoundedInduction, TLAPS

-----------------------------------------------------------------------------
(* PhoneQueue.  PhoneInv is inductive but for the bearers: that the answer to  *)
(* a request never takes a live session needs to know that a session that has  *)
(* ended never lives again, because no bearer is issued twice.                 *)

\* The flow of a page knows only bearers that have been issued.
Knows(f) == {f.with, f.invalid, f.found} \subseteq Used \cup {NoSession}

\* What page t holds has been issued; and what it is about to delete has ended,
\* unless it was found by a request that carried no bearer.
Page(t) ==
  /\ bearer[t] \in Used \cup {NoSession}
  /\ Knows(drain[t].flow) /\ Knows(dialog[t])
  /\ drain[t].flow.pc = "clear" =>
       drain[t].flow.with = NoSession \/ drain[t].flow.invalid \notin live
  /\ dialog[t].pc = "clear" => dialog[t].invalid \notin live

\* Nobody holds, stores or honours a bearer the server has not issued.
Bearers ==
  /\ live \subseteq Used /\ slot \in Used \cup {NoSession}
  /\ \A t \in Tabs : Page(t)

PhoneIInv == PhoneInv /\ Bearers

DrainPcs  == Ending \cup {"rest", "next", "sent"}
DialogPcs == Ending \cup {"rest", "persist", "stored", "undo", "revoke", "poll"}
Draining  == [flow : Flow(DrainPcs), todo : SUBSET Shares]

\* A page at rest knows nothing.
LEMMA RestKnowsNothing ==
  /\ Rest \in Flow(DrainPcs) /\ Rest \in Flow(DialogPcs)
  /\ Knows(Rest) /\ Rest.pc = "rest"
  /\ \A with, invalid \in Bearer :
       /\ Invalidating(with, invalid) \in Flow(DrainPcs) \cap Flow(DialogPcs)
       /\ Invalidating(with, invalid).pc = "clear"
       /\ Invalidating(with, invalid).with = with
       /\ Invalidating(with, invalid).invalid = invalid
       /\ Invalidating(with, invalid).found = NoSession
  BY DEF Rest, Flow, DrainPcs, DialogPcs, Bearer, Knows, Invalidating, Ending

\* The drain of one page changes.
LEMMA DrainMoves ==
  ASSUME NEW t \in Tabs, drain \in [Tabs -> Draining]
  PROVE  \A d \in Draining :
           drain' = [drain EXCEPT ![t] = d] =>
             /\ drain' \in [Tabs -> Draining] /\ drain'[t] = d
             /\ \A u \in Tabs \ {t} : drain'[u] = drain[u]
  OBVIOUS

\* So does the dialog of one page, ...
LEMMA DialogMoves ==
  ASSUME NEW t \in Tabs, dialog \in [Tabs -> Flow(DialogPcs)]
  PROVE  \A f \in Flow(DialogPcs) :
           SetDialog(t, f) =>
             /\ dialog' \in [Tabs -> Flow(DialogPcs)] /\ dialog'[t] = f
             /\ \A u \in Tabs \ {t} : dialog'[u] = dialog[u]
  BY DEF SetDialog

\* ... and its bearer.
LEMMA BearerMoves ==
  ASSUME NEW t \in Tabs, bearer \in [Tabs -> Bearer]
  PROVE  \A b \in Bearer :
           bearer' = [bearer EXCEPT ![t] = b] =>
             /\ bearer' \in [Tabs -> Bearer] /\ bearer'[t] = b
             /\ \A u \in Tabs \ {t} : bearer'[u] = bearer[u]
  OBVIOUS

\* What the two kinds of drain step store.
LEMMA DrainSteps ==
  ASSUME NEW t \in Tabs, drain \in [Tabs -> Draining]
  PROVE  /\ \A f \in Flow(DrainPcs) :
              SetFlow(t, f) =>
                /\ drain' \in [Tabs -> Draining] /\ drain'[t].flow = f
                /\ drain'[t].todo = drain[t].todo
                /\ \A u \in Tabs \ {t} : drain'[u] = drain[u]
         /\ Drained(t) =>
                /\ drain' \in [Tabs -> Draining] /\ drain'[t].flow = Rest
                /\ \A u \in Tabs \ {t} : drain'[u] = drain[u]
         /\ \A s : GoOn(t, s) =>
                /\ drain' \in [Tabs -> Draining]
                /\ drain'[t].flow = [Rest EXCEPT !.pc = "next"]
                /\ \A u \in Tabs \ {t} : drain'[u] = drain[u]
<1>1. \A f \in Flow(DrainPcs) :
        SetFlow(t, f) =>
          /\ drain' \in [Tabs -> Draining] /\ drain'[t].flow = f
          /\ drain'[t].todo = drain[t].todo
          /\ \A u \in Tabs \ {t} : drain'[u] = drain[u]
  BY DEF SetFlow, Draining
<1>2. Drained(t) =>
        /\ drain' \in [Tabs -> Draining] /\ drain'[t].flow = Rest
        /\ \A u \in Tabs \ {t} : drain'[u] = drain[u]
  BY RestKnowsNothing DEF Drained, Draining
<1>3. [Rest EXCEPT !.pc = "next"] \in Flow(DrainPcs)
  BY DEF Rest, Flow, DrainPcs, Bearer
<1>4. \A s : GoOn(t, s) =>
        /\ drain' \in [Tabs -> Draining]
        /\ drain'[t].flow = [Rest EXCEPT !.pc = "next"]
        /\ \A u \in Tabs \ {t} : drain'[u] = drain[u]
  BY <1>3 DEF GoOn, Draining
<1> QED
  BY <1>1, <1>2, <1>4

\* The pages, and the slot, are typed.
PagesOK ==
  /\ slot \in Bearer /\ bearer \in [Tabs -> Bearer]
  /\ drain \in [Tabs -> Draining] /\ dialog \in [Tabs -> Flow(DialogPcs)]

\* So is the server: no challenge is exchanged twice.
ServerOK ==
  /\ attempts \in [Challenges -> 0..MaxAttempts]
  /\ issued \in [Challenges -> SUBSET Sessions] /\ live \subseteq Sessions
  /\ \A c \in Challenges : Cardinality(issued[c]) <= 1

\* And the device keeps what it has captured, within its limit.
DeviceOK ==
  /\ queue \subseteq captured /\ captured \cup admitted \subseteq Shares
  /\ verdict \in [Shares -> {"none", "accepted", "refused"}]
  /\ CapturedIsKept /\ Cardinality(queue) <= MaxQueue

\* PhoneInv, a part for each of pages, server and device.
LEMMA PhoneInvIs == PhoneInv <=> PagesOK /\ ServerOK /\ DeviceOK
  BY DEF PhoneInv, PhoneTypeOK, PhoneLimits, PagesOK, ServerOK, DeviceOK, Draining,
         DrainPcs, DialogPcs

\* No step makes a bearer live again, or forgets one.
SessionsGoOn ==
  /\ Used \subseteq Used' /\ live' \subseteq Used'
  /\ \A s \in Used \cup {NoSession} : s \notin live => s \notin live'

\* Page t does nothing.
PageStays(t) == bearer'[t] = bearer[t] /\ drain'[t] = drain[t] /\ dialog'[t] = dialog[t]

\* Bearers is kept by the pages that do nothing.
LEMMA BearersKept ==
  ASSUME Bearers, SessionsGoOn, slot' \in Used' \cup {NoSession},
         \A t \in Tabs : PageStays(t) \/ Page(t)'
  PROVE  Bearers'
<1>1. ASSUME NEW t \in Tabs, PageStays(t) PROVE Page(t)'
  BY <1>1 DEF Bearers, Page, PageStays, Knows, SessionsGoOn
<1> QED
  BY <1>1 DEF Bearers, SessionsGoOn

\* Nothing is issued, and nothing revoked.
LEMMA ServerStays ==
  ASSUME Bearers, ServerOK, UNCHANGED server
  PROVE  SessionsGoOn /\ ServerOK' /\ Used' = Used
  BY DEF server, SessionsGoOn, Used, ServerOK, Bearers

\* Nothing happens to the shares.
LEMMA DeviceStays ==
  ASSUME DeviceOK, UNCHANGED <<captured, queue, admitted, verdict>>
  PROVE  DeviceOK'
  BY DEF DeviceOK, CapturedIsKept

\* Nothing happens on the pages.
LEMMA PagesStay ==
  ASSUME PagesOK, UNCHANGED <<slot, bearer, drain, dialog>>
  PROVE  PagesOK' /\ \A t \in Tabs : PageStays(t)
  BY DEF PagesOK, PageStays

\* Sessions end.
LEMMA SessionsEnd ==
  ASSUME Bearers, ServerOK, UNCHANGED <<attempts, issued>>, live' \subseteq live
  PROVE  SessionsGoOn /\ ServerOK' /\ Used' = Used
  BY DEF SessionsGoOn, Used, ServerOK, Bearers

\* Room for what is added: the queue keeps to its limit.
LEMMA RoomIsKept ==
  ASSUME PhoneAssumption, DeviceOK, NEW adding \in SUBSET Shares, QueueAdmits(adding)
  PROVE  Cardinality(queue \cup adding) <= MaxQueue
<1>1. IsFiniteSet(queue) /\ IsFiniteSet(adding)
  BY FS_Subset DEF PhoneAssumption, DeviceOK
<1>2. /\ Cardinality(queue) \in Nat /\ Cardinality(adding) \in Nat
      /\ IsFiniteSet(queue \cap adding) /\ Cardinality(queue \cap adding) \in Nat
  BY <1>1, FS_CardinalityType, FS_Intersection
<1>3. Cardinality(queue \cup adding)
        = Cardinality(queue) + Cardinality(adding) - Cardinality(queue \cap adding)
  BY <1>1, FS_Union
<1> QED
  BY <1>2, <1>3 DEF QueueAdmits, PhoneAssumption

\* A capture is queued.
LEMMA EnqueueKeeps ==
  ASSUME PhoneAssumption, DeviceOK, NEW adding \in SUBSET Shares, Enqueue(adding),
         admitted' \subseteq Shares, verdict' = verdict
  PROVE  DeviceOK'
<1>1. Cardinality(queue') <= MaxQueue
  BY RoomIsKept DEF Enqueue
<1> QED
  BY <1>1 DEF DeviceOK, Enqueue, CapturedIsKept

\* The server by itself, and the shares on their way to the queue.
LEMMA SurroundingsKeep ==
  ASSUME PhoneAssumption, PhoneIInv,
         \/ \E c \in Challenges : WrongCode(c)
         \/ \E s \in Sessions : Expire(s)
         \/ \E s \in Shares : AdmitShare(s) \/ QueueShare(s)
         \/ \E t \in Tabs, adding \in SUBSET Shares : CaptureInPage(t, adding)
         \/ UNCHANGED phoneVars
  PROVE  PhoneIInv'
<1>1. PagesOK /\ ServerOK /\ DeviceOK /\ Bearers
  BY PhoneInvIs DEF PhoneIInv
<1>2. UNCHANGED <<slot, bearer, drain, dialog>>
  BY DEF WrongCode, Expire, AdmitShare, QueueShare, CaptureInPage, phoneVars
<1>3. PagesOK' /\ \A t \in Tabs : PageStays(t)
  BY <1>1, <1>2, PagesStay
<1>4. SessionsGoOn /\ ServerOK'
  <2>1. ASSUME NEW c \in Challenges, WrongCode(c) PROVE SessionsGoOn /\ ServerOK'
    <3>1. UNCHANGED <<issued, live>> /\ attempts' \in [Challenges -> 0..MaxAttempts]
      BY <1>1, <2>1 DEF WrongCode, Exchangeable, ServerOK, PhoneAssumption
    <3> QED
      BY <1>1, <3>1 DEF SessionsGoOn, Used, ServerOK, Bearers
  <2>2. ASSUME NEW s \in Sessions, Expire(s) PROVE SessionsGoOn /\ ServerOK'
    BY <1>1, <2>2, SessionsEnd DEF Expire
  <2>3. CASE UNCHANGED server
    BY <1>1, <2>3, ServerStays
  <2> QED
    BY <2>1, <2>2, <2>3 DEF AdmitShare, QueueShare, CaptureInPage, phoneVars, server
<1>5. DeviceOK'
  <2>1. ASSUME NEW s \in Shares, AdmitShare(s) PROVE DeviceOK'
    BY <1>1, <2>1 DEF AdmitShare, DeviceOK, CapturedIsKept
  <2>2. ASSUME NEW s \in Shares, QueueShare(s) PROVE DeviceOK'
    <3>1. CASE Enqueue({s})
      BY <1>1, <2>2, <3>1, EnqueueKeeps DEF QueueShare, DeviceOK
    <3>2. CASE UNCHANGED <<captured, queue>>
      BY <1>1, <2>2, <3>2 DEF QueueShare, DeviceOK, CapturedIsKept
    <3> QED
      BY <2>2, <3>1, <3>2 DEF QueueShare
  <2>3. ASSUME NEW t \in Tabs, NEW adding \in SUBSET Shares, CaptureInPage(t, adding)
        PROVE  DeviceOK'
    BY <1>1, <2>3, EnqueueKeeps DEF CaptureInPage, DeviceOK
  <2>4. CASE UNCHANGED <<captured, queue, admitted, verdict>>
    BY <1>1, <2>4, DeviceStays
  <2> QED
    BY <2>1, <2>2, <2>3, <2>4 DEF WrongCode, Expire, phoneVars
<1>6. Bearers'
  <2>1. Used \subseteq Used' /\ slot' \in Used' \cup {NoSession}
    BY <1>1, <1>2, <1>4 DEF SessionsGoOn, Bearers
  <2> QED
    BY <1>1, <1>3, <1>4, <2>1, BearersKept
<1>7. PhoneInv'
  BY <1>3, <1>4, <1>5 DEF PhoneInv, PhoneTypeOK, PhoneLimits, PagesOK, ServerOK, DeviceOK,
     Draining, DrainPcs, DialogPcs
<1> QED
  BY <1>6, <1>7 DEF PhoneIInv

\* A step of the drain of page t.
LEMMA DrainKeeps ==
  ASSUME PhoneIInv, NEW t \in Tabs, UNCHANGED <<server, dialog>>, PagesOK', DeviceOK',
         \A u \in Tabs \ {t} : drain'[u] = drain[u] /\ bearer'[u] = bearer[u],
         slot' \in Used \cup {NoSession}, bearer'[t] \in Used \cup {NoSession},
         Knows(drain'[t].flow),
         drain'[t].flow.pc = "clear" =>
           drain'[t].flow.with = NoSession \/ drain'[t].flow.invalid \notin live
  PROVE  PhoneIInv'
<1>1. ServerOK /\ Bearers
  BY PhoneInvIs DEF PhoneIInv
<1>2. SessionsGoOn /\ ServerOK' /\ Used' = Used /\ live' = live /\ dialog' = dialog
  BY <1>1, ServerStays DEF server
<1>3. Page(t)'
  BY <1>1, <1>2 DEF Page, Knows, Bearers
<1>4. \A u \in Tabs : PageStays(u) \/ Page(u)'
  BY <1>2, <1>3 DEF PageStays
<1>5. Bearers'
  BY <1>1, <1>2, <1>4, BearersKept
<1>6. PhoneInv'
  BY <1>2 DEF PhoneInv, PhoneTypeOK, PhoneLimits, PagesOK, ServerOK, DeviceOK,
     Draining, DrainPcs, DialogPcs
<1> QED
  BY <1>5, <1>6 DEF PhoneIInv

\* What is known of page t.
LEMMA PageKnown ==
  ASSUME PhoneIInv, NEW t \in Tabs
  PROVE  /\ PagesOK /\ ServerOK /\ DeviceOK /\ Bearers /\ Page(t)
         /\ drain \in [Tabs -> Draining] /\ drain[t] \in Draining
         /\ drain[t].flow \in Flow(DrainPcs) /\ dialog[t] \in Flow(DialogPcs)
         /\ bearer[t] \in Bearer /\ slot \in Bearer
         /\ Used \subseteq Sessions
  BY PhoneInvIs DEF PhoneIInv, Bearers, PagesOK, ServerOK, Draining, Used

\* The two flows a drain takes up by itself.
LEMMA DrainFlows ==
  /\ [Rest EXCEPT !.pc = "next"] \in Flow(DrainPcs)
  /\ [Rest EXCEPT !.pc = "next"].pc = "next" /\ Knows([Rest EXCEPT !.pc = "next"])
  /\ \A b \in Bearer : LET f == [Rest EXCEPT !.pc = "sent", !.with = b] IN
       /\ f \in Flow(DrainPcs) /\ f.pc = "sent" /\ f.with = b
       /\ (b \in Used \cup {NoSession} => Knows(f))
  BY DEF Rest, Flow, DrainPcs, Bearer, Knows

\* A drain starts, or takes up its next share.
LEMMA StartDrainKeeps ==
  ASSUME PhoneIInv, NEW t \in Tabs, StartDrain(t) \/ NextShare(t)
  PROVE  PhoneIInv'
<1>1. /\ UNCHANGED <<server, dialog, slot, bearer, captured, queue, admitted, verdict>>
  BY DEF StartDrain, NextShare
<1>2. /\ PagesOK /\ DeviceOK /\ Bearers /\ Page(t) /\ drain \in [Tabs -> Draining]
      /\ bearer[t] \in Bearer /\ drain[t] \in Draining /\ queue \subseteq Shares
  BY PageKnown DEF DeviceOK
<1>3. /\ drain' \in [Tabs -> Draining] /\ Knows(drain'[t].flow) /\ drain'[t].flow.pc # "clear"
      /\ \A u \in Tabs \ {t} : drain'[u] = drain[u]
  <2>1. CASE StartDrain(t)
    <3> DEFINE d == [flow |-> [Rest EXCEPT !.pc = "next"], todo |-> queue]
    <3>1. d \in Draining /\ d.flow = [Rest EXCEPT !.pc = "next"]
      BY <1>2, DrainFlows DEF Draining
    <3>2. drain' = [drain EXCEPT ![t] = d]
      BY <2>1 DEF StartDrain
    <3> HIDE DEF d
    <3> QED
      BY <1>2, <3>1, <3>2, DrainMoves, DrainFlows
  <2>2. CASE SetFlow(t, [Rest EXCEPT !.pc = "sent", !.with = bearer[t]])
    <3> DEFINE f == [Rest EXCEPT !.pc = "sent", !.with = bearer[t]]
    <3>1. f \in Flow(DrainPcs) /\ f.pc = "sent" /\ Knows(f)
      BY <1>2, DrainFlows DEF Page
    <3> HIDE DEF f
    <3>2. SetFlow(t, f)
      BY <2>2 DEF f
    <3> QED
      BY <1>2, <3>1, <3>2, DrainSteps
  <2>3. CASE Drained(t)
    BY <1>2, <2>3, DrainSteps, RestKnowsNothing
  <2> QED
    BY <2>1, <2>2, <2>3 DEF NextShare
<1>4. PagesOK' /\ DeviceOK'
  BY <1>1, <1>2, <1>3, DeviceStays DEF PagesOK
<1> QED
  BY <1>1, <1>2, <1>3, <1>4, DrainKeeps DEF Page, Bearers

\* An upload is answered, or its answer is lost: a share leaves the queue only
\* with a verdict.
LEMMA UploadAnsweredKeeps ==
  ASSUME PhoneAssumption, PhoneIInv, NEW t \in Tabs, NEW s \in Shares, NEW lost \in BOOLEAN,
         NEW answer \in {"accepted", "refused", "tooLarge", "trouble"},
         UploadAnswered(t, s, answer, lost)
  PROVE  PhoneIInv'
<1> DEFINE seen == IF lost THEN "trouble" ELSE answer
<1>1. /\ UNCHANGED <<server, dialog, slot, bearer, captured, admitted>>
      /\ answer \in Answers(s)
      /\ verdict' = [verdict EXCEPT ![s] = IF answer \in {"accepted", "refused"} THEN answer ELSE @]
      /\ queue' = IF Disposes(seen) THEN queue \ {s} ELSE queue
      /\ Drained(t) \/ GoOn(t, s)
  BY DEF UploadAnswered
<1>2. /\ PagesOK /\ DeviceOK /\ Bearers /\ Page(t) /\ drain \in [Tabs -> Draining]
      /\ queue \subseteq captured /\ captured \subseteq Shares
  BY PageKnown DEF DeviceOK
<1>3. /\ drain' \in [Tabs -> Draining] /\ Knows(drain'[t].flow) /\ drain'[t].flow.pc # "clear"
      /\ \A u \in Tabs \ {t} : drain'[u] = drain[u]
  BY ZenonT(40), <1>1, <1>2, DrainSteps, RestKnowsNothing, DrainFlows
<1>4. /\ verdict' \in [Shares -> {"none", "accepted", "refused"}]
      /\ \A x \in Shares : verdict[x] # "none" => verdict'[x] # "none"
      /\ Disposes(seen) => verdict'[s] # "none"
  BY <1>1, <1>2 DEF DeviceOK, Disposes
<1>5. Cardinality(queue') <= MaxQueue
  <2>1. IsFiniteSet(queue) /\ queue' \subseteq queue
    BY <1>1, <1>2, FS_Subset DEF PhoneAssumption
  <2>2. Cardinality(queue') <= Cardinality(queue) /\ IsFiniteSet(queue')
    BY <2>1, FS_Subset
  <2>3. Cardinality(queue') \in Nat /\ Cardinality(queue) \in Nat
    BY <2>1, <2>2, FS_CardinalityType
  <2> QED
    BY <1>2, <2>2, <2>3 DEF DeviceOK, PhoneAssumption
<1>6. CapturedIsKept'
  BY <1>1, <1>2, <1>4 DEF DeviceOK, CapturedIsKept
<1>7. PagesOK' /\ DeviceOK'
  BY <1>1, <1>2, <1>3, <1>4, <1>5, <1>6 DEF PagesOK, DeviceOK
<1> QED
  BY <1>1, <1>2, <1>3, <1>7, DrainKeeps DEF Page, Bearers

\* A 401: the bearer the request carried is dead.
LEMMA UploadUnauthorizedKeeps ==
  ASSUME PhoneAssumption, PhoneIInv, NEW t \in Tabs, NEW s \in Shares, UploadUnauthorized(t, s)
  PROVE  PhoneIInv'
<1> DEFINE with == drain[t].flow.with
           invalid == IF with = NoSession THEN bearer[t] ELSE with
           f == Invalidating(with, invalid)
<1>1. /\ UNCHANGED <<server, dialog, slot, captured, queue, admitted, verdict>>
      /\ with \notin live
      /\ \/ (GoOn(t, s) \/ Drained(t)) /\ bearer' = bearer
         \/ /\ Finalizable(t, invalid) /\ bearer' = [bearer EXCEPT ![t] = NoSession]
            /\ SetFlow(t, f)
  BY DEF UploadUnauthorized
<1>2. /\ PagesOK /\ DeviceOK /\ Bearers /\ Page(t) /\ drain \in [Tabs -> Draining]
      /\ bearer[t] \in Bearer /\ drain[t].flow \in Flow(DrainPcs) /\ NoSession \in Bearer
      /\ bearer \in [Tabs -> Bearer]
  BY PageKnown DEF Bearer, PagesOK
<1>3. /\ with \in Bearer /\ with \in Used \cup {NoSession}
      /\ invalid \in Bearer /\ invalid \in Used \cup {NoSession}
  BY <1>2 DEF Flow, Page, Knows
<1>4. /\ f \in Flow(DrainPcs) /\ f.with = with /\ f.invalid = invalid /\ f.found = NoSession
      /\ Knows(f) /\ (f.with = NoSession \/ f.invalid \notin live)
  <2>1. f \in Flow(DrainPcs) /\ f.with = with /\ f.invalid = invalid /\ f.found = NoSession
    BY <1>3, RestKnowsNothing
  <2>2. Knows(f)
    BY <1>3, <2>1 DEF Knows
  <2> QED
    BY <1>1, <2>1, <2>2
<1> HIDE DEF f, with, invalid
<1>5. /\ drain' \in [Tabs -> Draining] /\ Knows(drain'[t].flow)
      /\ drain'[t].flow.pc = "clear" =>
           drain'[t].flow.with = NoSession \/ drain'[t].flow.invalid \notin live
      /\ \A u \in Tabs \ {t} : drain'[u] = drain[u]
  <2>1. CASE SetFlow(t, f)
    BY <1>2, <1>4, <2>1, DrainSteps
  <2>2. CASE GoOn(t, s) \/ Drained(t)
    BY <1>2, <2>2, DrainSteps, RestKnowsNothing, DrainFlows
  <2> QED
    BY <1>1, <2>1, <2>2
<1>6. /\ bearer' \in [Tabs -> Bearer] /\ bearer'[t] \in Used \cup {NoSession}
      /\ \A u \in Tabs \ {t} : bearer'[u] = bearer[u]
  BY <1>1, <1>2 DEF Page
<1>7. PagesOK' /\ DeviceOK'
  BY <1>1, <1>2, <1>5, <1>6, DeviceStays DEF PagesOK
<1> QED
  BY <1>1, <1>2, <1>5, <1>6, <1>7, DrainKeeps DEF Bearers

\* The finalization of either flow: what it deletes, reads and adopts.
LEMMA EndingKeeps ==
  ASSUME NEW t \in Tabs, PagesOK, Bearers, NEW pcs,
         "rest" \in pcs, Ending \subseteq pcs
  PROVE  \A f \in Flow(pcs) :
           Knows(f) /\ EndSession(t, f) =>
             /\ slot' \in Bearer /\ slot' \in Used \cup {NoSession}
             /\ bearer' \in [Tabs -> Bearer] /\ bearer'[t] \in Used \cup {NoSession}
             /\ \A u \in Tabs \ {t} : bearer'[u] = bearer[u]
             /\ Onward(t, f) \in Flow(pcs) /\ Knows(Onward(t, f))
             /\ Onward(t, f).pc # "clear"
<1> TAKE f \in Flow(pcs)
<1> HAVE Knows(f) /\ EndSession(t, f)
<1>1. /\ slot \in Bearer /\ slot \in Used \cup {NoSession} /\ NoSession \in Bearer
      /\ bearer \in [Tabs -> Bearer] /\ bearer[t] \in Used \cup {NoSession}
      /\ f.found \in Bearer /\ f.found \in Used \cup {NoSession}
      /\ f.pc \in Ending
  BY DEF PagesOK, Bearers, Page, Bearer, Flow, Knows, EndSession, Ending
<1>2. slot' \in Bearer /\ slot' \in Used \cup {NoSession}
  BY <1>1 DEF EndSession, ClearSlot
<1>3. /\ bearer' \in [Tabs -> Bearer] /\ bearer'[t] \in Used \cup {NoSession}
      /\ \A u \in Tabs \ {t} : bearer'[u] = bearer[u]
  <2>1. bearer' = bearer \/ bearer' = [bearer EXCEPT ![t] = f.found]
    BY DEF EndSession
  <2> QED
    BY <1>1, <2>1
<1>4. Onward(t, f) \in Flow(pcs) /\ Knows(Onward(t, f)) /\ Onward(t, f).pc # "clear"
  <2>1. Rest \in Flow(pcs) /\ Knows(Rest) /\ Rest.pc # "clear"
    BY DEF Rest, Flow, Bearer, Knows
  <2>2. CASE f.pc = "clear" /\ bearer[t] = NoSession
    <3>1. Onward(t, f) = [f EXCEPT !.pc = "read"]
      BY <2>2 DEF Onward
    <3> QED
      BY <3>1 DEF Flow, Knows, Ending
  <2>3. CASE f.pc = "read"
    <3>1. Onward(t, f) = [f EXCEPT !.pc = "adopt", !.found = slot]
      BY <2>3 DEF Onward
    <3>2. f \in [pc : pcs, with : Bearer, invalid : Bearer, found : Bearer]
      BY DEF Flow
    <3>3. "adopt" \in pcs
      BY DEF Ending
    <3> DEFINE g == [f EXCEPT !.pc = "adopt", !.found = slot]
    <3>4. /\ g \in [pc : pcs, with : Bearer, invalid : Bearer, found : Bearer]
          /\ g.pc = "adopt" /\ g.with = f.with /\ g.invalid = f.invalid /\ g.found = slot
      BY <1>1, <3>2, <3>3
    <3> HIDE DEF g
    <3>5. Onward(t, f) = g
      BY <3>1 DEF g
    <3> QED
      BY <1>1, <3>4, <3>5 DEF Flow, Knows
  <2>4. CASE ~(f.pc = "clear" /\ bearer[t] = NoSession) /\ f.pc # "read"
    <3>1. Onward(t, f) = Rest
      BY <2>4 DEF Onward
    <3> QED
      BY <2>1, <3>1
  <2> QED
    BY <2>2, <2>3, <2>4
<1> QED
  BY <1>2, <1>3, <1>4

\* A drain ends its session, a step at a time.
LEMMA DrainEndsKeeps ==
  ASSUME PhoneAssumption, PhoneIInv, NEW t \in Tabs, DrainEndsSession(t)
  PROVE  PhoneIInv'
<1> DEFINE f == drain[t].flow
<1>1. /\ UNCHANGED <<server, dialog, captured, queue, admitted, verdict>>
      /\ EndSession(t, f) /\ (Drained(t) \/ SetFlow(t, Onward(t, f)))
  BY DEF DrainEndsSession
<1>2. /\ PagesOK /\ DeviceOK /\ Bearers /\ Page(t) /\ drain \in [Tabs -> Draining]
      /\ f \in Flow(DrainPcs) /\ Knows(f)
  BY PageKnown DEF Page
<1> HIDE DEF f
<1>3. /\ slot' \in Bearer /\ slot' \in Used \cup {NoSession}
      /\ bearer' \in [Tabs -> Bearer] /\ bearer'[t] \in Used \cup {NoSession}
      /\ \A u \in Tabs \ {t} : bearer'[u] = bearer[u]
      /\ Onward(t, f) \in Flow(DrainPcs) /\ Knows(Onward(t, f))
      /\ Onward(t, f).pc # "clear"
  BY <1>1, <1>2, EndingKeeps DEF DrainPcs
<1>4. /\ drain' \in [Tabs -> Draining] /\ Knows(drain'[t].flow) /\ drain'[t].flow.pc # "clear"
      /\ \A u \in Tabs \ {t} : drain'[u] = drain[u]
  BY <1>1, <1>2, <1>3, DrainSteps, RestKnowsNothing
<1>5. PagesOK' /\ DeviceOK'
  BY <1>1, <1>2, <1>3, <1>4, DeviceStays DEF PagesOK
<1> QED
  BY <1>1, <1>3, <1>4, <1>5, DrainKeeps

\* A step of the dialog of page t, with whatever it does at the server.
LEMMA DialogKeeps ==
  ASSUME PhoneIInv, NEW t \in Tabs, UNCHANGED drain,
         PagesOK', ServerOK', DeviceOK', SessionsGoOn,
         \A u \in Tabs \ {t} : dialog'[u] = dialog[u] /\ bearer'[u] = bearer[u],
         slot' \in Used' \cup {NoSession}, bearer'[t] \in Used' \cup {NoSession},
         Knows(dialog[t])', (dialog[t].pc = "clear" => dialog[t].invalid \notin live)'
  PROVE  PhoneIInv'
<1>1. Bearers /\ Page(t)
  BY PageKnown
<1>2. Page(t)'
  <2>1. Knows(drain[t].flow)'
    BY <1>1 DEF Page, Knows, SessionsGoOn
  <2>2. (drain[t].flow.pc = "clear" =>
           drain[t].flow.with = NoSession \/ drain[t].flow.invalid \notin live)'
    BY <1>1 DEF Page, Knows, SessionsGoOn
  <2> QED
    BY <2>1, <2>2 DEF Page
<1>3. \A u \in Tabs : PageStays(u) \/ Page(u)'
  BY <1>2 DEF PageStays
<1>4. Bearers'
  BY <1>1, <1>3, BearersKept
<1>5. PhoneInv'
  BY DEF PhoneInv, PhoneTypeOK, PhoneLimits, PagesOK, ServerOK, DeviceOK,
     Draining, DrainPcs, DialogPcs
<1> QED
  BY <1>4, <1>5 DEF PhoneIInv

\* A challenge is exchanged for a session nobody has had.
LEMMA IssueKeeps ==
  ASSUME PhoneAssumption, ServerOK, Bearers, NEW c \in Challenges, NEW s \in Sessions, Issue(c, s)
  PROVE  ServerOK' /\ SessionsGoOn /\ s \in Used'
<1>1. /\ issued[c] = {} /\ s \notin Used /\ attempts' = attempts
      /\ issued' = [issued EXCEPT ![c] = issued[c] \cup {s}] /\ live' = live \cup {s}
  BY DEF Issue, Exchangeable
<1>2. issued'[c] = {s} /\ \A d \in Challenges \ {c} : issued'[d] = issued[d]
  BY <1>1 DEF ServerOK
<1>3. Cardinality(issued'[c]) <= 1
  BY <1>2, FS_Singleton
<1>4. ServerOK'
  BY <1>1, <1>2, <1>3 DEF ServerOK
<1>5. Used \subseteq Used' /\ s \in Used'
  BY <1>1, <1>2 DEF Used
<1>6. SessionsGoOn
  BY <1>1, <1>5 DEF SessionsGoOn, Bearers, PhoneAssumption
<1> QED
  BY <1>4, <1>5, <1>6

\* A page pairs; the answer may be lost.
LEMMA PairKeeps ==
  ASSUME PhoneAssumption, PhoneIInv, NEW t \in Tabs, NEW c \in Challenges, NEW s \in Sessions,
         NEW lost \in BOOLEAN, Pair(t, c, s, lost)
  PROVE  PhoneIInv'
<1> DEFINE f == [Rest EXCEPT !.pc = "persist", !.with = s]
<1>1. /\ UNCHANGED <<captured, queue, slot, admitted, bearer, drain, verdict>>
      /\ Issue(c, s) /\ (dialog' = dialog \/ SetDialog(t, f))
  BY DEF Pair
<1>2. /\ PagesOK /\ ServerOK /\ DeviceOK /\ Bearers /\ Page(t) /\ dialog[t] \in Flow(DialogPcs)
      /\ dialog \in [Tabs -> Flow(DialogPcs)]
  BY PageKnown DEF PagesOK
<1>3. ServerOK' /\ SessionsGoOn /\ s \in Used'
  BY <1>1, <1>2, IssueKeeps
<1>4. /\ f \in Flow(DialogPcs) /\ f.pc = "persist" /\ f.with = s /\ f.invalid = NoSession
      /\ f.found = NoSession
  BY DEF Rest, Flow, DialogPcs, Bearer
<1> HIDE DEF f
<1>5. /\ dialog' \in [Tabs -> Flow(DialogPcs)]
      /\ \A u \in Tabs \ {t} : dialog'[u] = dialog[u]
      /\ dialog'[t] = dialog[t] \/ dialog'[t] = f
  BY <1>1, <1>2, <1>4, DialogMoves
<1>6. Knows(dialog[t])' /\ (dialog[t].pc = "clear" => dialog[t].invalid \notin live)'
  <2>1. CASE dialog'[t] = f
    BY <1>3, <1>4, <2>1 DEF Knows
  <2>2. CASE dialog'[t] = dialog[t]
    BY <1>2, <1>3, <2>2 DEF Page, Knows, SessionsGoOn
  <2> QED
    BY <1>5, <2>1, <2>2
<1>7. PagesOK' /\ DeviceOK'
  BY <1>1, <1>2, <1>5, DeviceStays DEF PagesOK
<1>8. slot' \in Used' \cup {NoSession} /\ bearer'[t] \in Used' \cup {NoSession}
  BY <1>1, <1>2, <1>3 DEF SessionsGoOn, Bearers, Page
<1> QED
  BY <1>1, <1>3, <1>5, <1>6, <1>7, <1>8, DialogKeeps

\* What a step of the dialog alone needs.
LEMMA DialogOnlyKeeps ==
  ASSUME PhoneIInv, NEW t \in Tabs,
         UNCHANGED <<captured, queue, admitted, drain, verdict, attempts, issued>>,
         live' \subseteq live,
         slot' \in Used \cup {NoSession},
         bearer' = bearer
           \/ \E b \in Used \cup {NoSession} : bearer' = [bearer EXCEPT ![t] = b]
  PROVE  \A f \in Flow(DialogPcs) :
           Knows(f) /\ (f.pc = "clear" => f.invalid \notin live') /\ SetDialog(t, f)
             => PhoneIInv'
<1> SUFFICES ASSUME NEW f \in Flow(DialogPcs), Knows(f), SetDialog(t, f),
                    f.pc = "clear" => f.invalid \notin live'
             PROVE  PhoneIInv'
  OBVIOUS
<1>1. /\ PagesOK /\ ServerOK /\ DeviceOK /\ Bearers /\ Page(t) /\ Used \subseteq Sessions
      /\ dialog \in [Tabs -> Flow(DialogPcs)] /\ bearer \in [Tabs -> Bearer]
  BY PageKnown DEF PagesOK
<1>2. SessionsGoOn /\ ServerOK' /\ Used' = Used
  BY <1>1, SessionsEnd
<1>3. /\ dialog' \in [Tabs -> Flow(DialogPcs)] /\ dialog'[t] = f
      /\ \A u \in Tabs \ {t} : dialog'[u] = dialog[u]
  BY <1>1, DialogMoves
<1>4. /\ bearer' \in [Tabs -> Bearer] /\ bearer'[t] \in Used \cup {NoSession}
      /\ \A u \in Tabs \ {t} : bearer'[u] = bearer[u]
  BY <1>1, BearerMoves DEF Page, Bearer
<1>5. PagesOK' /\ DeviceOK'
  BY <1>1, <1>3, <1>4, DeviceStays DEF PagesOK, Bearer
<1>6. Knows(dialog[t])' /\ (dialog[t].pc = "clear" => dialog[t].invalid \notin live)'
  BY <1>2, <1>3 DEF Knows
<1> QED
  BY <1>2, <1>3, <1>4, <1>5, <1>6, DialogKeeps

\* The exchange is answered: the bearer is stored, or asked back.
LEMMA PersistKeeps ==
  ASSUME PhoneIInv, NEW t \in Tabs, NEW stored \in BOOLEAN, Persist(t, stored)
  PROVE  PhoneIInv'
<1> DEFINE p == [dialog[t] EXCEPT !.pc = "stored"]
           q == [dialog[t] EXCEPT !.pc = "undo"]
<1>1. /\ UNCHANGED <<captured, queue, admitted, drain, verdict, attempts, issued, live>>
      /\ \/ slot' = dialog[t].with /\ SetDialog(t, p) /\ bearer' = bearer
         \/ /\ bearer' = [bearer EXCEPT ![t] = dialog[t].with] /\ SetDialog(t, q)
            /\ slot' = slot
  BY DEF Persist, server
<1>2. /\ Bearers /\ Knows(dialog[t]) /\ dialog[t] \in Flow(DialogPcs)
      /\ dialog[t].with \in Used \cup {NoSession} /\ slot \in Used \cup {NoSession}
  BY PageKnown DEF Page, Knows, Bearers
<1>3. /\ p \in Flow(DialogPcs) /\ Knows(p) /\ p.pc # "clear"
      /\ q \in Flow(DialogPcs) /\ Knows(q) /\ q.pc # "clear"
  BY <1>2 DEF Flow, DialogPcs, Knows
<1> HIDE DEF p, q
<1> QED
  BY <1>1, <1>2, <1>3, DialogOnlyKeeps

\* The page has paired; it asks the server something; it is not answered.
LEMMA SimpleDialogKeeps ==
  ASSUME PhoneIInv, NEW t \in Tabs,
         Paired(t) \/ Unanswered(t) \/ \E pc \in {"revoke", "poll"} : Ask(t, pc)
  PROVE  PhoneIInv'
<1>1. /\ PagesOK /\ Bearers /\ Knows(dialog[t]) /\ bearer[t] \in Used \cup {NoSession}
      /\ dialog[t].with \in Used \cup {NoSession} /\ slot \in Used \cup {NoSession}
      /\ bearer[t] \in Bearer
  BY PageKnown DEF Page, Knows, Bearers
<1>2. /\ UNCHANGED <<captured, queue, admitted, drain, verdict, attempts, issued, live, slot>>
      /\ bearer' = bearer \/ bearer' = [bearer EXCEPT ![t] = dialog[t].with]
  BY DEF Paired, Unanswered, Ask, server
<1>3. CASE SetDialog(t, Rest)
  BY <1>1, <1>2, <1>3, RestKnowsNothing, DialogOnlyKeeps
<1>4. ASSUME NEW pc \in {"revoke", "poll"}, Ask(t, pc) PROVE PhoneIInv'
  <2> DEFINE f == [Rest EXCEPT !.pc = pc, !.with = bearer[t]]
  <2>1. f \in Flow(DialogPcs) /\ Knows(f) /\ f.pc # "clear"
    BY <1>1 DEF Rest, Flow, DialogPcs, Knows, Bearer
  <2>2. SetDialog(t, f)
    BY <1>4 DEF Ask
  <2> HIDE DEF f
  <2> QED
    BY <1>1, <1>2, <2>1, <2>2, DialogOnlyKeeps
<1> QED
  BY <1>3, <1>4 DEF Paired, Unanswered

\* A request of the dialog is answered; a bearer it invalidates has ended.
LEMMA AnsweredKeeps ==
  ASSUME PhoneIInv, NEW t \in Tabs, NEW lost \in BOOLEAN, Answered(t, lost)
  PROVE  PhoneIInv'
<1> DEFINE with == dialog[t].with
           f == Invalidating(with, with)
<1>1. /\ UNCHANGED <<captured, queue, admitted, drain, verdict, attempts, issued, slot>>
      /\ live' \subseteq live
      /\ \/ /\ bearer' = [bearer EXCEPT ![t] = NoSession] /\ SetDialog(t, f)
            /\ with \notin live'
         \/ SetDialog(t, Rest) /\ bearer' = bearer
  BY DEF Answered
<1>2. /\ Bearers /\ dialog[t] \in Flow(DialogPcs) /\ slot \in Used \cup {NoSession}
      /\ with \in Used \cup {NoSession} /\ with \in Bearer
  BY PageKnown DEF Page, Knows, Bearers, Flow
<1>3. f \in Flow(DialogPcs) /\ Knows(f) /\ f.invalid = with
  <2>1. f \in Flow(DialogPcs) /\ f.with = with /\ f.invalid = with /\ f.found = NoSession
    BY <1>2, RestKnowsNothing
  <2> QED
    BY <1>2, <2>1 DEF Knows
<1> HIDE DEF f, with
<1>4. CASE /\ bearer' = [bearer EXCEPT ![t] = NoSession] /\ SetDialog(t, f)
           /\ with \notin live'
  BY <1>1, <1>2, <1>3, <1>4, DialogOnlyKeeps
<1>5. CASE SetDialog(t, Rest) /\ bearer' = bearer
  BY <1>1, <1>2, <1>5, RestKnowsNothing, DialogOnlyKeeps
<1> QED
  BY <1>1, <1>4, <1>5

\* The finalization goes on.
LEMMA DialogEndsKeeps ==
  ASSUME PhoneIInv, NEW t \in Tabs, DialogEndsSession(t)
  PROVE  PhoneIInv'
<1> DEFINE f == dialog[t]
<1>1. /\ UNCHANGED <<captured, queue, admitted, drain, verdict, attempts, issued, live>>
      /\ EndSession(t, f) /\ SetDialog(t, Onward(t, f))
  BY DEF DialogEndsSession, server
<1>2. /\ PagesOK /\ ServerOK /\ DeviceOK /\ Bearers /\ Page(t)
      /\ dialog \in [Tabs -> Flow(DialogPcs)] /\ f \in Flow(DialogPcs) /\ Knows(f)
  BY PageKnown DEF Page, PagesOK
<1> HIDE DEF f
<1>3. /\ slot' \in Bearer /\ slot' \in Used \cup {NoSession}
      /\ bearer' \in [Tabs -> Bearer] /\ bearer'[t] \in Used \cup {NoSession}
      /\ \A u \in Tabs \ {t} : bearer'[u] = bearer[u]
      /\ Onward(t, f) \in Flow(DialogPcs) /\ Knows(Onward(t, f))
      /\ Onward(t, f).pc # "clear"
  BY <1>1, <1>2, EndingKeeps DEF DialogPcs
<1>4. SessionsGoOn /\ ServerOK' /\ Used' = Used
  BY <1>1, <1>2, SessionsEnd
<1>5. /\ dialog' \in [Tabs -> Flow(DialogPcs)] /\ dialog'[t] = Onward(t, f)
      /\ \A u \in Tabs \ {t} : dialog'[u] = dialog[u]
  BY <1>1, <1>2, <1>3, DialogMoves
<1>6. PagesOK' /\ DeviceOK'
  BY <1>1, <1>2, <1>3, <1>5, DeviceStays DEF PagesOK
<1>7. Knows(dialog[t])' /\ (dialog[t].pc = "clear" => dialog[t].invalid \notin live)'
  BY <1>3, <1>4, <1>5 DEF Knows
<1> QED
  BY <1>1, <1>3, <1>4, <1>5, <1>6, <1>7, DialogKeeps

\* A page is opened anew.
LEMMA ReloadKeeps ==
  ASSUME PhoneIInv, NEW t \in Tabs, Reload(t)
  PROVE  PhoneIInv'
<1>1. /\ UNCHANGED <<captured, queue, slot, admitted, server, verdict>>
      /\ bearer' = [bearer EXCEPT ![t] = slot] /\ SetDialog(t, Rest) /\ Drained(t)
  BY DEF Reload
<1>2. /\ PagesOK /\ ServerOK /\ DeviceOK /\ Bearers
      /\ dialog \in [Tabs -> Flow(DialogPcs)] /\ drain \in [Tabs -> Draining]
      /\ bearer \in [Tabs -> Bearer] /\ slot \in Bearer /\ slot \in Used \cup {NoSession}
  BY PageKnown DEF PagesOK, Bearers
<1>3. /\ dialog' \in [Tabs -> Flow(DialogPcs)] /\ dialog'[t] = Rest
      /\ \A u \in Tabs \ {t} : dialog'[u] = dialog[u]
  BY <1>1, <1>2, DialogMoves, RestKnowsNothing
<1>4. /\ drain' \in [Tabs -> Draining] /\ drain'[t].flow = Rest
      /\ \A u \in Tabs \ {t} : drain'[u] = drain[u]
  BY <1>1, <1>2, DrainSteps
<1>5. /\ bearer' \in [Tabs -> Bearer] /\ bearer'[t] = slot
      /\ \A u \in Tabs \ {t} : bearer'[u] = bearer[u]
  BY <1>1, <1>2, BearerMoves
<1>6. SessionsGoOn /\ ServerOK' /\ Used' = Used
  BY <1>1, <1>2, ServerStays
<1>7. PagesOK' /\ DeviceOK'
  BY <1>1, <1>2, <1>3, <1>4, <1>5, DeviceStays DEF PagesOK
<1>8. Page(t)'
  BY <1>2, <1>3, <1>4, <1>5, <1>6, RestKnowsNothing DEF Page, Knows
<1>9. Bearers'
  BY <1>1, <1>2, <1>3, <1>4, <1>5, <1>6, <1>8, BearersKept DEF PageStays
<1>10. PhoneInv'
  BY <1>6, <1>7 DEF PhoneInv, PhoneTypeOK, PhoneLimits, PagesOK, ServerOK, DeviceOK,
     Draining, DrainPcs, DialogPcs
<1> QED
  BY <1>9, <1>10 DEF PhoneIInv

\* At the start nobody has anything.
LEMMA PhoneStarts ==
  ASSUME PhoneAssumption, PhoneInit
  PROVE  PhoneIInv
<1>1. Used = {}
  BY DEF PhoneInit, Used
<1>2. PagesOK
  BY RestKnowsNothing DEF PhoneInit, PagesOK, Draining, Bearer
<1>3. ServerOK /\ DeviceOK
  BY FS_EmptySet DEF PhoneInit, ServerOK, DeviceOK, CapturedIsKept, PhoneAssumption
<1>4. Bearers
  BY <1>1, RestKnowsNothing DEF PhoneInit, Bearers, Page
<1> QED
  BY <1>2, <1>3, <1>4, PhoneInvIs DEF PhoneIInv

\* What every step keeps.
LEMMA PhoneGoesOn ==
  ASSUME PhoneAssumption, PhoneIInv, [PhoneNext]_phoneVars
  PROVE  PhoneIInv'
<1>1. ASSUME NEW t \in Tabs, StartDrain(t) \/ NextShare(t) \/ DrainEndsSession(t)
      PROVE  PhoneIInv'
  BY <1>1, StartDrainKeeps, DrainEndsKeeps
<1>2. ASSUME NEW t \in Tabs, NEW s \in Shares, UploadUnauthorized(t, s)
      PROVE  PhoneIInv'
  BY <1>2, UploadUnauthorizedKeeps
<1>3. ASSUME NEW t \in Tabs, NEW s \in Shares, NEW lost \in BOOLEAN,
             NEW answer \in {"accepted", "refused", "tooLarge", "trouble"},
             UploadAnswered(t, s, answer, lost)
      PROVE  PhoneIInv'
  BY <1>3, UploadAnsweredKeeps
<1>4. ASSUME NEW t \in Tabs, NEW c \in Challenges, NEW s \in Sessions, NEW lost \in BOOLEAN,
             Pair(t, c, s, lost)
      PROVE  PhoneIInv'
  BY <1>4, PairKeeps
<1>5. ASSUME NEW t \in Tabs, NEW flag \in BOOLEAN, Persist(t, flag) \/ Answered(t, flag)
      PROVE  PhoneIInv'
  BY <1>5, PersistKeeps, AnsweredKeeps
<1>6. ASSUME NEW t \in Tabs,
             \/ \E pc \in {"revoke", "poll"} : Ask(t, pc)
             \/ Paired(t) \/ Unanswered(t) \/ DialogEndsSession(t) \/ Reload(t)
      PROVE  PhoneIInv'
  BY <1>6, SimpleDialogKeeps, DialogEndsKeeps, ReloadKeeps
<1> QED
  BY <1>1, <1>2, <1>3, <1>4, <1>5, <1>6, SurroundingsKeep DEF PhoneNext

\* Whatever pages drain side by side, and whichever answers are lost: a share
\* that was reported as queued is queued or decided on, the queue keeps to its
\* limit, and a challenge is exchanged for one session (app.js drainQueue,
\* shared.js enqueueSharesWithLimits, application/auth.py exchange).
THEOREM PhoneSafety == PhoneSpec => []PhoneInv
<1>1. PhoneInit => PhoneIInv
  BY PhoneAssumption, PhoneStarts
<1>2. PhoneIInv /\ [PhoneNext]_phoneVars => PhoneIInv'
  BY PhoneAssumption, PhoneGoesOn
<1>3. PhoneIInv => PhoneInv
  BY DEF PhoneIInv
<1> QED
  BY <1>1, <1>2, <1>3, PTL DEF PhoneSpec

\* A finalization takes from the slot only the bearer it was started for.
LEMMA EndingTakes ==
  ASSUME NEW t \in Tabs
  PROVE  \A f : EndSession(t, f) =>
           slot' = slot \/ (f.pc = "clear" /\ slot = f.invalid)
  BY DEF EndSession, ClearSlot

\* The slot changes only for a bearer that is dead, or for a note that was
\* posted without one.
Taken ==
  \/ slot' = slot \/ slot \notin live
  \/ \E t \in Tabs : /\ drain[t].flow.pc = "clear"
                     /\ drain[t].flow.with = NoSession
                     /\ drain[t].flow.invalid = slot

\* So every step treats the slot.
LEMMA SlotIsTaken ==
  ASSUME PhoneAssumption, PhoneIInv, PhoneNext
  PROVE  Taken
<1>1. ASSUME NEW t \in Tabs, DrainEndsSession(t) PROVE Taken
  BY <1>1, PageKnown, EndingTakes DEF DrainEndsSession, Page, Taken
<1>2. ASSUME NEW t \in Tabs, DialogEndsSession(t) PROVE Taken
  BY <1>2, PageKnown, EndingTakes DEF DialogEndsSession, Page, Taken
<1>3. ASSUME NEW t \in Tabs, NEW flag \in BOOLEAN, Persist(t, flag) PROVE Taken
  <2>1. NoSession \notin live
    BY PageKnown DEF ServerOK, PhoneAssumption
  <2> QED
    BY <1>3, <2>1 DEF Persist, Taken
<1>4. UNCHANGED slot => Taken
  BY DEF Taken
<1>5. ASSUME NEW t \in Tabs, NEW s \in Shares,
             \/ UploadUnauthorized(t, s)
             \/ \E lost \in BOOLEAN, answer \in {"accepted", "refused", "tooLarge", "trouble"} :
                  UploadAnswered(t, s, answer, lost)
      PROVE  UNCHANGED slot
  BY <1>5 DEF UploadUnauthorized, UploadAnswered
<1>6. ASSUME NEW t \in Tabs,
             \/ \E adding \in SUBSET Shares : CaptureInPage(t, adding)
             \/ StartDrain(t) \/ NextShare(t)
             \/ \E c \in Challenges, s \in Sessions, lost \in BOOLEAN : Pair(t, c, s, lost)
             \/ \E flag \in BOOLEAN : Answered(t, flag)
             \/ \E pc \in {"revoke", "poll"} : Ask(t, pc)
             \/ Paired(t) \/ Unanswered(t) \/ Reload(t)
      PROVE  UNCHANGED slot
  BY <1>6 DEF CaptureInPage, StartDrain, NextShare, Pair, Answered, Ask, Paired, Unanswered,
     Reload
<1>7. ASSUME \/ \E c \in Challenges : WrongCode(c)
             \/ \E s \in Sessions : Expire(s)
             \/ \E s \in Shares : AdmitShare(s) \/ QueueShare(s)
      PROVE  UNCHANGED slot
  BY <1>7 DEF WrongCode, Expire, AdmitShare, QueueShare
<1> QED
  BY <1>1, <1>2, <1>3, <1>4, <1>5, <1>6, <1>7 DEF PhoneNext

\* A live session is taken from the slot only by the answer to a note that was
\* posted without a bearer: a request that carried one answers for itself,
\* however late (app.js finalizeInvalidatedSession, shared.js
\* clearTokenIfMatches and setToken).
THEOREM PhoneBearersAnswer == PhoneSpec => BearersAnswerForThemselves
<1>1. PhoneInit => PhoneIInv
  BY PhoneAssumption, PhoneStarts
<1>2. PhoneIInv /\ [PhoneNext]_phoneVars => PhoneIInv'
  BY PhoneAssumption, PhoneGoesOn
<1>3. PhoneIInv /\ [PhoneNext]_phoneVars => [Taken]_phoneVars
  BY PhoneAssumption, SlotIsTaken
<1>4. BearersAnswerForThemselves <=> [][Taken]_phoneVars
  BY DEF BearersAnswerForThemselves, Taken
<1> QED
  BY <1>1, <1>2, <1>3, <1>4, PTL DEF PhoneSpec

-----------------------------------------------------------------------------
(* Analytics.  AnalyticsInv speaks of records only; that they are right needs *)
(* what every await of a collection relies on: its query was checked against  *)
(* a success that never changes, its credentials are those of the channel,    *)
(* and once the last day was seen every wanted metric covers the window.      *)

\* A query of a publication, as its durable success has it.
SoundQuery(q) ==
  /\ q \in Query /\ q.from < q.upto /\ q.effective <= q.from
  /\ success[q.publication] = [channel |-> q.channel, effective |-> q.effective]

\* An observation that can be trusted.
SoundObservation(o) ==
  /\ o \in Observation /\ SoundQuery(o.query) /\ o.at <= today
  /\ o.account = o.query.channel
  /\ \A m \in Returned(o) : /\ o.value[m] = o.query.upto - o.query.from
                            /\ o.query.upto <= o.at

\* Every metric the query asks for is reported up to the end of its window.
FullyReported(q) == \A m \in Wanted(q) : q.upto <= reported[q.publication][m]

\* What a collection may be doing ...
CollectorStates ==
  {NotCollecting} \cup [pc : {"health"}, query : Query]
    \cup [pc : {"observe"}, query : Query, service : Channels]
    \cup [pc : {"probe", "aggregate"}, query : Query, service : Channels, at : Days]
    \cup [pc : {"record"}, seen : Observation]

\* ... and what it relies on there.
Collecting(f) ==
  /\ f \in CollectorStates
  /\ f.pc \in {"health", "observe", "probe", "aggregate"} => SoundQuery(f.query)
  /\ f.pc \in {"probe", "aggregate"} =>
       /\ f.query.upto <= f.at /\ f.at <= today
       /\ Wanted(f.query) # {} /\ f.service = f.query.channel
  /\ f.pc = "aggregate" => FullyReported(f.query)
  /\ f.pc = "record" => SoundObservation(f.seen)

\* The clock, the successes, the remote reports.
Outside ==
  /\ today \in Days /\ account \in Channels
  /\ success \in [Publications -> [channel : Channels \cup {"none"}, effective : Days]]
  /\ reported \in [Publications -> [Supported -> Nat]]
  /\ \A p \in Publications : \A m \in Supported : reported[p][m] <= today
  /\ \A p \in Publications : success[p] # Unpublished => success[p].channel # "none"

\* The observations on record.
History ==
  /\ \A r \in records : /\ r \in [of : Observation, ingested : Days]
                        /\ SoundObservation(r.of)
                        /\ r.of.at <= r.ingested /\ r.ingested <= today
  /\ RecordedOnce

AnalyticsIInv ==
  /\ Outside /\ History
  /\ collector \in [Collectors -> CollectorStates]
  /\ \A c \in Collectors : Collecting(collector[c])

\* A report stops no earlier than all of its metrics, and no later than one.
LEMMA MinOfNat ==
  ASSUME NEW S \in SUBSET Nat, S # {}
  PROVE  Min(S) \in S /\ \A y \in S : Min(S) <= y
<1> DEFINE R == OpToRel(<, Nat)
<1>1. IsWellFoundedOn(R, Nat)
  BY NatLessThanWellFounded
<1>2. \A x, y \in Nat : x < y => <<x, y>> \in R
  BY DEF OpToRel
<1> HIDE DEF R
<1>3. \E x \in S : \A y \in S : ~ (<<y, x>> \in R)
  BY <1>1, WFMin
<1>4. PICK x \in S : \A y \in S : ~ (<<y, x>> \in R)
  BY <1>3
<1>5. \A y \in S : x \in Nat /\ y \in Nat /\ ~ (y < x)
  BY <1>2, <1>4
<1>6. \A y \in S : x <= y
  BY <1>5
<1> QED
  BY <1>6 DEF Min

\* What a collection keeps, by where it is.
LEMMA CollectionIs ==
  ASSUME NEW f \in CollectorStates
  PROVE  /\ f.pc \in {"idle", "health", "observe", "probe", "aggregate", "record"}
         /\ f.pc = "idle" <=> f = NotCollecting
         /\ f.pc = "health" => f \in [pc : {"health"}, query : Query]
         /\ f.pc = "observe" => f \in [pc : {"observe"}, query : Query, service : Channels]
         /\ f.pc \in {"probe", "aggregate"} =>
              f \in [pc : {"probe", "aggregate"}, query : Query, service : Channels, at : Days]
         /\ f.pc = "record" => f \in [pc : {"record"}, seen : Observation]
<1>1. CASE f = NotCollecting
  BY <1>1 DEF NotCollecting
<1>2. CASE f \in [pc : {"health"}, query : Query]
  BY <1>2 DEF NotCollecting
<1>3. CASE f \in [pc : {"observe"}, query : Query, service : Channels]
  BY <1>3 DEF NotCollecting
<1>4. CASE f \in [pc : {"probe", "aggregate"}, query : Query, service : Channels, at : Days]
  BY <1>4 DEF NotCollecting
<1>5. CASE f \in [pc : {"record"}, seen : Observation]
  BY <1>5 DEF NotCollecting
<1> QED
  BY <1>1, <1>2, <1>3, <1>4, <1>5 DEF CollectorStates

\* AnalyticsInv is what AnalyticsIInv says of the records.
LEMMA HistoryIsSound ==
  ASSUME AnalyticsAssumption, AnalyticsIInv
  PROVE  AnalyticsInv
<1>1. LastDay \in Nat /\ Days \subseteq Nat
  BY DEF AnalyticsAssumption, Days
<1>2. AnalyticsTypeOK
  <2>1. \A c \in Collectors : collector[c] # NotCollecting =>
          collector[c].pc \in {"health", "observe", "probe", "aggregate", "record"}
    BY DEF AnalyticsIInv, CollectorStates, NotCollecting
  <2>2. \A p \in Publications : \A m \in Supported : reported[p][m] \in 0 .. today
    BY <1>1 DEF AnalyticsIInv, Outside
  <2>3. \A r \in records : r.of \in Observation /\ r.ingested \in r.of.at .. today
    <3>1. ASSUME NEW r \in records PROVE r.of \in Observation /\ r.ingested \in r.of.at .. today
      <4>1. /\ r \in [of : Observation, ingested : Days]
            /\ r.of.at <= r.ingested /\ r.ingested <= today
        BY DEF AnalyticsIInv, History
      <4>2. r.of \in Observation /\ r.ingested \in Days /\ r.of.at \in Days
        BY <4>1 DEF Observation
      <4> QED
        BY <1>1, <4>1, <4>2 DEF AnalyticsIInv, Outside, Days
    <3> QED
      BY <3>1
  <2> QED
    BY <2>1, <2>2, <2>3 DEF AnalyticsTypeOK, AnalyticsIInv, Outside
<1>3. ASSUME NEW r \in records
      PROVE  /\ \A m \in Returned(r.of) : /\ r.of.value[m] = r.of.query.upto - r.of.query.from
                                         /\ r.of.query.upto <= r.of.at
             /\ r.of.account = success[r.of.query.publication].channel
             /\ success[r.of.query.publication].effective <= r.of.query.from
             /\ success[r.of.query.publication]
                  = [channel |-> r.of.query.channel, effective |-> r.of.query.effective]
  <2>1. SoundObservation(r.of) /\ SoundQuery(r.of.query)
    BY DEF AnalyticsIInv, History, SoundObservation
  <2>2. /\ r.of.account = r.of.query.channel /\ r.of.query.effective <= r.of.query.from
        /\ success[r.of.query.publication]
             = [channel |-> r.of.query.channel, effective |-> r.of.query.effective]
    BY <2>1 DEF SoundObservation, SoundQuery
  <2>3. /\ success[r.of.query.publication].channel = r.of.query.channel
        /\ success[r.of.query.publication].effective = r.of.query.effective
    BY <2>2
  <2> QED
    BY <2>1, <2>2, <2>3 DEF SoundObservation
<1>4. WindowIsFullyCounted /\ ReadFromItsChannel
  BY <1>3 DEF WindowIsFullyCounted, ReadFromItsChannel
<1>5. HistoryIsReadable
  BY <1>3 DEF HistoryIsReadable, HistoryReads
<1> QED
  BY <1>2, <1>4, <1>5 DEF AnalyticsInv, AnalyticsIInv, History

\* The surroundings move: time passes, reports grow, something is published.
SurroundingsGoOn ==
  /\ today <= today'
  /\ \A p \in Publications : success[p] # Unpublished => success'[p] = success[p]
  /\ \A p \in Publications : \A m \in Supported : reported[p][m] <= reported'[p][m]

\* What was sound stays sound.
LEMMA SoundStays ==
  ASSUME AnalyticsAssumption, Outside, Outside', SurroundingsGoOn
  PROVE  /\ \A q : SoundQuery(q) => SoundQuery(q)'
         /\ \A o : SoundObservation(o) => SoundObservation(o)'
         /\ \A f : Collecting(f) => Collecting(f)'
<1>1. /\ today \in Nat /\ today' \in Nat /\ today <= today' /\ LastDay \in Nat /\ Days \subseteq Nat
  BY DEF Outside, SurroundingsGoOn, Days, AnalyticsAssumption
<1>2. ASSUME NEW q, SoundQuery(q) PROVE SoundQuery(q)'
  <2>1. /\ q \in Query /\ q.publication \in Publications /\ q.channel \in Channels
        /\ success[q.publication] = [channel |-> q.channel, effective |-> q.effective]
    BY <1>2 DEF SoundQuery, Query
  <2>2. success[q.publication].channel = q.channel
    BY <2>1
  <2>3. success[q.publication] # Unpublished
    BY <2>1, <2>2 DEF Unpublished, Channels
  <2>4. success'[q.publication] = success[q.publication]
    BY <2>1, <2>3 DEF SurroundingsGoOn
  <2> QED
    BY <1>2, <2>4 DEF SoundQuery
<1>3. ASSUME NEW o, SoundObservation(o) PROVE SoundObservation(o)'
  <2>1. o.at \in Nat /\ o.at <= today /\ SoundQuery(o.query)'
    BY <1>1, <1>2, <1>3 DEF SoundObservation, Observation
  <2>2. o.at <= today'
    BY <1>1, <2>1
  <2> QED
    BY <1>3, <2>1, <2>2 DEF SoundObservation
<1>4. ASSUME NEW q, FullyReported(q), SoundQuery(q) PROVE FullyReported(q)'
  <2>1. q.publication \in Publications /\ q.upto \in Nat
    BY <1>1, <1>4 DEF SoundQuery, Query
  <2>2. ASSUME NEW m \in Wanted(q) PROVE q.upto <= reported'[q.publication][m]
    <3>1. m \in Supported
      BY DEF Wanted
    <3>2. /\ reported[q.publication][m] \in Nat /\ reported'[q.publication][m] \in Nat
          /\ reported[q.publication][m] <= reported'[q.publication][m]
      BY <2>1, <3>1 DEF Outside, SurroundingsGoOn
    <3>3. q.upto <= reported[q.publication][m]
      BY <1>4 DEF FullyReported
    <3> QED
      BY <2>1, <3>2, <3>3
  <2> QED
    BY <2>2 DEF FullyReported, Wanted
<1>5. ASSUME NEW f, Collecting(f) PROVE Collecting(f)'
  <2>1. f.pc \in {"health", "observe", "probe", "aggregate"} => SoundQuery(f.query)'
    BY <1>2, <1>5 DEF Collecting
  <2>2. f.pc \in {"probe", "aggregate"} =>
       /\ f.query.upto <= f.at /\ f.at <= today'
       /\ Wanted(f.query) # {} /\ f.service = f.query.channel
    <3>1. ASSUME f.pc \in {"probe", "aggregate"} PROVE f.at \in Nat
      <4>1. f \in [pc : {"probe", "aggregate"}, query : Query, service : Channels, at : Days]
        BY <1>5, <3>1, CollectionIs DEF Collecting
      <4> QED
        BY <1>1, <4>1
    <3> QED
      BY <1>1, <1>5, <3>1 DEF Collecting
  <2>3. f.pc = "aggregate" => FullyReported(f.query)'
    BY <1>4, <1>5 DEF Collecting
  <2>4. f.pc = "record" => SoundObservation(f.seen)'
    BY <1>3, <1>5 DEF Collecting
  <2> QED
    BY <1>5, <2>1, <2>2, <2>3, <2>4 DEF Collecting, Wanted
<1> QED
  BY <1>2, <1>3, <1>5

\* Only the surroundings move: everything that was sound stays so.
LEMMA SurroundingsMove ==
  ASSUME AnalyticsAssumption, AnalyticsIInv, Outside', SurroundingsGoOn,
         UNCHANGED <<collector, records>>
  PROVE  AnalyticsIInv'
<1>1. \A c \in Collectors : Collecting(collector[c])'
  BY SoundStays DEF AnalyticsIInv
<1>2. \A r \in records : SoundObservation(r.of)' /\ r.ingested <= today'
  <2>1. ASSUME NEW r \in records PROVE r.ingested <= today'
    <3>1. r.ingested \in Nat /\ today \in Nat /\ today' \in Nat /\ r.ingested <= today
      BY DEF AnalyticsIInv, History, Outside, Days, AnalyticsAssumption
    <3> QED
      BY <3>1 DEF SurroundingsGoOn
  <2> QED
    BY <2>1, SoundStays DEF AnalyticsIInv, History
<1>3. History'
  BY <1>2 DEF AnalyticsIInv, History, RecordedOnce
<1> QED
  BY <1>1, <1>3 DEF AnalyticsIInv

\* Time passes, a publication succeeds, a report grows, the token changes.
LEMMA OutsideKeeps ==
  ASSUME AnalyticsAssumption, AnalyticsIInv,
         \/ NextDay
         \/ \E p \in Publications : Published(p) \/ \E m \in Supported : ReportDay(p, m)
         \/ \E ch \in Channels : Authorize(ch)
         \/ UNCHANGED analyticsVars
  PROVE  AnalyticsIInv'
<1>1. Outside /\ today \in Nat /\ LastDay \in Nat
  BY DEF AnalyticsIInv, Outside, Days, AnalyticsAssumption
<1>2. /\ UNCHANGED <<collector, records>>
  BY DEF NextDay, Published, ReportDay, Authorize, analyticsVars
<1>3. Outside' /\ SurroundingsGoOn
  <2>1. CASE NextDay
    <3>1. /\ today < LastDay /\ today' = today + 1 /\ UNCHANGED <<account, success, reported>>
      BY <2>1 DEF NextDay
    <3>2. today' \in Days /\ today <= today'
      BY <1>1, <3>1 DEF Days
    <3>3. ASSUME NEW p \in Publications, NEW m \in Supported
          PROVE  reported[p][m] \in Nat /\ reported[p][m] <= today'
      <4>1. reported[p][m] \in Nat /\ reported[p][m] <= today
        BY <1>1 DEF Outside
      <4> QED
        BY <1>1, <3>1, <4>1
    <3> QED
      BY <1>1, <3>1, <3>2, <3>3 DEF Outside, SurroundingsGoOn
  <2>2. ASSUME NEW p \in Publications, Published(p) PROVE Outside' /\ SurroundingsGoOn
    <3>1. PICK ch \in Channels, day \in today .. LastDay :
            success' = [success EXCEPT ![p] = [channel |-> ch, effective |-> day]]
      BY <2>2 DEF Published
    <3>2. day \in Days /\ ch # "none"
      BY <1>1 DEF Days, Channels
    <3> DEFINE v == [channel |-> ch, effective |-> day]
    <3>3. v \in [channel : Channels \cup {"none"}, effective : Days] /\ v.channel # "none"
      BY <3>2
    <3> HIDE DEF v
    <3>4. success' = [success EXCEPT ![p] = v]
      BY <3>1 DEF v
    <3>5. success[p] = Unpublished /\ UNCHANGED <<today, account, reported>>
      BY <2>2 DEF Published
    <3>6. \A m \in Supported : \A q \in Publications : reported[q][m] \in Nat
      BY <1>1 DEF Outside
    <3>7. Outside'
      BY <1>1, <3>3, <3>4, <3>5 DEF Outside
    <3>8. SurroundingsGoOn
      BY <1>1, <3>4, <3>5, <3>6 DEF SurroundingsGoOn, Outside
    <3> QED
      BY <3>7, <3>8
  <2>3. ASSUME NEW p \in Publications, NEW m \in Supported, ReportDay(p, m)
        PROVE  Outside' /\ SurroundingsGoOn
    <3>1. /\ reported[p][m] < today /\ UNCHANGED <<today, account, success>>
          /\ reported' = [reported EXCEPT ![p][m] = reported[p][m] + 1]
      BY <2>3 DEF ReportDay
    <3>2. \A q \in Publications : \A k \in Supported :
            reported[q][k] \in Nat /\ reported[q][k] <= today
      BY <1>1 DEF Outside
    <3>3. reported' \in [Publications -> [Supported -> Nat]]
      BY <1>1, <3>1, <3>2 DEF Outside
    <3>4. ASSUME NEW q \in Publications, NEW k \in Supported
          PROVE  reported'[q][k] <= today /\ reported[q][k] <= reported'[q][k]
      <4>1. CASE q = p /\ k = m
        <5>1. reported'[q][k] = reported[p][m] + 1
          BY <1>1, <3>1, <4>1 DEF Outside
        <5> QED
          BY <1>1, <3>1, <3>2, <4>1, <5>1
      <4>2. CASE ~ (q = p /\ k = m)
        <5>1. reported'[q][k] = reported[q][k]
          BY <1>1, <3>1, <4>2 DEF Outside
        <5> QED
          BY <1>1, <3>2, <5>1
      <4> QED
        BY <4>1, <4>2
    <3> QED
      BY <1>1, <3>1, <3>3, <3>4 DEF Outside, SurroundingsGoOn
  <2>4. ASSUME account' \in Channels, UNCHANGED <<today, success, reported>>
        PROVE  Outside' /\ SurroundingsGoOn
    <3>1. \A q \in Publications : \A k \in Supported : reported[q][k] \in Nat
      BY <1>1 DEF Outside
    <3> QED
      BY <1>1, <2>4, <3>1 DEF Outside, SurroundingsGoOn
  <2> QED
    BY <1>1, <2>1, <2>2, <2>3, <2>4 DEF Authorize, analyticsVars, Outside
<1> QED
  BY <1>2, <1>3, SurroundingsMove

\* A collection goes on with what it may rely on.
LEMMA CollectionMoves ==
  ASSUME AnalyticsAssumption, AnalyticsIInv, NEW c \in Collectors, UNCHANGED records
  PROVE  \A f : Move(c, f) /\ Collecting(f) => AnalyticsIInv'
<1> SUFFICES ASSUME NEW f, Move(c, f), Collecting(f) PROVE AnalyticsIInv'
  OBVIOUS
<1>1. /\ UNCHANGED <<today, account, success, reported>>
      /\ collector' = [collector EXCEPT ![c] = f]
  BY DEF Move
<1>2. Outside /\ Outside' /\ SurroundingsGoOn
  <2>1. today \in Nat /\ \A p \in Publications : \A m \in Supported : reported[p][m] \in Nat
    BY DEF AnalyticsIInv, Outside, Days, AnalyticsAssumption
  <2> QED
    BY <1>1, <2>1 DEF AnalyticsIInv, Outside, SurroundingsGoOn
<1>3. \A g : Collecting(g) => Collecting(g)'
  BY <1>2, SoundStays
<1>4. collector' \in [Collectors -> CollectorStates]
  BY <1>1 DEF AnalyticsIInv, Collecting
<1>5. \A d \in Collectors : collector'[d] = f \/ collector'[d] = collector[d]
  BY <1>1 DEF AnalyticsIInv
<1>6. \A d \in Collectors : Collecting(collector[d])'
  <2>1. \A d \in Collectors : Collecting(collector'[d])
    BY <1>5 DEF AnalyticsIInv
  <2> QED
    BY SMTT(30), <1>1, <2>1 DEF Collecting, SoundQuery, SoundObservation, FullyReported
<1>7. History'
  BY <1>1 DEF AnalyticsIInv, History, SoundObservation, SoundQuery, RecordedOnce
<1> QED
  BY <1>2, <1>4, <1>6, <1>7 DEF AnalyticsIInv

\* A collector that has nothing to do relies on nothing.
LEMMA IdleIsSound == Collecting(NotCollecting) /\ NotCollecting.pc = "idle"
  BY DEF Collecting, CollectorStates, NotCollecting

\* A query is checked against the durable success of its publication.
LEMMA InquireKeeps ==
  ASSUME AnalyticsAssumption, AnalyticsIInv, NEW c \in Collectors, Inquire(c)
  PROVE  AnalyticsIInv'
<1>1. PICK p \in Publications, from \in Days, upto \in Days, M \in (SUBSET Metrics) \ {{}} :
        /\ success[p] # Unpublished /\ from < upto /\ success[p].effective <= from
        /\ Move(c, [pc |-> "health",
                    query |-> [publication |-> p, channel |-> success[p].channel,
                               effective |-> success[p].effective,
                               from |-> from, upto |-> upto, metrics |-> M]])
  BY DEF Inquire
<1> DEFINE q == [publication |-> p, channel |-> success[p].channel,
                 effective |-> success[p].effective, from |-> from, upto |-> upto, metrics |-> M]
           f == [pc |-> "health", query |-> q]
<1>2. /\ success[p] \in [channel : Channels \cup {"none"}, effective : Days]
      /\ success[p].channel # "none"
  BY <1>1 DEF AnalyticsIInv, Outside
<1>3. /\ q \in Query /\ q.from = from /\ q.upto = upto /\ q.publication = p
      /\ q.channel = success[p].channel /\ q.effective = success[p].effective
  BY <1>2 DEF Query
<1>4. success[p] = [channel |-> success[p].channel, effective |-> success[p].effective]
  BY <1>2
<1> HIDE DEF q
<1>5. SoundQuery(q)
  BY <1>1, <1>3, <1>4 DEF SoundQuery
<1>6. f \in [pc : {"health"}, query : Query] /\ f.pc = "health" /\ f.query = q
  BY <1>3
<1> HIDE DEF f
<1>7. Collecting(f)
  BY <1>5, <1>6 DEF Collecting, CollectorStates
<1>8. Move(c, f) /\ UNCHANGED records
  BY <1>1 DEF Inquire, f, q
<1> QED
  BY <1>7, <1>8, CollectionMoves

\* The credentials are those of the channel the health check saw.
LEMMA HealthKeeps ==
  ASSUME AnalyticsAssumption, AnalyticsIInv, NEW c \in Collectors, Health(c)
  PROVE  AnalyticsIInv'
<1> DEFINE q == collector[c].query
           f == [pc |-> "observe", query |-> q, service |-> account]
<1>1. /\ collector[c].pc = "health" /\ UNCHANGED records
      /\ Move(c, f) \/ Move(c, NotCollecting)
  BY DEF Health
<1>2. SoundQuery(q) /\ q \in Query /\ account \in Channels
  BY <1>1 DEF AnalyticsIInv, Collecting, SoundQuery, Outside
<1> HIDE DEF q
<1>3. f \in [pc : {"observe"}, query : Query, service : Channels] /\ f.pc = "observe" /\ f.query = q
  BY <1>2
<1> HIDE DEF f
<1>4. Collecting(f)
  BY <1>2, <1>3 DEF Collecting, CollectorStates
<1> QED
  BY <1>1, <1>4, CollectionMoves, IdleIsSound

\* An observation without numbers needs no reports.
LEMMA UnavailableIsSound ==
  ASSUME AnalyticsAssumption, Outside, NEW at \in Days, at <= today
  PROVE  \A q : SoundQuery(q) =>
           Collecting([pc |-> "record", seen |-> Unavailable(q, at, q.channel)])
<1> SUFFICES ASSUME NEW q, SoundQuery(q)
             PROVE  Collecting([pc |-> "record", seen |-> Unavailable(q, at, q.channel)])
  OBVIOUS
<1> DEFINE v == [m \in {} |-> 0]
           o == Unavailable(q, at, q.channel)
           f == [pc |-> "record", seen |-> o]
<1>1. q \in Query /\ q.metrics \subseteq Metrics /\ q.channel \in Channels
  BY DEF SoundQuery, Query
<1>2. v \in UNION {[R -> Days] : R \in SUBSET Supported} /\ DOMAIN v = {}
  <2>1. v \in [{} -> Days] /\ {} \in SUBSET Supported
    OBVIOUS
  <2> QED
    BY <2>1
<1> HIDE DEF v
<1>3. /\ o \in Observation /\ o.query = q /\ o.at = at /\ o.account = q.channel /\ o.value = v
  BY <1>1, <1>2 DEF Unavailable, Observation, v
<1> HIDE DEF o
<1>4. SoundObservation(o)
  BY <1>2, <1>3 DEF SoundObservation, Returned
<1>5. f \in [pc : {"record"}, seen : Observation] /\ f.pc = "record" /\ f.seen = o
  BY <1>3
<1> HIDE DEF f
<1>6. Collecting(f)
  BY <1>4, <1>5 DEF Collecting, CollectorStates
<1> QED
  BY <1>6 DEF f, o

\* The first tests of observe.
LEMMA ObserveKeeps ==
  ASSUME AnalyticsAssumption, AnalyticsIInv, NEW c \in Collectors, Observe(c)
  PROVE  AnalyticsIInv'
<1> DEFINE q == collector[c].query
           s == collector[c].service
           f == [pc |-> "probe", query |-> q, service |-> s, at |-> today]
           g == [pc |-> "record", seen |-> Unavailable(q, today, s)]
<1>1. /\ collector[c].pc = "observe" /\ UNCHANGED records
      /\ \/ Move(c, NotCollecting)
         \/ q.channel = s /\ Move(c, g)
         \/ q.channel = s /\ ~ (today < q.upto \/ Wanted(q) = {}) /\ Move(c, f)
  BY DEF Observe
<1>2. /\ SoundQuery(q) /\ q \in Query /\ s \in Channels /\ Outside
      /\ today \in Days /\ today \in Nat /\ q.upto \in Nat
  <2>1. collector[c] \in [pc : {"observe"}, query : Query, service : Channels]
    BY <1>1, CollectionIs DEF AnalyticsIInv
  <2>2. SoundQuery(q) /\ Outside
    BY <1>1 DEF AnalyticsIInv, Collecting
  <2>3. today \in Days /\ q.upto \in Days /\ Days \subseteq Nat
    BY <2>1 DEF AnalyticsIInv, Outside, Query, Days, AnalyticsAssumption
  <2> QED
    BY <2>1, <2>2, <2>3
<1> HIDE DEF q, s
<1>3. ASSUME q.channel = s PROVE Collecting(g)
  BY <1>2, <1>3, UnavailableIsSound
<1>4. ASSUME q.channel = s, ~ (today < q.upto \/ Wanted(q) = {}) PROVE Collecting(f)
  <2>1. /\ f \in [pc : {"probe", "aggregate"}, query : Query, service : Channels, at : Days]
        /\ f.pc = "probe" /\ f.query = q /\ f.service = s /\ f.at = today
    BY <1>2
  <2>2. q.upto <= today
    BY <1>2, <1>4
  <2> HIDE DEF f
  <2> QED
    BY <1>2, <1>4, <2>1, <2>2 DEF Collecting, CollectorStates
<1> HIDE DEF f, g
<1> QED
  BY <1>1, <1>3, <1>4, CollectionMoves, IdleIsSound

\* A day that the report reaches is reported for every metric asked for.
LEMMA ReachIsMin ==
  ASSUME Outside
  PROVE  \A q : SoundQuery(q) /\ Wanted(q) # {} =>
           /\ Reach(q) \in Nat
           /\ \A m \in Wanted(q) : Reach(q) <= reported[q.publication][m]
           /\ \E m \in Wanted(q) : Reach(q) = reported[q.publication][m]
<1> SUFFICES ASSUME NEW q, SoundQuery(q), Wanted(q) # {}
             PROVE  /\ Reach(q) \in Nat
                    /\ \A m \in Wanted(q) : Reach(q) <= reported[q.publication][m]
                    /\ \E m \in Wanted(q) : Reach(q) = reported[q.publication][m]
  OBVIOUS
<1> DEFINE S == {reported[q.publication][m] : m \in Wanted(q)}
<1>1. \A m \in Wanted(q) : reported[q.publication][m] \in Nat
  BY DEF SoundQuery, Query, Outside, Wanted
<1>2. S \in SUBSET Nat /\ S # {}
  BY <1>1
<1>3. Min(S) \in S /\ \A y \in S : Min(S) <= y
  <2> HIDE DEF S
  <2> QED
    BY <1>2, MinOfNat
<1> QED
  BY <1>1, <1>3 DEF Reach

\* The rows of the daily coverage are in: the last day of the window was there
\* for every metric, so all its days are.
LEMMA ProbeKeeps ==
  ASSUME AnalyticsAssumption, AnalyticsIInv, NEW c \in Collectors, ProbeDays(c)
  PROVE  AnalyticsIInv'
<1> DEFINE f == collector[c]
           q == f.query
           a == [f EXCEPT !.pc = "aggregate"]
           g == [pc |-> "record", seen |-> Unavailable(q, f.at, f.service)]
<1>1. /\ f.pc = "probe" /\ UNCHANGED records
      /\ \/ Move(c, g)
         \/ q.upto - 1 \in DaysReported(q) /\ Move(c, a)
  BY DEF ProbeDays, Covers
<1>2. /\ SoundQuery(q) /\ Outside /\ q.upto <= f.at /\ f.at <= today
      /\ Wanted(q) # {} /\ f.service = q.channel
      /\ f \in [pc : {"probe", "aggregate"}, query : Query, service : Channels, at : Days]
  BY <1>1, CollectionIs DEF AnalyticsIInv, Collecting
<1>3. q.upto \in Nat /\ f.at \in Days
  BY <1>2 DEF Query, Days, AnalyticsAssumption
<1> HIDE DEF f
<1>4. Collecting(g)
  BY <1>2, <1>3, UnavailableIsSound
<1>5. ASSUME q.upto - 1 \in DaysReported(q) PROVE FullyReported(q)
  <2>1. /\ Reach(q) \in Nat /\ q.upto - 1 < Reach(q)
        /\ \A m \in Wanted(q) : Reach(q) <= reported[q.publication][m]
    BY <1>2, <1>5, ReachIsMin DEF DaysReported
  <2>2. \A m \in Wanted(q) : reported[q.publication][m] \in Nat
    BY <1>2 DEF SoundQuery, Query, Outside, Wanted
  <2> QED
    BY <1>3, <2>1, <2>2 DEF FullyReported
<1>6. ASSUME FullyReported(q) PROVE Collecting(a)
  <2>1. /\ a \in [pc : {"probe", "aggregate"}, query : Query, service : Channels, at : Days]
        /\ a.pc = "aggregate" /\ a.query = q /\ a.at = f.at /\ a.service = f.service
    BY <1>2
  <2> HIDE DEF a
  <2>2. a \in CollectorStates
    BY <2>1 DEF CollectorStates
  <2> QED
    BY <1>2, <1>6, <2>1, <2>2 DEF Collecting
<1> HIDE DEF a, g, q
<1> QED
  BY <1>1, <1>4, <1>5, <1>6, CollectionMoves

\* The aggregate sums up every day of the window.
LEMMA AggregateKeeps ==
  ASSUME AnalyticsAssumption, AnalyticsIInv, NEW c \in Collectors, Aggregate(c)
  PROVE  AnalyticsIInv'
<1> DEFINE f == collector[c]
           q == f.query
           n == Cardinality(DaysReported(q))
<1>1. f.pc = "aggregate" /\ UNCHANGED records
  BY DEF Aggregate
<1>2. PICK R \in SUBSET Wanted(q) :
        Move(c, [pc |-> "record",
                 seen |-> [query |-> q, at |-> f.at, account |-> f.service,
                           value |-> [m \in R |-> n], missing |-> q.metrics \ R]])
  BY DEF Aggregate
<1>3. /\ SoundQuery(q) /\ Outside /\ q.upto <= f.at /\ f.at <= today /\ FullyReported(q)
      /\ Wanted(q) # {} /\ f.service = q.channel
      /\ f \in [pc : {"probe", "aggregate"}, query : Query, service : Channels, at : Days]
  BY <1>1, CollectionIs DEF AnalyticsIInv, Collecting
<1>4. /\ f.at \in Days /\ q \in Query /\ q.from \in Nat /\ q.upto \in Nat /\ q.from < q.upto
      /\ q.metrics \subseteq Metrics /\ q.channel \in Channels /\ q.upto \in Days /\ LastDay \in Nat
  BY <1>3 DEF SoundQuery, Query, Days, AnalyticsAssumption
<1> HIDE DEF f, q
<1>5. n = q.upto - q.from /\ n \in Days
  <2>1. Reach(q) \in Nat /\ q.upto <= Reach(q)
    BY <1>3, ReachIsMin DEF FullyReported
  <2>2. DaysReported(q) = q.from .. q.upto - 1
    BY <1>4, <2>1 DEF DaysReported
  <2>3. Cardinality(q.from .. q.upto - 1) = q.upto - q.from
    BY SMTT(30), <1>4, FS_Interval
  <2> QED
    BY <1>4, <2>2, <2>3 DEF Days
<1> HIDE DEF n
<1> DEFINE v == [m \in R |-> n]
           o == [query |-> q, at |-> f.at, account |-> f.service,
                 value |-> v, missing |-> q.metrics \ R]
           g == [pc |-> "record", seen |-> o]
<1>6. /\ v \in UNION {[S -> Days] : S \in SUBSET Supported} /\ DOMAIN v = R
      /\ \A m \in R : v[m] = n
  <2>1. R \in SUBSET Supported /\ v \in [R -> Days]
    BY <1>5 DEF Wanted
  <2> QED
    BY <2>1
<1> HIDE DEF v
<1>7. /\ o \in Observation /\ o.query = q /\ o.at = f.at /\ o.account = f.service /\ o.value = v
  BY <1>3, <1>4, <1>6 DEF Observation
<1> HIDE DEF o
<1>8. SoundObservation(o)
  BY <1>3, <1>5, <1>6, <1>7 DEF SoundObservation, Returned
<1>9. g \in [pc : {"record"}, seen : Observation] /\ g.pc = "record" /\ g.seen = o
  BY <1>7
<1> HIDE DEF g
<1>10. Collecting(g)
  BY <1>8, <1>9 DEF Collecting, CollectorStates
<1>11. Move(c, g)
  BY <1>2 DEF g, o, v
<1> QED
  BY <1>1, <1>10, <1>11, CollectionMoves

\* The observation goes on record, once.
LEMMA RecordKeeps ==
  ASSUME AnalyticsAssumption, AnalyticsIInv, NEW c \in Collectors, RecordObservation(c)
  PROVE  AnalyticsIInv'
<1> DEFINE o == collector[c].seen
           n == [of |-> o, ingested |-> today]
<1>1. /\ collector[c].pc = "record" /\ Move(c, NotCollecting)
      /\ records' = IF \E r \in records : r.of = o THEN records ELSE records \cup {n}
  BY DEF RecordObservation
<1>2. /\ SoundObservation(o) /\ Outside /\ History
      /\ today \in Days /\ o \in Observation
  BY <1>1 DEF AnalyticsIInv, Collecting, SoundObservation, Outside
<1> HIDE DEF o
<1>3. n \in [of : Observation, ingested : Days] /\ n.of = o /\ n.ingested = today
  BY <1>2
<1> HIDE DEF n
<1>4. /\ o.at <= today /\ today <= today
  BY <1>2 DEF SoundObservation, Days, AnalyticsAssumption
<1>5. /\ \A r \in records' : /\ r \in [of : Observation, ingested : Days]
                             /\ SoundObservation(r.of)
                             /\ r.of.at <= r.ingested /\ r.ingested <= today
      /\ \A r, s \in records' : r.of = s.of => r = s
  <2>1. CASE \E r \in records : r.of = o
    BY <1>1, <1>2, <2>1 DEF History, RecordedOnce
  <2>2. CASE ~ \E r \in records : r.of = o
    <3>1. records' = records \cup {n}
      BY <1>1, <2>2
    <3>2. ASSUME NEW r \in records'
          PROVE  /\ r \in [of : Observation, ingested : Days]
                 /\ SoundObservation(r.of)
                 /\ r.of.at <= r.ingested /\ r.ingested <= today
      <4>1. CASE r = n
        BY <1>2, <1>3, <1>4, <4>1
      <4>2. CASE r \in records
        BY <1>2, <4>2 DEF History
      <4> QED
        BY <3>1, <4>1, <4>2
    <3>3. \A r, s \in records' : r.of = s.of => r = s
      BY <1>2, <1>3, <2>2, <3>1 DEF History, RecordedOnce
    <3> QED
      BY <3>2, <3>3
  <2> QED
    BY <2>1, <2>2
<1>6. UNCHANGED <<today, account, success, reported>>
  BY <1>1 DEF Move
<1>7. History'
  BY <1>5, <1>6 DEF History, RecordedOnce, SoundObservation, SoundQuery
<1>8. collector' = [collector EXCEPT ![c] = NotCollecting]
  BY <1>1 DEF Move
<1>9. /\ collector' \in [Collectors -> CollectorStates]
      /\ \A d \in Collectors : Collecting(collector'[d])
  BY <1>8, IdleIsSound DEF AnalyticsIInv, CollectorStates
<1>10. \A d \in Collectors : Collecting(collector[d])'
  BY <1>6, <1>9 DEF Collecting, SoundQuery, SoundObservation, FullyReported
<1>11. Outside'
  BY <1>2, <1>6 DEF Outside
<1> QED
  BY <1>7, <1>9, <1>10, <1>11 DEF AnalyticsIInv

\* At the start nothing is collected or on record.
LEMMA AnalyticsStarts ==
  ASSUME AnalyticsAssumption, AnalyticsInit
  PROVE  AnalyticsIInv
<1>1. today \in Days /\ 0 \in Days /\ today = 0
  BY DEF AnalyticsInit, Days, AnalyticsAssumption
<1>2. success \in [Publications -> [channel : Channels \cup {"none"}, effective : Days]]
  BY <1>1 DEF AnalyticsInit, Unpublished
<1>3. Outside
  BY <1>1, <1>2 DEF AnalyticsInit, Outside
<1>4. History
  BY DEF AnalyticsInit, History, RecordedOnce
<1> QED
  BY <1>3, <1>4, IdleIsSound DEF AnalyticsInit, AnalyticsIInv, CollectorStates

\* Every step keeps what collections rely on.
LEMMA AnalyticsGoesOn ==
  ASSUME AnalyticsAssumption, AnalyticsIInv, [AnalyticsNext]_analyticsVars
  PROVE  AnalyticsIInv'
<1>1. ASSUME NEW c \in Collectors, GiveUp(c) PROVE AnalyticsIInv'
  BY <1>1, IdleIsSound, CollectionMoves DEF GiveUp
<1> QED
  BY <1>1, OutsideKeeps, InquireKeeps, HealthKeeps, ObserveKeeps, ProbeKeeps, AggregateKeeps,
     RecordKeeps DEF AnalyticsNext

\* Whatever remote reports grow between the probe and the aggregate, and for
\* whichever channel the token is authorized meanwhile: a number on record sums
\* up every day of a window that was over, read with the credentials of the
\* channel that holds the publication, and the history stays readable
\* (providers/youtube_analytics.py, storage/analytics.py).
THEOREM AnalyticsSafety == AnalyticsSpec => []AnalyticsInv
<1>1. AnalyticsInit => AnalyticsIInv
  BY AnalyticsAssumption, AnalyticsStarts
<1>2. AnalyticsIInv /\ [AnalyticsNext]_analyticsVars => AnalyticsIInv'
  BY AnalyticsAssumption, AnalyticsGoesOn
<1>3. AnalyticsIInv => AnalyticsInv
  BY AnalyticsAssumption, HistoryIsSound
<1> QED
  BY <1>1, <1>2, <1>3, PTL DEF AnalyticsSpec

-----------------------------------------------------------------------------
(* YouTubeUpload.  What is on YouTube is accounted for because of what the    *)
(* provider keeps on a thread between its calls: a prepared upload is the      *)
(* approved one, its service is the configured channel, and the thread that    *)
(* crossed the remote boundary is the only one that owns the running attempt.  *)

Busy == {"running", "uploaded", "verified"}

Standing ==
  [at : {"idle", "authenticated", "healthy", "ready", "running", "uploaded", "verified"},
   request : Requests \cup {Unset}, n : 0..MaxRetries, service : {"ours", "other", Unset},
   prepared : Resource \cup {Unset}, video : Nat]

World == [intact : BOOLEAN, token : {"ours", "other"}, clock : 0..MaxTime, restarts : 0..MaxRestarts]

UploadTyped ==
  /\ ask \in [Requests -> [when : {Unset} \cup (1..MaxTime), v2 : BOOLEAN]]
  /\ ledger \in [Requests -> Row] /\ uploader \in [Uploaders -> Standing]
  /\ remote \in Seq(Video) /\ began \in Seq(Attempt) /\ outside \in World

\* The body and the bytes a request was approved for.
AsAsked(b) == b.intact /\ b.when = ask[b.request].when /\ b.declared = ask[b.request].v2

\* What a thread holds, and what it relies on.
Thread(u) ==
  /\ u.service \in {"ours", Unset}
  /\ u.at # "idle" => u.request \in Requests
  /\ u.prepared # Unset => u.service = "ours" /\ AsAsked(u.prepared)
  /\ u.at \in Busy => ledger[u.request] = [state |-> "running", n |-> u.n]
  /\ u.at = "running" => \A i \in DOMAIN remote : remote[i].body.request # u.request
  /\ u.at \in {"uploaded", "verified"} =>
       u.video \in DOMAIN remote /\ remote[u.video].body.request = u.request
  /\ u.at = "verified" => remote[u.video].status = "processed"

\* A running attempt belongs to one thread.
Exclusive ==
  \A t, v \in Uploaders :
    (uploader[t].at \in Busy /\ uploader[v].at \in Busy
       /\ uploader[t].request = uploader[v].request) => t = v

\* The list has the newest attempt of every request that has one.
BeganAll ==
  /\ \A i \in DOMAIN began : ledger[began[i].request].state # "none"
  /\ \A r \in Requests : ledger[r].state # "none" =>
       \E i \in DOMAIN began : began[i] = [request |-> r, n |-> ledger[r].n]

UploadIInv ==
  /\ UploadTyped /\ RemoteIsAccountedFor /\ Exclusive /\ BeganAll
  /\ \A t \in Uploaders : Thread(uploader[t])

\* The greatest of some positions of a list.
LEMMA LastPosition ==
  ASSUME NEW n \in Nat, NEW S, S \subseteq 1..n, S # {}
  PROVE  \E k \in S : \A j \in S : j <= k
<1> DEFINE T == {n - j : j \in S}
<1>1. \A j \in S : j \in Nat /\ n - j \in Nat
  OBVIOUS
<1>2. T \in SUBSET Nat /\ T # {}
  BY <1>1
<1>3. Min(T) \in T /\ \A y \in T : Min(T) <= y
  <2> HIDE DEF T
  <2> QED
    BY <1>2, MinOfNat
<1>4. PICK k \in S : Min(T) = n - k
  BY <1>3
<1>5. \A j \in S : n - k <= n - j
  BY <1>3, <1>4
<1> QED
  BY <1>1, <1>5

\* An open or unknown outcome leads the list.
LEMMA RiskLeads ==
  ASSUME UploadIInv
  PROVE  RiskIsListedFirst
<1>1. /\ Len(began) \in Nat /\ DOMAIN began = 1..Len(began)
      /\ \A i \in DOMAIN began : began[i] \in Attempt
  BY LenProperties DEF UploadIInv, UploadTyped
<1> DEFINE P(i) == Priority[AttemptState(began[i])]
           At(s) == {i \in DOMAIN began : AttemptState(began[i]) = s}
<1>2. \A i \in DOMAIN began : AttemptState(began[i])
        \in {"prepared", "running", "succeeded", "failed", "unknown"}
  BY <1>1 DEF UploadIInv, UploadTyped, BeganAll, Row, Attempt, AttemptState
<1>3. \A i \in DOMAIN began :
        /\ P(i) \in 1..5
        /\ AttemptState(began[i]) = "unknown" <=> P(i) = 5
        /\ AttemptState(began[i]) = "running" <=> P(i) = 4
  BY <1>2 DEF Priority
<1>4. ASSUME NEW k \in DOMAIN began, \A j \in DOMAIN began : ~ Before(j, k), NEW limit \in 1..Len(began)
      PROVE  began[k] \in Listed(limit)
  <2>1. {j \in DOMAIN began : Before(j, k)} = {}
    BY <1>4
  <2>2. Cardinality({j \in DOMAIN began : Before(j, k)}) = 0 /\ limit \in Int /\ 0 < limit
    BY <1>1, <2>1, FS_EmptySet
  <2> QED
    BY <2>2 DEF Listed
<1>5. ASSUME NEW s \in {"unknown", "running"}, At(s) # {}, s = "running" => At("unknown") = {}
      PROVE  \E k \in DOMAIN began : AttemptState(began[k]) = s /\ \A j \in DOMAIN began : ~ Before(j, k)
  <2>1. At(s) \subseteq 1..Len(began)
    BY <1>1
  <2>2. PICK k \in At(s) : \A j \in At(s) : j <= k
    <3> HIDE DEF At
    <3> QED
      BY <1>1, <1>5, <2>1, LastPosition
  <2>3. ASSUME NEW j \in DOMAIN began PROVE ~ (P(j) > P(k) \/ (P(j) = P(k) /\ j > k))
    <3>1. P(j) \in 1..5 /\ P(k) \in 1..5 /\ j \in Nat /\ k \in Nat
      BY <1>1, <1>3, <2>2
    <3>2. P(j) <= P(k)
      <4>1. CASE s = "unknown"
        <5>1. P(k) = 5
          BY <1>3, <2>2, <4>1
        <5> HIDE DEF P
        <5> QED
          BY <3>1, <5>1
      <4>2. CASE s = "running"
        <5>1. P(k) = 4 /\ P(j) # 5
          BY <1>3, <1>5, <2>2, <4>2
        <5> HIDE DEF P
        <5> QED
          BY <3>1, <5>1
      <4> QED
        BY <4>1, <4>2
    <3>3. P(j) = P(k) => j <= k
      <4>1. ASSUME P(j) = P(k) PROVE j \in At(s)
        BY <1>3, <2>2, <4>1
      <4> QED
        BY <2>2, <4>1
    <3> HIDE DEF P
    <3> QED
      BY <3>1, <3>2, <3>3
  <2>4. k \in DOMAIN began /\ AttemptState(began[k]) = s
    BY <2>2
  <2>5. \A j \in DOMAIN began : ~ Before(j, k)
    BY <2>3 DEF Before
  <2> QED
    BY <2>4, <2>5
<1>6. ASSUME NEW r \in Requests, ledger[r].state \in {"running", "unknown"}
      PROVE  At("unknown") # {} \/ At("running") # {}
  <2>1. PICK i \in DOMAIN began : began[i] = [request |-> r, n |-> ledger[r].n]
    BY <1>6 DEF UploadIInv, BeganAll
  <2>2. AttemptState(began[i]) = ledger[r].state
    BY <2>1 DEF AttemptState
  <2> QED
    BY <1>6, <2>2
<1>7. ASSUME NEW limit \in 1..Len(began),
             \E r \in Requests : ledger[r].state \in {"running", "unknown"}
      PROVE  \E a \in Listed(limit) : AttemptState(a) \in {"running", "unknown"}
  <2>1. PICK k \in DOMAIN began : /\ AttemptState(began[k]) \in {"running", "unknown"}
                                  /\ \A j \in DOMAIN began : ~ Before(j, k)
    <3>1. CASE At("unknown") # {}
      BY <1>5, <3>1
    <3>2. CASE At("unknown") = {}
      BY <1>5, <1>6, <1>7, <3>2
    <3> QED
      BY <3>1, <3>2
  <2> QED
    BY <1>4, <2>1
<1> QED
  BY <1>7 DEF RiskIsListedFirst

\* Videos are added, and processed; they keep body and channel.
RemoteGrows ==
  /\ DOMAIN remote \subseteq DOMAIN remote'
  /\ \A i \in DOMAIN remote :
       /\ remote'[i].body = remote[i].body /\ remote'[i].channel = remote[i].channel
       /\ remote[i].status = "processed" => remote'[i].status = "processed"

\* The threads other than those in `movers` rely on what still holds.
LEMMA ThreadsKept ==
  ASSUME UploadIInv, UNCHANGED ask, RemoteGrows, NEW movers \in SUBSET Uploaders,
         \A v \in Uploaders \ movers :
           /\ uploader'[v] = uploader[v]
           /\ uploader[v].at \in Busy =>
                /\ ledger'[uploader[v].request] = ledger[uploader[v].request]
                /\ \A i \in (DOMAIN remote') \ DOMAIN remote :
                     remote'[i].body.request # uploader[v].request,
         \A t \in movers : Thread(uploader[t])'
  PROVE  \A t \in Uploaders : Thread(uploader[t])'
<1>1. ASSUME NEW v \in Uploaders \ movers PROVE Thread(uploader[v])'
  <2> DEFINE u == uploader[v]
  <2>1. Thread(u) /\ uploader'[v] = u
    BY DEF UploadIInv
  <2>2. u.at = "running" => \A i \in DOMAIN remote' : remote'[i].body.request # u.request
    BY <2>1 DEF Thread, Busy, RemoteGrows
  <2>3. u.at \in {"uploaded", "verified"} =>
          /\ u.video \in DOMAIN remote' /\ remote'[u.video].body.request = u.request
          /\ u.at = "verified" => remote'[u.video].status = "processed"
    BY <2>1 DEF Thread, RemoteGrows
  <2>4. u.at \in Busy => ledger'[u.request] = [state |-> "running", n |-> u.n]
    BY <2>1 DEF Thread
  <2>5. u.prepared # Unset => u.service = "ours" /\ AsAsked(u.prepared)'
    BY <2>1 DEF Thread, AsAsked
  <2> QED
    BY <2>1, <2>2, <2>3, <2>4, <2>5 DEF Thread
<1> QED
  BY <1>1

\* No video comes or goes: each is accounted for as before.
LEMMA VideosKept ==
  ASSUME UploadIInv, UNCHANGED ask, RemoteGrows, DOMAIN remote' = DOMAIN remote,
         \A r \in Requests :
           /\ ledger[r].state \in {"running", "succeeded", "unknown"} =>
                ledger'[r].state \in {"running", "succeeded", "unknown"}
           /\ ledger'[r].state = "succeeded" =>
                \/ ledger[r].state = "succeeded"
                \/ \E i \in DOMAIN remote :
                     remote[i].body.request = r /\ remote[i].status = "processed"
  PROVE  RemoteIsAccountedFor'
<1>1. RemoteIsAccountedFor /\ remote \in Seq(Video)
  BY DEF UploadIInv, UploadTyped
<1>2. \A i \in DOMAIN remote : remote[i].body.request \in Requests
  <2>1. remote \in [1..Len(remote) -> Video] /\ DOMAIN remote = 1..Len(remote)
    BY <1>1, LenProperties
  <2>2. \A i \in DOMAIN remote : remote[i] \in Video
    BY <2>1
  <2> QED
    BY <2>2 DEF Video, Resource
<1>3. ASSUME NEW i \in DOMAIN remote'
      PROVE  /\ remote'[i].body.intact /\ remote'[i].channel = "ours"
             /\ remote'[i].body.when = ask'[remote'[i].body.request].when
             /\ remote'[i].body.declared = ask'[remote'[i].body.request].v2
             /\ ledger'[remote'[i].body.request].state \in {"running", "succeeded", "unknown"}
             /\ \A j \in DOMAIN remote' : remote'[j].body.request = remote'[i].body.request => i = j
  BY <1>1, <1>2 DEF RemoteGrows, RemoteIsAccountedFor
<1>4. ASSUME NEW r \in Requests, ledger'[r].state = "succeeded"
      PROVE  \E i \in DOMAIN remote' : remote'[i].body.request = r /\ remote'[i].status = "processed"
  BY SMTT(30), <1>1, <1>4 DEF RemoteGrows, RemoteIsAccountedFor
<1> QED
  BY <1>3, <1>4 DEF RemoteIsAccountedFor

\* No request begins.
LEMMA BeganKept ==
  ASSUME UploadIInv, UNCHANGED began,
         \A r \in Requests :
           /\ (ledger'[r].state = "none") <=> (ledger[r].state = "none")
           /\ ledger'[r].n = ledger[r].n
  PROVE  BeganAll'
<1>1. \A i \in DOMAIN began : began[i].request \in Requests
  <2>1. \A i \in DOMAIN began : began[i] \in Attempt
    BY LenProperties DEF UploadIInv, UploadTyped
  <2> QED
    BY <2>1 DEF Attempt
<1>2. \A i \in DOMAIN began : ledger'[began[i].request].state # "none"
  BY <1>1 DEF BeganAll, UploadIInv
<1>3. ASSUME NEW r \in Requests, ledger'[r].state # "none"
      PROVE  \E i \in DOMAIN began : began[i] = [request |-> r, n |-> ledger'[r].n]
  <2>1. PICK i \in DOMAIN began : began[i] = [request |-> r, n |-> ledger[r].n]
    BY <1>3 DEF BeganAll, UploadIInv
  <2> QED
    BY <2>1
<1> QED
  BY <1>2, <1>3 DEF BeganAll

\* What is known of thread t.
LEMMA ThreadKnown ==
  ASSUME UploadIInv, NEW t \in Uploaders
  PROVE  /\ UploadTyped /\ Thread(uploader[t]) /\ uploader[t] \in Standing
         /\ uploader \in [Uploaders -> Standing] /\ ledger \in [Requests -> Row]
         /\ ask \in [Requests -> [when : {Unset} \cup (1..MaxTime), v2 : BOOLEAN]]
         /\ remote \in Seq(Video) /\ outside \in World
         /\ \A r \in Requests : ledger[r] \in Row
  BY DEF UploadIInv, UploadTyped

\* A thread that stays short of the remote boundary, or leaves it, claims no
\* attempt.
LEMMA StepsAside ==
  ASSUME UploadIInv, NEW t \in Uploaders
  PROVE  \A u \in Standing :
           Step(t, u) =>
             /\ uploader' \in [Uploaders -> Standing] /\ uploader'[t] = u
             /\ \A v \in Uploaders \ {t} : uploader'[v] = uploader[v]
             /\ (u.at \notin Busy
                   \/ (uploader[t].at \in Busy /\ u.request = uploader[t].request)) => Exclusive'
<1> SUFFICES ASSUME NEW u \in Standing, Step(t, u)
             PROVE  /\ uploader' \in [Uploaders -> Standing] /\ uploader'[t] = u
                    /\ \A v \in Uploaders \ {t} : uploader'[v] = uploader[v]
                    /\ (u.at \notin Busy
                          \/ (uploader[t].at \in Busy /\ u.request = uploader[t].request)) => Exclusive'
  OBVIOUS
<1>1. /\ uploader' \in [Uploaders -> Standing] /\ uploader'[t] = u
      /\ \A v \in Uploaders \ {t} : uploader'[v] = uploader[v]
  BY ThreadKnown DEF Step
<1>2. ASSUME u.at \notin Busy \/ (uploader[t].at \in Busy /\ u.request = uploader[t].request)
      PROVE  Exclusive'
  BY <1>1, <1>2 DEF UploadIInv, Exclusive
<1> QED
  BY <1>1, <1>2

\* One thread moves; no video comes; the ledger moves at most the request the
\* thread alone works on.
LEMMA ThreadMoves ==
  ASSUME UploadIInv, NEW t \in Uploaders, UNCHANGED <<ask, began, remote, outside>>,
         ledger' \in [Requests -> Row],
         \A v \in Uploaders \ {t} : uploader[v].at \in Busy =>
           ledger'[uploader[v].request] = ledger[uploader[v].request],
         \A r \in Requests :
           /\ (ledger'[r].state = "none") <=> (ledger[r].state = "none")
           /\ ledger'[r].n = ledger[r].n
           /\ ledger[r].state \in {"running", "succeeded", "unknown"} =>
                ledger'[r].state \in {"running", "succeeded", "unknown"}
           /\ ledger'[r].state = "succeeded" =>
                \/ ledger[r].state = "succeeded"
                \/ \E i \in DOMAIN remote :
                     remote[i].body.request = r /\ remote[i].status = "processed"
  PROVE  \A u \in Standing :
           /\ Step(t, u) /\ Thread(uploader[t])'
           /\ u.at \notin Busy \/ (uploader[t].at \in Busy /\ u.request = uploader[t].request)
           => UploadIInv'
<1> SUFFICES ASSUME NEW u \in Standing, Step(t, u), Thread(uploader[t])',
                    u.at \notin Busy \/ (uploader[t].at \in Busy /\ u.request = uploader[t].request)
             PROVE  UploadIInv'
  OBVIOUS
<1>1. /\ uploader' \in [Uploaders -> Standing] /\ Exclusive'
      /\ \A v \in Uploaders \ {t} : uploader'[v] = uploader[v]
  BY StepsAside
<1>2. RemoteGrows
  BY DEF RemoteGrows
<1>3. {t} \in SUBSET Uploaders
  OBVIOUS
<1>4. \A v \in Uploaders : Thread(uploader[v])'
  BY ZenonT(40), <1>1, <1>2, <1>3, ThreadsKept
<1>5. RemoteIsAccountedFor'
  BY <1>2, VideosKept
<1>6. BeganAll'
  BY BeganKept
<1>7. UploadTyped'
  BY <1>1 DEF UploadIInv, UploadTyped
<1> QED
  BY <1>1, <1>4, <1>5, <1>6, <1>7 DEF UploadIInv

\* The provider's thread state is cleared, replaced, or given back: a standing
\* away from the remote boundary.
LEMMA Aside ==
  ASSUME UploadIInv, NEW t \in Uploaders, UNCHANGED ask
  PROVE  \A u \in Standing :
           /\ u.at \notin Busy /\ (u.at # "idle" => u.request \in Requests)
           /\ u.service \in {"ours", Unset}
           /\ u.prepared # Unset => u.service = "ours" /\ AsAsked(u.prepared)
           /\ Step(t, u)
           => Thread(uploader[t])'
<1> SUFFICES ASSUME NEW u \in Standing, u.at \notin Busy, u.at # "idle" => u.request \in Requests,
                    u.service \in {"ours", Unset},
                    u.prepared # Unset => u.service = "ours" /\ AsAsked(u.prepared),
                    Step(t, u)
             PROVE  Thread(uploader[t])'
  OBVIOUS
<1>1. uploader'[t] = u
  BY StepsAside
<1> QED
  BY <1>1 DEF Thread, Busy, AsAsked

\* A thread without an attempt claims nothing.
LEMMA UnoccupiedStands ==
  ASSUME UploadAssumption
  PROVE  /\ Unoccupied \in Standing /\ Unoccupied.at = "idle" /\ Unoccupied.service = Unset
         /\ Unoccupied.prepared = Unset
  BY DEF Unoccupied, Standing, UploadAssumption

\* The ledger does not move.
LEMMA LedgerStays ==
  ASSUME UploadIInv, NEW t \in Uploaders, UNCHANGED <<ask, ledger, began, remote, outside>>
  PROVE  \A u \in Standing :
           /\ Step(t, u) /\ Thread(uploader[t])'
           /\ u.at \notin Busy \/ (uploader[t].at \in Busy /\ u.request = uploader[t].request)
           => UploadIInv'
  BY ThreadMoves, ThreadKnown

\* Health, preflight, a refused claim.
LEMMA BeforeBoundaryKeeps ==
  ASSUME UploadAssumption, UploadIInv, NEW t \in Uploaders,
         CheckHealth(t) \/ RunPreflight(t) \/ ClaimFails(t)
  PROVE  UploadIInv'
<1> DEFINE o == uploader[t]
<1>1. /\ Thread(o) /\ o \in Standing /\ UploadTyped /\ outside \in World
  BY ThreadKnown
<1>2. CASE CheckHealth(t)
  <2> DEFINE u == [Cleared(o) EXCEPT !.at = "healthy", !.service = outside.token]
  <2>1. /\ o.at = "authenticated" /\ outside.token = "ours" /\ Step(t, u)
        /\ UNCHANGED <<ask, ledger, began, remote, outside>>
    BY <1>2 DEF CheckHealth
  <2>2. /\ u \in Standing /\ u.at = "healthy" /\ u.request = o.request /\ u.service = "ours"
        /\ u.prepared = Unset
    BY <1>1, <2>1 DEF Cleared, Standing
  <2> HIDE DEF u
  <2>3. Thread(uploader[t])'
    BY <1>1, <2>1, <2>2, Aside DEF Busy, Thread
  <2> QED
    BY <2>1, <2>2, <2>3, LedgerStays DEF Busy
<1>3. CASE RunPreflight(t)
  <2> DEFINE b == Prepared(o.request, outside.intact)
             u == [o EXCEPT !.at = "ready", !.prepared = b]
  <2>1. /\ o.at = "healthy" /\ o.service # Unset /\ outside.intact /\ Step(t, u)
        /\ UNCHANGED <<ask, ledger, began, remote, outside>>
    BY <1>3 DEF RunPreflight, SnapshotIsApproved
  <2>2. o.request \in Requests /\ o.service = "ours"
    BY <1>1, <2>1 DEF Thread
  <2>3. /\ b \in Resource /\ b.request = o.request /\ b.intact
        /\ b.declared = ask[o.request].v2 /\ b.when = ask[o.request].when
    <3>1. ask[o.request] \in [when : {Unset} \cup (1..MaxTime), v2 : BOOLEAN] /\ outside.intact \in BOOLEAN
      BY <1>1, <2>2 DEF UploadTyped, World
    <3> QED
      BY <2>1, <2>2, <3>1 DEF Prepared, Resource
  <2> HIDE DEF b
  <2>4. AsAsked(b)
    BY <2>3 DEF AsAsked
  <2>5. /\ u \in Standing /\ u.at = "ready" /\ u.request = o.request /\ u.service = "ours"
        /\ u.prepared = b
    BY <1>1, <2>2, <2>3 DEF Standing
  <2> HIDE DEF u
  <2>6. Thread(uploader[t])'
    BY <2>1, <2>2, <2>4, <2>5, Aside DEF Busy
  <2> QED
    BY <2>1, <2>5, <2>6, LedgerStays DEF Busy
<1>4. CASE ClaimFails(t)
  <2>1. Step(t, Unoccupied) /\ UNCHANGED <<ask, ledger, began, remote, outside>>
    BY <1>4 DEF ClaimFails
  <2>2. Thread(uploader[t])'
    BY <2>1, UnoccupiedStands, Aside DEF Busy
  <2> QED
    BY <2>1, <2>2, UnoccupiedStands, LedgerStays DEF Busy
<1> QED
  BY <1>2, <1>3, <1>4

\* The attempt of a thread beyond the boundary is running.
LEMMA BusyIsRunning ==
  ASSUME UploadIInv
  PROVE  \A v \in Uploaders : uploader[v].at \in Busy =>
           uploader[v].request \in Requests /\ ledger[uploader[v].request].state = "running"
<1> SUFFICES ASSUME NEW v \in Uploaders, uploader[v].at \in Busy
             PROVE  uploader[v].request \in Requests /\ ledger[uploader[v].request].state = "running"
  OBVIOUS
<1>1. Thread(uploader[v])
  BY DEF UploadIInv
<1>2. /\ uploader[v].at # "idle"
      /\ ledger[uploader[v].request] = [state |-> "running", n |-> uploader[v].n]
  BY <1>1 DEF Thread, Busy
<1> QED
  BY <1>1, <1>2 DEF Thread

\* The ledger moves one request.
LEMMA RowMoves ==
  ASSUME UploadIInv, NEW r \in Requests, NEW row \in Row,
         ledger' = [ledger EXCEPT ![r] = row]
  PROVE  /\ ledger' \in [Requests -> Row] /\ ledger'[r] = row
         /\ \A q \in Requests \ {r} : ledger'[q] = ledger[q]
  BY DEF UploadIInv, UploadTyped

\* The row of the thread's request gets another state.
LEMMA MovedRow ==
  ASSUME UploadIInv, NEW t \in Uploaders, uploader[t].request \in Requests
  PROVE  \A to \in {"prepared", "running", "succeeded", "failed", "unknown"} :
           ledger' = Moved(t, to) =>
             /\ ledger' \in [Requests -> Row]
             /\ ledger'[uploader[t].request] = [state |-> to, n |-> ledger[uploader[t].request].n]
             /\ ledger'[uploader[t].request].state = to
             /\ ledger'[uploader[t].request].n = ledger[uploader[t].request].n
             /\ \A q \in Requests \ {uploader[t].request} : ledger'[q] = ledger[q]
<1> SUFFICES ASSUME NEW to \in {"prepared", "running", "succeeded", "failed", "unknown"},
                    ledger' = Moved(t, to)
             PROVE  /\ ledger' \in [Requests -> Row]
                    /\ ledger'[uploader[t].request] = [state |-> to, n |-> ledger[uploader[t].request].n]
                    /\ ledger'[uploader[t].request].state = to
                    /\ ledger'[uploader[t].request].n = ledger[uploader[t].request].n
                    /\ \A q \in Requests \ {uploader[t].request} : ledger'[q] = ledger[q]
  OBVIOUS
<1> DEFINE r == uploader[t].request
           row == [ledger[r] EXCEPT !.state = to]
<1>1. ledger[r] \in Row
  BY ThreadKnown
<1>2. row \in Row /\ row = [state |-> to, n |-> ledger[r].n] /\ row.state = to /\ row.n = ledger[r].n
  BY <1>1 DEF Row
<1>3. ledger' = [ledger EXCEPT ![r] = row]
  BY DEF Moved
<1> HIDE DEF row
<1> QED
  BY <1>2, <1>3, RowMoves

\* The attempt fails short of the boundary: what the thread keeps is as sound
\* as it was.
LEMMA FailedBeforeKeeps ==
  ASSUME UploadAssumption, UploadIInv, NEW t \in Uploaders, uploader[t].at \notin Busy \cup {"idle"}
  PROVE  \A kept \in Standing :
           /\ kept.service \in {"ours", Unset}
           /\ kept.prepared # Unset => kept.service = "ours" /\ AsAsked(kept.prepared)
           /\ FailedBefore(t, kept)
           => UploadIInv'
<1> SUFFICES ASSUME NEW kept \in Standing, kept.service \in {"ours", Unset},
                    kept.prepared # Unset => kept.service = "ours" /\ AsAsked(kept.prepared),
                    FailedBefore(t, kept)
             PROVE  UploadIInv'
  OBVIOUS
<1> DEFINE r == uploader[t].request
           u == [kept EXCEPT !.at = "idle", !.request = Unset, !.n = 0]
<1>1. /\ Step(t, u) /\ UNCHANGED <<ask, began, remote, outside>>
      /\ ledger' = ledger \/ (MayMove(t, "prepared") /\ ledger' = Moved(t, "failed"))
  BY DEF FailedBefore
<1>2. /\ u \in Standing /\ u.at = "idle" /\ u.service = kept.service /\ u.prepared = kept.prepared
  <2>1. 0 \in 0..MaxRetries
    BY DEF UploadAssumption
  <2> QED
    BY <2>1 DEF Standing
<1> HIDE DEF u
<1>3. Thread(uploader[t])'
  BY <1>1, <1>2, Aside DEF Busy
<1>4. CASE ledger' = ledger
  BY <1>1, <1>2, <1>3, <1>4, LedgerStays DEF Busy
<1>5. CASE MayMove(t, "prepared") /\ ledger' = Moved(t, "failed")
  <2>1. r \in Requests /\ ledger[r].state = "prepared"
    <3>1. Thread(uploader[t]) /\ uploader[t].at # "idle"
      BY ThreadKnown
    <3>2. ledger[r] = [state |-> "prepared", n |-> uploader[t].n]
      BY <1>5 DEF MayMove
    <3> QED
      BY <3>1, <3>2 DEF Thread
  <2>2. /\ ledger' \in [Requests -> Row] /\ ledger'[r].state = "failed" /\ ledger'[r].n = ledger[r].n
        /\ \A q \in Requests \ {r} : ledger'[q] = ledger[q]
    BY <1>5, <2>1, MovedRow
  <2>3. \A v \in Uploaders \ {t} : uploader[v].at \in Busy =>
           ledger'[uploader[v].request] = ledger[uploader[v].request]
    BY <2>1, <2>2, BusyIsRunning
  <2> QED
    BY <1>1, <1>2, <1>3, <2>1, <2>2, <2>3, ThreadMoves DEF Busy
<1> QED
  BY <1>1, <1>4, <1>5

\* Health or preflight fails: the attempt ends short of the boundary.
LEMMA FailuresKeep ==
  ASSUME UploadAssumption, UploadIInv, NEW t \in Uploaders, HealthFails(t) \/ PreflightFails(t)
  PROVE  UploadIInv'
<1>1. Thread(uploader[t]) /\ uploader[t] \in Standing
  BY ThreadKnown
<1>2. CASE HealthFails(t)
  <2> DEFINE k == Cleared(uploader[t])
  <2>1. k \in Standing /\ k.service = Unset /\ k.prepared = Unset
    BY <1>1 DEF Cleared, Standing
  <2>2. uploader[t].at \notin Busy \cup {"idle"} /\ FailedBefore(t, k)
    BY <1>2 DEF HealthFails, Busy
  <2> HIDE DEF k
  <2> QED
    BY <2>1, <2>2, FailedBeforeKeeps
<1>3. CASE PreflightFails(t)
  <2>1. uploader[t].at \notin Busy \cup {"idle"} /\ FailedBefore(t, uploader[t])
    BY <1>3 DEF PreflightFails, Busy
  <2> QED
    BY <1>1, <2>1, FailedBeforeKeeps DEF Thread
<1> QED
  BY <1>2, <1>3

\* The thread crosses the boundary: the attempt was prepared, so no thread owns
\* it and no video belongs to it.
LEMMA ClaimKeeps ==
  ASSUME UploadAssumption, UploadIInv, NEW t \in Uploaders, ClaimUpload(t)
  PROVE  UploadIInv'
<1> DEFINE o == uploader[t]
           r == o.request
           u == [o EXCEPT !.at = "running"]
<1>1. /\ o.at = "ready" /\ ledger[r] = [state |-> "prepared", n |-> o.n] /\ ledger' = Moved(t, "running")
      /\ Step(t, u) /\ UNCHANGED <<ask, began, remote, outside>>
  BY DEF ClaimUpload, MayMove
<1>2. Thread(o) /\ o \in Standing /\ r \in Requests
  BY <1>1, ThreadKnown DEF Thread
<1>3. /\ ledger' \in [Requests -> Row] /\ ledger'[r] = [state |-> "running", n |-> o.n]
      /\ ledger'[r].state = "running" /\ \A q \in Requests \ {r} : ledger'[q] = ledger[q]
      /\ ledger[r].state = "prepared"
  <2>1. ledger[r].state = "prepared" /\ ledger[r].n = o.n
    BY <1>1
  <2>2. /\ ledger' \in [Requests -> Row] /\ ledger'[r].state = "running"
        /\ ledger'[r] = [state |-> "running", n |-> ledger[r].n]
        /\ \A q \in Requests \ {r} : ledger'[q] = ledger[q]
    BY <1>1, <1>2, MovedRow
  <2> QED
    BY <2>1, <2>2
<1>4. /\ u \in Standing /\ u.at = "running" /\ u.request = r /\ u.n = o.n
      /\ u.service = o.service /\ u.prepared = o.prepared
  BY <1>2 DEF Standing
<1> HIDE DEF u
<1>5. /\ uploader' \in [Uploaders -> Standing] /\ uploader'[t] = u
      /\ \A v \in Uploaders \ {t} : uploader'[v] = uploader[v]
  BY <1>1, <1>4, StepsAside
<1>6. \A i \in DOMAIN remote : remote[i].body.request # r
  BY <1>3 DEF UploadIInv, RemoteIsAccountedFor
<1>7. \A v \in Uploaders \ {t} : uploader[v].at \in Busy =>
        uploader[v].request # r /\ uploader[v].request \in Requests
  BY <1>3, BusyIsRunning
<1>8. Exclusive'
  BY <1>4, <1>5, <1>7 DEF UploadIInv, Exclusive
<1>9. Thread(uploader[t])'
  <2>1. (u.prepared # Unset => u.service = "ours" /\ AsAsked(u.prepared)) /\ u.service \in {"ours", Unset}
    BY <1>2, <1>4 DEF Thread
  <2> QED
    BY <1>1, <1>2, <1>3, <1>4, <1>5, <1>6, <2>1 DEF Thread, AsAsked
<1>10. RemoteGrows /\ {t} \in SUBSET Uploaders
  BY <1>1 DEF RemoteGrows
<1>11. \A v \in Uploaders : Thread(uploader[v])'
  BY <1>1, <1>3, <1>5, <1>7, <1>9, <1>10, ThreadsKept
<1>12. RemoteIsAccountedFor'
  BY <1>1, <1>3, <1>10, VideosKept
<1>13. BeganAll' /\ UploadTyped'
  BY <1>1, <1>3, <1>5, BeganKept DEF UploadIInv, UploadTyped
<1> QED
  BY <1>8, <1>11, <1>12, <1>13 DEF UploadIInv

\* An attempt begins, anew or again.
LEMMA BeginKeeps ==
  ASSUME UploadAssumption, UploadIInv, NEW t \in Uploaders, Begin(t)
  PROVE  UploadIInv'
<1> DEFINE o == uploader[t]
<1>1. PICK r \in Requests :
        /\ o.at = "idle"
        /\ \/ ledger[r].state = "prepared" /\ UNCHANGED <<ledger, began>>
           \/ /\ ledger[r].state \in {"none", "failed"} /\ ledger[r].n < MaxRetries
              /\ ledger' = [ledger EXCEPT ![r] = [state |-> "prepared", n |-> ledger[r].n + 1]]
              /\ began' = Append(began, [request |-> r, n |-> ledger'[r].n])
        /\ Step(t, [o EXCEPT !.at = "authenticated", !.request = r, !.n = ledger'[r].n])
        /\ UNCHANGED <<ask, remote, outside>>
  BY DEF Begin
<1> DEFINE u == [o EXCEPT !.at = "authenticated", !.request = r, !.n = ledger'[r].n]
<1>2. Thread(o) /\ o \in Standing /\ ledger[r] \in Row /\ began \in Seq(Attempt)
  BY ThreadKnown DEF UploadTyped
<1>3. /\ ledger' \in [Requests -> Row] /\ ledger'[r].state = "prepared"
      /\ \A q \in Requests \ {r} : ledger'[q] = ledger[q]
      /\ ledger[r].state \in {"none", "failed", "prepared"}
  <2>1. CASE ledger' = [ledger EXCEPT ![r] = [state |-> "prepared", n |-> ledger[r].n + 1]]
             /\ ledger[r].n < MaxRetries /\ ledger[r].state \in {"none", "failed"}
    <3> DEFINE row == [state |-> "prepared", n |-> ledger[r].n + 1]
    <3>1. row \in Row /\ row.state = "prepared"
      BY <1>2, <2>1 DEF Row, UploadAssumption
    <3> HIDE DEF row
    <3>2. ledger' = [ledger EXCEPT ![r] = row]
      BY <2>1 DEF row
    <3> QED
      BY <2>1, <3>1, <3>2, RowMoves
  <2>2. CASE ledger[r].state = "prepared" /\ UNCHANGED ledger
    BY <2>2, ThreadKnown
  <2> QED
    BY <1>1, <2>1, <2>2
<1>4. /\ u \in Standing /\ u.at = "authenticated" /\ u.request = r
      /\ u.service = o.service /\ u.prepared = o.prepared
  <2>1. ledger'[r].n \in 0..MaxRetries
    BY <1>3 DEF Row
  <2> QED
    BY <1>2, <2>1 DEF Standing
<1>5. Step(t, u)
  BY <1>1
<1> HIDE DEF u
<1>6. /\ uploader' \in [Uploaders -> Standing] /\ uploader'[t] = u /\ Exclusive'
      /\ \A v \in Uploaders \ {t} : uploader'[v] = uploader[v]
  BY <1>4, <1>5, StepsAside DEF Busy
<1>7. Thread(uploader[t])'
  <2>1. (u.prepared # Unset => u.service = "ours" /\ AsAsked(u.prepared)) /\ u.service \in {"ours", Unset}
    BY <1>2, <1>4 DEF Thread
  <2> QED
    BY <1>1, <1>4, <1>5, <2>1, Aside DEF Busy
<1>8. RemoteGrows /\ {t} \in SUBSET Uploaders
  BY <1>1 DEF RemoteGrows
<1>9. \A v \in Uploaders \ {t} : uploader[v].at \in Busy =>
        uploader[v].request # r /\ uploader[v].request \in Requests
  BY <1>3, BusyIsRunning
<1>10. \A v \in Uploaders : Thread(uploader[v])'
  BY <1>1, <1>3, <1>6, <1>7, <1>8, <1>9, ThreadsKept
<1>11. RemoteIsAccountedFor'
  BY <1>1, <1>3, <1>8, VideosKept
<1>12. BeganAll' /\ began' \in Seq(Attempt)
  <2>1. CASE began' = began /\ ledger' = ledger /\ ledger[r].state # "none"
    BY <1>2, <1>3, <2>1, BeganKept
  <2>2. CASE began' = Append(began, [request |-> r, n |-> ledger'[r].n]) /\ ledger'[r].n \in 1..MaxRetries
    <3> DEFINE a == [request |-> r, n |-> ledger'[r].n]
    <3>1. a \in Attempt /\ a.request = r
      BY <2>2 DEF Attempt
    <3>2. /\ Len(began) \in Nat /\ DOMAIN began = 1..Len(began) /\ \A i \in DOMAIN began : began[i] \in Attempt
          /\ began' \in Seq(Attempt) /\ DOMAIN began' = 1..(Len(began) + 1)
          /\ began'[Len(began) + 1] = a /\ \A i \in DOMAIN began : began'[i] = began[i]
      <4> HIDE DEF a
      <4>1. began' = Append(began, a)
        BY <2>2 DEF a
      <4> QED
        BY <1>2, <3>1, <4>1, AppendProperties, LenProperties
    <3>3. \A i \in DOMAIN began' : i \in DOMAIN began \/ i = Len(began) + 1
      BY <3>2
    <3>4. \A i \in DOMAIN began : began[i].request \in Requests
      BY <3>2 DEF Attempt
    <3>5. \A i \in DOMAIN began' : ledger'[began'[i].request].state # "none"
      <4> HIDE DEF a
      <4> QED
        BY <1>3, <3>1, <3>2, <3>3, <3>4 DEF UploadIInv, BeganAll
    <3>6. ASSUME NEW q \in Requests, ledger'[q].state # "none"
          PROVE  \E i \in DOMAIN began' : began'[i] = [request |-> q, n |-> ledger'[q].n]
      <4>1. CASE q = r
        BY <3>2, <4>1
      <4>2. CASE q # r
        <5>1. PICK i \in DOMAIN began : began[i] = [request |-> q, n |-> ledger'[q].n]
          BY <1>3, <3>6, <4>2 DEF UploadIInv, BeganAll
        <5>2. i \in DOMAIN began' /\ began'[i] = [request |-> q, n |-> ledger'[q].n]
          BY <3>2, <5>1
        <5> QED
          BY <5>2
      <4> QED
        BY <4>1, <4>2
    <3> QED
      BY <3>2, <3>5, <3>6 DEF BeganAll
  <2>3. ledger[r].n < MaxRetries /\ ledger' = [ledger EXCEPT ![r] = [state |-> "prepared", n |-> ledger[r].n + 1]]
          => ledger'[r].n \in 1..MaxRetries
    BY <1>2, ThreadKnown DEF Row, UploadAssumption
  <2> QED
    BY <1>1, <2>1, <2>2, <2>3
<1>13. UploadTyped'
  BY <1>1, <1>3, <1>6, <1>12 DEF UploadIInv, UploadTyped
<1> QED
  BY <1>6, <1>10, <1>11, <1>12, <1>13 DEF UploadIInv

\* The attempts of the other threads are others.
LEMMA OthersAreOthers ==
  ASSUME UploadIInv, NEW t \in Uploaders, uploader[t].at \in Busy
  PROVE  \A v \in Uploaders \ {t} : uploader[v].at \in Busy =>
           uploader[v].request \in Requests \ {uploader[t].request}
  BY BusyIsRunning DEF UploadIInv, Exclusive

\* Nobody knows what became of a running attempt.
LEMMA UnknownKeeps ==
  ASSUME UploadAssumption, UploadIInv, NEW t \in Uploaders, uploader[t].at \in Busy,
         OutcomeUnknown(t), UNCHANGED remote
  PROVE  UploadIInv'
<1> DEFINE r == uploader[t].request
<1>1. /\ ledger' = Moved(t, "unknown") /\ Step(t, Unoccupied) /\ UNCHANGED <<ask, began, outside>>
  BY DEF OutcomeUnknown
<1>2. r \in Requests /\ ledger[r].state = "running"
  BY BusyIsRunning
<1>3. /\ ledger' \in [Requests -> Row] /\ ledger'[r].state = "unknown" /\ ledger'[r].n = ledger[r].n
      /\ \A q \in Requests \ {r} : ledger'[q] = ledger[q]
  BY <1>1, <1>2, MovedRow
<1>4. Thread(uploader[t])'
  BY <1>1, UnoccupiedStands, Aside DEF Busy
<1>5. \A v \in Uploaders \ {t} : uploader[v].at \in Busy =>
        ledger'[uploader[v].request] = ledger[uploader[v].request]
  BY <1>3, OthersAreOthers
<1> QED
  BY <1>1, <1>2, <1>3, <1>4, <1>5, UnoccupiedStands, ThreadMoves DEF Busy

\* YouTube takes the video; the answer arrives or is lost.
LEMMA UploadStepKeeps ==
  ASSUME UploadAssumption, UploadIInv, NEW t \in Uploaders, Upload(t)
  PROVE  UploadIInv'
<1> DEFINE o == uploader[t]
           r == o.request
           b == o.prepared
           v == [body |-> b, channel |-> o.service, status |-> "uploaded",
                 public |-> b.when = Unset, edited |-> FALSE]
           u == [o EXCEPT !.at = "uploaded", !.video = Len(remote) + 1]
<1>1. /\ o.at = "running" /\ b # Unset /\ b.request = r /\ remote' = Append(remote, v)
      /\ UNCHANGED <<ask, began, outside>>
      /\ \/ Step(t, u) /\ ledger' = ledger
         \/ Step(t, Unoccupied) /\ ledger' = Moved(t, "unknown")
  BY DEF Upload, IsPrepared, Uploaded, OutcomeUnknown
<1>2. /\ Thread(o) /\ o \in Standing /\ UploadTyped /\ remote \in Seq(Video)
  BY ThreadKnown
<1>3. /\ o.service = "ours" /\ AsAsked(b) /\ b \in Resource /\ r \in Requests /\ ledger[r].state = "running"
      /\ ledger[r] = [state |-> "running", n |-> o.n]
      /\ \A i \in DOMAIN remote : remote[i].body.request # r
  <2>1. o.service = "ours" /\ AsAsked(b) /\ b \in Resource
    BY <1>1, <1>2 DEF Thread, Standing
  <2> QED
    BY <1>1, <1>2, <2>1, BusyIsRunning DEF Busy, Thread
<1>4. /\ v \in Video /\ v.body = b /\ v.channel = "ours" /\ v.status = "uploaded"
  BY <1>3 DEF Video
<1> HIDE DEF v, b
<1>5. /\ Len(remote) \in Nat /\ DOMAIN remote = 1..Len(remote)
      /\ remote' \in Seq(Video) /\ DOMAIN remote' = 1..(Len(remote) + 1)
      /\ remote'[Len(remote) + 1] = v /\ \A i \in DOMAIN remote : remote'[i] = remote[i]
  BY <1>1, <1>2, <1>4, AppendProperties, LenProperties
<1>6. /\ RemoteGrows /\ Len(remote) + 1 \in DOMAIN remote'
      /\ \A i \in DOMAIN remote' : i \in DOMAIN remote \/ i = Len(remote) + 1
  BY <1>5 DEF RemoteGrows
<1>7. u \in Standing /\ u.at = "uploaded" /\ u.video = Len(remote) + 1 /\ u.request = r /\ u.n = o.n
      /\ u.service = o.service /\ u.prepared = b
  <2>1. Len(remote) + 1 \in Nat /\ o.prepared = b
    BY <1>5 DEF b
  <2>2. /\ u \in Standing /\ u.at = "uploaded" /\ u.video = Len(remote) + 1 /\ u.request = r
        /\ u.n = o.n /\ u.service = o.service /\ u.prepared = o.prepared
    <3> HIDE DEF o
    <3> DEFINE k == Len(remote) + 1
    <3>1. k \in Nat /\ o \in Standing
      BY <1>2, <2>1 DEF o
    <3> HIDE DEF k
    <3>2. u = [o EXCEPT !.at = "uploaded", !.video = k]
      BY DEF k
    <3> QED
      BY <3>1, <3>2 DEF Standing, k
  <2> QED
    BY <2>1, <2>2
<1> HIDE DEF u
<1>8. /\ ledger' \in [Requests -> Row] /\ ledger'[r].state \in {"running", "unknown"}
      /\ ledger'[r].n = ledger[r].n
      /\ \A q \in Requests \ {r} : ledger'[q] = ledger[q]
      /\ ledger' = ledger \/ ledger'[r].state = "unknown"
  BY <1>1, <1>2, <1>3, MovedRow DEF UploadTyped
<1>9. \A w \in Uploaders \ {t} : uploader[w].at \in Busy => uploader[w].request \in Requests \ {r}
  BY <1>1, OthersAreOthers DEF Busy
<1>10. /\ uploader' \in [Uploaders -> Standing] /\ Exclusive'
       /\ \A w \in Uploaders \ {t} : uploader'[w] = uploader[w]
       /\ (uploader'[t] = u /\ ledger' = ledger) \/ uploader'[t] = Unoccupied
  BY <1>1, <1>7, UnoccupiedStands, StepsAside DEF Busy
<1>11. Thread(uploader[t])'
  <2>1. CASE uploader'[t] = u /\ ledger' = ledger
    BY <1>1, <1>3, <1>4, <1>5, <1>6, <1>7, <2>1 DEF Thread, AsAsked, Busy
  <2>2. CASE uploader'[t] = Unoccupied
    BY <2>2, UnoccupiedStands DEF Thread, Busy
  <2> QED
    BY <1>10, <2>1, <2>2
<1>12. \A w \in Uploaders : Thread(uploader[w])'
  <2>1. {t} \in SUBSET Uploaders
    OBVIOUS
  <2>2. \A i \in (DOMAIN remote') \ DOMAIN remote : remote'[i].body.request = r
    BY <1>1, <1>4, <1>5, <1>6 DEF b
  <2> QED
    BY ZenonT(40), <1>1, <1>6, <1>8, <1>9, <1>10, <1>11, <2>1, <2>2, ThreadsKept
<1>13. RemoteIsAccountedFor'
  <2>1. \A i \in DOMAIN remote : remote[i].body.request \in Requests \ {r}
    <3>1. \A i \in DOMAIN remote : remote[i] \in Video
      BY <1>2, LenProperties
    <3> QED
      BY <1>3, <3>1 DEF Video, Resource
  <2>2. ASSUME NEW i \in DOMAIN remote'
        PROVE  /\ remote'[i].body.intact /\ remote'[i].channel = "ours"
               /\ remote'[i].body.when = ask'[remote'[i].body.request].when
               /\ remote'[i].body.declared = ask'[remote'[i].body.request].v2
               /\ ledger'[remote'[i].body.request].state \in {"running", "succeeded", "unknown"}
               /\ \A j \in DOMAIN remote' : remote'[j].body.request = remote'[i].body.request => i = j
    <3>1. CASE i \in DOMAIN remote
      <4>1. \A j \in DOMAIN remote' : remote'[j].body.request = remote'[i].body.request => i = j
        BY <1>1, <1>4, <1>5, <1>6, <2>1, <3>1 DEF UploadIInv, RemoteIsAccountedFor, b
      <4> QED
        BY <1>1, <1>5, <1>8, <2>1, <3>1, <4>1 DEF UploadIInv, RemoteIsAccountedFor
    <3>2. CASE i = Len(remote) + 1
      <4>1. remote'[i].body = b /\ b.request = r /\ remote'[i].channel = "ours"
        BY <1>1, <1>4, <1>5, <3>2 DEF b
      <4>2. \A j \in DOMAIN remote' : remote'[j].body.request = r => i = j
        BY <1>5, <1>6, <2>1, <3>2
      <4> QED
        BY <1>1, <1>3, <1>8, <4>1, <4>2 DEF AsAsked
    <3> QED
      BY <1>6, <3>1, <3>2
  <2>3. ASSUME NEW q \in Requests, ledger'[q].state = "succeeded"
        PROVE  \E i \in DOMAIN remote' : remote'[i].body.request = q /\ remote'[i].status = "processed"
    <3>1. q # r /\ ledger[q].state = "succeeded"
      BY <1>8, <2>3
    <3>2. PICK i \in DOMAIN remote : remote[i].body.request = q /\ remote[i].status = "processed"
      BY <3>1 DEF UploadIInv, RemoteIsAccountedFor
    <3>3. i \in DOMAIN remote' /\ remote'[i] = remote[i]
      BY <1>5, <1>6 DEF RemoteGrows
    <3> QED
      BY <3>2, <3>3
  <2> QED
    BY <2>2, <2>3 DEF RemoteIsAccountedFor
<1>14. BeganAll' /\ UploadTyped'
  <2>1. \A q \in Requests : /\ (ledger'[q].state = "none") <=> (ledger[q].state = "none")
                             /\ ledger'[q].n = ledger[q].n
    BY <1>3, <1>8
  <2> QED
    BY <1>1, <1>2, <1>5, <1>8, <1>10, <2>1, BeganKept DEF UploadTyped
<1> QED
  BY <1>10, <1>12, <1>13, <1>14 DEF UploadIInv

\* The video is as approved.
LEMMA VerifyKeeps ==
  ASSUME UploadIInv, NEW t \in Uploaders, Verify(t)
  PROVE  UploadIInv'
<1> DEFINE o == uploader[t]
           u == [o EXCEPT !.at = "verified"]
<1>1. /\ o.at = "uploaded" /\ remote[o.video].status = "processed" /\ Step(t, u)
      /\ UNCHANGED <<ask, ledger, began, remote, outside>>
  BY DEF Verify, AsApproved
<1>2. Thread(o) /\ o \in Standing
  BY ThreadKnown
<1>3. /\ u \in Standing /\ u.at = "verified" /\ u.request = o.request /\ u.n = o.n
      /\ u.video = o.video /\ u.service = o.service /\ u.prepared = o.prepared
  BY <1>2 DEF Standing
<1> HIDE DEF u
<1>4. uploader'[t] = u
  BY <1>1, <1>3, StepsAside
<1>5. Thread(uploader[t])'
  BY <1>1, <1>2, <1>3, <1>4 DEF Thread, AsAsked, Busy
<1> QED
  BY <1>1, <1>3, <1>5, LedgerStays DEF Busy

\* The result goes to the ledger.
LEMMA SucceedKeeps ==
  ASSUME UploadAssumption, UploadIInv, NEW t \in Uploaders, Succeed(t)
  PROVE  UploadIInv'
<1> DEFINE o == uploader[t]
           r == o.request
<1>1. /\ o.at = "verified" /\ ledger' = Moved(t, "succeeded") /\ Step(t, Unoccupied)
      /\ UNCHANGED <<ask, began, remote, outside>>
  BY DEF Succeed
<1>2. Thread(o) /\ r \in Requests /\ ledger[r].state = "running"
  BY <1>1, ThreadKnown, BusyIsRunning DEF Busy
<1>3. /\ ledger' \in [Requests -> Row] /\ ledger'[r].state = "succeeded" /\ ledger'[r].n = ledger[r].n
      /\ \A q \in Requests \ {r} : ledger'[q] = ledger[q]
  BY <1>1, <1>2, MovedRow
<1>4. \E i \in DOMAIN remote : remote[i].body.request = r /\ remote[i].status = "processed"
  BY <1>1, <1>2 DEF Thread
<1>5. Thread(uploader[t])'
  BY <1>1, UnoccupiedStands, Aside DEF Busy
<1>6. \A v \in Uploaders \ {t} : uploader[v].at \in Busy =>
        ledger'[uploader[v].request] = ledger[uploader[v].request]
  BY <1>1, <1>3, OthersAreOthers DEF Busy
<1>7. \A q \in Requests :
        /\ (ledger'[q].state = "none") <=> (ledger[q].state = "none")
        /\ ledger'[q].n = ledger[q].n
        /\ ledger[q].state \in {"running", "succeeded", "unknown"} =>
             ledger'[q].state \in {"running", "succeeded", "unknown"}
        /\ ledger'[q].state = "succeeded" =>
             \/ ledger[q].state = "succeeded"
             \/ \E i \in DOMAIN remote :
                  remote[i].body.request = q /\ remote[i].status = "processed"
  BY <1>2, <1>3, <1>4
<1> HIDE DEF o
<1> QED
  BY <1>1, <1>3, <1>5, <1>6, <1>7, UnoccupiedStands, ThreadMoves DEF Busy

\* Videos change: what they are and where they are does not.
LEMMA RemoteMoves ==
  ASSUME UploadIInv, UNCHANGED <<ask, ledger, began, uploader>>, outside' \in World,
         remote' \in Seq(Video), DOMAIN remote' = DOMAIN remote, RemoteGrows
  PROVE  UploadIInv'
<1>1. Exclusive' /\ BeganAll' /\ UploadTyped'
  BY DEF UploadIInv, Exclusive, BeganAll, UploadTyped
<1>2. {} \in SUBSET Uploaders
  OBVIOUS
<1>3. \A t \in Uploaders : Thread(uploader[t])'
  BY <1>2, ThreadsKept
<1>4. RemoteIsAccountedFor'
  BY VideosKept
<1> QED
  BY <1>1, <1>3, <1>4 DEF UploadIInv

\* Files, token and clock change; videos are processed, edited and released.
LEMMA WorldKeeps ==
  ASSUME UploadAssumption, UploadIInv, FileChanges \/ TokenChanges \/ Tick \/ VideoChanges
  PROVE  UploadIInv'
<1>1. /\ outside \in World /\ remote \in Seq(Video) /\ Len(remote) \in Nat
      /\ remote \in [1..Len(remote) -> Video] /\ DOMAIN remote = 1..Len(remote)
  BY LenProperties DEF UploadIInv, UploadTyped
<1>2. UNCHANGED <<ask, ledger, began, uploader>>
  BY DEF FileChanges, TokenChanges, Tick, VideoChanges
<1>3. CASE FileChanges \/ TokenChanges
  <2>1. outside' \in World /\ remote' = remote
    BY <1>1, <1>3 DEF FileChanges, TokenChanges, World
  <2> QED
    BY <1>1, <1>2, <2>1, RemoteMoves DEF RemoteGrows
<1>4. CASE Tick
  <2>1. outside' \in World
    BY <1>1, <1>4 DEF Tick, World, UploadAssumption
  <2>2. remote' = [i \in DOMAIN remote |->
       IF remote[i].body.when # Unset /\ remote[i].body.when <= outside.clock + 1
       THEN [remote[i] EXCEPT !.public = TRUE] ELSE remote[i]]
    BY <1>4 DEF Tick
  <2>3. DOMAIN remote' = DOMAIN remote
    BY <2>2
  <2>4. ASSUME NEW i \in DOMAIN remote
        PROVE  /\ remote'[i] \in Video /\ remote'[i].body = remote[i].body
               /\ remote'[i].channel = remote[i].channel /\ remote'[i].status = remote[i].status
    <3>1. remote[i] \in Video
      BY <1>1
    <3>2. remote'[i] = [remote[i] EXCEPT !.public = TRUE] \/ remote'[i] = remote[i]
      BY <2>2
    <3> QED
      BY <3>1, <3>2 DEF Video
  <2>5. remote' \in [1..Len(remote) -> Video]
    BY <1>1, <2>2, <2>4
  <2>6. remote' \in Seq(Video)
    BY <1>1, <2>5, SeqDef
  <2> QED
    BY <1>2, <2>1, <2>3, <2>4, <2>6, RemoteMoves DEF RemoteGrows
<1>5. CASE VideoChanges
  <2>1. PICK i \in DOMAIN remote :
          \/ /\ remote[i].status = "uploaded"
             /\ \E s \in {"processed", "failed"} : remote' = [remote EXCEPT ![i].status = s]
          \/ remote' = [remote EXCEPT ![i].edited = TRUE]
    BY <1>5 DEF VideoChanges
  <2>2. outside' = outside
    BY <1>5 DEF VideoChanges
  <2>3. remote[i] \in Video
    BY <1>1
  <2>4. PICK w \in Video : /\ remote' = [remote EXCEPT ![i] = w] /\ w.body = remote[i].body
                           /\ w.channel = remote[i].channel
                           /\ remote[i].status = "processed" => w.status = "processed"
    <3>1. ASSUME NEW s \in {"processed", "failed"}, remote[i].status = "uploaded",
                 remote' = [remote EXCEPT ![i].status = s]
          PROVE  \E w \in Video : /\ remote' = [remote EXCEPT ![i] = w] /\ w.body = remote[i].body
                                  /\ w.channel = remote[i].channel
                                  /\ remote[i].status = "processed" => w.status = "processed"
      <4> DEFINE w == [remote[i] EXCEPT !.status = s]
      <4>1. w \in Video /\ w.body = remote[i].body /\ w.channel = remote[i].channel
        BY <2>3 DEF Video
      <4>2. remote' = [remote EXCEPT ![i] = w]
        BY <3>1
      <4> HIDE DEF w
      <4> QED
        BY <3>1, <4>1, <4>2
    <3>2. ASSUME remote' = [remote EXCEPT ![i].edited = TRUE]
          PROVE  \E w \in Video : /\ remote' = [remote EXCEPT ![i] = w] /\ w.body = remote[i].body
                                  /\ w.channel = remote[i].channel
                                  /\ remote[i].status = "processed" => w.status = "processed"
      <4> DEFINE w == [remote[i] EXCEPT !.edited = TRUE]
      <4>1. w \in Video /\ w.body = remote[i].body /\ w.channel = remote[i].channel
            /\ w.status = remote[i].status
        BY <2>3 DEF Video
      <4>2. remote' = [remote EXCEPT ![i] = w]
        BY <3>2
      <4> HIDE DEF w
      <4> QED
        BY <4>1, <4>2
    <3> QED
      BY <2>1, <3>1, <3>2
  <2>5. remote' \in [1..Len(remote) -> Video] /\ DOMAIN remote' = DOMAIN remote
    BY <1>1, <2>4
  <2>6. remote' \in Seq(Video)
    BY <1>1, <2>5, SeqDef
  <2>7. RemoteGrows
    BY <1>1, <2>4, <2>5 DEF RemoteGrows
  <2> QED
    BY <1>1, <1>2, <2>2, <2>5, <2>6, <2>7, RemoteMoves
<1> QED
  BY <1>3, <1>4, <1>5

\* A restart retires what was running.
LEMMA RestartKeeps ==
  ASSUME UploadAssumption, UploadIInv, ServerRestarts
  PROVE  UploadIInv'
<1>1. /\ outside.restarts < MaxRestarts /\ outside' = [outside EXCEPT !.restarts = @ + 1]
      /\ uploader' = [t \in Uploaders |-> Unoccupied]
      /\ ledger' = [r \in Requests |-> IF ledger[r].state = "running"
                                       THEN [ledger[r] EXCEPT !.state = "unknown"] ELSE ledger[r]]
      /\ UNCHANGED <<ask, began, remote>>
  BY DEF ServerRestarts
<1>2. UploadTyped /\ outside \in World /\ \A r \in Requests : ledger[r] \in Row
  BY DEF UploadIInv, UploadTyped
<1>3. outside' \in World
  BY <1>1, <1>2 DEF World, UploadAssumption
<1>4. ASSUME NEW r \in Requests
      PROVE  /\ ledger'[r] \in Row /\ ledger'[r].n = ledger[r].n
             /\ ledger[r].state = "running" => ledger'[r].state = "unknown"
             /\ ledger[r].state # "running" => ledger'[r] = ledger[r]
  <2>1. ledger[r].state = "running" => ledger'[r] = [ledger[r] EXCEPT !.state = "unknown"]
    BY <1>1
  <2>2. ledger[r].state # "running" => ledger'[r] = ledger[r]
    BY <1>1
  <2> QED
    BY <1>2, <2>1, <2>2 DEF Row
<1>5. ledger' \in [Requests -> Row]
  BY <1>1, <1>4
<1>6. uploader' \in [Uploaders -> Standing] /\ \A t \in Uploaders : Thread(uploader[t])'
  BY <1>1, UnoccupiedStands DEF Thread, Busy
<1>7. Exclusive'
  BY <1>1, UnoccupiedStands DEF Exclusive, Busy
<1>8. UploadTyped'
  BY <1>1, <1>2, <1>3, <1>5, <1>6 DEF UploadTyped
<1>9. RemoteGrows
  BY <1>1 DEF RemoteGrows
<1>10. RemoteIsAccountedFor'
  BY <1>1, <1>4, <1>9, VideosKept
<1>11. BeganAll'
  BY <1>1, <1>4, BeganKept
<1> QED
  BY <1>6, <1>7, <1>8, <1>10, <1>11 DEF UploadIInv

\* At the start nothing has begun and nothing is on YouTube.
LEMMA UploadStarts ==
  ASSUME UploadAssumption, UploadInit
  PROVE  UploadIInv
<1>1. 0 \in 0..MaxRetries /\ 0 \in 0..MaxTime /\ 0 \in 0..MaxRestarts
  BY DEF UploadAssumption
<1>2. UploadTyped
  <2>1. outside \in World
    BY <1>1 DEF UploadInit, World
  <2>2. ledger \in [Requests -> Row]
    BY <1>1 DEF UploadInit, Row
  <2>3. uploader \in [Uploaders -> Standing]
    BY UnoccupiedStands DEF UploadInit
  <2> QED
    BY <2>1, <2>2, <2>3 DEF UploadInit, UploadTyped
<1>3. DOMAIN remote = {} /\ DOMAIN began = {}
  BY DEF UploadInit
<1>4. RemoteIsAccountedFor /\ BeganAll
  BY <1>3 DEF UploadInit, RemoteIsAccountedFor, BeganAll
<1>5. Exclusive /\ \A t \in Uploaders : Thread(uploader[t])
  BY UnoccupiedStands DEF UploadInit, Exclusive, Thread, Busy
<1> QED
  BY <1>2, <1>4, <1>5 DEF UploadIInv

\* Every step of threads and world keeps the invariant.
LEMMA UploadGoesOn ==
  ASSUME UploadAssumption, UploadIInv, [UploadNext]_uploadVars
  PROVE  UploadIInv'
<1>1. ASSUME NEW t \in Uploaders, UploadFails(t) \/ VerifyFails(t) PROVE UploadIInv'
  <2>1. uploader[t].at \in Busy /\ OutcomeUnknown(t) /\ UNCHANGED remote
    BY <1>1 DEF UploadFails, VerifyFails, Busy
  <2> QED
    BY <2>1, UnknownKeeps
<1>2. CASE UNCHANGED uploadVars
  BY <1>2 DEF uploadVars, UploadIInv, UploadTyped, RemoteIsAccountedFor, Exclusive, BeganAll,
     Thread, AsAsked
<1>3. ASSUME NEW t \in Uploaders,
             \/ Begin(t) \/ CheckHealth(t) \/ HealthFails(t) \/ RunPreflight(t) \/ PreflightFails(t)
             \/ ClaimUpload(t) \/ ClaimFails(t) \/ Upload(t) \/ Verify(t) \/ Succeed(t)
      PROVE  UploadIInv'
  BY <1>3, BeginKeeps, BeforeBoundaryKeeps, FailuresKeep, ClaimKeeps, UploadStepKeeps, VerifyKeeps,
     SucceedKeeps
<1> QED
  BY <1>1, <1>2, <1>3, WorldKeeps, RestartKeeps DEF UploadNext

\* Whatever file, token and clock do between the checks and the upload, and
\* wherever answers are lost: every video is the approved bytes under the
\* approved body on the configured channel, one per request, and the ledger
\* never lets the request be tried again; what is open or unknown leads the
\* phone's list (providers/youtube.py, api/project_publishing_routes.py).
THEOREM UploadSafety == UploadSpec => []UploadInv
<1>1. UploadInit => UploadIInv
  BY UploadAssumption, UploadStarts
<1>2. UploadIInv /\ [UploadNext]_uploadVars => UploadIInv'
  BY UploadAssumption, UploadGoesOn
<1>3. UploadIInv => UploadInv
  <2> SUFFICES ASSUME UploadIInv PROVE UploadInv
    OBVIOUS
  <2>1. UploadTypeOK
    BY DEF UploadIInv, UploadTyped, UploadTypeOK, World, Standing
  <2>2. RiskIsListedFirst
    BY RiskLeads
  <2> QED
    BY <2>1, <2>2 DEF UploadInv, UploadIInv
<1> QED
  BY <1>1, <1>2, <1>3, PTL DEF UploadSpec

-----------------------------------------------------------------------------
(* ProductionHome.  That the screen is current needs to know what the loads   *)
(* under way will bring: a load that is both the newest and of the active      *)
(* project has read the project no earlier than the last command that          *)
(* succeeded, because each success starts another load.                        *)

VideoState == [stage : {"absent", "setup", "review", "ready", "done"},
               preview : BOOLEAN, version : 0..MaxVersion]
Views == {Nowhere} \cup [of : Videos, is : VideoState]
Posts == [do : {"create", "bootstrap", "decide", "preview", "approve", "reject", "final"},
          at : Videos, of : Videos \cup {Closed}, seen : 0..MaxVersion]

\* The projects, and what the page has seen of them.
ProjectsOK ==
  /\ video \in [Videos -> VideoState] /\ acked \in [Videos -> Nat]
  /\ \A p \in Videos : acked[p] <= video[p].version

\* The project screen and its loads.
ScreenOK ==
  /\ active \in Videos \cup {Closed} /\ shown \in Views /\ newest \in 0..MaxLoads
  /\ \A l \in loads : l \in [gen : 1..newest, of : Videos, got : Views]

\* The requests under way.
PostsOK ==
  /\ \A c \in asked : c \in Posts /\ c.seen <= video[c.at].version
  /\ IsFiniteSet(asked) /\ Cardinality(asked) <= MaxAsked /\ opening \subseteq Videos

\* What the load the screen waits for has read is new enough.
Fresh(view, p) == view = Nowhere \/ (view.of = p /\ view.is.version >= acked[p])
LoadsAreFresh == \A l \in loads : (l.gen = newest /\ l.of = active) => Fresh(l.got, l.of)

HomeIInv ==
  /\ ProjectsOK /\ ScreenOK /\ PostsOK
  /\ LoadsAreFresh /\ ScreenIsCurrent /\ DecisionsHitTheirProject

\* HomeInv follows from what the page relies on.
LEMMA HomeInvIs ==
  ASSUME HomeAssumption, HomeIInv
  PROVE  HomeInv
<1>1. ASSUME NEW p \in Videos
      PROVE  /\ video[p].stage \in {"absent", "setup", "review", "ready", "done"}
             /\ acked[p] <= video[p].version /\ video[p].version <= MaxVersion
  <2>1. video[p] \in VideoState
    BY DEF HomeIInv, ProjectsOK
  <2> QED
    BY <2>1 DEF HomeIInv, ProjectsOK, VideoState, HomeAssumption
<1>2. shown.of \in Videos \cup {Closed}
  BY DEF HomeIInv, ScreenOK, Views, Nowhere
<1>3. \A l \in loads : l.gen \in 1..newest
  BY DEF HomeIInv, ScreenOK
<1>4. HomeTypeOK
  BY <1>1, <1>2, <1>3 DEF HomeTypeOK, HomeIInv, ScreenOK, PostsOK
<1> QED
  BY <1>4 DEF HomeInv, HomeIInv

\* A load starts for the project that is active then: it is the newest.
LEMMA LoadStarts ==
  ASSUME HomeAssumption, HomeIInv, NEW p \in Videos, Load(p), active' = p,
         \/ UNCHANGED shown /\ acked' \in [Videos -> Nat]
         \/ UNCHANGED <<shown, acked>>
  PROVE  newest' \in 0..MaxLoads /\ LoadsAreFresh' /\ ScreenIsCurrent' /\ ScreenOK'
<1> DEFINE n == [gen |-> newest + 1, of |-> p, got |-> Nowhere]
<1>1. /\ newest < MaxLoads /\ newest' = newest + 1 /\ loads' = loads \cup {n}
      /\ newest \in Nat /\ MaxLoads \in Nat /\ newest' \in 0..MaxLoads /\ shown' = shown
  BY DEF Load, HomeIInv, ScreenOK, HomeAssumption
<1>2. /\ n \in [gen : 1..newest', of : Videos, got : Views] /\ n.gen = newest' /\ n.of = p
      /\ n.got = Nowhere
  BY <1>1 DEF Views
<1> HIDE DEF n
<1>3. \A l \in loads : l \in [gen : 1..newest', of : Videos, got : Views] /\ l.gen # newest'
  <2>1. \A l \in loads : l \in [gen : 1..newest, of : Videos, got : Views]
    BY DEF HomeIInv, ScreenOK
  <2>2. 1..newest \subseteq 1..newest' /\ newest' \notin 1..newest
    BY <1>1
  <2> QED
    BY <2>1, <2>2
<1>4. LoadsAreFresh'
  BY <1>1, <1>2, <1>3 DEF LoadsAreFresh, Fresh
<1>5. ScreenIsCurrent'
  BY <1>1, <1>2 DEF ScreenIsCurrent
<1>6. ScreenOK'
  BY <1>1, <1>2, <1>3 DEF ScreenOK, HomeIInv
<1> QED
  BY <1>1, <1>4, <1>5, <1>6

\* A request is carried out: the version of its project rises.
LEMMA AfterIs ==
  ASSUME HomeAssumption, HomeIInv, NEW c \in asked, video[c.at].version < MaxVersion
  PROVE  After(c) \in VideoState /\ After(c).version = video[c.at].version + 1
<1> DEFINE p == [video[c.at] EXCEPT !.version = @ + 1]
<1>1. c \in Posts /\ video[c.at] \in VideoState
  BY DEF HomeIInv, PostsOK, ProjectsOK, Posts
<1>2. p \in VideoState /\ p.version = video[c.at].version + 1
  BY <1>1 DEF VideoState, HomeAssumption
<1> HIDE DEF p
<1>3. CASE c.do \in {"create", "bootstrap", "decide", "reject"}
  <2>1. After(c) = [p EXCEPT !.stage = "review", !.preview = FALSE]
    BY <1>3 DEF After, p
  <2> QED
    BY <1>2, <2>1 DEF VideoState
<1>4. CASE c.do = "preview"
  <2>1. After(c) = [p EXCEPT !.preview = TRUE]
    BY <1>4 DEF After, p
  <2> QED
    BY <1>2, <2>1 DEF VideoState
<1>5. CASE c.do = "approve"
  <2>1. After(c) = [p EXCEPT !.stage = "ready"]
    BY <1>5 DEF After, p
  <2> QED
    BY <1>2, <2>1 DEF VideoState
<1>6. CASE c.do = "final"
  <2>1. After(c) = [p EXCEPT !.stage = "done"]
    BY <1>6 DEF After, p
  <2> QED
    BY <1>2, <2>1 DEF VideoState
<1> QED
  BY <1>1, <1>3, <1>4, <1>5, <1>6 DEF Posts

\* One request takes the place of another.
LEMMA Replaced ==
  ASSUME HomeAssumption, IsFiniteSet(asked), Cardinality(asked) <= MaxAsked, NEW c \in asked
  PROVE  /\ IsFiniteSet(asked \ {c}) /\ Cardinality(asked \ {c}) <= MaxAsked
         /\ \A d : /\ IsFiniteSet((asked \ {c}) \cup {d})
                   /\ Cardinality((asked \ {c}) \cup {d}) <= MaxAsked
<1>1. /\ IsFiniteSet(asked \ {c}) /\ Cardinality(asked \ {c}) = Cardinality(asked) - 1
      /\ Cardinality(asked) \in Nat /\ Cardinality(asked \ {c}) \in Nat
  BY FS_RemoveElement, FS_CardinalityType
<1>2. Cardinality(asked \ {c}) + 1 <= MaxAsked /\ Cardinality(asked \ {c}) <= MaxAsked
  BY <1>1 DEF HomeAssumption
<1>3. ASSUME NEW d
      PROVE  /\ IsFiniteSet((asked \ {c}) \cup {d})
             /\ Cardinality((asked \ {c}) \cup {d}) <= MaxAsked
  <2> DEFINE S == asked \ {c}
  <2> HIDE DEF S
  <2>1. /\ IsFiniteSet(S \cup {d})
        /\ Cardinality(S \cup {d}) \in {Cardinality(S), Cardinality(S) + 1}
    <3>1. IsFiniteSet(S)
      BY <1>1 DEF S
    <3> QED
      BY <3>1, FS_AddElement
  <2> QED
    BY <1>2, <2>1 DEF S
<1> QED
  BY <1>1, <1>2, <1>3

\* The server carries a request out: versions only rise.
LEMMA ServerDoesKeeps ==
  ASSUME HomeAssumption, HomeIInv, NEW c \in asked, ServerDoes(c)
  PROVE  HomeIInv'
<1> DEFINE d == [c EXCEPT !.seen = After(c).version]
           v == After(c)
<1>1. /\ Accepts(c) /\ video[c.at].version < MaxVersion
      /\ video' = [video EXCEPT ![c.at] = v] /\ asked' = (asked \ {c}) \cup {d}
      /\ UNCHANGED <<paired, active, shown, newest, loads, opening, acked>>
  BY DEF ServerDoes
<1>2. /\ v \in VideoState /\ v.version = video[c.at].version + 1
      /\ c \in Posts /\ c.at \in Videos /\ video[c.at] \in VideoState /\ v.version \in 0..MaxVersion
  BY <1>1, AfterIs DEF HomeIInv, PostsOK, ProjectsOK, Posts, VideoState
<1>3. /\ d \in Posts /\ d.seen = v.version /\ d.at = c.at /\ d.of = c.of /\ d.do = c.do
  BY <1>2 DEF Posts
<1> HIDE DEF d, v
<1>4. \A p \in Videos : /\ video'[p] \in VideoState /\ video[p].version <= video'[p].version
                        /\ video[p].version \in Nat /\ video'[p].version \in Nat
  <2>1. ASSUME NEW p \in Videos
        PROVE  /\ video'[p] \in VideoState /\ video[p].version <= video'[p].version
               /\ video[p].version \in Nat /\ video'[p].version \in Nat
    <3>1. video[p] \in VideoState /\ video[p].version \in Nat
      BY DEF HomeIInv, ProjectsOK, VideoState
    <3>2. video'[p] = IF p = c.at THEN v ELSE video[p]
      BY <1>1, <1>2 DEF HomeIInv, ProjectsOK
    <3> QED
      BY <1>2, <3>1, <3>2
  <2> QED
    BY <2>1
<1>5. ProjectsOK'
  <2>1. video' \in [Videos -> VideoState]
    BY <1>1, <1>2 DEF HomeIInv, ProjectsOK
  <2>2. ASSUME NEW p \in Videos PROVE acked[p] <= video'[p].version
    <3>1. acked[p] \in Nat /\ acked[p] <= video[p].version
      BY DEF HomeIInv, ProjectsOK
    <3> QED
      BY <1>4, <3>1
  <2> QED
    BY <1>1, <2>1, <2>2 DEF HomeIInv, ProjectsOK
<1>6. ASSUME NEW e \in asked' PROVE e \in Posts /\ e.seen <= video'[e.at].version
  <2>1. CASE e = d
    <3>1. video'[e.at] = v
      BY <1>1, <1>2, <1>3, <2>1 DEF HomeIInv, ProjectsOK
    <3> QED
      BY <1>2, <1>3, <2>1, <3>1
  <2>2. CASE e \in asked
    <3>1. e \in Posts /\ e.seen <= video[e.at].version /\ e.at \in Videos /\ e.seen \in Nat
      BY <2>2 DEF HomeIInv, PostsOK, Posts
    <3> QED
      BY <1>4, <3>1
  <2> QED
    BY <1>1, <2>1, <2>2
<1>7. PostsOK'
  BY <1>1, <1>6, Replaced DEF HomeIInv, PostsOK
<1>8. DecisionsHitTheirProject'
  <2>1. c.do \in {"decide", "approve", "reject"} => c.at = c.of
    BY <1>1 DEF Accepts, InPath
  <2> QED
    BY <1>1, <1>3, <2>1 DEF HomeIInv, DecisionsHitTheirProject
<1>9. ScreenOK' /\ LoadsAreFresh' /\ ScreenIsCurrent'
  BY <1>1 DEF HomeIInv, ScreenOK, LoadsAreFresh, Fresh, ScreenIsCurrent
<1> QED
  BY <1>5, <1>7, <1>8, <1>9 DEF HomeIInv

\* A load reads its project.
LEMMA LoadReadKeeps ==
  ASSUME HomeAssumption, HomeIInv, NEW l \in loads, LoadRead(l)
  PROVE  HomeIInv'
<1> DEFINE g == [of |-> l.of, is |-> video[l.of]]
           k == [l EXCEPT !.got = g]
<1>1. /\ loads' = (loads \ {l}) \cup {k}
      /\ UNCHANGED <<video, paired, active, shown, newest, asked, opening, acked>>
  BY DEF LoadRead
<1>2. /\ l \in [gen : 1..newest, of : Videos, got : Views] /\ l.of \in Videos
      /\ video[l.of] \in VideoState /\ acked[l.of] <= video[l.of].version
      /\ acked[l.of] \in Nat /\ video[l.of].version \in Nat
  BY DEF HomeIInv, ScreenOK, ProjectsOK, VideoState
<1>3. g \in Views /\ g.of = l.of /\ g.is = video[l.of]
  BY <1>2 DEF Views
<1> HIDE DEF g
<1>4. /\ k \in [gen : 1..newest, of : Videos, got : Views] /\ k.gen = l.gen /\ k.of = l.of /\ k.got = g
  BY <1>2, <1>3
<1> HIDE DEF k
<1>5. Fresh(k.got, k.of)
  BY <1>2, <1>3, <1>4 DEF Fresh
<1>6. ScreenOK' /\ LoadsAreFresh'
  BY <1>1, <1>4, <1>5 DEF HomeIInv, ScreenOK, LoadsAreFresh, Fresh
<1>7. ScreenIsCurrent'
  BY <1>1, <1>4 DEF HomeIInv, ScreenIsCurrent
<1>8. ProjectsOK' /\ PostsOK' /\ DecisionsHitTheirProject'
  BY <1>1 DEF HomeIInv, ProjectsOK, PostsOK, DecisionsHitTheirProject
<1> QED
  BY <1>6, <1>7, <1>8 DEF HomeIInv

\* A load arrives, and is dropped unless the screen waits for it.
LEMMA LoadArrivesKeeps ==
  ASSUME HomeAssumption, HomeIInv, NEW l \in loads, LoadArrives(l)
  PROVE  HomeIInv'
<1>1. /\ loads' = loads \ {l} /\ shown' = IF IsCurrent(l) THEN l.got ELSE shown
      /\ UNCHANGED <<video, paired, active, newest, asked, opening, acked>>
  BY DEF LoadArrives
<1>2. l.got \in Views
  BY DEF HomeIInv, ScreenOK
<1>3. ScreenOK' /\ LoadsAreFresh'
  BY <1>1, <1>2 DEF HomeIInv, ScreenOK, LoadsAreFresh, Fresh
<1>4. ScreenIsCurrent'
  <2>1. CASE IsCurrent(l)
    <3>1. Fresh(l.got, l.of) /\ active = l.of
      BY <2>1 DEF HomeIInv, LoadsAreFresh, IsCurrent
    <3> QED
      BY <1>1, <2>1, <3>1 DEF Fresh, ScreenIsCurrent
  <2>2. CASE ~ IsCurrent(l)
    BY <1>1, <2>2 DEF HomeIInv, ScreenIsCurrent, IsCurrent
  <2> QED
    BY <2>1, <2>2
<1>5. ProjectsOK' /\ PostsOK' /\ DecisionsHitTheirProject'
  BY <1>1 DEF HomeIInv, ProjectsOK, PostsOK, DecisionsHitTheirProject
<1> QED
  BY <1>3, <1>4, <1>5 DEF HomeIInv

\* The screen is loaded anew, or another project is opened.
LEMMA OpeningKeeps ==
  ASSUME HomeAssumption, HomeIInv,
         \/ Refresh
         \/ \E p \in Videos : OpenCard(p) \/ OpenLater(p)
  PROVE  HomeIInv'
<1>1. PICK p \in Videos : Load(p) /\ active' = p
  BY DEF Refresh, OpenCard, OpenLater, OpenProject, HomeIInv, ScreenOK
<1>2. UNCHANGED <<video, paired, shown, asked, acked>> /\ opening' \subseteq opening
  BY DEF Refresh, OpenCard, OpenLater
<1>3. LoadsAreFresh' /\ ScreenIsCurrent' /\ ScreenOK'
  BY <1>1, <1>2, LoadStarts
<1>4. ProjectsOK' /\ PostsOK' /\ DecisionsHitTheirProject'
  BY <1>2 DEF HomeIInv, ProjectsOK, PostsOK, DecisionsHitTheirProject
<1> QED
  BY <1>3, <1>4 DEF HomeIInv

\* A command succeeded, which the page sees.
LEMMA CommandDoneKeeps ==
  ASSUME HomeAssumption, HomeIInv, NEW c \in asked, CommandDone(c)
  PROVE  HomeIInv'
<1> DEFINE n == IF acked[c.at] < c.seen THEN c.seen ELSE acked[c.at]
<1>1. /\ asked' = asked \ {c} /\ acked' = [acked EXCEPT ![c.at] = n]
      /\ \/ active # Closed /\ Load(active)
         \/ active = Closed /\ UNCHANGED <<newest, loads>>
      /\ UNCHANGED <<video, paired, active, shown, opening>>
  BY DEF CommandDone
<1>2. /\ c.at \in Videos /\ c.seen \in Nat /\ c.seen <= video[c.at].version
      /\ acked[c.at] \in Nat /\ acked[c.at] <= video[c.at].version
  BY DEF HomeIInv, PostsOK, Posts, ProjectsOK
<1>3. n \in Nat /\ n <= video[c.at].version
  BY <1>2
<1> HIDE DEF n
<1>4. ProjectsOK'
  BY <1>1, <1>2, <1>3 DEF HomeIInv, ProjectsOK
<1>5. PostsOK' /\ DecisionsHitTheirProject'
  BY <1>1, Replaced DEF HomeIInv, PostsOK, DecisionsHitTheirProject
<1>6. LoadsAreFresh' /\ ScreenIsCurrent' /\ ScreenOK'
  <2>1. CASE active # Closed /\ Load(active)
    <3>1. active \in Videos /\ active' = active /\ acked' \in [Videos -> Nat] /\ shown' = shown
      BY <1>1, <1>4, <2>1 DEF HomeIInv, ScreenOK, ProjectsOK
    <3>2. \A p \in Videos : Load(p) /\ active' = p =>
            LoadsAreFresh' /\ ScreenIsCurrent' /\ ScreenOK'
      BY <3>1, LoadStarts
    <3> QED
      BY <2>1, <3>1, <3>2
  <2>2. CASE active = Closed /\ UNCHANGED <<newest, loads>>
    <3>1. \A l \in loads : l.of # Closed
      BY DEF HomeIInv, ScreenOK, HomeAssumption
    <3> QED
      BY <1>1, <2>2, <3>1 DEF HomeIInv, ScreenOK, LoadsAreFresh, ScreenIsCurrent
  <2> QED
    BY <1>1, <2>1, <2>2
<1> QED
  BY <1>4, <1>5, <1>6 DEF HomeIInv

\* A request is sent.
LEMMA SendKeeps ==
  ASSUME HomeAssumption, HomeIInv
  PROVE  \A c \in Posts : c.seen = 0 /\ Send(c) => HomeIInv'
<1> SUFFICES ASSUME NEW c \in Posts, c.seen = 0, Send(c) PROVE HomeIInv'
  OBVIOUS
<1>1. /\ Cardinality(asked) < MaxAsked /\ c \notin asked /\ asked' = asked \cup {c}
      /\ UNCHANGED <<video, paired, active, shown, newest, loads, opening, acked>>
  BY DEF Send
<1>2. IsFiniteSet(asked') /\ Cardinality(asked') <= MaxAsked
  <2>1. /\ IsFiniteSet(asked) /\ Cardinality(asked) \in Nat
    BY FS_CardinalityType DEF HomeIInv, PostsOK
  <2>2. IsFiniteSet(asked \cup {c}) /\ Cardinality(asked \cup {c}) = Cardinality(asked) + 1
    BY <1>1, <2>1, FS_AddElement
  <2> QED
    BY <1>1, <2>1, <2>2 DEF HomeAssumption
<1>3. c.seen <= video[c.at].version
  <2>1. video[c.at].version \in Nat
    BY DEF HomeIInv, ProjectsOK, VideoState, Posts
  <2> QED
    BY <2>1
<1>4. PostsOK' /\ DecisionsHitTheirProject'
  BY <1>1, <1>2, <1>3 DEF HomeIInv, PostsOK, DecisionsHitTheirProject
<1>5. ProjectsOK' /\ ScreenOK' /\ LoadsAreFresh' /\ ScreenIsCurrent'
  BY <1>1 DEF HomeIInv, ProjectsOK, ScreenOK, LoadsAreFresh, Fresh, ScreenIsCurrent
<1> QED
  BY <1>4, <1>5 DEF HomeIInv

\* A control of the screen, or of a card of Home.
LEMMA ClickKeeps ==
  ASSUME HomeAssumption, HomeIInv,
         \/ \E do \in {"decide", "preview", "approve", "reject", "final"} : Click(do)
         \/ \E p \in Videos : StartVideo(p)
  PROVE  HomeIInv'
<1>1. \A do \in {"create", "bootstrap", "decide", "preview", "approve", "reject", "final"} :
        \A at \in Videos, of \in Videos \cup {Closed} :
          Post(do, at, of) \in Posts /\ Post(do, at, of).seen = 0
  BY DEF Post, Posts, HomeAssumption
<1>2. ASSUME NEW do \in {"decide", "preview", "approve", "reject", "final"}, Click(do)
      PROVE  HomeIInv'
  <2>1. active \in Videos /\ shown.of \in Videos \cup {Closed} /\ Send(Post(do, active, shown.of))
    BY <1>2 DEF Click, HomeIInv, ScreenOK, Views, Nowhere
  <2> QED
    BY <1>1, <2>1, SendKeeps
<1>3. ASSUME NEW p \in Videos, StartVideo(p) PROVE HomeIInv'
  <2>1. Send(Post("bootstrap", p, p)) \/ Send(Post("create", p, p))
    BY <1>3 DEF StartVideo
  <2> QED
    BY <1>1, <2>1, SendKeeps
<1> QED
  BY <1>2, <1>3

\* The screen is left, a session ends, a request comes back without success.
LEMMA LeavingKeeps ==
  ASSUME HomeAssumption, HomeIInv,
         \/ BackHome \/ SessionEnds \/ SessionReturns \/ UNCHANGED homeVars
         \/ \E c \in asked : RequestFails(c) \/ Started(c)
  PROVE  HomeIInv'
<1>1. CASE BackHome \/ SessionEnds
  <2>1. /\ UNCHANGED <<video, loads, asked, opening, acked>> /\ active' = Closed
        /\ shown' \in {shown, Nowhere} /\ newest' \in 0..MaxLoads /\ newest <= newest'
        /\ newest \in Nat /\ newest' \in Nat
    BY <1>1 DEF BackHome, SessionEnds, HomeIInv, ScreenOK, HomeAssumption
  <2>2. ASSUME NEW l \in loads PROVE l.of # Closed /\ l \in [gen : 1..newest', of : Videos, got : Views]
    <3>1. l \in [gen : 1..newest, of : Videos, got : Views] /\ 1..newest \subseteq 1..newest'
      BY <2>1 DEF HomeIInv, ScreenOK
    <3> QED
      BY <3>1 DEF HomeAssumption
  <2>3. ScreenOK' /\ LoadsAreFresh' /\ ScreenIsCurrent'
    BY <2>1, <2>2 DEF HomeIInv, ScreenOK, Views, LoadsAreFresh, ScreenIsCurrent
  <2> QED
    BY <2>1, <2>3 DEF HomeIInv, ProjectsOK, PostsOK, DecisionsHitTheirProject
<1>2. CASE SessionReturns \/ UNCHANGED homeVars
  BY <1>2 DEF SessionReturns, homeVars, HomeIInv, ProjectsOK, ScreenOK, PostsOK, LoadsAreFresh,
     Fresh, ScreenIsCurrent, DecisionsHitTheirProject
<1>3. ASSUME NEW c \in asked, RequestFails(c) \/ Started(c) PROVE HomeIInv'
  <2>1. /\ asked' = asked \ {c} /\ UNCHANGED <<video, active, shown, newest, loads, acked>>
        /\ opening' \in {opening, opening \cup {c.at}}
    BY <1>3 DEF RequestFails, Started
  <2>2. c.at \in Videos
    BY DEF HomeIInv, PostsOK, Posts
  <2>3. PostsOK' /\ DecisionsHitTheirProject'
    BY <2>1, <2>2, Replaced DEF HomeIInv, PostsOK, DecisionsHitTheirProject
  <2> QED
    BY <2>1, <2>3 DEF HomeIInv, ProjectsOK, ScreenOK, LoadsAreFresh, Fresh, ScreenIsCurrent
<1> QED
  BY <1>1, <1>2, <1>3

\* At the start nothing is shown, loaded or asked.
LEMMA HomeStarts ==
  ASSUME HomeAssumption, HomeInit
  PROVE  HomeIInv
<1>1. ProjectsOK
  <2>1. video \in [Videos -> VideoState]
    <3>1. 0 \in 0..MaxVersion
      BY DEF HomeAssumption
    <3>2. [stage : {"absent", "setup", "review", "ready"}, preview : {FALSE}, version : {0}]
            \subseteq VideoState
      BY <3>1 DEF VideoState
    <3> QED
      BY <3>2 DEF HomeInit
  <2>2. \A p \in Videos : acked[p] = 0 /\ video[p].version = 0
    BY DEF HomeInit
  <2> QED
    BY <2>1, <2>2 DEF HomeInit, ProjectsOK
<1>2. ScreenOK /\ LoadsAreFresh /\ ScreenIsCurrent
  BY DEF HomeInit, ScreenOK, Views, LoadsAreFresh, ScreenIsCurrent, HomeAssumption
<1>3. PostsOK /\ DecisionsHitTheirProject
  BY FS_EmptySet DEF HomeInit, PostsOK, DecisionsHitTheirProject, HomeAssumption
<1> QED
  BY <1>1, <1>2, <1>3 DEF HomeIInv

\* Every step of page and server keeps it.
LEMMA HomeGoesOn ==
  ASSUME HomeAssumption, HomeIInv, [HomeNext]_homeVars
  PROVE  HomeIInv'
<1>1. ASSUME NEW c \in asked, ServerDoes(c) \/ CommandDone(c) \/ RequestFails(c) \/ Started(c)
      PROVE  HomeIInv'
  BY <1>1, ServerDoesKeeps, CommandDoneKeeps, LeavingKeeps
<1>2. ASSUME NEW l \in loads, LoadRead(l) \/ LoadArrives(l) PROVE HomeIInv'
  BY <1>2, LoadReadKeeps, LoadArrivesKeeps
<1> QED
  BY <1>1, <1>2, OpeningKeeps, ClickKeeps, LeavingKeeps DEF HomeNext

\* However loads and answers overtake each other, and whatever screen they come
\* back to: the screen shows the active project no older than the last command
\* the page saw succeed, and a decision takes effect on the project whose card
\* was clicked (web/static/production-home.js with api/review_routes.py).
THEOREM HomeSafety == HomeSpec => []HomeInv
<1>1. HomeInit => HomeIInv
  BY HomeAssumption, HomeStarts
<1>2. HomeIInv /\ [HomeNext]_homeVars => HomeIInv'
  BY HomeAssumption, HomeGoesOn
<1>3. HomeIInv => HomeInv
  BY HomeAssumption, HomeInvIs
<1> QED
  BY <1>1, <1>2, <1>3, PTL DEF HomeSpec
=============================================================================
