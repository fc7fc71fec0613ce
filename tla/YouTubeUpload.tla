--------------------------- MODULE YouTubeUpload ---------------------------
(***************************************************************************)
(* The YouTube provider behind the publishing ledger: health, preflight and   *)
(* publish on one thread (providers/youtube.py and its declaration extension *)
(* youtube_v2.py), as PublishingService.execute_prepared calls them, and the  *)
(* list of a project's attempts the phone sees                               *)
(* (api/project_publishing_routes.py).                                       *)
(*                                                                         *)
(* What the provider keeps between its three calls is private to a thread:   *)
(* the service whose channel was checked, then the prepared upload with a    *)
(* copy of the bytes.  The artifact file, the token file, the clock and the   *)
(* videos on YouTube change under it at any time.  A ledger row is a         *)
(* request's newest attempt (Publishing has the ledger in full); two threads  *)
(* may work on one attempt until the ledger lets one of them run it.          *)
(***************************************************************************)
EXTENDS Naturals, Sequences, FiniteSets

CONSTANTS Requests,    \* approved publish requests of one final render
          Uploaders,   \* request threads of the server
          Unset,        \* nothing, and the schedule of an immediate upload
          MaxTime,     \* bound: ticks of the clock
          MaxRetries, \* bound: attempts of one request
          MaxRestarts  \* bound: restarts of the server

ASSUME UploadAssumption ==
  /\ MaxRetries \in Nat \ {0} /\ MaxTime \in Nat /\ MaxRestarts \in Nat
  /\ Unset \notin Requests /\ IsFiniteSet(Requests)

VARIABLES ask,       \* the requests: schedule, and whether they carry declarations
          ledger,    \* the newest attempt's state of every request
          began,     \* all the attempts, oldest first
          uploader,  \* per thread: its attempt and the provider's thread state
          remote,    \* videos on YouTube
          outside    \* the artifact file, the token's channel, the clock, restarts

uploadVars == <<ask, ledger, began, uploader, remote, outside>>

Row == [state : {"none", "prepared", "running", "succeeded", "failed", "unknown"},
        n : 0..MaxRetries]
Attempt == [request : Requests, n : 1..MaxRetries]
Resource == [request : Requests, intact : BOOLEAN, declared : BOOLEAN, when : {Unset} \cup (1..MaxTime)]
Video == [body : Resource, channel : {"ours", "other"}, status : {"uploaded", "processed", "failed"},
          public : BOOLEAN, edited : BOOLEAN]
Unoccupied == [at |-> "idle", request |-> Unset, n |-> 0, service |-> Unset, prepared |-> Unset, video |-> 0]

UploadTypeOK ==
  /\ ask \in [Requests -> [when : {Unset} \cup (1..MaxTime), v2 : BOOLEAN]]
  /\ ledger \in [Requests -> Row]
  /\ began \in Seq(Attempt)
  /\ uploader \in [Uploaders ->
       [at : {"idle", "authenticated", "healthy", "ready", "running", "uploaded", "verified"},
        request : Requests \cup {Unset}, n : 0..MaxRetries, service : {"ours", "other", Unset},
        prepared : Resource \cup {Unset}, video : Nat]]
  /\ remote \in Seq(Video)
  /\ outside.intact \in BOOLEAN /\ outside.token \in {"ours", "other"}
  /\ outside.clock \in 0..MaxTime /\ outside.restarts \in 0..MaxRestarts

UploadInit ==
  /\ ask \in [Requests -> [when : {Unset} \cup (1..MaxTime), v2 : BOOLEAN]]
  /\ ledger = [r \in Requests |-> [state |-> "none", n |-> 0]]
  /\ began = <<>>
  /\ uploader = [t \in Uploaders |-> Unoccupied]
  /\ remote = <<>>
  /\ outside = [intact |-> TRUE, token |-> "ours", clock |-> 0, restarts |-> 0]

-----------------------------------------------------------------------------
(* The attempt, as execute_prepared takes it through the provider.          *)

Step(t, u) == uploader' = [uploader EXCEPT ![t] = u]

\* _mark_error and mark_running: only from one state, only of this attempt.
MayMove(t, from) == ledger[uploader[t].request] = [state |-> from, n |-> uploader[t].n]
Moved(t, to)     == [ledger EXCEPT ![uploader[t].request].state = to]

\* The attempt ends before the remote boundary: it may be approved again.
\* What the provider keeps on the thread is `kept`.
FailedBefore(t, kept) ==
  /\ ledger' = IF MayMove(t, "prepared") THEN Moved(t, "failed") ELSE ledger
  /\ Step(t, [kept EXCEPT !.at = "idle", !.request = Unset, !.n = 0])
  /\ UNCHANGED <<ask, began, remote, outside>>

\* Approval, if it is not approved already, and execution of a request;
\* _authenticated_artifact has just read the whole file.
Begin(t) == \E r \in Requests :
  /\ uploader[t].at = "idle"
  /\ outside.intact
  /\ \/ ledger[r].state = "prepared" /\ UNCHANGED <<ledger, began>>
     \/ /\ ledger[r].state \in {"none", "failed"} /\ ledger[r].n < MaxRetries
        /\ ledger' = [ledger EXCEPT ![r] = [state |-> "prepared", n |-> @.n + 1]]
        /\ began' = Append(began, [request |-> r, n |-> ledger'[r].n])
  /\ Step(t, [uploader[t] EXCEPT !.at = "authenticated", !.request = r, !.n = ledger'[r].n])
  /\ UNCHANGED <<ask, remote, outside>>

\* _clear_execution_state
Cleared(u) == [u EXCEPT !.service = Unset, !.prepared = Unset]

\* health: the token's channel must be the configured one; the service that
\* proved it is kept for the calls that follow.
CheckHealth(t) ==
  /\ uploader[t].at = "authenticated"
  /\ outside.token = "ours"
  /\ Step(t, [Cleared(uploader[t]) EXCEPT !.at = "healthy", !.service = outside.token])
  /\ UNCHANGED <<ask, ledger, began, remote, outside>>

\* The channel is another one, or YouTube does not answer.
HealthFails(t) ==
  /\ uploader[t].at = "authenticated"
  /\ FailedBefore(t, Cleared(uploader[t]))

\* _youtube_body, _youtube_body_with_declarations and _snapshot_media.
Prepared(r, intact) ==
  [request |-> r, intact |-> intact, declared |-> ask[r].v2, when |-> ask[r].when]

MaySchedule(r) == ask[r].when # Unset => ask[r].when > outside.clock

\* _snapshot_media: the copy has the approved size and digest.
SnapshotIsApproved(intact) == intact

RunPreflight(t) ==
  /\ uploader[t].at = "healthy"
  /\ uploader[t].service # Unset
  /\ MaySchedule(uploader[t].request)
  /\ SnapshotIsApproved(outside.intact)
  /\ Step(t, [uploader[t] EXCEPT !.at = "ready",
                !.prepared = Prepared(uploader[t].request, outside.intact)])
  /\ UNCHANGED <<ask, ledger, began, remote, outside>>

\* A check refuses, a capability request fails, or the insert request cannot
\* be built.
PreflightFails(t) ==
  /\ uploader[t].at = "healthy"
  /\ FailedBefore(t, uploader[t])

ClaimUpload(t) ==
  /\ uploader[t].at = "ready"
  /\ MayMove(t, "prepared")
  /\ ledger' = Moved(t, "running")
  /\ Step(t, [uploader[t] EXCEPT !.at = "running"])
  /\ UNCHANGED <<ask, began, remote, outside>>

\* mark_running refuses or fails: the prepared upload is discarded, the
\* attempt stays what it is.
ClaimFails(t) ==
  /\ uploader[t].at = "ready"
  /\ Step(t, Unoccupied)
  /\ UNCHANGED <<ask, ledger, began, remote, outside>>

-----------------------------------------------------------------------------
(* publish: the upload, then the video as YouTube shows it.                 *)

Uploaded(t) ==
  Append(remote, [body |-> uploader[t].prepared, channel |-> uploader[t].service,
                  status |-> "uploaded", public |-> uploader[t].prepared.when = Unset,
                  edited |-> FALSE])

\* Slip: a lost answer counts as an upload that did not happen.
OutcomeFailed(t) ==
  /\ ledger' = Moved(t, "failed")
  /\ Step(t, Unoccupied)
  /\ UNCHANGED <<ask, began, outside>>

\* A remote error, an answer that was lost or a video that is not as approved:
\* nobody knows, and nobody tries again.
OutcomeUnknown(t) ==
  /\ ledger' = Moved(t, "unknown")
  /\ Step(t, Unoccupied)
  /\ UNCHANGED <<ask, began, outside>>

IsPrepared(t) == uploader[t].prepared # Unset /\ uploader[t].prepared.request = uploader[t].request

Upload(t) ==
  /\ uploader[t].at = "running" /\ IsPrepared(t)
  /\ remote' = Uploaded(t)
  /\ \/ /\ Step(t, [uploader[t] EXCEPT !.at = "uploaded", !.video = Len(remote) + 1])
        /\ UNCHANGED <<ask, ledger, began, outside>>
     \/ OutcomeUnknown(t)

UploadFails(t) ==
  /\ uploader[t].at = "running"
  /\ OutcomeUnknown(t)
  /\ UNCHANGED remote

\* _await_processed_video, _verify_snippet and the status checks.
AsApproved(v) ==
  /\ v.status = "processed" /\ ~v.edited
  /\ v.public = (v.body.when = Unset)

Verify(t) ==
  /\ uploader[t].at = "uploaded"
  /\ AsApproved(remote[uploader[t].video])
  /\ Step(t, [uploader[t] EXCEPT !.at = "verified"])
  /\ UNCHANGED <<ask, ledger, began, remote, outside>>

\* A v2 request is read a second time for its declarations; then the result
\* goes to the ledger.
Succeed(t) ==
  /\ uploader[t].at = "verified"
  /\ ask[uploader[t].request].v2 => remote[uploader[t].video].body.declared
  /\ ledger' = Moved(t, "succeeded")
  /\ Step(t, Unoccupied)
  /\ UNCHANGED <<ask, began, remote, outside>>

\* A check fails, the polling window ends, or the ledger cannot be written.
VerifyFails(t) ==
  /\ uploader[t].at \in {"uploaded", "verified"}
  /\ OutcomeUnknown(t)
  /\ UNCHANGED remote

-----------------------------------------------------------------------------
(* The world outside.                                                      *)

FileChanges ==
  /\ outside' = [outside EXCEPT !.intact = ~@]
  /\ UNCHANGED <<ask, ledger, began, uploader, remote>>

\* authorize_youtube is run again, for another channel or back.
TokenChanges ==
  /\ outside' = [outside EXCEPT !.token = IF @ = "ours" THEN "other" ELSE "ours"]
  /\ UNCHANGED <<ask, ledger, began, uploader, remote>>

\* YouTube makes a scheduled video public when its time has come.
Tick ==
  /\ outside.clock < MaxTime
  /\ outside' = [outside EXCEPT !.clock = @ + 1]
  /\ remote' = [i \in DOMAIN remote |->
       IF remote[i].body.when # Unset /\ remote[i].body.when <= outside.clock + 1
       THEN [remote[i] EXCEPT !.public = TRUE] ELSE remote[i]]
  /\ UNCHANGED <<ask, ledger, began, uploader>>

\* YouTube finishes or refuses a video, or its owner edits it.
VideoChanges == \E i \in DOMAIN remote :
  /\ \/ remote[i].status = "uploaded" /\ \E s \in {"processed", "failed"} :
          remote' = [remote EXCEPT ![i].status = s]
     \/ ~remote[i].edited /\ remote' = [remote EXCEPT ![i].edited = TRUE]
  /\ UNCHANGED <<ask, ledger, began, uploader, outside>>

\* The server dies; its recovery retires what was running.
ServerRestarts ==
  /\ outside.restarts < MaxRestarts
  /\ outside' = [outside EXCEPT !.restarts = @ + 1]
  /\ uploader' = [t \in Uploaders |-> Unoccupied]
  /\ ledger' = [r \in Requests |-> IF ledger[r].state = "running" THEN [ledger[r] EXCEPT !.state = "unknown"]
                                  ELSE ledger[r]]
  /\ UNCHANGED <<ask, began, remote>>

UploadNext ==
  \/ \E t \in Uploaders :
       \/ Begin(t) \/ CheckHealth(t) \/ HealthFails(t) \/ RunPreflight(t) \/ PreflightFails(t)
       \/ ClaimUpload(t) \/ ClaimFails(t) \/ Upload(t) \/ UploadFails(t)
       \/ Verify(t) \/ Succeed(t) \/ VerifyFails(t)
  \/ FileChanges \/ TokenChanges \/ Tick \/ VideoChanges \/ ServerRestarts

UploadSpec == UploadInit /\ [][UploadNext]_uploadVars

-----------------------------------------------------------------------------
(* The phone's list: _project_attempt_ids.                                  *)

Priority == [unknown |-> 5, running |-> 4, succeeded |-> 3, prepared |-> 2, failed |-> 1]

\* All attempts of a request but the newest have failed.
AttemptState(a) ==
  IF a.n = ledger[a.request].n THEN ledger[a.request].state ELSE "failed"

\* Risk before success before local states, newest first among equals.
Before(i, j) ==
  LET a == Priority[AttemptState(began[i])]
      b == Priority[AttemptState(began[j])]
  IN a > b \/ (a = b /\ i > j)

Listed(limit) ==
  {began[i] : i \in {k \in DOMAIN began : Cardinality({j \in DOMAIN began : Before(j, k)}) < limit}}

-----------------------------------------------------------------------------
(* Properties.                                                             *)

\* Every video on YouTube is the approved bytes under the approved body, on
\* the configured channel, though file and token change between the checks
\* and the upload and threads are used again; there is one per request, and
\* the ledger never says of it that the request may be tried again.
RemoteIsAccountedFor ==
  /\ \A i \in DOMAIN remote :
       LET b == remote[i].body IN
       /\ b.intact /\ remote[i].channel = "ours"
       /\ b.when = ask[b.request].when /\ b.declared = ask[b.request].v2
       /\ ledger[b.request].state \in {"running", "succeeded", "unknown"}
       /\ \A j \in DOMAIN remote : remote[j].body.request = b.request => i = j
  /\ \A r \in Requests : ledger[r].state = "succeeded" =>
       \E i \in DOMAIN remote : remote[i].body.request = r /\ remote[i].status = "processed"

\* However short the phone's list, an attempt whose outcome is open or unknown
\* is on it before any other, how often others were retried since: nobody approves the same final again for not
\* having seen it.
RiskIsListedFirst ==
  \A limit \in 1..Len(began) :
    (\E r \in Requests : ledger[r].state \in {"running", "unknown"}) =>
      \E a \in Listed(limit) : AttemptState(a) \in {"running", "unknown"}

\* What the provider and the projection promise (providers/youtube.py,
\* api/project_publishing_routes.py): both of these, and the types.
UploadInv == UploadTypeOK /\ RemoteIsAccountedFor /\ RiskIsListedFirst

=============================================================================
