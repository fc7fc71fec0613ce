--------------------------- MODULE ReviewProject ---------------------------
(***************************************************************************)
(* The review lifecycle of one project (application/_review_base.py and its *)
(* hardening passes): decisions on the phone, preview, explicit approval,   *)
(* final render, restart recovery.  Projects share nothing but the runtime, *)
(* so one is enough.                                                        *)
(*                                                                         *)
(* Every write is a compare-and-set of the whole manifest, retried on       *)
(* conflict (_mutate_project), so a mutation is one atomic step; running     *)
(* out of retries is one of the faults.  What happens between two mutations *)
(* of a request is where requests interleave.                               *)
(*                                                                         *)
(* A revision digest is the revision number with the state, as the code     *)
(* digests both; a plan digest is the look the plan renders.                *)
(***************************************************************************)
EXTENDS Naturals, Sequences, FiniteSets

CONSTANTS Handlers,     \* request threads of the API process
          Boot,         \* the start-up recovery, before requests are served
          Looks,        \* what a render plan tells apart
          None,
          MaxRev,       \* bound: revisions made by people and other workflows
          MaxJobs,      \* bound: render attempts
          MaxSources,   \* bound: changes of what the render gates depend on
          MaxLosses,    \* bound: artifacts that stop validating
          MaxFaults,    \* bound: storage errors and exhausted retries
          MaxCrashes    \* bound: process deaths

ASSUME ReviewAssumption ==
  /\ IsFiniteSet(Handlers) /\ Boot \notin Handlers
  /\ None \notin Handlers \cup Looks \cup {"needs_review", "ready"}
  /\ MaxRev \in Nat /\ MaxJobs \in Nat /\ MaxSources \in Nat
  /\ MaxLosses \in Nat /\ MaxFaults \in Nat /\ MaxCrashes \in Nat

VARIABLES project,   \* the manifest
          jobs,      \* the project's rows of the jobs table, oldest first
          compiles,  \* whether the render gates accept the project now
          process,   \* "down", "starting" or "serving"
          at, mem,   \* per request or recovery: where it is, what it holds
          sources, losses, faults, crashes

Procs == Handlers \cup {Boot}
Terminal == {"rendering", "qc", "done"}

NoPreview == [status |-> "not_rendered", claim |-> None, job |-> 0, digest |-> None, plan |-> None]
Approval  == [job : Nat, plan : Looks, digest : Nat \X {"ready"}]
Receipt   == [job : Nat, plan : Looks]
Local     == [job : Nat, plan : Looks \cup {None}, digest : (Nat \X STRING) \cup {None}]
Empty     == [job |-> 0, plan |-> None, digest |-> None]

\* An approval, or a receipt, is not the absence of one.
ASSUME RecordAssumption == None \notin Approval \cup Receipt

Job == [purpose : {"preview", "final"}, plan : Looks,
        state : {"queued", "running", "succeeded", "failed", "corrupt"}]

InPreview == {"p_claim", "p_job", "p_run", "p_encode", "p_record", "p_release"}
InFinal   == {"f_enter", "f_reopen", "f_read", "f_redo", "f_claim", "f_job", "f_run", "f_encode",
              "f_qc", "f_done", "f_qcfail", "f_qcready", "f_qcreopen", "f_recover"}
InBoot    == {"b_reset", "b_retire", "b_recover"}

ReviewTypeOK ==
  /\ project.state \in {"needs_review", "ready"} \cup Terminal
  /\ project.hook \in {"open", "resolved"} /\ project.metadata \in {"open", "resolved"}
  /\ project.resume \in {None, "needs_review", "ready"}
  /\ project.panels \in Nat /\ (project.panels = 0) = (project.resume = None)
  /\ project.look \in Looks /\ project.rev \in Nat
  /\ project.preview.status \in {"not_rendered", "rendering", "ready", "rejected", "approved"}
  /\ project.preview.claim \in Handlers \cup {None}
  /\ project.approved \in Approval \cup {None}
  /\ project.active \in Looks \cup {None}
  /\ project.receipt \in Receipt \cup {None}
  /\ jobs \in Seq(Job) /\ Len(jobs) <= MaxJobs
  /\ compiles \in BOOLEAN
  /\ process \in {"down", "starting", "serving"}
  /\ at \in [Procs -> InPreview \cup InFinal \cup InBoot \cup {"idle"}]
  /\ \A h \in Procs : mem[h].job \in 0..Len(jobs) /\ mem[h].plan \in Looks \cup {None}

\* A project as bootstrap_project leaves it: its blocking edits, the optional
\* metadata edit and the preview approval are open.
Init ==
  /\ \E l \in Looks :
       project = [state |-> "needs_review", hook |-> "open", metadata |-> "open",
                  panels |-> 0, resume |-> None, look |-> l, rev |-> 1,
                  preview |-> NoPreview, approved |-> None, active |-> None, receipt |-> None]
  /\ jobs = <<>>
  /\ compiles = TRUE
  /\ process = "serving"
  /\ at = [h \in Procs |-> "idle"]
  /\ mem = [h \in Procs |-> Empty]
  /\ sources = 0 /\ losses = 0 /\ faults = 0 /\ crashes = 0

world  == <<compiles, process, sources, losses, crashes>>
locals == <<at, mem>>
vars   == <<project, jobs, locals, faults, world>>

-----------------------------------------------------------------------------
(* What the mutations and their guards are made of.                        *)

\* _preview_revision_digest: preview and final bookkeeping is normalised
\* away, every edit and the lifecycle state are not.
Digest(p) == <<p.rev, p.state>>

PreviewOpen(p) == p.preview.status # "approved"

\* Open human tasks that block the preview.
Blocked(p) == p.hook = "open" \/ p.panels # 0

Edited(p) == [p EXCEPT !.rev = @ + 1]

\* _invalidate_preview
Invalidated(p) == [p EXCEPT !.preview = NoPreview, !.approved = None]

\* compile_plan(p) has this digest.
Compiles(p, plan) == compiles /\ p.look = plan

\* load_artifact(j) authenticates an artifact of this purpose and plan.
Loads(j, purpose, plan) ==
  j \in DOMAIN jobs /\ jobs[j] = [purpose |-> purpose, plan |-> plan, state |-> "succeeded"]

\* Slip: attempts are looked up by purpose only.
MatchingAnyPlan(purpose, plan, state) ==
  {j \in DOMAIN jobs : jobs[j].purpose = purpose /\ jobs[j].state = state}

Matching(purpose, plan, state) ==
  {j \in DOMAIN jobs : jobs[j] = [purpose |-> purpose, plan |-> plan, state |-> state]}

Newest(S) == CHOOSE j \in S : \A k \in S : k <= j

\* _matching_artifact: the newest success that still validates, 0 if none.
Artifact(purpose, plan) ==
  LET S == Matching(purpose, plan, "succeeded") IN IF S = {} THEN 0 ELSE Newest(S)

\* _approved_preview_identity_is_current
ApprovalIsCurrent(p) ==
  /\ p.approved # None /\ ~PreviewOpen(p) /\ p.preview.job = p.approved.job
  /\ p.approved.digest = <<p.rev, "ready">>
  /\ Compiles(p, p.approved.plan)

\* _final_receipt_is_semantically_stale
ReceiptIsStale(p) == p.receipt # None /\ ~Compiles(p, p.receipt.plan)

\* _validated_final_artifact
FinalIsValid(p) ==
  /\ p.receipt # None
  /\ Compiles(p, p.receipt.plan)
  /\ Loads(p.receipt.job, "final", p.receipt.plan)

\* Slip: a project sent back to review keeps its approval.
ReopenedApproved(p) ==
  [Edited(p) EXCEPT !.state = "needs_review", !.hook = "open", !.metadata = "open",
                    !.preview = NoPreview, !.active = None, !.receipt = None]

\* The mutation of _reopen_stale_final.
Reopened(p) ==
  [Invalidated(Edited(p)) EXCEPT !.state = "needs_review", !.hook = "open", !.metadata = "open",
                                 !.active = None, !.receipt = None]

Goto(h, pc) == at' = [at EXCEPT ![h] = pc]
Keep(h, m)  == mem' = [mem EXCEPT ![h] = m]

\* The request answers, or recovery lets requests in.
Leave(h) == Goto(h, "idle") /\ Keep(h, Empty)
Quiet    == UNCHANGED <<mem, jobs, faults, world>>
-----------------------------------------------------------------------------
(* Decisions of the person at the phone, and other workflows on the project. *)

\* resolve_task: an open edit is accepted in any editable state.
Resolve ==
  /\ process = "serving" /\ project.rev < MaxRev
  /\ project.state \notin Terminal
  /\ \/ /\ project.hook = "open"
        /\ \E l \in Looks :
             project' = [Invalidated(Edited(project)) EXCEPT
                           !.hook = "resolved", !.look = l, !.state = "needs_review"]
     \/ /\ project.metadata = "open"
        /\ project' = [Invalidated(Edited(project)) EXCEPT
                         !.metadata = "resolved", !.state = "needs_review"]
  /\ UNCHANGED <<jobs, locals, faults, world>>

\* approve_preview of the job shown to the person.
Approve ==
  /\ process = "serving"
  /\ project.preview.status = "ready"
  /\ project.preview.digest = Digest(project)
  /\ Compiles(project, project.preview.plan)
  /\ Loads(project.preview.job, "preview", project.preview.plan)
  /\ ~Blocked(project)
  /\ project' = [project EXCEPT
       !.state = "ready", !.preview.status = "approved",
       !.approved = [job |-> project.preview.job, plan |-> project.preview.plan,
                     digest |-> <<project.rev, "ready">>]]
  /\ UNCHANGED <<jobs, locals, faults, world>>

\* reject_preview: the edits it rehydrates first are not visible until they reopen.
Reject ==
  /\ process = "serving" /\ project.rev < MaxRev
  /\ project.preview.status \in {"ready", "rejected"}
  /\ project' = [Edited(project) EXCEPT
       !.state = "needs_review", !.hook = "open", !.metadata = "open", !.approved = None,
       !.preview = [NoPreview EXCEPT !.status = "rejected", !.job = project.preview.job]]
  /\ UNCHANGED <<jobs, locals, faults, world>>

\* Panel OCR keeps an extraction, and with uncertain text asks for a
\* correction that brings the project back to the state it was in.
Extract ==
  /\ process = "serving" /\ project.rev < MaxRev
  /\ project.state \in {"needs_review", "ready"}
  /\ \/ project' = Edited(project)
     \/ project' = [Edited(project) EXCEPT
          !.state = "needs_review", !.panels = @ + 1,
          !.resume = IF project.resume = None THEN project.state ELSE project.resume]
  /\ UNCHANGED <<jobs, locals, faults, world>>

Correct ==
  /\ process = "serving" /\ project.rev < MaxRev
  /\ project.state = "needs_review" /\ project.panels # 0
  /\ LET left == [Edited(project) EXCEPT !.panels = @ - 1]
     IN project' = [left EXCEPT
          !.resume = IF left.panels = 0 THEN None ELSE @,
          !.state = IF Blocked(left) \/ PreviewOpen(left) THEN "needs_review" ELSE project.resume]
  /\ UNCHANGED <<jobs, locals, faults, world>>

\* Voiced stories are materialised into a ready project; its approval stays.
Materialize ==
  /\ process = "serving" /\ project.rev < MaxRev
  /\ project.state = "ready"
  /\ \E l \in Looks : project' = [Edited(project) EXCEPT !.look = l]
  /\ UNCHANGED <<jobs, locals, faults, world>>

\* Scene presentation reopens the preview in the same write.
Present ==
  /\ process = "serving" /\ project.rev < MaxRev
  /\ project.state \in {"needs_review", "ready"}
  /\ \E l \in Looks :
       project' = [Invalidated(Edited(project)) EXCEPT
         !.look = l, !.state = "needs_review", !.active = None, !.receipt = None]
  /\ UNCHANGED <<jobs, locals, faults, world>>

\* A project that this one shares scenes with, or the voice cast, changes:
\* the gates of _compile_plan open or close.
SourceChanges ==
  /\ sources < MaxSources
  /\ compiles' = ~compiles /\ sources' = sources + 1
  /\ UNCHANGED <<project, jobs, locals, faults, process, losses, crashes>>

\* An artifact's files are lost or damaged.
LoseArtifact ==
  /\ losses < MaxLosses
  /\ \E j \in DOMAIN jobs :
       jobs[j].state = "succeeded" /\ jobs' = [jobs EXCEPT ![j].state = "corrupt"]
  /\ losses' = losses + 1
  /\ UNCHANGED <<project, locals, faults, compiles, process, sources, crashes>>

-----------------------------------------------------------------------------
(* _run_or_submit, for a preview and for a final render.                    *)

Purpose(h) == IF at[h] \in InPreview THEN "preview" ELSE "final"
Cleanup(h) == IF at[h] \in InPreview THEN "p_release" ELSE "f_recover"
Store(h)   == IF at[h] \in InPreview THEN "p_record" ELSE "f_qc"

\* An attempt is adopted, finished or queued, or a new one is submitted.
FindJob(h) ==
  /\ at[h] \in {"p_job", "f_job"}
  /\ LET found  == Artifact(Purpose(h), mem[h].plan)
         queued == Matching(Purpose(h), mem[h].plan, "queued")
         run    == IF at[h] = "p_job" THEN "p_run" ELSE "f_run"
     IN \/ /\ found # 0
           /\ Goto(h, Store(h)) /\ Keep(h, [mem[h] EXCEPT !.job = found])
           /\ UNCHANGED jobs
        \/ /\ found = 0 /\ queued # {}
           /\ Goto(h, run) /\ Keep(h, [mem[h] EXCEPT !.job = Newest(queued)])
           /\ UNCHANGED jobs
        \/ /\ found = 0 /\ queued = {}
           /\ Goto(h, run) /\ Keep(h, [mem[h] EXCEPT !.job = Len(jobs) + 1])
           /\ jobs' = Append(jobs, [purpose |-> Purpose(h), plan |-> mem[h].plan, state |-> "queued"])
  /\ UNCHANGED <<project, faults, world>>

\* run_job claims the queued attempt, or finds that another worker has.
StartJob(h) ==
  /\ at[h] \in {"p_run", "f_run"}
  /\ \/ /\ jobs[mem[h].job].state = "queued"
        /\ jobs' = [jobs EXCEPT ![mem[h].job].state = "running"]
        /\ Goto(h, IF at[h] = "p_run" THEN "p_encode" ELSE "f_encode")
     \/ /\ jobs[mem[h].job].state # "queued"
        /\ Goto(h, Cleanup(h))
        /\ UNCHANGED jobs
  /\ UNCHANGED <<project, mem, faults, world>>

FinishJob(h) ==
  /\ at[h] \in {"p_encode", "f_encode"}
  /\ \/ jobs' = [jobs EXCEPT ![mem[h].job].state = "succeeded"] /\ Goto(h, Store(h))
     \/ jobs' = [jobs EXCEPT ![mem[h].job].state = "failed"]    /\ Goto(h, Cleanup(h))
  /\ UNCHANGED <<project, mem, faults, world>>

-----------------------------------------------------------------------------
(* render_preview                                                           *)

\* Every request may submit one attempt.
MayCall(h) ==
  /\ process = "serving" /\ at[h] = "idle"
  /\ Len(jobs) + Cardinality({g \in Handlers : at[g] # "idle"}) < MaxJobs

CallPreview(h) ==
  /\ MayCall(h)
  /\ ~Blocked(project) /\ PreviewOpen(project) /\ compiles
  /\ Goto(h, "p_claim")
  /\ Keep(h, [job |-> Artifact("preview", project.look), plan |-> project.look,
              digest |-> Digest(project)])
  /\ UNCHANGED <<project, jobs, faults, world>>

ClaimPreview(h) ==
  /\ at[h] = "p_claim"
  /\ \/ /\ PreviewOpen(project) /\ project.preview.status # "rendering"
        /\ Digest(project) = mem[h].digest
        /\ Compiles(project, mem[h].plan)
        /\ project' = [project EXCEPT !.preview =
             [status |-> "rendering", claim |-> h, job |-> 0,
              digest |-> mem[h].digest, plan |-> mem[h].plan]]
        /\ Goto(h, IF mem[h].job = 0 THEN "p_job" ELSE "p_record")
        /\ UNCHANGED mem
     \/ /\ \/ ~PreviewOpen(project) \/ project.preview.status = "rendering"
           \/ Digest(project) # mem[h].digest
           \/ ~Compiles(project, mem[h].plan)
        /\ Leave(h)
        /\ UNCHANGED project
  /\ UNCHANGED <<jobs, faults, world>>

\* The candidate is recorded only for the claim and the revision it rendered.
StillMine(h) ==
  /\ PreviewOpen(project) /\ project.preview.claim = h
  /\ Digest(project) = mem[h].digest
  /\ Compiles(project, mem[h].plan)

RecordPreview(h) ==
  /\ at[h] = "p_record"
  /\ \/ /\ StillMine(h)
        /\ project' = [project EXCEPT
             !.state = "needs_review",
             !.preview = [status |-> "ready", claim |-> None, job |-> mem[h].job,
                          digest |-> mem[h].digest, plan |-> mem[h].plan]]
        /\ Leave(h)
     \/ /\ ~StillMine(h)
        /\ Goto(h, "p_release") /\ UNCHANGED <<project, mem>>
  /\ UNCHANGED <<jobs, faults, world>>

\* Slip: a failed request resets the preview, whoever claims it.
ReleaseAnyPreview(h) ==
  /\ at[h] = "p_release"
  /\ project' = IF project.preview.status = "rendering"
                THEN [project EXCEPT !.preview = NoPreview] ELSE project
  /\ Leave(h)
  /\ UNCHANGED <<jobs, faults, world>>

\* A request that failed takes back its own claim, never a newer one.
ReleasePreview(h) ==
  /\ at[h] = "p_release"
  /\ project' = IF PreviewOpen(project) /\ project.preview.claim = h
                THEN [project EXCEPT !.preview = NoPreview] ELSE project
  /\ Leave(h)
  /\ UNCHANGED <<jobs, faults, world>>

-----------------------------------------------------------------------------
(* render_final                                                             *)

CallFinal(h) ==
  /\ MayCall(h)
  /\ Goto(h, "f_enter")
  /\ UNCHANGED <<project, mem, jobs, faults, world>>

\* What of a ready or done project can only go back to review.
Unusable(p) ==
  \/ p.state = "done" /\ ReceiptIsStale(p)
  \/ p.state = "done" /\ ~ApprovalIsCurrent(p) /\ ~FinalIsValid(p)
  \/ p.state = "ready" /\ ~ApprovalIsCurrent(p)

EnterFinal(h) ==
  /\ at[h] = "f_enter"
  /\ Goto(h, IF Unusable(project) THEN "f_reopen" ELSE "f_read")
  /\ UNCHANGED project /\ Quiet

\* Where the caller of a failed _record_final_success goes on.
AfterQC(h) == IF h = Boot THEN Leave(h) ELSE Goto(h, "f_recover") /\ UNCHANGED mem

\* The write does not ask again whether what it found is still so.
Reopen(h) ==
  /\ at[h] \in {"f_reopen", "f_qcreopen"}
  /\ project' = Reopened(project)
  /\ IF at[h] = "f_reopen" THEN Leave(h) ELSE AfterQC(h)
  /\ UNCHANGED <<jobs, faults, world>>

MayRenderFinal(p) ==
  /\ p.state = "ready" /\ p.approved # None
  /\ p.approved.digest = Digest(p)
  /\ Compiles(p, p.approved.plan)

\* The base method reads the project again.
ReadFinal(h) ==
  /\ at[h] = "f_read"
  /\ \/ project.state = "done" /\ ~FinalIsValid(project) /\ Goto(h, "f_redo") /\ UNCHANGED mem
     \/ MayRenderFinal(project) /\ Goto(h, "f_claim") /\ Keep(h, [Empty EXCEPT !.plan = project.look])
     \/ /\ ~(project.state = "done" /\ ~FinalIsValid(project)) /\ ~MayRenderFinal(project)
        /\ Leave(h)
  /\ UNCHANGED <<project, jobs, faults, world>>

\* A done project whose artifact is gone is ready again, and the call starts over.
RedoFinal(h) ==
  /\ at[h] = "f_redo"
  /\ project' = IF project.state = "done"
                THEN [project EXCEPT !.state = "ready", !.receipt = None] ELSE project
  /\ Goto(h, "f_enter")
  /\ Quiet

ClaimFinal(h) ==
  /\ at[h] = "f_claim"
  /\ \/ /\ MayRenderFinal(project) /\ project.look = mem[h].plan
        /\ project' = [project EXCEPT !.state = "rendering", !.active = mem[h].plan]
        /\ Goto(h, "f_job") /\ UNCHANGED mem
     \/ /\ ~(MayRenderFinal(project) /\ project.look = mem[h].plan)
        /\ Leave(h) /\ UNCHANGED project
  /\ UNCHANGED <<jobs, faults, world>>

\* _record_final_success, first write.
EnterQC(h) ==
  /\ at[h] = "f_qc"
  /\ \/ /\ project.state = "rendering" /\ project.active = mem[h].plan
        /\ project' = [project EXCEPT
             !.state = "qc", !.active = None,
             !.receipt = [job |-> mem[h].job, plan |-> mem[h].plan]]
        /\ Goto(h, "f_done")
     \/ /\ ~(project.state = "rendering" /\ project.active = mem[h].plan)
        /\ Goto(h, "f_qcfail") /\ UNCHANGED project
  /\ Quiet

\* _record_final_success, second write: the artifact is authenticated again.
PassQC(h) ==
  /\ at[h] = "f_done"
  /\ \/ /\ project.state = "qc" /\ FinalIsValid(project)
        /\ project' = [project EXCEPT !.state = "done"]
        /\ Leave(h)
     \/ /\ ~(project.state = "qc" /\ FinalIsValid(project))
        /\ Goto(h, "f_qcfail") /\ UNCHANGED <<project, mem>>
  /\ UNCHANGED <<jobs, faults, world>>

\* _recover_failed_final_qc reads the project ...
FailQC(h) ==
  /\ at[h] = "f_qcfail"
  /\ LET stale == ReceiptIsStale(project) \/ ~ApprovalIsCurrent(project)
     IN IF project.state # "qc" THEN AfterQC(h)
        ELSE Goto(h, IF stale THEN "f_qcreopen" ELSE "f_qcready") /\ UNCHANGED mem
  /\ UNCHANGED <<project, jobs, faults, world>>

\* ... and writes.
LeaveQC(h) ==
  /\ at[h] = "f_qcready"
  /\ project' = IF project.state = "qc"
                THEN [project EXCEPT !.state = "ready", !.receipt = None, !.active = None]
                ELSE project
  /\ AfterQC(h)
  /\ UNCHANGED <<jobs, faults, world>>

Failed(j) == j \in DOMAIN jobs /\ jobs[j].state = "failed"

\* Slip: the clean-up keeps the claim of a failed attempt, as if it were retried.
RecoverUnfailed(h) ==
  /\ at[h] = "f_recover"
  /\ project' = IF project.state = "rendering" /\ ~Failed(mem[h].job)
                THEN [project EXCEPT !.state = "ready", !.active = None] ELSE project
  /\ Leave(h)
  /\ UNCHANGED <<jobs, faults, world>>

\* render_final's own clean-up.
RecoverFinal(h) ==
  /\ at[h] = "f_recover"
  /\ project' = IF project.state = "rendering"
                THEN [project EXCEPT !.state = "ready", !.active = None] ELSE project
  /\ Leave(h)
  /\ UNCHANGED <<jobs, faults, world>>

\* A storage error, or retries exhausted by other writers, where a request
\* writes or reads: its clean-up runs, and the clean-up's own error is dropped.
Fault(h) ==
  /\ faults < MaxFaults /\ faults' = faults + 1
  /\ \/ /\ at[h] \in {"p_job", "p_run", "p_record", "f_job", "f_run"}
        /\ Goto(h, Cleanup(h)) /\ UNCHANGED mem
     \/ at[h] \in {"f_qc", "f_done"} /\ Goto(h, "f_qcfail") /\ UNCHANGED mem
     \/ at[h] \in {"f_qcfail", "f_qcready", "f_qcreopen"} /\ Goto(h, "f_recover") /\ UNCHANGED mem
     \/ /\ at[h] \in {"p_claim", "p_release", "f_enter", "f_reopen", "f_read", "f_redo",
                      "f_claim", "f_recover"}
        /\ Leave(h)
  /\ UNCHANGED <<project, jobs, world>>

-----------------------------------------------------------------------------
(* Process death, and recovery under the runtime lease.                     *)

Crash ==
  /\ process # "down" /\ crashes < MaxCrashes
  /\ process' = "down" /\ crashes' = crashes + 1
  /\ at' = [h \in Procs |-> "idle"] /\ mem' = [h \in Procs |-> Empty]
  /\ UNCHANGED <<project, jobs, faults, compiles, sources, losses>>

Restart ==
  /\ process = "down"
  /\ process' = "starting"
  /\ Goto(Boot, "b_reset")
  /\ UNCHANGED <<project, jobs, mem, faults, compiles, sources, losses, crashes>>

\* Slip: only the claim of a project under review is reset.
ResetReviewed ==
  /\ at[Boot] = "b_reset"
  /\ project' = IF project.state = "ready" /\ project.preview.status = "rendering"
                THEN [project EXCEPT !.preview = NoPreview] ELSE project
  /\ Goto(Boot, "b_retire")
  /\ Quiet

ResetPreview ==
  /\ at[Boot] = "b_reset"
  /\ project' = IF project.preview.status = "rendering"
                THEN [project EXCEPT !.preview = NoPreview] ELSE project
  /\ Goto(Boot, "b_retire")
  /\ Quiet

\* No executor of a running attempt survives the process.
Retired(S) == [j \in DOMAIN jobs |-> IF j \in S THEN [jobs[j] EXCEPT !.state = "failed"] ELSE jobs[j]]

RetirePreviews ==
  /\ at[Boot] = "b_retire"
  /\ jobs' = Retired({j \in DOMAIN jobs : jobs[j].purpose = "preview" /\ jobs[j].state = "running"})
  /\ Goto(Boot, "b_recover")
  /\ UNCHANGED <<project, mem, faults, world>>

\* _recover_project_after_restart for a project in qc.
RecoverQC ==
  /\ at[Boot] = "b_recover" /\ project.state = "qc"
  /\ project' =
       IF ReceiptIsStale(project) \/ (~ApprovalIsCurrent(project) /\ ~FinalIsValid(project))
       THEN Reopened(project)
       ELSE [project EXCEPT !.state = IF FinalIsValid(project) THEN "done" ELSE "ready"]
  /\ Leave(Boot)
  /\ UNCHANGED <<jobs, faults, world>>

\* ... in rendering: a finished render of the current plan is adopted,
Adoptable == Compiles(project, project.active) /\ Artifact("final", project.active) # 0

AdoptFinal ==
  /\ at[Boot] = "b_recover" /\ project.state = "rendering"
  /\ Adoptable
  /\ Goto(Boot, "f_qc")
  /\ Keep(Boot, [Empty EXCEPT !.job = Artifact("final", project.active), !.plan = project.active])
  /\ UNCHANGED <<project, jobs, faults, world>>

\* ... otherwise its running attempts are retired, and then the claim ends.
RetireFinals ==
  /\ at[Boot] = "b_recover" /\ project.state = "rendering"
  /\ ~Adoptable
  /\ Matching("final", project.active, "running") # {}
  /\ jobs' = Retired(Matching("final", project.active, "running"))
  /\ UNCHANGED <<project, locals, faults, world>>

RecoverRendering ==
  /\ at[Boot] = "b_recover" /\ project.state = "rendering"
  /\ ~Adoptable
  /\ Matching("final", project.active, "running") = {}
  /\ project' = IF Compiles(project, project.active)
                THEN [project EXCEPT !.state = "ready", !.active = None]
                ELSE Reopened(project)
  /\ Leave(Boot)
  /\ UNCHANGED <<jobs, faults, world>>

\* ... in any other state there is nothing to recover.
RecoverNothing ==
  /\ at[Boot] = "b_recover" /\ project.state \notin {"qc", "rendering"}
  /\ Leave(Boot)
  /\ UNCHANGED <<project, jobs, faults, world>>

\* Requests are served when recovery has returned.
Serve ==
  /\ process = "starting" /\ at[Boot] = "idle"
  /\ process' = "serving"
  /\ UNCHANGED <<project, jobs, locals, faults, compiles, sources, losses, crashes>>

-----------------------------------------------------------------------------
Render(h) ==
  \/ FindJob(h) \/ StartJob(h) \/ FinishJob(h)
  \/ ClaimPreview(h) \/ RecordPreview(h) \/ ReleasePreview(h)
  \/ EnterFinal(h) \/ Reopen(h) \/ ReadFinal(h) \/ RedoFinal(h) \/ ClaimFinal(h)
  \/ EnterQC(h) \/ PassQC(h) \/ FailQC(h) \/ LeaveQC(h) \/ RecoverFinal(h)

Recover ==
  \/ ResetPreview \/ RetirePreviews \/ RecoverQC \/ AdoptFinal \/ RetireFinals
  \/ RecoverRendering \/ RecoverNothing \/ Serve

People == Resolve \/ Approve \/ Reject
Workflows == Extract \/ Correct \/ Materialize \/ Present \/ SourceChanges \/ LoseArtifact

Next ==
  \/ People \/ Workflows
  \/ \E h \in Handlers : CallPreview(h) \/ CallFinal(h) \/ Fault(h)
  \/ \E h \in Procs : Render(h)
  \/ Crash \/ Restart \/ Recover

Spec == Init /\ [][Next]_vars

\* Requests run to their end, and a dead process is started again.
FairSpec ==
  /\ Spec
  /\ \A h \in Procs : WF_vars(Render(h))
  /\ WF_vars(Restart) /\ WF_vars(Recover)

-----------------------------------------------------------------------------
(* Properties                                                               *)

\* While a project renders, is checked or is delivered, it is exactly the
\* revision and the look of an explicit approval, whatever other requests,
\* workflows, failures and restarts did in between (render_final's claim,
\* _record_final_success, _recover_project_after_restart).
RenderedIsApproved ==
  project.state \in Terminal =>
    /\ project.approved # None
    /\ project.approved.digest = <<project.rev, "ready">>
    /\ project.approved.plan = project.look
    /\ project.state = "rendering" => project.active = project.look

\* The delivered file is a final render that shows what the preview the
\* person watched showed: both attempts are of the project's look.
DeliveredIsWhatWasWatched ==
  project.state = "done" =>
    /\ project.receipt # None /\ project.approved # None
    /\ jobs[project.receipt.job].purpose = "final"
    /\ jobs[project.approved.job].purpose = "preview"
    /\ jobs[project.receipt.job].plan = project.look
    /\ jobs[project.approved.job].plan = project.look

\* A candidate offered for approval is a preview of what it says it is, and
\* unless somebody has edited since, it can be approved.
CandidateIsHonest ==
  project.preview.status = "ready" =>
    /\ jobs[project.preview.job].purpose = "preview"
    /\ jobs[project.preview.job].plan = project.preview.plan
    /\ project.preview.digest[1] = project.rev =>
         project.preview.digest = Digest(project) /\ project.preview.plan = project.look

\* What is approved, rendered and delivered is one and the same
\* (application/_review_base.py): all of these, and the types.
ReviewInv == ReviewTypeOK /\ RenderedIsApproved /\ DeliveredIsWhatWasWatched /\ CandidateIsHonest

\* A project is never left in a state only a request can end after that
\* request is gone: while requests are served and no storage error has hit a
\* clean-up, a preview claim and a final render have a live owner.
Finals == {h \in Handlers : at[h] \in {"f_job", "f_run", "f_encode", "f_qc", "f_done", "f_qcfail",
                                      "f_qcready", "f_qcreopen", "f_recover"}}

NoOrphanClaim ==
  process = "serving" /\ faults = 0 =>
    /\ project.state \in {"rendering", "qc"} => Finals # {}
    /\ project.preview.status = "rendering" =>
         at[project.preview.claim] \in InPreview \ {"p_claim"}

\* A request that was overtaken leaves a newer preview claim alone: a claim
\* ends by its own request, by an edit, or by recovery.
ClaimIsNotStolen ==
  [][project.preview.status = "rendering" /\ project'.preview # project.preview
       => \/ at'[project.preview.claim] # at[project.preview.claim]
          \/ project'.rev # project.rev
          \/ process = "starting"]_vars

-----------------------------------------------------------------------------
(* Refinement of ApprovedFilm *)

CopyOf(p) == [rev |-> p.rev, look |-> p.look]

\* The approval names its revision by the digest, the look by the plan.
SealOf(p) ==
  IF p.approved = None THEN None ELSE [rev |-> p.approved.digest[1], look |-> p.approved.plan]

FilmOf(p) == IF p.state \in {"qc", "done"} /\ p.receipt # None THEN p.receipt.plan ELSE None

PhaseOf(p) ==
  CASE p.state \in {"needs_review", "ready"} -> "editing"
    [] p.state \in {"rendering", "qc"}      -> "making"
    [] p.state = "done"                     -> "delivered"

Contract == INSTANCE ApprovedFilm
  WITH copy <- CopyOf(project), seal <- SealOf(project),
       film <- FilmOf(project), phase <- PhaseOf(project)

\* Decisions, renders, failures and recovery together implement: begin only what
\* is approved as it stands, change nothing until it is delivered or withdrawn,
\* deliver what was approved.
ImplementsApprovedFilm == Contract!Spec

-----------------------------------------------------------------------------
(* Liveness *)

\* A preview that is rendering, and a final render, come to an end, also
\* when processes die in the middle (reconcile_persisted_state), unless a
\* storage error has hit a clean-up.
RendersEnd ==
  /\ project.preview.status = "rendering" ~> project.preview.status # "rendering" \/ faults > 0
  /\ project.state \in {"rendering", "qc"} ~> project.state \notin {"rendering", "qc"} \/ faults > 0

\* pr10-review-preview.md: "A concurrent decision cannot blindly overwrite a
\* newer project."  render_final's decision to send an unusable project back
\* to review should not undo edits and approvals made since it was taken.
NewDecisions(p) == p.hook = "resolved" \/ p.metadata = "resolved" \/ p.approved # None

ReopenSparesDecisions ==
  [][\A h \in Handlers :
       at[h] = "f_reopen" /\ project' = Reopened(project)
         => Unusable(project) \/ ~NewDecisions(project)]_vars

=============================================================================
