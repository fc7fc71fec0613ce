------------------------- MODULE ReviewProjectProofs -------------------------
(***************************************************************************)
(* Proofs about ReviewProject, for any finite set of request threads, any    *)
(* looks and any bounds.  ReviewInv is not inductive: it does not say that   *)
(* only a project under review has an open preview, what the attempt a        *)
(* request holds shows, nor who ends a claim while requests are served and   *)
(* while a restart recovers.                                                 *)
(***************************************************************************)
EXTENDS ReviewProject, FiniteSetTheorems, WellFoundedInduction, TLAPS

States == {"needs_review", "ready"} \cup Terminal

Preview ==
  [status : {"not_rendered", "rendering", "ready", "rejected", "approved"},
   claim : Handlers \cup {None}, job : Nat,
   digest : (Nat \X States) \cup {None}, plan : Looks \cup {None}]

Project ==
  [state : States, hook : {"open", "resolved"}, metadata : {"open", "resolved"},
   panels : Nat, resume : {None, "needs_review", "ready"}, look : Looks, rev : Nat,
   preview : Preview, approved : Approval \cup {None}, active : Looks \cup {None},
   receipt : Receipt \cup {None}]

Memory ==
  [job : Nat, plan : Looks \cup {None}, digest : (Nat \X States) \cup {None}]

Places == InPreview \cup InFinal \cup InBoot \cup {"idle"}

\* Attempt j is of this purpose and renders this plan, whatever became of it.
Shows(j, purpose, plan) ==
  j \in DOMAIN jobs /\ jobs[j].purpose = purpose /\ jobs[j].plan = plan

\* The manifest: only a project under review has an open preview; what is
\* rendered is what was approved; and what is approved, delivered or offered
\* is an attempt that shows it.
Sane ==
  /\ project \in Project
  /\ (project.panels = 0) <=> (project.resume = None)
  /\ project.state # "needs_review" => project.preview.status = "approved"
  /\ RenderedIsApproved
  /\ project.approved # None =>
       Shows(project.approved.job, "preview", project.approved.plan)
  /\ project.receipt # None =>
       Shows(project.receipt.job, "final", project.receipt.plan)
  /\ project.state = "done" =>
       project.receipt # None /\ project.receipt.plan = project.look
  /\ project.preview.status = "ready" =>
       /\ Shows(project.preview.job, "preview", project.preview.plan)
       /\ project.preview.digest \in Nat \X States
       /\ project.preview.digest[1] <= project.rev
       /\ project.preview.digest[1] = project.rev =>
            project.preview.digest = Digest(project) /\ project.preview.plan = project.look
  /\ project.preview.status = "rendering" => project.preview.claim \in Handlers

\* What a request or the recovery holds: the attempt it runs shows its plan.
Holds(h) ==
  /\ mem[h].job <= Len(jobs)
  /\ at[h] \in InPreview => mem[h].plan \in Looks /\ mem[h].digest \in Nat \X States
  /\ at[h] = "p_claim" /\ mem[h].job # 0 => Shows(mem[h].job, "preview", mem[h].plan)
  /\ at[h] \in {"p_run", "p_encode", "p_record"} => Shows(mem[h].job, "preview", mem[h].plan)
  /\ at[h] \in {"f_claim", "f_job"} => mem[h].plan \in Looks
  /\ at[h] \in {"f_run", "f_encode", "f_qc"} => Shows(mem[h].job, "final", mem[h].plan)

\* The requests that may still submit an attempt.
Submitting ==
  {h \in Handlers : at[h] \in {"p_claim", "p_job", "f_enter", "f_read", "f_redo",
                               "f_claim", "f_job"}}

QCPlaces == {"f_done", "f_qcfail", "f_qcready", "f_qcreopen"}
FinalPlaces == QCPlaces \cup {"f_job", "f_run", "f_encode", "f_qc", "f_recover"}

\* Attempts, places and what is held there.
Running ==
  /\ jobs \in Seq(Job) /\ Len(jobs) + Cardinality(Submitting) <= MaxJobs
  /\ at \in [Procs -> Places] /\ mem \in [Procs -> Memory]
  /\ compiles \in BOOLEAN /\ process \in {"down", "starting", "serving"}
  /\ faults \in Nat
  /\ \A h \in Procs : Holds(h)

\* Who is where while the process is down, starts or serves; and while it
\* starts, what recovery has already ended.
Recovering ==
  /\ process = "down" => at[Boot] = "idle"
  /\ process # "serving" => \A h \in Handlers : at[h] = "idle"
  /\ process = "serving" => at[Boot] = "idle"
  /\ \A h \in Handlers : at[h] \notin InBoot
  /\ at[Boot] \in InBoot \cup QCPlaces \cup {"idle", "f_qc"}
  /\ process = "starting" /\ at[Boot] # "b_reset" => project.preview.status # "rendering"
  /\ process = "starting" /\ at[Boot] = "idle" => project.state \notin {"rendering", "qc"}
  /\ at[Boot] = "f_qc" => project.state = "rendering" /\ project.active = mem[Boot].plan
  /\ at[Boot] \in QCPlaces => project.state = "qc"

\* While requests are served and no storage error has hit, every claim has an
\* owner who will end it.
Owned ==
  process = "serving" /\ faults = 0 =>
    /\ project.state = "rendering" => \E h \in Handlers : at[h] \in FinalPlaces
    /\ project.state = "qc" => \E h \in Handlers : at[h] \in QCPlaces
    /\ project.preview.status = "rendering" =>
         at[project.preview.claim] \in InPreview \ {"p_claim"}

ReviewIInv == Sane /\ Running /\ Recovering /\ Owned

-----------------------------------------------------------------------------
(* The attempts *)

\* Attempts are never forgotten, and never change purpose or plan.
JobsGrow ==
  /\ jobs' \in Seq(Job)
  /\ Len(jobs) <= Len(jobs')
  /\ \A j \in 1..Len(jobs) : jobs'[j].purpose = jobs[j].purpose /\ jobs'[j].plan = jobs[j].plan

\* A nonempty set of numbers up to n has a greatest one.
LEMMA MaxExists ==
  ASSUME NEW n \in Nat, NEW S, S \subseteq 0..n, S # {}
  PROVE  \E m \in S : \A s \in S : s <= m
<1> DEFINE T == {n - s : s \in S}
<1>1. \A s \in S : s \in Nat /\ n - s \in Nat
  OBVIOUS
<1>2. T \subseteq Nat /\ T # {}
  BY <1>1
<1> DEFINE R == OpToRel(<, Nat)
<1>3. IsWellFoundedOn(R, Nat)
  BY NatLessThanWellFounded
<1>4. \A x, y \in Nat : x < y => <<x, y>> \in R
  BY DEF OpToRel
<1> HIDE DEF R
<1>5. \E x \in T : \A y \in T : ~(<<y, x>> \in R)
  BY <1>2, <1>3, WFMin
<1>6. PICK m \in S : \A y \in T : ~(<<y, n - m>> \in R)
  BY <1>5
<1>7. \A s \in S : ~(n - s < n - m)
  BY <1>1, <1>2, <1>4, <1>6
<1> QED
  BY <1>1, <1>7

\* The newest of some attempts is one of them.
LEMMA NewestIsOne ==
  ASSUME jobs \in Seq(Job), NEW S, S \subseteq DOMAIN jobs, S # {}
  PROVE  Newest(S) \in S
<1>1. S \subseteq 0..Len(jobs) /\ Len(jobs) \in Nat
  OBVIOUS
<1>2. \E m \in S : \A s \in S : s <= m
  BY <1>1, MaxExists
<1> QED
  BY <1>2 DEF Newest

\* A matching artifact is an attempt of this purpose that renders this plan.
LEMMA ArtifactShows ==
  ASSUME jobs \in Seq(Job), NEW purpose, NEW plan
  PROVE  /\ Artifact(purpose, plan) \in Nat /\ Artifact(purpose, plan) <= Len(jobs)
         /\ Artifact(purpose, plan) # 0 => Shows(Artifact(purpose, plan), purpose, plan)
<1> DEFINE S == Matching(purpose, plan, "succeeded")
<1>1. S \subseteq DOMAIN jobs
  BY DEF Matching
<1>2. CASE S = {}
  BY <1>2 DEF Artifact
<1>3. CASE S # {}
  <2>1. Artifact(purpose, plan) = Newest(S) /\ Newest(S) \in S
    BY <1>1, <1>3, NewestIsOne DEF Artifact
  <2> QED
    BY <1>1, <2>1 DEF Matching, Shows
<1> QED
  BY <1>2, <1>3

\* A queued attempt that matches shows its plan as well.
LEMMA QueuedShows ==
  ASSUME jobs \in Seq(Job), NEW purpose, NEW plan, Matching(purpose, plan, "queued") # {}
  PROVE  LET j == Newest(Matching(purpose, plan, "queued")) IN
         j \in Nat /\ j <= Len(jobs) /\ Shows(j, purpose, plan)
<1> DEFINE S == Matching(purpose, plan, "queued")
<1>1. S \subseteq DOMAIN jobs
  BY DEF Matching
<1>2. Newest(S) \in S
  BY <1>1, NewestIsOne
<1> QED
  BY <1>1, <1>2 DEF Matching, Shows

\* A change of the states of some attempts only.
LEMMA StatesChange ==
  ASSUME jobs \in Seq(Job), jobs' \in Seq(Job), Len(jobs') = Len(jobs),
         \A j \in 1..Len(jobs) : jobs'[j].purpose = jobs[j].purpose /\ jobs'[j].plan = jobs[j].plan
  PROVE  JobsGrow
  BY DEF JobsGrow

\* One attempt takes another state.
LEMMA OneStateChanges ==
  ASSUME jobs \in Seq(Job), NEW j \in DOMAIN jobs,
         NEW s \in {"queued", "running", "succeeded", "failed", "corrupt"},
         jobs' = [jobs EXCEPT ![j].state = s]
  PROVE  JobsGrow /\ Len(jobs') = Len(jobs)
<1>1. \A i \in 1..Len(jobs) : jobs[i] \in Job
  OBVIOUS
<1>2. jobs' \in Seq(Job) /\ Len(jobs') = Len(jobs)
  BY <1>1 DEF Job
<1>3. \A i \in 1..Len(jobs) : jobs'[i].purpose = jobs[i].purpose /\ jobs'[i].plan = jobs[i].plan
  BY <1>1 DEF Job
<1> QED
  BY <1>2, <1>3 DEF JobsGrow

\* Some attempts are retired.
LEMMA RetiringGrows ==
  ASSUME jobs \in Seq(Job), NEW S, jobs' = Retired(S)
  PROVE  JobsGrow /\ Len(jobs') = Len(jobs)
<1>1. \A i \in 1..Len(jobs) : jobs[i] \in Job
  OBVIOUS
<1>2. jobs' = [i \in 1..Len(jobs) |-> IF i \in S THEN [jobs[i] EXCEPT !.state = "failed"] ELSE jobs[i]]
  BY DEF Retired
<1>3. \A i \in 1..Len(jobs) : jobs'[i] \in Job
  BY <1>1, <1>2 DEF Job
<1>4. jobs' \in Seq(Job) /\ Len(jobs') = Len(jobs)
  BY <1>2, <1>3
<1>5. \A i \in 1..Len(jobs) : jobs'[i].purpose = jobs[i].purpose /\ jobs'[i].plan = jobs[i].plan
  BY <1>1, <1>2 DEF Job
<1> QED
  BY <1>4, <1>5 DEF JobsGrow

\* What an attempt shows, it goes on showing.
LEMMA ShownStays ==
  ASSUME jobs \in Seq(Job), JobsGrow
  PROVE  \A j, purpose, plan :
           Shows(j, purpose, plan) =>
             j \in DOMAIN jobs' /\ jobs'[j].purpose = purpose /\ jobs'[j].plan = plan
  BY DEF JobsGrow, Shows

\* The manifest is sane whatever becomes of the attempts.
LEMMA SaneStays ==
  ASSUME Sane, jobs \in Seq(Job), JobsGrow, project' = project
  PROVE  Sane'
<1>1. Digest(project)' = Digest(project) /\ RenderedIsApproved'
  BY DEF Digest, Sane, RenderedIsApproved
<1>2. project.approved # None => Shows(project.approved.job, "preview", project.approved.plan)'
  BY ShownStays DEF Sane, Shows
<1>3. project.receipt # None => Shows(project.receipt.job, "final", project.receipt.plan)'
  BY ShownStays DEF Sane, Shows
<1>4. project.preview.status = "ready" =>
        Shows(project.preview.job, "preview", project.preview.plan)'
  BY ShownStays DEF Sane, Shows
<1> QED
  BY <1>1, <1>2, <1>3, <1>4 DEF Sane, Digest


-----------------------------------------------------------------------------
(* Decisions and other workflows *)

\* Nothing happens to the attempts.
LEMMA JobsStay ==
  ASSUME jobs \in Seq(Job), jobs' = jobs
  PROVE  JobsGrow
  BY DEF JobsGrow

\* An edit changes the revision only.
LEMMA EditedIs ==
  \A p \in Project :
    /\ Edited(p) \in Project /\ Edited(p).rev = p.rev + 1
    /\ Edited(p).state = p.state /\ Edited(p).panels = p.panels /\ Edited(p).resume = p.resume
    /\ Edited(p).preview = p.preview /\ Edited(p).approved = p.approved
    /\ Edited(p).receipt = p.receipt
<1> TAKE p \in Project
<1> DEFINE r == p.rev + 1
<1>1. r \in Nat
  BY DEF Project
<1> HIDE DEF r
<1>2. Edited(p) = [p EXCEPT !.rev = r]
  BY DEF Edited, r
<1> QED
  BY <1>1, <1>2 DEF Project, r

\* What is not rendered is a preview.
LEMMA NoPreviewIs == NoPreview \in Preview /\ NoPreview.status = "not_rendered"
  BY DEF NoPreview, Preview

\* Invalidation changes the preview and its approval only.
LEMMA InvalidatedIs ==
  \A p \in Project :
    /\ Invalidated(p) \in Project /\ Invalidated(p).rev = p.rev
    /\ Invalidated(p).state = p.state
    /\ Invalidated(p).panels = p.panels /\ Invalidated(p).resume = p.resume
    /\ Invalidated(p).preview = NoPreview /\ Invalidated(p).approved = None
    /\ Invalidated(p).receipt = p.receipt
<1> TAKE p \in Project
<1> QED
  BY NoPreviewIs DEF Invalidated, Project

\* A project sent back to review, with what it showed taken back, is sane.
LEMMA ResetIsSane ==
  ASSUME Sane, jobs \in Seq(Job), jobs' = jobs,
         project' \in Project, project'.state = "needs_review",
         project'.preview.status \in {"not_rendered", "rejected"},
         project'.approved = None, project'.receipt \in {project.receipt, None},
         project'.panels = project.panels, project'.resume = project.resume
  PROVE  Sane'
<1>1. RenderedIsApproved'
  BY DEF RenderedIsApproved, Terminal
<1>2. project'.receipt # None => Shows(project.receipt.job, "final", project.receipt.plan)'
  BY DEF Sane, Shows
<1> QED
  BY <1>1, <1>2 DEF Sane

\* The stale final goes back to review.
LEMMA ReopenedIsSane ==
  ASSUME ReviewAssumption, Sane, jobs \in Seq(Job), jobs' = jobs, project' = Reopened(project)
  PROVE  Sane' /\ project'.state = "needs_review" /\ project'.preview = NoPreview
<1>1. /\ project' \in Project /\ project'.state = "needs_review"
      /\ project'.preview = NoPreview /\ project'.approved = None /\ project'.receipt = None
      /\ project'.panels = project.panels /\ project'.resume = project.resume
  <2> DEFINE q == Invalidated(Edited(project))
  <2>1. /\ q \in Project /\ q.preview = NoPreview /\ q.approved = None
        /\ q.panels = project.panels /\ q.resume = project.resume
    BY EditedIs, InvalidatedIs DEF Sane
  <2>2. project' = [q EXCEPT !.state = "needs_review", !.hook = "open", !.metadata = "open",
                            !.active = None, !.receipt = None]
    BY DEF Reopened
  <2> HIDE DEF q
  <2> QED
    BY <2>1, <2>2 DEF Project, States
<1>2. project'.preview.status = "not_rendered"
  BY <1>1 DEF NoPreview
<1> QED
  BY <1>1, <1>2, ResetIsSane

\* A task is resolved: the counts and the claim stay right.
LEMMA ResolveSane ==
  ASSUME ReviewAssumption, Sane, jobs \in Seq(Job), Resolve
  PROVE  Sane' /\ project'.state = "needs_review" /\ project'.preview = NoPreview
<1>1. /\ project' \in Project /\ project'.state = "needs_review"
      /\ project'.preview = NoPreview /\ project'.approved = None
      /\ project'.receipt = project.receipt
      /\ project'.panels = project.panels /\ project'.resume = project.resume
  <2> DEFINE q == Invalidated(Edited(project))
  <2>1. /\ q \in Project /\ q.preview = NoPreview /\ q.approved = None
        /\ q.panels = project.panels /\ q.resume = project.resume /\ q.receipt = project.receipt
    BY EditedIs, InvalidatedIs DEF Sane
  <2>2. \/ \E l \in Looks :
             project' = [q EXCEPT !.hook = "resolved", !.look = l, !.state = "needs_review"]
        \/ project' = [q EXCEPT !.metadata = "resolved", !.state = "needs_review"]
    BY DEF Resolve
  <2> HIDE DEF q
  <2>3. ASSUME NEW l \in Looks, NEW h \in {"open", "resolved"}, NEW m \in {"open", "resolved"},
               project' = [q EXCEPT !.hook = h, !.metadata = m, !.look = l, !.state = "needs_review"]
        PROVE  /\ project' \in Project /\ project'.state = "needs_review"
               /\ project'.preview = q.preview /\ project'.approved = q.approved
               /\ project'.receipt = q.receipt
               /\ project'.panels = q.panels /\ project'.resume = q.resume
    BY <2>1, <2>3 DEF Project, States
  <2>4. \E l \in Looks, h \in {"open", "resolved"}, m \in {"open", "resolved"} :
          project' = [q EXCEPT !.hook = h, !.metadata = m, !.look = l, !.state = "needs_review"]
    <3>1. /\ q.look \in Looks /\ q.hook \in {"open", "resolved"} /\ q.metadata \in {"open", "resolved"}
          /\ \A l \in Looks : [q EXCEPT !.hook = "resolved", !.look = l, !.state = "needs_review"]
               = [q EXCEPT !.hook = "resolved", !.metadata = q.metadata, !.look = l, !.state = "needs_review"]
          /\ [q EXCEPT !.metadata = "resolved", !.state = "needs_review"]
               = [q EXCEPT !.hook = q.hook, !.metadata = "resolved", !.look = q.look, !.state = "needs_review"]
      BY <2>1 DEF Project
    <3> QED
      BY <2>2, <3>1
  <2> QED
    BY <2>1, <2>3, <2>4
<1>2. project'.preview.status = "not_rendered"
  BY <1>1, NoPreviewIs
<1>3. jobs' = jobs
  BY DEF Resolve
<1> QED
  BY <1>1, <1>2, <1>3, ResetIsSane

\* A rejection leaves a sane project.
LEMMA RejectSane ==
  ASSUME ReviewAssumption, Sane, jobs \in Seq(Job), Reject
  PROVE  Sane' /\ project'.state = "needs_review" /\ project'.preview.status = "rejected"
<1>1. /\ project' \in Project /\ project'.state = "needs_review"
      /\ project'.preview.status = "rejected" /\ project'.approved = None
      /\ project'.receipt = project.receipt
      /\ project'.panels = project.panels /\ project'.resume = project.resume
  <2> DEFINE q == Edited(project)
             r == [NoPreview EXCEPT !.status = "rejected", !.job = project.preview.job]
  <2>1. /\ q \in Project /\ q.receipt = project.receipt
        /\ q.panels = project.panels /\ q.resume = project.resume
    BY EditedIs DEF Sane
  <2>2. r \in Preview /\ r.status = "rejected"
    BY DEF Preview, NoPreview, Sane, Project
  <2>3. project' = [q EXCEPT !.state = "needs_review", !.hook = "open", !.metadata = "open",
                            !.approved = None, !.preview = r]
    BY DEF Reject
  <2> HIDE DEF q, r
  <2> QED
    BY <2>1, <2>2, <2>3 DEF Project, States
<1>2. jobs' = jobs
  BY DEF Reject
<1> QED
  BY <1>1, <1>2, ResetIsSane

\* So does a presented preview.
LEMMA PresentSane ==
  ASSUME ReviewAssumption, Sane, jobs \in Seq(Job), Present
  PROVE  Sane' /\ project'.state = "needs_review" /\ project'.preview = NoPreview
<1>1. /\ project' \in Project /\ project'.state = "needs_review"
      /\ project'.preview = NoPreview /\ project'.approved = None
      /\ project'.receipt = None
      /\ project'.panels = project.panels /\ project'.resume = project.resume
  <2> DEFINE q == Invalidated(Edited(project))
  <2>1. /\ q \in Project /\ q.preview = NoPreview /\ q.approved = None
        /\ q.panels = project.panels /\ q.resume = project.resume
    BY EditedIs, InvalidatedIs DEF Sane
  <2>2. \E l \in Looks :
          project' = [q EXCEPT !.look = l, !.state = "needs_review", !.active = None,
                              !.receipt = None]
    BY DEF Present
  <2> HIDE DEF q
  <2>3. PICK l \in Looks :
          project' = [q EXCEPT !.look = l, !.state = "needs_review", !.active = None, !.receipt = None]
    BY <2>2
  <2>4. project' \in Project
    BY <2>1, <2>3 DEF Project, States
  <2>5. /\ project'.state = "needs_review" /\ project'.preview = q.preview
        /\ project'.approved = q.approved /\ project'.receipt = None
        /\ project'.panels = q.panels /\ project'.resume = q.resume
    BY <2>1, <2>3 DEF Project
  <2> QED
    BY <2>1, <2>4, <2>5
<1>2. project'.preview.status = "not_rendered" /\ jobs' = jobs
  BY <1>1 DEF NoPreview, Present
<1> QED
  BY <1>1, <1>2, ResetIsSane

\* What is approved is the candidate the person was shown.
LEMMA ApproveSane ==
  ASSUME ReviewAssumption, Sane, jobs \in Seq(Job), Approve
  PROVE  Sane' /\ project'.state = "ready" /\ project'.preview.status = "approved"
<1>1. /\ Shows(project.preview.job, "preview", project.preview.plan)
      /\ project.preview.plan \in Looks /\ project.preview.job \in Nat
  <2>1. project.preview.status = "ready" /\ project \in Project
        /\ Loads(project.preview.job, "preview", project.preview.plan)
    BY DEF Approve, Sane
  <2>2. jobs[project.preview.job] \in Job /\ project.preview.job \in DOMAIN jobs
    BY <2>1 DEF Loads
  <2> QED
    BY <2>1, <2>2 DEF Loads, Job, Shows
<1> DEFINE a == [job |-> project.preview.job, plan |-> project.preview.plan,
                 digest |-> <<project.rev, "ready">>]
<1>2. a \in Approval
  BY <1>1 DEF Approval, Sane, Project
<1>3. project' = [project EXCEPT !.state = "ready", !.preview.status = "approved", !.approved = a]
      /\ jobs' = jobs
  BY DEF Approve
<1> HIDE DEF a
<1>4. /\ project' \in Project /\ project'.state = "ready" /\ project'.preview.status = "approved"
      /\ project'.approved = a /\ project'.receipt = project.receipt
      /\ project'.panels = project.panels /\ project'.resume = project.resume
  <2> DEFINE r == [project.preview EXCEPT !.status = "approved"]
  <2>1. r \in Preview /\ r.status = "approved" /\ project \in Project
    BY DEF Preview, Sane, Project
  <2>2. project' = [project EXCEPT !.state = "ready", !.preview = r, !.approved = a]
    BY <1>3
  <2> HIDE DEF r
  <2> QED
    BY <1>2, <2>1, <2>2 DEF Project, States
<1>5. RenderedIsApproved'
  BY <1>4 DEF RenderedIsApproved, Terminal
<1>6. Shows(project.approved.job, "preview", project.approved.plan)'
  BY <1>1, <1>3, <1>4 DEF Shows, a
<1>7. project'.receipt # None => Shows(project.receipt.job, "final", project.receipt.plan)'
  BY <1>3, <1>4 DEF Sane, Shows
<1> QED
  BY <1>4, <1>5, <1>6, <1>7 DEF Sane

\* An edit that leaves decisions alone: the revision goes up, and what is
\* open, approved and delivered stays.
Continues ==
  /\ project' \in Project /\ project'.rev = project.rev + 1
  /\ project'.state \in {"needs_review", "ready"}
  /\ project'.state # "needs_review" => project.preview.status = "approved"
  /\ project'.preview = project.preview /\ project'.approved = project.approved
  /\ project'.receipt = project.receipt
  /\ (project'.panels = 0) <=> (project'.resume = None)

\* A workflow that goes on, into review or out of an approved one, is sane.
LEMMA ContinuedIsSane ==
  ASSUME Sane, jobs \in Seq(Job), jobs' = jobs, Continues
  PROVE  Sane'
<1>1. RenderedIsApproved'
  BY DEF Continues, RenderedIsApproved, Terminal
<1>2. project'.approved # None => Shows(project.approved.job, "preview", project.approved.plan)'
  BY DEF Continues, Sane, Shows
<1>3. project'.receipt # None => Shows(project.receipt.job, "final", project.receipt.plan)'
  BY DEF Continues, Sane, Shows
<1>4. project'.preview.status = "ready" =>
        /\ Shows(project.preview.job, "preview", project.preview.plan)'
        /\ project'.preview.digest \in Nat \X States
        /\ project'.preview.digest[1] < project'.rev
  BY DEF Continues, Sane, Shows, Project
<1> QED
  BY <1>1, <1>2, <1>3, <1>4 DEF Continues, Sane, Project

\* A look is extracted: the project stays sane, ...
LEMMA ExtractSane ==
  ASSUME ReviewAssumption, Sane, jobs \in Seq(Job), Extract
  PROVE  Sane' /\ Continues
<1>1. Continues
  <2> DEFINE q == Edited(project)
  <2>1. /\ q \in Project /\ q.rev = project.rev + 1 /\ q.state = project.state
        /\ q.panels = project.panels /\ q.resume = project.resume
        /\ q.preview = project.preview /\ q.approved = project.approved
        /\ q.receipt = project.receipt /\ project.state \in {"needs_review", "ready"}
    BY EditedIs DEF Sane, Extract
  <2>2. \/ project' = q
        \/ project' = [q EXCEPT !.state = "needs_review", !.panels = @ + 1,
             !.resume = IF project.resume = None THEN project.state ELSE project.resume]
    BY DEF Extract
  <2> HIDE DEF q
  <2>3. q.panels \in Nat /\ q.resume \in {None, "needs_review", "ready"}
        /\ ((q.panels = 0) <=> (q.resume = None))
        /\ (project.state # "needs_review" => project.preview.status = "approved")
    BY <2>1 DEF Project, Sane
  <2>4. None # "needs_review" /\ None # "ready"
    BY DEF ReviewAssumption
  <2>5. CASE project' = q
    BY <2>1, <2>3, <2>5 DEF Continues
  <2>6. CASE project' # q
    <3> DEFINE n == q.panels + 1
               s == IF project.resume = None THEN project.state ELSE project.resume
    <3>1. n \in Nat /\ n # 0 /\ s \in {"needs_review", "ready"}
      BY <2>1, <2>3
    <3>2. project' = [q EXCEPT !.state = "needs_review", !.panels = n, !.resume = s]
      BY <2>2, <2>6
    <3> HIDE DEF n, s
    <3>3. project' \in Project /\ project'.state = "needs_review" /\ project'.panels = n
          /\ project'.resume = s /\ project'.rev = q.rev /\ project'.preview = q.preview
          /\ project'.approved = q.approved /\ project'.receipt = q.receipt
      BY <2>1, <3>1, <3>2 DEF Project, States
    <3> QED
      BY <2>1, <2>4, <3>1, <3>3 DEF Continues
  <2> QED
    BY <2>5, <2>6
<1> QED
  BY <1>1, ContinuedIsSane DEF Extract

\* ... corrected, ...
LEMMA CorrectSane ==
  ASSUME ReviewAssumption, Sane, jobs \in Seq(Job), Correct
  PROVE  Sane' /\ Continues
<1>1. Continues
  <2> DEFINE q == Edited(project)
             n == q.panels - 1
             left == [q EXCEPT !.panels = n]
             r == IF n = 0 THEN None ELSE q.resume
             s == IF Blocked(left) \/ PreviewOpen(left) THEN "needs_review" ELSE project.resume
  <2>1. /\ q \in Project /\ q.rev = project.rev + 1
        /\ q.panels = project.panels /\ q.resume = project.resume
        /\ q.preview = project.preview /\ q.approved = project.approved
        /\ q.receipt = project.receipt /\ project.panels # 0
    BY EditedIs DEF Sane, Correct
  <2>2. q.panels \in Nat /\ q.resume \in {None, "needs_review", "ready"} /\ q.resume # None
    BY <2>1 DEF Project, Sane
  <2>3. n \in Nat /\ r \in {None, "needs_review", "ready"} /\ ((n = 0) <=> (r = None))
    BY <2>1, <2>2
  <2>4. left \in Project /\ left.panels = n /\ left.preview = project.preview
        /\ left.resume = q.resume
    BY <2>1, <2>3 DEF Project
  <2>5. project' = [left EXCEPT !.resume = r, !.state = s]
    BY <2>4 DEF Correct
  <2>6. s \in {"needs_review", "ready"}
        /\ (s # "needs_review" => project.preview.status = "approved")
    BY <2>1, <2>2, <2>4 DEF PreviewOpen
  <2>7. left.rev = q.rev /\ left.preview = q.preview /\ left.approved = q.approved
        /\ left.receipt = q.receipt
    BY <2>1 DEF Project
  <2> HIDE DEF n, r, s, left, q
  <2>8. project' \in Project /\ project'.state = s /\ project'.panels = n
        /\ project'.resume = r /\ project'.rev = left.rev /\ project'.preview = left.preview
        /\ project'.approved = left.approved /\ project'.receipt = left.receipt
    BY <2>3, <2>4, <2>5, <2>6 DEF Project, States
  <2> QED
    BY <2>1, <2>3, <2>6, <2>7, <2>8 DEF Continues
<1> QED
  BY <1>1, ContinuedIsSane DEF Correct

\* ... and turned into a template.
LEMMA MaterializeSane ==
  ASSUME ReviewAssumption, Sane, jobs \in Seq(Job), Materialize
  PROVE  Sane' /\ Continues
<1>1. Continues
  <2> DEFINE q == Edited(project)
  <2>1. /\ q \in Project /\ q.rev = project.rev + 1 /\ q.state = "ready"
        /\ q.panels = project.panels /\ q.resume = project.resume
        /\ q.preview = project.preview /\ q.approved = project.approved
        /\ q.receipt = project.receipt
    BY EditedIs DEF Sane, Materialize
  <2>2. PICK l \in Looks : project' = [q EXCEPT !.look = l]
    BY DEF Materialize
  <2> HIDE DEF q
  <2>3. project' \in Project /\ project'.state = q.state /\ project'.panels = q.panels
        /\ project'.resume = q.resume /\ project'.rev = q.rev /\ project'.preview = q.preview
        /\ project'.approved = q.approved /\ project'.receipt = q.receipt
    BY <2>1, <2>2 DEF Project
  <2>4. project.state = "ready" /\ project.preview.status = "approved"
        /\ ((project.panels = 0) <=> (project.resume = None))
    BY DEF Sane, Materialize
  <2> QED
    BY <2>1, <2>3, <2>4 DEF Continues
<1> QED
  BY <1>1, ContinuedIsSane DEF Materialize

-----------------------------------------------------------------------------
(* Requests and recovery while only the project changes *)

\* Attempts, places and memories do not move.
LEMMA RunningStays ==
  ASSUME Running, UNCHANGED <<jobs, locals, process, faults>>, compiles' \in BOOLEAN
  PROVE  Running'
<1>1. Submitting' = Submitting
  BY DEF Submitting, locals
<1>2. \A h \in Procs : Holds(h)'
  BY DEF Running, Holds, Shows, locals
<1> QED
  BY <1>1, <1>2 DEF Running, locals

\* What a step that leaves claims to their owners does to the project.
Spares ==
  /\ project'.state \in {"rendering", "qc"} => project'.state = project.state
  /\ project'.preview.status = "rendering" => project'.preview = project.preview

\* While requests are served, decisions leave the claims to their owners.
LEMMA ServedStays ==
  ASSUME Recovering, Owned, process = "serving", Spares,
         UNCHANGED <<locals, process, faults>>
  PROVE  Recovering' /\ Owned'
<1>1. at' = at /\ mem' = mem /\ at[Boot] = "idle"
  BY DEF locals, Recovering
<1>2. Recovering'
  BY <1>1 DEF Recovering, QCPlaces
<1>3. Owned'
  BY <1>1 DEF Owned, Spares
<1> QED
  BY <1>2, <1>3

\* Decisions and other workflows on the project keep the invariant.
LEMMA DecisionsKeep ==
  ASSUME ReviewAssumption, ReviewIInv,
         Resolve \/ Approve \/ Reject \/ Extract \/ Correct \/ Materialize \/ Present
  PROVE  ReviewIInv'
<1>1. /\ UNCHANGED <<jobs, locals, process, faults, compiles>> /\ process = "serving"
      /\ jobs \in Seq(Job)
  BY DEF Resolve, Approve, Reject, Extract, Correct, Materialize, Present, world,
         ReviewIInv, Running
<1>2. Sane' /\ Spares
  <2>1. Sane
    BY DEF ReviewIInv
  <2>2. CASE Resolve
    BY <1>1, <2>1, <2>2, ResolveSane, NoPreviewIs DEF Spares
  <2>3. CASE Approve
    BY <1>1, <2>1, <2>3, ApproveSane DEF Spares
  <2>4. CASE Reject
    BY <1>1, <2>1, <2>4, RejectSane DEF Spares
  <2>5. CASE Present
    BY <1>1, <2>1, <2>5, PresentSane, NoPreviewIs DEF Spares
  <2>6. CASE Extract
    BY <1>1, <2>1, <2>6, ExtractSane DEF Spares, Continues
  <2>7. CASE Correct
    BY <1>1, <2>1, <2>7, CorrectSane DEF Spares, Continues
  <2>8. CASE Materialize
    BY <1>1, <2>1, <2>8, MaterializeSane DEF Spares, Continues
  <2> QED
    BY <2>2, <2>3, <2>4, <2>5, <2>6, <2>7, <2>8
<1>3. compiles' \in BOOLEAN /\ Running /\ Recovering /\ Owned
  BY <1>1 DEF ReviewIInv, Running
<1> QED
  BY <1>1, <1>2, <1>3, RunningStays, ServedStays DEF ReviewIInv

\* The gates open or close.
LEMMA SourceKeeps ==
  ASSUME ReviewIInv, SourceChanges
  PROVE  ReviewIInv'
<1>1. UNCHANGED <<project, jobs, locals, process, faults>> /\ compiles' \in BOOLEAN
      /\ jobs \in Seq(Job) /\ at' = at /\ mem' = mem
  BY DEF SourceChanges, ReviewIInv, Running, locals
<1>2. Sane'
  BY <1>1, JobsStay, SaneStays DEF ReviewIInv
<1>3. Running'
  BY <1>1, RunningStays DEF ReviewIInv
<1>4. Recovering'
  BY <1>1 DEF ReviewIInv, Recovering
<1>5. Owned'
  BY <1>1 DEF ReviewIInv, Owned
<1> QED
  BY <1>2, <1>3, <1>4, <1>5 DEF ReviewIInv

\* An artifact is lost: its attempt still shows what it showed.
LEMMA LossKeeps ==
  ASSUME ReviewIInv, LoseArtifact
  PROVE  ReviewIInv'
<1>1. UNCHANGED <<project, compiles, process, faults>> /\ at' = at /\ mem' = mem
      /\ jobs \in Seq(Job)
  BY DEF LoseArtifact, ReviewIInv, Running, locals
<1>2. PICK j \in DOMAIN jobs : jobs' = [jobs EXCEPT ![j].state = "corrupt"]
  BY DEF LoseArtifact
<1>3. JobsGrow /\ Len(jobs') = Len(jobs)
  BY <1>1, <1>2, OneStateChanges
<1>4. Sane'
  BY <1>1, <1>3, SaneStays DEF ReviewIInv
<1>5. \A h \in Procs : Holds(h)'
  BY <1>1, <1>3, ShownStays DEF ReviewIInv, Running, Holds, Shows
<1>6. Running'
  BY <1>1, <1>3, <1>5 DEF ReviewIInv, Running, JobsGrow, Submitting
<1>7. Recovering'
  BY <1>1 DEF ReviewIInv, Recovering
<1>8. Owned'
  BY <1>1 DEF ReviewIInv, Owned
<1> QED
  BY <1>4, <1>6, <1>7, <1>8 DEF ReviewIInv

-----------------------------------------------------------------------------
(* One request, or the recovery, takes a step *)

\* Only h moves.
Turns(h) ==
  /\ at' \in [Procs -> Places] /\ mem' \in [Procs -> Memory]
  /\ \A g \in Procs \ {h} : at'[g] = at[g] /\ mem'[g] = mem[g]

\* It goes somewhere.
LEMMA GotoMoves ==
  ASSUME at \in [Procs -> Places], NEW h \in Procs
  PROVE  \A pc \in Places :
           Goto(h, pc) => /\ at' \in [Procs -> Places] /\ at'[h] = pc
                          /\ \A g \in Procs \ {h} : at'[g] = at[g]
  BY DEF Goto

\* It keeps something.
LEMMA KeepMoves ==
  ASSUME mem \in [Procs -> Memory], NEW h \in Procs
  PROVE  \A m \in Memory :
           Keep(h, m) => /\ mem' \in [Procs -> Memory] /\ mem'[h] = m
                         /\ \A g \in Procs \ {h} : mem'[g] = mem[g]
  BY DEF Keep

\* A request that has answered holds nothing.
LEMMA EmptyIs == Empty \in Memory /\ Empty.job = 0
  BY DEF Empty, Memory

\* It goes somewhere and keeps what it held.
LEMMA Walks ==
  ASSUME Running, NEW h \in Procs, mem' = mem
  PROVE  \A pc \in Places : Goto(h, pc) => Turns(h) /\ at'[h] = pc /\ mem'[h] = mem[h]
  BY GotoMoves DEF Running, Turns

\* It answers.
LEMMA Leaves ==
  ASSUME Running, NEW h \in Procs, Leave(h)
  PROVE  Turns(h) /\ at'[h] = "idle" /\ mem'[h] = Empty
<1>1. "idle" \in Places
  BY DEF Places
<1> QED
  BY <1>1, GotoMoves, KeepMoves, EmptyIs DEF Running, Turns, Leave

\* What h holds when it has answered.
LEMMA IdleHolds ==
  ASSUME Running, NEW h \in Procs, at'[h] = "idle", mem'[h] = Empty, jobs' \in Seq(Job)
  PROVE  Holds(h)'
  BY EmptyIs DEF Holds, InPreview

\* A set of requests that submits no more than before, with as many attempts.
LEMMA BudgetKept ==
  ASSUME ReviewAssumption, Running, jobs' \in Seq(Job), Len(jobs') = Len(jobs),
         Submitting' \subseteq Submitting
  PROVE  Len(jobs') + Cardinality(Submitting') <= MaxJobs
<1>1. IsFiniteSet(Submitting)
  BY FS_Subset DEF Submitting, ReviewAssumption
<1>2. IsFiniteSet(Submitting') /\ Cardinality(Submitting') <= Cardinality(Submitting)
  BY <1>1, FS_Subset
<1>3. Cardinality(Submitting) \in Nat /\ Cardinality(Submitting') \in Nat
  BY <1>1, <1>2, FS_CardinalityType
<1> QED
  BY <1>2, <1>3 DEF ReviewAssumption, Running

\* The request that submits one more attempt may submit none afterwards.
LEMMA BudgetSpent ==
  ASSUME ReviewAssumption, Running, NEW h \in Handlers, h \in Submitting,
         jobs' \in Seq(Job), Len(jobs') = Len(jobs) + 1, Submitting' \subseteq Submitting \ {h}
  PROVE  Len(jobs') + Cardinality(Submitting') <= MaxJobs
<1>1. IsFiniteSet(Submitting)
  BY FS_Subset DEF Submitting, ReviewAssumption
<1>2. IsFiniteSet(Submitting \ {h}) /\ Cardinality(Submitting \ {h}) = Cardinality(Submitting) - 1
  BY <1>1, FS_RemoveElement
<1>3. IsFiniteSet(Submitting') /\ Cardinality(Submitting') <= Cardinality(Submitting \ {h})
  BY <1>2, FS_Subset
<1>4. Cardinality(Submitting) \in Nat /\ Cardinality(Submitting') \in Nat
  BY <1>1, <1>3, FS_CardinalityType
<1> QED
  BY <1>2, <1>3, <1>4 DEF ReviewAssumption, Running

\* A request is taken only while there is room for its attempt.
LEMMA BudgetTaken ==
  ASSUME ReviewAssumption, Running, NEW h \in Handlers, MayCall(h),
         jobs' = jobs, Submitting' \subseteq Submitting \cup {h}
  PROVE  Len(jobs') + Cardinality(Submitting') <= MaxJobs
<1> DEFINE B == {g \in Handlers : at[g] # "idle"}
<1>1. IsFiniteSet(B) /\ h \notin B /\ Submitting \subseteq B
  BY FS_Subset DEF Submitting, ReviewAssumption, MayCall
<1>2. IsFiniteSet(B \cup {h}) /\ Cardinality(B \cup {h}) = Cardinality(B) + 1
  <2>1. IsFiniteSet(B) /\ h \notin B
    BY <1>1
  <2> HIDE DEF B
  <2> QED
    BY <2>1, FS_AddElement
<1>3. IsFiniteSet(Submitting') /\ Cardinality(Submitting') <= Cardinality(B \cup {h})
  BY <1>1, <1>2, FS_Subset
<1>4. Cardinality(B) \in Nat /\ Cardinality(Submitting') \in Nat
  BY <1>1, <1>3, FS_CardinalityType
<1>5. Len(jobs) + Cardinality(B) < MaxJobs
  BY DEF MayCall
<1> QED
  BY <1>2, <1>3, <1>4, <1>5 DEF ReviewAssumption, Running

\* A step of h leaves the others what they hold.
LEMMA TurnRuns ==
  ASSUME Running, NEW h \in Procs, Turns(h), JobsGrow, Holds(h)',
         UNCHANGED <<compiles, process>>, faults' \in Nat,
         Len(jobs') + Cardinality(Submitting') <= MaxJobs
  PROVE  Running'
<1>1. ASSUME NEW g \in Procs \ {h} PROVE Holds(g)'
  <2>1. at'[g] = at[g] /\ mem'[g] = mem[g] /\ Holds(g) /\ jobs \in Seq(Job)
    BY DEF Turns, Running
  <2>2. mem'[g].job <= Len(jobs')
    <3>1. mem[g].job \in Nat
      BY DEF Running, Memory
    <3> QED
      BY <2>1, <3>1 DEF Holds, JobsGrow
  <2>3. \A j, purpose, plan : Shows(j, purpose, plan) =>
          j \in DOMAIN jobs' /\ jobs'[j].purpose = purpose /\ jobs'[j].plan = plan
    BY <2>1, ShownStays
  <2> QED
    BY <2>1, <2>2, <2>3 DEF Holds, Shows
<1>2. \A g \in Procs : Holds(g)'
  BY <1>1
<1> QED
  BY <1>2 DEF Running, Turns, JobsGrow

\* What a step of request h does with claims: those it leaves stay with
\* another owner.
Answers(h) ==
  /\ project'.state = "rendering" =>
       \/ at'[h] \in FinalPlaces
       \/ project.state = "rendering" /\ at[h] \notin FinalPlaces
  /\ project'.state = "qc" =>
       \/ at'[h] \in QCPlaces
       \/ project.state = "qc" /\ at[h] \notin QCPlaces
  /\ project'.preview.status = "rendering" =>
       \/ project'.preview.claim = h /\ at'[h] \in InPreview \ {"p_claim"}
       \/ /\ project'.preview = project.preview
          /\ at[h] \in InPreview \ {"p_claim"} =>
               project.preview.claim # h \/ at'[h] \in InPreview \ {"p_claim"}

\* A step of request h keeps the invariant, if it keeps its own part.
LEMMA RequestKeeps ==
  ASSUME ReviewAssumption, ReviewIInv, process = "serving", NEW h \in Handlers,
         Turns(h), JobsGrow, Holds(h)', UNCHANGED <<compiles, process>>,
         faults' \in Nat, faults <= faults', at'[h] \notin InBoot,
         Len(jobs') + Cardinality(Submitting') <= MaxJobs,
         Sane', faults' = 0 => Answers(h)
  PROVE  ReviewIInv'
<1>1. h \in Procs /\ h # Boot /\ Boot \in Procs
  BY DEF Procs, ReviewAssumption
<1>2. Running'
  BY <1>1, TurnRuns DEF ReviewIInv
<1>3. at[Boot] = "idle" /\ at'[Boot] = "idle" /\ mem'[Boot] = mem[Boot]
      /\ \A g \in Handlers \ {h} : at'[g] = at[g]
  BY <1>1 DEF ReviewIInv, Recovering, Turns, Procs
<1>4. \A g \in Handlers : at'[g] \notin InBoot
  BY <1>3 DEF ReviewIInv, Recovering
<1>5. Recovering'
  BY <1>3, <1>4 DEF Recovering, QCPlaces
<1>6. Owned'
  <2> SUFFICES ASSUME faults' = 0
               PROVE  /\ project'.state = "rendering" => \E g \in Handlers : at'[g] \in FinalPlaces
                      /\ project'.state = "qc" => \E g \in Handlers : at'[g] \in QCPlaces
                      /\ project'.preview.status = "rendering" =>
                           at'[project'.preview.claim] \in InPreview \ {"p_claim"}
    BY DEF Owned
  <2>1. faults = 0 /\ Answers(h) /\ Owned /\ Sane
    BY DEF ReviewIInv, Running
  <2>2. project'.state = "rendering" => \E g \in Handlers : at'[g] \in FinalPlaces
    BY <1>3, <2>1 DEF Answers, Owned
  <2>3. project'.state = "qc" => \E g \in Handlers : at'[g] \in QCPlaces
    BY <1>3, <2>1 DEF Answers, Owned
  <2>4. ASSUME project'.preview.status = "rendering"
        PROVE  at'[project'.preview.claim] \in InPreview \ {"p_claim"}
    <3>1. project'.preview.claim \in Handlers
      BY <2>4 DEF Sane
    <3>2. CASE project'.preview.claim = h /\ at'[h] \in InPreview \ {"p_claim"}
      BY <3>2
    <3>3. CASE /\ project'.preview = project.preview
               /\ at[h] \in InPreview \ {"p_claim"} =>
                    project.preview.claim # h \/ at'[h] \in InPreview \ {"p_claim"}
      <4>1. at[project.preview.claim] \in InPreview \ {"p_claim"}
        BY <2>1, <2>4, <3>3 DEF Owned
      <4> QED
        BY <1>3, <3>1, <3>3, <4>1
    <3> QED
      BY <2>1, <2>4, <3>2, <3>3 DEF Answers
  <2> QED
    BY <2>2, <2>3, <2>4
<1> QED
  BY <1>2, <1>5, <1>6 DEF ReviewIInv

\* A request that is on its way is served.
LEMMA BusyIsServed ==
  ASSUME ReviewIInv, NEW h \in Handlers, at[h] # "idle"
  PROVE  process = "serving"
  BY DEF ReviewIInv, Recovering

-----------------------------------------------------------------------------
(* The steps of a request that leave the project alone *)

\* The claims stay where they are when the project does, and the request
\* stays on its way.
LEMMA QuietAnswers ==
  ASSUME NEW h \in Handlers, project' = project,
         at[h] \in FinalPlaces => at'[h] \in FinalPlaces,
         project.state = "qc" /\ at[h] \in QCPlaces => at'[h] \in QCPlaces,
         at[h] \in InPreview \ {"p_claim"} => at'[h] \in InPreview
  PROVE  at'[h] # "p_claim" => Answers(h)
  BY DEF Answers

\* An attempt is found or submitted.
LEMMA FindKeeps ==
  ASSUME ReviewAssumption, ReviewIInv, NEW h \in Handlers, FindJob(h)
  PROVE  ReviewIInv'
<1> DEFINE found  == Artifact(Purpose(h), mem[h].plan)
           queued == Matching(Purpose(h), mem[h].plan, "queued")
           run    == IF at[h] = "p_job" THEN "p_run" ELSE "f_run"
<1>1. /\ UNCHANGED <<project, compiles, process, faults>> /\ jobs \in Seq(Job) /\ Running /\ Sane
      /\ h \in Procs /\ Holds(h) /\ at[h] \in {"p_job", "f_job"} /\ faults \in Nat
      /\ mem[h] \in Memory /\ mem[h].plan \in Looks
  BY DEF FindJob, ReviewIInv, Running, Procs, world, Holds, InPreview
<1>2. process = "serving" /\ h \in Submitting
  BY <1>1, BusyIsServed DEF Submitting
<1>3. /\ run \in Places /\ Store(h) \in Places
      /\ at[h] = "p_job" => Purpose(h) = "preview" /\ run = "p_run" /\ Store(h) = "p_record"
      /\ at[h] = "f_job" => Purpose(h) = "final" /\ run = "f_run" /\ Store(h) = "f_qc"
  BY <1>1 DEF Store, Purpose, Places, InPreview, InFinal
<1>4. \A j \in Nat : [mem[h] EXCEPT !.job = j] \in Memory
  BY <1>1 DEF Memory
<1> DEFINE Moved(j, pc) ==
      /\ Turns(h) /\ at'[h] = pc /\ mem'[h] = [mem[h] EXCEPT !.job = j]
<1>5. \A j \in Nat, pc \in Places : Goto(h, pc) /\ Keep(h, [mem[h] EXCEPT !.job = j]) => Moved(j, pc)
  BY <1>1, <1>4, GotoMoves, KeepMoves DEF Turns, Running
<1>6. PICK j \in Nat : /\ Moved(j, Store(h)) \/ Moved(j, run)
                       /\ JobsGrow /\ j <= Len(jobs')
                       /\ Shows(j, Purpose(h), mem[h].plan)'
                       /\ Len(jobs') + Cardinality(Submitting') <= MaxJobs
  <2>1. CASE found # 0
    <3>1. /\ found \in Nat /\ found <= Len(jobs) /\ Shows(found, Purpose(h), mem[h].plan)
      BY <1>1, <2>1, ArtifactShows
    <3>2. Moved(found, Store(h)) /\ jobs' = jobs
      BY <1>3, <1>5, <2>1, <3>1 DEF FindJob
    <3>3. Purpose(h)' = Purpose(h) /\ mem'[h].plan = mem[h].plan
      BY <1>1, <1>3, <3>2 DEF Purpose, InPreview, Memory
    <3>4. Submitting' \subseteq Submitting
      BY <1>1, <1>3, <3>2 DEF Submitting, Turns, Procs
    <3>5. Len(jobs') + Cardinality(Submitting') <= MaxJobs
      BY <1>1, <3>2, <3>4, BudgetKept
    <3> HIDE DEF found, Moved
    <3> QED
      BY <1>1, <3>1, <3>2, <3>3, <3>5, JobsStay DEF Shows
  <2>2. CASE found = 0 /\ queued # {}
    <3>1. /\ Newest(queued) \in Nat /\ Newest(queued) <= Len(jobs)
          /\ Shows(Newest(queued), Purpose(h), mem[h].plan)
      BY <1>1, <2>2, QueuedShows
    <3>2. Moved(Newest(queued), run) /\ jobs' = jobs
      BY <1>3, <1>5, <2>2, <3>1 DEF FindJob
    <3>3. Purpose(h)' = Purpose(h) /\ mem'[h].plan = mem[h].plan
      BY <1>1, <1>3, <3>2 DEF Purpose, InPreview, Memory
    <3>4. Submitting' \subseteq Submitting
      BY <1>1, <1>3, <3>2 DEF Submitting, Turns, Procs
    <3>5. Len(jobs') + Cardinality(Submitting') <= MaxJobs
      BY <1>1, <3>2, <3>4, BudgetKept
    <3> HIDE DEF queued, Moved
    <3> QED
      BY <1>1, <3>1, <3>2, <3>3, <3>5, JobsStay DEF Shows
  <2>3. CASE found = 0 /\ queued = {}
    <3> DEFINE new == [purpose |-> Purpose(h), plan |-> mem[h].plan, state |-> "queued"]
               n == Len(jobs) + 1
    <3>1. new \in Job /\ n \in Nat
      BY <1>1, <1>3 DEF Job
    <3>2. Moved(n, run) /\ jobs' = Append(jobs, new)
      BY <1>3, <1>5, <2>3, <3>1 DEF FindJob
    <3>3. Purpose(h)' = Purpose(h) /\ mem'[h].plan = mem[h].plan
      BY <1>1, <1>3, <3>2 DEF Purpose, InPreview, Memory
    <3>4. Submitting' \subseteq Submitting \ {h}
      BY <1>1, <1>3, <3>2 DEF Submitting, Turns, Procs
    <3>5. /\ jobs' \in Seq(Job) /\ Len(jobs') = n /\ jobs'[n] = new
          /\ \A j \in 1..Len(jobs) : jobs'[j] = jobs[j]
      BY <1>1, <3>1, <3>2
    <3>6. Len(jobs') + Cardinality(Submitting') <= MaxJobs
      BY <1>1, <1>2, <3>4, <3>5, BudgetSpent
    <3>7. JobsGrow /\ n <= Len(jobs')
      BY <1>1, <3>5 DEF JobsGrow
    <3>8. n \in DOMAIN jobs' /\ jobs'[n].purpose = Purpose(h) /\ jobs'[n].plan = mem[h].plan
      BY <1>1, <3>5
    <3> HIDE DEF n, new, Moved
    <3> QED
      BY <3>1, <3>2, <3>3, <3>6, <3>7, <3>8 DEF Shows
  <2> QED
    BY <1>1, <2>1, <2>2, <2>3
<1>7. /\ Turns(h) /\ at'[h] \in {Store(h), run}
      /\ mem'[h].job = j /\ mem'[h].plan = mem[h].plan /\ mem'[h].digest = mem[h].digest
  BY <1>1, <1>6 DEF Memory
<1>8. /\ at[h] = "p_job" => at'[h] \in {"p_run", "p_record"}
      /\ at[h] = "f_job" => at'[h] \in {"f_run", "f_qc"}
  BY <1>3, <1>7
<1>9. Holds(h)'
  <2>1. /\ Purpose(h)' = Purpose(h)
        /\ j \in DOMAIN jobs' /\ jobs'[j].purpose = Purpose(h) /\ jobs'[j].plan = mem[h].plan
    BY <1>1, <1>6, <1>7, <1>8 DEF Shows, Purpose, InPreview
  <2> QED
    BY <1>1, <1>3, <1>6, <1>7, <1>8, <2>1 DEF Holds, Shows, InPreview
<1>10. Answers(h)
  BY <1>1, <1>8, QuietAnswers DEF FinalPlaces, QCPlaces, InPreview
<1>11. Sane'
  BY <1>1, <1>6, SaneStays
<1> QED
  BY <1>1, <1>2, <1>6, <1>7, <1>8, <1>9, <1>10, <1>11, RequestKeeps DEF InBoot

\* The attempt is started, or another worker has it.
LEMMA StartKeeps ==
  ASSUME ReviewAssumption, ReviewIInv, NEW h \in Handlers, StartJob(h)
  PROVE  ReviewIInv'
<1>1. /\ UNCHANGED <<project, compiles, process, faults>> /\ jobs \in Seq(Job) /\ Running /\ Sane
      /\ h \in Procs /\ Holds(h) /\ at[h] \in {"p_run", "f_run"} /\ mem' = mem /\ faults \in Nat
  BY DEF StartJob, ReviewIInv, Running, Procs, world
<1>2. process = "serving" /\ mem[h].job \in DOMAIN jobs
  BY <1>1, BusyIsServed DEF Holds, Shows
<1>3. JobsGrow /\ Len(jobs') = Len(jobs)
  <2>1. CASE jobs' = [jobs EXCEPT ![mem[h].job].state = "running"]
    <3> DEFINE j == mem[h].job
    <3>1. j \in DOMAIN jobs /\ jobs' = [jobs EXCEPT ![j].state = "running"]
      BY <1>2, <2>1
    <3> HIDE DEF j
    <3> QED
      BY <1>1, <3>1, OneStateChanges
  <2>2. CASE jobs' = jobs
    BY <1>1, <2>2, JobsStay
  <2> QED
    BY <2>1, <2>2 DEF StartJob
<1>4. PICK pc \in {"p_encode", "f_encode", "p_release", "f_recover"} :
        /\ Goto(h, pc)
        /\ at[h] = "p_run" => pc \in {"p_encode", "p_release"}
        /\ at[h] = "f_run" => pc \in {"f_encode", "f_recover"}
  BY DEF StartJob, Cleanup, InPreview
<1>5. Turns(h) /\ at'[h] = pc /\ mem'[h] = mem[h]
  <2>1. pc \in Places
    BY DEF Places, InPreview, InFinal
  <2> QED
    BY <1>1, <1>4, <2>1, Walks
<1>6. Submitting' \subseteq Submitting
  BY <1>1, <1>5 DEF Submitting, Turns, Procs
<1>7. Holds(h)'
  <2>1. \A i, purpose, plan : Shows(i, purpose, plan) =>
          i \in DOMAIN jobs' /\ jobs'[i].purpose = purpose /\ jobs'[i].plan = plan
    BY <1>1, <1>3, ShownStays
  <2> QED
    BY <1>1, <1>3, <1>4, <1>5, <2>1 DEF Holds, Shows, InPreview
<1>8. Answers(h)
  BY <1>1, <1>4, <1>5, QuietAnswers DEF FinalPlaces, QCPlaces, InPreview
<1>9. Sane' /\ Len(jobs') + Cardinality(Submitting') <= MaxJobs
  BY <1>1, <1>3, <1>6, SaneStays, BudgetKept DEF JobsGrow
<1> QED
  BY <1>1, <1>2, <1>3, <1>5, <1>7, <1>8, <1>9, RequestKeeps DEF InBoot

\* The attempt ends, one way or the other.
LEMMA FinishKeeps ==
  ASSUME ReviewAssumption, ReviewIInv, NEW h \in Handlers, FinishJob(h)
  PROVE  ReviewIInv'
<1>1. /\ UNCHANGED <<project, compiles, process, faults>> /\ jobs \in Seq(Job) /\ Running /\ Sane
      /\ h \in Procs /\ Holds(h) /\ at[h] \in {"p_encode", "f_encode"} /\ mem' = mem /\ faults \in Nat
  BY DEF FinishJob, ReviewIInv, Running, Procs, world
<1> DEFINE j == mem[h].job
<1>2. process = "serving" /\ j \in DOMAIN jobs
  BY <1>1, BusyIsServed DEF Holds, Shows
<1>3. JobsGrow /\ Len(jobs') = Len(jobs)
  <2>1. \/ jobs' = [jobs EXCEPT ![j].state = "succeeded"]
        \/ jobs' = [jobs EXCEPT ![j].state = "failed"]
    BY DEF FinishJob
  <2> HIDE DEF j
  <2> QED
    BY <1>1, <1>2, <2>1, OneStateChanges
<1>4. PICK pc \in {"p_record", "f_qc", "p_release", "f_recover"} :
        /\ Goto(h, pc)
        /\ at[h] = "p_encode" => pc \in {"p_record", "p_release"}
        /\ at[h] = "f_encode" => pc \in {"f_qc", "f_recover"}
  BY DEF FinishJob, Cleanup, Store, InPreview
<1>5. Turns(h) /\ at'[h] = pc /\ mem'[h] = mem[h]
  <2>1. pc \in Places
    BY DEF Places, InPreview, InFinal
  <2> QED
    BY <1>1, <1>4, <2>1, Walks
<1>6. Submitting' \subseteq Submitting
  BY <1>1, <1>5 DEF Submitting, Turns, Procs
<1>7. Holds(h)'
  <2>1. \A i, purpose, plan : Shows(i, purpose, plan) =>
          i \in DOMAIN jobs' /\ jobs'[i].purpose = purpose /\ jobs'[i].plan = plan
    BY <1>1, <1>3, ShownStays
  <2> QED
    BY <1>1, <1>3, <1>4, <1>5, <2>1 DEF Holds, Shows, InPreview
<1>8. Answers(h)
  BY <1>1, <1>4, <1>5, QuietAnswers DEF FinalPlaces, QCPlaces, InPreview
<1>9. Sane' /\ Len(jobs') + Cardinality(Submitting') <= MaxJobs
  BY <1>1, <1>3, <1>6, SaneStays, BudgetKept DEF JobsGrow
<1> QED
  BY <1>1, <1>2, <1>3, <1>5, <1>7, <1>8, <1>9, RequestKeeps DEF InBoot

\* A preview is asked for: what is held is the look and the revision seen.
LEMMA CallPreviewKeeps ==
  ASSUME ReviewAssumption, ReviewIInv, NEW h \in Handlers, CallPreview(h)
  PROVE  ReviewIInv'
<1> DEFINE a == Artifact("preview", project.look)
           m == [job |-> a, plan |-> project.look, digest |-> Digest(project)]
<1>1. /\ UNCHANGED <<project, jobs, compiles, process, faults>> /\ jobs \in Seq(Job)
      /\ Running /\ Sane /\ h \in Procs /\ at[h] = "idle" /\ process = "serving"
      /\ faults \in Nat /\ MayCall(h) /\ project \in Project
  BY DEF CallPreview, MayCall, ReviewIInv, Running, Procs, world, Sane
<1>2. /\ a \in Nat /\ a <= Len(jobs)
      /\ a # 0 => Shows(a, "preview", project.look)
  BY <1>1, ArtifactShows
<1>3. Digest(project) \in Nat \X States /\ project.look \in Looks
  BY <1>1 DEF Digest, Project
<1> HIDE DEF a
<1>4. m \in Memory
  BY <1>2, <1>3 DEF Memory
<1>5. Turns(h) /\ at'[h] = "p_claim" /\ mem'[h] = m
  <2>1. "p_claim" \in Places /\ Goto(h, "p_claim") /\ Keep(h, m)
    BY DEF Places, InPreview, CallPreview, a
  <2> QED
    BY <1>1, <1>4, <2>1, GotoMoves, KeepMoves DEF Turns, Running
<1>6. Submitting' \subseteq Submitting \cup {h}
  BY <1>5 DEF Submitting, Turns, Procs
<1>7. Holds(h)'
  BY <1>1, <1>2, <1>3, <1>5 DEF Holds, Shows, InPreview
<1>8. Answers(h)
  BY <1>1, <1>5 DEF Answers, FinalPlaces, QCPlaces, InPreview
<1>9. Sane' /\ JobsGrow /\ Len(jobs') + Cardinality(Submitting') <= MaxJobs
  BY <1>1, <1>6, JobsStay, SaneStays, BudgetTaken
<1> QED
  BY <1>1, <1>5, <1>7, <1>8, <1>9, RequestKeeps DEF InBoot

\* A request only moves to another place of its own, and leaves everything
\* else alone: what it holds there has to be in order.
Passes(h) ==
  /\ UNCHANGED <<project, jobs, compiles, process>>
  /\ Turns(h) /\ at'[h] \notin InBoot /\ Holds(h)'
  /\ Submitting' \subseteq Submitting
  /\ faults' \in Nat /\ faults <= faults'

\* A step that writes neither project nor jobs keeps the invariant.
LEMMA PassKeeps ==
  ASSUME ReviewAssumption, ReviewIInv, process = "serving", NEW h \in Handlers,
         Passes(h), faults' = 0 => Answers(h)
  PROVE  ReviewIInv'
<1>1. /\ jobs \in Seq(Job) /\ jobs' = jobs /\ Running /\ Sane /\ project' = project
  BY DEF Passes, ReviewIInv, Running
<1>2. Sane' /\ JobsGrow /\ Len(jobs') + Cardinality(Submitting') <= MaxJobs
  BY <1>1, JobsStay, SaneStays, BudgetKept DEF Passes
<1> QED
  BY <1>1, <1>2, RequestKeeps DEF Passes

\* A final render is asked for.
LEMMA CallFinalKeeps ==
  ASSUME ReviewAssumption, ReviewIInv, NEW h \in Handlers, CallFinal(h)
  PROVE  ReviewIInv'
<1>1. /\ UNCHANGED <<project, jobs, compiles, process, faults>> /\ jobs \in Seq(Job)
      /\ Running /\ Sane /\ h \in Procs /\ at[h] = "idle" /\ process = "serving"
      /\ faults \in Nat /\ MayCall(h) /\ mem' = mem /\ Holds(h)
  BY DEF CallFinal, MayCall, ReviewIInv, Running, Procs, world
<1>2. Turns(h) /\ at'[h] = "f_enter" /\ mem'[h] = mem[h]
  <2>1. "f_enter" \in Places /\ Goto(h, "f_enter")
    BY DEF Places, InFinal, CallFinal
  <2> QED
    BY <1>1, <2>1, Walks
<1>3. Submitting' \subseteq Submitting \cup {h}
  BY <1>2 DEF Submitting, Turns, Procs
<1>4. Holds(h)'
  BY <1>1, <1>2 DEF Holds, InPreview
<1>5. Answers(h)
  BY <1>1, <1>2 DEF Answers, FinalPlaces, QCPlaces, InPreview
<1>6. Sane' /\ JobsGrow /\ Len(jobs') + Cardinality(Submitting') <= MaxJobs
  BY <1>1, <1>3, JobsStay, SaneStays, BudgetTaken
<1> QED
  BY <1>1, <1>2, <1>4, <1>5, <1>6, RequestKeeps DEF InBoot

\* What a moving request needs to know of itself.
LEMMA Moving ==
  ASSUME ReviewIInv, NEW h \in Handlers, at[h] # "idle"
  PROVE  /\ Running /\ Sane /\ Owned /\ h \in Procs /\ Holds(h) /\ process = "serving"
         /\ jobs \in Seq(Job) /\ project \in Project /\ faults \in Nat
         /\ mem[h] \in Memory /\ at[h] \in Places
  BY BusyIsServed DEF ReviewIInv, Running, Procs, Sane

\* render_final looks at the project for the first time ...
LEMMA EnterKeeps ==
  ASSUME ReviewAssumption, ReviewIInv, NEW h \in Handlers, EnterFinal(h)
  PROVE  ReviewIInv'
<1>1. /\ UNCHANGED <<project, jobs, compiles, process, faults>> /\ mem' = mem
      /\ at[h] = "f_enter"
  BY DEF EnterFinal, Quiet, world
<1>2. /\ Running /\ h \in Procs /\ Holds(h) /\ process = "serving" /\ faults \in Nat
  BY <1>1, Moving
<1>3. PICK pc \in {"f_reopen", "f_read"} : Goto(h, pc)
  BY DEF EnterFinal
<1>4. Turns(h) /\ at'[h] = pc /\ mem'[h] = mem[h]
  BY <1>1, <1>2, <1>3, Walks DEF Places, InFinal
<1>5. Submitting' \subseteq Submitting
  BY <1>1, <1>4 DEF Submitting, Turns, Procs
<1>6. Holds(h)'
  BY <1>1, <1>2, <1>4 DEF Holds, InPreview
<1>7. Answers(h)
  BY <1>1, <1>4, QuietAnswers DEF FinalPlaces, QCPlaces, InPreview
<1>8. Passes(h)
  BY <1>1, <1>2, <1>4, <1>5, <1>6 DEF Passes, InBoot
<1> QED
  BY <1>2, <1>7, <1>8, PassKeeps

\* ... and for the second time.
LEMMA ReadKeeps ==
  ASSUME ReviewAssumption, ReviewIInv, NEW h \in Handlers, ReadFinal(h)
  PROVE  ReviewIInv'
<1>1. /\ UNCHANGED <<project, jobs, compiles, process, faults>> /\ at[h] = "f_read"
  BY DEF ReadFinal, world
<1>2. /\ Running /\ h \in Procs /\ Holds(h) /\ process = "serving" /\ faults \in Nat
      /\ mem[h] \in Memory /\ jobs \in Seq(Job) /\ project.look \in Looks
  BY <1>1, Moving DEF Project
<1> DEFINE m == [Empty EXCEPT !.plan = project.look]
<1>3. m \in Memory /\ m.job = 0 /\ m.plan \in Looks
  BY <1>2 DEF Empty, Memory
<1>4. \/ Goto(h, "f_redo") /\ mem' = mem
      \/ Goto(h, "f_claim") /\ Keep(h, m)
      \/ Leave(h)
  BY DEF ReadFinal
<1> HIDE DEF m
<1>5. /\ Turns(h) /\ at'[h] \in {"f_redo", "f_claim", "idle"} /\ Holds(h)'
  <2>1. CASE Goto(h, "f_redo") /\ mem' = mem
    <3>1. Turns(h) /\ at'[h] = "f_redo" /\ mem'[h] = mem[h]
      BY <1>2, <2>1, Walks DEF Places, InFinal
    <3> QED
      BY <1>1, <1>2, <3>1 DEF Holds, InPreview
  <2>2. CASE Goto(h, "f_claim") /\ Keep(h, m)
    <3>1. Turns(h) /\ at'[h] = "f_claim" /\ mem'[h] = m
      BY <1>2, <1>3, <2>2, GotoMoves, KeepMoves DEF Turns, Running, Places, InFinal
    <3> QED
      BY <1>1, <1>2, <1>3, <3>1 DEF Holds, InPreview
  <2>3. CASE Leave(h)
    BY <1>1, <1>2, <2>3, Leaves, IdleHolds
  <2> QED
    BY <1>4, <2>1, <2>2, <2>3
<1>6. Submitting' \subseteq Submitting
  BY <1>1, <1>5 DEF Submitting, Turns, Procs
<1>7. Answers(h)
  BY <1>1, <1>5, QuietAnswers DEF FinalPlaces, QCPlaces, InPreview
<1>8. Passes(h)
  BY <1>1, <1>2, <1>5, <1>6 DEF Passes, InBoot
<1> QED
  BY <1>2, <1>7, <1>8, PassKeeps

\* A failed quality check looks at the project before it takes it back.
LEMMA FailQCKeeps ==
  ASSUME ReviewAssumption, ReviewIInv, NEW h \in Handlers, FailQC(h)
  PROVE  ReviewIInv'
<1>1. /\ UNCHANGED <<project, jobs, compiles, process, faults>> /\ at[h] = "f_qcfail"
  BY DEF FailQC, world
<1>2. /\ Running /\ h \in Procs /\ Holds(h) /\ process = "serving" /\ faults \in Nat
      /\ jobs \in Seq(Job) /\ h # Boot
  BY <1>1, Moving DEF ReviewAssumption
<1>3. mem' = mem /\ \E pc \in {"f_recover", "f_qcreopen", "f_qcready"} :
        Goto(h, pc) /\ (project.state = "qc" => pc # "f_recover")
  BY <1>2 DEF FailQC, AfterQC
<1>4. PICK pc \in {"f_recover", "f_qcreopen", "f_qcready"} :
        Goto(h, pc) /\ (project.state = "qc" => pc # "f_recover")
  BY <1>3
<1>5. Turns(h) /\ at'[h] = pc /\ mem'[h] = mem[h]
  BY <1>2, <1>3, <1>4, Walks DEF Places, InFinal
<1>6. Submitting' \subseteq Submitting
  BY <1>1, <1>5 DEF Submitting, Turns, Procs
<1>7. Holds(h)'
  BY <1>1, <1>2, <1>5 DEF Holds, InPreview
<1>8. Answers(h)
  BY <1>1, <1>4, <1>5, QuietAnswers DEF FinalPlaces, QCPlaces, InPreview
<1>9. Passes(h)
  BY <1>1, <1>2, <1>5, <1>6, <1>7 DEF Passes, InBoot
<1> QED
  BY <1>2, <1>8, <1>9, PassKeeps

\* A storage error: after it nobody is promised an owner.
LEMMA FaultKeeps ==
  ASSUME ReviewAssumption, ReviewIInv, NEW h \in Handlers, Fault(h)
  PROVE  ReviewIInv'
<1>1. /\ UNCHANGED <<project, jobs, compiles, process>> /\ faults' = faults + 1
      /\ at[h] # "idle"
  BY DEF Fault, world
<1>2. /\ Running /\ h \in Procs /\ Holds(h) /\ process = "serving" /\ faults \in Nat
      /\ jobs \in Seq(Job)
  BY <1>1, Moving
<1>3. \/ /\ mem' = mem
         /\ \E pc \in {"p_release", "f_recover", "f_qcfail"} :
              Goto(h, pc) /\ (pc = "p_release" => at[h] \in InPreview)
      \/ Leave(h)
  BY DEF Fault, Cleanup
<1>4. /\ Turns(h) /\ at'[h] \in {"p_release", "f_recover", "f_qcfail", "idle"} /\ Holds(h)'
  <2>1. ASSUME NEW pc \in {"p_release", "f_recover", "f_qcfail"},
               Goto(h, pc) /\ (pc = "p_release" => at[h] \in InPreview), mem' = mem
        PROVE  /\ Turns(h) /\ at'[h] \in {"p_release", "f_recover", "f_qcfail"} /\ Holds(h)'
    <3>1. Turns(h) /\ at'[h] = pc /\ mem'[h] = mem[h]
      BY <1>2, <2>1, Walks DEF Places, InFinal, InPreview
    <3> QED
      BY <1>1, <1>2, <2>1, <3>1 DEF Holds, InPreview
  <2>2. CASE Leave(h)
    BY <1>1, <1>2, <2>2, Leaves, IdleHolds
  <2> QED
    BY <1>3, <2>1, <2>2
<1>5. Submitting' \subseteq Submitting
  BY <1>1, <1>4 DEF Submitting, Turns, Procs
<1>6. Passes(h) /\ faults' # 0
  BY <1>1, <1>2, <1>4, <1>5 DEF Passes, InBoot
<1> QED
  BY <1>2, <1>6, PassKeeps

-----------------------------------------------------------------------------
(* What the steps of a request do to the project *)

\* A project whose preview is approved goes on to be rendered, checked,
\* delivered, or back to ready.
Advances ==
  /\ project' \in Project
  /\ project'.rev = project.rev /\ project'.look = project.look
  /\ project'.panels = project.panels /\ project'.resume = project.resume
  /\ project'.preview = project.preview /\ project'.approved = project.approved
  /\ project.preview.status = "approved"

\* A project that only advances, its draft and approval untouched, is sane.
LEMMA AdvancedIsSane ==
  ASSUME Sane, jobs \in Seq(Job), jobs' = jobs, Advances, RenderedIsApproved',
         project'.receipt # None => Shows(project'.receipt.job, "final", project'.receipt.plan),
         project'.state = "done" =>
           project'.receipt # None /\ project'.receipt.plan = project.look
  PROVE  Sane'
<1>1. project'.approved # None => Shows(project.approved.job, "preview", project.approved.plan)'
  BY DEF Advances, Sane, Shows
<1>2. project'.receipt # None => Shows(project.receipt.job, "final", project.receipt.plan)'
  BY DEF Shows
<1> QED
  BY <1>1, <1>2 DEF Advances, Sane

\* Back to ready: nothing is rendered, checked or delivered any more.
LEMMA ReadyIsSane ==
  ASSUME Sane, jobs \in Seq(Job), jobs' = jobs, Advances, project'.state = "ready",
         project'.receipt \in {project.receipt, None}
  PROVE  Sane'
<1>1. RenderedIsApproved'
  BY DEF RenderedIsApproved, Terminal
<1>2. project'.receipt # None => Shows(project'.receipt.job, "final", project'.receipt.plan)
  BY DEF Sane
<1> QED
  BY <1>1, <1>2, AdvancedIsSane

\* The state is ready again, and the claim of the render, or the receipt too,
\* is gone.
LEMMA BackToReady ==
  ASSUME ReviewAssumption, Sane, jobs \in Seq(Job), jobs' = jobs, project.state \in Terminal,
         \/ project' = [project EXCEPT !.state = "ready", !.active = None]
         \/ project' = [project EXCEPT !.state = "ready", !.receipt = None]
         \/ project' = [project EXCEPT !.state = "ready", !.receipt = None, !.active = None]
         \/ project' = [project EXCEPT !.state = "ready"]
  PROVE  Sane' /\ project'.state = "ready" /\ project'.preview = project.preview
         /\ project.preview.status = "approved"
<1>1. project \in Project /\ project.preview.status = "approved"
  BY DEF Sane, Terminal
<1>2. Advances /\ project'.state = "ready" /\ project'.receipt \in {project.receipt, None}
  BY ZenonT(40), <1>1 DEF Advances, Project, States
<1> QED
  BY <1>1, <1>2, ReadyIsSane DEF Advances

\* The render claims the approved look.
LEMMA ClaimedIsSane ==
  ASSUME ReviewAssumption, Sane, jobs \in Seq(Job), jobs' = jobs, NEW h \in Procs,
         MayRenderFinal(project), project.look = mem[h].plan,
         project' = [project EXCEPT !.state = "rendering", !.active = mem[h].plan]
  PROVE  Sane' /\ project'.state = "rendering" /\ project'.preview.status = "approved"
<1>1. project \in Project /\ project.preview.status = "approved"
      /\ project.approved # None /\ project.approved.digest = <<project.rev, "ready">>
      /\ project.approved.plan = project.look /\ project.look \in Looks
  BY DEF Sane, MayRenderFinal, Compiles, Digest, Project
<1>2. Advances /\ project'.state = "rendering" /\ project'.receipt = project.receipt
      /\ project'.active = project.look
  BY <1>1 DEF Advances, Project, States, Terminal
<1>3. RenderedIsApproved'
  BY <1>1, <1>2 DEF Advances, RenderedIsApproved
<1>4. project'.receipt # None => Shows(project'.receipt.job, "final", project'.receipt.plan)
  BY <1>2 DEF Sane
<1> QED
  BY <1>1, <1>2, <1>3, <1>4, AdvancedIsSane DEF Advances

\* The receipt is of the final render the project claims.
LEMMA ReceivedIsSane ==
  ASSUME ReviewAssumption, Sane, jobs \in Seq(Job), jobs' = jobs, NEW h \in Procs,
         project.state = "rendering", project.active = mem[h].plan,
         Shows(mem[h].job, "final", mem[h].plan),
         project' = [project EXCEPT
           !.state = "qc", !.active = None, !.receipt = [job |-> mem[h].job, plan |-> mem[h].plan]]
  PROVE  Sane' /\ project'.state = "qc" /\ project'.preview.status = "approved"
<1> DEFINE r == [job |-> mem[h].job, plan |-> mem[h].plan]
<1>1. project \in Project /\ project.preview.status = "approved"
  BY DEF Sane
<1>2. jobs[mem[h].job] \in Job /\ mem[h].job \in Nat
  BY DEF Shows
<1>3. r \in Receipt /\ r.job = mem[h].job /\ r.plan = mem[h].plan
  BY <1>2 DEF Receipt, Shows, Job
<1>4. project' = [project EXCEPT !.state = "qc", !.active = None, !.receipt = r]
  OBVIOUS
<1> HIDE DEF r
<1>5. Advances /\ project'.state = "qc" /\ project'.receipt = r /\ project'.active = None
  BY <1>1, <1>3, <1>4 DEF Advances, Project, States, Terminal
<1>6. RenderedIsApproved'
  BY <1>5 DEF Advances, RenderedIsApproved, Terminal, Sane
<1> QED
  BY <1>1, <1>3, <1>5, <1>6, AdvancedIsSane DEF Advances

\* What passed the check is what the receipt shows.
LEMMA PassedIsSane ==
  ASSUME ReviewAssumption, Sane, jobs \in Seq(Job), jobs' = jobs,
         project.state = "qc", FinalIsValid(project),
         project' = [project EXCEPT !.state = "done"]
  PROVE  Sane' /\ project'.state = "done" /\ project'.preview = project.preview
         /\ project.preview.status = "approved"
<1>1. project \in Project /\ project.preview.status = "approved"
      /\ project.receipt # None /\ project.receipt.plan = project.look
  BY DEF Sane, FinalIsValid, Compiles
<1>2. Advances /\ project'.state = "done" /\ project'.receipt = project.receipt
      /\ project'.active = project.active
  BY <1>1 DEF Advances, Project, States, Terminal
<1>3. RenderedIsApproved'
  BY <1>2 DEF Advances, RenderedIsApproved, Terminal, Sane
<1>4. Shows(project'.receipt.job, "final", project'.receipt.plan)
  BY <1>1, <1>2 DEF Sane
<1> QED
  BY <1>1, <1>2, <1>3, <1>4, AdvancedIsSane DEF Advances

\* A preview claim opens, or ends with a candidate or with nothing: only a
\* project under review has one.
LEMMA OpenIsReviewed ==
  ASSUME Sane, PreviewOpen(project)
  PROVE  project.state = "needs_review"
  BY DEF Sane, PreviewOpen

\* So is one whose preview starts, ends or fails.
LEMMA PreviewIsSane ==
  ASSUME ReviewAssumption, Sane, jobs \in Seq(Job), jobs' = jobs, PreviewOpen(project),
         project' \in Project, project'.state = "needs_review",
         project'.rev = project.rev, project'.look = project.look,
         project'.panels = project.panels, project'.resume = project.resume,
         project'.approved = project.approved, project'.receipt = project.receipt,
         project'.preview.status = "rendering" => project'.preview.claim \in Handlers,
         project'.preview.status = "ready" =>
           /\ Shows(project'.preview.job, "preview", project'.preview.plan)
           /\ project'.preview.digest = <<project.rev, "needs_review">>
           /\ project'.preview.plan = project.look
  PROVE  Sane'
<1>1. RenderedIsApproved'
  BY DEF RenderedIsApproved, Terminal
<1>2. project'.approved # None => Shows(project.approved.job, "preview", project.approved.plan)'
  BY DEF Sane, Shows
<1>3. project'.receipt # None => Shows(project.receipt.job, "final", project.receipt.plan)'
  BY DEF Sane, Shows
<1>4. project'.preview.status = "ready" =>
        /\ Shows(project.preview.job, "preview", project.preview.plan)'
        /\ project'.preview.digest \in Nat \X States
        /\ project'.preview.digest[1] <= project'.rev
        /\ project'.preview.digest = Digest(project)' /\ project'.preview.plan = project'.look
  <2>1. project.rev \in Nat /\ "needs_review" \in States
    BY DEF Sane, Project, States
  <2>2. Digest(project)' = <<project.rev, "needs_review">>
    BY DEF Digest
  <2>3. <<project.rev, "needs_review">> \in Nat \X States
        /\ <<project.rev, "needs_review">>[1] = project.rev
    BY <2>1
  <2>4. project'.preview.status = "ready" =>
          Shows(project.preview.job, "preview", project.preview.plan)'
    BY DEF Shows
  <2> QED
    BY <2>1, <2>2, <2>3, <2>4
<1>5. (project'.panels = 0) <=> (project'.resume = None)
  BY DEF Sane
<1> QED
  BY <1>1, <1>2, <1>3, <1>4, <1>5 DEF Sane

\* A request writes the project, and nothing else but its own place.
Writes(h) ==
  /\ UNCHANGED <<jobs, compiles, process, faults>>
  /\ Turns(h) /\ at'[h] \notin InBoot /\ Holds(h)'
  /\ Submitting' \subseteq Submitting

\* A request that writes the project and leaves it sane keeps the invariant.
LEMMA WriteKeeps ==
  ASSUME ReviewAssumption, ReviewIInv, process = "serving", NEW h \in Handlers,
         Writes(h), Sane', Answers(h)
  PROVE  ReviewIInv'
<1>1. /\ jobs \in Seq(Job) /\ jobs' = jobs /\ Running /\ faults \in Nat /\ faults' = faults
  BY DEF Writes, ReviewIInv, Running
<1>2. JobsGrow /\ Len(jobs') + Cardinality(Submitting') <= MaxJobs
  BY <1>1, JobsStay, BudgetKept DEF Writes
<1> QED
  BY <1>1, <1>2, RequestKeeps DEF Writes

\* A request that writes and answers.
LEMMA WritesAndLeaves ==
  ASSUME ReviewIInv, NEW h \in Handlers, at[h] # "idle", Leave(h),
         UNCHANGED <<jobs, compiles, process, faults>>
  PROVE  Writes(h) /\ at'[h] = "idle"
<1>1. Running /\ h \in Procs /\ jobs \in Seq(Job) /\ jobs' = jobs
  BY Moving
<1>2. Turns(h) /\ at'[h] = "idle" /\ mem'[h] = Empty
  BY <1>1, Leaves
<1>3. Holds(h)'
  BY <1>1, <1>2, IdleHolds
<1>4. Submitting' \subseteq Submitting
  BY <1>1, <1>2 DEF Submitting, Turns, Procs
<1> QED
  BY <1>2, <1>3, <1>4 DEF Writes, InBoot

\* The preview is claimed, or another request was faster.
LEMMA ClaimPreviewKeeps ==
  ASSUME ReviewAssumption, ReviewIInv, NEW h \in Handlers, ClaimPreview(h)
  PROVE  ReviewIInv'
<1>1. /\ UNCHANGED <<jobs, compiles, process, faults>> /\ at[h] = "p_claim"
  BY DEF ClaimPreview, world
<1>2. /\ Running /\ Sane /\ h \in Procs /\ Holds(h) /\ process = "serving"
      /\ jobs \in Seq(Job) /\ project \in Project /\ mem[h] \in Memory
  BY <1>1, Moving
<1>3. CASE PreviewOpen(project) /\ project' # project
  <2> DEFINE r == [status |-> "rendering", claim |-> h, job |-> 0,
                   digest |-> mem[h].digest, plan |-> mem[h].plan]
  <2>1. project.state = "needs_review"
    BY <1>2, <1>3, OpenIsReviewed
  <2>2. /\ project' = [project EXCEPT !.preview = r] /\ mem' = mem
        /\ \E pc \in {"p_job", "p_record"} : Goto(h, pc) /\ (pc = "p_record" => mem[h].job # 0)
    BY <1>3 DEF ClaimPreview
  <2>3. r \in Preview /\ r.status = "rendering" /\ r.claim = h
    BY <1>2 DEF Preview, Memory
  <2> HIDE DEF r
  <2>4. /\ project' \in Project /\ project'.state = "needs_review" /\ project'.preview = r
        /\ project'.rev = project.rev /\ project'.look = project.look
        /\ project'.panels = project.panels /\ project'.resume = project.resume
        /\ project'.approved = project.approved /\ project'.receipt = project.receipt
    BY <1>2, <2>1, <2>2, <2>3 DEF Project
  <2>5. Sane'
    BY <1>1, <1>2, <1>3, <2>3, <2>4, PreviewIsSane
  <2>6. PICK pc \in {"p_job", "p_record"} : Goto(h, pc) /\ (pc = "p_record" => mem[h].job # 0)
    BY <2>2
  <2>7. Turns(h) /\ at'[h] = pc /\ mem'[h] = mem[h]
    BY <1>2, <2>2, <2>6, Walks DEF Places, InPreview
  <2>8. Holds(h)'
    BY <1>1, <1>2, <2>6, <2>7 DEF Holds, Shows, InPreview
  <2>9. Submitting' \subseteq Submitting
    BY <1>1, <2>7 DEF Submitting, Turns, Procs
  <2>10. Answers(h)
    BY <2>3, <2>4, <2>7 DEF Answers, InPreview
  <2> QED
    BY <1>1, <1>2, <2>5, <2>7, <2>8, <2>9, <2>10, WriteKeeps DEF Writes, InBoot
<1>4. CASE project' = project
  <2>1. Leave(h)
    <3>1. project.preview.status = "rendering" => PreviewOpen(project)
      BY DEF PreviewOpen
    <3>2. CASE project.preview.status = "rendering"
      BY <3>1, <3>2 DEF ClaimPreview
    <3>3. CASE project.preview.status # "rendering"
      <4> SUFFICES ASSUME ~Leave(h) PROVE FALSE
        OBVIOUS
      <4> DEFINE r == [status |-> "rendering", claim |-> h, job |-> 0,
                       digest |-> mem[h].digest, plan |-> mem[h].plan]
      <4>1. project' = [project EXCEPT !.preview = r]
        BY DEF ClaimPreview
      <4>2. r.status = "rendering"
        OBVIOUS
      <4> HIDE DEF r
      <4>3. project'.preview = r
        BY <1>2, <4>1 DEF Project
      <4> QED
        BY <1>4, <3>3, <4>2, <4>3
    <3> QED
      BY <3>2, <3>3
  <2>2. Writes(h) /\ at'[h] = "idle"
    BY <1>1, <2>1, WritesAndLeaves
  <2>3. Sane'
    BY <1>1, <1>2, <1>4, JobsStay, SaneStays
  <2>4. Answers(h)
    BY <1>1, <1>4, <2>2, QuietAnswers DEF FinalPlaces, QCPlaces, InPreview
  <2> QED
    BY <1>2, <2>2, <2>3, <2>4, WriteKeeps
<1> QED
  BY <1>3, <1>4 DEF ClaimPreview

\* The candidate is recorded for the claim it was rendered for, or not at all.
LEMMA RecordKeeps ==
  ASSUME ReviewAssumption, ReviewIInv, NEW h \in Handlers, RecordPreview(h)
  PROVE  ReviewIInv'
<1>1. /\ UNCHANGED <<jobs, compiles, process, faults>> /\ at[h] = "p_record"
  BY DEF RecordPreview, world
<1>2. /\ Running /\ Sane /\ h \in Procs /\ Holds(h) /\ process = "serving"
      /\ jobs \in Seq(Job) /\ project \in Project /\ mem[h] \in Memory
  BY <1>1, Moving
<1>3. CASE StillMine(h)
  <2> DEFINE r == [status |-> "ready", claim |-> None, job |-> mem[h].job,
                   digest |-> mem[h].digest, plan |-> mem[h].plan]
  <2>1. /\ project.state = "needs_review" /\ mem[h].digest = <<project.rev, "needs_review">>
        /\ mem[h].plan = project.look /\ Shows(mem[h].job, "preview", mem[h].plan)
        /\ PreviewOpen(project)
    BY <1>1, <1>2, <1>3, OpenIsReviewed DEF StillMine, Digest, Compiles, Holds
  <2>2. /\ project' = [project EXCEPT !.state = "needs_review", !.preview = r] /\ Leave(h)
    BY <1>3 DEF RecordPreview
  <2>3. r \in Preview /\ r.status = "ready" /\ r.job = mem[h].job /\ r.digest = mem[h].digest
        /\ r.plan = mem[h].plan
    BY <1>2 DEF Preview, Memory
  <2> HIDE DEF r
  <2>4. /\ project' \in Project /\ project'.state = "needs_review" /\ project'.preview = r
        /\ project'.rev = project.rev /\ project'.look = project.look
        /\ project'.panels = project.panels /\ project'.resume = project.resume
        /\ project'.approved = project.approved /\ project'.receipt = project.receipt
    BY <1>2, <2>2, <2>3 DEF Project, States
  <2>5. Sane'
    BY <1>1, <1>2, <2>1, <2>3, <2>4, PreviewIsSane
  <2>6. Writes(h) /\ at'[h] = "idle"
    BY <1>1, <2>2, WritesAndLeaves
  <2>7. Answers(h)
    BY <2>3, <2>4 DEF Answers
  <2> QED
    BY <1>2, <2>5, <2>6, <2>7, WriteKeeps
<1>4. CASE ~StillMine(h)
  <2>1. Goto(h, "p_release") /\ mem' = mem /\ project' = project
    BY <1>4 DEF RecordPreview
  <2>2. Turns(h) /\ at'[h] = "p_release" /\ mem'[h] = mem[h]
    BY <1>2, <2>1, Walks DEF Places, InPreview
  <2>3. Holds(h)' /\ Submitting' \subseteq Submitting
    BY <1>1, <1>2, <2>2 DEF Holds, InPreview, Submitting, Turns, Procs
  <2>4. Answers(h)
    BY <1>1, <2>1, <2>2, QuietAnswers DEF FinalPlaces, QCPlaces, InPreview
  <2>5. Sane'
    BY <1>1, <1>2, <2>1, JobsStay, SaneStays
  <2> QED
    BY <1>1, <1>2, <2>2, <2>3, <2>4, <2>5, WriteKeeps DEF Writes, InBoot
<1> QED
  BY <1>3, <1>4

\* A failed request takes back its own claim.
LEMMA ReleaseKeeps ==
  ASSUME ReviewAssumption, ReviewIInv, NEW h \in Handlers, ReleasePreview(h)
  PROVE  ReviewIInv'
<1>1. /\ UNCHANGED <<jobs, compiles, process, faults>> /\ at[h] = "p_release" /\ Leave(h)
  BY DEF ReleasePreview, world
<1>2. /\ Running /\ Sane /\ h \in Procs /\ process = "serving"
      /\ jobs \in Seq(Job) /\ project \in Project
  BY <1>1, Moving
<1>3. Writes(h) /\ at'[h] = "idle"
  BY <1>1, WritesAndLeaves
<1>4. CASE PreviewOpen(project) /\ project.preview.claim = h
  <2>1. project.state = "needs_review" /\ project' = [project EXCEPT !.preview = NoPreview]
    BY <1>2, <1>4, OpenIsReviewed DEF ReleasePreview
  <2>2. /\ project' \in Project /\ project'.state = "needs_review" /\ project'.preview = NoPreview
        /\ project'.rev = project.rev /\ project'.look = project.look
        /\ project'.panels = project.panels /\ project'.resume = project.resume
        /\ project'.approved = project.approved /\ project'.receipt = project.receipt
    BY <1>2, <2>1, NoPreviewIs DEF Project
  <2>3. Sane'
    BY <1>1, <1>2, <1>4, <2>2, NoPreviewIs, PreviewIsSane
  <2>4. Answers(h)
    BY <2>2, NoPreviewIs DEF Answers
  <2> QED
    BY <1>2, <1>3, <2>3, <2>4, WriteKeeps
<1>5. CASE ~(PreviewOpen(project) /\ project.preview.claim = h)
  <2>1. project' = project
    BY <1>5 DEF ReleasePreview
  <2>2. Sane'
    BY <1>1, <1>2, <2>1, JobsStay, SaneStays
  <2>3. Answers(h)
    BY <1>1, <1>5, <2>1 DEF Answers, PreviewOpen, FinalPlaces, QCPlaces
  <2> QED
    BY <1>2, <1>3, <2>2, <2>3, WriteKeeps
<1> QED
  BY <1>4, <1>5

-----------------------------------------------------------------------------
(* The steps of a final render that write the project *)

\* A request that writes and goes on with what it holds.
LEMMA WritesAndWalks ==
  ASSUME ReviewIInv, NEW h \in Handlers, at[h] # "idle", mem' = mem,
         UNCHANGED <<jobs, compiles, process, faults>>,
         NEW pc \in {"f_enter", "f_done", "f_qcfail", "f_recover"}, Goto(h, pc),
         pc = "f_enter" => at[h] = "f_redo"
  PROVE  Writes(h) /\ at'[h] = pc
<1>1. Running /\ h \in Procs /\ jobs \in Seq(Job) /\ jobs' = jobs /\ Holds(h)
  BY Moving
<1>2. Turns(h) /\ at'[h] = pc /\ mem'[h] = mem[h]
  BY <1>1, Walks DEF Places, InFinal
<1>3. Holds(h)'
  BY <1>1, <1>2 DEF Holds, InPreview
<1>4. Submitting' \subseteq Submitting
  BY <1>1, <1>2 DEF Submitting, Turns, Procs
<1> QED
  BY <1>2, <1>3, <1>4 DEF Writes, InBoot

\* An unusable project goes back to review.
LEMMA ReopenKeeps ==
  ASSUME ReviewAssumption, ReviewIInv, NEW h \in Handlers, Reopen(h)
  PROVE  ReviewIInv'
<1>1. /\ UNCHANGED <<jobs, compiles, process, faults>> /\ at[h] \in {"f_reopen", "f_qcreopen"}
      /\ project' = Reopened(project)
  BY DEF Reopen, world
<1>2. /\ Running /\ Sane /\ h \in Procs /\ process = "serving" /\ jobs \in Seq(Job) /\ h # Boot
  BY <1>1, Moving DEF ReviewAssumption
<1>3. Sane' /\ project'.state = "needs_review" /\ project'.preview.status = "not_rendered"
  BY <1>1, <1>2, ReopenedIsSane, NoPreviewIs
<1>4. Leave(h) \/ (Goto(h, "f_recover") /\ mem' = mem)
  BY <1>2 DEF Reopen, AfterQC
<1>5. Writes(h)
  BY <1>1, <1>4, WritesAndLeaves, WritesAndWalks
<1>6. Answers(h)
  BY <1>3 DEF Answers
<1> QED
  BY <1>2, <1>3, <1>5, <1>6, WriteKeeps

\* A done project whose artifact is gone is ready again.
LEMMA RedoKeeps ==
  ASSUME ReviewAssumption, ReviewIInv, NEW h \in Handlers, RedoFinal(h)
  PROVE  ReviewIInv'
<1>1. /\ UNCHANGED <<jobs, compiles, process, faults>> /\ at[h] = "f_redo"
      /\ mem' = mem /\ Goto(h, "f_enter")
  BY DEF RedoFinal, world, Quiet
<1>2. /\ Running /\ Sane /\ h \in Procs /\ process = "serving" /\ jobs \in Seq(Job)
  BY <1>1, Moving
<1>3. Writes(h) /\ at'[h] = "f_enter"
  BY <1>1, WritesAndWalks
<1>4. CASE project.state = "done"
  <2>1. project' = [project EXCEPT !.state = "ready", !.receipt = None]
    BY <1>4 DEF RedoFinal
  <2>2. Sane' /\ project'.state = "ready" /\ project'.preview.status = "approved"
    BY <1>1, <1>2, <1>4, <2>1, BackToReady DEF Terminal
  <2>3. Answers(h)
    BY <2>2 DEF Answers
  <2> QED
    BY <1>2, <1>3, <2>2, <2>3, WriteKeeps
<1>5. CASE project.state # "done"
  <2>1. project' = project
    BY <1>5 DEF RedoFinal
  <2>2. Sane'
    BY <1>1, <1>2, <2>1, JobsStay, SaneStays
  <2>3. Answers(h)
    BY <1>1, <1>3, <2>1, QuietAnswers DEF FinalPlaces, QCPlaces, InPreview
  <2> QED
    BY <1>2, <1>3, <2>2, <2>3, WriteKeeps
<1> QED
  BY <1>4, <1>5

\* The final render is claimed for the approved look, or not at all.
LEMMA ClaimFinalKeeps ==
  ASSUME ReviewAssumption, ReviewIInv, NEW h \in Handlers, ClaimFinal(h)
  PROVE  ReviewIInv'
<1>1. /\ UNCHANGED <<jobs, compiles, process, faults>> /\ at[h] = "f_claim"
  BY DEF ClaimFinal, world
<1>2. /\ Running /\ Sane /\ h \in Procs /\ process = "serving" /\ jobs \in Seq(Job) /\ Holds(h)
  BY <1>1, Moving
<1>3. CASE MayRenderFinal(project) /\ project.look = mem[h].plan
  <2>1. /\ project' = [project EXCEPT !.state = "rendering", !.active = mem[h].plan]
        /\ Goto(h, "f_job") /\ mem' = mem
    BY <1>3 DEF ClaimFinal
  <2>2. Sane' /\ project'.state = "rendering" /\ project'.preview.status = "approved"
    BY <1>1, <1>2, <1>3, <2>1, ClaimedIsSane
  <2>3. Turns(h) /\ at'[h] = "f_job" /\ mem'[h] = mem[h]
    BY <1>2, <2>1, Walks DEF Places, InFinal
  <2>4. Holds(h)'
    BY <1>1, <1>2, <2>3 DEF Holds, InPreview
  <2>5. Submitting' \subseteq Submitting
    BY <1>1, <1>2, <2>3 DEF Submitting, Turns, Procs
  <2>6. Answers(h)
    BY <2>2, <2>3 DEF Answers, FinalPlaces
  <2> QED
    BY <1>1, <1>2, <2>2, <2>3, <2>4, <2>5, <2>6, WriteKeeps DEF Writes, InBoot
<1>4. CASE ~(MayRenderFinal(project) /\ project.look = mem[h].plan)
  <2>1. project' = project /\ Leave(h)
    BY <1>4 DEF ClaimFinal
  <2>2. Writes(h) /\ at'[h] = "idle"
    BY <1>1, <2>1, WritesAndLeaves
  <2>3. Sane'
    BY <1>1, <1>2, <2>1, JobsStay, SaneStays
  <2>4. Answers(h)
    BY <1>1, <2>1, <2>2, QuietAnswers DEF FinalPlaces, QCPlaces, InPreview
  <2> QED
    BY <1>2, <2>2, <2>3, <2>4, WriteKeeps
<1> QED
  BY <1>3, <1>4

\* The render enters the quality check, ...
LEMMA EnterQCKeeps ==
  ASSUME ReviewAssumption, ReviewIInv, NEW h \in Handlers, EnterQC(h)
  PROVE  ReviewIInv'
<1>1. /\ UNCHANGED <<jobs, compiles, process, faults>> /\ at[h] = "f_qc" /\ mem' = mem
  BY DEF EnterQC, world, Quiet
<1>2. /\ Running /\ Sane /\ h \in Procs /\ process = "serving" /\ jobs \in Seq(Job) /\ Holds(h)
  BY <1>1, Moving
<1>3. CASE project.state = "rendering" /\ project.active = mem[h].plan
  <2>1. /\ project' = [project EXCEPT !.state = "qc", !.active = None,
                         !.receipt = [job |-> mem[h].job, plan |-> mem[h].plan]]
        /\ Goto(h, "f_done")
    BY <1>3 DEF EnterQC
  <2>2. Shows(mem[h].job, "final", mem[h].plan)
    BY <1>1, <1>2 DEF Holds
  <2>3. Sane' /\ project'.state = "qc" /\ project'.preview.status = "approved"
    BY <1>1, <1>2, <1>3, <2>1, <2>2, ReceivedIsSane
  <2>4. Writes(h) /\ at'[h] = "f_done"
    BY <1>1, <2>1, WritesAndWalks
  <2>5. Answers(h)
    BY <2>3, <2>4 DEF Answers, QCPlaces
  <2> QED
    BY <1>2, <2>3, <2>4, <2>5, WriteKeeps
<1>4. CASE ~(project.state = "rendering" /\ project.active = mem[h].plan)
  <2>1. project' = project /\ Goto(h, "f_qcfail")
    BY <1>4 DEF EnterQC
  <2>2. Writes(h) /\ at'[h] = "f_qcfail"
    BY <1>1, <2>1, WritesAndWalks
  <2>3. Sane'
    BY <1>1, <1>2, <2>1, JobsStay, SaneStays
  <2>4. Answers(h)
    BY <1>1, <2>1, <2>2, QuietAnswers DEF FinalPlaces, QCPlaces, InPreview
  <2> QED
    BY <1>2, <2>2, <2>3, <2>4, WriteKeeps
<1> QED
  BY <1>3, <1>4

\* ... passes it, ...
LEMMA PassQCKeeps ==
  ASSUME ReviewAssumption, ReviewIInv, NEW h \in Handlers, PassQC(h)
  PROVE  ReviewIInv'
<1>1. /\ UNCHANGED <<jobs, compiles, process, faults>> /\ at[h] = "f_done"
  BY DEF PassQC, world
<1>2. /\ Running /\ Sane /\ h \in Procs /\ process = "serving" /\ jobs \in Seq(Job)
  BY <1>1, Moving
<1>3. CASE project.state = "qc" /\ FinalIsValid(project)
  <2>1. project' = [project EXCEPT !.state = "done"] /\ Leave(h)
    BY <1>3 DEF PassQC
  <2>2. Sane' /\ project'.state = "done" /\ project'.preview.status = "approved"
    BY <1>1, <1>2, <1>3, <2>1, PassedIsSane
  <2>3. Writes(h) /\ at'[h] = "idle"
    BY <1>1, <2>1, WritesAndLeaves
  <2>4. Answers(h)
    BY <2>2 DEF Answers
  <2> QED
    BY <1>2, <2>2, <2>3, <2>4, WriteKeeps
<1>4. CASE ~(project.state = "qc" /\ FinalIsValid(project))
  <2>1. project' = project /\ Goto(h, "f_qcfail") /\ mem' = mem
    BY <1>4 DEF PassQC
  <2>2. Writes(h) /\ at'[h] = "f_qcfail"
    BY <1>1, <2>1, WritesAndWalks
  <2>3. Sane'
    BY <1>1, <1>2, <2>1, JobsStay, SaneStays
  <2>4. Answers(h)
    BY <1>1, <2>1, <2>2, QuietAnswers DEF FinalPlaces, QCPlaces, InPreview
  <2> QED
    BY <1>2, <2>2, <2>3, <2>4, WriteKeeps
<1> QED
  BY <1>3, <1>4

\* ... or leaves it, ready again.
LEMMA LeaveQCKeeps ==
  ASSUME ReviewAssumption, ReviewIInv, NEW h \in Handlers, LeaveQC(h)
  PROVE  ReviewIInv'
<1>1. /\ UNCHANGED <<jobs, compiles, process, faults>> /\ at[h] = "f_qcready"
  BY DEF LeaveQC, world
<1>2. /\ Running /\ Sane /\ h \in Procs /\ process = "serving" /\ jobs \in Seq(Job) /\ h # Boot
  BY <1>1, Moving DEF ReviewAssumption
<1>3. Goto(h, "f_recover") /\ mem' = mem
  BY <1>2 DEF LeaveQC, AfterQC
<1>4. Writes(h) /\ at'[h] = "f_recover"
  BY <1>1, <1>3, WritesAndWalks
<1>5. CASE project.state = "qc"
  <2>1. project' = [project EXCEPT !.state = "ready", !.receipt = None, !.active = None]
    BY <1>5 DEF LeaveQC
  <2>2. Sane' /\ project'.state = "ready" /\ project'.preview.status = "approved"
    BY <1>1, <1>2, <1>5, <2>1, BackToReady DEF Terminal
  <2>3. Answers(h)
    BY <2>2 DEF Answers
  <2> QED
    BY <1>2, <1>4, <2>2, <2>3, WriteKeeps
<1>6. CASE project.state # "qc"
  <2>1. project' = project
    BY <1>6 DEF LeaveQC
  <2>2. Sane'
    BY <1>1, <1>2, <2>1, JobsStay, SaneStays
  <2>3. Answers(h)
    BY <1>1, <1>4, <1>6, <2>1, QuietAnswers DEF FinalPlaces, QCPlaces, InPreview
  <2> QED
    BY <1>2, <1>4, <2>2, <2>3, WriteKeeps
<1> QED
  BY <1>5, <1>6

\* render_final's own clean-up ends the claim.
LEMMA RecoverFinalKeeps ==
  ASSUME ReviewAssumption, ReviewIInv, NEW h \in Handlers, RecoverFinal(h)
  PROVE  ReviewIInv'
<1>1. /\ UNCHANGED <<jobs, compiles, process, faults>> /\ at[h] = "f_recover" /\ Leave(h)
  BY DEF RecoverFinal, world
<1>2. /\ Running /\ Sane /\ h \in Procs /\ process = "serving" /\ jobs \in Seq(Job)
  BY <1>1, Moving
<1>3. Writes(h) /\ at'[h] = "idle"
  BY <1>1, WritesAndLeaves
<1>4. CASE project.state = "rendering"
  <2>1. project' = [project EXCEPT !.state = "ready", !.active = None]
    BY <1>4 DEF RecoverFinal
  <2>2. Sane' /\ project'.state = "ready" /\ project'.preview.status = "approved"
    BY <1>1, <1>2, <1>4, <2>1, BackToReady DEF Terminal
  <2>3. Answers(h)
    BY <2>2 DEF Answers
  <2> QED
    BY <1>2, <1>3, <2>2, <2>3, WriteKeeps
<1>5. CASE project.state # "rendering"
  <2>1. project' = project
    BY <1>5 DEF RecoverFinal
  <2>2. Sane'
    BY <1>1, <1>2, <2>1, JobsStay, SaneStays
  <2>3. Answers(h)
    BY <1>1, <1>5, <2>1 DEF Answers, QCPlaces, InPreview
  <2> QED
    BY <1>2, <1>3, <2>2, <2>3, WriteKeeps
<1> QED
  BY <1>4, <1>5

-----------------------------------------------------------------------------
(* The recovery, one step at a time, before requests are served *)

\* What a step of the recovery has to leave behind.
Recovers ==
  /\ at'[Boot] \in {"b_retire", "b_recover", "idle", "f_qc"} \cup QCPlaces
  /\ project'.preview.status # "rendering"
  /\ at'[Boot] = "idle" => project'.state \notin {"rendering", "qc"}
  /\ at'[Boot] = "f_qc" => project'.state = "rendering" /\ project'.active = mem'[Boot].plan
  /\ at'[Boot] \in QCPlaces => project'.state = "qc"

\* A step of the recovery at boot keeps it.
LEMMA BootKeeps ==
  ASSUME ReviewAssumption, ReviewIInv, process = "starting",
         Turns(Boot), JobsGrow, Len(jobs') = Len(jobs), Holds(Boot)',
         UNCHANGED <<compiles, process, faults>>, Sane', Recovers
  PROVE  ReviewIInv'
<1>1. /\ Running /\ Boot \in Procs /\ Handlers \subseteq Procs /\ Boot \notin Handlers
      /\ faults \in Nat /\ jobs' \in Seq(Job)
  BY DEF Procs, ReviewAssumption, ReviewIInv, Running, JobsGrow
<1>2. \A g \in Handlers : at'[g] = at[g] /\ at[g] = "idle"
  BY <1>1 DEF Turns, ReviewIInv, Recovering
<1>3. Submitting' \subseteq Submitting
  BY <1>2 DEF Submitting
<1>4. Len(jobs') + Cardinality(Submitting') <= MaxJobs
  BY <1>1, <1>3, BudgetKept
<1>5. Running'
  BY <1>1, <1>4, TurnRuns
<1>6. Recovering'
  BY <1>2 DEF Recovering, Recovers, InBoot
<1>7. Owned'
  BY DEF Owned
<1> QED
  BY <1>5, <1>6, <1>7 DEF ReviewIInv

\* What is known while the recovery runs.
LEMMA Starting ==
  ASSUME ReviewIInv, at[Boot] # "idle"
  PROVE  /\ process = "starting" /\ Running /\ Sane /\ Boot \in Procs /\ Holds(Boot)
         /\ jobs \in Seq(Job) /\ project \in Project
         /\ at[Boot] # "b_reset" => project.preview.status # "rendering"
         /\ at[Boot] \in InBoot \cup QCPlaces \cup {"f_qc"}
         /\ at[Boot] = "f_qc" => project.state = "rendering" /\ project.active = mem[Boot].plan
         /\ at[Boot] \in QCPlaces => project.state = "qc"
  BY DEF ReviewIInv, Recovering, Running, Sane, Procs

\* A preview claim of the dead process ends.
LEMMA ResetKeeps ==
  ASSUME ReviewAssumption, ReviewIInv, ResetPreview
  PROVE  ReviewIInv'
<1>1. /\ UNCHANGED <<jobs, compiles, process, faults>> /\ mem' = mem
      /\ at[Boot] = "b_reset" /\ Goto(Boot, "b_retire")
  BY DEF ResetPreview, Quiet, world
<1>2. /\ process = "starting" /\ Running /\ Sane /\ Boot \in Procs /\ Holds(Boot)
      /\ jobs \in Seq(Job) /\ project \in Project
  BY <1>1, Starting
<1>3. Turns(Boot) /\ at'[Boot] = "b_retire" /\ mem'[Boot] = mem[Boot]
  BY <1>1, <1>2, Walks DEF Places, InBoot
<1>4. Holds(Boot)'
  BY <1>1, <1>2, <1>3 DEF Holds, InPreview
<1>5. Sane' /\ project'.preview.status # "rendering"
  <2>1. CASE project.preview.status = "rendering"
    <3>1. project.state = "needs_review" /\ project' = [project EXCEPT !.preview = NoPreview]
          /\ PreviewOpen(project)
      BY <1>2, <2>1, OpenIsReviewed DEF ResetPreview, PreviewOpen
    <3>2. /\ project' \in Project /\ project'.state = "needs_review"
          /\ project'.preview = NoPreview
          /\ project'.rev = project.rev /\ project'.look = project.look
          /\ project'.panels = project.panels /\ project'.resume = project.resume
          /\ project'.approved = project.approved /\ project'.receipt = project.receipt
      BY <1>2, <3>1, NoPreviewIs DEF Project
    <3> QED
      BY <1>1, <1>2, <3>1, <3>2, NoPreviewIs, PreviewIsSane
  <2>2. CASE project.preview.status # "rendering"
    BY <1>1, <1>2, <2>2, JobsStay, SaneStays DEF ResetPreview
  <2> QED
    BY <2>1, <2>2
<1>6. Recovers
  BY <1>3, <1>5 DEF Recovers, QCPlaces
<1> QED
  BY <1>1, <1>2, <1>3, <1>4, <1>5, <1>6, JobsStay, BootKeeps

\* Its preview attempts are retired.
LEMMA RetireKeeps ==
  ASSUME ReviewAssumption, ReviewIInv, RetirePreviews
  PROVE  ReviewIInv'
<1>1. /\ UNCHANGED <<project, compiles, process, faults>> /\ mem' = mem
      /\ at[Boot] = "b_retire" /\ Goto(Boot, "b_recover")
  BY DEF RetirePreviews, world
<1>2. /\ process = "starting" /\ Running /\ Sane /\ Boot \in Procs /\ Holds(Boot)
      /\ jobs \in Seq(Job) /\ project \in Project /\ project.preview.status # "rendering"
  BY <1>1, Starting
<1>3. JobsGrow /\ Len(jobs') = Len(jobs)
  BY <1>2, RetiringGrows DEF RetirePreviews
<1>4. Turns(Boot) /\ at'[Boot] = "b_recover" /\ mem'[Boot] = mem[Boot]
  BY <1>1, <1>2, Walks DEF Places, InBoot
<1>5. Holds(Boot)'
  BY <1>1, <1>2, <1>3, <1>4 DEF Holds, InPreview
<1>6. Sane' /\ Recovers
  BY <1>1, <1>2, <1>3, <1>4, SaneStays DEF Recovers, QCPlaces
<1> QED
  BY <1>1, <1>2, <1>3, <1>4, <1>5, <1>6, BootKeeps

\* The recovery is over: it holds nothing, and no claim is left.
LEMMA RecoveryEnds ==
  ASSUME ReviewAssumption, ReviewIInv, at[Boot] # "idle", Leave(Boot),
         UNCHANGED <<jobs, compiles, process, faults>>, Sane',
         project'.preview.status # "rendering", project'.state \notin {"rendering", "qc"}
  PROVE  ReviewIInv'
<1>1. /\ process = "starting" /\ Running /\ Boot \in Procs /\ jobs \in Seq(Job)
  BY Starting
<1>2. Turns(Boot) /\ at'[Boot] = "idle" /\ mem'[Boot] = Empty
  BY <1>1, Leaves
<1>3. Holds(Boot)' /\ JobsGrow /\ Len(jobs') = Len(jobs)
  BY <1>1, <1>2, IdleHolds, JobsStay
<1>4. Recovers
  BY <1>2 DEF Recovers, QCPlaces
<1> QED
  BY <1>1, <1>2, <1>3, <1>4, BootKeeps

\* A project in the quality check is delivered, ready, or under review.
LEMMA RecoverQCKeeps ==
  ASSUME ReviewAssumption, ReviewIInv, RecoverQC
  PROVE  ReviewIInv'
<1>1. /\ UNCHANGED <<jobs, compiles, process, faults>> /\ at[Boot] = "b_recover"
      /\ project.state = "qc" /\ Leave(Boot)
  BY DEF RecoverQC, world
<1>2. Sane /\ jobs \in Seq(Job)
  BY <1>1, Starting
<1>3. \/ project' = Reopened(project)
      \/ FinalIsValid(project) /\ project' = [project EXCEPT !.state = "done"]
      \/ project' = [project EXCEPT !.state = "ready"]
  BY DEF RecoverQC
<1>4. /\ Sane' /\ project'.preview.status # "rendering"
      /\ project'.state \notin {"rendering", "qc"}
  <2>1. CASE project' = Reopened(project)
    BY <1>1, <1>2, <2>1, ReopenedIsSane, NoPreviewIs
  <2>2. CASE FinalIsValid(project) /\ project' = [project EXCEPT !.state = "done"]
    BY <1>1, <1>2, <2>2, PassedIsSane
  <2>3. CASE project' = [project EXCEPT !.state = "ready"]
    BY <1>1, <1>2, <2>3, BackToReady DEF Terminal
  <2> QED
    BY <1>3, <2>1, <2>2, <2>3
<1> QED
  BY <1>1, <1>4, RecoveryEnds

\* A finished render of what the project claims is adopted.
LEMMA AdoptKeeps ==
  ASSUME ReviewAssumption, ReviewIInv, AdoptFinal
  PROVE  ReviewIInv'
<1> DEFINE a == Artifact("final", project.active)
           m == [Empty EXCEPT !.job = a, !.plan = project.active]
<1>1. /\ UNCHANGED <<project, jobs, compiles, process, faults>> /\ at[Boot] = "b_recover"
      /\ project.state = "rendering" /\ a # 0 /\ Goto(Boot, "f_qc") /\ Keep(Boot, m)
  BY DEF AdoptFinal, world, Adoptable
<1>2. /\ process = "starting" /\ Running /\ Sane /\ Boot \in Procs
      /\ jobs \in Seq(Job) /\ project \in Project /\ project.preview.status # "rendering"
  BY <1>1, Starting
<1>3. a \in Nat /\ a <= Len(jobs) /\ Shows(a, "final", project.active)
  BY <1>1, <1>2, ArtifactShows
<1> HIDE DEF a
<1>4. m \in Memory /\ m.job = a /\ m.plan = project.active
  BY <1>2, <1>3 DEF Empty, Memory, Project
<1> HIDE DEF m
<1>5. Turns(Boot) /\ at'[Boot] = "f_qc" /\ mem'[Boot] = m
  BY <1>1, <1>2, <1>4, GotoMoves, KeepMoves DEF Turns, Running, Places, InFinal
<1>6. Holds(Boot)'
  BY <1>1, <1>3, <1>4, <1>5 DEF Holds, Shows, InPreview
<1>7. Sane' /\ JobsGrow
  BY <1>1, <1>2, JobsStay, SaneStays
<1>8. Recovers
  BY <1>1, <1>2, <1>4, <1>5 DEF Recovers, QCPlaces
<1> QED
  BY <1>1, <1>2, <1>5, <1>6, <1>7, <1>8, BootKeeps

\* Otherwise its attempts are retired, ...
LEMMA RetireFinalsKeeps ==
  ASSUME ReviewAssumption, ReviewIInv, RetireFinals
  PROVE  ReviewIInv'
<1>1. /\ UNCHANGED <<project, compiles, process, faults>> /\ mem' = mem /\ at' = at
      /\ at[Boot] = "b_recover"
  BY DEF RetireFinals, world, locals
<1>2. /\ process = "starting" /\ Running /\ Sane /\ Boot \in Procs /\ Holds(Boot)
      /\ jobs \in Seq(Job) /\ project \in Project /\ project.preview.status # "rendering"
  BY <1>1, Starting
<1>3. JobsGrow /\ Len(jobs') = Len(jobs)
  BY <1>2, RetiringGrows DEF RetireFinals
<1>4. Turns(Boot)
  BY <1>1, <1>2 DEF Turns, Running
<1>5. Holds(Boot)'
  BY <1>1, <1>2, <1>3 DEF Holds, InPreview
<1>6. Sane' /\ Recovers
  BY <1>1, <1>2, <1>3, SaneStays DEF Recovers, QCPlaces
<1> QED
  BY <1>1, <1>2, <1>3, <1>4, <1>5, <1>6, BootKeeps

\* ... and the claim ends.
LEMMA RecoverRenderingKeeps ==
  ASSUME ReviewAssumption, ReviewIInv, RecoverRendering
  PROVE  ReviewIInv'
<1>1. /\ UNCHANGED <<jobs, compiles, process, faults>> /\ at[Boot] = "b_recover"
      /\ project.state = "rendering" /\ Leave(Boot)
  BY DEF RecoverRendering, world
<1>2. Sane /\ jobs \in Seq(Job)
  BY <1>1, Starting
<1>3. \/ project' = Reopened(project)
      \/ project' = [project EXCEPT !.state = "ready", !.active = None]
  BY DEF RecoverRendering
<1>4. /\ Sane' /\ project'.preview.status # "rendering"
      /\ project'.state \notin {"rendering", "qc"}
  <2>1. CASE project' = Reopened(project)
    BY <1>1, <1>2, <2>1, ReopenedIsSane, NoPreviewIs
  <2>2. CASE project' = [project EXCEPT !.state = "ready", !.active = None]
    BY <1>1, <1>2, <2>2, BackToReady DEF Terminal
  <2> QED
    BY <1>3, <2>1, <2>2
<1> QED
  BY <1>1, <1>4, RecoveryEnds

\* There is nothing to recover.
LEMMA RecoverNothingKeeps ==
  ASSUME ReviewAssumption, ReviewIInv, RecoverNothing
  PROVE  ReviewIInv'
<1>1. /\ UNCHANGED <<project, jobs, compiles, process, faults>> /\ at[Boot] = "b_recover"
      /\ project.state \notin {"qc", "rendering"} /\ Leave(Boot)
  BY DEF RecoverNothing, world
<1>2. Sane /\ jobs \in Seq(Job) /\ project.preview.status # "rendering"
  BY <1>1, Starting
<1>3. Sane'
  BY <1>1, <1>2, JobsStay, SaneStays
<1> QED
  BY <1>1, <1>2, <1>3, RecoveryEnds

\* The recovery writes the project and goes on to a place of the check.
LEMMA BootWalks ==
  ASSUME ReviewAssumption, ReviewIInv, at[Boot] # "idle", mem' = mem,
         UNCHANGED <<jobs, compiles, process, faults>>, NEW pc \in QCPlaces, Goto(Boot, pc),
         Sane', project'.preview.status # "rendering", project'.state = "qc"
  PROVE  ReviewIInv'
<1>1. /\ process = "starting" /\ Running /\ Boot \in Procs /\ Holds(Boot) /\ jobs \in Seq(Job)
  BY Starting
<1>2. Turns(Boot) /\ at'[Boot] = pc /\ mem'[Boot] = mem[Boot]
  BY <1>1, Walks DEF Places, InFinal, QCPlaces
<1>3. Holds(Boot)'
  BY <1>1, <1>2 DEF Holds, InPreview, QCPlaces
<1>4. Recovers
  BY <1>2 DEF Recovers, QCPlaces
<1> QED
  BY <1>1, <1>2, <1>3, <1>4, JobsStay, BootKeeps

\* An adopted render enters the quality check as its claim says: nobody else
\* has moved.
LEMMA BootEntersQC ==
  ASSUME ReviewAssumption, ReviewIInv, EnterQC(Boot)
  PROVE  ReviewIInv'
<1>1. /\ UNCHANGED <<jobs, compiles, process, faults>> /\ at[Boot] = "f_qc" /\ mem' = mem
  BY DEF EnterQC, world, Quiet
<1>2. /\ Sane /\ Boot \in Procs /\ jobs \in Seq(Job) /\ Holds(Boot)
      /\ project.state = "rendering" /\ project.active = mem[Boot].plan
  BY <1>1, Starting
<1>3. /\ project' = [project EXCEPT !.state = "qc", !.active = None,
                       !.receipt = [job |-> mem[Boot].job, plan |-> mem[Boot].plan]]
      /\ Goto(Boot, "f_done")
  BY <1>2 DEF EnterQC
<1>4. Shows(mem[Boot].job, "final", mem[Boot].plan)
  BY <1>1, <1>2 DEF Holds
<1>5. Sane' /\ project'.state = "qc" /\ project'.preview.status = "approved"
  BY <1>1, <1>2, <1>3, <1>4, ReceivedIsSane
<1> QED
  BY <1>1, <1>3, <1>5, BootWalks DEF QCPlaces

\* Recovery finds the QC of a render passed, ...
LEMMA BootPassesQC ==
  ASSUME ReviewAssumption, ReviewIInv, PassQC(Boot)
  PROVE  ReviewIInv'
<1>1. /\ UNCHANGED <<jobs, compiles, process, faults>> /\ at[Boot] = "f_done"
  BY DEF PassQC, world
<1>2. /\ Sane /\ jobs \in Seq(Job) /\ project.state = "qc"
      /\ project.preview.status # "rendering"
  BY <1>1, Starting DEF QCPlaces
<1>3. CASE FinalIsValid(project)
  <2>1. project' = [project EXCEPT !.state = "done"] /\ Leave(Boot)
    BY <1>2, <1>3 DEF PassQC
  <2>2. Sane' /\ project'.state = "done" /\ project'.preview.status = "approved"
    BY <1>1, <1>2, <1>3, <2>1, PassedIsSane
  <2> QED
    BY <1>1, <2>1, <2>2, RecoveryEnds
<1>4. CASE ~FinalIsValid(project)
  <2>1. project' = project /\ Goto(Boot, "f_qcfail") /\ mem' = mem
    BY <1>4 DEF PassQC
  <2>2. Sane'
    BY <1>1, <1>2, <2>1, JobsStay, SaneStays
  <2> QED
    BY <1>1, <1>2, <2>1, <2>2, BootWalks DEF QCPlaces
<1> QED
  BY <1>3, <1>4

\* ... failed, ...
LEMMA BootFailsQC ==
  ASSUME ReviewAssumption, ReviewIInv, FailQC(Boot)
  PROVE  ReviewIInv'
<1>1. /\ UNCHANGED <<project, jobs, compiles, process, faults>> /\ at[Boot] = "f_qcfail"
  BY DEF FailQC, world
<1>2. /\ Sane /\ jobs \in Seq(Job) /\ project.state = "qc"
      /\ project.preview.status # "rendering"
  BY <1>1, Starting DEF QCPlaces
<1>3. mem' = mem /\ \E pc \in {"f_qcreopen", "f_qcready"} : Goto(Boot, pc)
  BY <1>2 DEF FailQC
<1>4. Sane'
  BY <1>1, <1>2, JobsStay, SaneStays
<1> QED
  BY <1>1, <1>2, <1>3, <1>4, BootWalks DEF QCPlaces

\* ... or not yet run.
LEMMA BootLeavesQC ==
  ASSUME ReviewAssumption, ReviewIInv, LeaveQC(Boot)
  PROVE  ReviewIInv'
<1>1. /\ UNCHANGED <<jobs, compiles, process, faults>> /\ at[Boot] = "f_qcready" /\ Leave(Boot)
  BY DEF LeaveQC, world, AfterQC
<1>2. /\ Sane /\ jobs \in Seq(Job) /\ project.state = "qc"
  BY <1>1, Starting DEF QCPlaces
<1>3. project' = [project EXCEPT !.state = "ready", !.receipt = None, !.active = None]
  BY <1>2 DEF LeaveQC
<1>4. Sane' /\ project'.state = "ready" /\ project'.preview.status = "approved"
  BY <1>1, <1>2, <1>3, BackToReady DEF Terminal
<1> QED
  BY <1>1, <1>4, RecoveryEnds

\* Recovery reopens a review whose render is gone.
LEMMA BootReopens ==
  ASSUME ReviewAssumption, ReviewIInv, Reopen(Boot)
  PROVE  ReviewIInv'
<1>1. /\ UNCHANGED <<jobs, compiles, process, faults>> /\ at[Boot] # "idle" /\ Leave(Boot)
      /\ project' = Reopened(project)
  BY DEF Reopen, world, AfterQC
<1>2. /\ Sane /\ jobs \in Seq(Job)
  BY <1>1, Starting
<1>3. Sane' /\ project'.state = "needs_review" /\ project'.preview.status = "not_rendered"
  BY <1>1, <1>2, ReopenedIsSane, NoPreviewIs
<1> QED
  BY <1>1, <1>3, RecoveryEnds

\* Recovery takes no other step of a request.
LEMMA BootRenderKeeps ==
  ASSUME ReviewAssumption, ReviewIInv, Render(Boot)
  PROVE  ReviewIInv'
<1>1. at[Boot] # "idle"
  BY DEF Render, FindJob, StartJob, FinishJob, ClaimPreview, RecordPreview, ReleasePreview,
         EnterFinal, Reopen, ReadFinal, RedoFinal, ClaimFinal, EnterQC, PassQC, FailQC, LeaveQC,
         RecoverFinal
<1>2. at[Boot] \in InBoot \cup QCPlaces \cup {"f_qc"}
  BY <1>1, Starting
<1>3. EnterQC(Boot) \/ PassQC(Boot) \/ FailQC(Boot) \/ LeaveQC(Boot) \/ Reopen(Boot)
  BY <1>2 DEF Render, FindJob, StartJob, FinishJob, ClaimPreview, RecordPreview, ReleasePreview,
              EnterFinal, ReadFinal, RedoFinal, ClaimFinal, RecoverFinal, InBoot, QCPlaces
<1> QED
  BY <1>3, BootEntersQC, BootPassesQC, BootFailsQC, BootLeavesQC, BootReopens

\* Requests are served: recovery has left no claim without an owner.
LEMMA ServeKeeps ==
  ASSUME ReviewIInv, Serve
  PROVE  ReviewIInv'
<1>1. /\ UNCHANGED <<project, jobs, compiles, faults>> /\ at' = at /\ mem' = mem
      /\ process = "starting" /\ process' = "serving" /\ at[Boot] = "idle"
  BY DEF Serve, locals
<1>2. /\ Sane /\ Running /\ Recovering /\ jobs \in Seq(Job)
      /\ project.preview.status # "rendering" /\ project.state \notin {"rendering", "qc"}
  BY <1>1 DEF ReviewIInv, Running, Recovering
<1>3. Sane'
  BY <1>1, <1>2, JobsStay, SaneStays
<1>4. \A h \in Procs : Holds(h)'
  BY <1>1, <1>2 DEF Running, Holds, Shows
<1>5. Running'
  BY <1>1, <1>2, <1>4 DEF Running, Submitting
<1>6. Recovering'
  BY <1>1, <1>2 DEF Recovering, QCPlaces
<1>7. Owned'
  BY <1>1, <1>2 DEF Owned
<1> QED
  BY <1>3, <1>5, <1>6, <1>7 DEF ReviewIInv

\* The process dies, and with it every place and every memory.
LEMMA CrashKeeps ==
  ASSUME ReviewAssumption, ReviewIInv, Crash
  PROVE  ReviewIInv'
<1>1. /\ UNCHANGED <<project, jobs, compiles, faults>> /\ process' = "down"
      /\ at' = [h \in Procs |-> "idle"] /\ mem' = [h \in Procs |-> Empty]
  BY DEF Crash
<1>2. Sane /\ Running /\ jobs \in Seq(Job) /\ Boot \in Procs /\ Handlers \subseteq Procs
  BY DEF ReviewIInv, Running, Procs
<1>3. Sane'
  BY <1>1, <1>2, JobsStay, SaneStays
<1>4. at' \in [Procs -> Places] /\ mem' \in [Procs -> Memory]
  BY <1>1, EmptyIs DEF Places
<1>5. \A h \in Procs : Holds(h)'
  BY <1>1, <1>2, IdleHolds
<1>6. Submitting' \subseteq Submitting
  BY <1>1, <1>2 DEF Submitting
<1>7. Len(jobs') + Cardinality(Submitting') <= MaxJobs
  BY <1>1, <1>2, <1>6, BudgetKept
<1>8. Running'
  BY <1>1, <1>2, <1>4, <1>5, <1>7 DEF Running
<1>9. Recovering'
  BY <1>1, <1>2 DEF Recovering, InBoot, QCPlaces
<1>10. Owned'
  BY <1>1 DEF Owned
<1> QED
  BY <1>3, <1>8, <1>9, <1>10 DEF ReviewIInv

\* A new process starts with its recovery.
LEMMA RestartKeeps ==
  ASSUME ReviewAssumption, ReviewIInv, Restart
  PROVE  ReviewIInv'
<1>1. /\ UNCHANGED <<project, jobs, compiles, faults>> /\ mem' = mem
      /\ process = "down" /\ process' = "starting" /\ Goto(Boot, "b_reset")
  BY DEF Restart
<1>2. /\ Sane /\ Running /\ Recovering /\ jobs \in Seq(Job) /\ Boot \in Procs
      /\ Handlers \subseteq Procs /\ Boot \notin Handlers /\ Holds(Boot)
  BY DEF ReviewIInv, Running, Procs, ReviewAssumption
<1>3. Turns(Boot) /\ at'[Boot] = "b_reset" /\ mem'[Boot] = mem[Boot]
  BY <1>1, <1>2, Walks DEF Places, InBoot
<1>4. \A g \in Handlers : at'[g] = "idle"
  BY <1>1, <1>2, <1>3 DEF Turns, Recovering
<1>5. Sane'
  BY <1>1, <1>2, JobsStay, SaneStays
<1>6. ASSUME NEW h \in Procs PROVE Holds(h)'
  <2>1. CASE h = Boot
    BY <1>1, <1>2, <1>3, <2>1 DEF Holds, InPreview
  <2>2. CASE h # Boot
    BY <1>1, <1>2, <1>3, <2>2 DEF Holds, Shows, Turns, Running
  <2> QED
    BY <2>1, <2>2
<1>7. Submitting' \subseteq Submitting
  BY <1>4 DEF Submitting
<1>8. Len(jobs') + Cardinality(Submitting') <= MaxJobs
  BY <1>1, <1>2, <1>7, BudgetKept
<1>9. Running'
  BY <1>1, <1>2, <1>3, <1>6, <1>8 DEF Running, Turns
<1>10. Recovering'
  BY <1>1, <1>3, <1>4 DEF Recovering, InBoot, QCPlaces
<1>11. Owned'
  BY <1>1 DEF Owned
<1> QED
  BY <1>5, <1>9, <1>10, <1>11 DEF ReviewIInv

-----------------------------------------------------------------------------
(* The theorems *)

\* The invariant holds at the start, ...
LEMMA ReviewInit ==
  ASSUME ReviewAssumption, Init
  PROVE  ReviewIInv
<1>1. PICK l \in Looks :
        project = [state |-> "needs_review", hook |-> "open", metadata |-> "open",
                   panels |-> 0, resume |-> None, look |-> l, rev |-> 1,
                   preview |-> NoPreview, approved |-> None, active |-> None, receipt |-> None]
  BY DEF Init
<1>2. project \in Project
  BY <1>1, NoPreviewIs DEF Project, States
<1>3. Sane
  BY <1>1, <1>2, NoPreviewIs DEF Sane, RenderedIsApproved, Terminal
<1>4. /\ jobs = <<>> /\ at = [h \in Procs |-> "idle"] /\ mem = [h \in Procs |-> Empty]
      /\ compiles = TRUE /\ process = "serving" /\ faults = 0
      /\ Boot \in Procs /\ Handlers \subseteq Procs
  BY DEF Init, Procs
<1>5. \A h \in Procs : Holds(h)
  BY <1>4, EmptyIs DEF Holds, InPreview
<1>6. Submitting = {} /\ Cardinality({}) = 0
  BY <1>4, FS_EmptySet DEF Submitting
<1>7. Running
  BY <1>4, <1>5, <1>6, EmptyIs DEF Running, Places, ReviewAssumption
<1>8. Recovering /\ Owned
  BY <1>1, <1>4, NoPreviewIs DEF Recovering, Owned, InBoot, QCPlaces
<1> QED
  BY <1>3, <1>7, <1>8 DEF ReviewIInv

\* A step of a request, whatever it is.
LEMMA RenderKeeps ==
  ASSUME ReviewAssumption, ReviewIInv, NEW h \in Handlers, Render(h)
  PROVE  ReviewIInv'
  BY FindKeeps, StartKeeps, FinishKeeps, ClaimPreviewKeeps, RecordKeeps, ReleaseKeeps,
     EnterKeeps, ReopenKeeps, ReadKeeps, RedoKeeps, ClaimFinalKeeps, EnterQCKeeps, PassQCKeeps,
     FailQCKeeps, LeaveQCKeeps, RecoverFinalKeeps DEF Render

\* ... every step keeps it, ...
LEMMA ReviewStep ==
  ASSUME ReviewAssumption, ReviewIInv, [Next]_vars
  PROVE  ReviewIInv'
<1>1. CASE People \/ Extract \/ Correct \/ Materialize \/ Present
  BY <1>1, DecisionsKeep DEF People
<1>2. CASE SourceChanges
  BY <1>2, SourceKeeps
<1>3. CASE LoseArtifact
  BY <1>3, LossKeeps
<1>4. CASE \E h \in Handlers : CallPreview(h) \/ CallFinal(h) \/ Fault(h)
  BY <1>4, CallPreviewKeeps, CallFinalKeeps, FaultKeeps
<1>5. CASE \E h \in Procs : Render(h)
  BY <1>5, RenderKeeps, BootRenderKeeps DEF Procs
<1>6. CASE Crash \/ Restart
  BY <1>6, CrashKeeps, RestartKeeps
<1>7. CASE Recover
  BY <1>7, ResetKeeps, RetireKeeps, RecoverQCKeeps, AdoptKeeps, RetireFinalsKeeps,
     RecoverRenderingKeeps, RecoverNothingKeeps, ServeKeeps DEF Recover
<1>8. CASE UNCHANGED vars
  <2>1. /\ UNCHANGED <<project, jobs, locals, process, faults, compiles>>
        /\ at' = at /\ mem' = mem
    BY <1>8 DEF vars, locals, world
  <2>2. Sane /\ Running /\ Recovering /\ Owned /\ jobs \in Seq(Job)
    BY DEF ReviewIInv, Running
  <2>3. Sane'
    BY <2>1, <2>2, JobsStay, SaneStays
  <2>4. Running'
    BY <2>1, <2>2, RunningStays DEF Running
  <2>5. Recovering'
    BY <2>1, <2>2 DEF Recovering
  <2>6. Owned'
    BY <2>1, <2>2 DEF Owned
  <2> QED
    BY <2>3, <2>4, <2>5, <2>6 DEF ReviewIInv
<1> QED
  BY <1>1, <1>2, <1>3, <1>4, <1>5, <1>6, <1>7, <1>8 DEF Next, Workflows

\* What the invariant says of approval and delivery.
LEMMA ReviewShows ==
  ASSUME ReviewAssumption, ReviewIInv
  PROVE  ReviewInv /\ NoOrphanClaim
<1>1. /\ Sane /\ Running /\ Owned /\ project \in Project /\ jobs \in Seq(Job)
      /\ RenderedIsApproved
  BY DEF ReviewIInv, Sane, Running
<1>2. DeliveredIsWhatWasWatched
  <2> SUFFICES ASSUME project.state = "done"
               PROVE  /\ project.receipt # None /\ project.approved # None
                      /\ jobs[project.receipt.job].purpose = "final"
                      /\ jobs[project.approved.job].purpose = "preview"
                      /\ jobs[project.receipt.job].plan = project.look
                      /\ jobs[project.approved.job].plan = project.look
    BY DEF DeliveredIsWhatWasWatched
  <2>1. project.approved # None /\ project.approved.plan = project.look
    BY <1>1 DEF RenderedIsApproved, Terminal
  <2> QED
    BY <1>1, <2>1 DEF Sane, Shows
<1>3. CandidateIsHonest
  BY <1>1 DEF CandidateIsHonest, Sane, Shows
<1>4. ReviewTypeOK
  <2>1. /\ project.state \in {"needs_review", "ready"} \cup Terminal
        /\ project.hook \in {"open", "resolved"} /\ project.metadata \in {"open", "resolved"}
        /\ project.resume \in {None, "needs_review", "ready"}
        /\ project.panels \in Nat /\ project.look \in Looks /\ project.rev \in Nat
        /\ project.approved \in Approval \cup {None}
        /\ project.active \in Looks \cup {None}
        /\ project.receipt \in Receipt \cup {None}
        /\ project.preview \in Preview
    BY <1>1 DEF Project, States
  <2>2. /\ project.preview.status \in {"not_rendered", "rendering", "ready", "rejected", "approved"}
        /\ project.preview.claim \in Handlers \cup {None}
    BY <2>1 DEF Preview
  <2>3. (project.panels = 0) = (project.resume = None)
    BY <1>1 DEF Sane
  <2>4. Len(jobs) <= MaxJobs
    <3>1. IsFiniteSet(Submitting)
      BY FS_Subset DEF Submitting, ReviewAssumption
    <3>2. Cardinality(Submitting) \in Nat
      BY <3>1, FS_CardinalityType
    <3> QED
      BY <1>1, <3>2 DEF Running, ReviewAssumption
  <2>5. \A h \in Procs : mem[h].job \in 0..Len(jobs) /\ mem[h].plan \in Looks \cup {None}
    BY <1>1 DEF Running, Memory, Holds
  <2>6. compiles \in BOOLEAN /\ process \in {"down", "starting", "serving"}
        /\ at \in [Procs -> InPreview \cup InFinal \cup InBoot \cup {"idle"}]
    BY <1>1 DEF Running, Places
  <2> QED
    BY <1>1, <2>1, <2>2, <2>3, <2>4, <2>5, <2>6 DEF ReviewTypeOK
<1>5. NoOrphanClaim
  BY <1>1 DEF NoOrphanClaim, Owned, Finals, FinalPlaces, QCPlaces
<1> QED
  BY <1>1, <1>2, <1>3, <1>4, <1>5 DEF ReviewInv

\* ... and so it always holds.
LEMMA ReviewInductive ==
  Spec => []ReviewIInv
<1>1. Init => ReviewIInv
  BY ReviewAssumption, ReviewInit
<1>2. ReviewIInv /\ [Next]_vars => ReviewIInv'
  BY ReviewAssumption, ReviewStep
<1> QED
  BY <1>1, <1>2, PTL DEF Spec

\* What is rendered, checked and delivered is the revision and the look that
\* was approved, and a candidate is what it says it is: any number of
\* requests, edits, failures, lost artifacts and restarts.
THEOREM ReviewSafety ==
  Spec => []ReviewInv
<1>1. ReviewIInv => ReviewInv
  BY ReviewAssumption, ReviewShows
<1> QED
  BY <1>1, ReviewInductive, PTL

\* No claim is left without a request that will end it, while requests are
\* served and no storage error has hit a clean-up.
THEOREM ReviewClaimsOwned ==
  Spec => []NoOrphanClaim
<1>1. ReviewIInv => NoOrphanClaim
  BY ReviewAssumption, ReviewShows
<1> QED
  BY <1>1, ReviewInductive, PTL

\* Reopening makes a revision.
LEMMA ReopenedIsEdited ==
  ASSUME Sane
  PROVE  Reopened(project).rev # project.rev
<1> DEFINE q == Invalidated(Edited(project))
<1>1. project \in Project /\ project.rev \in Nat
  BY DEF Sane, Project
<1>2. q \in Project /\ q.rev = project.rev + 1
  BY <1>1, EditedIs, InvalidatedIs
<1>3. Reopened(project) = [q EXCEPT !.state = "needs_review", !.hook = "open",
                             !.metadata = "open", !.active = None, !.receipt = None]
  BY DEF Reopened
<1> HIDE DEF q
<1>4. Reopened(project).rev = q.rev
  BY <1>2, <1>3 DEF Project
<1> QED
  BY <1>1, <1>2, <1>4

\* A claim that is taken from its preview.
ClaimEnds == project.preview.status = "rendering" /\ project'.preview # project.preview

\* What may end one.
ClaimMayEnd ==
  \/ at'[project.preview.claim] # at[project.preview.claim]
  \/ project'.rev # project.rev
  \/ process = "starting"

\* By a decision or another workflow, only with an edit.
LEMMA DecisionsEndClaims ==
  ASSUME ReviewAssumption, ReviewIInv, ClaimEnds,
         Resolve \/ Approve \/ Reject \/ Extract \/ Correct \/ Materialize \/ Present
  PROVE  project'.rev # project.rev
<1>1. Sane /\ jobs \in Seq(Job) /\ project \in Project /\ project.rev \in Nat
  BY DEF ReviewIInv, Sane, Running, Project
<1> DEFINE q == Invalidated(Edited(project))
<1>2. q \in Project /\ q.rev = project.rev + 1
  BY <1>1, EditedIs, InvalidatedIs
<1>3. CASE Resolve
  <2>1. \/ \E l \in Looks :
             project' = [q EXCEPT !.hook = "resolved", !.look = l, !.state = "needs_review"]
        \/ project' = [q EXCEPT !.metadata = "resolved", !.state = "needs_review"]
    BY <1>3 DEF Resolve
  <2> HIDE DEF q
  <2>2. project'.rev = q.rev
    BY <1>2, <2>1 DEF Project
  <2> QED
    BY <1>1, <1>2, <2>2
<1>4. CASE Present
  <2>1. \E l \in Looks :
          project' = [q EXCEPT !.look = l, !.state = "needs_review", !.active = None,
                              !.receipt = None]
    BY <1>4 DEF Present
  <2> HIDE DEF q
  <2>2. project'.rev = q.rev
    BY <1>2, <2>1 DEF Project
  <2> QED
    BY <1>1, <1>2, <2>2
<1>5. CASE Approve \/ Reject
  BY <1>5 DEF Approve, Reject, ClaimEnds
<1>6. CASE Extract \/ Correct \/ Materialize
  BY <1>1, <1>6, ExtractSane, CorrectSane, MaterializeSane DEF Continues, ClaimEnds
<1> QED
  BY <1>3, <1>4, <1>5, <1>6

\* By a request, only its own or with an edit.
LEMMA RequestsEndClaims ==
  ASSUME ReviewAssumption, ReviewIInv, ClaimEnds, NEW h \in Procs, Render(h)
  PROVE  ClaimMayEnd
<1>1. Sane /\ jobs \in Seq(Job) /\ project \in Project /\ project.rev \in Nat
      /\ at \in [Procs -> Places] /\ project.preview \in Preview
  BY DEF ReviewIInv, Sane, Running, Project
<1>2. CASE Reopen(h)
  BY <1>1, <1>2, ReopenedIsEdited DEF Reopen, ClaimMayEnd
<1>3. CASE RecordPreview(h)
  <2>1. StillMine(h) /\ Leave(h) /\ at[h] = "p_record"
    BY <1>3 DEF RecordPreview, ClaimEnds
  <2> QED
    BY <1>1, <2>1 DEF StillMine, Leave, Goto, ClaimMayEnd
<1>4. CASE ReleasePreview(h)
  <2>1. project.preview.claim = h /\ Leave(h) /\ at[h] = "p_release"
    BY <1>4 DEF ReleasePreview, ClaimEnds
  <2> QED
    BY <1>1, <2>1 DEF Leave, Goto, ClaimMayEnd
<1>5. CASE ClaimPreview(h)
  BY <1>5 DEF ClaimPreview, ClaimEnds
<1>6. ~(FindJob(h) \/ StartJob(h) \/ FinishJob(h) \/ EnterFinal(h) \/ ReadFinal(h) \/ FailQC(h))
  BY DEF FindJob, StartJob, FinishJob, EnterFinal, ReadFinal, FailQC, ClaimEnds
<1>7. ~(RedoFinal(h) \/ ClaimFinal(h) \/ EnterQC(h))
  BY <1>1 DEF RedoFinal, ClaimFinal, EnterQC, ClaimEnds, Project
<1>8. ~(PassQC(h) \/ LeaveQC(h) \/ RecoverFinal(h))
  BY <1>1 DEF PassQC, LeaveQC, RecoverFinal, ClaimEnds, Project
<1> QED
  BY <1>2, <1>3, <1>4, <1>5, <1>6, <1>7, <1>8 DEF Render

\* A request that was overtaken leaves a newer claim alone: a claim ends by
\* its own request, with an edit, or by recovery.
THEOREM ReviewClaimNotStolen ==
  Spec => ClaimIsNotStolen
<1>1. ASSUME ReviewAssumption, ReviewIInv, [Next]_vars, ClaimEnds
      PROVE  ClaimMayEnd
  <2>1. CASE People \/ Extract \/ Correct \/ Materialize \/ Present
    BY <1>1, <2>1, DecisionsEndClaims DEF People, ClaimMayEnd
  <2>2. CASE \E h \in Procs : Render(h)
    BY <1>1, <2>2, RequestsEndClaims
  <2>3. CASE Recover
    <3>1. CASE Serve
      BY <1>1, <3>1 DEF Serve, ClaimEnds
    <3>2. CASE ~Serve
      <4>1. at[Boot] # "idle"
        BY <2>3, <3>2 DEF Recover, ResetPreview, RetirePreviews, RecoverQC, AdoptFinal,
                          RetireFinals, RecoverRendering, RecoverNothing
      <4> QED
        BY <1>1, <4>1, Starting DEF ClaimMayEnd
    <3> QED
      BY <3>1, <3>2
  <2>4. ~(SourceChanges \/ LoseArtifact \/ Crash \/ Restart \/ UNCHANGED vars)
    BY <1>1 DEF SourceChanges, LoseArtifact, Crash, Restart, vars, ClaimEnds
  <2>5. ~\E h \in Handlers : CallPreview(h) \/ CallFinal(h) \/ Fault(h)
    BY <1>1 DEF CallPreview, CallFinal, Fault, ClaimEnds
  <2> QED
    BY <1>1, <2>1, <2>2, <2>3, <2>4, <2>5 DEF Next, Workflows
<1>2. ReviewIInv /\ [Next]_vars =>
        [project.preview.status = "rendering" /\ project'.preview # project.preview
           => \/ at'[project.preview.claim] # at[project.preview.claim]
              \/ project'.rev # project.rev
              \/ process = "starting"]_vars
  BY <1>1, ReviewAssumption DEF ClaimEnds, ClaimMayEnd
<1> QED
  BY <1>2, ReviewInductive, PTL DEF Spec, ClaimIsNotStolen
-----------------------------------------------------------------------------
(* Refinement of ApprovedFilm                                               *)

\* What the contract sees of the project.
Seen == <<CopyOf(project), SealOf(project), FilmOf(project), PhaseOf(project)>>

Editing == {"needs_review", "ready"}

\* An edit of a project under review makes a revision, and leaves the approval or
\* takes it away.
LEMMA EditsRefine ==
  ASSUME project \in Project, project' \in Project,
         project.state \in Editing, project'.state \in Editing,
         project'.rev = project.rev + 1, project'.approved \in {project.approved, None}
  PROVE  Contract!Edit
<1>1. /\ PhaseOf(project) = "editing" /\ PhaseOf(project)' = "editing"
      /\ FilmOf(project) = None /\ FilmOf(project)' = None
  BY DEF PhaseOf, FilmOf, Editing
<1>2. project'.look \in Looks
  BY DEF Project
<1>3. CopyOf(project)' = [rev |-> CopyOf(project).rev + 1, look |-> project'.look]
  BY DEF CopyOf
<1>4. SealOf(project)' \in {SealOf(project), None}
  BY DEF SealOf
<1> QED
  BY <1>1, <1>2, <1>3, <1>4 DEF Contract!Edit

\* A write that leaves revision, look and approval, and the state, changes nothing
\* the contract speaks of.
LEMMA BookkeepingStutters ==
  ASSUME project'.state = project.state, project'.rev = project.rev, project'.look = project.look,
         project'.approved = project.approved, project'.receipt = project.receipt
  PROVE  Seen' = Seen
<1>1. CopyOf(project)' = CopyOf(project) /\ SealOf(project)' = SealOf(project)
  BY DEF CopyOf, SealOf
<1>2. FilmOf(project)' = FilmOf(project) /\ PhaseOf(project)' = PhaseOf(project)
  BY DEF FilmOf, PhaseOf
<1> QED
  BY <1>1, <1>2 DEF Seen

\* A render, a check or a delivery that goes back to ready.
LEMMA WithdrawalRefines ==
  ASSUME project.state \in Terminal, project'.state \in Editing,
         project'.rev = project.rev, project'.look = project.look,
         project'.approved = project.approved
  PROVE  Contract!Withdraw
<1>1. PhaseOf(project) # "editing" /\ PhaseOf(project)' = "editing" /\ FilmOf(project)' = None
  BY DEF PhaseOf, FilmOf, Terminal, Editing
<1>2. CopyOf(project)' = CopyOf(project) /\ SealOf(project)' = SealOf(project)
  BY DEF CopyOf, SealOf
<1> QED
  BY <1>1, <1>2 DEF Contract!Withdraw

LEMMA ReopeningRefines ==
  ASSUME project \in Project, project' = Reopened(project)
  PROVE  Contract!Reopen
<1> DEFINE q == Invalidated(Edited(project))
<1>1. /\ q \in Project /\ q.rev = project.rev + 1 /\ q.look = project.look /\ q.approved = None
  <2>1. Edited(project) \in Project /\ Edited(project).rev = project.rev + 1
        /\ Edited(project).look = project.look
    BY DEF Edited, Project
  <2>2. q = [Edited(project) EXCEPT !.preview = NoPreview, !.approved = None]
    BY DEF Invalidated
  <2>3. q \in Project
    BY EditedIs, InvalidatedIs
  <2> DEFINE e == Edited(project)
  <2> HIDE DEF e
  <2>4. q.rev = e.rev /\ q.look = e.look /\ q.approved = None
    BY <2>1, <2>2 DEF e, Project
  <2> QED
    BY <2>1, <2>3, <2>4 DEF e
<1>2. project' = [q EXCEPT !.state = "needs_review", !.hook = "open",
                           !.metadata = "open", !.active = None, !.receipt = None]
  BY DEF Reopened
<1> HIDE DEF q
<1>3. /\ project'.state = "needs_review" /\ project'.rev = project.rev + 1
      /\ project'.look = project.look /\ project'.approved = None
  BY <1>1, <1>2 DEF Project
<1>4. SealOf(project)' = None /\ FilmOf(project)' = None /\ PhaseOf(project)' = "editing"
  BY <1>3 DEF SealOf, FilmOf, PhaseOf
<1>5. CopyOf(project)' = [CopyOf(project) EXCEPT !.rev = @ + 1]
  BY <1>3 DEF CopyOf
<1> QED
  BY <1>4, <1>5 DEF Contract!Reopen

\* Decisions of the person, and the other workflows.
LEMMA DecisionsRefine ==
  ASSUME ReviewAssumption, ReviewIInv, ReviewIInv',
         Resolve \/ Reject \/ Extract \/ Correct \/ Materialize \/ Present
  PROVE  Contract!Edit
<1>1. /\ Sane /\ jobs \in Seq(Job) /\ project \in Project /\ project' \in Project
      /\ project.state \in States
  BY DEF ReviewIInv, Sane, Running, Project
<1> DEFINE q == Invalidated(Edited(project))
<1>2. q \in Project /\ q.rev = project.rev + 1 /\ q.approved = None
  <2>1. q = [Edited(project) EXCEPT !.preview = NoPreview, !.approved = None]
    BY DEF Invalidated
  <2>2. Edited(project) \in Project
    BY <1>1 DEF Edited, Project
  <2>3. q.approved = None
    BY <2>1, <2>2 DEF Project
  <2> QED
    BY <1>1, <2>3, EditedIs, InvalidatedIs
<1>3. project.state \notin Terminal
  BY <1>1 DEF Resolve, Reject, Extract, Correct, Materialize, Present, Terminal, Sane
<1>4. project.state \in Editing
  BY <1>1, <1>3 DEF States, Editing
<1>5. project'.state \in Editing /\ project'.rev = project.rev + 1
      /\ project'.approved \in {project.approved, None}
  <2>1. CASE Resolve
    <3>1. \/ \E l \in Looks :
               project' = [q EXCEPT !.hook = "resolved", !.look = l, !.state = "needs_review"]
          \/ project' = [q EXCEPT !.metadata = "resolved", !.state = "needs_review"]
      BY <2>1 DEF Resolve
    <3> HIDE DEF q
    <3> QED
      BY <1>2, <3>1 DEF Project, Editing
  <2>2. CASE Present
    <3>1. \E l \in Looks :
            project' = [q EXCEPT !.look = l, !.state = "needs_review", !.active = None,
                                !.receipt = None]
      BY <2>2 DEF Present
    <3> HIDE DEF q
    <3> QED
      BY <1>2, <3>1 DEF Project, Editing
  <2> DEFINE e == Edited(project)
  <2>3. e \in Project /\ e.rev = project.rev + 1 /\ e.approved = project.approved
        /\ e.state = project.state
    BY <1>1 DEF Edited, Project
  <2>4. CASE Reject
    <3>1. project' = [e EXCEPT
            !.state = "needs_review", !.hook = "open", !.metadata = "open", !.approved = None,
            !.preview = [NoPreview EXCEPT !.status = "rejected", !.job = project.preview.job]]
      BY <2>4 DEF Reject
    <3> HIDE DEF e
    <3> QED
      BY <2>3, <3>1 DEF Project, Editing
  <2>5. CASE Extract
    <3>1. \/ project' = e
          \/ project' = [e EXCEPT
               !.state = "needs_review", !.panels = @ + 1,
               !.resume = IF project.resume = None THEN project.state ELSE project.resume]
      BY <2>5 DEF Extract
    <3> HIDE DEF e
    <3> QED
      BY <1>4, <2>3, <3>1 DEF Project, Editing
  <2>6. CASE Correct
    <3> DEFINE left == [e EXCEPT !.panels = @ - 1]
    <3>1. /\ left.rev = e.rev /\ left.approved = e.approved
          /\ project' = [left EXCEPT
               !.resume = IF left.panels = 0 THEN None ELSE @,
               !.state = IF Blocked(left) \/ PreviewOpen(left) THEN "needs_review" ELSE project.resume]
      BY <2>3, <2>6 DEF Correct, Project
    <3>2. project'.rev = left.rev /\ project'.approved = left.approved
      <4>1. DOMAIN left = DOMAIN e
        OBVIOUS
      <4>2. DOMAIN e = {"state", "hook", "metadata", "panels", "resume", "look", "rev", "preview",
                        "approved", "active", "receipt"}
        BY <2>3 DEF Project
      <4> HIDE DEF left
      <4> QED
        BY <3>1, <4>1, <4>2
    <3>3. project'.state \in Editing
      <4>1. project'.state \in {"needs_review", project.resume}
        <5>1. DOMAIN left = {"state", "hook", "metadata", "panels", "resume", "look", "rev", "preview",
                             "approved", "active", "receipt"}
          BY <2>3 DEF Project
        <5> HIDE DEF left
        <5> QED
          BY <3>1, <5>1
      <4>2. project'.state \in States /\ project.resume \in {None, "needs_review", "ready"}
        BY <1>1 DEF Project
      <4>3. project.resume # None
        BY <1>1, <2>6 DEF Correct, Sane
      <4> QED
        BY <4>1, <4>2, <4>3 DEF Editing
    <3> QED
      BY <2>3, <3>1, <3>2, <3>3
  <2>7. CASE Materialize
    <3>1. \E l \in Looks : project' = [e EXCEPT !.look = l]
      BY <2>7 DEF Materialize
    <3> HIDE DEF e
    <3> QED
      BY <1>4, <2>3, <3>1 DEF Project
  <2> QED
    BY <2>1, <2>2, <2>4, <2>5, <2>6, <2>7
<1> QED
  BY <1>1, <1>4, <1>5, EditsRefine

\* The approval is of the revision and the look the project has.
LEMMA ApprovalRefines ==
  ASSUME ReviewAssumption, ReviewIInv, Approve
  PROVE  Contract!Approve
<1>1. project \in Project /\ project.preview \in Preview /\ Sane /\ project.state \in States
  BY DEF ReviewIInv, Sane, Project
<1>2. project.state = "needs_review" /\ project.preview.plan = project.look
  BY <1>1 DEF Approve, Sane, Compiles
<1>3. /\ project'.state = "ready" /\ project'.rev = project.rev /\ project'.look = project.look
      /\ project'.approved = [job |-> project.preview.job, plan |-> project.preview.plan,
                              digest |-> <<project.rev, "ready">>]
  BY <1>1 DEF Approve, Project
<1>4. project'.approved # None
  <2>1. project'.approved \in Approval
    <3>1. project.preview.job \in Nat /\ project.look \in Looks /\ project.rev \in Nat
      BY <1>1 DEF Project, Preview
    <3> QED
      BY <1>2, <1>3, <3>1 DEF Approval
  <2> QED
    BY <2>1, RecordAssumption
<1> QED
  BY <1>2, <1>3, <1>4 DEF Contract!Approve, CopyOf, SealOf, FilmOf, PhaseOf

\* A final render begins of what is approved as it stands, ...
LEMMA ClaimingRefines ==
  ASSUME ReviewAssumption, ReviewIInv, NEW h \in Procs, ClaimFinal(h)
  PROVE  Seen' = Seen \/ Contract!Begin
<1>1. project \in Project
  BY DEF ReviewIInv, Sane
<1>2. CASE MayRenderFinal(project) /\ project.look = mem[h].plan
  <2>1. /\ project.state = "ready" /\ project.approved # None
        /\ project.approved.digest = <<project.rev, "ready">> /\ project.approved.plan = project.look
    BY <1>2 DEF MayRenderFinal, Digest, Compiles
  <2>2. project' = [project EXCEPT !.state = "rendering", !.active = mem[h].plan]
    BY <1>2 DEF ClaimFinal
  <2>3. /\ project'.state = "rendering" /\ project'.rev = project.rev /\ project'.look = project.look
        /\ project'.approved = project.approved
    BY <1>1, <2>2 DEF Project
  <2>4. PhaseOf(project) = "editing" /\ PhaseOf(project)' = "making"
        /\ FilmOf(project) = None /\ FilmOf(project)' = None
    BY <2>1, <2>3 DEF PhaseOf, FilmOf
  <2>5. CopyOf(project)' = CopyOf(project) /\ SealOf(project)' = SealOf(project)
        /\ SealOf(project) = CopyOf(project)
    BY <2>1, <2>3 DEF CopyOf, SealOf
  <2> QED
    BY <2>4, <2>5 DEF Contract!Begin
<1>3. CASE ~(MayRenderFinal(project) /\ project.look = mem[h].plan)
  <2>1. project' = project
    BY <1>3 DEF ClaimFinal
  <2> QED
    BY <2>1, BookkeepingStutters
<1> QED
  BY <1>2, <1>3

\* ... the film is of the look that carries the approval, ...
LEMMA MakingRefines ==
  ASSUME ReviewAssumption, ReviewIInv, NEW h \in Procs, EnterQC(h)
  PROVE  Seen' = Seen \/ Contract!Make
<1>1. project \in Project /\ Sane /\ mem \in [Procs -> Memory]
  BY DEF ReviewIInv, Sane, Running
<1>2. CASE project.state = "rendering" /\ project.active = mem[h].plan
  <2>1. /\ project.approved # None /\ project.active = project.look
        /\ project.approved.plan = project.look
    BY <1>1, <1>2 DEF Sane, RenderedIsApproved, Terminal
  <2>2. project' = [project EXCEPT !.state = "qc", !.active = None,
                                   !.receipt = [job |-> mem[h].job, plan |-> mem[h].plan]]
    BY <1>2 DEF EnterQC
  <2>3. /\ project'.state = "qc" /\ project'.rev = project.rev /\ project'.look = project.look
        /\ project'.approved = project.approved
        /\ project'.receipt = [job |-> mem[h].job, plan |-> mem[h].plan]
    BY <1>1, <2>2 DEF Project
  <2>4. project'.receipt # None
    <3>1. project'.receipt \in Receipt
      <4>1. mem[h].job \in Nat /\ mem[h].plan \in Looks
        BY <1>1, <1>2, <2>1 DEF Memory, Project
      <4> QED
        BY <2>3, <4>1 DEF Receipt
    <3> QED
      BY <3>1, RecordAssumption
  <2>5. PhaseOf(project) = "making" /\ PhaseOf(project)' = "making"
        /\ FilmOf(project) = None /\ FilmOf(project)' = project.look
    <3>1. project'.receipt.plan = project.look
      <4>1. mem[h].plan = project.look
        BY <1>2, <2>1
      <4>2. project'.receipt.plan = mem[h].plan
        BY <2>3
      <4> QED
        BY <4>1, <4>2
    <3>2. FilmOf(project) = None /\ PhaseOf(project) = "making"
      BY <1>2 DEF PhaseOf, FilmOf
    <3>3. FilmOf(project)' = project.look
      BY <2>3, <2>4, <3>1 DEF FilmOf
    <3>4. PhaseOf(project)' = "making"
      BY <2>3 DEF PhaseOf
    <3> QED
      BY <3>2, <3>3, <3>4
  <2>6. CopyOf(project)' = CopyOf(project) /\ SealOf(project)' = SealOf(project)
        /\ SealOf(project).look = project.look
    BY <2>1, <2>3 DEF CopyOf, SealOf
  <2> QED
    BY <2>5, <2>6 DEF Contract!Make
<1>3. CASE ~(project.state = "rendering" /\ project.active = mem[h].plan)
  <2>1. project' = project
    BY <1>3 DEF EnterQC
  <2> QED
    BY <2>1, BookkeepingStutters
<1> QED
  BY <1>2, <1>3

\* ... and what passes the check is delivered as it is.
LEMMA DeliveryRefines ==
  ASSUME ReviewAssumption, ReviewIInv, project.state = "qc", FinalIsValid(project),
         project' = [project EXCEPT !.state = "done"]
  PROVE  Contract!Deliver
<1>1. project \in Project /\ Sane
  BY DEF ReviewIInv, Sane
<1>2. /\ project.approved # None /\ project.approved.plan = project.look
      /\ project.receipt # None /\ project.receipt.plan = project.look
  BY <1>1 DEF Sane, RenderedIsApproved, Terminal, FinalIsValid, Compiles
<1>3. /\ project'.state = "done" /\ project'.rev = project.rev /\ project'.look = project.look
      /\ project'.approved = project.approved /\ project'.receipt = project.receipt
  BY <1>1 DEF Project
<1>4. PhaseOf(project) = "making" /\ PhaseOf(project)' = "delivered"
      /\ FilmOf(project) = project.look /\ FilmOf(project)' = FilmOf(project)
  BY <1>2, <1>3 DEF PhaseOf, FilmOf
<1>5. CopyOf(project)' = CopyOf(project) /\ SealOf(project)' = SealOf(project)
      /\ SealOf(project).look = project.look
  BY <1>2, <1>3 DEF CopyOf, SealOf
<1> QED
  BY <1>4, <1>5 DEF Contract!Deliver

\* What a request, or the recovery in its place, does to the contract.
LEMMA RequestsRefine ==
  ASSUME ReviewAssumption, ReviewIInv, NEW h \in Procs, Render(h)
  PROVE  Seen' = Seen \/ Contract!Next
<1>1. project \in Project /\ Sane
  BY DEF ReviewIInv, Sane
<1>2. CASE FindJob(h) \/ StartJob(h) \/ FinishJob(h) \/ EnterFinal(h) \/ ReadFinal(h) \/ FailQC(h)
  <2>1. project' = project
    BY <1>2 DEF FindJob, StartJob, FinishJob, EnterFinal, ReadFinal, FailQC
  <2> QED
    BY <2>1, BookkeepingStutters
<1>3. CASE ClaimPreview(h) \/ ReleasePreview(h)
  <2>1. project' = project \/ \E v : project' = [project EXCEPT !.preview = v]
    BY <1>3 DEF ClaimPreview, ReleasePreview
  <2> QED
    BY <1>1, <2>1, BookkeepingStutters DEF Project
<1>4. CASE RecordPreview(h)
  <2>1. CASE StillMine(h)
    <3>1. project.state = "needs_review"
      BY <1>1, <2>1 DEF StillMine, PreviewOpen, Sane
    <3>2. \E v : project' = [project EXCEPT !.state = "needs_review", !.preview = v]
      BY <1>4, <2>1 DEF RecordPreview
    <3> QED
      BY <1>1, <3>1, <3>2, BookkeepingStutters DEF Project
  <2>2. CASE ~StillMine(h)
    <3>1. project' = project
      BY <1>4, <2>2 DEF RecordPreview
    <3> QED
      BY <3>1, BookkeepingStutters
  <2> QED
    BY <2>1, <2>2
<1>5. CASE Reopen(h)
  BY <1>1, <1>5, ReopeningRefines DEF Reopen, Contract!Next
<1>6. CASE RedoFinal(h)
  <2>1. CASE project.state = "done"
    <3>1. project' = [project EXCEPT !.state = "ready", !.receipt = None]
      BY <1>6, <2>1 DEF RedoFinal
    <3>2. /\ project'.state = "ready" /\ project'.rev = project.rev /\ project'.look = project.look
          /\ project'.approved = project.approved
      BY <1>1, <3>1 DEF Project
    <3> QED
      BY <2>1, <3>2, WithdrawalRefines DEF Terminal, Editing, Contract!Next
  <2>2. CASE project.state # "done"
    <3>1. project' = project
      BY <1>6, <2>2 DEF RedoFinal
    <3> QED
      BY <3>1, BookkeepingStutters
  <2> QED
    BY <2>1, <2>2
<1>7. CASE ClaimFinal(h)
  BY <1>7, ClaimingRefines DEF Contract!Next
<1>8. CASE EnterQC(h)
  BY <1>8, MakingRefines DEF Contract!Next
<1>9. CASE PassQC(h)
  <2>1. CASE project.state = "qc" /\ FinalIsValid(project)
    <3>1. project' = [project EXCEPT !.state = "done"]
      BY <1>9, <2>1 DEF PassQC
    <3> QED
      BY <2>1, <3>1, DeliveryRefines DEF Contract!Next
  <2>2. CASE ~(project.state = "qc" /\ FinalIsValid(project))
    <3>1. project' = project
      BY <1>9, <2>2 DEF PassQC
    <3> QED
      BY <3>1, BookkeepingStutters
  <2> QED
    BY <2>1, <2>2
<1>10. CASE LeaveQC(h)
  <2>1. CASE project.state = "qc"
    <3>1. project' = [project EXCEPT !.state = "ready", !.receipt = None, !.active = None]
      BY <1>10, <2>1 DEF LeaveQC
    <3>2. /\ project'.state = "ready" /\ project'.rev = project.rev /\ project'.look = project.look
          /\ project'.approved = project.approved
      BY <1>1, <3>1 DEF Project
    <3> QED
      BY <2>1, <3>2, WithdrawalRefines DEF Terminal, Editing, Contract!Next
  <2>2. CASE project.state # "qc"
    <3>1. project' = project
      BY <1>10, <2>2 DEF LeaveQC
    <3> QED
      BY <3>1, BookkeepingStutters
  <2> QED
    BY <2>1, <2>2
<1>11. CASE RecoverFinal(h)
  <2>1. CASE project.state = "rendering"
    <3>1. project' = [project EXCEPT !.state = "ready", !.active = None]
      BY <1>11, <2>1 DEF RecoverFinal
    <3>2. /\ project'.state = "ready" /\ project'.rev = project.rev /\ project'.look = project.look
          /\ project'.approved = project.approved
      BY <1>1, <3>1 DEF Project
    <3> QED
      BY <2>1, <3>2, WithdrawalRefines DEF Terminal, Editing, Contract!Next
  <2>2. CASE project.state # "rendering"
    <3>1. project' = project
      BY <1>11, <2>2 DEF RecoverFinal
    <3> QED
      BY <3>1, BookkeepingStutters
  <2> QED
    BY <2>1, <2>2
<1> QED
  BY <1>2, <1>3, <1>4, <1>5, <1>6, <1>7, <1>8, <1>9, <1>10, <1>11 DEF Render

\* Recovery delivers, withdraws or reopens, too.
LEMMA RecoveryRefines ==
  ASSUME ReviewAssumption, ReviewIInv, Recover
  PROVE  Seen' = Seen \/ Contract!Next
<1>1. project \in Project
  BY DEF ReviewIInv, Sane
<1>2. CASE RetirePreviews \/ AdoptFinal \/ RetireFinals \/ RecoverNothing \/ Serve
  <2>1. project' = project
    BY <1>2 DEF RetirePreviews, AdoptFinal, RetireFinals, RecoverNothing, Serve
  <2> QED
    BY <2>1, BookkeepingStutters
<1>3. CASE ResetPreview
  <2>1. project' = project \/ \E v : project' = [project EXCEPT !.preview = v]
    BY <1>3 DEF ResetPreview
  <2> QED
    BY <1>1, <2>1, BookkeepingStutters DEF Project
<1>4. CASE RecoverQC
  <2>1. CASE ReceiptIsStale(project) \/ (~ApprovalIsCurrent(project) /\ ~FinalIsValid(project))
    <3>1. project' = Reopened(project)
      BY <1>4, <2>1 DEF RecoverQC
    <3> QED
      BY <1>1, <3>1, ReopeningRefines DEF Contract!Next
  <2>2. CASE ~(ReceiptIsStale(project) \/ (~ApprovalIsCurrent(project) /\ ~FinalIsValid(project)))
    <3>1. project.state = "qc"
          /\ project' = [project EXCEPT !.state = IF FinalIsValid(project) THEN "done" ELSE "ready"]
      BY <1>4, <2>2 DEF RecoverQC
    <3>2. CASE FinalIsValid(project)
      BY <3>1, <3>2, DeliveryRefines DEF Contract!Next
    <3>3. CASE ~FinalIsValid(project)
      <4>1. /\ project'.state = "ready" /\ project'.rev = project.rev /\ project'.look = project.look
            /\ project'.approved = project.approved
        BY <1>1, <3>1, <3>3 DEF Project
      <4> QED
        BY <3>1, <4>1, WithdrawalRefines DEF Terminal, Editing, Contract!Next
    <3> QED
      BY <3>2, <3>3
  <2> QED
    BY <2>1, <2>2
<1>5. CASE RecoverRendering
  <2>1. CASE Compiles(project, project.active)
    <3>1. project.state = "rendering"
          /\ project' = [project EXCEPT !.state = "ready", !.active = None]
      BY <1>5, <2>1 DEF RecoverRendering
    <3>2. /\ project'.state = "ready" /\ project'.rev = project.rev /\ project'.look = project.look
          /\ project'.approved = project.approved
      BY <1>1, <3>1 DEF Project
    <3> QED
      BY <3>1, <3>2, WithdrawalRefines DEF Terminal, Editing, Contract!Next
  <2>2. CASE ~Compiles(project, project.active)
    <3>1. project' = Reopened(project)
      BY <1>5, <2>2 DEF RecoverRendering
    <3> QED
      BY <1>1, <3>1, ReopeningRefines DEF Contract!Next
  <2> QED
    BY <2>1, <2>2
<1> QED
  BY <1>2, <1>3, <1>4, <1>5 DEF Recover

\* Every step is a step of the contract, or none.
LEMMA ReviewStepRefines ==
  ASSUME ReviewAssumption, ReviewIInv, [Next]_vars
  PROVE  [Contract!Next]_(Contract!vars)
<1>1. ReviewIInv'
  BY ReviewStep
<1>2. SUFFICES Seen' = Seen \/ Contract!Next
  BY DEF Seen, Contract!vars
<1>3. CASE Resolve \/ Reject \/ Extract \/ Correct \/ Materialize \/ Present
  BY <1>1, <1>3, DecisionsRefine DEF Contract!Next
<1>4. CASE Approve
  BY <1>4, ApprovalRefines DEF Contract!Next
<1>5. CASE \E h \in Procs : Render(h)
  BY <1>5, RequestsRefine
<1>6. CASE Recover
  BY <1>6, RecoveryRefines
<1>7. CASE SourceChanges \/ LoseArtifact \/ Crash \/ Restart \/ UNCHANGED vars
           \/ \E h \in Handlers : CallPreview(h) \/ CallFinal(h) \/ Fault(h)
  <2>1. project' = project
    BY <1>7 DEF SourceChanges, LoseArtifact, Crash, Restart, vars, CallPreview, CallFinal, Fault
  <2> QED
    BY <2>1, BookkeepingStutters
<1> QED
  BY <1>3, <1>4, <1>5, <1>6, <1>7 DEF Next, People, Workflows

\* Decisions, renders, failures and recovery implement the contract with the
\* person who approves, for any number of requests, edits, faults and deaths.
THEOREM ReviewRefinesContract ==
  Spec => ImplementsApprovedFilm
<1>1. Init => Contract!Init
  <2>1. SUFFICES ASSUME Init PROVE Contract!Init
    OBVIOUS
  <2>2. PICK l \in Looks :
          project = [state |-> "needs_review", hook |-> "open", metadata |-> "open",
                     panels |-> 0, resume |-> None, look |-> l, rev |-> 1,
                     preview |-> NoPreview, approved |-> None, active |-> None, receipt |-> None]
    BY <2>1 DEF Init
  <2>3. /\ CopyOf(project) = [rev |-> 1, look |-> l] /\ SealOf(project) = None
        /\ FilmOf(project) = None /\ PhaseOf(project) = "editing"
    BY <2>2 DEF CopyOf, SealOf, FilmOf, PhaseOf
  <2> QED
    BY <2>3 DEF Contract!Init
<1>2. ReviewIInv /\ [Next]_vars => [Contract!Next]_(Contract!vars)
  BY ReviewAssumption, ReviewStepRefines
<1> QED
  BY <1>1, <1>2, ReviewInductive, PTL DEF Spec, ImplementsApprovedFilm, Contract!Spec
=============================================================================
