---------------------------- MODULE ProjectSetup ----------------------------
(* From media to a reviewable project, up to the first review: creation from *)
(* a preset, the bootstrap that opens the review tasks, the re-entry of a    *)
(* project that needed manual setup (in three transactions, checkpointed by  *)
(* a receipt in the job table), and production profiles bound and unbound.   *)
(* Every writer reads the project, computes its successor and commits it by  *)
(* compare-and-swap of the stored manifest; a request may die in between.    *)
EXTENDS Naturals, Sequences

CONSTANTS
  Handlers,
  NoHandler,
  MaxCommits,   \* commits to the project (bound)
  MaxRevisions  \* revisions of the production profile (bound)

ASSUME SetupAssumption ==
  /\ NoHandler \notin Handlers
  /\ MaxCommits \in Nat /\ MaxRevisions \in Nat

VARIABLES
  draft,     \* the stored project; rev stands for updated_at
  probed,    \* the source has a duration: an image, or a video probed by now
  pins,      \* the asset the profiles pin is there and verifies
  revisions, \* production_profile_revisions of one profile
  receipts,  \* review_manual_reentry jobs: "running" or "succeeded"
  thread,    \* the request each thread serves
  lock       \* _lock_for_request of the preset request

setupVars == <<draft, probed, pins, revisions, receipts, thread, lock>>

Templates == {"none", "hook_overlay", "content_frame"}
ShortsOutputs == {"preview", "final"}    \* the built-in pair
Definition == [template : {"none", "content_frame"}, outputs : {{}, {"own"}}]
Unbound == [revision |-> 0, template |-> FALSE, outputs |-> FALSE]
NoTasks == [auto |-> "none", source_setup |-> "none", edits |-> "none"]
ManualSetup == [auto |-> "manual", source_setup |-> "open", edits |-> "none"]

Blank == [rev |-> 0, state |-> "INBOX", preset |-> "none",
          template |-> "none", outputs |-> {}, scenes |-> FALSE,
          initialized |-> FALSE, renderable |-> FALSE,
          receipt |-> 0,                 \* 0: no re-entry is pending
          tasks |-> NoTasks, bound |-> Unbound,
          checked |-> <<>>]              \* the setup inputs last checked, if any
Absent == [Blank EXCEPT !.state = "absent"]
Unread == [Blank EXCEPT !.state = "unread"]
Serving(op) == [op |-> op, seen |-> Unread, ready |-> FALSE, target |-> 0]
AtRest == Serving("rest")

SetupInit ==
  /\ draft \in {Blank, Absent}
  /\ probed \in BOOLEAN /\ pins = TRUE
  /\ revisions = <<>> /\ receipts = <<>>
  /\ thread = [t \in Handlers |-> AtRest]
  /\ lock = NoHandler

Pending(p) == p.receipt # 0

\* Metadata that holds the nested manifest of a bound profile: a copy with
\* dict(project.metadata) does not validate, the mutation fails before its commit.
Nested(p) == p.bound # Unbound

----------------------------------------------------------------------------
(* Serving a request *)

Serve(t, op) == thread' = [thread EXCEPT ![t] = Serving(op)]

\* _project_snapshot, and the asset's probe data read under it.
Snapshot(t) ==
  /\ thread[t].op \notin {"rest", "enter", "create"} /\ thread[t].seen = Unread
  /\ draft.state # "absent"
  /\ thread' = [thread EXCEPT ![t].seen = draft, ![t].ready = probed]
  /\ UNCHANGED <<draft, probed, pins, revisions, receipts, lock>>

\* Slip: the update without its WHERE clause on the manifest.
SwapAnyway(t) == TRUE

\* UPDATE projects ... WHERE project_id = ? AND manifest_json = ?
Swap(t) == draft = thread[t].seen

\* A lost swap is retried from a new snapshot, or given up.
Retry(t) ==
  /\ thread[t].seen # Unread /\ ~Swap(t)
  /\ thread' = [thread EXCEPT ![t].seen = Unread]
  /\ UNCHANGED <<draft, probed, pins, revisions, receipts, lock>>

\* The commit of one transaction, with what it does to the receipts.
Store(t, new, jobs, next) ==
  /\ Swap(t) /\ draft.rev < MaxCommits
  /\ draft' = [new EXCEPT !.rev = draft.rev + 1]
  /\ receipts' = jobs
  /\ Serve(t, next)
  /\ UNCHANGED <<probed, pins, revisions, lock>>

\* Nothing to change: the request goes on without a commit.
Keep(t, next) ==
  /\ Serve(t, next)
  /\ UNCHANGED <<draft, probed, pins, revisions, receipts, lock>>

\* A refusal, an exception, a dead process: what is stored stays.
Abandon(t) ==
  /\ thread[t] # AtRest
  /\ Serve(t, "rest")
  /\ lock' = IF lock = t THEN NoHandler ELSE lock
  /\ UNCHANGED <<draft, probed, pins, revisions, receipts>>

----------------------------------------------------------------------------
(* Surroundings *)

\* Media preparation fills in the duration of the video.
Probe ==
  /\ ~probed /\ probed' = TRUE
  /\ UNCHANGED <<draft, pins, revisions, receipts, thread, lock>>

LosePins ==
  /\ pins /\ pins' = FALSE
  /\ UNCHANGED <<draft, probed, revisions, receipts, thread, lock>>

\* The review that follows, up to the approved preview (ReviewProject).
Approve ==
  /\ draft.state = "NEEDS_REVIEW" /\ draft.initialized /\ draft.renderable
  /\ ~Pending(draft) /\ draft.rev < MaxCommits /\ ~Nested(draft)
  /\ draft' = [draft EXCEPT !.state = "READY", !.rev = @ + 1]
  /\ UNCHANGED <<probed, pins, revisions, receipts, thread, lock>>

----------------------------------------------------------------------------
(* ProductionPresetService.create_project *)

\* Slip: the requests are not serialized.
UnlockedFor(t) == TRUE

LockFree(t) == lock = NoHandler

\* _source: prepared visual media, a video with its probe data.
SourceIsUsable == probed

\* An existing project answers the request; it is not built again.
CreateStart(t) ==
  /\ thread[t] = AtRest /\ LockFree(t)
  /\ IF draft.state = "absent" /\ SourceIsUsable
     THEN Serve(t, "create") /\ lock' = t
     ELSE UNCHANGED <<thread, lock>>
  /\ UNCHANGED <<draft, probed, pins, revisions, receipts>>

\* save_project is an upsert.
CreateSave(t) ==
  /\ thread[t].op = "create"
  /\ \E template \in {"hook_overlay", "content_frame"} :
       draft' = [Blank EXCEPT !.preset = template, !.template = template,
                              !.outputs = ShortsOutputs, !.scenes = TRUE]
  /\ Serve(t, "rest")
  /\ lock' = NoHandler
  /\ UNCHANGED <<probed, pins, revisions, receipts>>

IsPreset(p) == p.preset # "none"

\* preset_for_project: the stored evidence still describes the project.
PresetHolds(p) == IsPreset(p) => p.template = p.preset /\ p.scenes

----------------------------------------------------------------------------
(* ReviewService.bootstrap_project *)

\* _manual_reentry_receipt: the checkpoint and its independent proof.
ReceiptValid(p) ==
  /\ Pending(p) /\ receipts[p.receipt] = "running"
  /\ p.state \in {"INBOX", "NEEDS_REVIEW"}
  /\ p.tasks.source_setup = "open" /\ p.tasks.auto = "manual"

\* _validate_mutation_authority; before the bootstrap no reserved task is there.
MayMutate(p) ==
  IF Pending(p) THEN ReceiptValid(p) ELSE p.initialized \/ p.tasks = NoTasks

Enter(t) ==
  /\ thread[t] = AtRest /\ draft.state # "absent"
  /\ Keep(t, "enter")

\* What the request turns to, from one read of the project: a manual setup whose
\* inputs are what they were when they were last checked is left alone.
Fingerprint(p, ready) == <<p.template, p.outputs, p.scenes, ready>>

Decide(t) ==
  /\ thread[t].op = "enter"
  /\ IF Pending(draft)
     THEN ReceiptValid(draft) /\ Keep(t, IF draft.initialized THEN "complete" ELSE "reopen")
     ELSE IF ~draft.initialized
     THEN draft.tasks = NoTasks /\ draft.state # "READY" /\ Keep(t, "bootstrap")
     ELSE IF draft.renderable \/ draft.state \notin {"INBOX", "NEEDS_REVIEW"}
     THEN Keep(t, "sync")
     ELSE Keep(t, IF draft.checked = Fingerprint(draft, probed) THEN "rest" ELSE "begin")

\* _begin_manual_reentry: project and receipt in one transaction.
BeginReentry(t) ==
  /\ thread[t].op = "begin" /\ thread[t].seen # Unread
  /\ LET p == thread[t].seen IN
     /\ ~Pending(p) /\ p.initialized /\ ~p.renderable
     /\ p.state \in {"INBOX", "NEEDS_REVIEW"}
     /\ p.tasks = ManualSetup
     /\ ~Nested(p)
     /\ Store(t, [p EXCEPT !.initialized = FALSE, !.receipt = Len(receipts) + 1],
              Append(receipts, "running"), "enter")

\* add_task: a task type that is there already is not added again.
WithTasks(tasks, renderable) ==
  [auto |-> IF tasks.auto # "none" THEN tasks.auto
            ELSE IF renderable THEN "prepared" ELSE "manual",
   source_setup |-> IF renderable \/ tasks.source_setup # "none"
                    THEN tasks.source_setup ELSE "open",
   edits |-> IF renderable THEN "raw" ELSE tasks.edits]

\* The built-in bootstrap: hook_overlay over the media, if it has a duration.
Bootstrapped(p, ready) ==
  LET template == IF p.template = "none" THEN "hook_overlay" ELSE p.template
      renderable == template = "hook_overlay" /\ (p.scenes \/ ready)
  IN [p EXCEPT !.state = "NEEDS_REVIEW", !.template = template,
        !.initialized = TRUE, !.renderable = renderable,
        !.scenes = @ \/ renderable,
        !.outputs = IF renderable THEN @ \cup ShortsOutputs ELSE @,
        !.tasks = WithTasks(@, renderable)]

\* The preset's: its template stays, the order was chosen with the sources.
PresetBootstrapped(p) ==
  [p EXCEPT !.state = "NEEDS_REVIEW", !.initialized = TRUE, !.renderable = TRUE,
     !.tasks = [NoTasks EXCEPT !.auto = "prepared",
                               !.edits = IF p.template = "hook_overlay" THEN "raw"
                                         ELSE "canonical"]]

\* The preset's bootstrap rebuilds the project from JSON, the built-in one does not.
Copies(p) == IsPreset(p) \/ ~Nested(p)

\* A re-entry that is over by now is an error.
BootstrapProject(t) ==
  /\ thread[t].op \in {"bootstrap", "reopen"} /\ thread[t].seen # Unread
  /\ LET p == thread[t].seen
         next == IF thread[t].op = "bootstrap" THEN "settle"
                 ELSE IF Pending(p) THEN "complete" ELSE "rest"
     IN /\ MayMutate(p)
        /\ IF p.initialized THEN Keep(t, next)
           ELSE /\ Copies(p) /\ PresetHolds(p)
                /\ Store(t, IF IsPreset(p) THEN PresetBootstrapped(p)
                            ELSE Bootstrapped(p, thread[t].ready),
                         receipts, next)

\* _finalize_bootstrap_payloads: open edits get their canonical payload.
Settled(p) == [p EXCEPT !.tasks.edits = IF @ = "raw" THEN "canonical" ELSE @]

SettlePayloads(t) ==
  /\ thread[t].op = "settle" /\ thread[t].seen # Unread
  /\ LET p == thread[t].seen IN
     /\ MayMutate(p)
     /\ IF p.state # "NEEDS_REVIEW" \/ Settled(p) = p THEN Keep(t, "sync")
        ELSE ~Nested(p) /\ Store(t, Settled(p), receipts, "sync")

\* _complete_manual_reentry consumes the receipt with the same commit.
Consumed(r) == [receipts EXCEPT ![r] = "succeeded"]

Complete(t) ==
  /\ thread[t].op = "complete" /\ thread[t].seen # Unread
  /\ LET p == thread[t].seen
         done == IF p.renderable
                 THEN [p EXCEPT !.tasks.auto = "prepared", !.tasks.source_setup = "resolved"]
                 ELSE p
     IN /\ ReceiptValid(p) /\ p.state = "NEEDS_REVIEW" /\ ~Nested(p)
        /\ Store(t, Settled([done EXCEPT !.receipt = 0]), Consumed(p.receipt), "sync")

\* _sync_manual_setup_fingerprint: the assets are read some time after the project.
SyncFingerprint(t) == \E ready \in {thread[t].ready, probed} :
  /\ thread[t].op = "sync" /\ thread[t].seen # Unread
  /\ LET p == thread[t].seen
         check == IF p.renderable THEN <<>> ELSE Fingerprint(p, ready)
     IN /\ MayMutate(p)
        /\ IF Pending(p) \/ ~p.initialized \/ p.checked = check THEN Keep(t, "rest")
           ELSE ~Nested(p) /\ Store(t, [p EXCEPT !.checked = check], receipts, "rest")

----------------------------------------------------------------------------
(* Production profiles *)

\* _validate_definition: what a revision refers to is there, and is what it was.
PinsVerify == pins

\* ProductionProfileRegistry.put: an unchanged definition is the latest revision.
PutProfile ==
  /\ PinsVerify /\ Len(revisions) < MaxRevisions
  /\ \E d \in Definition :
       /\ IF revisions = <<>> THEN TRUE ELSE revisions[Len(revisions)] # d
       /\ revisions' = Append(revisions, d)
  /\ UNCHANGED <<draft, probed, pins, receipts, thread, lock>>

\* _validate_materialized: what the profile filled in is still its own.
Materialized(p) ==
  p.bound # Unbound =>
    /\ p.bound.template => p.template = revisions[p.bound.revision].template
    /\ p.bound.outputs => p.outputs = revisions[p.bound.revision].outputs

\* _base_project: only what the profile owns is taken back.
WithoutProfile(p) ==
  [p EXCEPT !.bound = Unbound,
     !.template = IF p.bound.template THEN "none" ELSE @,
     !.outputs = IF p.bound.outputs THEN {} ELSE @]

\* ... and only what is empty is filled.
WithProfile(p, r) ==
  LET d == revisions[r]
      fillsTemplate == p.template = "none" /\ d.template # "none"
      fillsOutputs == p.outputs = {} /\ d.outputs # {}
  IN [p EXCEPT !.template = IF fillsTemplate THEN d.template ELSE @,
               !.outputs = IF fillsOutputs THEN d.outputs ELSE @,
               !.bound = [revision |-> r, template |-> fillsTemplate,
                          outputs |-> fillsOutputs]]

Bindable(p) == p.state = "INBOX"    \* or DRAFT or PREPARED

AskProfile(t) ==
  /\ thread[t] = AtRest /\ draft.state # "absent"
  /\ \E r \in 0 .. Len(revisions) :    \* 0: unbind
       thread' = [thread EXCEPT ![t] = [Serving("profile") EXCEPT !.target = r]]
  /\ UNCHANGED <<draft, probed, pins, revisions, receipts, lock>>

BindProfile(t) ==
  /\ thread[t].op = "profile" /\ thread[t].seen # Unread
  /\ LET p == thread[t].seen
         r == thread[t].target
     IN /\ Bindable(p) /\ Materialized(p)
        /\ \/ r = 0 /\ p.bound # Unbound /\ Store(t, WithoutProfile(p), receipts, "rest")
           \/ r # 0 /\ PinsVerify
              /\ IF p.bound.revision = r THEN Keep(t, "rest")
                 ELSE Store(t, WithProfile(WithoutProfile(p), r), receipts, "rest")

SetupNext ==
  \/ Probe \/ LosePins \/ Approve \/ PutProfile
  \/ \E t \in Handlers :
       \/ Snapshot(t) \/ Retry(t) \/ Abandon(t)
       \/ CreateStart(t) \/ CreateSave(t)
       \/ Enter(t) \/ Decide(t) \/ BeginReentry(t) \/ BootstrapProject(t) \/ SettlePayloads(t) \/ Complete(t)
       \/ SyncFingerprint(t)
       \/ AskProfile(t) \/ BindProfile(t)

SetupSpec == SetupInit /\ [][SetupNext]_setupVars

----------------------------------------------------------------------------
(* Properties *)

SetupTypeOK ==
  /\ draft.state \in {"absent", "INBOX", "NEEDS_REVIEW", "READY"}
  /\ draft.template \in Templates /\ draft.outputs \subseteq ShortsOutputs \cup {"own"}
  /\ draft.rev \in 0 .. MaxCommits
  /\ probed \in BOOLEAN /\ pins \in BOOLEAN
  /\ \A i \in DOMAIN revisions : revisions[i] \in Definition
  /\ lock \in Handlers \cup {NoHandler}

\* A pending re-entry and its receipt come and go together, however many
\* requests resume it and wherever one of them dies: no receipt is left running
\* without a project that can finish it, none is consumed twice.
ReceiptIsTheCheckpoint ==
  \A r \in DOMAIN receipts : receipts[r] = "running" <=> draft.receipt = r

\* Until the review is initialized the project has none of its reserved tasks
\* (review.py says so where it refuses to adopt any).
UninitializedOwnsNoTasks ==
  ~draft.initialized /\ ~Pending(draft) => draft.tasks = NoTasks

\* The one way out of that: a completion that was meant for an earlier re-entry
\* ends a later one before its bootstrap.
OvertakenReentry ==
  Len(receipts) >= 2 /\ ~draft.initialized /\ ~draft.renderable /\ draft.tasks = ManualSetup

\* The review tasks say how far the setup is: none before it, one open manual
\* task while media is missing, prepared edits and a resolved one afterwards.
TasksTellTheSetup ==
  ~Pending(draft) =>
    \/ ~draft.initialized /\ draft.tasks = NoTasks
    \/ /\ draft.initialized /\ draft.renderable /\ draft.scenes
       /\ draft.tasks.auto = "prepared" /\ draft.tasks.edits # "none"
       /\ draft.tasks.source_setup # "open"
    \/ draft.initialized /\ ~draft.renderable /\ draft.tasks = ManualSetup
    \/ OvertakenReentry

\* What a bound profile filled in is still what its revision says, so it can be
\* taken back; a bootstrap that adds the built-in outputs does not get between.
ProfileIsReversible == Materialized(draft)

\* The preset evidence stays true, so a creation that is retried after the project
\* has moved on is answered with it, and it stays in the list of productions.
PresetStaysExact == PresetHolds(draft)

\* All of the above, for the stored project (application/review.py,
\* _review_base.py, production_presets.py, production_profile*.py).
SetupInv ==
  /\ SetupTypeOK /\ ReceiptIsTheCheckpoint /\ TasksTellTheSetup /\ ProfileIsReversible
  /\ PresetStaysExact

\* Creation, bootstrap and profile requests that race or come twice never take a
\* project back: not a reviewed one to setup, nor an initialized one to the Inbox
\* other than under a receipt.
SetupIsNotUndone ==
  [][/\ draft.state = "READY" => draft'.state = "READY"
     /\ draft.state = "NEEDS_REVIEW" => draft'.state \in {"NEEDS_REVIEW", "READY"}
     /\ draft.initialized => draft'.initialized \/ Pending(draft')]_setupVars
=============================================================================
