------------------------------ MODULE BatchRun ------------------------------
(***************************************************************************)
(* Batch production (batch/hardened.py, batch/final.py): a batch freezes one *)
(* plan per item, holds the items' first render attempts until its manifest  *)
(* is committed, and is then drained by run_batch, which can die anywhere    *)
(* and be run again: attempts a dead drain left claimed or running are        *)
(* retired with recovery evidence and retried, other failures are final.      *)
(*                                                                         *)
(* Attempts are render jobs of RenderJobs; the k-th attempt of item i is the  *)
(* job <<i, k>>.  Workers are processes that may call run_batch at any time;  *)
(* an advisory lock lets one of them drain.                                 *)
(***************************************************************************)
EXTENDS RenderJobs

CONSTANTS NItems,       \* items of the batch, in manifest order
          MaxRetry      \* highest attempt index

Items   == 1..NItems
Indices == 0..MaxRetry

\* An attempt is retried only when a death or a fault interrupted it; a batch
\* passes no cancellation token.
ASSUME BatchAssumption ==
  /\ ~Cancellable
  /\ NItems \in Nat \ {0}
  /\ MaxRetry = MaxDeaths + MaxFaults
  /\ Jobs = Items \X Indices

VARIABLES parent,     \* state of the batch's own row
          preparing,  \* where prepare() is
          instance,   \* instance[j]: batch_run_instance_id in j's payload (0: none)
          runs,       \* drains that drew a run-instance id
          lease,      \* holder of .run.lock
          stage,      \* stage[w]: where in run_batch worker w is
          cur,        \* cur[w]: the item it is at
          mine,       \* mine[w]: its run-instance id
          seen,       \* seen[w]: its in-memory index: state and claim of every attempt
          verdicts,   \* verdicts[w]: the results it has collected
          export,     \* export[i]: drain that wrote item i's export sidecar (0: none)
          result,     \* batch-result.json
          published   \* batch_result_digest in the parent's payload

batchRow == <<parent, instance, result, published, export>>
drain    == <<stage, cur, mine, seen, verdicts>>
batchVars == <<renderVars, batchRow, preparing, runs, lease, drain>>

ParentState == {"preparing", "queued", "running", "succeeded", "failed"}
Done        == {"succeeded", "failed"}

Verdict == [ok : BOOLEAN, attempt : Indices]
Pending == [ok |-> FALSE, attempt |-> 0]
Outcome == [run : Nat, items : [Items -> Verdict]]
NoOutcome == [run |-> 0, items |-> [i \in Items |-> Pending]]

Snapshot == [Jobs -> [state : JobState, claimed : BOOLEAN]]
Blank    == [j \in Jobs |-> [state |-> "none", claimed |-> FALSE]]

Stage == {"off", "index", "enter", "pick", "clear", "excuse", "retire", "retry",
          "mark", "render", "judge", "publish", "settle"}

BatchTypeOK ==
  /\ RenderTypeOK
  /\ parent \in ParentState
  /\ preparing \in {"holding", "aborting", "over"}
  /\ instance \in [Jobs -> Nat]
  /\ runs \in Nat
  /\ lease \in Workers \cup {Nobody}
  /\ stage \in [Workers -> Stage]
  /\ cur \in [Workers -> Items]
  /\ mine \in [Workers -> Nat]
  /\ seen \in [Workers -> Snapshot]
  /\ verdicts \in [Workers -> [Items -> Verdict]]
  /\ export \in [Items -> Nat]
  /\ result \in Outcome
  /\ published \in Outcome

\* prepare() has just created the parent row.
Init ==
  /\ RenderInit
  /\ mem = [w \in Workers |-> Fresh(<<1, 0>>)]
  /\ parent = "preparing"
  /\ preparing = "holding"
  /\ instance = [j \in Jobs |-> 0]
  /\ runs = 0
  /\ lease = Nobody
  /\ stage = [w \in Workers |-> "off"]
  /\ cur = [w \in Workers |-> 1]
  /\ mine = [w \in Workers |-> 0]
  /\ seen = [w \in Workers |-> Blank]
  /\ verdicts = [w \in Workers |-> [i \in Items |-> Pending]]
  /\ export = [i \in Items |-> 0]
  /\ result = NoOutcome
  /\ published = NoOutcome

----------------------------------------------------------------------------
(* prepare: held children, then the manifest *)

NextChild == CHOOSE i \in Items : job[<<i, 0>>] = "none" /\ \A k \in 1..(i - 1) : job[<<k, 0>>] # "none"

Holding == preparing = "holding" /\ UNCHANGED <<parent, instance, result, published, export, runs, lease, drain>>

Unprepared == \E i \in Items : job[<<i, 0>>] = "none"

HoldChild ==
  /\ Holding /\ Unprepared
  /\ Create(<<NextChild, 0>>, "batch_held")
  /\ UNCHANGED <<preparing, worker, budget>>

\* Ctrl-C inside create_job after its commit: prepare aborts, and does not
\* know of this child.
HoldChildTorn ==
  /\ Holding /\ Unprepared
  /\ CreateTorn(<<NextChild, 0>>, "batch_held")
  /\ preparing' = "aborting"
  /\ UNCHANGED worker

\* Manifest file, then parent preparing -> queued with its digest.
CommitBatch ==
  /\ preparing = "holding" /\ ~Unprepared
  /\ parent' = "queued"
  /\ preparing' = "over"
  /\ UNCHANGED <<renderVars, instance, result, published, export, runs, lease, drain>>

\* A stale localized snapshot, a plan that does not fit its project, an I/O error.
PrepareFails ==
  /\ Holding
  /\ preparing' = "aborting"
  /\ UNCHANGED renderVars

\* Ctrl-C after that transition has committed: prepare aborts a batch that
\* is already runnable.
CommitTorn ==
  /\ preparing = "holding" /\ ~Unprepared
  /\ parent' = "queued"
  /\ preparing' = "aborting"
  /\ Lose
  /\ UNCHANGED <<row, disk, worker, instance, result, published, export, runs, lease, drain>>

Aborting == preparing = "aborting" /\ UNCHANGED <<receipt, disk, worker, instance, result, published, export, runs, lease, drain>>

\* The first attempts prepare knows of that were not claimed yet.
Unclaimed == {j \in Items \X {0} : job[j] \in {"batch_held", "queued"} /\ disk[j].plan}

CancelChild ==
  /\ Aborting
  /\ \E j \in Unclaimed : job' = [job EXCEPT ![j] = "cancelled"]
  /\ UNCHANGED <<parent, preparing, budget>>

\* Cancelling the children and failing the parent are best effort: an update
\* may raise, be refused because a drain moved the row, or never be reached.
AbortEnds ==
  /\ Aborting
  /\ preparing' = "over"
  /\ \/ /\ parent' = IF parent = "preparing" THEN "failed" ELSE parent
        /\ IF Unclaimed = {} \/ parent # "preparing" THEN Free ELSE Spend
     \/ UNCHANGED parent /\ (Spend \/ Lose)
  /\ UNCHANGED job

PreparerDies ==
  /\ Holding
  /\ Lose
  /\ preparing' = "over"
  /\ UNCHANGED <<row, disk, worker>>

----------------------------------------------------------------------------
(* run_batch: helpers *)

\* The newest attempt in the index; the initial one if the index has none.
Newest(w, i) ==
  CHOOSE k \in Indices :
    /\ k > 0 => seen[w][<<i, k>>].state # "none"
    /\ \A n \in Indices : n > k => seen[w][<<i, n>>].state = "none"

Attempt(w) == <<cur[w], Newest(w, cur[w])>>
View(w)    == seen[w][Attempt(w)]

Stay(w, where)  == stage[w] = where /\ UNCHANGED <<preparing, runs>>
To(w, where)    == stage' = [stage EXCEPT ![w] = where]
Learn(w, j, state, claimed) ==
  seen' = [seen EXCEPT ![w][j] = [state |-> state, claimed |-> claimed]]

\* The item's result is appended and the loop goes on.
Record(w, v) ==
  /\ verdicts' = [verdicts EXCEPT ![w][cur[w]] = v]
  /\ IF cur[w] = NItems
     THEN To(w, "publish") /\ UNCHANGED cur
     ELSE To(w, "pick") /\ cur' = [cur EXCEPT ![w] = @ + 1]
  /\ UNCHANGED <<mine, lease>>

\* failure_code, "batch_item_failed" or a final render failure: not ok.
ItemFails(w) == Record(w, [ok |-> FALSE, attempt |-> Newest(w, cur[w])])

Continue(w, where) == To(w, where) /\ UNCHANGED <<cur, mine, verdicts, lease>>

\* with lease: the lock and everything in memory is gone.
Leave(w) ==
  /\ lease' = IF lease = w THEN Nobody ELSE lease
  /\ To(w, "off")
  /\ cur' = [cur EXCEPT ![w] = 1]
  /\ mine' = [mine EXCEPT ![w] = 0]
  /\ seen' = [seen EXCEPT ![w] = Blank]
  /\ verdicts' = [verdicts EXCEPT ![w] = [i \in Items |-> Pending]]

----------------------------------------------------------------------------
(* run_batch: entering *)

\* Slip: the lock is advisory and nobody asks for it.
AcquireRegardless(w) ==
  /\ Stay(w, "off")
  /\ lease' = w
  /\ To(w, "index")
  /\ UNCHANGED <<renderVars, batchRow, cur, mine, seen, verdicts>>

Acquire(w) ==
  /\ Stay(w, "off")
  /\ lease = Nobody
  /\ lease' = w
  /\ To(w, "index")
  /\ UNCHANGED <<renderVars, batchRow, cur, mine, seen, verdicts>>

\* One scan of the render jobs; every later decision uses this index.
Index(w) ==
  /\ Stay(w, "index")
  /\ seen' = [seen EXCEPT ![w] =
                [j \in Jobs |-> [state |-> job[j], claimed |-> instance[j] # 0]]]
  /\ Continue(w, "enter")
  /\ UNCHANGED <<renderVars, batchRow>>

\* Slip: only a queued batch is drained.
RefuseUnlessQueued(w) ==
  /\ Stay(w, "enter")
  /\ parent # "queued"
  /\ Leave(w)
  /\ UNCHANGED <<renderVars, batchRow>>

\* A terminal batch answers with its result, an uncommitted one is refused.
Refuse(w) ==
  /\ Stay(w, "enter")
  /\ parent \in Done \cup {"preparing"}
  /\ Leave(w)
  /\ UNCHANGED <<renderVars, batchRow>>

Enter(w) ==
  /\ stage[w] = "enter"
  /\ parent \in {"queued", "running"}
  /\ parent' = "running"
  /\ runs' = runs + 1
  /\ mine' = [mine EXCEPT ![w] = runs + 1]
  /\ To(w, "pick")
  /\ UNCHANGED <<renderVars, preparing, instance, result, published, export, cur, seen, verdicts, lease>>

\* An exception outside the item loop: the parent stays as it is.
Abandon(w) ==
  /\ \/ stage[w] \in {"index", "enter", "publish", "settle"}
     \/ stage[w] = "pick" /\ cur[w] = 1  \* load_manifest
  /\ Spend
  /\ Leave(w)
  /\ UNCHANGED <<row, disk, worker, batchRow, preparing, runs>>

----------------------------------------------------------------------------
(* _current_attempt_from_index *)

\* Release of the held first attempt.
Release(w) ==
  /\ Stay(w, "pick") /\ View(w).state = "batch_held"
  /\ LET j == Attempt(w) IN
     \/ /\ Transition(j, "batch_held", "queued", NoReceipts)
        /\ Learn(w, j, "queued", FALSE) /\ Continue(w, "mark") /\ Free
     \/ /\ ~CanTransition(j, "batch_held", NoReceipts)
        /\ ItemFails(w) /\ UNCHANGED <<row, seen>> /\ Free
     \/ ItemFails(w) /\ UNCHANGED <<row, seen>> /\ Spend
  /\ UNCHANGED <<disk, worker, batchRow>>

\* Where a released attempt goes by what the index says of it.  A running
\* attempt nobody claimed is an integrity error, and so is an initial attempt
\* that was not there when the index was taken.
Pick(w) ==
  /\ Stay(w, "pick")
  /\ LET v == View(w) IN
     \/ v.state = "queued" /\ ~v.claimed /\ Continue(w, "mark")
     \/ v.state = "queued" /\ v.claimed /\ Continue(w, "excuse")
     \/ v.state = "running" /\ v.claimed /\ Continue(w, "clear")
     \/ v.state = "running" /\ ~v.claimed /\ ItemFails(w)
     \/ v.state \in {"cancelled", "none"} /\ ItemFails(w)
  /\ UNCHANGED <<renderVars, batchRow, seen>>

\* Already rendered by an earlier drain: load_artifact.
Reload(w) ==
  /\ Stay(w, "pick") /\ View(w).state = "succeeded"
  /\ \/ Loadable(Attempt(w)) /\ Continue(w, "judge")
     \/ ItemFails(w)
  /\ UNCHANGED <<renderVars, batchRow, seen>>

\* Slip: every failed attempt is tried again.
ReviewAnyFailed(w) ==
  /\ Stay(w, "pick") /\ View(w).state = "failed"
  /\ Continue(w, "retry")
  /\ UNCHANGED <<renderVars, batchRow, seen>>

\* Slip: an attempt that was claimed but not started is not one of them.
ReviewRenderInterrupted(w) ==
  /\ Stay(w, "pick") /\ View(w).state = "failed"
  /\ IF FailureOf(Attempt(w)) = "render_interrupted"
     THEN Continue(w, "retry")
     ELSE ItemFails(w)
  /\ UNCHANGED <<renderVars, batchRow, seen>>

\* Only interruption evidence leads to another attempt.
ReviewFailed(w) ==
  /\ Stay(w, "pick") /\ View(w).state = "failed"
  /\ IF FailureOf(Attempt(w)) \in Interrupted
     THEN Continue(w, "retry")
     ELSE ItemFails(w)
  /\ UNCHANGED <<renderVars, batchRow, seen>>

\* _interrupt_running_attempt: output and manifest, best effort.
Clear(w) ==
  /\ Stay(w, "clear")
  /\ LET j == Attempt(w)
         d == disk[j] IN
     \/ disk' = [disk EXCEPT ![j] = [d EXCEPT !.output = Nobody, !.manifest = Nobody]] /\ Free
     \/ disk' = [disk EXCEPT ![j] = [d EXCEPT !.output = Nobody]] /\ Spend
     \/ disk' = [disk EXCEPT ![j] = [d EXCEPT !.manifest = Nobody]] /\ Spend
  /\ Continue(w, "excuse")
  /\ UNCHANGED <<row, worker, batchRow, seen>>

Excuse(w) == IF View(w).state = "queued" THEN "batch_claim_interrupted" ELSE "render_interrupted"

\* The recovery evidence is written before the row is terminalized.
WriteExcuse(w) ==
  /\ Stay(w, "excuse")
  /\ \/ /\ disk' = [disk EXCEPT ![Attempt(w)].failure = Excuse(w)]
        /\ \/ Continue(w, "retire") /\ Free
           \/ ItemFails(w) /\ Spend
     \/ ItemFails(w) /\ UNCHANGED disk /\ Spend
  /\ UNCHANGED <<row, worker, batchRow, seen>>

Retirement(w) ==
  LET j == Attempt(w) IN
  [command |-> IF View(w).state = "running" /\ receipt[j].command = Nobody
               THEN disk[j].command ELSE Nobody,
   artifact |-> Nobody,
   failure |-> Excuse(w)]

Retire(w) ==
  /\ Stay(w, "retire")
  /\ LET j == Attempt(w) IN
     \/ /\ Transition(j, View(w).state, "failed", Retirement(w))
        /\ Learn(w, j, "failed", TRUE) /\ Continue(w, "retry") /\ Free
     \/ /\ ~CanTransition(j, View(w).state, Retirement(w))
        /\ ItemFails(w) /\ UNCHANGED <<row, seen>> /\ Free
     \/ ItemFails(w) /\ UNCHANGED <<row, seen>> /\ Spend
  /\ UNCHANGED <<disk, worker, batchRow>>

\* _new_retry from the plan the previous attempt persisted.
Retry(w) ==
  /\ Stay(w, "retry")
  /\ LET last == Attempt(w)
         next == <<last[1], last[2] + 1>> IN
     \/ /\ disk[last].plan
        /\ next \in Jobs
        /\ Create(next, "queued")
        /\ Learn(w, next, "queued", FALSE) /\ Continue(w, "mark") /\ Free
     \/ ~disk[last].plan /\ ItemFails(w) /\ UNCHANGED <<row, disk, seen>> /\ Free
     \/ ItemFails(w) /\ UNCHANGED <<row, disk, seen>> /\ Spend
  /\ UNCHANGED <<worker, batchRow>>

\* Ctrl-C inside create_job after its commit.
RetryTorn(w) ==
  /\ Stay(w, "retry")
  /\ LET last == Attempt(w) IN
     /\ disk[last].plan
     /\ <<last[1], last[2] + 1>> \in Jobs
     /\ CreateTorn(<<last[1], last[2] + 1>>, "queued")
  /\ Leave(w)
  /\ UNCHANGED <<worker, batchRow>>

----------------------------------------------------------------------------
(* Rendering and judging one item *)

\* Slip: the attempt is handed to run_job without recording whose it is.
MarkNothing(w) ==
  /\ Stay(w, "mark")
  /\ Learn(w, Attempt(w), "queued", TRUE)
  /\ Continue(w, "render")
  /\ UNCHANGED <<renderVars, batchRow>>

\* _mark_attempt_run_instance: queued -> queued with the run-instance id.
Mark(w) ==
  /\ Stay(w, "mark")
  /\ LET j == Attempt(w) IN
     \/ /\ job[j] = "queued" /\ instance[j] = 0
        /\ instance' = [instance EXCEPT ![j] = mine[w]]
        /\ Learn(w, j, "queued", TRUE) /\ Continue(w, "render") /\ Free
     \/ /\ ~(job[j] = "queued" /\ instance[j] = 0)
        /\ ItemFails(w) /\ UNCHANGED <<instance, seen>> /\ Free
     \/ ItemFails(w) /\ UNCHANGED <<instance, seen>> /\ Spend
  /\ UNCHANGED <<row, disk, worker, parent, result, published, export>>

\* run_job of RenderJobs, step by step, while the drain waits for it.
Render(w) ==
  /\ stage[w] = "render"
  /\ RunStep(w) \/ Claim(w, Attempt(w)) \/ ClaimRefused(w, Attempt(w))
  /\ UNCHANGED <<batchRow, preparing, runs, lease, drain>>

Rendered(w) ==
  /\ Stay(w, "render") /\ at[w] = "returned"
  /\ Goto(w, "idle")
  /\ Continue(w, "judge")
  /\ UNCHANGED <<row, disk, mem, budget, batchRow, seen>>

\* The row is read again; whatever it says, this drain is done with the item.
RenderFailed(w) ==
  /\ Stay(w, "render") /\ at[w] = "raised"
  /\ Goto(w, "idle")
  /\ Learn(w, Attempt(w), job[Attempt(w)], instance[Attempt(w)] # 0)
  /\ ItemFails(w)
  /\ UNCHANGED <<row, disk, mem, budget, batchRow>>

\* QC report and export sidecar; QC passes or not, or something raises.
Judge(w) ==
  /\ Stay(w, "judge")
  /\ \/ /\ export' = [export EXCEPT ![cur[w]] = mine[w]]
        /\ \E ok \in BOOLEAN : Record(w, [ok |-> ok, attempt |-> Newest(w, cur[w])])
     \/ ItemFails(w) /\ UNCHANGED export
  /\ UNCHANGED <<renderVars, parent, instance, result, published, seen>>

----------------------------------------------------------------------------
(* Publishing the result *)

Collected(w) == [run |-> mine[w], items |-> verdicts[w]]

WriteResult(w) ==
  /\ Stay(w, "publish")
  /\ result' = Collected(w)
  /\ Continue(w, "settle")
  /\ UNCHANGED <<renderVars, parent, instance, published, export, seen>>

\* Parent running -> terminal with the digest of the result.
Settle(w) ==
  /\ Stay(w, "settle")
  /\ IF parent = "running"
     THEN /\ parent' = IF \A i \in Items : verdicts[w][i].ok THEN "succeeded" ELSE "failed"
          /\ published' = Collected(w)
     ELSE UNCHANGED <<parent, published>>
  /\ Leave(w)
  /\ UNCHANGED <<renderVars, instance, result, export>>

\* The process dies, or a process-control exception passes through.
WorkerDies(w) ==
  /\ stage[w] # "off"
  /\ Lose
  /\ Goto(w, "idle")
  /\ Leave(w)
  /\ UNCHANGED <<row, disk, mem, batchRow, preparing, runs>>

----------------------------------------------------------------------------

Prepare == HoldChild \/ CommitBatch \/ PrepareFails \/ CancelChild \/ AbortEnds

DrainStep(w) ==
  \/ Index(w) \/ Refuse(w) \/ Enter(w)
  \/ Release(w) \/ Pick(w) \/ Reload(w) \/ ReviewFailed(w)
  \/ Clear(w) \/ WriteExcuse(w) \/ Retire(w) \/ Retry(w)
  \/ Mark(w) \/ Render(w) \/ Rendered(w) \/ RenderFailed(w) \/ Judge(w)
  \/ WriteResult(w) \/ Settle(w)

Next ==
  \/ Prepare \/ HoldChildTorn \/ CommitTorn \/ PreparerDies
  \/ \E w \in Workers : \/ Acquire(w) \/ DrainStep(w)
                        \/ Abandon(w) \/ RetryTorn(w) \/ WorkerDies(w)

Spec == Init /\ [][Next]_batchVars

\* A live drain goes on, and the operator runs an unfinished batch again.
Fairness == \A w \in Workers : WF_batchVars(DrainStep(w)) /\ WF_batchVars(Acquire(w))

FairSpec == Spec /\ Fairness

----------------------------------------------------------------------------
(* Safety *)

Made(j) == job[j] # "none"

\* Nothing of a batch is runnable before its manifest is committed, nor after
\* its preparation failed, however far prepare() got before it died.
HeldUntilCommitted ==
  parent = "preparing" \/ (parent = "failed" /\ published = NoOutcome) =>
    \A j \in Jobs : job[j] \in {"none", "batch_held", "cancelled"}

\* The attempts of an item are numbered without gaps, and another attempt
\* exists only after the one before was retired with authenticated evidence
\* that an earlier drain was interrupted in it: no retry after an ordinary
\* render failure, none of a success, none by the drain that ran it.
OnlyInterruptionIsRetried ==
  \A i \in Items, k \in Indices :
    k > 0 /\ Made(<<i, k>>) =>
      LET before == <<i, k - 1>> IN
      /\ job[before] = "failed"
      /\ receipt[before].failure \in Interrupted
      /\ disk[before].failure = receipt[before].failure
      /\ instance[before] # 0
      /\ instance[<<i, k>>] # 0 => instance[before] < instance[<<i, k>>]

\* A live run is never mistaken for a dead one: whoever is inside run_job
\* holds the lease, its claim is in the row, and the row is still running.
LiveAttemptIsNotStolen ==
  \A w \in Workers : at[w] \in Executing \cup Cleaning =>
    /\ lease = w
    /\ instance[On(w)] = mine[w]
    /\ job[On(w)] = "running"

\* What a terminal batch reports is so: batch-result.json is the one whose
\* digest the parent has, it speaks of each item's newest attempt, an item
\* reported as succeeded has an artifact that still loads and the export
\* sidecar whose digest the result carries, and the parent succeeded exactly
\* if all items did.
ResultIsTruthful ==
  published # NoOutcome =>
    /\ result = published
    /\ parent = IF \A i \in Items : published.items[i].ok THEN "succeeded" ELSE "failed"
    /\ \A i \in Items :
         LET v == published.items[i] IN
         /\ Made(<<i, v.attempt>>)
         /\ \A k \in Indices : k > v.attempt => ~Made(<<i, k>>)
         /\ v.ok => Loadable(<<i, v.attempt>>) /\ export[i] = published.run

\* Without storage faults an interruption is never an item's verdict: the
\* newest attempt of every item of a terminal batch ended by itself, or was
\* cancelled or not released by the preparation (see EveryChildIsReleased).
\* The one exception is an attempt whose own creation was torn: it has no plan
\* to make another attempt from, so an interruption of it ends the item.
NoVerdictByInterruption ==
  published # NoOutcome /\ faults = 0 =>
    \A i \in Items :
      LET j == <<i, published.items[i].attempt>> IN
      /\ job[j] \notin {"queued", "running"}
      /\ receipt[j].failure \in Interrupted => ~disk[j].plan

\* The batch while it is prepared and drained (batch/final.py, hardened.py): both
\* of these, and the types.
BatchInv == BatchTypeOK /\ HeldUntilCommitted /\ LiveAttemptIsNotStolen

\* The verdicts of a batch (coordinator.py, _result): what is published is true,
\* and it is about renders that came to an end.
VerdictInv == ResultIsTruthful /\ NoVerdictByInterruption

----------------------------------------------------------------------------
(* Action properties and refinement *)

\* A terminal batch is closed: no later run_batch, and no drain that was
\* slow to notice, changes a row, a receipt or a file of it.  (A preparation
\* that is still aborting may cancel children nobody released.)
ClosedBatchIsFinal ==
  [][(parent \in Done /\ preparing # "aborting") => UNCHANGED <<row, disk, batchRow>>]_batchVars

Phase ==
  CASE parent = "preparing"                          -> "draft"
    [] parent \in {"queued", "running"}              -> "committed"
    [] parent \in Done /\ published = NoOutcome      -> "void"
    [] parent \in Done /\ published # NoOutcome      -> "closed"

Renders(i) == Cardinality({k \in Indices : job[<<i, k>>] = "succeeded"})

VerdictOf(i) ==
  IF published = NoOutcome THEN "open" ELSE IF published.items[i].ok THEN "ok" ELSE "bad"

Promise == INSTANCE BatchOutcome
  WITH phase <- Phase,
       renders <- [i \in Items |-> Renders(i)],
       verdict <- [i \in Items |-> VerdictOf(i)]

\* Preparation, drains, recovery and retries together implement: commit,
\* render each item successfully at most once, publish the verdicts once.
ImplementsBatchOutcome == Promise!Spec

----------------------------------------------------------------------------
(* Liveness *)

\* A committed batch is drained to a terminal state, whatever was
\* interrupted on the way, if deaths and faults come to an end.
BatchFinishes == parent = "queued" ~> parent \in Done

----------------------------------------------------------------------------
(* A claim of the documentation that the code does not keep *)

\* docs/pr17-batch-qc.md: "Once the parent batch is committed as `queued` and
\* execution begins, the coordinator releases each child".  Without faults
\* and deaths, a terminal batch should leave no child held.
EveryChildIsReleased ==
  published # NoOutcome => \A i \in Items : job[<<i, 0>>] # "batch_held"
=============================================================================
