-------------------------- MODULE DailyProduction --------------------------
(* The daily page of the server: the attention queue, a projection over      *)
(* projects and publishing ledger put together from several reads, and       *)
(* "Run safe work", which prepares and renders what needs no human.  The     *)
(* user decides, publishes and re-opens projects between their reads.        *)
EXTENDS Naturals, FiniteSets

CONSTANTS
  Works,      \* projects
  RawWorks,   \* those that are raw sources, whatever the review says of them
  MaxRenders, \* render_limit
  MaxFinals,  \* finals of one project (bound)
  MaxVariants, \* publish requests for one final: other targets or metadata (bound)
  MaxRequests \* publish requests the user approves in all (bound)

ASSUME DailyAssumption ==
  /\ RawWorks \subseteq Works
  /\ MaxRenders \in Nat \ {0} /\ MaxFinals \in Nat \ {0}
  /\ MaxVariants \in Nat /\ MaxRequests \in Nat

VARIABLES
  work,     \* the stage of each project
  finals,   \* the final jobs of each project that succeeded; the newest is its final
  attempt,  \* publish_attempts: the newest of each publish request
  run,      \* a run of safe work
  view,     \* a snapshot for the attention queue
  steady    \* (history) requests whose attempt did not change since the snapshot began

dailyVars == <<work, finals, attempt, run, view, steady>>

\* fresh: not bootstrapped.  blocked: a decision is open.  todo: the preview can
\* be rendered.  shown: it waits for approval.
Stages == {"fresh", "blocked", "todo", "shown", "ready", "done"}
TryStates == {"prepared", "running", "outcome_unknown", "succeeded", "failed"}

\* A publish request publishes one exact final as it says.  Of its attempts all
\* but the newest have failed.
PublishRequests == [of : Works, final : 1..MaxFinals, as : 1..MaxVariants]
Unapproved == "none"
NoRun == [pc |-> "idle", risks |-> {}, left |-> {}, queue |-> {}, budget |-> 0]
NoView == [pc |-> "idle", risks |-> [p \in {} |-> "none"], summary |-> [p \in {} |-> 0]]

DailyInit ==
  /\ work \in [Works -> {"fresh", "todo", "done"}]
  /\ finals = [p \in Works |-> IF work[p] = "done" THEN 1 ELSE 0]
  /\ attempt = [r \in PublishRequests |-> Unapproved]
  /\ run = NoRun /\ view = NoView /\ steady = {}

\* _ACTIVE_PUBLISH_PRIORITY
RiskPriority(s) ==
  CASE s = "outcome_unknown" -> 3 [] s = "running" -> 2 [] s = "prepared" -> 1 [] OTHER -> 0

\* The attempts of a project that are active or uncertain, of whichever final.
ActiveStates(p) == {s \in {attempt[r] : r \in {q \in PublishRequests : q.of = p}} : RiskPriority(s) > 0}

\* Slip: a later row takes the place of an earlier one, whatever it says.
WeakestRisk(p) ==
  IF ActiveStates(p) = {} THEN "none"
  ELSE CHOOSE s \in ActiveStates(p) : \A t \in ActiveStates(p) : RiskPriority(s) <= RiskPriority(t)

\* The strongest of them.
Risk(p) ==
  IF ActiveStates(p) = {} THEN "none"
  ELSE CHOOSE s \in ActiveStates(p) : \A t \in ActiveStates(p) : RiskPriority(s) >= RiskPriority(t)

\* _active_publish_risks
AtRisk == {p \in Works : Risk(p) # "none"}

----------------------------------------------------------------------------
(* The user, and the publishing and review services *)

Moves(p, from, to) ==
  /\ work[p] = from /\ work' = [work EXCEPT ![p] = to]
  /\ UNCHANGED <<finals, attempt, run, view, steady>>

Decides(p) == Moves(p, "blocked", "todo") \/ Moves(p, "todo", "blocked")
Approves(p) == Moves(p, "shown", "ready") \/ Moves(p, "shown", "blocked")

\* A render of the final adds one to the project's.
Rendered(p) ==
  /\ work' = [work EXCEPT ![p] = "done"]
  /\ finals' = [finals EXCEPT ![p] = @ + 1]

\* Bootstrap and renders that the user asks for.
Asks(p) ==
  \/ Moves(p, "fresh", "blocked") \/ Moves(p, "todo", "shown")
  \/ work[p] = "ready" /\ Rendered(p) /\ UNCHANGED <<attempt, run, view, steady>>

\* A final that is damaged or no longer current is re-opened; its attempts stay,
\* and so does the right to publish it.
Reopens(p) ==
  /\ finals[p] < MaxFinals
  /\ \E stage \in {"blocked", "todo", "ready"} : Moves(p, "done", stage)

Ledger(r, new) ==
  /\ attempt' = [attempt EXCEPT ![r] = new] /\ steady' = steady \ {r}
  /\ UNCHANGED <<work, finals, run, view>>

Approved == {r \in PublishRequests : attempt[r] # Unapproved}

\* Only the attempts of the same request stand in the way of another, and any
\* final that was rendered can be published.  (PublishRequests for one final are
\* numbered in the order they are approved in.)
ApprovePublication(r) ==
  /\ r.final <= finals[r.of] /\ attempt[r] \in {Unapproved, "failed"}
  /\ attempt[r] = Unapproved =>
       /\ Cardinality(Approved) < MaxRequests
       /\ \A k \in 1 .. r.as - 1 : [r EXCEPT !.as = k] \in Approved
  /\ Ledger(r, "prepared")

Advance(r, from, to) == attempt[r] = from /\ Ledger(r, to)

Publish(r) ==
  \/ Advance(r, "prepared", "running") \/ Advance(r, "prepared", "failed")
  \/ \E s \in {"succeeded", "failed", "outcome_unknown"} : Advance(r, "running", s)

----------------------------------------------------------------------------
(* run_safe_work *)

\* Bound: no snapshot meanwhile; all it could do to one is among what Asks does.
SafeStart ==
  /\ run = NoRun /\ view = NoView
  /\ run' = [NoRun EXCEPT !.pc = "list", !.risks = AtRisk]
  /\ UNCHANGED <<work, finals, attempt, view, steady>>

\* presets.list_projects holds derived projects only.
SafeList ==
  /\ run.pc = "list"
  /\ run' = [run EXCEPT !.pc = "prepare",
               !.left = {p \in Works \ (RawWorks \cup run.risks) : work[p] = "fresh"}]
  /\ UNCHANGED <<work, finals, attempt, view, steady>>

\* bootstrap_project leaves an initialized project as it is.
Prepare(p) ==
  /\ run.pc = "prepare" /\ p \in run.left
  /\ run' = [run EXCEPT !.left = @ \ {p}]
  /\ work' \in {[work EXCEPT ![p] = IF @ = "fresh" THEN s ELSE @] : s \in {"blocked", "todo"}}
  /\ UNCHANGED <<finals, attempt, view, steady>>

\* Neither a raw source nor a project with an active publication.
SafeCandidate(p) == p \notin RawWorks /\ p \notin run.risks

\* list_queue, then the summary of each project in it.
SafeQueue ==
  /\ run.pc = "prepare" /\ run.left = {}
  /\ run' = [run EXCEPT !.pc = "render", !.budget = MaxRenders,
       !.queue = {c \in [do : {"final"}, of : {p \in Works : work[p] = "ready"}] \cup
                        [do : {"preview"}, of : {p \in Works : work[p] = "todo"}] :
                    SafeCandidate(c.of)}]
  /\ UNCHANGED <<work, finals, attempt, view, steady>>

\* Slip: what was queued is rendered.
AsQueued(c) == TRUE

\* The review service looks at the project again.
Revalidated(c) == work[c.of] = IF c.do = "final" THEN "ready" ELSE "todo"

\* Finals first; a project that has moved on is one failure among the results.
Render(c) ==
  /\ run.pc = "render" /\ c \in run.queue /\ run.budget > 0
  /\ (\E d \in run.queue : d.do = "final") => c.do = "final"
  /\ run' = [run EXCEPT !.queue = @ \ {c}, !.budget = @ - 1]
  /\ CASE ~ Revalidated(c) -> UNCHANGED <<work, finals>>
       [] Revalidated(c) /\ c.do = "final" -> Rendered(c.of)
       [] Revalidated(c) /\ c.do = "preview" ->
            work' = [work EXCEPT ![c.of] = "shown"] /\ UNCHANGED finals
  /\ UNCHANGED <<attempt, view, steady>>

SafeEnd ==
  /\ run.pc = "render" /\ (run.queue = {} \/ run.budget = 0)
  /\ run' = NoRun
  /\ UNCHANGED <<work, finals, attempt, view, steady>>

----------------------------------------------------------------------------
(* snapshot *)

ViewStart ==
  /\ view = NoView /\ run = NoRun
  /\ view' = [NoView EXCEPT !.pc = "list"] /\ steady' = PublishRequests
  /\ UNCHANGED <<work, finals, attempt, run>>

\* The publications at risk.
ViewRisks ==
  /\ view.pc = "list"
  /\ view' = [view EXCEPT !.pc = "read", !.risks = [p \in AtRisk |-> Risk(p)]]
  /\ UNCHANGED <<work, finals, attempt, run, steady>>

\* The summary of a project that is done names its final.
Summary(p) == [stage |-> work[p], final |-> IF work[p] = "done" THEN finals[p] ELSE 0]

\* One project is read after the other: derived ones before the publications at
\* risk, the others after them.  (A raw source's summary is of no use to its card.)
ViewRead(p) ==
  /\ view.pc \in {"list", "read"} /\ p \notin DOMAIN view.summary \cup RawWorks
  /\ view' = [view EXCEPT !.summary = [q \in DOMAIN @ \cup {p} |->
                IF q = p THEN Summary(p) ELSE @[q]]]
  /\ UNCHANGED <<work, finals, attempt, run, steady>>

RiskCard(risk) ==
  [group |-> CASE risk = "outcome_unknown" -> "failed"
               [] risk = "running" -> "working"
               [] risk = "prepared" -> "attention",
   publish |-> risk]

\* A project that is done: the attempts of the final in its summary are read now.
\* Two that run, or wait to, for one final need inspection; a success outranks a
\* request that still waits, and a failure.  (The code lists the attempts and then
\* loads each.)
FinalCard(p, final) ==
  LET its  == {r \in PublishRequests : r.of = p /\ r.final = final}
      has(s) == \E r \in its : attempt[r] = s
      twice(s) == \E q, r \in its : q # r /\ attempt[q] = s /\ attempt[r] = s
  IN IF has("outcome_unknown") THEN RiskCard("outcome_unknown")
     ELSE IF twice("running") \/ twice("prepared") THEN [group |-> "failed", publish |-> "none"]
     ELSE IF has("running") THEN RiskCard("running")
     ELSE IF has("succeeded") THEN [group |-> "finished", publish |-> "succeeded"]
     ELSE IF has("prepared") THEN RiskCard("prepared")
     ELSE IF has("failed") THEN [group |-> "failed", publish |-> "failed"]
     ELSE [group |-> "finished", publish |-> "none"]

\* (A ready project that has left the queue's ready list is "failed" here: only
\* the label differs.)
StageCard(p, stage, final) ==
  CASE stage \in {"fresh", "todo", "ready"} -> [group |-> "safe_work", publish |-> "none"]
    [] stage \in {"blocked", "shown"} -> [group |-> "attention", publish |-> "none"]
    [] stage = "done" -> FinalCard(p, final)

\* A publication at risk outranks the stage; a raw source is only a source.
Card(p) ==
  IF p \in DOMAIN view.risks THEN RiskCard(view.risks[p])
  ELSE IF p \in RawWorks THEN [group |-> "inbox", publish |-> "none"]
  ELSE StageCard(p, view.summary[p].stage, view.summary[p].final)

ViewComplete == view.pc = "read" /\ DOMAIN view.summary = Works \ RawWorks

ViewEnd ==
  /\ ViewComplete /\ view' = NoView /\ steady' = {}
  /\ UNCHANGED <<work, finals, attempt, run>>

DailyNext ==
  \/ \E p \in Works : \/ Decides(p) \/ Approves(p) \/ Asks(p) \/ Reopens(p)
                      \/ Prepare(p) \/ ViewRead(p)
  \/ \E r \in PublishRequests : ApprovePublication(r) \/ Publish(r)
  \/ SafeStart \/ SafeList \/ SafeQueue \/ SafeEnd
  \/ \E c \in run.queue : Render(c)
  \/ ViewStart \/ ViewRisks \/ ViewEnd

DailySpec == DailyInit /\ [][DailyNext]_dailyVars

----------------------------------------------------------------------------
(* Properties *)

DailyTypeOK ==
  /\ work \in [Works -> Stages] /\ finals \in [Works -> 0..MaxFinals]
  /\ attempt \in [PublishRequests -> TryStates \cup {Unapproved}]
  /\ run.budget \in 0 .. MaxRenders /\ run.left \cup run.risks \subseteq Works
  /\ DOMAIN view.summary \subseteq Works /\ steady \subseteq PublishRequests

\* An active or uncertain attempt that stood still while the snapshot was put
\* together is on its project's card, itself or as a stronger one, whichever final
\* it is of and whatever became of the project and of its other attempts
\* meanwhile: the project is not offered as safe, new or finished instead.
NoRiskIsHidden ==
  ViewComplete =>
    \A r \in steady : RiskPriority(attempt[r]) > 0 =>
      /\ RiskPriority(Card(r.of).publish) >= RiskPriority(attempt[r])
      /\ Card(r.of).group \in {"failed", "working", "attention"}

\* Of a project all of whose attempts stood still, the card says no more than is so:
\* an attempt that has been settled is not asked after again.
NoRiskIsInvented ==
  ViewComplete =>
    \A p \in Works :
      /\ {r \in PublishRequests : r.of = p} \subseteq steady
      /\ RiskPriority(Card(p).publish) > 0
      => Card(p).publish = Risk(p)

\* What the attention queue promises (api/daily_production_routes.py): all of these.
DailyInv == DailyTypeOK /\ NoRiskIsHidden /\ NoRiskIsInvented

\* Safe work takes no decision and touches neither raw sources nor what was at
\* risk when it began, however stale its lists have become: it only bootstraps,
\* renders the preview of a project with nothing else to decide, and the final of
\* an approved one.
SafeWorkDecidesNothing ==
  [][run' # run => \A p \in Works : work'[p] # work[p] =>
       /\ <<work[p], work'[p]>> \in {<<"fresh", "blocked">>, <<"fresh", "todo">>,
                                     <<"todo", "shown">>, <<"ready", "done">>}
       /\ p \notin RawWorks \cup run.risks]_dailyVars
=============================================================================
