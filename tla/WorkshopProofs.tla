--------------------------- MODULE WorkshopProofs ---------------------------
(***************************************************************************)
(* Proofs about the parts around the production of one video that have no     *)
(* module of proofs of their own: DailyProduction, ProjectSetup,             *)
(* ProductionLibrary and Timeline.                                           *)
(***************************************************************************)
EXTENDS DailyProduction, ProjectSetup, ProductionLibrary, Timeline,
        SequenceTheorems, FiniteSetTheorems, WellFoundedInduction, TLAPS

-----------------------------------------------------------------------------
(* DailyProduction                                                           *)

AtRiskStates == {"outcome_unknown", "running", "prepared"}
PartialOn(S) == UNION {[D -> S] : D \in SUBSET Works}

DailyRun ==
  [pc : {"idle", "list", "prepare", "render"}, risks : SUBSET Works, left : SUBSET Works,
   queue : SUBSET [do : {"preview", "final"}, of : Works], budget : 0..MaxRenders]

Summaries == [stage : Stages, final : 0..MaxFinals]

DailyView ==
  [pc : {"idle", "list", "read"}, risks : PartialOn(AtRiskStates), summary : PartialOn(Summaries)]

RequestsFor(p) == {r \in PublishRequests : r.of = p}

\* The lists of a run hold neither raw sources nor what was at risk when it began.
ListsAreSafe ==
  /\ run.left \cap (RawWorks \cup run.risks) = {}
  /\ \A c \in run.queue : c.of \notin RawWorks \cup run.risks

\* Of an attempt that stood still the snapshot knows it or a stronger one, and of a
\* project all of whose attempts did it knows the risk.
RisksAreKnown ==
  view.pc = "read" =>
    /\ \A r \in steady : attempt[r] \in AtRiskStates =>
         /\ r.of \in DOMAIN view.risks
         /\ RiskPriority(view.risks[r.of]) >= RiskPriority(attempt[r])
    /\ \A p \in Works : RequestsFor(p) \subseteq steady =>
         /\ p \in DOMAIN view.risks <=> Risk(p) # "none"
         /\ p \in DOMAIN view.risks => view.risks[p] = Risk(p)

\* Where a final may still be rendered there is room for one.
FinalsFit ==
  /\ finals \in [Works -> 0..MaxFinals]
  /\ \A p \in Works : work[p] # "done" => finals[p] < MaxFinals

DailyIInv ==
  /\ work \in [Works -> Stages] /\ FinalsFit
  /\ attempt \in [PublishRequests -> TryStates \cup {Unapproved}]
  /\ run \in DailyRun /\ ListsAreSafe
  /\ view \in DailyView /\ steady \subseteq PublishRequests /\ RisksAreKnown

\* What is active or uncertain has a priority, and nothing else has.
LEMMA PriorityIsOfRisks ==
  /\ RiskPriority("outcome_unknown") = 3 /\ RiskPriority("running") = 2
  /\ RiskPriority("prepared") = 1
  /\ \A s \in TryStates \cup {Unapproved} : RiskPriority(s) > 0 <=> s \in AtRiskStates
BY DEF RiskPriority, TryStates, Unapproved, AtRiskStates

\* The risk of a project is the strongest of its attempts that are active or
\* uncertain, and there is none where no attempt is.
LEMMA RiskIsStrongest ==
  ASSUME DailyIInv, NEW p \in Works
  PROVE  /\ Risk(p) \in AtRiskStates \cup {"none"}
         /\ \A r \in RequestsFor(p) : attempt[r] \in AtRiskStates =>
              Risk(p) \in AtRiskStates /\ RiskPriority(Risk(p)) >= RiskPriority(attempt[r])
<1>1. ActiveStates(p) \subseteq AtRiskStates
  BY PriorityIsOfRisks DEF ActiveStates, DailyIInv
<1>2. \A r \in RequestsFor(p) : attempt[r] \in AtRiskStates => attempt[r] \in ActiveStates(p)
  BY PriorityIsOfRisks DEF ActiveStates, DailyIInv, RequestsFor
<1>3. CASE ActiveStates(p) = {}
  BY <1>2, <1>3 DEF Risk
<1>4. CASE ActiveStates(p) # {}
  <2>1. \E s \in ActiveStates(p) : \A t \in ActiveStates(p) : RiskPriority(s) >= RiskPriority(t)
    <3>1. CASE "outcome_unknown" \in ActiveStates(p)
      BY <1>1, <3>1, PriorityIsOfRisks DEF AtRiskStates
    <3>2. CASE "outcome_unknown" \notin ActiveStates(p) /\ "running" \in ActiveStates(p)
      BY <1>1, <3>2, PriorityIsOfRisks DEF AtRiskStates
    <3>3. CASE "outcome_unknown" \notin ActiveStates(p) /\ "running" \notin ActiveStates(p)
      BY <1>1, <1>4, <3>3, PriorityIsOfRisks DEF AtRiskStates
    <3> QED
      BY <3>1, <3>2, <3>3
  <2>2. Risk(p) \in ActiveStates(p) /\ \A t \in ActiveStates(p) : RiskPriority(Risk(p)) >= RiskPriority(t)
    BY <1>4, <2>1 DEF Risk
  <2> QED
    BY <1>1, <1>2, <2>2
<1> QED
  BY <1>3, <1>4

\* The risk of a project depends on its attempts only.
LEMMA RiskIsOfItsAttempts ==
  ASSUME NEW p \in Works, \A r \in RequestsFor(p) : attempt'[r] = attempt[r]
  PROVE  Risk(p)' = Risk(p)
<1>1. ActiveStates(p)' = ActiveStates(p)
  BY DEF ActiveStates, RequestsFor
<1> QED
  BY <1>1 DEF Risk

\* A partial function of projects, by its domain and its values.
LEMMA PartialOnProjects ==
  ASSUME NEW S, NEW f \in PartialOn(S)
  PROVE  /\ DOMAIN f \subseteq Works /\ f \in [DOMAIN f -> S]
         /\ \A p \in DOMAIN f : f[p] \in S
  BY DEF PartialOn

\* The one of no project.
LEMMA NothingOnProjects ==
  ASSUME NEW S, NEW d
  PROVE  [p \in {} |-> d] \in PartialOn(S)
<1>1. [p \in {} |-> d] \in [{} -> S] /\ {} \in SUBSET Works
  OBVIOUS
<1> QED
  BY <1>1 DEF PartialOn

\* A project without an attempt that is active or uncertain gets no card of one.
LEMMA CalmFinalCard ==
  ASSUME DailyIInv, NEW p \in Works, NEW final, Risk(p) = "none"
  PROVE  RiskPriority(FinalCard(p, final).publish) = 0
<1>1. \A r \in PublishRequests : r.of = p => attempt[r] \notin AtRiskStates
  BY RiskIsStrongest DEF RequestsFor, AtRiskStates
<1>2. FinalCard(p, final).publish \in {"succeeded", "failed", "none"}
  BY <1>1 DEF FinalCard, AtRiskStates
<1> QED
  BY <1>2 DEF RiskPriority

\* The inductive invariant says all that the run checks of the daily page.
LEMMA DailyInvHolds ==
  ASSUME DailyAssumption, DailyIInv
  PROVE  DailyInv
<1>1. DailyTypeOK
  <2>1. DOMAIN view.summary \subseteq Works
    BY PartialOnProjects DEF DailyIInv, DailyView
  <2> QED
    BY <2>1 DEF DailyIInv, FinalsFit, DailyTypeOK, DailyRun
<1>2. ASSUME NEW p \in DOMAIN view.risks
      PROVE  /\ Card(p).publish = view.risks[p] /\ Card(p).group \in {"failed", "working", "attention"}
  <2>1. view.risks[p] \in AtRiskStates
    BY PartialOnProjects DEF DailyIInv, DailyView
  <2> QED
    BY <2>1 DEF Card, RiskCard, AtRiskStates
<1>3. NoRiskIsHidden
  <2> SUFFICES ASSUME ViewComplete, NEW r \in steady, RiskPriority(attempt[r]) > 0
               PROVE  /\ RiskPriority(Card(r.of).publish) >= RiskPriority(attempt[r])
                      /\ Card(r.of).group \in {"failed", "working", "attention"}
    BY DEF NoRiskIsHidden
  <2>1. attempt[r] \in AtRiskStates
    BY PriorityIsOfRisks DEF DailyIInv
  <2> QED
    BY <1>2, <2>1 DEF DailyIInv, RisksAreKnown, ViewComplete
<1>4. NoRiskIsInvented
  <2> SUFFICES ASSUME ViewComplete, NEW p \in Works, RequestsFor(p) \subseteq steady,
                      RiskPriority(Card(p).publish) > 0
               PROVE  Card(p).publish = Risk(p)
    BY DEF NoRiskIsInvented, RequestsFor
  <2>1. /\ p \in DOMAIN view.risks <=> Risk(p) # "none"
        /\ p \in DOMAIN view.risks => view.risks[p] = Risk(p)
    BY DEF DailyIInv, RisksAreKnown, ViewComplete
  <2>2. CASE p \in DOMAIN view.risks
    BY <1>2, <2>1, <2>2
  <2>3. CASE p \notin DOMAIN view.risks
    <3>1. RiskPriority("none") = 0
      BY DEF RiskPriority
    <3>2. p \notin RawWorks /\ Card(p) = StageCard(p, view.summary[p].stage, view.summary[p].final)
      BY <2>3, <3>1 DEF Card
    <3>3. view.summary[p].stage \in Stages
      <4>1. view.summary \in PartialOn(Summaries) /\ p \in DOMAIN view.summary
        BY <3>2 DEF ViewComplete, DailyIInv, DailyView
      <4>2. view.summary[p] \in Summaries
        BY <4>1, PartialOnProjects
      <4> QED
        BY <4>2 DEF Summaries
    <3>4. Card(p).publish = "none" \/ Card(p) = FinalCard(p, view.summary[p].final)
      BY <3>2, <3>3 DEF StageCard, Stages
    <3> QED
      BY <2>1, <2>3, <3>1, <3>4, CalmFinalCard
  <2> QED
    BY <2>2, <2>3
<1> QED
  BY <1>1, <1>3, <1>4 DEF DailyInv

\* What a step of the safe work may do to a project.
WorkIsSafe ==
  run' # run => \A p \in Works : work'[p] # work[p] =>
       /\ <<work[p], work'[p]>> \in {<<"fresh", "blocked">>, <<"fresh", "todo">>,
                                     <<"todo", "shown">>, <<"ready", "done">>}
       /\ p \notin RawWorks \cup run.risks

\* Of the stages the invariant says their type, and that finals fit.
LEMMA StagesAreFree ==
  ASSUME DailyIInv, work' \in [Works -> Stages], FinalsFit', UNCHANGED <<attempt, view, steady>>,
         run' \in DailyRun, ListsAreSafe'
  PROVE  DailyIInv'
<1>1. \A p \in Works : Risk(p)' = Risk(p)
  BY RiskIsOfItsAttempts
<1>2. RisksAreKnown'
  BY <1>1 DEF DailyIInv, RisksAreKnown
<1> QED
  BY <1>2 DEF DailyIInv

\* A final that is rendered where there is room for it.
LEMMA RenderedFits ==
  ASSUME DailyAssumption, DailyIInv, NEW p \in Works, work[p] # "done", Rendered(p)
  PROVE  work' = [work EXCEPT ![p] = "done"] /\ work' \in [Works -> Stages] /\ FinalsFit'
<1>1. /\ work' = [work EXCEPT ![p] = "done"]
      /\ finals' = [finals EXCEPT ![p] = finals[p] + 1]
  BY DEF Rendered
<1>2. work \in [Works -> Stages] /\ finals \in [Works -> 0..MaxFinals] /\ finals[p] < MaxFinals
  BY DEF DailyIInv, FinalsFit
<1>3. finals[p] + 1 \in 0..MaxFinals
  BY <1>2, DailyAssumption DEF DailyAssumption
<1>4. work' \in [Works -> Stages] /\ finals' \in [Works -> 0..MaxFinals]
  BY <1>1, <1>2, <1>3 DEF Stages
<1>5. \A q \in Works : work'[q] # "done" => finals'[q] < MaxFinals
  BY <1>1, <1>2 DEF DailyIInv, FinalsFit
<1> QED
  BY <1>1, <1>4, <1>5 DEF FinalsFit

\* The user's and the review service's steps.
LEMMA PeopleKeep ==
  ASSUME DailyAssumption, DailyIInv, NEW p \in Works,
         Decides(p) \/ Approves(p) \/ Asks(p) \/ Reopens(p)
  PROVE  DailyIInv' /\ WorkIsSafe
<1>1. UNCHANGED <<attempt, run, view, steady>>
  BY DEF Decides, Approves, Asks, Reopens, Moves
<1>2. work' \in [Works -> Stages] /\ FinalsFit'
  <2>1. CASE work[p] = "ready" /\ Rendered(p)
    BY <2>1, RenderedFits
  <2>2. CASE ~ (work[p] = "ready" /\ Rendered(p))
    <3>1. PICK reached \in Stages :
            /\ work' = [work EXCEPT ![p] = reached] /\ UNCHANGED finals
            /\ reached # "done" /\ (work[p] = "done" => finals[p] < MaxFinals)
      BY <2>2 DEF Decides, Approves, Asks, Reopens, Moves, Stages
    <3> QED
      BY <3>1 DEF DailyIInv, FinalsFit
  <2> QED
    BY <2>1, <2>2
<1>3. run' \in DailyRun /\ ListsAreSafe'
  BY <1>1 DEF DailyIInv, ListsAreSafe
<1> QED
  BY <1>1, <1>2, <1>3, StagesAreFree DEF WorkIsSafe

\* An attempt that changes no longer stood still, nor did all of its project's.
LEMMA LedgerKeeps ==
  ASSUME DailyIInv, NEW r \in PublishRequests, NEW new \in TryStates, Ledger(r, new)
  PROVE  DailyIInv' /\ WorkIsSafe
<1>1. /\ attempt' = [attempt EXCEPT ![r] = new] /\ steady' = steady \ {r}
      /\ UNCHANGED <<work, finals, run, view>>
  BY DEF Ledger
<1>2. /\ attempt' \in [PublishRequests -> TryStates \cup {Unapproved}]
      /\ steady' \subseteq PublishRequests /\ \A q \in steady' : attempt'[q] = attempt[q]
  BY <1>1 DEF DailyIInv
<1>3. ASSUME NEW p \in Works, RequestsFor(p) \subseteq steady' PROVE Risk(p)' = Risk(p)
  BY <1>2, <1>3, RiskIsOfItsAttempts
<1>4. RisksAreKnown'
  BY <1>1, <1>2, <1>3 DEF DailyIInv, RisksAreKnown
<1> QED
  BY <1>1, <1>2, <1>4 DEF DailyIInv, FinalsFit, ListsAreSafe, WorkIsSafe

\* Approving and publishing.
LEMMA PublishingKeeps ==
  ASSUME DailyIInv, NEW r \in PublishRequests, ApprovePublication(r) \/ Publish(r)
  PROVE  DailyIInv' /\ WorkIsSafe
<1>1. PICK new \in TryStates : Ledger(r, new)
  BY DEF ApprovePublication, Publish, Advance, TryStates
<1> QED
  BY <1>1, LedgerKeeps

\* A run lists what was not at risk when it began, and takes from its lists.
LEMMA SafeWorkKeeps ==
  ASSUME DailyAssumption, DailyIInv,
         SafeStart \/ SafeList \/ SafeQueue \/ SafeEnd
  PROVE  DailyIInv' /\ WorkIsSafe
<1>1. UNCHANGED <<work, finals, attempt, view, steady>> /\ run \in DailyRun /\ work \in [Works -> Stages]
  BY DEF SafeStart, SafeList, SafeQueue, SafeEnd, DailyIInv
<1>2. run' \in DailyRun /\ ListsAreSafe'
  <2>1. CASE SafeStart
    <3> DEFINE none == NoRun
    <3>1. none \in DailyRun /\ none.left = {} /\ none.queue = {}
      BY DailyAssumption DEF NoRun, DailyRun, DailyAssumption
    <3>2. run' = [none EXCEPT !.pc = "list", !.risks = AtRisk] /\ AtRisk \subseteq Works
      BY <2>1 DEF SafeStart, AtRisk
    <3> HIDE DEF none
    <3>3. run' \in DailyRun /\ run'.left = {} /\ run'.queue = {}
      BY <3>1, <3>2 DEF DailyRun
    <3> QED
      BY <3>3 DEF ListsAreSafe
  <2>2. CASE SafeList
    <3> DEFINE listed == {p \in Works \ (RawWorks \cup run.risks) : work[p] = "fresh"}
    <3>1. run' = [run EXCEPT !.pc = "prepare", !.left = listed]
      BY <2>2 DEF SafeList
    <3>2. listed \in SUBSET Works /\ listed \cap (RawWorks \cup run.risks) = {}
      OBVIOUS
    <3>3. ListsAreSafe
      BY DEF DailyIInv
    <3> HIDE DEF listed
    <3> QED
      BY <1>1, <3>1, <3>2, <3>3 DEF DailyRun, ListsAreSafe
  <2>3. CASE SafeQueue
    <3> DEFINE queued == {c \in [do : {"final"}, of : {p \in Works : work[p] = "ready"}] \cup
                                  [do : {"preview"}, of : {p \in Works : work[p] = "todo"}] :
                            SafeCandidate(c.of)}
    <3>1. run' = [run EXCEPT !.pc = "render", !.budget = MaxRenders, !.queue = queued]
      BY <2>3 DEF SafeQueue
    <3>2. /\ queued \in SUBSET [do : {"preview", "final"}, of : Works]
          /\ \A c \in queued : c.of \notin RawWorks \cup run.risks
      BY DEF SafeCandidate
    <3>3. ListsAreSafe /\ MaxRenders \in 0..MaxRenders
      BY DailyAssumption DEF DailyIInv, DailyAssumption
    <3> HIDE DEF queued
    <3>4. /\ run' \in DailyRun /\ run'.queue = queued /\ run'.left = run.left
          /\ run'.risks = run.risks
      BY <1>1, <3>1, <3>2, <3>3 DEF DailyRun
    <3> QED
      BY <3>2, <3>3, <3>4 DEF ListsAreSafe
  <2>4. CASE SafeEnd
    BY <2>4, DailyAssumption DEF SafeEnd, NoRun, DailyRun, ListsAreSafe, DailyAssumption
  <2> QED
    BY <2>1, <2>2, <2>3, <2>4
<1>3. WorkIsSafe /\ FinalsFit'
  BY <1>1 DEF WorkIsSafe, DailyIInv, FinalsFit
<1> QED
  BY <1>1, <1>2, <1>3, StagesAreFree

\* A project is prepared, and a candidate rendered, only while the project is
\* what the list says it is.
LEMMA SafeStepKeeps ==
  ASSUME DailyAssumption, DailyIInv,
         (\E p \in Works : Prepare(p)) \/ (\E c \in run.queue : Render(c))
  PROVE  DailyIInv' /\ WorkIsSafe
<1>1. UNCHANGED <<attempt, view, steady>> /\ run \in DailyRun /\ ListsAreSafe
  BY DEF Prepare, Render, DailyIInv
<1>2. PICK p \in Works \ (RawWorks \cup run.risks), reached \in Stages :
        /\ work' = [work EXCEPT ![p] = reached] /\ FinalsFit'
        /\ reached # work[p] =>
             <<work[p], reached>> \in {<<"fresh", "blocked">>, <<"fresh", "todo">>,
                                     <<"todo", "shown">>, <<"ready", "done">>}
  <2>0. work \in [Works -> Stages] /\ \A p \in Works : work = [work EXCEPT ![p] = work[p]]
    BY DEF DailyIInv
  <2>1. CASE \E p \in Works : Prepare(p)
    <3>1. PICK p \in Works : Prepare(p)
      BY <2>1
    <3>2. p \notin RawWorks \cup run.risks
      BY <1>1, <3>1 DEF Prepare, ListsAreSafe
    <3>3. PICK s \in {"blocked", "todo"} :
            work' = [work EXCEPT ![p] = IF work[p] = "fresh" THEN s ELSE work[p]] /\ UNCHANGED finals
      BY <3>1 DEF Prepare
    <3>4. \A q \in Works : work'[q] # "done" => work[q] # "done"
      BY <2>0, <3>3
    <3>5. FinalsFit'
      BY <3>3, <3>4 DEF DailyIInv, FinalsFit
    <3> QED
      BY <2>0, <3>2, <3>3, <3>5 DEF Stages
  <2>2. CASE \E c \in run.queue : Render(c)
    <3>1. PICK c \in run.queue : Render(c)
      BY <2>2
    <3>2. c.of \in Works \ (RawWorks \cup run.risks)
      BY <1>1 DEF DailyRun, ListsAreSafe
    <3>3. CASE ~ Revalidated(c)
      <4>1. UNCHANGED <<work, finals>>
        BY <3>1, <3>3 DEF Render
      <4> QED
        BY <2>0, <3>2, <4>1 DEF DailyIInv, FinalsFit
    <3>4. CASE Revalidated(c) /\ c.do = "final"
      <4>1. work[c.of] = "ready" /\ Rendered(c.of)
        BY <3>1, <3>4 DEF Render, Revalidated
      <4> QED
        BY <3>2, <4>1, RenderedFits DEF Stages
    <3>5. CASE Revalidated(c) /\ c.do = "preview"
      <4>1. work[c.of] = "todo" /\ work' = [work EXCEPT ![c.of] = "shown"] /\ UNCHANGED finals
        BY <3>1, <3>5 DEF Render, Revalidated
      <4>2. FinalsFit'
        BY <2>0, <3>2, <4>1 DEF DailyIInv, FinalsFit
      <4> QED
        BY <3>2, <4>1, <4>2 DEF Stages
    <3>6. c.do \in {"preview", "final"}
      BY <1>1 DEF DailyRun
    <3> QED
      BY <3>3, <3>4, <3>5, <3>6
  <2> QED
    BY <2>1, <2>2
<1>3. run' \in DailyRun /\ ListsAreSafe'
  <2>1. ASSUME NEW q \in Works, Prepare(q) PROVE run' \in DailyRun /\ ListsAreSafe'
    BY <1>1, <2>1 DEF Prepare, DailyRun, ListsAreSafe
  <2>2. ASSUME NEW c \in run.queue, Render(c) PROVE run' \in DailyRun /\ ListsAreSafe'
    <3>1. /\ run' = [run EXCEPT !.queue = run.queue \ {c}, !.budget = run.budget - 1]
          /\ run.budget > 0
      BY <2>2 DEF Render
    <3>2. run.budget - 1 \in 0..MaxRenders
      BY <1>1, <3>1, DailyAssumption DEF DailyRun, DailyAssumption
    <3> QED
      BY <1>1, <3>1, <3>2 DEF DailyRun, ListsAreSafe
  <2> QED
    BY <2>1, <2>2
<1>4. work' \in [Works -> Stages] /\ FinalsFit'
  BY <1>2 DEF DailyIInv
<1>5. WorkIsSafe
  BY <1>2 DEF WorkIsSafe, DailyIInv
<1> QED
  BY <1>1, <1>3, <1>4, <1>5, StagesAreFree

\* A snapshot is put together: the risks at one time, the stages one by one.
LEMMA ViewKeeps ==
  ASSUME DailyAssumption, DailyIInv,
         ViewStart \/ ViewRisks \/ ViewEnd \/ \E p \in Works : ViewRead(p)
  PROVE  DailyIInv' /\ WorkIsSafe
<1>1. UNCHANGED <<work, finals, attempt, run>> /\ view \in DailyView
  BY DEF ViewStart, ViewRisks, ViewEnd, ViewRead, DailyIInv
<1>2. view' \in DailyView /\ steady' \subseteq PublishRequests /\ RisksAreKnown'
  <2>1. CASE ViewStart \/ ViewEnd
    <3>1. view' \in DailyView /\ view'.pc # "read" /\ steady' \subseteq PublishRequests
      <4>1. NoView \in DailyView
        <5>1. [p \in {} |-> "none"] \in PartialOn(AtRiskStates)
          BY DEF PartialOn
        <5>2. [p \in {} |-> 0] \in PartialOn(Summaries)
          BY DEF PartialOn
        <5> QED
          BY <5>1, <5>2 DEF NoView, DailyView
      <4>2. CASE ViewEnd
        BY <4>1, <4>2 DEF ViewEnd, NoView
      <4>3. CASE ViewStart
        <5>1. view' = [NoView EXCEPT !.pc = "list"] /\ steady' = PublishRequests
          BY <4>3 DEF ViewStart
        <5> HIDE DEF NoView
        <5> QED
          BY <4>1, <5>1 DEF DailyView
      <4> QED
        BY <2>1, <4>2, <4>3
    <3> QED
      BY <3>1 DEF RisksAreKnown
  <2>2. CASE ViewRisks
    <3> DEFINE risks == [p \in AtRisk |-> Risk(p)]
    <3>1. view' = [view EXCEPT !.pc = "read", !.risks = risks] /\ UNCHANGED steady
      BY <2>2 DEF ViewRisks
    <3>2. risks \in PartialOn(AtRiskStates)
      <4>1. AtRisk \subseteq Works /\ \A p \in AtRisk : Risk(p) \in AtRiskStates
        BY RiskIsStrongest DEF AtRisk
      <4> QED
        BY <4>1 DEF PartialOn
    <3>3. \A p \in Works : /\ p \in DOMAIN risks <=> Risk(p) # "none"
                           /\ p \in DOMAIN risks => risks[p] = Risk(p)
      BY DEF AtRisk
    <3> HIDE DEF risks
    <3>4. view' \in DailyView /\ view'.risks = risks
      BY <1>1, <3>1, <3>2 DEF DailyView
    <3>5. \A p \in Works : Risk(p)' = Risk(p)
      BY <1>1, RiskIsOfItsAttempts
    <3>6. ASSUME NEW r \in steady, attempt[r] \in AtRiskStates
          PROVE  r.of \in DOMAIN risks /\ RiskPriority(risks[r.of]) >= RiskPriority(attempt[r])
      <4>1. r.of \in Works /\ r \in RequestsFor(r.of)
        BY DEF DailyIInv, RequestsFor, PublishRequests
      <4>2. Risk(r.of) \in AtRiskStates /\ RiskPriority(Risk(r.of)) >= RiskPriority(attempt[r])
        BY <3>6, <4>1, RiskIsStrongest
      <4> QED
        BY <3>3, <4>1, <4>2 DEF AtRiskStates
    <3> QED
      BY <1>1, <3>1, <3>3, <3>4, <3>5, <3>6 DEF RisksAreKnown, DailyIInv
  <2>3. CASE \E p \in Works : ViewRead(p)
    <3>1. PICK p \in Works :
            /\ view' = [view EXCEPT !.summary = [q \in DOMAIN view.summary \cup {p} |->
                                                   IF q = p THEN Summary(p) ELSE view.summary[q]]]
            /\ UNCHANGED steady
      BY <2>3 DEF ViewRead
    <3> DEFINE summary == [q \in DOMAIN view.summary \cup {p} |->
                             IF q = p THEN Summary(p) ELSE view.summary[q]]
    <3>2. summary \in PartialOn(Summaries)
      <4>1. /\ DOMAIN view.summary \subseteq Works /\ Summary(p) \in Summaries
            /\ \A q \in DOMAIN view.summary : view.summary[q] \in Summaries
        <5>1. Summary(p) \in Summaries
          BY DailyAssumption DEF Summary, Summaries, DailyIInv, FinalsFit, DailyAssumption
        <5> QED
          BY <1>1, <5>1, PartialOnProjects DEF DailyView
      <4>2. DOMAIN view.summary \cup {p} \in SUBSET Works
        BY <4>1
      <4>3. summary \in [DOMAIN view.summary \cup {p} -> Summaries]
        BY <4>1
      <4> QED
        BY <4>2, <4>3 DEF PartialOn
    <3> HIDE DEF summary
    <3>3. view' \in DailyView /\ view'.risks = view.risks /\ view'.pc = view.pc
      <4>1. view' = [view EXCEPT !.summary = summary]
        BY <3>1 DEF summary
      <4> QED
        BY <1>1, <3>2, <4>1 DEF DailyView
    <3>4. \A q \in Works : Risk(q)' = Risk(q)
      BY <1>1, RiskIsOfItsAttempts
    <3> QED
      BY <1>1, <3>1, <3>3, <3>4 DEF RisksAreKnown, DailyIInv
  <2> QED
    BY <2>1, <2>2, <2>3
<1> QED
  BY <1>1, <1>2 DEF DailyIInv, FinalsFit, ListsAreSafe, WorkIsSafe

\* Every step keeps the invariant, and the safe work keeps to what is safe.
LEMMA DailyGoesOn ==
  ASSUME DailyAssumption, DailyIInv, [DailyNext]_dailyVars
  PROVE  DailyIInv' /\ WorkIsSafe
<1>1. CASE UNCHANGED dailyVars
  <2>1. /\ UNCHANGED <<work, finals, attempt, run, view, steady>>
        /\ \A p \in Works : Risk(p)' = Risk(p)
    BY <1>1, RiskIsOfItsAttempts DEF dailyVars
  <2> QED
    BY <2>1 DEF DailyIInv, FinalsFit, ListsAreSafe, RisksAreKnown, WorkIsSafe
<1> QED
  BY <1>1, PeopleKeep, PublishingKeeps, SafeWorkKeeps, SafeStepKeeps, ViewKeeps DEF DailyNext

\* The day begins with no run, no snapshot and nothing published.
LEMMA DailyStarts ==
  ASSUME DailyAssumption, DailyInit
  PROVE  DailyIInv
<1>1. work \in [Works -> Stages]
  BY DEF DailyInit, Stages
<1>2. FinalsFit /\ attempt \in [PublishRequests -> TryStates \cup {Unapproved}]
  BY DailyAssumption DEF DailyInit, FinalsFit, DailyAssumption
<1>3. run \in DailyRun /\ ListsAreSafe
  BY DailyAssumption DEF DailyInit, NoRun, DailyRun, ListsAreSafe, DailyAssumption
<1>4. view \in DailyView
  <2>1. [p \in {} |-> "none"] \in PartialOn(AtRiskStates)
    BY NothingOnProjects
  <2>2. [p \in {} |-> 0] \in PartialOn(Summaries)
    BY NothingOnProjects
  <2> QED
    BY <2>1, <2>2 DEF DailyInit, NoView, DailyView
<1>5. steady \subseteq PublishRequests /\ RisksAreKnown
  BY DEF DailyInit, NoView, RisksAreKnown
<1> QED
  BY <1>1, <1>2, <1>3, <1>4, <1>5 DEF DailyIInv

\* However the reads of a snapshot interleave with the user's work and publications,
\* and however many attempts of however many finals a project has: the card shows an
\* attempt that stood still, or a stronger one, in a group that asks for care, and no
\* attempt that is no longer active (api/daily_production_routes.py).
THEOREM DailySafety == DailySpec => []DailyInv
<1>1. DailyInit => DailyIInv
  BY DailyAssumption, DailyStarts
<1>2. DailyIInv /\ [DailyNext]_dailyVars => DailyIInv'
  BY DailyAssumption, DailyGoesOn
<1>3. DailyIInv => DailyInv
  BY DailyAssumption, DailyInvHolds
<1> QED
  BY <1>1, <1>2, <1>3, PTL DEF DailySpec

\* However stale its lists are: "Run safe work" takes no decision and leaves raw
\* sources and what was at risk alone (daily.py, run_safe_work).
THEOREM DailyWorkIsSafe == DailySpec => SafeWorkDecidesNothing
<1>1. DailyInit => DailyIInv
  BY DailyAssumption, DailyStarts
<1>2. DailyIInv /\ [DailyNext]_dailyVars => DailyIInv'
  BY DailyAssumption, DailyGoesOn
<1>3. DailyIInv /\ [DailyNext]_dailyVars =>
        [run' # run => \A p \in Works : work'[p] # work[p] =>
           /\ <<work[p], work'[p]>> \in {<<"fresh", "blocked">>, <<"fresh", "todo">>,
                                         <<"todo", "shown">>, <<"ready", "done">>}
           /\ p \notin RawWorks \cup run.risks]_dailyVars
  BY DailyAssumption, DailyGoesOn DEF WorkIsSafe
<1> QED
  BY <1>1, <1>2, <1>3, PTL DEF DailySpec, SafeWorkDecidesNothing

-----------------------------------------------------------------------------
(* ProjectSetup: the stored project                                          *)

TaskStates ==
  [auto : {"none", "manual", "prepared"}, source_setup : {"none", "open", "resolved"},
   edits : {"none", "raw", "canonical"}]
Outputs == SUBSET (ShortsOutputs \cup {"own"})
Checks == {<<>>} \cup (Templates \X Outputs \X BOOLEAN \X BOOLEAN)

Draft ==
  [rev : 0..MaxCommits, state : {"absent", "INBOX", "NEEDS_REVIEW", "READY"},
   preset : Templates, template : Templates, outputs : Outputs, scenes : BOOLEAN,
   initialized : BOOLEAN, renderable : BOOLEAN, receipt : Nat, tasks : TaskStates,
   bound : [revision : Nat, template : BOOLEAN, outputs : BOOLEAN], checked : Checks]

ReceiptStates == {"running", "succeeded"}

\* What holds of a project d that is stored with the receipts and revisions
\* given.  While a re-entry is pending, the tasks say how far it is; before the
\* review nothing of it is there; a project of a preset never needs manual setup.
Checkpointed(d, jobs) ==
  /\ d.receipt \in 0..Len(jobs)
  /\ \A r \in DOMAIN jobs : jobs[r] = "running" <=> d.receipt = r

Staged(d) ==
  /\ d.state \in {"absent", "INBOX"} =>
       ~d.initialized /\ ~d.renderable /\ ~Pending(d) /\ d.tasks = NoTasks
  /\ d.state = "READY" => d.initialized /\ d.renderable /\ ~Pending(d)
  /\ IsPreset(d) => /\ d.template = d.preset /\ d.scenes /\ ~d.bound.template
                    /\ ~Pending(d)
                    /\ d.initialized => d.renderable

Bindings(d, revs) ==
  d.bound # Unbound =>
    /\ d.bound.revision \in DOMAIN revs
    /\ d.bound.template => d.template = revs[d.bound.revision].template
    /\ d.bound.outputs => d.outputs = revs[d.bound.revision].outputs

Prepared(d) ==
  /\ d.initialized /\ d.renderable /\ d.scenes
  /\ d.tasks.auto = "prepared" /\ d.tasks.edits # "none" /\ d.tasks.source_setup # "open"

Reprepared(d) ==
  /\ d.initialized /\ d.renderable /\ d.scenes
  /\ d.tasks.auto = "manual" /\ d.tasks.edits # "none" /\ d.tasks.source_setup = "open"

Tasked(d, jobs) ==
  /\ ~Pending(d) =>
       \/ ~d.initialized /\ d.tasks = NoTasks
       \/ Prepared(d)
       \/ ~d.renderable /\ d.tasks = ManualSetup /\ (d.initialized \/ Len(jobs) >= 2)
  /\ Pending(d) =>
       /\ d.state = "NEEDS_REVIEW" /\ d.bound = Unbound
       /\ \/ ~d.renderable /\ d.tasks = ManualSetup
          \/ Reprepared(d)

Sound(d, jobs, revs) ==
  Checkpointed(d, jobs) /\ Staged(d) /\ Bindings(d, revs) /\ Tasked(d, jobs)

-----------------------------------------------------------------------------
(* ProjectSetup: what the operations make of a project                       *)

\* A fresh bootstrap and one within a re-entry: the tasks go with the outcome.
LEMMA BootstrapIsSound ==
  ASSUME NEW p \in Draft, NEW jobs \in Seq(ReceiptStates), NEW revs, NEW ready \in BOOLEAN,
         Sound(p, jobs, revs), ~p.initialized, ~IsPreset(p), ~Nested(p),
         p.state # "absent", Pending(p) \/ p.tasks = NoTasks,
         NEW q, q = Bootstrapped(p, ready)
  PROVE  /\ q \in Draft /\ Sound(q, jobs, revs) /\ q.receipt = p.receipt
         /\ q.initialized /\ q.state = "NEEDS_REVIEW"
<1> DEFINE template == IF p.template = "none" THEN "hook_overlay" ELSE p.template
           renderable == template = "hook_overlay" /\ (p.scenes \/ ready)
           scenes == p.scenes \/ renderable
           outputs == IF renderable THEN p.outputs \cup ShortsOutputs ELSE p.outputs
           tasks == WithTasks(p.tasks, renderable)
<1>1. q = [p EXCEPT !.state = "NEEDS_REVIEW", !.template = template, !.initialized = TRUE,
             !.renderable = renderable, !.scenes = scenes, !.outputs = outputs, !.tasks = tasks]
  BY DEF Bootstrapped, Draft
<1>2. /\ template \in Templates /\ renderable \in BOOLEAN /\ scenes \in BOOLEAN
      /\ outputs \in Outputs /\ tasks \in TaskStates
  BY DEF Draft, Templates, Outputs, WithTasks, TaskStates
<1>3. Pending(p) => /\ p.state = "NEEDS_REVIEW" /\ p.bound = Unbound
                    /\ p.tasks = ManualSetup
  BY DEF Sound, Tasked, Reprepared
<1>4. p.tasks = NoTasks =>
        IF renderable THEN tasks.auto = "prepared" /\ tasks.edits = "raw" /\ tasks.source_setup = "none"
        ELSE tasks = ManualSetup
  BY DEF NoTasks, WithTasks, ManualSetup
<1>5. p.tasks = ManualSetup =>
        IF renderable THEN tasks.auto = "manual" /\ tasks.edits = "raw" /\ tasks.source_setup = "open"
        ELSE tasks = ManualSetup
  BY DEF WithTasks, ManualSetup
<1>6. renderable => scenes
  OBVIOUS
<1>7. p.bound = Unbound
  BY DEF Nested
<1> HIDE DEF template, renderable, scenes, outputs, tasks
<1>8. /\ q \in Draft /\ q.state = "NEEDS_REVIEW" /\ q.initialized /\ q.renderable = renderable
      /\ q.scenes = scenes /\ q.tasks = tasks /\ q.receipt = p.receipt /\ q.bound = p.bound
      /\ q.preset = p.preset
  <2> DEFINE half == [p EXCEPT !.state = "NEEDS_REVIEW", !.template = template, !.initialized = TRUE,
                               !.renderable = renderable]
  <2>1. q = [half EXCEPT !.scenes = scenes, !.outputs = outputs, !.tasks = tasks]
    BY <1>1
  <2>2. /\ half \in Draft /\ half.state = "NEEDS_REVIEW" /\ half.initialized
        /\ half.renderable = renderable /\ half.receipt = p.receipt /\ half.bound = p.bound
        /\ half.preset = p.preset
    BY <1>2 DEF Draft
  <2> HIDE DEF half
  <2> QED
    BY <1>2, <2>1, <2>2 DEF Draft
<1>9. Checkpointed(q, jobs) /\ Staged(q) /\ Bindings(q, revs)
  BY <1>7, <1>8 DEF Sound, Checkpointed, Staged, Bindings, IsPreset, Pending
<1>10. Tasked(q, jobs)
  BY <1>3, <1>4, <1>5, <1>6, <1>7, <1>8 DEF Tasked, Pending, Prepared, Reprepared
<1> QED
  BY <1>8, <1>9, <1>10 DEF Sound

\* The bootstrap of a project from a preset, which may be bound to a profile.
LEMMA PresetBootstrapIsSound ==
  ASSUME NEW p \in Draft, NEW jobs \in Seq(ReceiptStates), NEW revs,
         Sound(p, jobs, revs), ~p.initialized, IsPreset(p), p.state # "absent",
         NEW q, q = PresetBootstrapped(p)
  PROVE  /\ q \in Draft /\ Sound(q, jobs, revs) /\ q.receipt = p.receipt
         /\ q.initialized /\ q.state = "NEEDS_REVIEW"
<1> DEFINE edits == IF p.template = "hook_overlay" THEN "raw" ELSE "canonical"
           tasks == [NoTasks EXCEPT !.auto = "prepared", !.edits = edits]
<1>1. q = [p EXCEPT !.state = "NEEDS_REVIEW", !.initialized = TRUE, !.renderable = TRUE,
                    !.tasks = tasks]
  BY DEF PresetBootstrapped
<1>2. /\ tasks \in TaskStates /\ tasks.auto = "prepared" /\ tasks.edits # "none"
      /\ tasks.source_setup = "none"
  BY DEF NoTasks, TaskStates
<1> HIDE DEF tasks
<1>3. /\ q \in Draft /\ q.state = "NEEDS_REVIEW" /\ q.initialized /\ q.renderable
      /\ q.scenes = p.scenes /\ q.tasks = tasks /\ q.receipt = p.receipt /\ q.bound = p.bound
      /\ q.preset = p.preset /\ q.template = p.template /\ q.outputs = p.outputs
  BY <1>1, <1>2 DEF Draft
<1>4. ~Pending(p) /\ p.scenes /\ p.template = p.preset /\ ~p.bound.template
  BY DEF Sound, Staged
<1>5. Checkpointed(q, jobs) /\ Staged(q) /\ Bindings(q, revs) /\ Tasked(q, jobs)
  BY <1>2, <1>3, <1>4 DEF Sound, Checkpointed, Staged, Bindings, IsPreset, Pending, Tasked, Prepared
<1> QED
  BY <1>3, <1>5 DEF Sound

\* Settling the payloads of the edits changes nothing else.
LEMMA SettledIsSound ==
  ASSUME NEW p \in Draft, NEW jobs \in Seq(ReceiptStates), NEW revs,
         Sound(p, jobs, revs), NEW q, q = Settled(p)
  PROVE  /\ q \in Draft /\ Sound(q, jobs, revs) /\ q.receipt = p.receipt
         /\ q.initialized = p.initialized /\ q.state = p.state
<1> DEFINE edits == IF p.tasks.edits = "raw" THEN "canonical" ELSE p.tasks.edits
           tasks == [p.tasks EXCEPT !.edits = edits]
<1>1. q = [p EXCEPT !.tasks = tasks]
  BY DEF Settled, Draft
<1>2. p.tasks \in TaskStates
  BY DEF Draft
<1>3. /\ tasks \in TaskStates /\ tasks.auto = p.tasks.auto /\ tasks.edits = edits
      /\ tasks.source_setup = p.tasks.source_setup
      /\ edits = "none" <=> p.tasks.edits = "none"
  BY <1>2 DEF TaskStates
<1>4. /\ p.tasks = NoTasks => tasks = NoTasks
      /\ p.tasks = ManualSetup => tasks = ManualSetup
  BY <1>2 DEF NoTasks, ManualSetup
<1> HIDE DEF tasks, edits
<1>5. /\ q \in Draft /\ q.state = p.state /\ q.initialized = p.initialized
      /\ q.renderable = p.renderable
      /\ q.scenes = p.scenes /\ q.tasks = tasks /\ q.receipt = p.receipt /\ q.bound = p.bound
      /\ q.preset = p.preset /\ q.template = p.template /\ q.outputs = p.outputs
  BY <1>1, <1>3 DEF Draft
<1>6. Checkpointed(q, jobs) /\ Staged(q) /\ Bindings(q, revs)
  BY <1>4, <1>5 DEF Sound, Checkpointed, Staged, Bindings, IsPreset, Pending
<1>7. Tasked(q, jobs)
  BY <1>3, <1>4, <1>5 DEF Sound, Tasked, Prepared, Reprepared, Pending
<1> QED
  BY <1>5, <1>6, <1>7 DEF Sound

\* A re-entry is begun from open manual setup, with a receipt of its own.
LEMMA BegunIsSound ==
  ASSUME NEW p \in Draft, NEW jobs \in Seq(ReceiptStates), NEW revs, Sound(p, jobs, revs),
         ~Pending(p), p.initialized, ~p.renderable, p.tasks = ManualSetup, ~Nested(p),
         NEW q, q = [p EXCEPT !.initialized = FALSE, !.receipt = Len(jobs) + 1]
  PROVE  /\ q \in Draft /\ Sound(q, Append(jobs, "running"), revs)
         /\ q.receipt = Len(jobs) + 1 /\ q.state = p.state /\ p.state = "NEEDS_REVIEW"
<1> DEFINE more == Append(jobs, "running")
<1>1. Len(jobs) \in Nat /\ DOMAIN jobs = 1..Len(jobs)
  OBVIOUS
<1>2. /\ Len(more) = Len(jobs) + 1 /\ DOMAIN more = 1..Len(jobs) + 1
      /\ more[Len(jobs) + 1] = "running" /\ \A r \in 1..Len(jobs) : more[r] = jobs[r]
  OBVIOUS
<1>3. /\ q \in Draft /\ q.state = p.state /\ ~q.initialized /\ ~q.renderable
      /\ q.tasks = p.tasks /\ q.receipt = Len(jobs) + 1 /\ q.bound = p.bound
      /\ q.preset = p.preset
  <2> DEFINE n == Len(jobs) + 1
  <2>1. n \in Nat /\ q = [p EXCEPT !.initialized = FALSE, !.receipt = n]
    BY <1>1
  <2>2. n = Len(jobs) + 1
    OBVIOUS
  <2> HIDE DEF n
  <2>3. /\ q \in Draft /\ q.state = p.state /\ q.initialized = FALSE /\ q.renderable = p.renderable
        /\ q.tasks = p.tasks /\ q.receipt = n /\ q.bound = p.bound /\ q.preset = p.preset
    BY <2>1 DEF Draft
  <2> QED
    BY <2>2, <2>3
<1>4. p.state = "NEEDS_REVIEW"
  BY DEF Sound, Staged, Draft
<1>5. ~IsPreset(p)
  BY DEF Sound, Staged
<1>6. p.receipt = 0
  BY DEF Pending
<1> HIDE DEF more
<1>7. Checkpointed(q, more)
  BY <1>1, <1>2, <1>3, <1>6 DEF Sound, Checkpointed
<1>8. Staged(q) /\ Bindings(q, revs) /\ Tasked(q, more)
  BY <1>1, <1>3, <1>4, <1>5 DEF Staged, Bindings, Tasked, IsPreset, Pending, Nested
<1> QED
  BY <1>3, <1>4, <1>7, <1>8 DEF Sound, more

Done(p) ==
  IF p.renderable
  THEN [p EXCEPT !.tasks.auto = "prepared", !.tasks.source_setup = "resolved"]
  ELSE p
Completed(p) == Settled([Done(p) EXCEPT !.receipt = 0])

\* The end of a re-entry consumes its receipt.  The project must be initialized
\* by then, or an earlier re-entry has been.
LEMMA CompletedIsSound ==
  ASSUME NEW p \in Draft, NEW jobs \in Seq(ReceiptStates), NEW revs, Sound(p, jobs, revs),
         Pending(p), p.initialized \/ Len(jobs) >= 2,
         NEW q, q = Completed(p)
  PROVE  /\ q \in Draft /\ Sound(q, [jobs EXCEPT ![p.receipt] = "succeeded"], revs)
         /\ [jobs EXCEPT ![p.receipt] = "succeeded"] \in Seq(ReceiptStates)
         /\ Len([jobs EXCEPT ![p.receipt] = "succeeded"]) = Len(jobs)
         /\ q.receipt = 0 /\ q.initialized = p.initialized /\ q.state = p.state
<1> DEFINE rest == [jobs EXCEPT ![p.receipt] = "succeeded"]
           tasks == IF p.renderable
                    THEN [p.tasks EXCEPT !.auto = "prepared", !.source_setup = "resolved"]
                    ELSE p.tasks
           ended == [p EXCEPT !.tasks = tasks]
           d == [ended EXCEPT !.receipt = 0]
<1>1. /\ rest \in Seq(ReceiptStates) /\ Len(rest) = Len(jobs) /\ DOMAIN rest = DOMAIN jobs
      /\ \A r \in DOMAIN jobs : rest[r] = IF r = p.receipt THEN "succeeded" ELSE jobs[r]
  <2>1. /\ Len(jobs) \in Nat /\ DOMAIN jobs = 1..Len(jobs)
        /\ jobs \in [1..Len(jobs) -> ReceiptStates] /\ "succeeded" \in ReceiptStates
    BY DEF ReceiptStates
  <2>2. rest \in [1..Len(jobs) -> ReceiptStates]
    BY <2>1
  <2>3. rest \in Seq(ReceiptStates) /\ Len(rest) = Len(jobs)
    BY <2>1, <2>2
  <2> QED
    BY <2>1, <2>2, <2>3
<1>2. p.tasks \in TaskStates
  BY DEF Draft
<1>3. /\ tasks \in TaskStates
      /\ p.renderable => tasks.auto = "prepared" /\ tasks.source_setup = "resolved"
                           /\ tasks.edits = p.tasks.edits
      /\ ~p.renderable => tasks = p.tasks
  BY <1>2 DEF TaskStates
<1>4. Done(p) = ended
  <2>1. CASE p.renderable
    <3>1. Done(p) = [p EXCEPT !.tasks = [p.tasks EXCEPT !.auto = "prepared", !.source_setup = "resolved"]]
      BY <2>1 DEF Done, Draft
    <3> QED
      BY <2>1, <3>1
  <2>2. CASE ~p.renderable
    BY <2>2 DEF Done, Draft
  <2> QED
    BY <2>1, <2>2
<1> HIDE DEF tasks
<1>5. /\ ended \in Draft /\ ended.state = p.state /\ ended.initialized = p.initialized
      /\ ended.renderable = p.renderable /\ ended.tasks = tasks /\ ended.scenes = p.scenes
      /\ ended.bound = p.bound /\ ended.preset = p.preset
  BY <1>3 DEF Draft
<1> HIDE DEF ended
<1>6. /\ d \in Draft /\ d.state = p.state /\ d.initialized = p.initialized
      /\ d.renderable = p.renderable /\ d.tasks = tasks /\ d.scenes = p.scenes
      /\ d.bound = p.bound /\ d.preset = p.preset /\ d.receipt = 0
  BY <1>5 DEF Draft
<1> HIDE DEF d, rest
<1>7. p.state = "NEEDS_REVIEW" /\ p.bound = Unbound /\ ~IsPreset(p)
  BY DEF Sound, Tasked, Staged
<1>8. Checkpointed(d, rest)
  <2>1. DOMAIN jobs = 1..Len(jobs) /\ Len(jobs) \in Nat
    OBVIOUS
  <2> QED
    BY <1>1, <1>6, <2>1 DEF Sound, Checkpointed
<1>9. Staged(d) /\ Bindings(d, revs)
  BY <1>6, <1>7 DEF Staged, Bindings, IsPreset, Pending
<1>10. Tasked(d, rest)
  BY <1>1, <1>3, <1>6 DEF Sound, Tasked, Pending, Prepared, Reprepared
<1>11. Sound(d, rest, revs) /\ q = Settled(d)
  BY <1>4, <1>8, <1>9, <1>10 DEF Sound, d, Completed
<1>12. /\ q \in Draft /\ Sound(q, rest, revs) /\ q.receipt = d.receipt
       /\ q.initialized = d.initialized /\ q.state = d.state
  BY <1>1, <1>6, <1>11, SettledIsSound
<1> QED
  BY <1>1, <1>6, <1>12 DEF rest

\* Only what a profile owns is taken back.
LEMMA UnprofiledIsSound ==
  ASSUME NEW p \in Draft, NEW jobs \in Seq(ReceiptStates), NEW revs,
         Sound(p, jobs, revs), p.state = "INBOX",
         NEW q, q = WithoutProfile(p)
  PROVE  /\ q \in Draft /\ Sound(q, jobs, revs) /\ q.receipt = p.receipt /\ q.state = "INBOX"
         /\ q.initialized = p.initialized /\ q.bound = Unbound
<1> DEFINE template == IF p.bound.template THEN "none" ELSE p.template
           outputs == IF p.bound.outputs THEN {} ELSE p.outputs
<1>1. q = [p EXCEPT !.bound = Unbound, !.template = template, !.outputs = outputs]
  BY DEF WithoutProfile, Draft
<1>2. template \in Templates /\ outputs \in Outputs
  BY DEF Draft, Templates, Outputs
<1>3. ~p.bound.template => template = p.template
  OBVIOUS
<1>4. Unbound \in [revision : Nat, template : BOOLEAN, outputs : BOOLEAN] /\ ~Unbound.template
  BY DEF Unbound
<1> DEFINE none == Unbound
<1>u. none = Unbound /\ q = [p EXCEPT !.template = template, !.outputs = outputs, !.bound = none]
      /\ none \in [revision : Nat, template : BOOLEAN, outputs : BOOLEAN]
  BY <1>1, <1>4
<1> HIDE DEF template, outputs, none
<1>5. /\ q \in Draft /\ q.state = p.state /\ q.initialized = p.initialized
      /\ q.renderable = p.renderable /\ q.tasks = p.tasks /\ q.scenes = p.scenes
      /\ q.bound = Unbound /\ q.preset = p.preset /\ q.receipt = p.receipt
      /\ q.template = template
  <2>1. /\ q \in Draft /\ q.state = p.state /\ q.initialized = p.initialized
        /\ q.renderable = p.renderable /\ q.tasks = p.tasks /\ q.scenes = p.scenes
        /\ q.bound = none /\ q.preset = p.preset /\ q.receipt = p.receipt
        /\ q.template = template
    <3> DEFINE half == [p EXCEPT !.template = template, !.outputs = outputs]
    <3>1. q = [half EXCEPT !.bound = none]
      BY <1>u
    <3>2. none \in [revision : Nat, template : BOOLEAN, outputs : BOOLEAN]
      BY <1>u
    <3>3. /\ half \in Draft /\ half.state = p.state /\ half.initialized = p.initialized
          /\ half.renderable = p.renderable /\ half.tasks = p.tasks /\ half.scenes = p.scenes
          /\ half.preset = p.preset /\ half.receipt = p.receipt /\ half.template = template
      BY <1>2 DEF Draft
    <3> HIDE DEF half
    <3> QED
      BY <3>1, <3>2, <3>3 DEF Draft
  <2> QED
    BY <1>u, <2>1
<1>6. Checkpointed(q, jobs) /\ Staged(q) /\ Bindings(q, revs) /\ Tasked(q, jobs)
  BY <1>3, <1>4, <1>5 DEF Sound, Checkpointed, Staged, Bindings, Tasked, IsPreset, Pending,
     Prepared, Reprepared
<1> QED
  BY <1>5, <1>6 DEF Sound

Profiled(p, revs, r) ==
  LET fillsT == p.template = "none" /\ revs[r].template # "none"
      fillsO == p.outputs = {} /\ revs[r].outputs # {}
  IN [p EXCEPT !.template = IF fillsT THEN revs[r].template ELSE @,
               !.outputs = IF fillsO THEN revs[r].outputs ELSE @,
               !.bound = [revision |-> r, template |-> fillsT, outputs |-> fillsO]]

\* Only what is empty is filled from a revision.
LEMMA ProfiledIsSound ==
  ASSUME NEW p \in Draft, NEW jobs \in Seq(ReceiptStates), NEW revs \in Seq(Definition),
         Sound(p, jobs, revs), p.state = "INBOX", NEW r \in DOMAIN revs,
         NEW q, q = Profiled(p, revs, r)
  PROVE  /\ q \in Draft /\ Sound(q, jobs, revs) /\ q.receipt = p.receipt /\ q.state = "INBOX"
         /\ q.initialized = p.initialized
<1> DEFINE fillsT == p.template = "none" /\ revs[r].template # "none"
           fillsO == p.outputs = {} /\ revs[r].outputs # {}
           template == IF fillsT THEN revs[r].template ELSE p.template
           outputs == IF fillsO THEN revs[r].outputs ELSE p.outputs
           bound == [revision |-> r, template |-> fillsT, outputs |-> fillsO]
<1>1. q = [p EXCEPT !.template = template, !.outputs = outputs, !.bound = bound]
  BY DEF Profiled, Draft
<1>2. revs[r] \in Definition /\ r \in Nat
  OBVIOUS
<1>3. /\ template \in Templates /\ outputs \in Outputs
      /\ bound \in [revision : Nat, template : BOOLEAN, outputs : BOOLEAN]
  BY <1>2 DEF Draft, Templates, Outputs, Definition
<1>4. /\ bound.revision = r /\ bound.template => template = revs[r].template /\ p.template = "none"
      /\ bound.outputs => outputs = revs[r].outputs
      /\ ~bound.template => template = p.template
  OBVIOUS
<1> HIDE DEF template, outputs, bound
<1>5. /\ q \in Draft /\ q.state = p.state /\ q.initialized = p.initialized
      /\ q.renderable = p.renderable /\ q.tasks = p.tasks /\ q.scenes = p.scenes
      /\ q.bound = bound /\ q.preset = p.preset /\ q.receipt = p.receipt
      /\ q.template = template /\ q.outputs = outputs
  <2> DEFINE half == [p EXCEPT !.template = template, !.outputs = outputs]
  <2>1. q = [half EXCEPT !.bound = bound]
    BY <1>1
  <2>2. /\ half \in Draft /\ half.state = p.state /\ half.initialized = p.initialized
        /\ half.renderable = p.renderable /\ half.tasks = p.tasks /\ half.scenes = p.scenes
        /\ half.preset = p.preset /\ half.receipt = p.receipt /\ half.template = template
        /\ half.outputs = outputs
    BY <1>3 DEF Draft
  <2> HIDE DEF half
  <2> QED
    BY <1>3, <2>1, <2>2 DEF Draft
<1>6. bound.revision = r
  BY DEF bound
<1>7. Checkpointed(q, jobs) /\ Staged(q) /\ Bindings(q, revs) /\ Tasked(q, jobs)
  BY <1>4, <1>5, <1>6 DEF Sound, Checkpointed, Staged, Bindings, Tasked, IsPreset, Pending,
     Prepared, Reprepared, Draft
<1> QED
  BY <1>5, <1>7 DEF Sound

\* A project as the preset creates it.
LEMMA CreatedIsSound ==
  ASSUME SetupAssumption, NEW jobs \in Seq(ReceiptStates), NEW revs,
         \A r \in DOMAIN jobs : jobs[r] # "running", NEW k \in {"hook_overlay", "content_frame"},
         NEW q, q = [Blank EXCEPT !.preset = k, !.template = k,
                                  !.outputs = ShortsOutputs, !.scenes = TRUE]
  PROVE  /\ q \in Draft /\ Sound(q, jobs, revs) /\ q.receipt = 0 /\ q.state = "INBOX"
<1>1. Blank \in Draft
  BY DEF SetupAssumption, Blank, Draft, Templates, Outputs, TaskStates, NoTasks, Unbound, Checks
<1>2. /\ Blank.state = "INBOX" /\ ~Blank.initialized /\ ~Blank.renderable /\ Blank.tasks = NoTasks
      /\ Blank.bound = Unbound /\ Blank.receipt = 0
  BY DEF Blank
<1>3. k \in Templates /\ ShortsOutputs \in Outputs
  BY DEF Templates, Outputs
<1>4. /\ q \in Draft /\ q.state = "INBOX" /\ ~q.initialized /\ ~q.renderable /\ q.scenes
      /\ q.tasks = NoTasks /\ q.bound = Unbound /\ q.preset = k /\ q.receipt = 0 /\ q.template = k
  BY <1>1, <1>2, <1>3 DEF Draft
<1>5. Len(jobs) \in Nat /\ DOMAIN jobs = 1..Len(jobs) /\ ~Unbound.template
  BY DEF Unbound
<1>6. Checkpointed(q, jobs) /\ Staged(q) /\ Bindings(q, revs) /\ Tasked(q, jobs)
  BY <1>4, <1>5 DEF Checkpointed, Staged, Bindings, Tasked, IsPreset, Pending
<1> QED
  BY <1>4, <1>6 DEF Sound

-----------------------------------------------------------------------------
(* ProjectSetup: the requests                                                *)

Ops == {"rest", "create", "enter", "begin", "reopen", "bootstrap", "settle", "complete",
        "sync", "profile"}
Thread == [op : Ops, seen : Draft \cup {Unread}, ready : BOOLEAN, target : Nat]

\* A request x, next to the project d that is stored by now.  Only the creation
\* runs without a project; a request about to complete a re-entry knows that there
\* was one, and the first of them is initialized by then; what a request has read
\* may be stale, but what it saw initialized under a receipt still is.
Keeps(x, d, jobs, revs) ==
  /\ x.op = "create" => d.state = "absent"
  /\ x.op = "complete" => /\ Len(jobs) >= 1
                          /\ Len(jobs) = 1 /\ Pending(d) => d.initialized
  /\ x.target \in 0..Len(revs)
  /\ x.seen # Unread =>
       /\ x.seen.state # "absent" /\ x.seen.receipt <= Len(jobs)
       /\ Pending(x.seen) /\ x.seen.receipt = d.receipt /\ x.seen.initialized => d.initialized

SetupTyped ==
  /\ draft \in Draft /\ probed \in BOOLEAN /\ pins \in BOOLEAN
  /\ revisions \in Seq(Definition) /\ receipts \in Seq(ReceiptStates)
  /\ thread \in [Handlers -> Thread] /\ lock \in Handlers \cup {NoHandler}

SetupIInv ==
  /\ SetupTyped
  /\ Sound(draft, receipts, revisions)
  /\ \A t \in Handlers : /\ Keeps(thread[t], draft, receipts, revisions)
                         /\ thread[t].op = "create" => lock = t

\* A commit that replaces a project old by new: receipts are only added, and a
\* pending re-entry is either a new one or the one that was, not less initialized.
Advances(old, olds, new, jobs) ==
  /\ Len(jobs) >= Len(olds)
  /\ Pending(new) /\ new.receipt <= Len(olds) =>
       new.receipt = old.receipt /\ (old.initialized => new.initialized)

Forward(old, new) ==
  /\ old.state = "READY" => new.state = "READY"
  /\ old.state = "NEEDS_REVIEW" => new.state \in {"NEEDS_REVIEW", "READY"}
  /\ old.initialized => new.initialized \/ Pending(new)

\* A request that does not act keeps fitting while others commit.
LEMMA KeepsForward ==
  ASSUME NEW x \in Thread, NEW old \in Draft, NEW new \in Draft,
         NEW olds \in Seq(ReceiptStates), NEW jobs \in Seq(ReceiptStates), NEW revs \in Seq(Definition),
         Keeps(x, old, olds, revs), x.op # "create", Advances(old, olds, new, jobs),
         new.receipt <= Len(jobs)
  PROVE  Keeps(x, new, jobs, revs)
<1>1. /\ Len(olds) \in Nat /\ Len(jobs) \in Nat /\ new.receipt \in Nat /\ old.receipt \in Nat
  BY DEF Draft
<1>2. x.seen # Unread => x.seen.receipt \in Nat
  BY DEF Thread, Draft
<1>3. Len(jobs) >= Len(olds)
  BY DEF Advances
<1>4. x.op = "complete" => /\ Len(jobs) >= 1
                           /\ Len(jobs) = 1 /\ Pending(new) => new.initialized
  <2>1. SUFFICES ASSUME x.op = "complete"
                 PROVE  /\ Len(jobs) >= 1
                        /\ Len(jobs) = 1 /\ Pending(new) => new.initialized
    OBVIOUS
  <2>2. Len(olds) >= 1 /\ (Len(olds) = 1 /\ Pending(old) => old.initialized)
    BY <2>1 DEF Keeps
  <2>3. ASSUME Len(jobs) = 1, Pending(new) PROVE new.initialized
    <3>1. Len(olds) = 1 /\ new.receipt <= Len(olds)
      BY <1>1, <1>3, <2>2, <2>3
    <3>2. new.receipt = old.receipt /\ (old.initialized => new.initialized)
      BY <2>3, <3>1 DEF Advances
    <3> QED
      BY <2>2, <2>3, <3>1, <3>2 DEF Pending
  <2> QED
    BY <1>1, <1>3, <2>2, <2>3
<1>5. x.seen # Unread =>
        /\ x.seen.state # "absent" /\ x.seen.receipt <= Len(jobs)
        /\ Pending(x.seen) /\ x.seen.receipt = new.receipt /\ x.seen.initialized => new.initialized
  BY <1>1, <1>2, <1>3 DEF Keeps, Advances, Pending
<1> QED
  BY <1>4, <1>5 DEF Keeps

\* The number of the commit is of no consequence.
LEMMA StampedIsSound ==
  ASSUME NEW new \in Draft, NEW jobs, NEW revs, NEW n \in 0..MaxCommits,
         NEW q, q = [new EXCEPT !.rev = n]
  PROVE  /\ q \in Draft /\ q.receipt = new.receipt /\ q.initialized = new.initialized
         /\ q.state = new.state
         /\ Sound(new, jobs, revs) => Sound(q, jobs, revs)
<1>1. /\ q \in Draft /\ q.receipt = new.receipt /\ q.initialized = new.initialized
      /\ q.state = new.state /\ q.preset = new.preset /\ q.template = new.template
      /\ q.outputs = new.outputs
  BY DEF Draft
<1>2. /\ q.scenes = new.scenes /\ q.renderable = new.renderable /\ q.tasks = new.tasks
      /\ q.bound = new.bound
  BY DEF Draft
<1>3. Sound(new, jobs, revs) => Sound(q, jobs, revs)
  BY <1>1, <1>2 DEF Sound, Checkpointed, Staged, Bindings, Tasked, Pending, IsPreset,
     Prepared, Reprepared
<1> QED
  BY <1>1, <1>3

\* A request as it starts or goes on to its next part.
LEMMA ServingKeeps ==
  ASSUME SetupAssumption, NEW op \in Ops, NEW d, NEW jobs, NEW revs \in Seq(Definition),
         op = "create" => d.state = "absent",
         op = "complete" => /\ Len(jobs) >= 1
                            /\ Len(jobs) = 1 /\ Pending(d) => d.initialized,
         NEW x, x = Serving(op)
  PROVE  x \in Thread /\ x.op = op /\ Keeps(x, d, jobs, revs)
<1>1. x.op = op /\ x.seen = Unread /\ x.ready = FALSE /\ x.target = 0 /\ x \in Thread
  BY DEF Serving, Thread
<1>2. Len(revs) \in Nat
  OBVIOUS
<1> QED
  BY <1>1, <1>2 DEF Keeps

\* A step of one request that commits nothing.
LEMMA RequestStepKeepsInv ==
  ASSUME SetupAssumption, SetupIInv, NEW t \in Handlers, NEW x \in Thread,
         Keeps(x, draft, receipts, revisions), x.op = "create" => lock' = t,
         thread' = [thread EXCEPT ![t] = x], UNCHANGED <<draft, probed, pins, revisions, receipts>>,
         \/ lock' = lock
         \/ lock = t /\ lock' = NoHandler
         \/ lock = NoHandler /\ lock' = t
  PROVE  SetupIInv' /\ Forward(draft, draft')
<1>1. SetupTyped'
  BY DEF SetupIInv, SetupTyped
<1>2. Sound(draft, receipts, revisions)'
  BY DEF SetupIInv
<1>3. ASSUME NEW u \in Handlers
      PROVE  Keeps(thread'[u], draft', receipts', revisions') /\ (thread'[u].op = "create" => lock' = u)
  <2>1. CASE u = t
    BY <2>1 DEF SetupIInv, SetupTyped
  <2>2. CASE u # t
    <3>1. thread'[u] = thread[u]
      BY <2>2 DEF SetupIInv, SetupTyped
    <3>2. Keeps(thread[u], draft, receipts, revisions) /\ (thread[u].op = "create" => lock = u)
      BY DEF SetupIInv
    <3>3. thread[u].op = "create" => lock' = u
      BY <2>2, <3>2 DEF SetupAssumption
    <3> QED
      BY <3>1, <3>2, <3>3
  <2> QED
    BY <2>1, <2>2
<1>4. Forward(draft, draft')
  BY DEF Forward, SetupIInv, SetupTyped, Draft
<1> QED
  BY <1>1, <1>2, <1>3, <1>4 DEF SetupIInv

\* A step of one request that commits: it replaces the project it has read.
LEMMA StoreKeepsInv ==
  ASSUME SetupAssumption, SetupIInv, NEW t \in Handlers, NEW new \in Draft,
         NEW jobs \in Seq(ReceiptStates), NEW next \in Ops, next # "create",
         thread[t].seen # Unread, Store(t, new, jobs, next), Sound(new, jobs, revisions),
         Advances(draft, receipts, new, jobs), Forward(draft, new),
         next = "complete" => /\ Len(jobs) >= 1
                              /\ Len(jobs) = 1 /\ Pending(new) => new.initialized
  PROVE  SetupIInv' /\ Forward(draft, draft')
<1>1. /\ draft.rev < MaxCommits /\ draft' = [new EXCEPT !.rev = draft.rev + 1] /\ receipts' = jobs
      /\ UNCHANGED <<probed, pins, revisions, lock>> /\ draft = thread[t].seen
      /\ thread' = [thread EXCEPT ![t] = Serving(next)]
  BY DEF Store, Swap, Serve
<1>2. draft.rev + 1 \in 0..MaxCommits
  BY <1>1 DEF SetupIInv, SetupTyped, Draft, SetupAssumption
<1>3. /\ draft' \in Draft /\ draft'.receipt = new.receipt /\ draft'.initialized = new.initialized
      /\ draft'.state = new.state /\ Sound(draft', jobs, revisions)
  BY <1>1, <1>2, StampedIsSound
<1>4. draft.state # "absent"
  BY <1>1 DEF SetupIInv, Keeps
<1>5. PICK x : x = Serving(next)
  OBVIOUS
<1>6. x \in Thread /\ x.op = next /\ Keeps(x, draft', jobs, revisions)
  <2>1. revisions \in Seq(Definition)
    BY DEF SetupIInv, SetupTyped
  <2>2. next = "complete" => /\ Len(jobs) >= 1
                             /\ Len(jobs) = 1 /\ Pending(draft') => draft'.initialized
    BY <1>3 DEF Pending
  <2> QED
    BY <1>5, <2>1, <2>2, ServingKeeps
<1>7. thread' = [thread EXCEPT ![t] = x]
  BY <1>1, <1>5
<1>8. SetupTyped'
  BY <1>1, <1>3, <1>6, <1>7 DEF SetupIInv, SetupTyped
<1>9. new.receipt <= Len(jobs)
  BY DEF Sound, Checkpointed
<1>10. Advances(draft, receipts, draft', jobs)
  BY <1>3 DEF Advances, Pending
<1>11. ASSUME NEW u \in Handlers
       PROVE  Keeps(thread'[u], draft', receipts', revisions') /\ (thread'[u].op = "create" => lock' = u)
  <2>1. CASE u = t
    BY <1>1, <1>6, <1>7, <2>1 DEF SetupIInv, SetupTyped
  <2>2. CASE u # t
    <3>1. thread'[u] = thread[u] /\ thread[u] \in Thread
      BY <1>7, <2>2 DEF SetupIInv, SetupTyped
    <3>2. Keeps(thread[u], draft, receipts, revisions) /\ thread[u].op # "create"
      BY <1>4 DEF SetupIInv, Keeps
    <3>3. draft \in Draft /\ receipts \in Seq(ReceiptStates) /\ revisions \in Seq(Definition)
      BY DEF SetupIInv, SetupTyped
    <3>4. Keeps(thread[u], draft', jobs, revisions)
      BY <1>3, <1>9, <1>10, <3>1, <3>2, <3>3, KeepsForward
    <3> QED
      BY <1>1, <3>1, <3>2, <3>4
  <2> QED
    BY <2>1, <2>2
<1>12. Sound(draft', receipts', revisions')
  BY <1>1, <1>3
<1>13. Forward(draft, draft')
  BY <1>3 DEF Forward, Pending
<1> QED
  BY <1>8, <1>11, <1>12, <1>13 DEF SetupIInv

-----------------------------------------------------------------------------
(* ProjectSetup: every operation                                             *)

\* What a request that has read the project may rely on.
LEMMA SeenIsSound ==
  ASSUME SetupAssumption, SetupIInv, NEW t \in Handlers, thread[t].seen # Unread
  PROVE  /\ thread[t].seen \in Draft /\ thread[t].seen.state # "absent"
         /\ thread[t].ready \in BOOLEAN
         /\ Swap(t) => Sound(thread[t].seen, receipts, revisions)
<1> QED
  BY DEF SetupIInv, SetupTyped, Thread, Keeps, Swap

\* A request that goes on without a commit to a part other than the completion.
LEMMA KeepKeepsInv ==
  ASSUME SetupAssumption, SetupIInv, NEW t \in Handlers, NEW next \in Ops \ {"create"},
         next = "complete" => /\ Len(receipts) >= 1
                              /\ Len(receipts) = 1 /\ Pending(draft) => draft.initialized,
         Keep(t, next)
  PROVE  SetupIInv' /\ Forward(draft, draft')
<1>1. PICK x : x = Serving(next)
  OBVIOUS
<1>2. revisions \in Seq(Definition)
  BY DEF SetupIInv, SetupTyped
<1>3. x \in Thread /\ x.op = next /\ Keeps(x, draft, receipts, revisions)
  BY <1>1, <1>2, ServingKeeps
<1>4. /\ thread' = [thread EXCEPT ![t] = x] /\ UNCHANGED <<draft, probed, pins, revisions, receipts>>
      /\ lock' = lock
  BY <1>1 DEF Keep, Serve
<1> QED
  BY <1>3, <1>4, RequestStepKeepsInv

\* Reading the project, forgetting what was read, giving up.
LEMMA ReadingKeepsInv ==
  ASSUME SetupAssumption, SetupIInv, NEW t \in Handlers,
         Snapshot(t) \/ Retry(t) \/ Abandon(t)
  PROVE  SetupIInv' /\ Forward(draft, draft')
<1>0. /\ draft \in Draft /\ probed \in BOOLEAN /\ thread[t] \in Thread
      /\ thread \in [Handlers -> Thread] /\ Keeps(thread[t], draft, receipts, revisions)
      /\ thread[t].op = "create" => lock = t
  BY DEF SetupIInv, SetupTyped
<1>1. CASE Snapshot(t)
  <2>1. PICK x : x = [thread[t] EXCEPT !.seen = draft, !.ready = probed]
    OBVIOUS
  <2>2. /\ x \in Thread /\ x.op = thread[t].op /\ x.seen = draft /\ x.target = thread[t].target
    BY <1>0, <2>1 DEF Thread
  <2>3. draft.state # "absent" /\ draft.receipt <= Len(receipts) /\ x.op # "create"
    BY <1>1, <2>2 DEF Snapshot, SetupIInv, Sound, Checkpointed
  <2>4. Keeps(x, draft, receipts, revisions)
    BY <1>0, <2>2, <2>3 DEF Keeps
  <2>5. /\ thread' = [thread EXCEPT ![t] = x] /\ UNCHANGED <<draft, probed, pins, revisions, receipts>>
        /\ lock' = lock
    BY <1>0, <1>1, <2>1 DEF Snapshot
  <2> QED
    BY <2>2, <2>3, <2>4, <2>5, RequestStepKeepsInv
<1>2. CASE Retry(t)
  <2>1. PICK x : x = [thread[t] EXCEPT !.seen = Unread]
    OBVIOUS
  <2>2. /\ x \in Thread /\ x.op = thread[t].op /\ x.seen = Unread /\ x.target = thread[t].target
    BY <1>0, <2>1 DEF Thread
  <2>3. Keeps(x, draft, receipts, revisions)
    BY <1>0, <2>2 DEF Keeps
  <2>4. /\ thread' = [thread EXCEPT ![t] = x] /\ UNCHANGED <<draft, probed, pins, revisions, receipts>>
        /\ lock' = lock
    BY <1>0, <1>2, <2>1 DEF Retry
  <2> QED
    BY <1>0, <2>2, <2>3, <2>4, RequestStepKeepsInv
<1>3. CASE Abandon(t)
  <2>1. PICK x : x = Serving("rest")
    OBVIOUS
  <2>2. x \in Thread /\ x.op = "rest" /\ Keeps(x, draft, receipts, revisions)
    <3>1. revisions \in Seq(Definition) /\ "rest" \in Ops
      BY DEF SetupIInv, SetupTyped, Ops
    <3> QED
      BY <2>1, <3>1, ServingKeeps
  <2>3. /\ thread' = [thread EXCEPT ![t] = x] /\ UNCHANGED <<draft, probed, pins, revisions, receipts>>
        /\ lock' = lock \/ (lock = t /\ lock' = NoHandler)
    BY <1>3, <2>1 DEF Abandon, Serve
  <2> QED
    BY <2>2, <2>3, RequestStepKeepsInv
<1> QED
  BY <1>1, <1>2, <1>3

\* The start of a request: to set the project up, or to bind a profile.
LEMMA EntryKeepsInv ==
  ASSUME SetupAssumption, SetupIInv, NEW t \in Handlers,
         Enter(t) \/ AskProfile(t)
  PROVE  SetupIInv' /\ Forward(draft, draft')
<1>1. CASE Enter(t)
  BY <1>1, KeepKeepsInv DEF Enter, Ops
<1>2. CASE AskProfile(t)
  <2>1. PICK r \in 0..Len(revisions) :
          thread' = [thread EXCEPT ![t] = [Serving("profile") EXCEPT !.target = r]]
    BY <1>2 DEF AskProfile
  <2>2. PICK x : x = [Serving("profile") EXCEPT !.target = r]
    OBVIOUS
  <2>3. x \in Thread /\ x.op = "profile" /\ x.seen = Unread /\ x.target = r
    <3>1. Serving("profile") \in Thread /\ Serving("profile").op = "profile"
          /\ Serving("profile").seen = Unread
      BY DEF Serving, Thread, Ops
    <3>2. r \in Nat
      BY DEF SetupIInv, SetupTyped
    <3> QED
      BY <2>2, <3>1, <3>2 DEF Thread
  <2>4. Keeps(x, draft, receipts, revisions)
    BY <2>3 DEF Keeps
  <2>5. /\ thread' = [thread EXCEPT ![t] = x] /\ UNCHANGED <<draft, probed, pins, revisions, receipts>>
        /\ lock' = lock
    BY <1>2, <2>1, <2>2 DEF AskProfile
  <2> QED
    BY <2>3, <2>4, <2>5, RequestStepKeepsInv
<1> QED
  BY <1>1, <1>2

\* A valid receipt is the one of the stored project.
LEMMA ReceiptIsCurrent ==
  ASSUME SetupIInv, NEW p \in Draft, p.receipt <= Len(receipts), ReceiptValid(p)
  PROVE  draft.receipt = p.receipt /\ Pending(draft) /\ Len(receipts) >= 1
<1>1. p.receipt \in 1..Len(receipts) /\ DOMAIN receipts = 1..Len(receipts) /\ Len(receipts) \in Nat
  BY DEF ReceiptValid, Pending, Draft, SetupIInv, SetupTyped
<1>2. draft.receipt = p.receipt
  BY <1>1 DEF ReceiptValid, SetupIInv, Sound, Checkpointed
<1> QED
  BY <1>1, <1>2 DEF Pending

\* The turn a setup request takes.
LEMMA DecideKeepsInv ==
  ASSUME SetupAssumption, SetupIInv, NEW t \in Handlers, Decide(t)
  PROVE  SetupIInv' /\ Forward(draft, draft')
<1>1. CASE Pending(draft)
  <2>1. ReceiptValid(draft) /\ Keep(t, IF draft.initialized THEN "complete" ELSE "reopen")
    BY <1>1 DEF Decide
  <2>2. draft \in Draft /\ draft.receipt <= Len(receipts)
    BY DEF SetupIInv, SetupTyped, Sound, Checkpointed
  <2>3. Len(receipts) >= 1
    BY <2>1, <2>2, ReceiptIsCurrent
  <2>4. CASE draft.initialized
    <3>1. Keep(t, "complete")
      BY <2>1, <2>4
    <3> QED
      BY <2>3, <2>4, <3>1, KeepKeepsInv DEF Ops
  <2>5. CASE ~draft.initialized
    <3>1. Keep(t, "reopen")
      BY <2>1, <2>5
    <3> QED
      BY <3>1, KeepKeepsInv DEF Ops
  <2> QED
    BY <2>4, <2>5
<1>2. CASE ~Pending(draft)
  <2>1. Keep(t, "bootstrap") \/ Keep(t, "sync") \/ Keep(t, "rest") \/ Keep(t, "begin")
    BY <1>2 DEF Decide
  <2> QED
    BY <2>1, KeepKeepsInv DEF Ops
<1> QED
  BY <1>1, <1>2

\* The creation of a project from a preset.
LEMMA CreationKeepsInv ==
  ASSUME SetupAssumption, SetupIInv, NEW t \in Handlers, CreateStart(t) \/ CreateSave(t)
  PROVE  SetupIInv' /\ Forward(draft, draft')
<1>0. /\ draft \in Draft /\ revisions \in Seq(Definition) /\ receipts \in Seq(ReceiptStates)
      /\ thread \in [Handlers -> Thread]
  BY DEF SetupIInv, SetupTyped
<1>1. CASE CreateStart(t) /\ draft.state = "absent" /\ SourceIsUsable
  <2>1. PICK x : x = Serving("create")
    OBVIOUS
  <2>2. x \in Thread /\ x.op = "create" /\ Keeps(x, draft, receipts, revisions)
    BY <1>0, <1>1, <2>1, ServingKeeps DEF Ops
  <2>3. /\ thread' = [thread EXCEPT ![t] = x] /\ UNCHANGED <<draft, probed, pins, revisions, receipts>>
        /\ lock = NoHandler /\ lock' = t
    BY <1>1, <2>1 DEF CreateStart, Serve, LockFree
  <2> QED
    BY <2>2, <2>3, RequestStepKeepsInv
<1>2. CASE CreateStart(t) /\ ~(draft.state = "absent" /\ SourceIsUsable)
  <2>1. UNCHANGED setupVars
    BY <1>2 DEF CreateStart, setupVars
  <2> QED
    BY <1>0, <2>1 DEF setupVars, SetupIInv, SetupTyped, Forward, Draft
<1>3. CASE CreateSave(t)
  <2>1. /\ thread[t].op = "create" /\ lock' = NoHandler /\ UNCHANGED <<probed, pins, revisions, receipts>>
        /\ thread' = [thread EXCEPT ![t] = Serving("rest")]
    BY <1>3 DEF CreateSave, Serve
  <2>2. lock = t /\ draft.state = "absent"
    BY <2>1 DEF SetupIInv, Keeps
  <2>3. PICK k \in {"hook_overlay", "content_frame"} :
          draft' = [Blank EXCEPT !.preset = k, !.template = k,
                                 !.outputs = ShortsOutputs, !.scenes = TRUE]
    BY <1>3 DEF CreateSave
  <2>4. \A r \in DOMAIN receipts : receipts[r] # "running"
    <3>1. draft.receipt = 0
      BY <2>2 DEF SetupIInv, Sound, Staged, Pending
    <3>2. DOMAIN receipts = 1..Len(receipts) /\ Len(receipts) \in Nat
      BY <1>0
    <3> QED
      BY <3>1, <3>2 DEF SetupIInv, Sound, Checkpointed
  <2>5. /\ draft' \in Draft /\ Sound(draft', receipts, revisions) /\ draft'.receipt = 0
        /\ draft'.state = "INBOX"
    BY <1>0, <2>3, <2>4, CreatedIsSound
  <2>6. PICK x : x = Serving("rest")
    OBVIOUS
  <2>7. x \in Thread /\ x.op = "rest" /\ Keeps(x, draft', receipts, revisions)
    BY <1>0, <2>6, ServingKeeps DEF Ops
  <2>8. SetupTyped'
    BY <1>0, <2>1, <2>5, <2>6, <2>7 DEF SetupIInv, SetupTyped
  <2>9. ASSUME NEW u \in Handlers
        PROVE  Keeps(thread'[u], draft', receipts', revisions') /\ (thread'[u].op = "create" => lock' = u)
    <3>1. CASE u = t
      BY <1>0, <2>1, <2>6, <2>7, <3>1
    <3>2. CASE u # t
      <4>1. thread'[u] = thread[u] /\ thread[u] \in Thread
        BY <1>0, <2>1, <3>2
      <4>2. Keeps(thread[u], draft, receipts, revisions) /\ thread[u].op # "create"
        BY <2>2, <3>2 DEF SetupIInv
      <4>3. Advances(draft, receipts, draft', receipts)
        <5>1. Len(receipts) \in Nat
          BY <1>0
        <5> QED
          BY <2>5, <5>1 DEF Advances, Pending
      <4>4. draft'.receipt <= Len(receipts)
        BY <1>0, <2>5
      <4>5. Keeps(thread[u], draft', receipts, revisions)
        BY <1>0, <2>5, <4>1, <4>2, <4>3, <4>4, KeepsForward
      <4> QED
        BY <2>1, <4>1, <4>2, <4>5
    <3> QED
      BY <3>1, <3>2
  <2>10. Sound(draft', receipts', revisions')
    BY <2>1, <2>5
  <2>11. Forward(draft, draft')
    <3>1. ~draft.initialized
      BY <2>2 DEF SetupIInv, Sound, Staged
    <3> QED
      BY <2>2, <3>1 DEF Forward
  <2> QED
    BY <2>8, <2>9, <2>10, <2>11 DEF SetupIInv
<1> QED
  BY <1>1, <1>2, <1>3

\* Beginning a re-entry, with its receipt.
LEMMA BeginKeepsInv ==
  ASSUME SetupAssumption, SetupIInv, NEW t \in Handlers, BeginReentry(t)
  PROVE  SetupIInv' /\ Forward(draft, draft')
<1>1. thread[t].seen # Unread
  BY DEF BeginReentry
<1>2. PICK p : p = thread[t].seen
  OBVIOUS
<1>3. PICK new : new = [p EXCEPT !.initialized = FALSE, !.receipt = Len(receipts) + 1]
  OBVIOUS
<1>4. PICK jobs : jobs = Append(receipts, "running")
  OBVIOUS
<1>5. /\ ~Pending(p) /\ p.initialized /\ ~p.renderable /\ p.tasks = ManualSetup /\ ~Nested(p)
      /\ Store(t, new, jobs, "enter")
  BY <1>2, <1>3, <1>4 DEF BeginReentry
<1>6. p \in Draft /\ Sound(p, receipts, revisions) /\ draft = p
  BY <1>1, <1>2, <1>5, SeenIsSound DEF Store, Swap
<1>7. receipts \in Seq(ReceiptStates) /\ Len(receipts) \in Nat
  BY DEF SetupIInv, SetupTyped
<1>8. /\ new \in Draft /\ Sound(new, jobs, revisions) /\ new.receipt = Len(receipts) + 1
      /\ new.state = p.state /\ p.state = "NEEDS_REVIEW"
  BY <1>3, <1>4, <1>5, <1>6, <1>7, BegunIsSound
<1>9. jobs \in Seq(ReceiptStates) /\ Len(jobs) = Len(receipts) + 1
  BY <1>4, <1>7 DEF ReceiptStates
<1>10. Advances(draft, receipts, new, jobs) /\ Forward(draft, new)
  BY <1>6, <1>7, <1>8, <1>9 DEF Advances, Forward, Pending
<1> QED
  BY <1>1, <1>5, <1>8, <1>9, <1>10, StoreKeepsInv DEF Ops

\* The bootstrap, of a new project or within a re-entry.
LEMMA BootstrapKeepsInv ==
  ASSUME SetupAssumption, SetupIInv, NEW t \in Handlers, BootstrapProject(t)
  PROVE  SetupIInv' /\ Forward(draft, draft')
<1>1. thread[t].seen # Unread /\ thread[t].op \in {"bootstrap", "reopen"}
  BY DEF BootstrapProject
<1>2. PICK p : p = thread[t].seen
  OBVIOUS
<1>3. PICK next : next = IF thread[t].op = "bootstrap" THEN "settle"
                         ELSE IF Pending(p) THEN "complete" ELSE "rest"
  OBVIOUS
<1>4. PICK ready : ready = thread[t].ready
  OBVIOUS
<1>5. /\ MayMutate(p)
      /\ IF p.initialized THEN Keep(t, next)
         ELSE /\ Copies(p) /\ PresetHolds(p)
              /\ Store(t, IF IsPreset(p) THEN PresetBootstrapped(p) ELSE Bootstrapped(p, ready),
                       receipts, next)
  BY <1>2, <1>3, <1>4 DEF BootstrapProject
<1>6. p \in Draft /\ p.state # "absent" /\ ready \in BOOLEAN
  BY <1>1, <1>2, <1>4, SeenIsSound
<1>7. next \in Ops \ {"create"} /\ (next = "complete" => Pending(p))
  BY <1>3 DEF Ops
<1>8. p.receipt <= Len(receipts)
  BY <1>1, <1>2 DEF SetupIInv, Keeps
<1>9. next = "complete" => draft.receipt = p.receipt /\ Pending(draft) /\ Len(receipts) >= 1
  BY <1>5, <1>6, <1>7, <1>8, ReceiptIsCurrent DEF MayMutate
<1>10. CASE p.initialized
  <2>1. Keep(t, next)
    BY <1>5, <1>10
  <2>2. next = "complete" => draft.initialized
    BY <1>1, <1>2, <1>7, <1>9, <1>10 DEF SetupIInv, Keeps
  <2> QED
    BY <1>7, <1>9, <2>1, <2>2, KeepKeepsInv
<1>11. CASE ~p.initialized
  <2>1. PICK new : new = IF IsPreset(p) THEN PresetBootstrapped(p) ELSE Bootstrapped(p, ready)
    OBVIOUS
  <2>2. Copies(p) /\ Store(t, new, receipts, next)
    BY <1>5, <1>11, <2>1
  <2>3. draft = p /\ Sound(p, receipts, revisions)
    BY <1>1, <1>2, <2>2, SeenIsSound DEF Store, Swap
  <2>4. receipts \in Seq(ReceiptStates) /\ Len(receipts) \in Nat
    BY DEF SetupIInv, SetupTyped
  <2>5. /\ new \in Draft /\ Sound(new, receipts, revisions) /\ new.receipt = p.receipt
        /\ new.initialized /\ new.state = "NEEDS_REVIEW"
    <3>1. CASE IsPreset(p)
      BY <1>6, <1>11, <2>1, <2>3, <2>4, <3>1, PresetBootstrapIsSound
    <3>2. CASE ~IsPreset(p)
      <4>1. ~Nested(p) /\ new = Bootstrapped(p, ready)
        BY <2>1, <2>2, <3>2 DEF Copies
      <4>2. Pending(p) \/ p.tasks = NoTasks
        BY <1>5, <1>11 DEF MayMutate
      <4> QED
        BY <1>6, <1>11, <2>3, <2>4, <3>2, <4>1, <4>2, BootstrapIsSound
    <3> QED
      BY <3>1, <3>2
  <2>6. Advances(draft, receipts, new, receipts)
    BY <2>3, <2>4, <2>5 DEF Advances
  <2>7. Forward(draft, new)
    BY <1>11, <2>3, <2>5 DEF Forward, Sound, Staged
  <2> QED
    BY <1>1, <1>7, <1>9, <2>2, <2>4, <2>5, <2>6, <2>7, StoreKeepsInv
<1> QED
  BY <1>10, <1>11

\* Settling the payloads after a bootstrap.
LEMMA SettleKeepsInv ==
  ASSUME SetupAssumption, SetupIInv, NEW t \in Handlers, SettlePayloads(t)
  PROVE  SetupIInv' /\ Forward(draft, draft')
<1>1. thread[t].seen # Unread
  BY DEF SettlePayloads
<1>2. PICK p : p = thread[t].seen
  OBVIOUS
<1>3. PICK new : new = Settled(p)
  OBVIOUS
<1>4. Keep(t, "sync") \/ Store(t, new, receipts, "sync")
  BY <1>2, <1>3 DEF SettlePayloads
<1>5. CASE Keep(t, "sync")
  BY <1>5, KeepKeepsInv DEF Ops
<1>6. CASE Store(t, new, receipts, "sync")
  <2>1. draft = p /\ p \in Draft /\ Sound(p, receipts, revisions)
    BY <1>1, <1>2, <1>6, SeenIsSound DEF Store, Swap
  <2>2. receipts \in Seq(ReceiptStates) /\ Len(receipts) \in Nat
    BY DEF SetupIInv, SetupTyped
  <2>3. /\ new \in Draft /\ Sound(new, receipts, revisions) /\ new.receipt = p.receipt
        /\ new.initialized = p.initialized /\ new.state = p.state
    BY <1>3, <2>1, <2>2, SettledIsSound
  <2>4. Advances(draft, receipts, new, receipts) /\ Forward(draft, new)
    BY <2>1, <2>2, <2>3 DEF Advances, Forward
  <2> QED
    BY <1>1, <1>6, <2>2, <2>3, <2>4, StoreKeepsInv DEF Ops
<1> QED
  BY <1>4, <1>5, <1>6

\* The completion of a re-entry.
LEMMA CompleteKeepsInv ==
  ASSUME SetupAssumption, SetupIInv, NEW t \in Handlers, Complete(t)
  PROVE  SetupIInv' /\ Forward(draft, draft')
<1>1. thread[t].seen # Unread /\ thread[t].op = "complete"
  BY DEF Complete
<1>2. PICK p : p = thread[t].seen
  OBVIOUS
<1>4. PICK new : new = Completed(p)
  OBVIOUS
<1>5. PICK jobs : jobs = [receipts EXCEPT ![p.receipt] = "succeeded"]
  OBVIOUS
<1>6. ReceiptValid(p) /\ Store(t, new, jobs, "sync")
  BY <1>2, <1>4, <1>5 DEF Complete, Consumed, Completed, Done
<1>7. draft = p /\ p \in Draft /\ Sound(p, receipts, revisions) /\ Pending(p)
  BY <1>1, <1>2, <1>6, SeenIsSound DEF Store, Swap, ReceiptValid
<1>8. receipts \in Seq(ReceiptStates) /\ Len(receipts) \in Nat
  BY DEF SetupIInv, SetupTyped
<1>9. p.initialized \/ Len(receipts) >= 2
  <2>1. Keeps(thread[t], draft, receipts, revisions)
    BY DEF SetupIInv
  <2>2. Len(receipts) >= 1 /\ (Len(receipts) = 1 /\ Pending(draft) => draft.initialized)
    BY <1>1, <2>1 DEF Keeps
  <2>3. p.initialized \/ Len(receipts) # 1
    <3>1. draft = p /\ Pending(p)
      BY <1>7
    <3>2. Len(receipts) = 1 => draft.initialized
      BY <2>2, <3>1
    <3> QED
      BY <3>1, <3>2
  <2>4. Len(receipts) >= 1 /\ Len(receipts) \in Nat
    BY <1>8, <2>2
  <2>5. Len(receipts) = 1 \/ Len(receipts) >= 2
    BY <2>4
  <2> QED
    BY <2>3, <2>5
<1>10. /\ new \in Draft /\ Sound(new, jobs, revisions) /\ jobs \in Seq(ReceiptStates)
       /\ Len(jobs) = Len(receipts)
       /\ new.receipt = 0 /\ new.initialized = p.initialized /\ new.state = p.state
  <2>1. p \in Draft /\ Sound(p, receipts, revisions) /\ Pending(p) /\ receipts \in Seq(ReceiptStates)
    BY <1>7, <1>8
  <2>2. jobs = [receipts EXCEPT ![p.receipt] = "succeeded"]
    BY <1>5
  <2> QED
    BY <1>4, <1>9, <2>1, <2>2, CompletedIsSound
<1>11. Advances(draft, receipts, new, jobs) /\ Forward(draft, new)
  BY <1>7, <1>8, <1>10 DEF Advances, Forward, Pending
<1> QED
  BY <1>1, <1>6, <1>10, <1>11, StoreKeepsInv DEF Ops

\* Remembering what was checked.
LEMMA SyncKeepsInv ==
  ASSUME SetupAssumption, SetupIInv, NEW t \in Handlers, SyncFingerprint(t)
  PROVE  SetupIInv' /\ Forward(draft, draft')
<1>1. thread[t].seen # Unread
  BY DEF SyncFingerprint
<1>2. PICK p : p = thread[t].seen
  OBVIOUS
<1>3. PICK ready \in {thread[t].ready, probed} :
        \/ Keep(t, "rest")
        \/ Store(t, [p EXCEPT !.checked = IF p.renderable THEN <<>> ELSE Fingerprint(p, ready)],
                 receipts, "rest")
  BY <1>2 DEF SyncFingerprint
<1>4. PICK check : check = IF p.renderable THEN <<>> ELSE Fingerprint(p, ready)
  OBVIOUS
<1>5. PICK new : new = [p EXCEPT !.checked = check]
  OBVIOUS
<1>6. CASE Keep(t, "rest")
  BY <1>6, KeepKeepsInv DEF Ops
<1>7. CASE Store(t, new, receipts, "rest")
  <2>1. draft = p /\ p \in Draft /\ Sound(p, receipts, revisions) /\ thread[t].ready \in BOOLEAN
    BY <1>1, <1>2, <1>7, SeenIsSound DEF Store, Swap
  <2>2. receipts \in Seq(ReceiptStates) /\ Len(receipts) \in Nat /\ probed \in BOOLEAN
    BY DEF SetupIInv, SetupTyped
  <2>3. check \in Checks
    <3>1. /\ p.template \in Templates /\ p.outputs \in Outputs /\ p.scenes \in BOOLEAN
          /\ ready \in BOOLEAN
      BY <2>1, <2>2 DEF Draft
    <3> QED
      BY <1>4, <3>1 DEF Checks, Fingerprint
  <2>4. /\ new \in Draft /\ new.receipt = p.receipt /\ new.initialized = p.initialized
        /\ new.state = p.state /\ new.preset = p.preset /\ new.template = p.template
        /\ new.outputs = p.outputs
    BY <1>5, <2>1, <2>3 DEF Draft
  <2>5. /\ new.scenes = p.scenes /\ new.renderable = p.renderable /\ new.tasks = p.tasks
        /\ new.bound = p.bound
    BY <1>5, <2>1 DEF Draft
  <2>6. Sound(new, receipts, revisions)
    BY <2>1, <2>4, <2>5 DEF Sound, Checkpointed, Staged, Bindings, Tasked, Pending, IsPreset,
       Prepared, Reprepared
  <2>7. Advances(draft, receipts, new, receipts) /\ Forward(draft, new)
    BY <2>1, <2>2, <2>4 DEF Advances, Forward
  <2> QED
    BY <1>1, <1>7, <2>2, <2>4, <2>6, <2>7, StoreKeepsInv DEF Ops
<1> QED
  BY <1>3, <1>4, <1>5, <1>6, <1>7

\* Binding a profile to a project, or another one, or none.
LEMMA BindKeepsInv ==
  ASSUME SetupAssumption, SetupIInv, NEW t \in Handlers, BindProfile(t)
  PROVE  SetupIInv' /\ Forward(draft, draft')
<1>1. thread[t].seen # Unread
  BY DEF BindProfile
<1>2. PICK p : p = thread[t].seen
  OBVIOUS
<1>3. PICK r : r = thread[t].target
  OBVIOUS
<1>4. PICK bare : bare = WithoutProfile(p)
  OBVIOUS
<1>5. PICK new : new = WithProfile(bare, r)
  OBVIOUS
<1>6. /\ p.state = "INBOX"
      /\ \/ Keep(t, "rest")
         \/ Store(t, bare, receipts, "rest")
         \/ r # 0 /\ Store(t, new, receipts, "rest")
  BY <1>2, <1>3, <1>4, <1>5 DEF BindProfile, Bindable
<1>7. /\ receipts \in Seq(ReceiptStates) /\ Len(receipts) \in Nat
      /\ revisions \in Seq(Definition) /\ DOMAIN revisions = 1..Len(revisions) /\ Len(revisions) \in Nat
  BY DEF SetupIInv, SetupTyped
<1>8. CASE Keep(t, "rest")
  BY <1>8, KeepKeepsInv DEF Ops
<1>9. ASSUME draft = p
      PROVE  /\ p \in Draft /\ Sound(p, receipts, revisions)
             /\ bare \in Draft /\ Sound(bare, receipts, revisions) /\ bare.receipt = p.receipt
             /\ bare.state = "INBOX" /\ bare.initialized = p.initialized
  <2>1. p \in Draft /\ Sound(p, receipts, revisions)
    BY <1>9 DEF SetupIInv, SetupTyped
  <2> QED
    BY <1>4, <1>6, <1>7, <2>1, UnprofiledIsSound
<1>10. ASSUME NEW q \in Draft, draft = p, Sound(q, receipts, revisions), q.receipt = p.receipt,
              q.state = "INBOX", q.initialized = p.initialized, Store(t, q, receipts, "rest")
       PROVE  SetupIInv' /\ Forward(draft, draft')
  <2>1. Advances(draft, receipts, q, receipts) /\ Forward(draft, q)
    BY <1>6, <1>7, <1>10 DEF Advances, Forward
  <2> QED
    BY <1>1, <1>7, <1>10, <2>1, StoreKeepsInv DEF Ops
<1>11. CASE Store(t, bare, receipts, "rest")
  <2>1. draft = p
    BY <1>2, <1>11 DEF Store, Swap
  <2> QED
    BY <1>9, <1>10, <1>11, <2>1
<1>12. CASE r # 0 /\ Store(t, new, receipts, "rest")
  <2>1. draft = p
    BY <1>2, <1>12 DEF Store, Swap
  <2>2. r \in DOMAIN revisions
    BY <1>3, <1>7, <1>12 DEF SetupIInv, Keeps
  <2>3. new = Profiled(bare, revisions, r)
    BY <1>5 DEF WithProfile, Profiled
  <2>4. /\ new \in Draft /\ Sound(new, receipts, revisions) /\ new.receipt = bare.receipt
        /\ new.state = "INBOX" /\ new.initialized = bare.initialized
    <3>1. bare \in Draft /\ Sound(bare, receipts, revisions) /\ bare.state = "INBOX"
      BY <1>9, <2>1
    <3>2. receipts \in Seq(ReceiptStates) /\ revisions \in Seq(Definition)
      BY <1>7
    <3> QED
      BY <2>2, <2>3, <3>1, <3>2, ProfiledIsSound
  <2> QED
    BY <1>9, <1>10, <1>12, <2>1, <2>4
<1> QED
  BY <1>6, <1>8, <1>11, <1>12

\* What happens around the requests: probing, losing what the profiles pin, the
\* review that follows, a new revision of the profile.
LEMMA SurroundingsKeepInv ==
  ASSUME SetupAssumption, SetupIInv, Probe \/ LosePins \/ Approve \/ PutProfile
  PROVE  SetupIInv' /\ Forward(draft, draft')
<1>0. /\ draft \in Draft /\ revisions \in Seq(Definition) /\ receipts \in Seq(ReceiptStates)
      /\ thread \in [Handlers -> Thread] /\ Len(receipts) \in Nat
      /\ Sound(draft, receipts, revisions)
  BY DEF SetupIInv, SetupTyped
<1>1. CASE Probe \/ LosePins
  <2>1. /\ UNCHANGED <<draft, revisions, receipts, thread, lock>>
        /\ probed' \in BOOLEAN /\ pins' \in BOOLEAN
    BY <1>1 DEF Probe, LosePins, SetupIInv, SetupTyped
  <2> QED
    BY <1>0, <2>1 DEF SetupIInv, SetupTyped, Forward, Draft
<1>2. CASE Approve
  <2>1. /\ draft.state = "NEEDS_REVIEW" /\ draft.initialized /\ draft.renderable /\ ~Pending(draft)
        /\ draft.rev < MaxCommits
        /\ UNCHANGED <<probed, pins, revisions, receipts, thread, lock>>
    BY <1>2 DEF Approve
  <2>2. PICK n : n = draft.rev + 1
    OBVIOUS
  <2>3. n \in 0..MaxCommits
    BY <1>0, <2>1, <2>2 DEF Draft, SetupAssumption
  <2>4. draft' = [draft EXCEPT !.state = "READY", !.rev = n]
    BY <1>0, <1>2, <2>2 DEF Approve
  <2>5. /\ draft' \in Draft /\ draft'.state = "READY" /\ draft'.receipt = draft.receipt
        /\ draft'.initialized = draft.initialized /\ draft'.preset = draft.preset
        /\ draft'.template = draft.template /\ draft'.outputs = draft.outputs
    BY <1>0, <2>3, <2>4 DEF Draft
  <2>6. /\ draft'.scenes = draft.scenes /\ draft'.renderable = draft.renderable
        /\ draft'.tasks = draft.tasks /\ draft'.bound = draft.bound
    BY <1>0, <2>3, <2>4 DEF Draft
  <2>7. Sound(draft', receipts, revisions)
    <3>1. Checkpointed(draft', receipts) /\ Bindings(draft', revisions)
      BY <1>0, <2>5, <2>6 DEF Sound, Checkpointed, Bindings
    <3>2. Staged(draft') /\ Tasked(draft', receipts)
      BY <1>0, <2>1, <2>5, <2>6 DEF Sound, Staged, Tasked, Pending, IsPreset, Prepared
    <3> QED
      BY <3>1, <3>2 DEF Sound
  <2>8. Forward(draft, draft')
    BY <2>1, <2>5 DEF Forward
  <2>9. ASSUME NEW u \in Handlers
        PROVE  Keeps(thread[u], draft', receipts, revisions)
    <3>1. Keeps(thread[u], draft, receipts, revisions) /\ thread[u] \in Thread
      BY <1>0 DEF SetupIInv
    <3>2. thread[u].op # "create"
      BY <2>1, <3>1 DEF Keeps
    <3>3. Advances(draft, receipts, draft', receipts)
      BY <1>0, <2>5 DEF Advances
    <3>4. draft'.receipt <= Len(receipts)
      BY <1>0, <2>5 DEF Sound, Checkpointed
    <3> QED
      BY <1>0, <2>5, <3>1, <3>2, <3>3, <3>4, KeepsForward
  <2>10. SetupTyped'
    BY <2>1, <2>5 DEF SetupIInv, SetupTyped
  <2> QED
    BY <2>1, <2>7, <2>8, <2>9, <2>10 DEF SetupIInv
<1>3. CASE PutProfile
  <2>1. PICK d \in Definition : revisions' = Append(revisions, d)
    BY <1>3 DEF PutProfile
  <2>2. UNCHANGED <<draft, probed, pins, receipts, thread, lock>>
    BY <1>3 DEF PutProfile
  <2>3. /\ revisions' \in Seq(Definition) /\ Len(revisions') = Len(revisions) + 1
        /\ DOMAIN revisions' = 1..Len(revisions) + 1 /\ Len(revisions) \in Nat
        /\ DOMAIN revisions = 1..Len(revisions)
        /\ \A r \in 1..Len(revisions) : revisions'[r] = revisions[r]
    BY <1>0, <2>1
  <2>4. Sound(draft, receipts, revisions')
    BY <1>0, <2>3 DEF Sound, Bindings
  <2>5. ASSUME NEW u \in Handlers
        PROVE  Keeps(thread[u], draft, receipts, revisions')
    <3>1. Keeps(thread[u], draft, receipts, revisions)
      BY DEF SetupIInv
    <3>2. thread[u].target \in 0..Len(revisions')
      BY <2>3, <3>1 DEF Keeps
    <3> QED
      BY <3>1, <3>2 DEF Keeps
  <2>6. SetupTyped' /\ Forward(draft, draft')
    BY <1>0, <2>2, <2>3 DEF SetupIInv, SetupTyped, Forward, Draft
  <2> QED
    BY <2>2, <2>4, <2>5, <2>6 DEF SetupIInv
<1> QED
  BY <1>1, <1>2, <1>3

-----------------------------------------------------------------------------
(* ProjectSetup: the invariant and the theorems                              *)

\* The first state: a media project of the Inbox, or none, and no request.
LEMMA SetupInitHolds ==
  ASSUME SetupAssumption, SetupInit PROVE SetupIInv
<1>1. /\ Blank \in Draft /\ Blank.state = "INBOX" /\ ~Blank.initialized /\ ~Blank.renderable
      /\ Blank.receipt = 0 /\ Blank.tasks = NoTasks /\ Blank.bound = Unbound /\ Blank.preset = "none"
  BY DEF Blank, Draft, Templates, Outputs, TaskStates, NoTasks, Unbound, Checks, SetupAssumption
<1>2. /\ Absent \in Draft /\ Absent.state = "absent" /\ ~Absent.initialized /\ ~Absent.renderable
      /\ Absent.receipt = 0 /\ Absent.tasks = NoTasks /\ Absent.bound = Unbound /\ Absent.preset = "none"
  BY <1>1 DEF Absent, Draft
<1>3. /\ draft \in {Blank, Absent} /\ probed \in BOOLEAN /\ pins \in BOOLEAN
      /\ revisions = <<>> /\ receipts = <<>> /\ lock = NoHandler
      /\ thread = [t \in Handlers |-> AtRest]
  BY DEF SetupInit
<1>4. /\ draft \in Draft /\ draft.state \in {"INBOX", "absent"} /\ ~draft.initialized
      /\ ~draft.renderable /\ draft.receipt = 0 /\ draft.tasks = NoTasks /\ draft.bound = Unbound
      /\ draft.preset = "none"
  BY <1>1, <1>2, <1>3
<1>5. Sound(draft, receipts, revisions)
  BY <1>3, <1>4 DEF Sound, Checkpointed, Staged, Bindings, Tasked, Pending, IsPreset
<1>6. AtRest \in Thread /\ AtRest.op = "rest" /\ Keeps(AtRest, draft, receipts, revisions)
  <2>1. revisions \in Seq(Definition) /\ "rest" \in Ops
    BY <1>3 DEF Ops
  <2>2. PICK x : x = Serving("rest")
    OBVIOUS
  <2>3. x \in Thread /\ x.op = "rest" /\ Keeps(x, draft, receipts, revisions)
    BY <2>1, <2>2, ServingKeeps
  <2> QED
    BY <2>2, <2>3 DEF AtRest
<1>7. SetupTyped
  BY <1>3, <1>4, <1>6 DEF SetupTyped
<1> QED
  BY <1>3, <1>5, <1>6, <1>7 DEF SetupIInv

\* Every step keeps the invariant and takes the project forward.
LEMMA SetupStepHolds ==
  ASSUME SetupAssumption, SetupIInv, [SetupNext]_setupVars
  PROVE  SetupIInv' /\ Forward(draft, draft')
<1>1. CASE Probe \/ LosePins \/ Approve \/ PutProfile
  BY <1>1, SurroundingsKeepInv
<1>2. ASSUME NEW t \in Handlers, Snapshot(t) \/ Retry(t) \/ Abandon(t)
      PROVE  SetupIInv' /\ Forward(draft, draft')
  BY <1>2, ReadingKeepsInv
<1>3. ASSUME NEW t \in Handlers, CreateStart(t) \/ CreateSave(t)
      PROVE  SetupIInv' /\ Forward(draft, draft')
  BY <1>3, CreationKeepsInv
<1>4. ASSUME NEW t \in Handlers, Enter(t) \/ AskProfile(t)
      PROVE  SetupIInv' /\ Forward(draft, draft')
  BY <1>4, EntryKeepsInv
<1>5. ASSUME NEW t \in Handlers, Decide(t) \/ BeginReentry(t) \/ BootstrapProject(t)
      PROVE  SetupIInv' /\ Forward(draft, draft')
  BY <1>5, DecideKeepsInv, BeginKeepsInv, BootstrapKeepsInv
<1>6. ASSUME NEW t \in Handlers, SettlePayloads(t) \/ Complete(t) \/ SyncFingerprint(t) \/ BindProfile(t)
      PROVE  SetupIInv' /\ Forward(draft, draft')
  BY <1>6, SettleKeepsInv, CompleteKeepsInv, SyncKeepsInv, BindKeepsInv
<1>7. CASE UNCHANGED setupVars
  BY <1>7 DEF setupVars, SetupIInv, SetupTyped, Forward, Draft
<1> QED
  BY <1>1, <1>2, <1>3, <1>4, <1>5, <1>6, <1>7 DEF SetupNext

\* SetupInv is what a reader wants to know of it.
LEMMA SetupInvFollows ==
  ASSUME SetupIInv PROVE SetupInv
<1>1. SetupTypeOK
  <2>1. \A i \in DOMAIN revisions : revisions[i] \in Definition
    BY DEF SetupIInv, SetupTyped
  <2> QED
    BY <2>1 DEF SetupIInv, SetupTyped, SetupTypeOK, Draft, Outputs
<1>2. ReceiptIsTheCheckpoint
  BY DEF SetupIInv, Sound, Checkpointed, ReceiptIsTheCheckpoint
<1>3. TasksTellTheSetup
  BY DEF SetupIInv, Sound, Tasked, Prepared, TasksTellTheSetup, OvertakenReentry
<1>4. ProfileIsReversible
  BY DEF SetupIInv, Sound, Bindings, ProfileIsReversible, Materialized
<1>5. PresetStaysExact
  BY DEF SetupIInv, Sound, Staged, PresetStaysExact, PresetHolds
<1> QED
  BY <1>1, <1>2, <1>3, <1>4, <1>5 DEF SetupInv

\* Whatever requests race, retry, resume or die: a running receipt and a pending
\* re-entry are one, the tasks tell how far the setup is, a profile can be taken
\* back and the evidence of a preset stays true (application/review.py,
\* production_presets.py, production_profile*.py).
THEOREM SetupSafety == SetupSpec => []SetupInv
<1>1. SetupInit => SetupIInv
  BY SetupInitHolds, SetupAssumption
<1>2. SetupIInv /\ [SetupNext]_setupVars => SetupIInv'
  BY SetupStepHolds, SetupAssumption
<1>3. SetupIInv => SetupInv
  BY SetupInvFollows
<1> QED
  BY <1>1, <1>2, <1>3, PTL DEF SetupSpec

\* No request takes a project back: not from READY, not from the review, nor out
\* of its initialization other than under a receipt.
THEOREM SetupGoesForward == SetupSpec => SetupIsNotUndone
<1>1. SetupInit => SetupIInv
  BY SetupInitHolds, SetupAssumption
<1>2. SetupIInv /\ [SetupNext]_setupVars => SetupIInv'
  BY SetupStepHolds, SetupAssumption
<1>3. SetupIInv /\ [SetupNext]_setupVars =>
        [/\ draft.state = "READY" => draft'.state = "READY"
         /\ draft.state = "NEEDS_REVIEW" => draft'.state \in {"NEEDS_REVIEW", "READY"}
         /\ draft.initialized => draft'.initialized \/ Pending(draft')]_setupVars
  BY SetupStepHolds, SetupAssumption DEF Forward
<1> QED
  BY <1>1, <1>2, <1>3, PTL DEF SetupSpec, SetupIsNotUndone

-----------------------------------------------------------------------------
(* ProductionLibrary: the range of a prefix                                  *)

\* A set of naturals that is not empty has a least element.
LEMMA LeastNat ==
  ASSUME NEW S \in SUBSET Nat, S # {}
  PROVE  \E n \in S : \A m \in S : n <= m
<1>1. PICK n \in S : \A m \in S : ~(<<m, n>> \in OpToRel(<, Nat))
  BY NatLessThanWellFounded, WFMin
<1>2. \A m \in S : ~(m < n)
  BY <1>1 DEF OpToRel
<1> QED
  BY <1>2

\* ... and a bounded one a greatest.
LEMMA MaxOfBounded ==
  ASSUME NEW S \in SUBSET Nat, S # {}, NEW b \in Nat, \A n \in S : n <= b
  PROVE  Max(S) \in S /\ \A n \in S : n <= Max(S)
<1> DEFINE T == {m \in Nat : b - m \in S}
<1>1. T # {}
  <2>1. PICK n \in S : TRUE
    OBVIOUS
  <2>2. b - n \in Nat /\ b - (b - n) = n
    BY <2>1
  <2> QED
    BY <2>1, <2>2
<1>2. PICK m \in T : \A k \in T : m <= k
  BY <1>1, LeastNat
<1>3. \A n \in S : n <= b - m
  <2>1. TAKE n \in S
  <2>2. b - n \in T
    <3>1. b - n \in Nat /\ b - (b - n) = n
      OBVIOUS
    <3> QED
      BY <3>1
  <2>3. m \in Nat /\ m <= b - n /\ n \in Nat
    BY <1>2, <2>2
  <2> QED
    BY <2>3
<1>4. \E x \in S : \A y \in S : x >= y
  BY <1>2, <1>3
<1> QED
  BY <1>4 DEF Max

\* The gap of the surrogates.
LEMMA Gap ==
  ASSUME LibraryAssumption
  PROVE  \E lo, hi \in Nat : /\ Surrogates = lo..hi /\ lo <= hi /\ Max(Surrogates) = hi
                             /\ 1 <= lo /\ hi < Top
<1>1. /\ Surrogates \in SUBSET Nat /\ Surrogates # {} /\ Top \in Nat
      /\ \A n \in Surrogates : 1 <= n /\ n <= Top /\ n < Top
  BY DEF LibraryAssumption
<1>2. Max(Surrogates) \in Surrogates /\ \A n \in Surrogates : n <= Max(Surrogates)
  BY <1>1, MaxOfBounded
<1>3. \E x \in Surrogates : \A y \in Surrogates : x =< y
  BY <1>1, LeastNat
<1>4. Min(Surrogates) \in Surrogates /\ \A n \in Surrogates : Min(Surrogates) <= n
  BY <1>3 DEF Min
<1>5. Surrogates = Min(Surrogates)..Max(Surrogates)
  BY DEF LibraryAssumption
<1> QED
  BY <1>1, <1>2, <1>4, <1>5

\* The successor of a scalar is a scalar, and none is in between.
LEMMA NothingBeforeTheSuccessor ==
  ASSUME LibraryAssumption, NEW c \in Scalars, c < Top
  PROVE  /\ Successor(c) \in Scalars /\ c < Successor(c)
         /\ \A d \in Scalars : d < Successor(c) => d <= c
<1>1. PICK lo, hi \in Nat : /\ Surrogates = lo..hi /\ lo <= hi /\ Max(Surrogates) = hi
                            /\ 1 <= lo /\ hi < Top
  BY Gap
<1>2. c \in 0..Top /\ c \notin lo..hi /\ Top \in Nat
  BY <1>1 DEF Scalars, LibraryAssumption
<1>3. CASE c + 1 \in lo..hi
  <2>1. Successor(c) = hi + 1
    BY <1>1, <1>3 DEF Successor
  <2>2. \A d \in Scalars : d < hi + 1 => d <= c
    BY <1>1, <1>2, <1>3 DEF Scalars
  <2> QED
    BY <1>1, <1>2, <1>3, <2>1, <2>2 DEF Scalars
<1>4. CASE c + 1 \notin lo..hi
  <2>1. Successor(c) = c + 1
    BY <1>1, <1>4 DEF Successor
  <2>2. \A d \in Scalars : d < c + 1 => d <= c
    BY <1>1, <1>2 DEF Scalars
  <2> QED
    BY <1>1, <1>2, <1>4, <2>1, <2>2 DEF Scalars
<1> QED
  BY <1>3, <1>4

\* Prefixes, element by element.
LEMMA Beginnings ==
  ASSUME NEW S, NEW s \in Seq(S), NEW t \in Seq(S), NEW n \in Nat, n <= Len(s), n <= Len(t)
  PROVE  SubSeq(s, 1, n) = SubSeq(t, 1, n) <=> \A i \in 1..n : s[i] = t[i]
<1>1. /\ SubSeq(s, 1, n) \in Seq(S) /\ Len(SubSeq(s, 1, n)) = n
      /\ \A i \in 1..n : SubSeq(s, 1, n)[i] = s[i]
  <2>1. \A i \in 1..n : s[i] \in S
    OBVIOUS
  <2> QED
    BY <2>1, SubSeqProperties
<1>2. /\ SubSeq(t, 1, n) \in Seq(S) /\ Len(SubSeq(t, 1, n)) = n
      /\ \A i \in 1..n : SubSeq(t, 1, n)[i] = t[i]
  <2>1. \A i \in 1..n : t[i] \in S
    OBVIOUS
  <2> QED
    BY <2>1, SubSeqProperties
<1>3. (\A i \in 1..n : s[i] = t[i]) => SubSeq(s, 1, n) = SubSeq(t, 1, n)
  BY <1>1, <1>2, SeqEqual
<1>4. SubSeq(s, 1, n) = SubSeq(t, 1, n) => \A i \in 1..n : s[i] = t[i]
  BY <1>1, <1>2
<1> QED
  BY <1>3, <1>4

\* A prefix, by the elements it shares.
LEMMA PrefixByElement ==
  ASSUME NEW S, NEW s \in Seq(S), NEW t \in Seq(S)
  PROVE  IsPrefix(s, t) <=> Len(s) <= Len(t) /\ \A i \in 1..Len(s) : s[i] = t[i]
<1>1. Len(s) \in Nat /\ Len(t) \in Nat
  OBVIOUS
<1>2. Len(s) <= Len(t) =>
        (SubSeq(s, 1, Len(s)) = SubSeq(t, 1, Len(s)) <=> \A i \in 1..Len(s) : s[i] = t[i])
  BY <1>1, Beginnings
<1> QED
  BY <1>2 DEF IsPrefix

\* The order of the index, element by element.
LEMMA PrecedesByElement ==
  ASSUME NEW S, NEW s \in Seq(S), NEW t \in Seq(S)
  PROVE  Precedes(s, t) <=>
           \/ Len(s) < Len(t) /\ \A i \in 1..Len(s) : s[i] = t[i]
           \/ \E i \in (1..Len(s)) \cap (1..Len(t)) : s[i] < t[i] /\ \A j \in 1..(i - 1) : s[j] = t[j]
<1>1. Len(s) \in Nat /\ Len(t) \in Nat /\ DOMAIN s = 1..Len(s) /\ DOMAIN t = 1..Len(t)
  OBVIOUS
<1>2. IsStrictPrefix(s, t) <=> Len(s) < Len(t) /\ \A i \in 1..Len(s) : s[i] = t[i]
  <2>1. Len(s) = Len(t) /\ (\A i \in 1..Len(s) : s[i] = t[i]) => s = t
    BY SeqEqual
  <2>2. s = t => Len(s) = Len(t)
    OBVIOUS
  <2> DEFINE E == \A i \in 1..Len(s) : s[i] = t[i]
  <2>3. IsPrefix(s, t) <=> Len(s) <= Len(t) /\ E
    BY PrefixByElement
  <2>4. (Len(s) = Len(t) /\ E => s = t) /\ (s = t => Len(s) = Len(t))
    BY <2>1, <2>2
  <2> HIDE DEF E
  <2>5. PICK m, n \in Nat : m = Len(s) /\ n = Len(t)
    BY <1>1
  <2>6. IsPrefix(s, t) /\ s # t <=> m < n /\ E
    <3>1. m <= n /\ m # n <=> m < n
      OBVIOUS
    <3>2. (m = n /\ E => s = t) /\ (s = t => m = n) /\ (IsPrefix(s, t) <=> m <= n /\ E)
      BY <2>3, <2>4, <2>5
    <3> QED
      BY <3>1, <3>2
  <2> QED
    BY <2>5, <2>6 DEF IsStrictPrefix, E
<1>3. ASSUME NEW i \in (1..Len(s)) \cap (1..Len(t))
      PROVE  SubSeq(s, 1, i - 1) = SubSeq(t, 1, i - 1) <=> \A j \in 1..(i - 1) : s[j] = t[j]
  <2>1. i - 1 \in Nat /\ i - 1 <= Len(s) /\ i - 1 <= Len(t)
    BY <1>1
  <2> QED
    BY <2>1, Beginnings
<1> QED
  BY <1>1, <1>2, <1>3 DEF Precedes

\* Two texts of which the first is no prefix of the second part somewhere first.
LEMMA FirstDifference ==
  ASSUME NEW S, NEW p \in Seq(S), NEW k \in Seq(S), ~IsPrefix(p, k)
  PROVE  \E i \in 1..Len(p) : /\ i > Len(k) \/ p[i] # k[i]
                              /\ \A j \in 1..(i - 1) : j <= Len(k) /\ p[j] = k[j]
<1> DEFINE D == {i \in 1..Len(p) : i > Len(k) \/ p[i] # k[i]}
<1>1. Len(p) \in Nat /\ Len(k) \in Nat
  OBVIOUS
<1>2. D # {}
  <2>1. SUFFICES ASSUME D = {} PROVE FALSE
    OBVIOUS
  <2>2. \A i \in 1..Len(p) : i <= Len(k) /\ p[i] = k[i]
    BY <1>1, <2>1
  <2>3. Len(p) <= Len(k)
    BY <1>1, <2>2
  <2> QED
    BY <2>2, <2>3, PrefixByElement
<1>3. PICK i \in D : \A j \in D : i <= j
  <2>1. D \in SUBSET Nat
    BY <1>1
  <2> HIDE DEF D
  <2> QED
    BY <1>2, <2>1, LeastNat
<1>4. \A j \in 1..(i - 1) : j <= Len(k) /\ p[j] = k[j]
  BY <1>1, <1>3
<1> QED
  BY <1>3, <1>4

\* The upper bound of a range: at its last element it is the next scalar, before
\* that it is the prefix; behind that the prefix has only last code points.
LEMMA UpperBound ==
  ASSUME LibraryAssumption, NEW p \in Seq(Scalars)
  PROVE  LET u == PrefixUpperBound(p) IN
         /\ u = Unbounded => \A i \in 1..Len(p) : p[i] = Top
         /\ u # Unbounded =>
              \E j \in 1..Len(p) :
                /\ u \in Seq(Scalars) /\ Len(u) = j /\ p[j] < Top /\ u[j] = Successor(p[j])
                /\ \A i \in 1..(j - 1) : u[i] = p[i]
                /\ \A i \in (j + 1)..Len(p) : p[i] = Top
<1> DEFINE R == {i \in DOMAIN p : p[i] < Top}
<1>1. /\ Len(p) \in Nat /\ DOMAIN p = 1..Len(p) /\ Top \in Nat
      /\ \A i \in 1..Len(p) : p[i] \in Scalars /\ p[i] \in 0..Top
  BY DEF LibraryAssumption, Scalars
<1>2. \A i \in 1..Len(p) : i \notin R => p[i] = Top
  BY <1>1
<1>3. CASE R = {}
  <2>1. PrefixUpperBound(p) = Unbounded
    BY <1>3 DEF PrefixUpperBound
  <2> QED
    BY <1>2, <1>3, <2>1
<1>4. CASE R # {}
  <2>1. PICK j : j = Max(R)
    OBVIOUS
  <2>2. j \in R /\ \A i \in R : i <= j
    <3>1. R \in SUBSET Nat /\ Len(p) \in Nat /\ \A i \in R : i <= Len(p)
      BY <1>1
    <3> HIDE DEF R
    <3>2. Max(R) \in R /\ \A i \in R : i <= Max(R)
      BY <1>4, <3>1, MaxOfBounded
    <3> QED
      BY <2>1, <3>2
  <2>3. PrefixUpperBound(p) = Append(SubSeq(p, 1, j - 1), Successor(p[j]))
    BY <1>4, <2>1 DEF PrefixUpperBound
  <2>4. /\ SubSeq(p, 1, j - 1) \in Seq(Scalars) /\ Len(SubSeq(p, 1, j - 1)) = j - 1
        /\ \A i \in 1..(j - 1) : SubSeq(p, 1, j - 1)[i] = p[i]
    <3>1. j - 1 \in Nat /\ j - 1 <= Len(p)
      BY <1>1, <2>2
    <3>2. \A i \in 1..(j - 1) : p[i] \in Scalars
      BY <1>1, <3>1
    <3> QED
      BY <3>1, <3>2, SubSeqProperties
  <2>5. Successor(p[j]) \in Scalars
    BY <1>1, <2>2, NothingBeforeTheSuccessor
  <2>6. PICK u : u = PrefixUpperBound(p)
    OBVIOUS
  <2>7. PICK b : b = SubSeq(p, 1, j - 1)
    OBVIOUS
  <2>8. /\ u \in Seq(Scalars) /\ Len(u) = Len(b) + 1 /\ u # <<>>
        /\ \A i \in 1..Len(b) : u[i] = b[i] /\ u[Len(b) + 1] = Successor(p[j])
    <3>1. u = Append(b, Successor(p[j])) /\ b \in Seq(Scalars)
      BY <2>3, <2>4, <2>6, <2>7
    <3>2. /\ u \in Seq(Scalars) /\ Len(u) = Len(b) + 1 /\ u # <<>>
          /\ \A i \in 1..Len(b) : u[i] = b[i]
      BY <2>5, <3>1, AppendProperties
    <3> QED
      BY <2>5, <3>1, <3>2, AppendProperties
  <2>9. u[j] = Successor(p[j])
    <3>1. u = Append(b, Successor(p[j])) /\ b \in Seq(Scalars) /\ Len(b) + 1 = j
      BY <1>1, <2>2, <2>3, <2>4, <2>6, <2>7
    <3> QED
      BY <2>5, <3>1, AppendProperties
  <2>10. Len(b) = j - 1 /\ \A i \in 1..(j - 1) : b[i] = p[i]
    BY <2>4, <2>7
  <2>11. /\ j \in 1..Len(p) /\ Len(u) = j /\ p[j] < Top
         /\ \A i \in 1..(j - 1) : u[i] = p[i]
         /\ \A i \in (j + 1)..Len(p) : p[i] = Top
    <3>1. j \in 1..Len(p) /\ p[j] < Top
      BY <1>1, <2>2
    <3>2. Len(u) = j
      BY <1>1, <2>8, <2>10, <3>1
    <3>3. ASSUME NEW i \in 1..(j - 1) PROVE u[i] = p[i]
      <4>1. i \in 1..Len(b) /\ b[i] = p[i]
        BY <2>10, <3>3
      <4> QED
        BY <2>8, <4>1
    <3>4. ASSUME NEW i \in (j + 1)..Len(p) PROVE p[i] = Top
      <4>1. i \in 1..Len(p) /\ ~(i <= j)
        BY <3>1, <3>4
      <4> QED
        BY <1>2, <2>2, <4>1
    <3> QED
      BY <3>1, <3>2, <3>3, <3>4
  <2> QED
    BY <2>6, <2>8, <2>9, <2>11 DEF Unbounded
<1> QED
  BY <1>3, <1>4

\* Every key that begins with the prefix is in the range ...
LEMMA RangeHasTheKeys ==
  ASSUME LibraryAssumption, NEW p \in Seq(Scalars), NEW k \in Seq(Scalars), IsPrefix(p, k)
  PROVE  InRange(k, p)
<1>1. /\ Len(p) \in Nat /\ Len(k) \in Nat
      /\ Len(p) <= Len(k) /\ \A i \in 1..Len(p) : p[i] = k[i]
  BY PrefixByElement
<1>2. \A i \in 1..Len(k) : k[i] \in Nat
  BY DEF Scalars, LibraryAssumption
<1>3. ~Precedes(k, p)
  BY <1>1, <1>2, PrecedesByElement
<1>4. ASSUME PrefixUpperBound(p) # Unbounded PROVE Precedes(k, PrefixUpperBound(p))
  <2>1. PICK u : u = PrefixUpperBound(p)
    OBVIOUS
  <2>2. PICK j \in 1..Len(p) :
                /\ u \in Seq(Scalars) /\ Len(u) = j /\ p[j] < Top /\ u[j] = Successor(p[j])
                /\ \A i \in 1..(j - 1) : u[i] = p[i]
    BY <1>4, <2>1, UpperBound
  <2>3. p[j] \in Scalars
    OBVIOUS
  <2>4. k[j] < u[j]
    BY <1>1, <2>2, <2>3, NothingBeforeTheSuccessor
  <2>5. \A i \in 1..(j - 1) : k[i] = u[i]
    BY <1>1, <2>2
  <2>6. j \in (1..Len(k)) \cap (1..Len(u))
    BY <1>1, <2>2
  <2>7. Precedes(k, u)
    BY <2>2, <2>4, <2>5, <2>6, PrecedesByElement
  <2> QED
    BY <2>1, <2>7
<1> QED
  BY <1>3, <1>4 DEF InRange

\* ... and no other key is.
LEMMA RangeHasNoOtherKeys ==
  ASSUME LibraryAssumption, NEW p \in Seq(Scalars), NEW k \in Seq(Scalars), ~IsPrefix(p, k),
         ~Precedes(k, p)
  PROVE  PrefixUpperBound(p) # Unbounded /\ ~Precedes(k, PrefixUpperBound(p))
<1>1. PICK i \in 1..Len(p) : /\ i > Len(k) \/ p[i] # k[i]
                             /\ \A j \in 1..(i - 1) : j <= Len(k) /\ p[j] = k[j]
  BY FirstDifference
<1>2. /\ Len(p) \in Nat /\ Len(k) \in Nat /\ Top \in Nat
      /\ \A j \in 1..Len(p) : p[j] \in Scalars /\ p[j] \in 0..Top
      /\ \A j \in 1..Len(k) : k[j] \in Scalars /\ k[j] \in 0..Top
  BY DEF Scalars, LibraryAssumption
<1>3. i <= Len(k)
  <2>1. SUFFICES ASSUME i > Len(k) PROVE FALSE
    BY <1>2
  <2>2. Len(k) < Len(p) /\ \A j \in 1..Len(k) : k[j] = p[j]
    BY <1>1, <1>2, <2>1
  <2> QED
    BY <2>2, PrecedesByElement
<1>4. p[i] < k[i]
  <2>1. ~(k[i] < p[i])
    <3>1. i \in (1..Len(k)) \cap (1..Len(p)) /\ \A j \in 1..(i - 1) : k[j] = p[j]
      BY <1>1, <1>2, <1>3
    <3> QED
      BY <3>1, PrecedesByElement
  <2> QED
    BY <1>1, <1>2, <1>3, <2>1
<1>5. PICK u : u = PrefixUpperBound(p)
  OBVIOUS
<1>6. p[i] < Top
  BY <1>2, <1>3, <1>4
<1>7. u # Unbounded
  BY <1>2, <1>5, <1>6, UpperBound
<1>8. PICK j \in 1..Len(p) :
        /\ u \in Seq(Scalars) /\ Len(u) = j /\ p[j] < Top /\ u[j] = Successor(p[j])
        /\ \A m \in 1..(j - 1) : u[m] = p[m]
        /\ \A m \in (j + 1)..Len(p) : p[m] = Top
  BY <1>5, <1>7, UpperBound
<1>9. i <= j
  BY <1>2, <1>6, <1>8
<1>10. \A m \in 1..(i - 1) : u[m] = k[m]
  BY <1>1, <1>2, <1>8, <1>9
<1>11. ~(k[i] < u[i]) /\ (i < j => u[i] # k[i])
  <2>1. CASE i < j
    BY <1>1, <1>2, <1>3, <1>4, <1>8, <2>1
  <2>2. CASE i = j
    <3>1. k[i] \in Scalars /\ p[i] \in Scalars /\ ~(k[i] <= p[i])
      BY <1>2, <1>3, <1>4
    <3> QED
      BY <1>6, <1>8, <2>2, <3>1, NothingBeforeTheSuccessor
  <2> QED
    BY <1>2, <1>8, <1>9, <2>1, <2>2
<1>12. ~Precedes(k, u)
  <2>1. SUFFICES ASSUME Precedes(k, u) PROVE FALSE
    OBVIOUS
  <2>2. \/ Len(k) < Len(u) /\ \A m \in 1..Len(k) : k[m] = u[m]
        \/ \E n \in (1..Len(k)) \cap (1..Len(u)) : k[n] < u[n] /\ \A m \in 1..(n - 1) : k[m] = u[m]
    <3>1. k \in Seq(Scalars) /\ u \in Seq(Scalars)
      BY <1>8
    <3> QED
      BY <2>1, <3>1, PrecedesByElement
  <2>3. CASE Len(k) < Len(u) /\ \A m \in 1..Len(k) : k[m] = u[m]
    BY <1>2, <1>3, <1>8, <1>11, <2>3
  <2>4. ASSUME NEW n \in (1..Len(k)) \cap (1..Len(u)), k[n] < u[n],
               \A m \in 1..(n - 1) : k[m] = u[m]
        PROVE  FALSE
    <3>1. CASE n < i
      <4>1. u[n] = k[n] /\ k[n] \in 0..Top
        BY <1>2, <1>10, <2>4, <3>1
      <4> QED
        BY <1>2, <2>4, <4>1
    <3>2. CASE n = i
      BY <1>11, <2>4, <3>2
    <3>3. CASE n > i
      <4>1. k[i] = u[i] /\ i < j
        BY <1>2, <1>8, <2>4, <3>3
      <4> QED
        BY <1>11, <4>1
    <3> QED
      BY <1>2, <3>1, <3>2, <3>3
  <2> QED
    BY <2>2, <2>3, <2>4
<1> QED
  BY <1>5, <1>7, <1>12

\* The range of keys a prefix is searched by is exact, for keys and prefixes of
\* any length and wherever the surrogates are (_prefix_upper_bound and the range
\* conditions of storage/library_index*.py).
THEOREM PrefixRange ==
  ASSUME LibraryAssumption, NEW p \in Seq(Scalars), NEW k \in Seq(Scalars)
  PROVE  InRange(k, p) <=> IsPrefix(p, k)
<1>1. IsPrefix(p, k) => InRange(k, p)
  BY RangeHasTheKeys
<1>2. ~IsPrefix(p, k) => ~InRange(k, p)
  BY RangeHasNoOtherKeys DEF InRange
<1> QED
  BY <1>1, <1>2

-----------------------------------------------------------------------------
(* ProductionLibrary: the invariant                                          *)

\* Tags are replaced as a whole and a search changes nothing, so what holds of
\* the tables is inductive as it stands, with their types.
LibraryTyped ==
  /\ tagged \in [LibraryAssets -> SUBSET LibraryTag]
  /\ usedBy \in [LibraryAssets -> SUBSET Projects]
  /\ collections \in [Collections -> LibraryQuery \cup {NoCollection}]
  /\ finding.pc \in {"rest", "collection", "rows"}

LibraryIInv == LibraryTyped /\ TagsAreCanonical

\* The tags that stay of a replacement have one spelling for each key.
LEMMA CanonicalTagsAreDistinct ==
  ASSUME NEW tags \in SUBSET LibraryTag
  PROVE  /\ CanonicalTags(tags) \in SUBSET LibraryTag
         /\ \A t, u \in CanonicalTags(tags) : t.key = u.key => t = u
<1>1. SUFFICES ASSUME NEW t \in CanonicalTags(tags), NEW u \in CanonicalTags(tags), t.key = u.key
               PROVE  t = u
  BY DEF CanonicalTags
<1>2. t.value <= u.value /\ u.value <= t.value
  BY <1>1 DEF CanonicalTags
<1>3. t \in LibraryTag /\ u \in LibraryTag
  BY DEF CanonicalTags
<1>4. t.value = u.value
  BY <1>2, <1>3 DEF LibraryTag, Spellings
<1> QED
  BY <1>1, <1>3, <1>4 DEF LibraryTag

\* Every step keeps the tables in shape.
LEMMA LibraryStepHolds ==
  ASSUME LibraryIInv, [LibraryNext]_libraryVars
  PROVE  LibraryIInv'
<1>0. LibraryTyped /\ TagsAreCanonical
  BY DEF LibraryIInv
<1>1. ASSUME NEW a \in LibraryAssets, SetTags(a) PROVE LibraryIInv'
  <2>1. PICK tags \in UNION {kSubset(n, LibraryTag) : n \in 0 .. MaxTags} :
          tagged' = [tagged EXCEPT ![a] = CanonicalTags(tags)]
    BY <1>1 DEF SetTags
  <2>2. tags \in SUBSET LibraryTag
    BY <2>1 DEF kSubset
  <2>3. PICK new : new = CanonicalTags(tags)
    OBVIOUS
  <2>4. new \in SUBSET LibraryTag /\ \A t, u \in new : t.key = u.key => t = u
    BY <2>2, <2>3, CanonicalTagsAreDistinct
  <2>5. tagged' = [tagged EXCEPT ![a] = new] /\ UNCHANGED <<usedBy, collections, finding>>
    BY <1>1, <2>1, <2>3 DEF SetTags
  <2>6. LibraryTyped'
    BY <1>0, <2>4, <2>5 DEF LibraryTyped
  <2>7. ASSUME NEW b \in LibraryAssets, NEW t \in tagged'[b], NEW u \in tagged'[b], t.key = u.key
        PROVE  t = u
    <3>1. tagged'[b] = IF b = a THEN new ELSE tagged[b]
      BY <1>0, <2>5 DEF LibraryTyped
    <3> QED
      BY <1>0, <2>4, <2>7, <3>1 DEF TagsAreCanonical
  <2> QED
    BY <2>6, <2>7 DEF LibraryIInv, TagsAreCanonical
<1>2. ASSUME NEW a \in LibraryAssets, NEW p \in Projects, UseAsset(a, p) PROVE LibraryIInv'
  <2>1. usedBy' \in [LibraryAssets -> SUBSET Projects]
    BY <1>0, <1>2 DEF UseAsset, LibraryTyped
  <2>2. UNCHANGED <<tagged, collections, finding>>
    BY <1>2 DEF UseAsset
  <2> QED
    BY <1>0, <2>1, <2>2 DEF LibraryIInv, LibraryTyped, TagsAreCanonical
<1>3. ASSUME NEW c \in Collections, NEW query \in LibraryQuery, PutCollection(c, query)
      PROVE  LibraryIInv'
  <2>1. collections' \in [Collections -> LibraryQuery \cup {NoCollection}] /\ UNCHANGED <<tagged, usedBy, finding>>
    BY <1>0, <1>3 DEF PutCollection, LibraryTyped
  <2> QED
    BY <1>0, <2>1 DEF LibraryIInv, LibraryTyped, TagsAreCanonical
<1>4. ASSUME NEW c \in Collections, DeleteCollection(c) PROVE LibraryIInv'
  <2>1. collections' \in [Collections -> LibraryQuery \cup {NoCollection}] /\ UNCHANGED <<tagged, usedBy, finding>>
    BY <1>0, <1>4 DEF DeleteCollection, LibraryTyped
  <2> QED
    BY <1>0, <2>1 DEF LibraryIInv, LibraryTyped, TagsAreCanonical
<1>5. CASE \/ \E c \in Collections : SearchCollection(c)
           \/ \E query \in LibraryQuery : SearchRows(query)
           \/ SearchStored \/ SearchTags
  <2>1. finding'.pc \in {"rest", "collection", "rows"} /\ UNCHANGED <<tagged, usedBy, collections>>
    BY <1>5 DEF SearchCollection, SearchRows, SearchStored, SearchTags
  <2> QED
    BY <1>0, <2>1 DEF LibraryIInv, LibraryTyped, TagsAreCanonical
<1>6. CASE UNCHANGED libraryVars
  BY <1>0, <1>6 DEF libraryVars, LibraryIInv, LibraryTyped, TagsAreCanonical
<1> QED
  BY <1>1, <1>2, <1>3, <1>4, <1>5, <1>6 DEF LibraryNext

\* Whatever is tagged, used, collected and searched, and however long keys are: a
\* key is on an asset once, and a search by prefix answers with exactly the assets
\* that have a tag beginning with it (storage/library_index*.py).
THEOREM LibrarySafety == LibrarySpec => []LibraryInv
<1>1. LibraryInit => LibraryIInv
  BY DEF LibraryInit, LibraryIInv, LibraryTyped, TagsAreCanonical
<1>2. LibraryIInv /\ [LibraryNext]_libraryVars => LibraryIInv'
  BY LibraryStepHolds
<1>3. PrefixIsExact
  <2>1. ASSUME NEW k \in KeysUpTo(MaxKey + 2) PROVE k \in Seq(Scalars)
    <3>1. PICK n \in 1..(MaxKey + 2) : k \in [1..n -> Scalars]
      BY <2>1 DEF KeysUpTo
    <3>2. n \in Nat
      BY <3>1, LibraryAssumption DEF LibraryAssumption
    <3> QED
      BY <3>1, <3>2, IsASeq
  <2>2. ASSUME NEW k \in KeysUpTo(MaxKey + 2), NEW p \in KeysUpTo(MaxKey + 2)
        PROVE  InRange(k, p) <=> IsPrefix(p, k)
    BY <2>1, PrefixRange, LibraryAssumption
  <2> QED
    BY <2>2 DEF PrefixIsExact
<1>4. LibraryIInv => LibraryInv
  BY <1>3 DEF LibraryIInv, LibraryInv, LibraryTyped, LibraryTypeOK
<1> QED
  BY <1>1, <1>2, <1>4, PTL DEF LibrarySpec

-----------------------------------------------------------------------------
(* Timeline: the schedule                                                    *)

Times == [start : Nat, end : Nat, in : Nat, out : Nat]

\* What the schedule p of the scenes of reel r is: each scene begins where its
\* transition takes over from the one before, and has room for both transitions.
Follows(p, r) ==
  /\ p \in [DOMAIN r -> Times]
  /\ \A i \in DOMAIN r : p[i].end = p[i].start + r[i].length /\ p[i].in + p[i].out <= r[i].length
  /\ p[1].start = 0 /\ p[1].in = 0 /\ p[Len(r)].out = 0
  /\ \A i \in DOMAIN r : i # 1 =>
       p[i - 1].out = p[i].in /\ p[i].start = p[i - 1].end - p[i].in

\* A reel is a sequence of scenes, at least one, each of some length.
LEMMA ReelShape ==
  ASSUME NEW r \in Reels
  PROVE  /\ Len(r) \in Nat /\ Len(r) >= 1 /\ DOMAIN r = 1..Len(r) /\ r \in [1..Len(r) -> Shot]
         /\ \A i \in DOMAIN r : /\ r[i] \in Shot /\ r[i].length \in Nat /\ r[i].length >= 1
                                /\ r[i].length <= MaxLength
                                /\ r[i].enter \in {None} \cup Nat /\ r[i].leave \in {None} \cup Nat
<1>0. MaxScenes \in Nat /\ MaxLength \in Nat
  BY TimelineAssumption
<1>1. PICK n \in 1..MaxScenes : r \in [1..n -> Shot]
  BY DEF Reels
<1>2. n \in Nat /\ n >= 1 /\ DOMAIN r = 1..n
  BY <1>0, <1>1
<1>3. Len(r) = n
  BY <1>1, <1>2
<1>4. \A x \in Shot : /\ x.length \in Nat /\ x.length >= 1 /\ x.length <= MaxLength
                      /\ x.enter \in {None} \cup Nat /\ x.leave \in {None} \cup Nat
  BY <1>0 DEF Shot, Joins
<1> QED
  BY <1>1, <1>2, <1>3, <1>4

\* The length of a join is a number, wherever it is asked for.
LEMMA JoinIsNat ==
  ASSUME NEW r \in Reels, NEW i \in 0..Len(r)
  PROVE  JoinAfter(r, i) \in Nat
<1>1. CASE i = 0 \/ i = Len(r)
  BY <1>1 DEF JoinAfter
<1>2. CASE ~(i = 0 \/ i = Len(r))
  <2>1. i \in DOMAIN r /\ i + 1 \in DOMAIN r
    BY <1>2, ReelShape
  <2>2. r[i].leave \in {None} \cup Nat /\ r[i + 1].enter \in {None} \cup Nat
    BY <2>1, ReelShape
  <2>3. JoinAfter(r, i) = Joined(r[i].leave, r[i + 1].enter)
    BY <1>2 DEF JoinAfter
  <2>4. Joined(r[i].leave, r[i + 1].enter) \in Nat
    BY <2>2 DEF Joined, Given
  <2> QED
    BY <2>3, <2>4
<1> QED
  BY <1>1, <1>2

\* The start of scene i, by the start of the one before.
StartOf(r, f) ==
  [i \in DOMAIN r |-> IF i = 1 THEN 0 ELSE f[i - 1] + r[i - 1].length - JoinAfter(r, i - 1)]

\* The recursion of _scene_schedule has a solution: a reel without one would
\* have a first scene up to which there is none, and that scene's start is
\* given by the solution before it.
LEMMA StartsExist ==
  ASSUME NEW r \in Reels
  PROVE  \E f : f = StartOf(r, f)
<1> DEFINE n == Len(r)
           Step(f, i) == IF i = 1 THEN 0 ELSE f[i - 1] + r[i - 1].length - JoinAfter(r, i - 1)
           UpTo(m) == \E f : f = [i \in 1..m |-> Step(f, i)]
           Bad == {m \in Nat : m <= n /\ ~UpTo(m)}
<1>1. n \in Nat /\ DOMAIN r = 1..n
  BY ReelShape
<1>2. UpTo(0)
  <2> DEFINE f == [i \in 1..0 |-> 0]
  <2>1. 1..0 = {}
    OBVIOUS
  <2>2. f = [i \in 1..0 |-> Step(f, i)]
    BY <2>1
  <2> QED
    BY <2>2
<1>3. ASSUME NEW m \in Nat, UpTo(m)
      PROVE  UpTo(m + 1)
  <2>1. PICK f : f = [i \in 1..m |-> Step(f, i)]
    BY <1>3
  <2> DEFINE g == [i \in 1..(m + 1) |-> IF i <= m THEN f[i] ELSE Step(f, i)]
  <2>2. ASSUME NEW i \in 1..(m + 1)
        PROVE  g[i] = Step(g, i)
    <3>1. i # 1 => i - 1 \in 1..m /\ i - 1 \in 1..(m + 1) /\ i - 1 <= m
      OBVIOUS
    <3>2. i # 1 => g[i - 1] = f[i - 1]
      BY <3>1
    <3>3. Step(g, i) = Step(f, i)
      BY <3>2
    <3>4. i <= m => f[i] = Step(f, i)
      <4>1. SUFFICES ASSUME i <= m PROVE f[i] = Step(f, i)
        OBVIOUS
      <4>2. i \in 1..m
        BY <4>1
      <4> HIDE DEF Step
      <4> QED
        BY <2>1, <4>2
    <3>5. g[i] = IF i <= m THEN f[i] ELSE Step(f, i)
      OBVIOUS
    <3> QED
      BY <3>3, <3>4, <3>5
  <2>3. g = [i \in 1..(m + 1) |-> g[i]]
    OBVIOUS
  <2> HIDE DEF g, Step
  <2>4. g = [i \in 1..(m + 1) |-> Step(g, i)]
    BY <2>2, <2>3
  <2> QED
    BY <2>4
<1> HIDE DEF UpTo
<1>4. Bad = {}
  <2>1. SUFFICES ASSUME Bad # {} PROVE FALSE
    OBVIOUS
  <2>2. PICK m \in Bad : \A k \in Bad : m <= k
    BY <2>1, LeastNat
  <2>3. m \in Nat /\ m # 0 /\ m <= n /\ ~UpTo(m)
    BY <1>2, <2>2
  <2>4. m - 1 \in Nat /\ m - 1 <= n /\ ~(m <= m - 1) /\ (m - 1) + 1 = m
    BY <1>1, <2>3
  <2>5. UpTo(m - 1)
    BY <2>2, <2>4
  <2> QED
    BY <1>3, <2>3, <2>4, <2>5
<1>5. UpTo(n)
  BY <1>1, <1>4
<1>6. PICK f : f = [i \in 1..n |-> Step(f, i)]
  BY <1>5 DEF UpTo
<1>7. f = StartOf(r, f)
  BY <1>1, <1>6 DEF StartOf
<1> QED
  BY <1>7

\* _scene_schedule, unfolded.
LEMMA ScheduledUnfolds ==
  ASSUME NEW r \in Reels
  PROVE  \E g : /\ g = StartOf(r, g)
                /\ Scheduled(r) = [i \in DOMAIN r |->
                     [start |-> g[i], end |-> g[i] + r[i].length,
                      in |-> JoinAfter(r, i - 1), out |-> JoinAfter(r, i)]]
<1> DEFINE g == CHOOSE start : start = [i \in DOMAIN r |->
                  IF i = 1 THEN 0 ELSE start[i - 1] + r[i - 1].length - JoinAfter(r, i - 1)]
           P(h) == h = StartOf(r, h)
<1>1. \E f : P(f)
  BY StartsExist
<1>2. g = CHOOSE h : P(h)
  BY DEF StartOf
<1>3. Scheduled(r) = [i \in DOMAIN r |->
         [start |-> g[i], end |-> g[i] + r[i].length,
          in |-> JoinAfter(r, i - 1), out |-> JoinAfter(r, i)]]
  BY DEF Scheduled
<1> HIDE DEF P, g
<1>4. P(g)
  BY <1>1, <1>2, Zenon
<1>5. g = StartOf(r, g)
  BY <1>4 DEF P
<1> QED
  BY <1>3, <1>5

\* What compile_timeline schedules is a schedule: no start lies before the film.
LEMMA ScheduleFollows ==
  ASSUME NEW r \in Reels, Schedulable(r)
  PROVE  Follows(Scheduled(r), r)
<1> DEFINE n == Len(r)
           J(i) == JoinAfter(r, i)
<1>1. /\ n \in Nat /\ n >= 1 /\ DOMAIN r = 1..n
      /\ \A i \in 1..n : r[i].length \in Nat
  BY ReelShape
<1>2. \A i \in 0..n : J(i) \in Nat
  BY JoinIsNat
<1>3. J(0) = 0 /\ J(n) = 0
  BY DEF JoinAfter
<1>4. \A i \in 1..n : J(i - 1) + J(i) <= r[i].length
  BY <1>1 DEF Schedulable
<1>5. \A i \in 1..n : i - 1 \in 0..n /\ i \in 0..n
  BY <1>1
<1> HIDE DEF J
<1>6. PICK g : /\ g = StartOf(r, g)
               /\ Scheduled(r) = [i \in DOMAIN r |->
                    [start |-> g[i], end |-> g[i] + r[i].length, in |-> J(i - 1), out |-> J(i)]]
  BY ScheduledUnfolds DEF J
<1>7. \A i \in 1..n : g[i] = IF i = 1 THEN 0 ELSE g[i - 1] + r[i - 1].length - J(i - 1)
  <2>1. \A i \in DOMAIN r : StartOf(r, g)[i] = IF i = 1 THEN 0 ELSE g[i - 1] + r[i - 1].length - J(i - 1)
    BY DEF StartOf, J
  <2> QED
    BY <1>1, <1>6, <2>1
<1>8. \A i \in 1..n : g[i] \in Nat
  <2> DEFINE Bad == {i \in 1..n : g[i] \notin Nat}
  <2>1. SUFFICES ASSUME Bad # {} PROVE FALSE
    OBVIOUS
  <2>2. PICK i \in Bad : \A k \in Bad : i <= k
    <3>1. Bad \in SUBSET Nat
      BY <1>1
    <3> QED
      BY <2>1, <3>1, LeastNat
  <2>3. i \in 1..n /\ i # 1 /\ g[i] \notin Nat
    BY <1>7, <2>2
  <2>4. i - 1 \in 1..n /\ ~(i <= i - 1)
    BY <1>1, <2>3
  <2>5. g[i - 1] \in Nat
    BY <2>2, <2>4
  <2>6. /\ r[i - 1].length \in Nat /\ J(i - 1) \in Nat /\ J(i - 1 - 1) \in Nat
        /\ J(i - 1 - 1) + J(i - 1) <= r[i - 1].length
    BY <1>1, <1>2, <1>4, <1>5, <2>4
  <2>7. g[i - 1] + r[i - 1].length - J(i - 1) \in Nat
    BY <2>5, <2>6
  <2> QED
    BY <1>7, <2>3, <2>7
<1> DEFINE p == Scheduled(r)
<1>9. /\ DOMAIN p = 1..n /\ p = [i \in 1..n |-> p[i]]
      /\ \A i \in 1..n : /\ p[i] = [start |-> g[i], end |-> g[i] + r[i].length, in |-> J(i - 1), out |-> J(i)]
  BY <1>1, <1>6
<1> HIDE DEF p
<1>10. \A i \in 1..n : /\ p[i].start = g[i] /\ p[i].end = g[i] + r[i].length
                       /\ p[i].in = J(i - 1) /\ p[i].out = J(i)
                       /\ p[i] \in Times
  <2>1. SUFFICES ASSUME NEW i \in 1..n
                 PROVE  /\ p[i].start = g[i] /\ p[i].end = g[i] + r[i].length
                        /\ p[i].in = J(i - 1) /\ p[i].out = J(i)
                        /\ p[i] \in Times
    OBVIOUS
  <2>2. g[i] \in Nat /\ r[i].length \in Nat /\ J(i - 1) \in Nat /\ J(i) \in Nat
    BY <1>1, <1>2, <1>5, <1>8
  <2>3. g[i] + r[i].length \in Nat
    BY <2>2
  <2> QED
    BY <1>9, <2>2, <2>3 DEF Times
<1>11. p \in [DOMAIN r -> Times]
  BY <1>1, <1>9, <1>10
<1>12. \A i \in DOMAIN r : p[i].end = p[i].start + r[i].length /\ p[i].in + p[i].out <= r[i].length
  BY <1>1, <1>4, <1>10
<1>13. p[1].start = 0 /\ p[1].in = 0 /\ p[Len(r)].out = 0
  BY <1>1, <1>3, <1>7, <1>10
<1>14. \A i \in DOMAIN r : i # 1 => p[i - 1].out = p[i].in /\ p[i].start = p[i - 1].end - p[i].in
  <2>1. SUFFICES ASSUME NEW i \in 1..n, i # 1
                 PROVE  p[i - 1].out = p[i].in /\ p[i].start = p[i - 1].end - p[i].in
    BY <1>1
  <2>2. i - 1 \in 1..n /\ i - 1 \in DOMAIN r /\ i - 1 \in 0..n
    BY <1>1, <2>1
  <2>3. /\ p[i - 1].out = J(i - 1) /\ p[i - 1].end = g[i - 1] + r[i - 1].length
    BY <1>10, <2>2
  <2>4. p[i].in = J(i - 1) /\ p[i].start = g[i]
    BY <1>10
  <2>5. g[i] = g[i - 1] + r[i - 1].length - J(i - 1)
    BY <1>7, <2>1
  <2>6. p[i - 1].out = p[i].in
    BY <2>3, <2>4
  <2>7. p[i].start = p[i - 1].end - p[i].in
    <3>1. g[i - 1] \in Nat /\ r[i - 1].length \in Nat /\ J(i - 1) \in Nat
      BY <1>1, <1>2, <1>8, <2>2
    <3>2. g[i] = (g[i - 1] + r[i - 1].length) - J(i - 1)
      BY <2>5, <3>1
    <3> QED
      BY <2>3, <2>4, <3>2
  <2> QED
    BY <2>6, <2>7
<1> QED
  BY <1>11, <1>12, <1>13, <1>14 DEF Follows, p

\* Scenes begin and end in their order, and none is on screen together with the
\* one after the next.
LEMMA ScenesInOrder ==
  ASSUME NEW r \in Reels, NEW p, Follows(p, r)
  PROVE  \A i, j \in DOMAIN r :
           /\ i <= j => p[i].start <= p[j].start /\ p[i].end <= p[j].end
           /\ i + 1 < j => p[i].end <= p[j].start
<1> DEFINE n == Len(r)
<1>1. /\ n \in Nat /\ n >= 1 /\ DOMAIN r = 1..n
      /\ \A i \in 1..n : r[i].length \in Nat
  BY ReelShape
<1>2. \A i \in 1..n : /\ p[i].start \in Nat /\ p[i].end \in Nat /\ p[i].in \in Nat /\ p[i].out \in Nat
                      /\ p[i].end = p[i].start + r[i].length /\ p[i].in + p[i].out <= r[i].length
  BY <1>1 DEF Follows, Times
<1>3. \A i \in 1..n : i # 1 => p[i - 1].out = p[i].in /\ p[i].start = p[i - 1].end - p[i].in
  BY <1>1 DEF Follows
<1>4. \A i \in 1..n : i # 1 =>
        /\ i - 1 \in 1..n
        /\ p[i - 1].start <= p[i].start /\ p[i - 1].end <= p[i].end
  <2>1. SUFFICES ASSUME NEW i \in 1..n, i # 1
                 PROVE  /\ i - 1 \in 1..n
                        /\ p[i - 1].start <= p[i].start /\ p[i - 1].end <= p[i].end
    OBVIOUS
  <2>2. i - 1 \in 1..n
    BY <1>1, <2>1
  <2>3. p[i - 1].out = p[i].in /\ p[i].start = p[i - 1].end - p[i].in
    BY <1>3, <2>1
  <2> DEFINE a == p[i - 1]
             b == p[i]
             l == r[i - 1].length
             m == r[i].length
  <2>4. /\ a.start \in Nat /\ a.end \in Nat /\ a.in \in Nat /\ a.out \in Nat /\ l \in Nat
        /\ a.end = a.start + l /\ a.in + a.out <= l
    BY <1>1, <1>2, <2>2
  <2>5. /\ b.start \in Nat /\ b.end \in Nat /\ b.in \in Nat /\ b.out \in Nat /\ m \in Nat
        /\ b.end = b.start + m /\ b.in + b.out <= m
    BY <1>1, <1>2
  <2>6. a.out = b.in /\ b.start = a.end - b.in
    BY <2>3
  <2> HIDE DEF a, b, l, m
  <2>7. b.start = a.start + l - a.out /\ b.end = a.end - b.in + m
    BY <2>4, <2>5, <2>6
  <2>8. a.start <= b.start
    BY <2>4, <2>7
  <2>9. a.end <= b.end
    <3>1. b.in <= m
      BY <2>5
    <3>2. b.end = (a.end - b.in) + m
      BY <2>7
    <3> QED
      BY SMTT(30), <2>4, <2>5, <3>1, <3>2
  <2> QED
    BY <2>2, <2>8, <2>9 DEF a, b
<1>5. ASSUME NEW i \in 1..n
      PROVE  \A j \in 1..n : i <= j => p[i].start <= p[j].start /\ p[i].end <= p[j].end
  <2> DEFINE Bad == {j \in 1..n : i <= j /\ ~(p[i].start <= p[j].start /\ p[i].end <= p[j].end)}
  <2>1. SUFFICES ASSUME Bad # {} PROVE FALSE
    OBVIOUS
  <2>2. PICK j \in Bad : \A k \in Bad : j <= k
    <3>1. Bad \in SUBSET Nat
      BY <1>1
    <3> QED
      BY <2>1, <3>1, LeastNat
  <2>3. j \in 1..n /\ i <= j /\ i # j /\ j # 1
    BY <1>2, <2>2
  <2>4. j - 1 \in 1..n /\ i <= j - 1 /\ ~(j <= j - 1)
    BY <1>1, <2>3
  <2>5. p[i].start <= p[j - 1].start /\ p[i].end <= p[j - 1].end
    BY <2>2, <2>4
  <2>6. p[j - 1].start <= p[j].start /\ p[j - 1].end <= p[j].end
    BY <1>4, <2>3
  <2> QED
    BY <1>2, <2>2, <2>3, <2>4, <2>5, <2>6
<1>6. ASSUME NEW i \in 1..n, NEW j \in 1..n, i + 1 < j
      PROVE  p[i].end <= p[j].start
  <2>1. i + 1 \in 1..n /\ i + 2 \in 1..n /\ i + 2 <= j /\ i + 1 # 1 /\ i + 2 # 1
        /\ i + 1 - 1 = i /\ i + 2 - 1 = i + 1
    BY <1>1, <1>6
  <2>2. p[i].end = p[i + 1].start + p[i + 1].in
    <3>1. p[i + 1].start = p[i].end - p[i + 1].in
      BY <1>3, <2>1
    <3> QED
      BY <1>2, <2>1, <3>1
  <2>3. p[i + 2].start = p[i + 1].end - p[i + 1].out
    <3>1. p[i + 2 - 1].out = p[i + 2].in /\ p[i + 2].start = p[i + 2 - 1].end - p[i + 2].in
      BY <1>3, <2>1
    <3> QED
      BY <2>1, <3>1
  <2>4. p[i].end <= p[i + 2].start
    <3> DEFINE b == p[i + 1]
    <3>1. /\ b.start \in Nat /\ b.end \in Nat /\ b.in \in Nat /\ b.out \in Nat /\ r[i + 1].length \in Nat
          /\ b.end = b.start + r[i + 1].length /\ b.in + b.out <= r[i + 1].length
      BY <1>1, <1>2, <2>1
    <3>2. p[i].end = b.start + b.in /\ p[i + 2].start = b.end - b.out
      BY <2>2, <2>3
    <3> HIDE DEF b
    <3> QED
      BY <3>1, <3>2
  <2>5. p[i + 2].start <= p[j].start
    BY <1>5, <2>1
  <2> QED
    BY <1>2, <2>1, <2>4, <2>5
<1> QED
  BY <1>1, <1>5, <1>6

\* The last scene that has begun at an instant: it is on screen, and of the
\* others at most the one before.
LEMMA SceneAt ==
  ASSUME NEW r \in Reels, NEW p, Follows(p, r), NEW k \in Nat, k < p[Len(r)].end
  PROVE  \E i \in DOMAIN r :
           /\ p[i].start <= k /\ k < p[i].end
           /\ \A j \in DOMAIN r : /\ p[j].start <= k <=> j <= i
                                  /\ k < p[j].end => i <= j + 1
<1> DEFINE n == Len(r)
           Later == {j \in 1..n : ~(p[j].start <= k)}
<1>1. n \in Nat /\ n >= 1 /\ DOMAIN r = 1..n /\ 1 \in 1..n /\ n \in 1..n
  BY ReelShape
<1>2. \A i \in 1..n : p[i].start \in Nat /\ p[i].end \in Nat /\ p[i].in \in Nat /\ p[i].out \in Nat
  BY <1>1 DEF Follows, Times
<1>3. p[1].start = 0
  BY DEF Follows
<1>4. \A i, j \in 1..n : /\ i <= j => p[i].start <= p[j].start /\ p[i].end <= p[j].end
                         /\ i + 1 < j => p[i].end <= p[j].start
  BY <1>1, ScenesInOrder
<1>5. \E i \in 1..n : \A j \in 1..n : p[j].start <= k <=> j <= i
  <2>1. CASE Later = {}
    <3>1. \A j \in 1..n : p[j].start <= k /\ j <= n
      BY <1>1, <2>1
    <3> QED
      BY <1>1, <3>1
  <2>2. CASE Later # {}
    <3>1. PICK m \in Later : \A j \in Later : m <= j
      <4>1. Later \in SUBSET Nat
        BY <1>1
      <4> QED
        BY <2>2, <4>1, LeastNat
    <3>2. m \in 1..n /\ ~(p[m].start <= k) /\ m # 1
      BY <1>2, <1>3, <3>1
    <3>3. m - 1 \in 1..n
      BY <1>1, <3>2
    <3>4. ASSUME NEW j \in 1..n
          PROVE  p[j].start <= k <=> j <= m - 1
      <4>1. CASE j <= m - 1
        <5>1. ~(m <= j)
          BY <3>2, <4>1
        <5> QED
          BY <3>1, <4>1, <5>1
      <4>2. CASE ~(j <= m - 1)
        <5>1. m <= j
          BY <1>1, <3>2, <4>2
        <5>2. p[m].start <= p[j].start
          BY <1>4, <3>2, <5>1
        <5> QED
          BY <1>2, <3>2, <4>2, <5>2
      <4> QED
        BY <4>1, <4>2
    <3> QED
      BY <3>3, <3>4
  <2> QED
    BY <2>1, <2>2
<1>6. PICK i \in 1..n : \A j \in 1..n : p[j].start <= k <=> j <= i
  BY <1>5
<1>7. p[i].start <= k
  BY <1>1, <1>6
<1>8. k < p[i].end
  <2>1. CASE i = n
    BY <2>1
  <2>2. CASE i # n
    <3>1. i + 1 \in 1..n /\ ~(i + 1 <= i) /\ i + 1 # 1 /\ i + 1 - 1 = i
      <4>1. i \in Nat /\ i >= 1 /\ i < n
        BY <1>1, <2>2
      <4> HIDE DEF n
      <4> QED
        BY <1>1, <4>1
    <3>2. ~(p[i + 1].start <= k)
      BY <1>6, <3>1
    <3>3. p[i + 1].start = p[i].end - p[i + 1].in
      <4>1. p[i + 1].start = p[i + 1 - 1].end - p[i + 1].in
        BY <1>1, <3>1 DEF Follows
      <4> QED
        BY <3>1, <4>1
    <3> QED
      BY <1>2, <3>1, <3>2, <3>3
  <2> QED
    BY <2>1, <2>2
<1>9. \A j \in 1..n : k < p[j].end => i <= j + 1
  <2>1. SUFFICES ASSUME NEW j \in 1..n, k < p[j].end, ~(i <= j + 1) PROVE FALSE
    OBVIOUS
  <2>2. j + 1 < i
    BY <1>1, <2>1
  <2>3. p[j].end <= p[i].start
    BY <1>4, <2>2
  <2> QED
    BY <1>2, <1>7, <2>1, <2>3
<1> QED
  BY <1>1, <1>6, <1>7, <1>8, <1>9

\* The scenes on screen at an instant.
OnScreen(r, p, k) == {i \in DOMAIN r : p[i].start <= k /\ k < p[i].end}

\* No instant is black and no third scene shows through.
LEMMA OneOrTwoShown ==
  ASSUME NEW r \in Reels, NEW p, Follows(p, r), NEW k \in Nat, k < p[Len(r)].end
  PROVE  \/ Cardinality(OnScreen(r, p, k)) = 1
         \/ \E i \in DOMAIN r : OnScreen(r, p, k) = {i, i + 1} /\ p[i].out > 0
<1> DEFINE shown == OnScreen(r, p, k)
<1>0. \A i : i \in shown <=> i \in DOMAIN r /\ p[i].start <= k /\ k < p[i].end
  BY DEF OnScreen
<1> HIDE DEF shown
<1>1. PICK i \in DOMAIN r :
        /\ p[i].start <= k /\ k < p[i].end
        /\ \A j \in DOMAIN r : /\ p[j].start <= k <=> j <= i
                               /\ k < p[j].end => i <= j + 1
  BY SceneAt
<1>2. Len(r) \in Nat /\ DOMAIN r = 1..Len(r)
  BY ReelShape
<1>3. i \in shown /\ \A j \in shown : j = i \/ j = i - 1
  <2>1. \A j \in shown : j \in DOMAIN r /\ j <= i /\ i <= j + 1
    BY <1>0, <1>1
  <2> QED
    BY <1>0, <1>1, <1>2, <2>1
<1>4. CASE i - 1 \notin shown
  <2>1. shown = {i}
    BY <1>3, <1>4
  <2> QED
    BY <2>1, FS_Singleton DEF shown
<1>5. CASE i - 1 \in shown
  <2>1. i - 1 \in DOMAIN r /\ i # 1 /\ (i - 1) + 1 = i
    BY <1>0, <1>2, <1>5
  <2>2. shown = {i - 1, (i - 1) + 1}
    BY <1>3, <1>5, <2>1
  <2>3. p[i - 1].out > 0
    <3>1. p[i - 1].out = p[i].in /\ p[i].start = p[i - 1].end - p[i].in
      BY <2>1 DEF Follows
    <3>2. k < p[i - 1].end
      BY <1>0, <1>5
    <3>3. p[i] \in Times /\ p[i - 1] \in Times
      BY <2>1 DEF Follows
    <3>4. p[i].start \in Nat /\ p[i - 1].end \in Nat /\ p[i].in \in Nat
      BY <3>3 DEF Times
    <3> QED
      BY <1>1, <3>1, <3>2, <3>4
  <2> QED
    BY <2>1, <2>2, <2>3 DEF shown
<1> QED
  BY <1>4, <1>5

-----------------------------------------------------------------------------
(* Timeline: chapters                                                        *)

\* One chapter after the other: chapter c of the schedule p.
Span(p, c) == [start |-> p[c[1]].start, end |-> p[c[2]].end]
Told(p, ends) == {Span(p, c) : c \in Chapters(ends)}
Current(told, k) == {c \in told : c.start <= k /\ k < c.end}

\* Where chapters end, no transition lies: every instant is in one chapter.
LEMMA OneChapter ==
  ASSUME reel \in Reels, NEW p, Follows(p, reel), NEW k \in Nat, k < p[Len(reel)].end,
         NEW ends \in SUBSET DOMAIN reel, Len(reel) \in ends,
         \A j \in ends \ {Len(reel)} : p[j].end = p[j + 1].start
  PROVE  Cardinality(Current(Told(p, ends), k)) = 1
<1> DEFINE n == Len(reel)
           told == Told(p, ends)
           At == Current(told, k)
<1>0. /\ \A c \in Chapters(ends) : Span(p, c) \in told
      /\ \A s \in told : \E c \in Chapters(ends) : s = Span(p, c)
      /\ \A s : s \in At <=> s \in told /\ s.start <= k /\ k < s.end
  BY DEF Told, Current
<1> HIDE DEF told, At
<1>1. n \in Nat /\ n >= 1 /\ DOMAIN reel = 1..n /\ 1 \in 1..n /\ n \in 1..n
  BY ReelShape
<1>2. PICK i \in 1..n :
        /\ p[i].start <= k /\ k < p[i].end
        /\ \A j \in 1..n : /\ p[j].start <= k <=> j <= i
                           /\ k < p[j].end => i <= j + 1
  BY <1>1, SceneAt
<1>3. \A j \in 1..n : p[j].start \in Nat /\ p[j].end \in Nat
  BY <1>1 DEF Follows, Times
<1>4. \A j, m \in 1..n : j <= m => p[j].start <= p[m].start /\ p[j].end <= p[m].end
  BY <1>1, ScenesInOrder
<1>5. \A c : c \in Chapters(ends) <=>
        /\ c \in (1..n) \X ends
        /\ c[1] <= c[2] /\ (c[1] = 1 \/ c[1] - 1 \in ends)
        /\ \A m \in c[1]..(c[2] - 1) : m \notin ends
  BY <1>1 DEF Chapters
<1> HIDE DEF n
<1>6. \E b \in ends : i <= b /\ \A m \in ends : i <= m => b <= m
  <2> DEFINE S == {m \in ends : i <= m}
  <2>1. S \in SUBSET Nat /\ S # {}
    <3>1. n \in S
      BY <1>1, <1>2 DEF n
    <3> QED
      BY <1>1, <3>1
  <2>2. PICK b \in S : \A m \in S : b <= m
    BY <2>1, LeastNat
  <2> QED
    BY <2>2
<1>7. PICK b \in ends : i <= b /\ \A m \in ends : i <= m => b <= m
  BY <1>6
<1>8. \E a \in 1..n : /\ a <= i /\ (a = 1 \/ a - 1 \in ends)
                      /\ \A m \in ends : m < i => m < a
  <2> DEFINE S == {d \in 0..n : d <= i - 1 /\ (i - d = 1 \/ (i - d) - 1 \in ends)}
  <2>0. i \in Nat /\ i >= 1 /\ i <= n
    BY <1>1
  <2>1. S \in SUBSET Nat /\ S # {}
    <3>1. i - 1 \in 0..n /\ i - (i - 1) = 1
      BY <1>1, <2>0
    <3>2. i - 1 \in S
      BY <2>0, <3>1
    <3>3. \A d \in S : d \in Nat
      BY <1>1
    <3> HIDE DEF S
    <3> QED
      BY <3>2, <3>3
  <2>2. PICK d \in S : \A e \in S : d <= e
    BY <2>1, LeastNat
  <2> DEFINE a == i - d
  <2>3. d \in 0..n /\ d \in Nat /\ d <= i - 1 /\ (a = 1 \/ a - 1 \in ends)
    BY <1>1, <2>2
  <2>4. a \in 1..n /\ a <= i
    BY <1>1, <2>0, <2>3
  <2>5. ASSUME NEW m \in ends, m < i
        PROVE  m < a
    <3>1. m \in 1..n
      BY <1>1
    <3> DEFINE e == (i - 1) - m
    <3>2. e \in 0..n /\ e <= i - 1 /\ (i - e) - 1 = m
      BY <1>1, <2>0, <2>5, <3>1
    <3>3. e \in S
      BY <3>2
    <3>4. d <= e
      BY <2>2, <3>3
    <3> QED
      BY <1>1, <2>0, <2>3, <3>1, <3>4
  <2> HIDE DEF a
  <2> QED
    BY <2>3, <2>4, <2>5
<1>9. PICK a \in 1..n : /\ a <= i /\ (a = 1 \/ a - 1 \in ends)
                        /\ \A m \in ends : m < i => m < a
  BY <1>8
<1>10. b \in 1..n
  BY <1>1
<1>11. <<a, b>> \in Chapters(ends)
  <2> DEFINE c == <<a, b>>
  <2>1. c[1] = a /\ c[2] = b /\ c \in (1..n) \X ends
    OBVIOUS
  <2>2. a <= b
    BY <1>1, <1>7, <1>9, <1>10
  <2>3. \A m \in a..(b - 1) : m \notin ends
    <3>1. SUFFICES ASSUME NEW m \in a..(b - 1), m \in ends PROVE FALSE
      OBVIOUS
    <3>2. m \in 1..n /\ a <= m /\ m < b
      BY <1>1, <1>9, <1>10, <3>1
    <3>3. CASE m < i
      BY <1>9, <3>1, <3>2, <3>3
    <3>4. CASE ~(m < i)
      BY <1>7, <3>1, <3>2, <3>4
    <3> QED
      BY <3>3, <3>4
  <2> HIDE DEF c
  <2> QED
    BY <1>5, <1>9, <2>1, <2>2, <2>3
<1>12. ASSUME NEW c \in Chapters(ends), p[c[1]].start <= k, k < p[c[2]].end
       PROVE  c = <<a, b>>
  <2> DEFINE u == c[1]
             v == c[2]
  <2>1. /\ c = <<u, v>> /\ u \in 1..n /\ v \in ends /\ v \in 1..n
        /\ u <= v /\ (u = 1 \/ u - 1 \in ends) /\ \A m \in u..(v - 1) : m \notin ends
    <3>1. c \in (1..n) \X ends
      BY <1>5
    <3> QED
      BY <1>1, <1>5, <3>1
  <2>2. p[u].start <= k /\ k < p[v].end
    BY <1>12
  <2> HIDE DEF u, v
  <2>3. u <= i
    BY <1>2, <2>1, <2>2
  <2>4. i <= v
    <3>1. SUFFICES ASSUME ~(i <= v) PROVE FALSE
      OBVIOUS
    <3>2. v # n /\ v + 1 \in 1..n /\ v + 1 <= i
      BY <1>1, <2>1, <3>1
    <3>3. p[v].end = p[v + 1].start
      BY <2>1, <3>2 DEF n
    <3>4. p[v + 1].start <= p[i].start
      BY <1>4, <3>2
    <3> QED
      BY <1>2, <1>3, <2>1, <2>2, <3>2, <3>3, <3>4
  <2>5. v = b
    <3>1. b <= v
      BY <1>7, <2>1, <2>4
    <3>2. SUFFICES ASSUME b # v PROVE FALSE
      OBVIOUS
    <3>3. b \in u..(v - 1)
      BY <1>1, <1>7, <1>10, <2>1, <2>3, <3>1, <3>2
    <3> QED
      BY <2>1, <3>3
  <2>6. u = a
    <3>1. CASE u < a
      <4>1. a # 1 /\ a - 1 \in ends
        BY <1>9, <2>1, <3>1
      <4>2. a - 1 \in u..(v - 1)
        BY <1>1, <1>9, <2>1, <2>4, <3>1
      <4> QED
        BY <2>1, <4>1, <4>2
    <3>2. CASE a < u
      <4>1. u # 1 /\ u - 1 \in ends
        BY <1>9, <2>1, <3>2
      <4>2. u - 1 < i /\ ~(u - 1 < a)
        BY <1>9, <2>1, <2>3, <3>2
      <4> QED
        BY <1>9, <4>1, <4>2
    <3> QED
      BY <1>9, <2>1, <3>1, <3>2
  <2> QED
    BY <2>1, <2>5, <2>6
<1>13. At = {Span(p, <<a, b>>)}
  <2>1. Span(p, <<a, b>>) \in At
    <3>1. Span(p, <<a, b>>) \in told
      BY <1>0, <1>11
    <3>2. p[a].start <= p[i].start /\ p[i].end <= p[b].end
      BY <1>4, <1>7, <1>9, <1>10
    <3>3. p[a].start <= k /\ k < p[b].end
      BY <1>2, <1>3, <1>9, <1>10, <3>2
    <3> QED
      BY <1>0, <3>1, <3>3 DEF Span
  <2>2. \A s \in At : s = Span(p, <<a, b>>)
    <3>1. SUFFICES ASSUME NEW s \in At PROVE s = Span(p, <<a, b>>)
      OBVIOUS
    <3>2. PICK c \in Chapters(ends) : s = Span(p, c)
      BY <1>0
    <3>3. p[c[1]].start <= k /\ k < p[c[2]].end
      BY <1>0, <3>2 DEF Span
    <3>4. c = <<a, b>>
      BY <1>12, <3>3
    <3> QED
      BY <3>2, <3>4
  <2> QED
    BY <2>1, <2>2
<1> QED
  BY <1>13, FS_Singleton DEF At, told

-----------------------------------------------------------------------------
(* Timeline: the invariant                                                   *)

TimelineStages == {"drafted", "refused", "scheduled", "filled", "planned", "composed"}

\* The validators of one item, of the item y in a schedule p.
ItemHolds(y, p) ==
  LET within == IF y.scope = 0 THEN [start |-> 0, end |-> Last(p).end] ELSE p[y.scope]
  IN /\ y.start < y.end /\ within.start <= y.start /\ y.end <= within.end /\ y.end <= Last(p).end
     /\ y.kind = "original" => y.asset # None
     /\ y.asset = None => y.from = 0
     /\ y.asset # None /\ y.kind # "overlay" =>
          /\ HasSound(y.asset)
          /\ y.asset.length # None => y.from < y.asset.length
          /\ ~y.loop => Fits(y.from, y.end - y.start, y.asset)

\* The chapters p tells are those some admissible set of ends makes.
ChaptersHold(p) ==
  \E ends \in SUBSET DOMAIN reel :
    /\ Len(reel) \in ends
    /\ \A j \in ends \ {Len(reel)} : p.scenes[j].end = p.scenes[j + 1].start
    /\ p.chapters = Told(p.scenes, ends)

TimelineIInv ==
  /\ reel \in Reels /\ stage \in TimelineStages
  /\ plan = [scenes |-> plan.scenes, of |-> plan.of, item |-> plan.item, chapters |-> plan.chapters]
  /\ stage \notin {"drafted", "refused"} => Follows(plan.scenes, reel)
  /\ stage \in {"filled", "planned"} =>
       /\ plan.of.scene \in DOMAIN reel /\ plan.of.media \in Media
       /\ MediaIsUsable(reel[plan.of.scene], plan.of.media)
  /\ stage = "planned" => ItemHolds(plan.item, plan.scenes)
  /\ stage = "composed" => ChaptersHold(plan)

\* The last scene ends the film.
LEMMA LastEndsTheFilm ==
  ASSUME NEW r \in Reels, NEW p, Follows(p, r)
  PROVE  Len(p) = Len(r) /\ DOMAIN p = DOMAIN r /\ Last(p) = p[Len(r)]
<1>1. Len(r) \in Nat /\ DOMAIN r = 1..Len(r)
  BY ReelShape
<1>2. DOMAIN p = 1..Len(r)
  BY <1>1 DEF Follows
<1>3. Len(p) = Len(r)
  BY <1>1, <1>2
<1> QED
  BY <1>1, <1>2, <1>3 DEF Last

\* The recorded length of a file, and what is asked of it, are numbers.
LEMMA MediaShape ==
  /\ \A a \in Asset : /\ a.length \in {None} \cup Nat /\ (a.length # None => a.length >= 1)
                      /\ a.type \in {"video", "image", "audio"}
  /\ \A m \in Media : /\ m.asset \in Asset \cup {None} /\ m.from \in Nat /\ m.trim \in {None} \cup Nat
  /\ \A x \in Item : /\ x.kind \in {"overlay", "file", "original"} /\ x.start \in Nat
                     /\ x.length \in {None} \cup Nat /\ (x.length # None => x.length >= 1)
                     /\ x.asset \in Asset \cup {None}
                     /\ x.kind = "original" => x.asset = None
<1>0. MaxLength \in Nat /\ MaxSource \in Nat
  BY TimelineAssumption
<1>1. \A l \in Lengths : l \in {None} \cup Nat /\ (l # None => l >= 1)
  BY <1>0 DEF Lengths
<1>2. \A a \in Asset : /\ a.length \in {None} \cup Nat /\ (a.length # None => a.length >= 1)
                       /\ a.type \in {"video", "image", "audio"}
  BY <1>1 DEF Asset
<1>3. \A m \in Media : /\ m.asset \in Asset \cup {None} /\ m.from \in Nat /\ m.trim \in {None} \cup Nat
  BY <1>0 DEF Media
<1>4. \A x \in Item : /\ x.kind \in {"overlay", "file", "original"} /\ x.start \in Nat
                      /\ x.length \in {None} \cup Nat /\ (x.length # None => x.length >= 1)
                      /\ x.asset \in Asset \cup {None}
                      /\ x.kind = "original" => x.asset = None
  <2>1. SUFFICES ASSUME NEW x \in Item
                 PROVE  /\ x.kind \in {"overlay", "file", "original"} /\ x.start \in Nat
                        /\ x.length \in {None} \cup Nat /\ (x.length # None => x.length >= 1)
                        /\ x.asset \in Asset \cup {None}
                        /\ x.kind = "original" => x.asset = None
    OBVIOUS
  <2>2. /\ x.kind \in {"overlay", "file", "original"}
        /\ x.start \in 0..MaxLength /\ x.length \in {None} \cup (1..MaxLength)
        /\ x.asset \in Stills \cup Asset \cup {None}
        /\ x.kind = "original" => x.asset = None
    BY DEF Item
  <2>3. x.start \in Nat
    BY <1>0, <2>2
  <2>4. x.length \in {None} \cup Nat /\ (x.length # None => x.length >= 1)
    BY <1>0, <2>2
  <2>5. x.asset \in Asset \cup {None}
    BY <2>2 DEF Stills
  <2> QED
    BY <2>2, <2>3, <2>4, <2>5
<1> QED
  BY <1>2, <1>3, <1>4

\* An item that add_overlay or add_audio places passes the plan's validators.
LEMMA ItemFits ==
  ASSUME TimelineIInv, stage = "filled", NEW x \in Item, NEW i \in {0, plan.of.scene},
         NEW length, length = (IF i = 0 THEN Total ELSE reel[i].length),
         NEW from, from = (IF i = 0 THEN 0 ELSE plan.scenes[i].start),
         ItemIsUsable(x, i, length),
         NEW y, y = [kind |-> x.kind, scope |-> i, start |-> from + x.start, loop |-> x.loop,
                     end |-> from + x.start + Given(x.length, length - x.start),
                     asset |-> SourceOf(x, i).asset, from |-> SourceOf(x, i).from]
  PROVE  ItemHolds(y, plan.scenes)
<1> DEFINE p == plan.scenes
           n == Len(reel)
           l == Given(x.length, length - x.start)
           s == SourceOf(x, i)
<1>1. /\ reel \in Reels /\ Follows(p, reel)
      /\ plan.of.scene \in DOMAIN reel /\ plan.of.media \in Media
      /\ MediaIsUsable(reel[plan.of.scene], plan.of.media)
  BY DEF TimelineIInv
<1>2. /\ n \in Nat /\ n >= 1 /\ DOMAIN reel = 1..n /\ n \in 1..n
      /\ \A j \in 1..n : reel[j].length \in Nat /\ reel[j].length >= 1
  BY <1>1, ReelShape
<1>3. Last(p) = p[n] /\ Total = p[n].end
  BY <1>1, LastEndsTheFilm DEF Total
<1>4. \A j \in 1..n : p[j].start \in Nat /\ p[j].end \in Nat /\ p[j].end = p[j].start + reel[j].length
  BY <1>1, <1>2 DEF Follows, Times
<1>5. i = 0 \/ (i \in 1..n /\ i # 0 /\ i = plan.of.scene)
  BY <1>1, <1>2
<1>6. /\ length \in Nat /\ from \in Nat /\ from + length <= p[n].end
      /\ i # 0 => from = p[i].start /\ from + length = p[i].end
  <2>1. CASE i = 0
    BY <1>2, <1>3, <1>4, <2>1
  <2>2. CASE i # 0
    <3>1. p[i].end <= p[n].end
      <4>1. i \in DOMAIN reel /\ n \in DOMAIN reel /\ i <= n
        BY <1>2, <1>5, <2>2
      <4> QED
        BY <1>1, <4>1, ScenesInOrder
    <3>2. length = reel[i].length /\ from = p[i].start
      BY <2>2
    <3> QED
      BY <1>2, <1>4, <1>5, <2>2, <3>1, <3>2
  <2> QED
    BY <2>1, <2>2
<1>7. /\ x.kind \in {"overlay", "file", "original"} /\ x.start \in Nat
      /\ x.length \in {None} \cup Nat /\ (x.length # None => x.length >= 1)
      /\ x.asset \in Asset \cup {None}
  BY MediaShape
<1>8. x.start < length /\ x.start + l <= length
  BY DEF ItemIsUsable, InScope
<1>9. l \in Nat /\ l >= 1
  <2>1. CASE x.length = None
    <3>1. l = length - x.start
      BY <2>1 DEF Given
    <3> HIDE DEF l
    <3> QED
      BY <1>6, <1>7, <1>8, <3>1
  <2>2. CASE x.length # None
    <3>1. l = x.length
      BY <2>2 DEF Given
    <3> HIDE DEF l
    <3> QED
      BY <1>7, <2>2, <3>1
  <2> QED
    BY <2>1, <2>2
<1>10. /\ x.kind = "original" => i # 0 /\ s.asset # None
       /\ x.kind # "overlay" /\ s.asset # None =>
            HasSound(s.asset) /\ (x.loop \/ Fits(s.from, l, s.asset))
  <2>1. CASE x.kind = "overlay"
    BY <2>1
  <2>2. CASE x.kind = "original"
    <3>1. ~(i = 0 \/ s.asset = None)
      BY <2>2 DEF ItemIsUsable
    <3>2. s.asset # None => HasSound(s.asset) /\ (x.loop \/ Fits(s.from, l, s.asset))
      BY <2>2, <3>1 DEF ItemIsUsable
    <3> QED
      BY <3>1, <3>2
  <2>3. CASE x.kind = "file"
    <3>1. s.asset # None => HasSound(s.asset) /\ (x.loop \/ Fits(s.from, l, s.asset))
      BY <2>3 DEF ItemIsUsable
    <3> QED
      BY <2>3, <3>1
  <2> QED
    BY <1>7, <2>1, <2>2, <2>3
<1>11. x.kind # "original" => s.asset = x.asset /\ s.from = 0
  BY DEF SourceOf
<1>12. x.kind = "original" =>
         s.asset = plan.of.media.asset /\ s.from = plan.of.media.from + x.start
  BY DEF SourceOf
<1> HIDE DEF l, s
<1>13. s.asset # None /\ x.kind # "overlay" /\ s.asset.length # None => s.from < s.asset.length
  <2>1. SUFFICES ASSUME s.asset # None, x.kind # "overlay", s.asset.length # None
                 PROVE  s.from < s.asset.length
    OBVIOUS
  <2>2. CASE x.kind # "original"
    <3>1. s.asset \in Asset /\ s.from = 0
      BY <1>7, <1>11, <2>1, <2>2
    <3>2. s.asset.length \in Nat /\ s.asset.length >= 1
      BY <2>1, <3>1, MediaShape
    <3> QED
      BY <3>1, <3>2
  <2>3. CASE x.kind = "original"
    <3> DEFINE m == plan.of.media
               a == m.asset
               wanted == Given(m.trim, reel[i].length)
    <3>1. i \in 1..n /\ i = plan.of.scene /\ i # 0 /\ s.asset = a /\ s.from = m.from + x.start
      BY <1>5, <1>10, <1>12, <2>3
    <3>2. a # None /\ a \in Asset /\ m.from \in Nat /\ m.trim \in {None} \cup Nat
      BY <1>1, <2>1, <3>1, MediaShape
    <3>3. a.type # "image"
      BY <1>10, <2>1, <2>3, <3>1 DEF HasSound
    <3>4. wanted >= reel[i].length /\ Fits(m.from, wanted, a)
      BY <1>1, <3>1, <3>2, <3>3 DEF MediaIsUsable
    <3>5. a.length \in Nat /\ m.from + wanted <= a.length
      BY <2>1, <3>1, <3>2, <3>4, MediaShape DEF Fits
    <3>6. wanted \in Nat
      BY <1>2, <3>1, <3>2 DEF Given
    <3>7. x.start < reel[i].length /\ reel[i].length \in Nat
      BY <1>2, <1>8, <3>1
    <3> HIDE DEF m, a, wanted
    <3>8. m.from + x.start < a.length
      BY <1>7, <3>2, <3>4, <3>5, <3>6, <3>7
    <3> QED
      BY <3>1, <3>8
  <2> QED
    BY <2>2, <2>3
<1>14. /\ y.kind = x.kind /\ y.scope = i /\ y.start = from + x.start /\ y.loop = x.loop
       /\ y.end = from + x.start + l /\ y.asset = s.asset /\ y.from = s.from
  BY DEF l, s
<1>15. /\ y.start < y.end /\ from <= y.start /\ y.end <= from + length /\ y.end <= p[n].end
       /\ y.end - y.start = l
  <2>1. p[n].end \in Nat
    BY <1>2, <1>4
  <2>2. /\ from + x.start < from + x.start + l /\ from <= from + x.start
        /\ from + x.start + l <= from + length /\ from + x.start + l <= p[n].end
        /\ (from + x.start + l) - (from + x.start) = l
    <3> DEFINE u == x.start
               m == p[n].end
    <3>1. /\ u \in Nat /\ m \in Nat /\ from \in Nat /\ length \in Nat /\ l \in Nat /\ l >= 1
          /\ u + l <= length /\ from + length <= m
      BY <1>6, <1>7, <1>8, <1>9, <2>1
    <3> HIDE DEF u, m
    <3>2. /\ from + u < from + u + l /\ from <= from + u
          /\ from + u + l <= from + length /\ from + u + l <= m
          /\ (from + u + l) - (from + u) = l
      <4>1. from + u < from + u + l /\ from <= from + u
        BY <3>1, SMT
      <4>2. from + u + l <= from + length /\ from + u + l <= m
        BY <3>1, SMT
      <4>3. (from + u + l) - (from + u) = l
        BY <3>1, SMT
      <4> QED
        BY <4>1, <4>2, <4>3
    <3> QED
      BY <3>2 DEF u, m
  <2> QED
    BY <1>14, <2>2, Zenon
<1> DEFINE within == IF y.scope = 0 THEN [start |-> 0, end |-> Last(p).end] ELSE p[y.scope]
<1>16. within.start = from /\ from + length = within.end
  <2>1. CASE i = 0
    <3>1. within.start = 0 /\ within.end = p[n].end
      BY <1>3, <1>14, <2>1
    <3>2. from = 0 /\ length = p[n].end /\ length \in Nat
      BY <1>3, <1>6, <2>1
    <3> HIDE DEF within
    <3> QED
      BY <3>1, <3>2
  <2>2. CASE i # 0
    BY <1>6, <1>14, <2>2
  <2> QED
    BY <2>1, <2>2
<1>17. y.asset = None => y.from = 0
  BY <1>10, <1>11, <1>14
<1>18. y.kind = "original" => y.asset # None
  BY <1>10, <1>14
<1>19. y.asset # None /\ y.kind # "overlay" =>
         /\ HasSound(y.asset)
         /\ y.asset.length # None => y.from < y.asset.length
         /\ ~y.loop => Fits(y.from, y.end - y.start, y.asset)
  BY <1>10, <1>13, <1>14, <1>15
<1> QED
  BY <1>3, <1>15, <1>16, <1>17, <1>18, <1>19 DEF ItemHolds

\* A schedule depends on the lengths of the scenes alone.
LEMMA FollowsByLength ==
  ASSUME NEW r \in Reels, NEW q, DOMAIN q = DOMAIN r, Len(q) = Len(r),
         \A i \in DOMAIN r : q[i].length = r[i].length,
         NEW p, Follows(p, r)
  PROVE  Follows(p, q)
  BY DEF Follows

LEMMA TimelineInitHolds ==
  ASSUME TimelineInit
  PROVE  TimelineIInv
<1>1. reel \in Reels /\ plan = NoPlan /\ stage = "drafted"
  BY DEF TimelineInit
<1>2. plan = [scenes |-> plan.scenes, of |-> plan.of, item |-> plan.item, chapters |-> plan.chapters]
  BY <1>1 DEF NoPlan
<1> QED
  BY <1>1, <1>2 DEF TimelineIInv, TimelineStages

LEMMA ScheduleStep ==
  ASSUME TimelineIInv, Schedule
  PROVE  TimelineIInv'
<1>0. reel \in Reels
  BY DEF TimelineIInv
<1>1. CASE Schedulable(reel)
  <2>1. /\ stage' = "scheduled"
        /\ plan' = [plan EXCEPT !.scenes = Scheduled(reel)]
        /\ reel' = [i \in DOMAIN reel |-> [reel[i] EXCEPT !.enter = None, !.leave = None]]
    BY <1>1 DEF Schedule
  <2> DEFINE n == Len(reel)
             q == [i \in DOMAIN reel |-> [reel[i] EXCEPT !.enter = None, !.leave = None]]
  <2>2. /\ n \in Nat /\ DOMAIN reel = 1..n /\ reel \in [1..n -> Shot]
        /\ \A i \in DOMAIN reel : reel[i] \in Shot
    BY <1>0, ReelShape
  <2>3. \A i \in DOMAIN reel : q[i] \in Shot /\ q[i].length = reel[i].length
    <3>1. SUFFICES ASSUME NEW i \in DOMAIN reel
                   PROVE  q[i] \in Shot /\ q[i].length = reel[i].length
      OBVIOUS
    <3>2. reel[i] \in Shot /\ None \in Joins
      BY <2>2 DEF Joins
    <3>3. q[i] = [reel[i] EXCEPT !.enter = None, !.leave = None]
      OBVIOUS
    <3> QED
      BY <3>2, <3>3 DEF Shot
  <2>4. DOMAIN q = 1..n /\ q \in [1..n -> Shot]
    <3>1. DOMAIN q = 1..n /\ q = [i \in 1..n |-> q[i]]
      BY <2>2
    <3> HIDE DEF q
    <3> QED
      BY <2>2, <2>3, <3>1
  <2>5. q \in Reels
    <3>1. PICK m \in 1..MaxScenes : reel \in [1..m -> Shot]
      BY <1>0 DEF Reels
    <3>2. 1..m = 1..n
      BY <2>2, <3>1
    <3> HIDE DEF q
    <3>3. q \in [1..m -> Shot]
      BY <2>4, <3>2
    <3> QED
      BY <3>1, <3>3 DEF Reels
  <2>6. Len(q) = n
    <3> HIDE DEF q
    <3> QED
      BY <2>2, <2>4
  <2>7. Follows(Scheduled(reel), reel)
    BY <1>0, <1>1, ScheduleFollows
  <2>8. reel' = q
    BY <2>1
  <2> HIDE DEF q
  <2>9. Follows(Scheduled(reel), q)
    BY <1>0, <2>2, <2>3, <2>4, <2>6, <2>7, FollowsByLength
  <2>10. plan' = [scenes |-> Scheduled(reel), of |-> plan.of, item |-> plan.item, chapters |-> plan.chapters]
    BY <2>1 DEF TimelineIInv
  <2>11. plan'.scenes = Scheduled(reel)
         /\ plan' = [scenes |-> plan'.scenes, of |-> plan'.of, item |-> plan'.item, chapters |-> plan'.chapters]
    BY <2>10
  <2>12. Follows(plan.scenes, reel)'
    BY <2>8, <2>9, <2>11 DEF Follows
  <2> QED
    BY <2>1, <2>5, <2>8, <2>11, <2>12 DEF TimelineIInv, TimelineStages
<1>2. CASE ~Schedulable(reel)
  <2>1. stage' = "refused" /\ UNCHANGED <<reel, plan>>
    BY <1>2 DEF Schedule
  <2> QED
    BY <2>1 DEF TimelineIInv, TimelineStages
<1> QED
  BY <1>1, <1>2

\* A refusal after the schedule keeps the invariant.
LEMMA RefusedHolds ==
  ASSUME TimelineIInv, stage' = "refused", UNCHANGED <<reel, plan>>
  PROVE  TimelineIInv'
  BY DEF TimelineIInv, TimelineStages

LEMMA PlanMediaStep ==
  ASSUME TimelineIInv, PlanMedia
  PROVE  TimelineIInv'
<1>1. PICK i \in DOMAIN reel, m \in Media :
        /\ stage = "scheduled"
        /\ IF MediaIsUsable(reel[i], m)
           THEN stage' = "filled" /\ plan' = [plan EXCEPT !.of = [scene |-> i, media |-> m]]
           ELSE stage' = "refused" /\ UNCHANGED plan
        /\ UNCHANGED reel
  BY DEF PlanMedia
<1>2. CASE MediaIsUsable(reel[i], m)
  <2>1. stage' = "filled" /\ reel' = reel
        /\ plan' = [scenes |-> plan.scenes, of |-> [scene |-> i, media |-> m],
                    item |-> plan.item, chapters |-> plan.chapters]
    BY <1>1, <1>2 DEF TimelineIInv
  <2>2. /\ plan'.scenes = plan.scenes /\ plan'.of.scene = i /\ plan'.of.media = m
        /\ plan' = [scenes |-> plan'.scenes, of |-> plan'.of, item |-> plan'.item, chapters |-> plan'.chapters]
    BY <2>1
  <2>3. reel \in Reels /\ Follows(plan.scenes, reel)
    BY <1>1 DEF TimelineIInv
  <2>4. Follows(plan.scenes, reel)'
    BY <2>1, <2>2, <2>3 DEF Follows
  <2>5. MediaIsUsable(reel[plan.of.scene], plan.of.media)'
    BY <1>2, <2>1, <2>2 DEF MediaIsUsable
  <2> QED
    BY <2>1, <2>2, <2>3, <2>4, <2>5 DEF TimelineIInv, TimelineStages
<1>3. CASE ~MediaIsUsable(reel[i], m)
  BY <1>1, <1>3, RefusedHolds
<1> QED
  BY <1>2, <1>3

LEMMA PlanItemStep ==
  ASSUME TimelineIInv, PlanItem
  PROVE  TimelineIInv'
<1>1. PICK x \in Item, i \in {0, plan.of.scene} :
        /\ stage = "filled"
        /\ LET length == IF i = 0 THEN Total ELSE reel[i].length
               from   == IF i = 0 THEN 0 ELSE plan.scenes[i].start
           IN IF ItemIsUsable(x, i, length)
              THEN /\ stage' = "planned"
                   /\ plan' = [plan EXCEPT !.item =
                        [kind |-> x.kind, scope |-> i, start |-> from + x.start, loop |-> x.loop,
                         end |-> from + x.start + Given(x.length, length - x.start),
                         asset |-> SourceOf(x, i).asset, from |-> SourceOf(x, i).from]]
              ELSE stage' = "refused" /\ UNCHANGED plan
        /\ UNCHANGED reel
  BY DEF PlanItem
<1> DEFINE length == IF i = 0 THEN Total ELSE reel[i].length
           from   == IF i = 0 THEN 0 ELSE plan.scenes[i].start
           y == [kind |-> x.kind, scope |-> i, start |-> from + x.start, loop |-> x.loop,
                 end |-> from + x.start + Given(x.length, length - x.start),
                 asset |-> SourceOf(x, i).asset, from |-> SourceOf(x, i).from]
<1>2. CASE ItemIsUsable(x, i, length)
  <2>1. stage' = "planned" /\ reel' = reel /\ plan' = [plan EXCEPT !.item = y]
    BY <1>1, <1>2
  <2>2. ItemHolds(y, plan.scenes)
    BY <1>1, <1>2, ItemFits
  <2> HIDE DEF y
  <2>3. plan' = [scenes |-> plan.scenes, of |-> plan.of, item |-> y, chapters |-> plan.chapters]
    BY <2>1 DEF TimelineIInv
  <2>4. /\ plan'.scenes = plan.scenes /\ plan'.of = plan.of /\ plan'.item = y
        /\ plan' = [scenes |-> plan'.scenes, of |-> plan'.of, item |-> plan'.item, chapters |-> plan'.chapters]
    BY <2>3
  <2>5. /\ reel \in Reels /\ Follows(plan.scenes, reel)
        /\ plan.of.scene \in DOMAIN reel /\ plan.of.media \in Media
        /\ MediaIsUsable(reel[plan.of.scene], plan.of.media)
    BY <1>1 DEF TimelineIInv
  <2>6. Follows(plan.scenes, reel)'
    BY <2>1, <2>4, <2>5 DEF Follows
  <2>7. MediaIsUsable(reel[plan.of.scene], plan.of.media)'
    BY <2>1, <2>4, <2>5 DEF MediaIsUsable
  <2>8. ItemHolds(plan.item, plan.scenes)'
    BY <2>2, <2>4 DEF ItemHolds
  <2> QED
    BY <2>1, <2>4, <2>5, <2>6, <2>7, <2>8 DEF TimelineIInv, TimelineStages
<1>3. CASE ~ItemIsUsable(x, i, length)
  BY <1>1, <1>3, RefusedHolds
<1> QED
  BY <1>2, <1>3

LEMMA ComposeStep ==
  ASSUME TimelineIInv, Compose
  PROVE  TimelineIInv'
<1>1. PICK ends \in SUBSET DOMAIN reel :
        /\ stage = "scheduled" /\ Len(reel) \in ends
        /\ IF ChaptersAreContiguous(ends)
           THEN /\ stage' = "composed"
                /\ plan' = [plan EXCEPT !.chapters =
                     {[start |-> plan.scenes[c[1]].start, end |-> plan.scenes[c[2]].end] : c \in Chapters(ends)}]
           ELSE stage' = "refused" /\ UNCHANGED plan
        /\ UNCHANGED reel
  BY DEF Compose
<1>2. CASE ChaptersAreContiguous(ends)
  <2> DEFINE told == Told(plan.scenes, ends)
  <2>1. stage' = "composed" /\ reel' = reel /\ plan' = [plan EXCEPT !.chapters = told]
    BY <1>1, <1>2 DEF Told, Span
  <2> HIDE DEF told
  <2>2. plan' = [scenes |-> plan.scenes, of |-> plan.of, item |-> plan.item, chapters |-> told]
    BY <2>1 DEF TimelineIInv
  <2>3. /\ plan'.scenes = plan.scenes /\ plan'.chapters = told
        /\ plan' = [scenes |-> plan'.scenes, of |-> plan'.of, item |-> plan'.item, chapters |-> plan'.chapters]
    BY <2>2
  <2>4. reel \in Reels /\ Follows(plan.scenes, reel)
    BY <1>1 DEF TimelineIInv
  <2>5. Follows(plan.scenes, reel)'
    BY <2>1, <2>3, <2>4 DEF Follows
  <2>6. \A j \in ends \ {Len(reel)} : plan.scenes[j].end = plan.scenes[j + 1].start
    BY <1>2 DEF ChaptersAreContiguous
  <2>7. ChaptersHold(plan)'
    <3>1. Chapters(ends)' = Chapters(ends)
      BY <2>1 DEF Chapters
    <3>2. plan'.chapters = Told(plan.scenes, ends)'
      BY <2>3, <3>1 DEF told, Told, Span
    <3> QED
      BY <1>1, <2>1, <2>3, <2>6, <3>2 DEF ChaptersHold, Told, Chapters, Span
  <2> QED
    BY <2>1, <2>3, <2>4, <2>5, <2>7 DEF TimelineIInv, TimelineStages
<1>3. CASE ~ChaptersAreContiguous(ends)
  BY <1>1, <1>3, RefusedHolds
<1> QED
  BY <1>2, <1>3

LEMMA TimelineStepHolds ==
  ASSUME TimelineIInv, [TimelineNext]_timelineVars
  PROVE  TimelineIInv'
<1>1. CASE Schedule
  BY <1>1, ScheduleStep
<1>2. CASE PlanMedia
  BY <1>2, PlanMediaStep
<1>3. CASE PlanItem
  BY <1>3, PlanItemStep
<1>4. CASE Compose
  BY <1>4, ComposeStep
<1>5. CASE UNCHANGED timelineVars
  BY <1>5 DEF timelineVars, TimelineIInv, TimelineStages, Follows, MediaIsUsable, ItemHolds,
              ChaptersHold, Told, Chapters, Span
<1> QED
  BY <1>1, <1>2, <1>3, <1>4, <1>5 DEF TimelineNext

\* What the plan's validators ask for follows from how the plan came about.
LEMMA PlanIsValidFollows ==
  ASSUME TimelineIInv
  PROVE  PlanIsValid
<1> DEFINE p == plan.scenes
           n == Len(reel)
<1>1. ASSUME stage \notin {"drafted", "refused"}
      PROVE  ScenesAreValid
  <2>1. reel \in Reels /\ Follows(p, reel)
    BY <1>1 DEF TimelineIInv
  <2>2. n \in Nat /\ n >= 1 /\ DOMAIN reel = 1..n
    BY <2>1, ReelShape
  <2>3. Len(p) = n /\ DOMAIN p = 1..n /\ Last(p) = p[n]
    BY <2>1, <2>2, LastEndsTheFilm
  <2>4. p[1].start = 0 /\ p[1].in = 0 /\ Last(p).out = 0
    BY <2>1, <2>3 DEF Follows
  <2>5. \A i \in DOMAIN p : p[i].in + p[i].out <= p[i].end - p[i].start
    <3>1. SUFFICES ASSUME NEW i \in 1..n
                   PROVE  p[i].in + p[i].out <= p[i].end - p[i].start
      BY <2>3
    <3>2. /\ p[i].start \in Nat /\ p[i].in + p[i].out <= reel[i].length
          /\ p[i].end = p[i].start + reel[i].length /\ reel[i].length \in Nat
      BY <2>1, <2>2, ReelShape DEF Follows, Times
    <3>3. p[i].end - p[i].start = reel[i].length
      BY <3>2
    <3> QED
      BY <3>2, <3>3
  <2>6. \A i \in 2..n : p[i - 1].out = p[i].in /\ p[i].start = p[i - 1].end - p[i].in
    <3>1. \A i \in 2..n : i \in DOMAIN reel /\ i # 1
      BY <2>2
    <3> QED
      BY <2>1, <3>1 DEF Follows
  <2> QED
    BY <2>3, <2>4, <2>5, <2>6 DEF ScenesAreValid
<1>2. ASSUME stage \in {"filled", "planned"}
      PROVE  MediaIsValid
  <2> DEFINE m == plan.of.media
             i == plan.of.scene
  <2>1. /\ reel \in Reels /\ Follows(p, reel)
        /\ i \in DOMAIN reel /\ m \in Media /\ MediaIsUsable(reel[i], m)
    BY <1>2 DEF TimelineIInv
  <2>2. p[i].end - p[i].start = reel[i].length
    <3>1. /\ p[i].start \in Nat /\ p[i].end = p[i].start + reel[i].length /\ reel[i].length \in Nat
      BY <2>1, ReelShape DEF Follows, Times
    <3> QED
      BY <3>1
  <2>3. m.asset # None /\ m.asset.type = "video" =>
          /\ Given(m.trim, reel[i].length) >= reel[i].length
          /\ Fits(m.from, Given(m.trim, reel[i].length), m.asset)
    BY <2>1 DEF MediaIsUsable
  <2> QED
    BY <2>2, <2>3 DEF MediaIsValid
<1>3. ASSUME stage = "planned"
      PROVE  ItemIsValid
  <2>1. ItemHolds(plan.item, plan.scenes)
    BY <1>3 DEF TimelineIInv
  <2> QED
    BY <2>1 DEF ItemHolds, ItemIsValid, Total
<1> QED
  BY <1>1, <1>2, <1>3 DEF PlanIsValid

LEMMA EveryInstantFollows ==
  ASSUME TimelineIInv
  PROVE  EveryInstantIsShown
<1>1. SUFFICES ASSUME stage \notin {"drafted", "refused"}, NEW k \in 0..(Total - 1)
               PROVE  LET shown == {i \in DOMAIN plan.scenes : plan.scenes[i].start <= k /\ k < plan.scenes[i].end} IN
                      /\ \/ Cardinality(shown) = 1
                         \/ \E i \in DOMAIN plan.scenes : shown = {i, i + 1} /\ plan.scenes[i].out > 0
                      /\ stage = "composed" =>
                           Cardinality({c \in plan.chapters : c.start <= k /\ k < c.end}) = 1
  BY DEF EveryInstantIsShown
<1> DEFINE p == plan.scenes
           n == Len(reel)
<1>2. reel \in Reels /\ Follows(p, reel)
  BY <1>1 DEF TimelineIInv
<1>3. DOMAIN p = DOMAIN reel /\ Total = p[n].end
  BY <1>2, LastEndsTheFilm DEF Total
<1>4. p[n].end \in Nat
  <2>1. n \in DOMAIN reel
    BY <1>2, ReelShape
  <2> QED
    BY <1>2, <2>1 DEF Follows, Times
<1>5. k \in Nat /\ k < p[Len(reel)].end
  BY <1>3, <1>4
<1>6. OnScreen(reel, p, k) = {i \in DOMAIN p : p[i].start <= k /\ k < p[i].end}
  BY <1>3 DEF OnScreen
<1>7. \/ Cardinality(OnScreen(reel, p, k)) = 1
      \/ \E i \in DOMAIN p : OnScreen(reel, p, k) = {i, i + 1} /\ p[i].out > 0
  <2> HIDE DEF p
  <2> QED
    BY <1>2, <1>3, <1>5, OneOrTwoShown
<1>8. ASSUME stage = "composed"
      PROVE  Cardinality({c \in plan.chapters : c.start <= k /\ k < c.end}) = 1
  <2>1. PICK ends \in SUBSET DOMAIN reel :
          /\ Len(reel) \in ends
          /\ \A j \in ends \ {Len(reel)} : p[j].end = p[j + 1].start
          /\ plan.chapters = Told(p, ends)
    BY <1>8 DEF TimelineIInv, ChaptersHold
  <2>2. Cardinality(Current(Told(p, ends), k)) = 1
    <3> HIDE DEF p
    <3> QED
      BY <1>2, <1>5, <2>1, OneChapter
  <2> QED
    BY <2>1, <2>2 DEF Current
<1> QED
  BY <1>6, <1>7, <1>8

\* Whatever reel, media, item and chapters compile_timeline accepts, the plan's own
\* validators accept, and every instant of the film is shown and is in one chapter.
THEOREM TimelineSafety == TimelineSpec => []TimelineInv
<1>1. TimelineInit => TimelineIInv
  BY TimelineInitHolds
<1>2. TimelineIInv /\ [TimelineNext]_timelineVars => TimelineIInv'
  BY TimelineStepHolds, TimelineAssumption
<1>3. TimelineIInv => TimelineInv
  BY PlanIsValidFollows, EveryInstantFollows DEF TimelineInv
<1> QED
  BY <1>1, <1>2, <1>3, PTL DEF TimelineSpec
=============================================================================
