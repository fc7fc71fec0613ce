--------------------------- MODULE BatchRunProofs ---------------------------
(***************************************************************************)
(* Proofs about BatchRun, for any number of items, workers, faults and       *)
(* deaths.  The invariant says what a drain may still trust of the index it  *)
(* took when it started: rows ahead of it are as the index says, except that  *)
(* a preparation that aborts may have cancelled a first attempt since.        *)
(***************************************************************************)
EXTENDS BatchRun, RenderJobsProofs, WellFoundedInduction, FiniteSetTheorems

----------------------------------------------------------------------------
(* The inductive invariant *)

Draining(w) == stage[w] \notin {"off", "index", "enter"}

\* Items whose turn in the drain has not come to an attempt of its own yet, and
\* items it is done with.
Ahead(w, i)  == \/ i > cur[w]
                \/ i = cur[w] /\ stage[w] \in {"pick", "clear", "excuse", "retire", "retry", "mark"}
Behind(w, i) == i < cur[w] \/ stage[w] \in {"publish", "settle"}

\* The lease: who drains, and that only its own run_job is running.
Seat(w) ==
  /\ stage[w] # "off" => lease = w
  /\ at[w] # "idle" => stage[w] = "render" /\ On(w) = Attempt(w)
  /\ Draining(w) => parent = "running" /\ mine[w] = runs /\ runs > 0
  /\ ~Draining(w) => cur[w] = 1

\* The index is right about an attempt, except that the preparation may have
\* held or cancelled a first attempt since.
Knows(w, j) ==
  /\ seen[w][j].claimed <=> instance[j] # 0
  /\ \/ seen[w][j].state = job[j]
     \/ j[2] = 0 /\ seen[w][j].state = "none" /\ job[j] = "batch_held"
     \/ /\ j[2] = 0 /\ seen[w][j].state \in {"none", "batch_held", "queued"}
        /\ job[j] = "cancelled" /\ receipt[j] = NoReceipts

Informed(w) ==
  /\ stage[w] = "enter" => \A j \in Jobs : Knows(w, j)
  /\ Draining(w) =>
       \A j \in Jobs :
         /\ Ahead(w, j[1]) => Knows(w, j) /\ instance[j] < mine[w]
         /\ j[2] > 0 => (seen[w][j].state = "none" <=> job[j] = "none")

\* What the place of a drain says of the attempt it is at.
AtStage(w) ==
  LET j == Attempt(w) IN
  /\ stage[w] = "clear" => View(w).state = "running"
  /\ stage[w] \in {"clear", "excuse", "retire"} => View(w).state \in {"queued", "running"} /\ View(w).claimed
  /\ stage[w] = "retire" => disk[j].failure = Excuse(w)
  /\ stage[w] = "retry" => job[j] = "failed" /\ receipt[j].failure \in Interrupted
  /\ stage[w] = "mark" => View(w).state = "queued" /\ ~View(w).claimed
  /\ stage[w] = "render" => instance[j] = mine[w] /\ receipt[j].failure \notin Interrupted
  /\ stage[w] = "render" /\ at[w] = "idle" => job[j] \in {"queued", "cancelled"}
  /\ at[w] = "returned" => job[j] = "succeeded"
  /\ at[w] = "raised" /\ faults = 0 => job[j] \notin {"queued", "running"}
  /\ stage[w] = "judge" => job[j] = "succeeded"
  /\ stage[w] = "settle" => result = Collected(w)

\* A verdict about item i by the drain r is true.
Sound(v, i, r) ==
  LET j == <<i, v.attempt>> IN
  /\ Made(j) /\ \A k \in Indices : k > v.attempt => ~Made(<<i, k>>)
  /\ v.ok => Loadable(j) /\ export[i] = r
  /\ faults = 0 => /\ job[j] \notin {"queued", "running"}
                   /\ receipt[j].failure \in Interrupted => ~disk[j].plan

Reports(w) == Draining(w) => \A i \in Items : Behind(w, i) => Sound(verdicts[w][i], i, mine[w])

\* The batch's own row and its preparation.
Phases ==
  /\ preparing = "holding" => parent = "preparing"
  /\ parent \in {"queued", "running", "succeeded"} \/ published # NoOutcome => ~Unprepared
  /\ HeldUntilCommitted
  /\ parent = "succeeded" => published # NoOutcome

Claims ==
  \A j \in Jobs :
    /\ instance[j] <= runs
    /\ job[j] = "running" => instance[j] # 0
    /\ job[j] \in {"none", "batch_held"} => instance[j] = 0
    /\ receipt[j].failure \in Interrupted => instance[j] # 0

Closed ==
  published # NoOutcome =>
    /\ result = published
    /\ parent = IF \A i \in Items : published.items[i].ok THEN "succeeded" ELSE "failed"
    /\ \A i \in Items : Sound(published.items[i], i, published.run)

BatchIInv ==
  /\ BatchTypeOK
  /\ RenderIInv
  /\ Phases
  /\ Claims
  /\ OnlyInterruptionIsRetried
  /\ Closed
  /\ \A w \in Workers : Seat(w) /\ Informed(w) /\ AtStage(w) /\ Reports(w)

----------------------------------------------------------------------------
(* The newest attempt *)

\* A nonempty set of numbers up to N has a greatest one.
LEMMA MaxExists ==
  ASSUME NEW N \in Nat, NEW S, S \subseteq 0..N, S # {}
  PROVE  \E m \in S : \A s \in S : s <= m
<1> DEFINE T == {N - s : s \in S}
<1>1. \A s \in S : s \in Nat /\ N - s \in Nat
  OBVIOUS
<1>2. T \subseteq Nat /\ T # {}
  BY <1>1
<1> DEFINE R == OpToRel(<, Nat)
<1>3. IsWellFoundedOn(R, Nat)
  BY NatLessThanWellFounded
<1>4. \A x, y \in Nat : x < y => <<x, y>> \in R
  BY DEF OpToRel
<1> HIDE DEF R
<1>5. \E x \in T : \A y \in T : ~(<<y, x>> \in R)
  BY <1>2, <1>3, WFMin
<1>6. PICK m \in S : \A y \in T : ~(<<y, N - m>> \in R)
  BY <1>5
<1>7. \A s \in S : ~(N - s < N - m)
  BY <1>1, <1>2, <1>4, <1>6
<1> QED
  BY <1>1, <1>7

\* What Newest chooses in the index of one worker.
IsTop(s, i, k) ==
  /\ k > 0 => s[<<i, k>>].state # "none"
  /\ \A n \in Indices : n > k => s[<<i, n>>].state = "none"

Top(s, i) == CHOOSE k \in Indices : IsTop(s, i, k)

\* There is one newest attempt in any index, and Top is it.
LEMMA TopIsTop ==
  ASSUME NEW s, NEW i
  PROVE  /\ Top(s, i) \in Indices /\ IsTop(s, i, Top(s, i))
         /\ \A k \in Indices : IsTop(s, i, k) => k = Top(s, i)
<1> DEFINE S == {k \in Indices : k = 0 \/ s[<<i, k>>].state # "none"}
<1>1. MaxRetry \in Nat
  BY BatchAssumption, RenderAssumption
<1>2. S \subseteq 0..MaxRetry /\ 0 \in S
  BY <1>1 DEF Indices
<1>3. PICK m \in S : \A k \in S : k <= m
  BY <1>1, <1>2, MaxExists
<1>4. m \in Indices /\ IsTop(s, i, m)
  BY <1>1, <1>3 DEF Indices, IsTop
<1>5. \A k, n \in Indices : IsTop(s, i, k) /\ IsTop(s, i, n) => k = n
  BY <1>1 DEF Indices, IsTop
<1> QED
  BY <1>4, <1>5 DEF Top

\* Newest is the newest attempt in a worker's own index.
LEMMA NewestIsTop == \A w, i : Newest(w, i) = Top(seen[w], i)
  BY DEF Newest, Top, IsTop

----------------------------------------------------------------------------
(* What holds of a drain *)

Worker(w) == Seat(w) /\ Informed(w) /\ AtStage(w) /\ Reports(w)

\* The drain's place in the batch: it holds the lease, so every other worker
\* is at rest, the batch is running and its attempt is the item's newest.
LEMMA DrainFacts ==
  ASSUME BatchIInv, NEW w \in Workers, Draining(w)
  PROVE  /\ lease = w /\ parent = "running" /\ published = NoOutcome
         /\ preparing # "holding" /\ ~Unprepared
         /\ mine[w] = runs /\ runs \in Nat /\ runs > 0
         /\ \A v \in Workers \ {w} : stage[v] = "off" /\ at[v] = "idle"
         /\ cur[w] \in Items
         /\ Attempt(w) = <<cur[w], Newest(w, cur[w])>> /\ Attempt(w) \in Jobs
         /\ Newest(w, cur[w]) \in Indices
         /\ Made(Attempt(w))
         /\ \A k \in Indices : k > Newest(w, cur[w]) => ~Made(<<cur[w], k>>)
         /\ stage[w] # "render" => at[w] = "idle"
<1> USE DEF BatchIInv
<1>1. /\ lease = w /\ parent = "running" /\ mine[w] = runs /\ runs > 0 /\ stage[w] # "off"
      /\ at[w] # "idle" => stage[w] = "render" /\ On(w) = Attempt(w)
      /\ runs \in Nat /\ cur[w] \in Items
  BY DEF Seat, Draining, BatchTypeOK
<1>2. w # Nobody
  BY RenderAssumption
<1>3. \A v \in Workers \ {w} : stage[v] = "off" /\ at[v] = "idle"
  BY <1>1 DEF Seat
<1>4. published = NoOutcome
  <2>1. published # NoOutcome => parent \in {"succeeded", "failed"}
    BY DEF Closed
  <2> QED
    BY <1>1, <2>1
<1>5. preparing # "holding" /\ ~Unprepared
  BY <1>1 DEF Phases
<1>6. Newest(w, cur[w]) \in Indices /\ IsTop(seen[w], cur[w], Newest(w, cur[w]))
  BY TopIsTop, NewestIsTop
<1>7. Attempt(w) = <<cur[w], Newest(w, cur[w])>> /\ Attempt(w) \in Jobs
  BY <1>1, <1>6, BatchAssumption DEF Attempt
<1>8. \A k \in Indices : k > 0 => (seen[w][<<cur[w], k>>].state = "none" <=> job[<<cur[w], k>>] = "none")
  <2>1. \A j \in Jobs : j[2] > 0 => (seen[w][j].state = "none" <=> job[j] = "none")
    BY DEF Informed
  <2>2. \A k \in Indices : <<cur[w], k>> \in Jobs
    BY <1>1, BatchAssumption
  <2> QED
    BY <2>1, <2>2
<1>9. Made(<<cur[w], 0>>)
  BY <1>1, <1>5 DEF Unprepared, Made
<1>10. \A k \in Indices : k > Newest(w, cur[w]) => ~Made(<<cur[w], k>>)
  BY <1>6, <1>8, RenderAssumption, BatchAssumption DEF IsTop, Made, Indices
<1>11. Made(Attempt(w))
  BY <1>6, <1>7, <1>8, <1>9, RenderAssumption, BatchAssumption DEF IsTop, Made, Indices
<1> QED
  BY <1>1, <1>3, <1>4, <1>5, <1>6, <1>7, <1>10, <1>11

\* The newest attempt stays the same while no attempt appears in the index.
LEMMA AttemptStays ==
  ASSUME NEW w, cur'[w] = cur[w],
         \A k \in Indices : seen'[w][<<cur[w], k>>].state = "none" <=> seen[w][<<cur[w], k>>].state = "none"
  PROVE  Newest(w, cur[w])' = Newest(w, cur[w]) /\ Attempt(w)' = Attempt(w)
<1>1. Newest(w, cur[w])' = Top(seen'[w], cur[w])
  BY DEF Newest, Top, IsTop
<1>2. Newest(w, cur[w]) = Top(seen[w], cur[w])
  BY NewestIsTop
<1>3. \A k \in Indices : IsTop(seen'[w], cur[w], k) <=> IsTop(seen[w], cur[w], k)
  BY DEF IsTop
<1>4. Top(seen'[w], cur[w]) = Top(seen[w], cur[w])
  BY <1>3, TopIsTop
<1> QED
  BY <1>1, <1>2, <1>4 DEF Attempt

\* A drain changes rows, files and claims of the item it is at, and of the
\* drains only its own.
Frame(w) ==
  /\ \A v \in Workers \ {w} : stage'[v] = stage[v] /\ at'[v] = at[v] /\ cur'[v] = cur[v]
  /\ UNCHANGED <<parent, published, preparing, runs, lease>>
  /\ mine'[w] = mine[w]
  /\ \A j \in Jobs : j[1] # cur[w] =>
       /\ job'[j] = job[j] /\ receipt'[j] = receipt[j] /\ disk'[j] = disk[j]
       /\ instance'[j] = instance[j] /\ seen'[w][j] = seen[w][j]
  /\ \A i \in Items \ {cur[w]} : export'[i] = export[i] /\ verdicts'[w][i] = verdicts[w][i]
  /\ \A j \in Jobs : job[j] # "none" => job'[j] # "none"
  /\ faults <= faults'

\* The batch's own row stays consistent, and a resting worker stays at rest.
LEMMA FrameKeeps ==
  ASSUME BatchIInv, NEW w \in Workers, Draining(w), Frame(w)
  PROVE  Phases' /\ Closed' /\ \A v \in Workers \ {w} : Worker(v)'
<1>1. /\ lease = w /\ parent = "running" /\ published = NoOutcome /\ preparing # "holding" /\ ~Unprepared
      /\ \A v \in Workers \ {w} : stage[v] = "off" /\ at[v] = "idle"
  BY DrainFacts
<1>2. \A i \in Items : <<i, 0>> \in Jobs
  BY BatchAssumption, RenderAssumption DEF Indices
<1>3. ~Unprepared'
  BY <1>1, <1>2 DEF Unprepared, Frame
<1>4. Phases'
  BY <1>1, <1>3 DEF Phases, HeldUntilCommitted, Frame
<1>5. Closed'
  <2>1. published' = NoOutcome
    BY <1>1 DEF Frame
  <2> QED
    BY <2>1 DEF Closed
<1>6. ASSUME NEW v \in Workers \ {w} PROVE Worker(v)'
  <2>1. stage'[v] = "off" /\ at'[v] = "idle" /\ cur'[v] = 1
    BY <1>1, <1>6 DEF Frame, BatchIInv, Seat, Draining
  <2> QED
    BY <2>1 DEF Worker, Seat, Informed, AtStage, Reports, Draining
<1> QED
  BY <1>4, <1>5, <1>6

\* Verdicts on other items stay true.
LEMMA SoundStays ==
  ASSUME BatchIInv, NEW w \in Workers, Draining(w), Frame(w), NEW i \in Items, i # cur[w],
         NEW v \in Verdict, NEW r, Sound(v, i, r)
  PROVE  Sound(v, i, r)'
<1>1. \A k \in Indices : <<i, k>> \in Jobs
  BY BatchAssumption
<1>2. v.attempt \in Indices
  BY DEF Verdict
<1>3. faults \in Nat /\ faults' >= faults /\ (faults' = 0 => faults' \in Nat)
  BY RenderAssumption DEF Frame, BatchIInv, BatchTypeOK, RenderTypeOK
<1>4. \A k \in Indices : LET j == <<i, k>> IN
        job'[j] = job[j] /\ receipt'[j] = receipt[j] /\ disk'[j] = disk[j]
  BY <1>1 DEF Frame
<1>5. export'[i] = export[i]
  BY DEF Frame
<1>6. faults' = 0 => faults = 0
  BY <1>3
<1> QED
  BY <1>2, <1>4, <1>5, <1>6 DEF Sound, Made, Loadable

\* A step that stays at the item: what is left to show is about this item.
LEMMA ContinueKeeps ==
  ASSUME BatchIInv, NEW w \in Workers, Draining(w), Frame(w), Draining(w)',
         stage[w] \notin {"publish", "settle"}, cur'[w] = cur[w], stage'[w] \notin {"publish", "settle"},
         at'[w] # "idle" => stage'[w] = "render" /\ On(w)' = Attempt(w)',
         \A k \in Indices : LET j == <<cur[w], k>> IN
           /\ Ahead(w, cur[w])' => Knows(w, j)' /\ instance'[j] < mine[w]
           /\ k > 0 => (seen'[w][j].state = "none" <=> job'[j] = "none"),
         AtStage(w)', verdicts'[w] = verdicts[w], verdicts[w] \in [Items -> Verdict]
  PROVE  Worker(w)'
<1>1. lease = w /\ parent = "running" /\ mine[w] = runs /\ runs > 0 /\ cur[w] \in Items
  BY DrainFacts
<1>2. Seat(w)'
  BY <1>1 DEF Seat, Frame, Draining
<1>3. Informed(w)'
  <2> SUFFICES ASSUME NEW j \in Jobs
               PROVE  /\ Ahead(w, j[1])' => Knows(w, j)' /\ instance'[j] < mine'[w]
                      /\ j[2] > 0 => (seen'[w][j].state = "none" <=> job'[j] = "none")
    BY DEF Informed, Draining
  <2>1. CASE j[1] = cur[w]
    <3>1. j[2] \in Indices /\ j = <<cur[w], j[2]>>
      BY <2>1, BatchAssumption
    <3> QED
      BY <2>1, <3>1 DEF Frame
  <2>2. CASE j[1] # cur[w]
    <3>1. Ahead(w, j[1])' => Ahead(w, j[1])
      BY <2>2 DEF Ahead
    <3>2. /\ Ahead(w, j[1]) => Knows(w, j) /\ instance[j] < mine[w]
          /\ j[2] > 0 => (seen[w][j].state = "none" <=> job[j] = "none")
      BY DEF BatchIInv, Informed
    <3> QED
      BY <2>2, <3>1, <3>2 DEF Frame, Knows
  <2> QED
    BY <2>1, <2>2
<1>4. Reports(w)'
  <2> SUFFICES ASSUME NEW i \in Items, Behind(w, i)' PROVE Sound(verdicts[w][i], i, mine[w])'
    BY DEF Reports
  <2>1. i # cur[w] /\ Behind(w, i)
    BY <1>1 DEF Behind, Items
  <2>2. verdicts'[w][i] = verdicts[w][i] /\ mine'[w] = mine[w] /\ verdicts[w][i] \in Verdict
    BY DEF Frame
  <2>3. Sound(verdicts[w][i], i, mine[w])
    BY <2>1 DEF BatchIInv, Reports
  <2>4. \A v \in Verdict : \A r : Sound(v, i, r) => Sound(v, i, r)'
    BY <2>1, SoundStays
  <2> QED
    BY <2>2, <2>3, <2>4 DEF Sound
<1> QED
  BY <1>2, <1>3, <1>4 DEF Worker

\* A step that ends the item with a verdict: what is left to show is that the
\* verdict is true.
LEMMA RecordKeeps ==
  ASSUME BatchIInv, NEW w \in Workers, Draining(w), Frame(w), stage[w] \notin {"publish", "settle"},
         NEW v \in Verdict, Record(w, v), at'[w] = "idle",
         NEW c \in Items, c = cur[w], Sound(v, c, mine[w])',
         \A k \in Indices : k > 0 =>
           (seen'[w][<<cur[w], k>>].state = "none" <=> job'[<<cur[w], k>>] = "none")
  PROVE  Worker(w)'
<1>1. /\ lease = w /\ parent = "running" /\ mine[w] = runs /\ runs > 0 /\ cur[w] \in Items
      /\ NItems \in Nat /\ MaxRetry \in Nat
  BY DrainFacts, BatchAssumption, RenderAssumption
<1>2. stage \in [Workers -> Stage] /\ cur \in [Workers -> Items] /\ verdicts \in [Workers -> [Items -> Verdict]]
  BY DEF BatchIInv, BatchTypeOK
<1>3. \/ cur[w] = NItems /\ stage'[w] = "publish" /\ cur'[w] = cur[w]
      \/ cur[w] # NItems /\ stage'[w] = "pick" /\ cur'[w] = cur[w] + 1
  BY <1>2 DEF Record, To
<1>4. verdicts'[w][cur[w]] = v
  BY <1>1, <1>2 DEF Record
<1>5. Seat(w)'
  BY <1>1, <1>3 DEF Seat, Frame, Draining
<1>6. Informed(w)'
  <2> SUFFICES ASSUME NEW j \in Jobs
               PROVE  /\ Ahead(w, j[1])' => Knows(w, j)' /\ instance'[j] < mine'[w]
                      /\ j[2] > 0 => (seen'[w][j].state = "none" <=> job'[j] = "none")
    BY <1>3 DEF Informed, Draining
  <2>0. j[1] \in Items /\ j[2] \in Indices /\ j = <<j[1], j[2]>>
    BY BatchAssumption
  <2>1. CASE j[1] = cur[w]
    <3>1. ~Ahead(w, j[1])'
      BY <1>1, <1>3, <2>1 DEF Ahead, Items
    <3> QED
      BY <2>0, <2>1, <3>1
  <2>2. CASE j[1] # cur[w]
    <3>1. Ahead(w, j[1])' => Ahead(w, j[1])
      BY <1>1, <1>3, <2>0, <2>2 DEF Ahead, Items
    <3>2. /\ Ahead(w, j[1]) => Knows(w, j) /\ instance[j] < mine[w]
          /\ j[2] > 0 => (seen[w][j].state = "none" <=> job[j] = "none")
      BY DEF BatchIInv, Informed
    <3> QED
      BY <2>2, <3>1, <3>2 DEF Frame, Knows
  <2> QED
    BY <2>1, <2>2
<1>7. AtStage(w)'
  BY <1>3 DEF AtStage
<1>8. Reports(w)'
  <2> SUFFICES ASSUME NEW i \in Items, Behind(w, i)' PROVE Sound(verdicts[w][i], i, mine[w])'
    BY DEF Reports
  <2>1. CASE i = cur[w]
    BY <2>1, <1>4 DEF Sound, Frame
  <2>2. CASE i # cur[w]
    <3>1. Behind(w, i)
      BY <1>1, <1>3, <2>2 DEF Behind, Items
    <3>2. verdicts'[w][i] = verdicts[w][i] /\ mine'[w] = mine[w] /\ verdicts[w][i] \in Verdict
      BY <1>2, <2>2 DEF Frame
    <3>3. Sound(verdicts[w][i], i, mine[w])
      BY <3>1 DEF BatchIInv, Reports
    <3>4. \A u \in Verdict : \A r : Sound(u, i, r) => Sound(u, i, r)'
      BY <2>2, SoundStays
    <3> QED
      BY <3>2, <3>3, <3>4 DEF Sound
  <2> QED
    BY <2>1, <2>2
<1> QED
  BY <1>5, <1>6, <1>7, <1>8 DEF Worker

\* A failed item: its verdict names the newest attempt.
LEMMA FailKeeps ==
  ASSUME BatchIInv, NEW w \in Workers, Draining(w), Frame(w), stage[w] \notin {"publish", "settle"},
         ItemFails(w), at'[w] = "idle", job' = job, receipt' = receipt,
         \A k \in Indices : k > 0 =>
           (seen'[w][<<cur[w], k>>].state = "none" <=> seen[w][<<cur[w], k>>].state = "none"),
         faults' = 0 => /\ disk' = disk /\ job[Attempt(w)] \notin {"queued", "running"}
                        /\ receipt[Attempt(w)].failure \in Interrupted => ~disk[Attempt(w)].plan
  PROVE  Worker(w)'
<1>1. PICK c \in Items, k \in Indices : c = cur[w] /\ k = Newest(w, cur[w])
  BY DrainFacts
<1>2. [ok |-> FALSE, attempt |-> k] \in Verdict
  BY DEF Verdict
<1>3. /\ Attempt(w) = <<c, k>> /\ Made(<<c, k>>)
      /\ \A n \in Indices : n > k => ~Made(<<c, n>>)
  BY <1>1, DrainFacts
<1>4. Sound([ok |-> FALSE, attempt |-> k], c, mine[w])'
  BY <1>3 DEF Sound, Made
<1>5. \A n \in Indices : n > 0 => (seen'[w][<<cur[w], n>>].state = "none" <=> job'[<<cur[w], n>>] = "none")
  <2>1. \A j \in Jobs : j[2] > 0 => (seen[w][j].state = "none" <=> job[j] = "none")
    BY DEF BatchIInv, Informed
  <2>2. \A n \in Indices : <<cur[w], n>> \in Jobs
    BY <1>1, BatchAssumption
  <2> QED
    BY <2>1, <2>2
<1>6. Record(w, [ok |-> FALSE, attempt |-> k])
  BY <1>1 DEF ItemFails
<1> QED
  BY <1>1, <1>2, <1>4, <1>5, <1>6, RecordKeeps

\* Rows and files that no step touched.
LEMMA QuietRenders ==
  ASSUME BatchIInv, UNCHANGED <<row, disk, worker>>,
         faults' \in 0..MaxFaults, deaths' \in 0..MaxDeaths
  PROVE  RenderIInv'
  BY DEF BatchIInv, row, worker, RenderIInv, RenderInv, RenderTypeOK, ArtifactLoadable, FailureLoadable,
     RunnerOwnsJob, OpenIsBlank, PlanIsKept, LocalsTellFiles, Tells, Inside, On

\* Claims and evidence are about rows, files and claims alone.
LEMMA ClaimsStay ==
  ASSUME BatchIInv, UNCHANGED <<row, disk, instance, runs>>
  PROVE  Claims' /\ OnlyInterruptionIsRetried'
  BY DEF BatchIInv, row, Claims, OnlyInterruptionIsRetried, Made

\* Both, when claims stay too.
LEMMA QuietRows ==
  ASSUME BatchIInv, UNCHANGED <<row, disk, worker, instance, runs>>,
         faults' \in 0..MaxFaults, deaths' \in 0..MaxDeaths
  PROVE  RenderIInv' /\ Claims' /\ OnlyInterruptionIsRetried'
  BY QuietRenders, ClaimsStay

\* Free and Spend keep the bounds; faults are never given back.
LEMMA BudgetKeeps ==
  ASSUME BatchIInv
  PROVE  /\ faults \in 0..MaxFaults /\ deaths \in 0..MaxDeaths
         /\ Free \/ Spend \/ Lose => /\ faults' \in 0..MaxFaults /\ deaths' \in 0..MaxDeaths
                                     /\ faults <= faults'
         /\ Spend => faults' # 0
         /\ Free => faults' = faults /\ deaths' = deaths
  BY RenderAssumption DEF BatchIInv, BatchTypeOK, RenderTypeOK, Free, Spend, Lose, budget

\* The batch's variables keep their types when a drain goes on.
LEMMA DrainTypes ==
  ASSUME BatchIInv, NEW w \in Workers, Draining(w), RenderTypeOK',
         UNCHANGED <<parent, published, preparing, runs, lease>>,
         instance' \in [Jobs -> Nat], seen' \in [Workers -> Snapshot],
         export' \in [Items -> Nat], result' \in Outcome,
         \/ \E where \in Stage : Continue(w, where)
         \/ \E v \in Verdict : Record(w, v)
  PROVE  BatchTypeOK' /\ mine' = mine
<1> USE DEF BatchIInv, BatchTypeOK
<1>1. cur[w] \in Items /\ NItems \in Nat
  BY DrainFacts, BatchAssumption
<1>2. mine' = mine
  BY DEF Continue, Record
<1>3. stage' \in [Workers -> Stage]
  BY DEF Continue, Record, To, Stage
<1>4. cur' \in [Workers -> Items]
  <2>1. \/ cur' = cur
        \/ cur[w] # NItems /\ cur' = [cur EXCEPT ![w] = cur[w] + 1]
    BY DEF Continue, Record
  <2>2. cur[w] # NItems => cur[w] + 1 \in Items
    BY <1>1 DEF Items
  <2> QED
    BY <2>1, <2>2
<1>5. verdicts' \in [Workers -> [Items -> Verdict]]
  <2>1. verdicts' = verdicts \/ \E v \in Verdict : verdicts' = [verdicts EXCEPT ![w][cur[w]] = v]
    BY DEF Continue, Record
  <2>2. ASSUME NEW v \in Verdict, verdicts' = [verdicts EXCEPT ![w][cur[w]] = v]
        PROVE  verdicts' \in [Workers -> [Items -> Verdict]]
    <3>1. [verdicts[w] EXCEPT ![cur[w]] = v] \in [Items -> Verdict]
      OBVIOUS
    <3> QED
      BY <2>2, <3>1
  <2> QED
    BY <2>1, <2>2
<1> QED
  BY <1>2, <1>3, <1>4, <1>5

\* ItemFails records a verdict.
LEMMA ItemFailsIsRecord ==
  ASSUME BatchIInv, NEW w \in Workers, Draining(w), ItemFails(w)
  PROVE  \E v \in Verdict : Record(w, v)
  BY DrainFacts DEF ItemFails, Verdict

\* What a step of a drain has to keep.
LEMMA Assemble ==
  ASSUME BatchIInv, NEW w \in Workers, Draining(w), Frame(w), BatchTypeOK', RenderIInv', Claims',
         OnlyInterruptionIsRetried', Worker(w)'
  PROVE  BatchIInv'
  BY FrameKeeps DEF BatchIInv, Worker

\* The index of a drain when it is not written.
LEMMA SeenStays ==
  ASSUME BatchIInv, NEW w \in Workers, UNCHANGED seen
  PROVE  /\ \A k \in Indices : seen'[w][<<cur[w], k>>].state = "none" <=> seen[w][<<cur[w], k>>].state = "none"
         /\ \A j \in Jobs : seen'[w][j] = seen[w][j]
  OBVIOUS

\* The drain's own attempt, as the index tells it.
LEMMA KnowsItsAttempt ==
  ASSUME BatchIInv, NEW w \in Workers, Draining(w),
         stage[w] \in {"pick", "clear", "excuse", "retire", "retry", "mark"}
  PROVE  /\ Knows(w, Attempt(w)) /\ instance[Attempt(w)] < mine[w]
         /\ \A k \in Indices : LET j == <<cur[w], k>> IN
              /\ Knows(w, j) /\ instance[j] < mine[w]
              /\ k > 0 => (seen[w][j].state = "none" <=> job[j] = "none")
<1>1. \A k \in Indices : <<cur[w], k>> \in Jobs
  BY DrainFacts, BatchAssumption
<1>2. Ahead(w, cur[w])
  BY DEF Ahead
<1> QED
  BY <1>1, <1>2, DrainFacts DEF BatchIInv, Informed

----------------------------------------------------------------------------
(* Steps of a drain that only decide *)

\* Rows, files and index stay.
LEMMA QuietStep ==
  ASSUME BatchIInv, NEW w \in Workers, Draining(w), Free \/ Spend,
         UNCHANGED <<row, disk, worker, batchRow, preparing, runs, seen>>,
         \/ \E where \in Stage : Continue(w, where)
         \/ \E v \in Verdict : Record(w, v)
  PROVE  Frame(w) /\ BatchTypeOK' /\ RenderIInv' /\ Claims' /\ OnlyInterruptionIsRetried'
<1> USE DEF batchRow, row, worker
<1>1. /\ faults' \in 0..MaxFaults /\ deaths' \in 0..MaxDeaths /\ faults <= faults'
      /\ lease' = lease /\ mine' = mine
  BY BudgetKeeps DEF Continue, Record
<1>2. RenderIInv' /\ Claims' /\ OnlyInterruptionIsRetried'
  BY <1>1, QuietRows
<1>3. BatchTypeOK'
  BY <1>1, <1>2, DrainTypes DEF BatchIInv, BatchTypeOK, RenderIInv, RenderInv
<1>4. /\ \A v \in Workers \ {w} : stage'[v] = stage[v] /\ cur'[v] = cur[v]
      /\ \A i \in Items \ {cur[w]} : verdicts'[w][i] = verdicts[w][i]
  <2>1. stage \in [Workers -> Stage] /\ cur \in [Workers -> Items] /\ verdicts \in [Workers -> [Items -> Verdict]]
    BY DEF BatchIInv, BatchTypeOK
  <2> QED
    BY <2>1 DEF Continue, Record, To
<1>5. Frame(w)
  BY <1>1, <1>4 DEF Frame
<1> QED
  BY <1>2, <1>3, <1>5

\* The item fails, or the step raises.
LEMMA QuietFail ==
  ASSUME BatchIInv, NEW w \in Workers, Draining(w), Free \/ Spend,
         UNCHANGED <<row, disk, worker, batchRow, preparing, runs, seen>>,
         ItemFails(w), stage[w] \notin {"publish", "settle", "render"},
         faults' = 0 => /\ job[Attempt(w)] \notin {"queued", "running"}
                        /\ receipt[Attempt(w)].failure \in Interrupted => ~disk[Attempt(w)].plan
  PROVE  BatchIInv'
<1>1. Frame(w) /\ BatchTypeOK' /\ RenderIInv' /\ Claims' /\ OnlyInterruptionIsRetried'
  BY QuietStep, ItemFailsIsRecord
<1>2. at'[w] = "idle" /\ job' = job /\ receipt' = receipt /\ disk' = disk
  BY DrainFacts DEF row, worker
<1>3. Worker(w)'
  BY <1>1, <1>2, FailKeeps, SeenStays
<1> QED
  BY <1>1, <1>3, Assemble

\* The drain goes on with the attempt.
LEMMA QuietContinue ==
  ASSUME BatchIInv, NEW w \in Workers, Draining(w), Free \/ Spend,
         UNCHANGED <<row, disk, worker, batchRow, preparing, runs, seen>>,
         stage[w] \in {"pick", "clear", "excuse"},
         NEW where \in {"clear", "excuse", "retry", "mark", "judge"}, Continue(w, where),
         where \in {"clear", "excuse"} => View(w).state \in {"queued", "running"} /\ View(w).claimed,
         where = "clear" => View(w).state = "running",
         where = "retry" => job[Attempt(w)] = "failed" /\ receipt[Attempt(w)].failure \in Interrupted,
         where = "mark" => View(w).state = "queued" /\ ~View(w).claimed,
         where = "judge" => job[Attempt(w)] = "succeeded"
  PROVE  BatchIInv'
<1>1. Frame(w) /\ BatchTypeOK' /\ RenderIInv' /\ Claims' /\ OnlyInterruptionIsRetried'
  BY QuietStep DEF Stage
<1>2. /\ at' = at /\ job' = job /\ receipt' = receipt /\ disk' = disk /\ seen' = seen /\ instance' = instance
      /\ mine' = mine /\ verdicts' = verdicts /\ cur' = cur /\ stage'[w] = where /\ at[w] = "idle"
  BY DrainFacts DEF row, worker, batchRow, Continue, To, BatchIInv, BatchTypeOK
<1>3. Attempt(w)' = Attempt(w) /\ View(w)' = View(w)
  BY <1>2, AttemptStays DEF View
<1>4. AtStage(w)'
  BY <1>2, <1>3 DEF AtStage
<1>5. \A k \in Indices : LET j == <<cur[w], k>> IN
        /\ Knows(w, j)' /\ instance'[j] < mine[w]
        /\ k > 0 => (seen'[w][j].state = "none" <=> job'[j] = "none")
  BY <1>2, KnowsItsAttempt DEF Knows
<1>6. Worker(w)'
  BY <1>1, <1>2, <1>4, <1>5, ContinueKeeps DEF Draining, BatchIInv, BatchTypeOK
<1> QED
  BY <1>1, <1>6, Assemble

\* An attempt that did not end has no receipts; one that succeeded loads, and
\* an unsuccessful one has the failure manifest of its receipt.
LEMMA WhatRowsSay ==
  ASSUME BatchIInv, NEW j \in Jobs
  PROVE  /\ Loads(j)
         /\ job[j] = "succeeded" => Loadable(j) /\ receipt[j].failure \notin Interrupted
         /\ receipt[j] = NoReceipts => receipt[j].failure \notin Interrupted
         /\ receipt[j].failure \in Interrupted => job[j] = "failed"
<1>1. Nobody \notin FailureCode
  BY RenderAssumption
<1>2. Loads(j)
  BY LoadsIsWhatIsLoaded DEF BatchIInv, RenderIInv, RenderInv
<1>3. \A c \in Interrupted : c # Nobody /\ c # "cancelled"
  BY <1>1 DEF FailureCode, Interrupted
<1> QED
  BY <1>2, <1>3 DEF Loads, Loadable, NoReceipts

\* Where the index sends an attempt, with no fault it is no verdict on a live one.
LEMMA PickKeeps == ASSUME BatchIInv, NEW w \in Workers, Pick(w) PROVE BatchIInv'
<1>1. Draining(w) /\ stage[w] = "pick" /\ Attempt(w) \in Jobs /\ Made(Attempt(w))
  BY DrainFacts DEF Pick, Stay, Draining
<1>2. UNCHANGED <<row, disk, worker, batchRow, preparing, runs, seen>> /\ Free
  BY DEF Pick, Stay, renderVars, Free
<1>3. Knows(w, Attempt(w))
  BY <1>1, KnowsItsAttempt
<1>4. CASE ItemFails(w) /\ View(w).state = "running" /\ ~View(w).claimed
  <2>1. FALSE
    BY <1>1, <1>3, <1>4 DEF Knows, View, BatchIInv, Claims
  <2> QED
    BY <2>1
<1>5. CASE ItemFails(w) /\ View(w).state \in {"cancelled", "none"}
  <2>1. job[Attempt(w)] \in {"batch_held", "cancelled"}
    BY <1>1, <1>3, <1>5 DEF Knows, View, Made
  <2>2. job[Attempt(w)] \notin {"queued", "running"} /\ receipt[Attempt(w)].failure \notin Interrupted
    BY <1>1, <2>1, WhatRowsSay
  <2> QED
    BY <1>1, <1>2, <1>5, <2>2, QuietFail
<1>6. CASE View(w).state = "queued" /\ ~View(w).claimed /\ Continue(w, "mark")
  BY <1>1, <1>2, <1>6, QuietContinue
<1>7. CASE View(w).state = "queued" /\ View(w).claimed /\ Continue(w, "excuse")
  BY <1>1, <1>2, <1>7, QuietContinue
<1>8. CASE View(w).state = "running" /\ View(w).claimed /\ Continue(w, "clear")
  BY <1>1, <1>2, <1>8, QuietContinue
<1> QED
  BY <1>4, <1>5, <1>6, <1>7, <1>8 DEF Pick

\* A success of an earlier drain is judged again.
LEMMA ReloadKeeps == ASSUME BatchIInv, NEW w \in Workers, Reload(w) PROVE BatchIInv'
<1>1. Draining(w) /\ stage[w] = "pick" /\ Attempt(w) \in Jobs
  BY DrainFacts DEF Reload, Stay, Draining
<1>2. UNCHANGED <<row, disk, worker, batchRow, preparing, runs, seen>> /\ Free
  BY DEF Reload, Stay, renderVars, Free
<1>3. job[Attempt(w)] = "succeeded" /\ receipt[Attempt(w)].failure \notin Interrupted
  BY <1>1, KnowsItsAttempt, WhatRowsSay DEF Knows, View, Reload
<1>4. CASE Continue(w, "judge")
  BY <1>1, <1>2, <1>3, <1>4, QuietContinue
<1>5. CASE ItemFails(w)
  BY <1>1, <1>2, <1>3, <1>5, QuietFail
<1> QED
  BY <1>4, <1>5 DEF Reload

\* A failure is final unless its receipt is interruption evidence.
LEMMA ReviewFailedKeeps == ASSUME BatchIInv, NEW w \in Workers, ReviewFailed(w) PROVE BatchIInv'
<1>1. Draining(w) /\ stage[w] = "pick" /\ Attempt(w) \in Jobs
  BY DrainFacts DEF ReviewFailed, Stay, Draining
<1>2. UNCHANGED <<row, disk, worker, batchRow, preparing, runs, seen>> /\ Free
  BY DEF ReviewFailed, Stay, renderVars, Free
<1>3. job[Attempt(w)] = "failed"
  BY <1>1, KnowsItsAttempt DEF Knows, View, ReviewFailed
<1>4. Nobody \notin Interrupted
  BY RenderAssumption DEF FailureCode
<1>5. CASE FailureOf(Attempt(w)) \in Interrupted
  <2>1. receipt[Attempt(w)].failure \in Interrupted /\ Continue(w, "retry")
    BY <1>4, <1>5 DEF FailureOf, ReviewFailed
  <2> QED
    BY <1>1, <1>2, <1>3, <2>1, QuietContinue
<1>6. CASE FailureOf(Attempt(w)) \notin Interrupted
  <2>1. receipt[Attempt(w)].failure \notin Interrupted
    BY <1>1, <1>4, <1>6, WhatRowsSay DEF FailureOf, Loads
  <2> QED
    BY <1>1, <1>2, <1>3, <1>6, <2>1, QuietFail DEF ReviewFailed
<1> QED
  BY <1>5, <1>6


----------------------------------------------------------------------------
(* Steps of a drain that change the attempt it is at *)

\* A drain changes one attempt of the item it is at, and goes on.
LEMMA OwnStep ==
  ASSUME BatchIInv, NEW w \in Workers, Draining(w), NEW j \in Jobs, j[1] = cur[w],
         RenderTypeOK', faults <= faults', \A v \in Workers \ {w} : at'[v] = at[v],
         \A i \in Jobs \ {j} : /\ job'[i] = job[i] /\ receipt'[i] = receipt[i] /\ disk'[i] = disk[i]
                               /\ instance'[i] = instance[i] /\ seen'[w][i] = seen[w][i],
         job[j] # "none" => job'[j] # "none",
         UNCHANGED <<parent, result, published, export, preparing, runs>>,
         instance' \in [Jobs -> Nat], seen' \in [Workers -> Snapshot],
         \/ \E where \in Stage : Continue(w, where)
         \/ \E v \in Verdict : Record(w, v)
  PROVE  Frame(w) /\ BatchTypeOK'
<1>1. lease' = lease
  BY DEF Continue, Record
<1>2. BatchTypeOK' /\ mine' = mine
  BY <1>1, DrainTypes DEF BatchIInv, BatchTypeOK
<1>3. /\ \A v \in Workers \ {w} : stage'[v] = stage[v] /\ cur'[v] = cur[v]
      /\ \A i \in Items \ {cur[w]} : verdicts'[w][i] = verdicts[w][i]
  <2>1. stage \in [Workers -> Stage] /\ cur \in [Workers -> Items] /\ verdicts \in [Workers -> [Items -> Verdict]]
    BY DEF BatchIInv, BatchTypeOK
  <2> QED
    BY <2>1 DEF Continue, Record, To
<1>4. Frame(w)
  BY <1>1, <1>2, <1>3 DEF Frame
<1> QED
  BY <1>2, <1>4

\* The evidence of a retry is about the attempt before: a change of the newest
\* one keeps it if that one keeps its own.
LEMMA ChainKeeps ==
  ASSUME BatchIInv, NEW j \in Jobs, \A k \in Indices : k > j[2] => ~Made(<<j[1], k>>),
         \A i \in Jobs \ {j} : /\ job'[i] = job[i] /\ receipt'[i] = receipt[i] /\ disk'[i] = disk[i]
                               /\ instance'[i] = instance[i],
         runs' = runs, instance'[j] \in Nat, instance'[j] <= runs,
         job'[j] = "running" => instance'[j] # 0,
         job'[j] \in {"none", "batch_held"} => instance'[j] = 0,
         receipt'[j].failure \in Interrupted => instance'[j] # 0,
         j[2] > 0 => LET before == <<j[1], j[2] - 1>> IN
           /\ job[before] = "failed"
           /\ receipt[before].failure \in Interrupted
           /\ disk[before].failure = receipt[before].failure
           /\ instance[before] # 0
           /\ instance'[j] # 0 => instance[before] < instance'[j]
  PROVE  Claims' /\ OnlyInterruptionIsRetried'
<1>1. Claims'
  BY DEF BatchIInv, Claims
<1>2. OnlyInterruptionIsRetried'
  <2> SUFFICES ASSUME NEW i \in Items, NEW k \in Indices, k > 0, Made(<<i, k>>)'
               PROVE  LET before == <<i, k - 1>> IN
                      /\ job'[before] = "failed"
                      /\ receipt'[before].failure \in Interrupted
                      /\ disk'[before].failure = receipt'[before].failure
                      /\ instance'[before] # 0
                      /\ instance'[<<i, k>>] # 0 => instance'[before] < instance'[<<i, k>>]
    BY DEF OnlyInterruptionIsRetried
  <2>1. k - 1 \in Indices /\ k \in Nat /\ <<i, k>> \in Jobs /\ <<i, k - 1>> \in Jobs
    BY BatchAssumption, RenderAssumption DEF Indices
  <2>2. CASE <<i, k>> = j
    <3>1. <<i, k - 1>> # j /\ j[1] = i /\ j[2] = k
      BY <2>1, <2>2
    <3> QED
      BY <2>1, <2>2, <3>1
  <2>3. CASE <<i, k>> # j
    <3>1. Made(<<i, k>>)
      BY <2>1, <2>3 DEF Made
    <3>2. <<i, k - 1>> # j
      BY <2>1, <3>1
    <3> QED
      BY <2>1, <2>3, <3>1, <3>2 DEF BatchIInv, OnlyInterruptionIsRetried
  <2> QED
    BY <2>2, <2>3
<1> QED
  BY <1>1, <1>2

\* The item's other attempts, as the drain that is at its newest one knows them.
LEMMA BeforeIsEvidence ==
  ASSUME BatchIInv, NEW w \in Workers, Draining(w),
         stage[w] \in {"pick", "clear", "excuse", "retire", "retry", "mark"}
  PROVE  LET j == Attempt(w) IN
         /\ j \in Jobs /\ j[1] = cur[w] /\ Made(j) /\ \A k \in Indices : k > j[2] => ~Made(<<j[1], k>>)
         /\ instance[j] \in Nat /\ instance[j] < mine[w] /\ mine[w] = runs /\ runs \in Nat
         /\ j[2] > 0 => LET before == <<j[1], j[2] - 1>> IN
              /\ job[before] = "failed"
              /\ receipt[before].failure \in Interrupted
              /\ disk[before].failure = receipt[before].failure
              /\ instance[before] # 0
              /\ instance[before] < mine[w]
              /\ instance[j] # 0 => instance[before] < instance[j]
<1>1. PICK c \in Items, k \in Indices : c = cur[w] /\ k = Newest(w, cur[w]) /\ Attempt(w) = <<c, k>>
  BY DrainFacts
<1>2. <<c, k>> \in Jobs /\ k \in Nat
  BY <1>1, BatchAssumption, RenderAssumption DEF Indices
<1>3. k > 0 => k - 1 \in Indices
  BY BatchAssumption, RenderAssumption DEF Indices
<1>4. k > 0 => instance[<<c, k - 1>>] < mine[w]
  BY <1>1, <1>3, KnowsItsAttempt
<1>5. instance[<<c, k>>] \in Nat
  BY <1>2 DEF BatchIInv, BatchTypeOK
<1> QED
  BY <1>1, <1>2, <1>3, <1>4, <1>5, DrainFacts, KnowsItsAttempt DEF BatchIInv, OnlyInterruptionIsRetried

\* Nobody renders while a drain decides.
LEMMA NobodyInside ==
  ASSUME BatchIInv, NEW w \in Workers, Draining(w), stage[w] # "render"
  PROVE  \A v \in Workers : ~Inside(v)
  BY DrainFacts DEF Inside, Executing, Cleaning

\* What a step of a drain may make of the newest attempt's row, files, claim and
\* entry in the index.
Moves(w, j, s, r, f) ==
  /\ job' = [job EXCEPT ![j] = s]
  /\ receipt' = [receipt EXCEPT ![j] = r]
  /\ disk' = [disk EXCEPT ![j] = f]
  /\ s \in {"queued", "running", "failed", "cancelled"} /\ r \in Receipts /\ f \in Files
  /\ s = "running" => job[j] = "running"
  /\ r.failure \in Interrupted => instance[j] # 0
  /\ Free \/ Spend
  /\ UNCHANGED <<worker, parent, result, published, export, preparing, runs>>
  /\ \/ instance' = instance
     \/ instance' = [instance EXCEPT ![j] = mine[w]] /\ s = "queued"
  /\ \/ seen' = seen
     \/ \E e \in [state : JobState, claimed : BOOLEAN] :
          e.state # "none" /\ seen[w][j].state # "none" /\ seen' = [seen EXCEPT ![w][j] = e]
  /\ \/ \E where \in Stage : Continue(w, where)
     \/ \E v \in Verdict : Record(w, v)

\* Everything but the drain's own place is kept by such a step.
LEMMA AttemptStep ==
  ASSUME BatchIInv, NEW w \in Workers, Draining(w),
         stage[w] \in {"pick", "clear", "excuse", "retire", "mark"},
         NEW j, j = Attempt(w), NEW s, NEW r, NEW f, Moves(w, j, s, r, f), Loads(j)'
  PROVE  /\ Frame(w) /\ BatchTypeOK' /\ RenderIInv' /\ Claims' /\ OnlyInterruptionIsRetried'
         /\ Newest(w, cur[w]) \in Indices
         /\ \A k \in Indices : seen'[w][<<cur[w], k>>].state = "none" <=> seen[w][<<cur[w], k>>].state = "none"
<1>1. /\ j \in Jobs /\ j[1] = cur[w] /\ Made(j) /\ \A k \in Indices : k > j[2] => ~Made(<<j[1], k>>)
      /\ instance[j] \in Nat /\ instance[j] < mine[w] /\ mine[w] = runs /\ runs \in Nat
  BY BeforeIsEvidence
<1>2. /\ faults' \in 0..MaxFaults /\ deaths' \in 0..MaxDeaths /\ faults <= faults'
      /\ s \in JobState /\ s # "none" /\ r \in Receipts /\ f \in Files
  BY BudgetKeeps DEF Moves, JobState
<1>3. /\ RenderTypeOK'
      /\ job'[j] = s /\ receipt'[j] = r /\ disk'[j] = f
      /\ \A i \in Jobs \ {j} : job'[i] = job[i] /\ receipt'[i] = receipt[i] /\ disk'[i] = disk[i]
  <2>0. RenderTypeOK
    BY DEF BatchIInv, BatchTypeOK
  <2>1. job' \in [Jobs -> JobState] /\ job'[j] = s /\ \A i \in Jobs \ {j} : job'[i] = job[i]
    BY <1>1, <1>2, <2>0 DEF RenderTypeOK, Moves
  <2>2. receipt' \in [Jobs -> Receipts] /\ receipt'[j] = r /\ \A i \in Jobs \ {j} : receipt'[i] = receipt[i]
    BY <1>1, <1>2, <2>0 DEF RenderTypeOK, Moves
  <2>3. disk' \in [Jobs -> Files] /\ disk'[j] = f /\ \A i \in Jobs \ {j} : disk'[i] = disk[i]
    BY <1>1, <1>2, <2>0 DEF RenderTypeOK, Moves
  <2>4. at' \in [Workers -> Executing \cup Cleaning \cup Resting] /\ mem' \in [Workers -> Locals]
    BY <2>0 DEF RenderTypeOK, Moves, worker
  <2>5. RenderTypeOK'
    BY <1>2, <2>1, <2>2, <2>3, <2>4 DEF RenderTypeOK
  <2> QED
    BY <2>1, <2>2, <2>3, <2>5
<1>4. \A v \in Workers : Inside(v) => On(v) # j
  BY NobodyInside
<1>5. RenderIInv'
  BY <1>1, <1>3, <1>4, UntendedKeeps DEF BatchIInv, Moves, worker
<1>6. /\ instance' \in [Jobs -> Nat] /\ instance'[j] \in {instance[j], mine[w]}
      /\ instance'[j] # instance[j] => s = "queued"
      /\ \A i \in Jobs \ {j} : instance'[i] = instance[i]
  <2>1. instance \in [Jobs -> Nat] /\ mine[w] \in Nat
    BY <1>1 DEF BatchIInv, BatchTypeOK
  <2> QED
    BY <1>1, <2>1 DEF Moves
<1>7. /\ seen' \in [Workers -> Snapshot] /\ \A i \in Jobs \ {j} : seen'[w][i] = seen[w][i]
      /\ \A i \in Jobs : seen'[w][i].state = "none" <=> seen[w][i].state = "none"
  <2>1. seen \in [Workers -> Snapshot] /\ seen[w] \in Snapshot
    BY DEF BatchIInv, BatchTypeOK
  <2>2. ASSUME NEW e \in [state : JobState, claimed : BOOLEAN], e.state # "none", seen[w][j].state # "none",
               seen' = [seen EXCEPT ![w][j] = e]
        PROVE  /\ seen' \in [Workers -> Snapshot] /\ \A i \in Jobs \ {j} : seen'[w][i] = seen[w][i]
               /\ \A i \in Jobs : seen'[w][i].state = "none" <=> seen[w][i].state = "none"
    <3>1. [seen[w] EXCEPT ![j] = e] \in Snapshot
      BY <1>1, <2>1 DEF Snapshot
    <3>2. seen'[w] = [seen[w] EXCEPT ![j] = e]
      BY <2>1, <2>2
    <3>3. seen' \in [Workers -> Snapshot]
      BY <2>1, <2>2, <3>1
    <3> QED
      BY <1>1, <2>1, <2>2, <3>2, <3>3 DEF Snapshot
  <2> QED
    BY <2>1, <2>2 DEF Moves
<1>8. Frame(w) /\ BatchTypeOK'
  BY <1>1, <1>2, <1>3, <1>6, <1>7, OwnStep DEF Moves, worker
<1>9. Claims' /\ OnlyInterruptionIsRetried'
  <2>1. j[2] > 0 => LET before == <<j[1], j[2] - 1>> IN
           /\ job[before] = "failed"
           /\ receipt[before].failure \in Interrupted
           /\ disk[before].failure = receipt[before].failure
           /\ instance[before] # 0
           /\ instance'[j] # 0 => instance[before] < instance'[j]
    BY <1>6, BeforeIsEvidence
  <2>2. /\ instance'[j] \in Nat /\ instance'[j] <= runs
        /\ job'[j] = "running" => instance'[j] # 0
        /\ job'[j] \in {"none", "batch_held"} => instance'[j] = 0
        /\ receipt'[j].failure \in Interrupted => instance'[j] # 0
    BY <1>1, <1>2, <1>3, <1>6 DEF BatchIInv, Claims, Moves
  <2> QED
    BY <1>1, <1>3, <1>6, <2>1, <2>2, ChainKeeps DEF Moves
<1>10. \A k \in Indices : <<cur[w], k>> \in Jobs
  BY <1>1, BatchAssumption
<1> QED
  BY <1>5, <1>7, <1>8, <1>9, <1>10, DrainFacts

\* The item ends in such a step.
LEMMA AttemptFails ==
  ASSUME BatchIInv, NEW w \in Workers, Draining(w),
         stage[w] \in {"pick", "clear", "excuse", "retire", "mark"},
         NEW j, j = Attempt(w), NEW r, NEW f, Moves(w, j, job[j], r, f), Loads(j)',
         receipt' = receipt, ItemFails(w), Spend
  PROVE  BatchIInv'
<1>1. /\ Frame(w) /\ BatchTypeOK' /\ RenderIInv' /\ Claims' /\ OnlyInterruptionIsRetried'
      /\ \A k \in Indices : seen'[w][<<cur[w], k>>].state = "none" <=> seen[w][<<cur[w], k>>].state = "none"
  BY AttemptStep
<1>2. at'[w] = "idle" /\ faults' # 0
  BY DrainFacts, BudgetKeeps DEF Moves, worker
<1>3. job' = job
  BY DEF Moves, BatchIInv, BatchTypeOK, RenderTypeOK
<1>4. Worker(w)'
  BY <1>1, <1>2, <1>3, FailKeeps
<1> QED
  BY <1>1, <1>4, Assemble

\* The drain goes on with the attempt after such a step.
LEMMA AttemptGoes ==
  ASSUME BatchIInv, NEW w \in Workers, Draining(w),
         stage[w] \in {"pick", "clear", "excuse", "retire", "mark"},
         NEW j, j = Attempt(w), NEW s, NEW r, NEW f, Moves(w, j, s, r, f), Loads(j)',
         NEW where \in {"excuse", "retire", "retry", "mark", "render"}, Continue(w, where),
         where = "render" \/ (Knows(w, j)' /\ instance' = instance),
         Attempt(w)' = j => AtStage(w)'
  PROVE  BatchIInv'
<1>1. /\ Frame(w) /\ BatchTypeOK' /\ RenderIInv' /\ Claims' /\ OnlyInterruptionIsRetried'
      /\ \A k \in Indices : seen'[w][<<cur[w], k>>].state = "none" <=> seen[w][<<cur[w], k>>].state = "none"
  BY AttemptStep
<1>2. /\ at'[w] = "idle" /\ stage'[w] = where /\ cur'[w] = cur[w] /\ verdicts'[w] = verdicts[w]
      /\ verdicts[w] \in [Items -> Verdict]
  BY DrainFacts DEF Moves, worker, Continue, To, BatchIInv, BatchTypeOK
<1>3. Attempt(w)' = j
  BY <1>1, <1>2, AttemptStays
<1>4. /\ j \in Jobs /\ j[1] = cur[w] /\ instance[j] < mine[w] /\ mine'[w] = mine[w]
  BY BeforeIsEvidence, <1>1 DEF Frame
<1>5. /\ \A i \in Jobs \ {j} : /\ job'[i] = job[i] /\ receipt'[i] = receipt[i]
                               /\ instance'[i] = instance[i] /\ seen'[w][i] = seen[w][i]
      /\ job[j] # "none" /\ job'[j] # "none"
  <2>1. job[j] # "none" /\ job'[j] # "none"
    BY <1>1, <1>4, DrainFacts DEF Frame, Made
  <2>2. /\ job \in [Jobs -> JobState] /\ receipt \in [Jobs -> Receipts] /\ instance \in [Jobs -> Nat]
        /\ seen \in [Workers -> Snapshot] /\ seen[w] \in [Jobs -> [state : JobState, claimed : BOOLEAN]]
    BY DEF BatchIInv, BatchTypeOK, RenderTypeOK, Snapshot
  <2> QED
    BY <2>1, <2>2 DEF Moves
<1>6. \A k \in Indices : LET i == <<cur[w], k>> IN
           /\ Ahead(w, cur[w])' => Knows(w, i)' /\ instance'[i] < mine[w]
           /\ k > 0 => (seen'[w][i].state = "none" <=> job'[i] = "none")
  <2> SUFFICES ASSUME NEW k \in Indices
               PROVE  LET i == <<cur[w], k>> IN
                      /\ Ahead(w, cur[w])' => Knows(w, i)' /\ instance'[i] < mine[w]
                      /\ k > 0 => (seen'[w][i].state = "none" <=> job'[i] = "none")
    OBVIOUS
  <2>0. <<cur[w], k>> \in Jobs
    BY DrainFacts, BatchAssumption
  <2>1. /\ Knows(w, <<cur[w], k>>) /\ instance[<<cur[w], k>>] < mine[w]
        /\ k > 0 => (seen[w][<<cur[w], k>>].state = "none" <=> job[<<cur[w], k>>] = "none")
    BY KnowsItsAttempt
  <2>2. CASE <<cur[w], k>> # j
    BY <1>2, <1>5, <2>0, <2>1, <2>2 DEF Knows
  <2>3. CASE <<cur[w], k>> = j
    <3>1. where = "render" => ~Ahead(w, cur[w])'
      BY <1>2, DrainFacts DEF Ahead, Items
    <3>2. where # "render" => Knows(w, <<cur[w], k>>)' /\ instance' = instance
      BY <1>2, <2>3 DEF Knows
    <3>3. k > 0 => (seen'[w][<<cur[w], k>>].state = "none" <=> job'[<<cur[w], k>>] = "none")
      BY <1>1, <1>5, <2>1, <2>3
    <3> QED
      BY <1>4, <2>1, <3>1, <3>2, <3>3
  <2> QED
    BY <2>2, <2>3
<1>7. Worker(w)'
  BY <1>1, <1>2, <1>3, <1>6, ContinueKeeps DEF Draining
<1> QED
  BY <1>1, <1>7, Assemble

\* The types of a row and its files, and what EXCEPT leaves of them.
LEMMA RowTypes ==
  ASSUME BatchIInv, NEW j \in Jobs
  PROVE  /\ job[j] \in JobState /\ receipt[j] \in Receipts /\ disk[j] \in Files
         /\ job = [job EXCEPT ![j] = job[j]]
         /\ receipt = [receipt EXCEPT ![j] = receipt[j]]
         /\ disk = [disk EXCEPT ![j] = disk[j]]
  BY DEF BatchIInv, BatchTypeOK, RenderTypeOK

\* An attempt that is held, queued or running has no receipts.
LEMMA OpenAttempt ==
  ASSUME BatchIInv, NEW j \in Jobs
  PROVE  job[j] \in {"batch_held", "queued", "running"} => receipt[j] = NoReceipts
  BY DEF BatchIInv, RenderIInv, OpenIsBlank

\* The held first attempt becomes runnable, unless the preparation cancelled it.
LEMMA ReleaseKeeps == ASSUME BatchIInv, NEW w \in Workers, Release(w) PROVE BatchIInv'
<1>1. PICK j \in Jobs : j = Attempt(w)
  BY DrainFacts DEF Release, Stay, Draining
<1>2. /\ Draining(w) /\ stage[w] = "pick" /\ View(w) = seen[w][j] /\ Knows(w, j)
      /\ View(w).state = "batch_held"
  BY <1>1, KnowsItsAttempt DEF Release, Stay, Draining, View
<1>3. /\ job[j] = "batch_held" \/ (job[j] = "cancelled" /\ receipt[j] = NoReceipts)
      /\ receipt[j] = NoReceipts /\ (seen[w][j].claimed <=> instance[j] # 0)
  BY <1>2, OpenAttempt DEF Knows
<1>4. UNCHANGED <<disk, worker, batchRow, preparing, runs>>
  BY DEF Release, Stay
<1>5. CASE /\ Transition(j, "batch_held", "queued", NoReceipts)
           /\ Learn(w, j, "queued", FALSE) /\ Continue(w, "mark") /\ Free
  <2>1. /\ job[j] = "batch_held" /\ instance[j] = 0
        /\ job' = [job EXCEPT ![j] = "queued"]
        /\ receipt' = [receipt EXCEPT ![j] = NoReceipts]
        /\ disk' = [disk EXCEPT ![j] = disk[j]] /\ disk[j] \in Files
        /\ seen' = [seen EXCEPT ![w][j] = [state |-> "queued", claimed |-> FALSE]]
    <3>1. Appended(j, NoReceipts) = NoReceipts
      BY <1>3 DEF Appended, Added, NoReceipts
    <3> QED
      BY <1>4, <1>5, <3>1, RowTypes DEF Transition, CanTransition, Learn, BatchIInv, Claims
  <2>2. Moves(w, j, "queued", NoReceipts, disk[j])
    <3>1. NoReceipts \in Receipts /\ NoReceipts.failure \notin Interrupted
      BY <1>3, RowTypes, WhatRowsSay
    <3>2. [state |-> "queued", claimed |-> FALSE] \in [state : JobState, claimed : BOOLEAN]
      BY DEF JobState
    <3>3. "mark" \in Stage
      BY DEF Stage
    <3> QED
      BY <1>2, <1>4, <1>5, <2>1, <3>1, <3>2, <3>3 DEF Moves, batchRow
  <2>3. /\ job'[j] = "queued" /\ receipt'[j] = NoReceipts /\ instance' = instance
        /\ seen'[w][j] = [state |-> "queued", claimed |-> FALSE]
    BY <1>4, <2>1 DEF BatchIInv, BatchTypeOK, RenderTypeOK, Snapshot, batchRow
  <2>4. Loads(j)' /\ Knows(w, j)'
    BY <2>1, <2>3 DEF Loads, NoReceipts, Knows
  <2>5. Attempt(w)' = j => AtStage(w)'
    <3>1. stage'[w] = "mark" /\ at'[w] = "idle"
      BY <1>2, <1>4, <1>5, DrainFacts DEF Continue, To, worker, BatchIInv, BatchTypeOK
    <3> QED
      BY <2>3, <3>1 DEF AtStage, View
  <2> QED
    BY <1>1, <1>2, <1>5, <2>2, <2>3, <2>4, <2>5, AttemptGoes
<1>6. CASE ~CanTransition(j, "batch_held", NoReceipts) /\ ItemFails(w) /\ UNCHANGED <<row, seen>> /\ Free
  <2>1. job[j] = "cancelled"
    BY <1>3, <1>6 DEF CanTransition, CanAppend, NoReceipts
  <2> QED
    BY <1>1, <1>2, <1>3, <1>4, <1>6, <2>1, QuietFail, WhatRowsSay
<1>7. CASE ItemFails(w) /\ UNCHANGED <<row, seen>> /\ Spend
  BY <1>2, <1>4, <1>7, QuietFail, BudgetKeeps
<1> QED
  BY <1>1, <1>5, <1>6, <1>7 DEF Release

\* Files of an interrupted attempt are removed as far as possible.
LEMMA ClearKeeps == ASSUME BatchIInv, NEW w \in Workers, Clear(w) PROVE BatchIInv'
<1>1. PICK j \in Jobs : j = Attempt(w)
  BY DrainFacts DEF Clear, Stay, Draining
<1>2. /\ Draining(w) /\ stage[w] = "clear" /\ View(w) = seen[w][j] /\ Knows(w, j)
      /\ seen[w][j].state = "running" /\ seen[w][j].claimed /\ Continue(w, "excuse")
  BY <1>1, KnowsItsAttempt DEF Clear, Stay, Draining, View, BatchIInv, AtStage
<1>3. job[j] = "running" /\ receipt[j] = NoReceipts /\ instance[j] # 0
  BY <1>2, OpenAttempt DEF Knows
<1>4. UNCHANGED <<job, receipt, instance, worker, batchRow, preparing, runs, seen>> /\ (Free \/ Spend)
  BY DEF Clear, Stay, row, batchRow
<1>5. PICK f \in Files : disk' = [disk EXCEPT ![j] = f]
  <2>1. disk[j] \in Files /\ Nobody \in Digest
    BY RowTypes DEF Digest
  <2> QED
    BY <1>1, <2>1 DEF Clear, Files
<1>6. Moves(w, j, job[j], receipt[j], f)
  <2>1. receipt[j] \in Receipts /\ receipt[j].failure \notin Interrupted
    BY <1>3, RowTypes, WhatRowsSay
  <2>2. job' = [job EXCEPT ![j] = job[j]] /\ receipt' = [receipt EXCEPT ![j] = receipt[j]] /\ "excuse" \in Stage
    BY <1>4, RowTypes DEF Stage
  <2> QED
    BY <1>2, <1>3, <1>4, <1>5, <2>1, <2>2 DEF Moves, batchRow
<1>7. Loads(j)' /\ Knows(w, j)'
  BY <1>2, <1>3, <1>4 DEF Loads, NoReceipts, Knows
<1>8. Attempt(w)' = j => AtStage(w)'
  <2>1. stage'[w] = "excuse" /\ at'[w] = "idle"
    BY <1>2, <1>4, DrainFacts DEF Continue, To, worker, BatchIInv, BatchTypeOK
  <2> QED
    BY <1>2, <1>4, <2>1 DEF AtStage, View
<1> QED
  BY <1>1, <1>2, <1>4, <1>6, <1>7, <1>8, AttemptGoes

\* Recovery evidence is on disk before the row says so.
LEMMA WriteExcuseKeeps == ASSUME BatchIInv, NEW w \in Workers, WriteExcuse(w) PROVE BatchIInv'
<1>1. PICK j \in Jobs : j = Attempt(w)
  BY DrainFacts DEF WriteExcuse, Stay, Draining
<1>2. /\ Draining(w) /\ stage[w] = "excuse" /\ View(w) = seen[w][j] /\ Knows(w, j)
      /\ seen[w][j].state \in {"queued", "running"} /\ seen[w][j].claimed
  BY <1>1, KnowsItsAttempt DEF WriteExcuse, Stay, Draining, View, BatchIInv, AtStage
<1>3. job[j] \in {"queued", "running", "cancelled"} /\ receipt[j] = NoReceipts /\ instance[j] # 0
  BY <1>2, OpenAttempt DEF Knows
<1>4. UNCHANGED <<job, receipt, instance, worker, batchRow, preparing, runs, seen>>
  BY DEF WriteExcuse, Stay, row, batchRow
<1>5. CASE ItemFails(w) /\ UNCHANGED disk /\ Spend
  BY <1>2, <1>4, <1>5, QuietFail, BudgetKeeps DEF row
<1>6. CASE disk' = [disk EXCEPT ![j].failure = Excuse(w)]
           /\ ((Continue(w, "retire") /\ Free) \/ (ItemFails(w) /\ Spend))
  <2> DEFINE f == [disk[j] EXCEPT !.failure = Excuse(w)]
  <2>1. f \in Files /\ disk' = [disk EXCEPT ![j] = f] /\ disk'[j].failure = Excuse(w)
    <3>1. disk[j] \in Files /\ Excuse(w) \in Code
      BY RowTypes DEF Excuse, Code, FailureCode, Interrupted
    <3>2. f \in Files /\ f.failure = Excuse(w)
      BY <3>1 DEF Files
    <3> QED
      BY <1>6, <3>2 DEF BatchIInv, BatchTypeOK, RenderTypeOK
  <2> HIDE DEF f
  <2>2. Moves(w, j, job[j], receipt[j], f)
    <3>1. receipt[j] \in Receipts /\ receipt[j].failure \notin Interrupted
      BY <1>3, RowTypes, WhatRowsSay
    <3>2. job' = [job EXCEPT ![j] = job[j]] /\ receipt' = [receipt EXCEPT ![j] = receipt[j]] /\ "retire" \in Stage
      BY <1>4, RowTypes DEF Stage
    <3>3. (\E where \in Stage : Continue(w, where)) \/ (\E v \in Verdict : Record(w, v))
      BY <1>2, <1>6, <3>2, ItemFailsIsRecord
    <3> QED
      BY <1>2, <1>3, <1>4, <1>6, <2>1, <3>1, <3>2, <3>3 DEF Moves, batchRow
  <2>3. Loads(j)' /\ Knows(w, j)'
    BY <1>2, <1>3, <1>4 DEF Loads, NoReceipts, Knows
  <2>4. CASE Continue(w, "retire")
    <3>1. stage'[w] = "retire" /\ at'[w] = "idle"
      BY <1>2, <1>4, <2>4, DrainFacts DEF Continue, To, worker, BatchIInv, BatchTypeOK
    <3>2. ASSUME Attempt(w)' = j PROVE AtStage(w)'
      <4>1. View(w)' = seen'[w][j]
        BY <3>2 DEF View
      <4>2. Excuse(w)' = Excuse(w)
        BY <1>2, <1>4, <4>1 DEF Excuse
      <4> QED
        BY <1>2, <1>4, <2>1, <3>1, <3>2, <4>1, <4>2 DEF AtStage
    <3> QED
      BY <1>1, <1>2, <1>4, <2>2, <2>3, <2>4, <3>2, AttemptGoes
  <2>5. CASE ItemFails(w) /\ Spend
    BY <1>1, <1>2, <1>4, <2>2, <2>3, <2>5, AttemptFails
  <2> QED
    BY <1>6, <2>4, <2>5
<1> QED
  BY <1>1, <1>5, <1>6 DEF WriteExcuse

\* The interrupted attempt is terminalized with the evidence that is on disk,
\* unless the preparation cancelled it.
LEMMA RetireKeeps == ASSUME BatchIInv, NEW w \in Workers, Retire(w) PROVE BatchIInv'
<1>1. PICK j \in Jobs : j = Attempt(w)
  BY DrainFacts DEF Retire, Stay, Draining
<1>2. /\ Draining(w) /\ stage[w] = "retire" /\ View(w) = seen[w][j] /\ Knows(w, j)
      /\ seen[w][j].state \in {"queued", "running"} /\ seen[w][j].claimed
      /\ disk[j].failure = Excuse(w)
  BY <1>1, KnowsItsAttempt DEF Retire, Stay, Draining, View, BatchIInv, AtStage
<1>3. /\ receipt[j] = NoReceipts /\ instance[j] # 0
      /\ job[j] = seen[w][j].state \/ job[j] = "cancelled"
  BY <1>2, OpenAttempt DEF Knows
<1>4. UNCHANGED <<disk, worker, batchRow, preparing, runs>>
  BY DEF Retire, Stay
<1>5. CASE /\ Transition(j, View(w).state, "failed", Retirement(w))
           /\ Learn(w, j, "failed", TRUE) /\ Continue(w, "retry") /\ Free
  <2> DEFINE r == [command |-> Retirement(w).command, artifact |-> Nobody, failure |-> Excuse(w)]
  <2>0. Nobody \notin Interrupted /\ Excuse(w) \in Interrupted /\ Excuse(w) \in Code /\ disk[j] \in Files
    BY RenderAssumption, RowTypes DEF FailureCode, Excuse, Interrupted, Code
  <2>1. /\ Retirement(w).command \in {Nobody, disk[j].command}
        /\ Retirement(w).artifact = Nobody /\ Retirement(w).failure = Excuse(w)
    BY <1>1 DEF Retirement
  <2>2. Appended(j, Retirement(w)) = r
    BY <1>3, <2>0, <2>1 DEF Appended, Added, NoReceipts
  <2>3. r \in Receipts /\ r.failure = Excuse(w) /\ r.artifact = Nobody /\ r.command \in {Nobody, disk[j].command}
    BY <2>0, <2>1 DEF Receipts, Files, Digest
  <2> HIDE DEF r
  <2>4. /\ job' = [job EXCEPT ![j] = "failed"]
        /\ receipt' = [receipt EXCEPT ![j] = r]
        /\ disk' = [disk EXCEPT ![j] = disk[j]]
        /\ seen' = [seen EXCEPT ![w][j] = [state |-> "failed", claimed |-> TRUE]]
    BY <1>4, <1>5, <2>2, RowTypes DEF Transition, Learn
  <2>5. Moves(w, j, "failed", r, disk[j])
    <3>1. [state |-> "failed", claimed |-> TRUE] \in [state : JobState, claimed : BOOLEAN] /\ "retry" \in Stage
      BY DEF JobState, Stage
    <3> QED
      BY <1>2, <1>3, <1>4, <1>5, <2>0, <2>3, <2>4, <3>1 DEF Moves, batchRow
  <2>6. /\ job'[j] = "failed" /\ receipt'[j] = r /\ instance' = instance /\ disk'[j] = disk[j]
        /\ seen'[w][j] = [state |-> "failed", claimed |-> TRUE]
    BY <1>4, <2>4 DEF BatchIInv, BatchTypeOK, RenderTypeOK, Snapshot, batchRow
  <2>7. Loads(j)' /\ Knows(w, j)'
    <3>1. Excuse(w) # "cancelled"
      BY DEF Excuse
    <3> QED
      BY <1>2, <1>3, <2>3, <2>6, <3>1 DEF Loads, Knows
  <2>8. Attempt(w)' = j => AtStage(w)'
    <3>1. stage'[w] = "retry" /\ at'[w] = "idle"
      BY <1>2, <1>4, <1>5, DrainFacts DEF Continue, To, worker, BatchIInv, BatchTypeOK
    <3> QED
      BY <2>0, <2>3, <2>6, <3>1 DEF AtStage
  <2> QED
    BY <1>1, <1>2, <1>5, <2>5, <2>6, <2>7, <2>8, AttemptGoes
<1>6. CASE ~CanTransition(j, View(w).state, Retirement(w)) /\ ItemFails(w) /\ UNCHANGED <<row, seen>> /\ Free
  <2>1. CanAppend(j, Retirement(w))
    BY <1>3 DEF CanAppend, NoReceipts
  <2>2. job[j] = "cancelled"
    BY <1>2, <1>3, <1>6, <2>1 DEF CanTransition
  <2> QED
    BY <1>1, <1>2, <1>3, <1>4, <1>6, <2>2, QuietFail, WhatRowsSay
<1>7. CASE ItemFails(w) /\ UNCHANGED <<row, seen>> /\ Spend
  BY <1>2, <1>4, <1>7, QuietFail, BudgetKeeps
<1> QED
  BY <1>1, <1>5, <1>6, <1>7 DEF Retire

\* The claim of this drain enters the row, unless the preparation cancelled it.
LEMMA MarkKeeps == ASSUME BatchIInv, NEW w \in Workers, Mark(w) PROVE BatchIInv'
<1>1. PICK j \in Jobs : j = Attempt(w)
  BY DrainFacts DEF Mark, Stay, Draining
<1>2. /\ Draining(w) /\ stage[w] = "mark" /\ View(w) = seen[w][j] /\ Knows(w, j)
      /\ seen[w][j].state = "queued" /\ ~seen[w][j].claimed
  BY <1>1, KnowsItsAttempt DEF Mark, Stay, Draining, View, BatchIInv, AtStage
<1>3. /\ receipt[j] = NoReceipts /\ instance[j] = 0 /\ receipt[j].failure \notin Interrupted
      /\ job[j] = "queued" \/ job[j] = "cancelled"
  <2>1. receipt[j] = NoReceipts /\ instance[j] = 0 /\ (job[j] = "queued" \/ job[j] = "cancelled")
    BY <1>2, OpenAttempt DEF Knows
  <2> QED
    BY <2>1, WhatRowsSay
<1>4. UNCHANGED <<row, disk, worker, parent, result, published, export, preparing, runs>>
  BY DEF Mark, Stay
<1>5. CASE /\ job[j] = "queued" /\ instance' = [instance EXCEPT ![j] = mine[w]]
           /\ Learn(w, j, "queued", TRUE) /\ Continue(w, "render") /\ Free
  <2>1. seen' = [seen EXCEPT ![w][j] = [state |-> "queued", claimed |-> TRUE]]
    BY <1>5 DEF Learn
  <2>2. Moves(w, j, job[j], receipt[j], disk[j])
    <3>1. [state |-> "queued", claimed |-> TRUE] \in [state : JobState, claimed : BOOLEAN] /\ "render" \in Stage
      BY DEF JobState, Stage
    <3> QED
      BY <1>2, <1>3, <1>4, <1>5, <2>1, <3>1, RowTypes DEF Moves, row
  <2>3. /\ job' = job /\ receipt' = receipt /\ disk' = disk /\ instance'[j] = mine[w]
        /\ seen'[w][j] = [state |-> "queued", claimed |-> TRUE]
    BY <1>4, <1>5, <2>1 DEF BatchIInv, BatchTypeOK, RenderTypeOK, Snapshot, row
  <2>4. Loads(j)'
    BY <2>3, WhatRowsSay DEF Loads
  <2>5. Attempt(w)' = j => AtStage(w)'
    <3>1. stage'[w] = "render" /\ at'[w] = "idle" /\ mine'[w] = mine[w]
      BY <1>2, <1>4, <1>5, DrainFacts DEF Continue, To, worker, BatchIInv, BatchTypeOK
    <3> QED
      BY <1>3, <1>5, <2>3, <3>1 DEF AtStage
  <2> QED
    BY <1>1, <1>2, <1>5, <2>2, <2>4, <2>5, AttemptGoes
<1>6. CASE ~(job[j] = "queued" /\ instance[j] = 0) /\ ItemFails(w) /\ UNCHANGED <<instance, seen>> /\ Free
  <2>1. job[j] = "cancelled"
    BY <1>3, <1>6
  <2> QED
    BY <1>1, <1>2, <1>3, <1>4, <1>6, <2>1, QuietFail DEF batchRow
<1>7. CASE ItemFails(w) /\ UNCHANGED <<instance, seen>> /\ Spend
  BY <1>2, <1>4, <1>7, QuietFail, BudgetKeeps DEF batchRow
<1> QED
  BY <1>1, <1>5, <1>6, <1>7 DEF Mark

\* Another attempt is made from the plan of the interrupted one, and is the
\* newest then.
LEMMA RetryKeeps == ASSUME BatchIInv, NEW w \in Workers, Retry(w) PROVE BatchIInv'
<1>1. PICK c \in Items, k \in Indices : c = cur[w] /\ k = Newest(w, cur[w]) /\ Attempt(w) = <<c, k>> /\ <<c, k>> \in Jobs
  BY DrainFacts DEF Retry, Stay, Draining
<1> DEFINE j == <<c, k>>  n == <<c, k + 1>>
<1>2. /\ Draining(w) /\ stage[w] = "retry" /\ Knows(w, j)
      /\ job[j] = "failed" /\ receipt[j].failure \in Interrupted
  BY <1>1, KnowsItsAttempt DEF Retry, Stay, Draining, BatchIInv, AtStage
<1>3. UNCHANGED <<worker, batchRow, preparing, runs>>
  BY DEF Retry, Stay
<1>4. CASE /\ n \in Jobs /\ Create(n, "queued")
           /\ Learn(w, n, "queued", FALSE) /\ Continue(w, "mark") /\ Free
  <2>1. k + 1 \in Indices /\ k \in Nat
    BY <1>1, <1>4, BatchAssumption, RenderAssumption DEF Indices
  <2>2. /\ job[n] = "none" /\ job' = [job EXCEPT ![n] = "queued"] /\ receipt' = receipt
        /\ disk' = [disk EXCEPT ![n].plan = TRUE] /\ instance[n] = 0 /\ instance' = instance
        /\ receipt[n] = NoReceipts
    BY <1>3, <1>4 DEF Create, BatchIInv, Claims, RenderIInv, OpenIsBlank, batchRow
  <2>3. RenderIInv'
    BY <1>3, <1>4, CreateKeeps DEF BatchIInv, Free
  <2>4. /\ job'[n] = "queued"
        /\ \A i \in Jobs \ {n} : job'[i] = job[i] /\ disk'[i] = disk[i]
    BY <1>4, <2>2 DEF BatchIInv, BatchTypeOK, RenderTypeOK
  <2>5. /\ seen' \in [Workers -> Snapshot] /\ \A i \in Jobs \ {n} : seen'[w][i] = seen[w][i]
        /\ seen'[w][n] = [state |-> "queued", claimed |-> FALSE]
    <3>1. seen \in [Workers -> Snapshot] /\ seen[w] \in Snapshot
      BY DEF BatchIInv, BatchTypeOK
    <3>2. [state |-> "queued", claimed |-> FALSE] \in [state : JobState, claimed : BOOLEAN]
      BY DEF JobState
    <3>3. [seen[w] EXCEPT ![n] = [state |-> "queued", claimed |-> FALSE]] \in Snapshot
      BY <1>4, <3>1, <3>2 DEF Snapshot
    <3>4. seen'[w] = [seen[w] EXCEPT ![n] = [state |-> "queued", claimed |-> FALSE]]
      BY <1>4, <3>1 DEF Learn
    <3>5. seen' \in [Workers -> Snapshot]
      BY <1>4, <3>1, <3>3 DEF Learn
    <3> QED
      BY <1>4, <3>1, <3>4, <3>5 DEF Snapshot
  <2>6. Frame(w) /\ BatchTypeOK'
    <3>1. n[1] = cur[w] /\ "mark" \in Stage /\ faults' = faults
      BY <1>1, <1>4 DEF Stage, Free, budget
    <3>2. RenderTypeOK' /\ faults <= faults'
      BY <2>3, <3>1, BudgetKeeps, RenderAssumption DEF RenderIInv, RenderInv
    <3>3. /\ \A v \in Workers \ {w} : at'[v] = at[v]
          /\ UNCHANGED <<parent, result, published, export, preparing, runs, instance>>
          /\ instance' \in [Jobs -> Nat]
      BY <1>3 DEF worker, batchRow, BatchIInv, BatchTypeOK
    <3> HIDE DEF n
    <3> QED
      BY <1>2, <1>4, <2>2, <2>4, <2>5, <3>1, <3>2, <3>3, OwnStep
  <2>7. Claims' /\ OnlyInterruptionIsRetried'
    <3>1. n[1] = c /\ n[2] = k + 1 /\ n[2] - 1 = k
      BY <2>1
    <3>2. \A i \in Indices : i > n[2] => ~Made(<<n[1], i>>)
      BY <1>1, <1>2, <2>1, <3>1, DrainFacts, RenderAssumption, BatchAssumption DEF Indices
    <3>3. /\ receipt'[n].failure \notin Interrupted
          /\ instance[j] # 0 /\ disk[j].failure = receipt[j].failure
      <4>1. Nobody \notin Interrupted
        BY RenderAssumption DEF FailureCode
      <4>2. Loads(j) /\ instance[j] # 0
        BY <1>1, <1>2, WhatRowsSay DEF BatchIInv, Claims
      <4> QED
        BY <1>2, <2>2, <4>1, <4>2 DEF Loads, NoReceipts
    <3>4. runs' = runs /\ instance'[n] \in Nat /\ instance'[n] <= runs /\ instance'[n] = 0 /\ job'[n] = "queued"
      BY <1>3, <1>4, <2>2, <2>4 DEF BatchIInv, Claims, BatchTypeOK
    <3>5. \A i \in Jobs \ {n} : /\ job'[i] = job[i] /\ receipt'[i] = receipt[i] /\ disk'[i] = disk[i]
                                /\ instance'[i] = instance[i]
      BY <2>2, <2>4
    <3>6. LET before == <<n[1], n[2] - 1>> IN
           /\ job[before] = "failed"
           /\ receipt[before].failure \in Interrupted
           /\ disk[before].failure = receipt[before].failure
           /\ instance[before] # 0
      BY <1>2, <3>1, <3>3
    <3> HIDE DEF n
    <3> QED
      BY <1>4, <3>2, <3>3, <3>4, <3>5, <3>6, ChainKeeps
  <2>8. /\ at'[w] = "idle" /\ stage'[w] = "mark" /\ cur'[w] = cur[w] /\ verdicts'[w] = verdicts[w]
        /\ verdicts[w] \in [Items -> Verdict] /\ mine'[w] = mine[w]
    BY <1>2, <1>3, <1>4, DrainFacts DEF worker, Continue, To, BatchIInv, BatchTypeOK
  <2>9. Attempt(w)' = n
    <3>1. \A i \in Indices : i # k + 1 => seen'[w][<<c, i>>] = seen[w][<<c, i>>]
      <4>1. \A i \in Indices : <<c, i>> \in Jobs
        BY BatchAssumption
      <4> QED
        BY <2>5, <4>1
    <3>2. \A i \in Indices : i > k => seen[w][<<c, i>>].state = "none"
      BY <1>1, TopIsTop, NewestIsTop DEF IsTop
    <3>3. IsTop(seen'[w], c, k + 1)
      BY <2>1, <2>5, <3>1, <3>2, RenderAssumption, BatchAssumption DEF IsTop, Indices
    <3>4. Newest(w, cur[w])' = Top(seen'[w], c)
      BY <1>1, <2>8 DEF Newest, Top, IsTop
    <3>5. Newest(w, cur[w])' = k + 1
      BY <2>1, <3>3, <3>4, TopIsTop
    <3> QED
      BY <1>1, <2>8, <3>5 DEF Attempt
  <2>10. \A m \in Indices : LET i == <<cur[w], m>> IN
           /\ Ahead(w, cur[w])' => Knows(w, i)' /\ instance'[i] < mine[w]
           /\ m > 0 => (seen'[w][i].state = "none" <=> job'[i] = "none")
    <3> SUFFICES ASSUME NEW m \in Indices
                 PROVE  LET i == <<cur[w], m>> IN
                        /\ Knows(w, i)' /\ instance'[i] < mine[w]
                        /\ m > 0 => (seen'[w][i].state = "none" <=> job'[i] = "none")
      OBVIOUS
    <3>0. <<c, m>> \in Jobs
      BY BatchAssumption
    <3>1. /\ Knows(w, <<c, m>>) /\ instance[<<c, m>>] < mine[w]
          /\ m > 0 => (seen[w][<<c, m>>].state = "none" <=> job[<<c, m>>] = "none")
      BY <1>1, <1>2, KnowsItsAttempt
    <3>2. CASE m = k + 1
      BY <1>1, <2>2, <2>4, <2>5, <2>8, <3>1, <3>2 DEF Knows
    <3>3. CASE m # k + 1
      <4>1. <<c, m>> # n
        BY <3>3
      <4> QED
        BY <1>1, <2>2, <2>4, <2>5, <2>8, <3>0, <3>1, <4>1 DEF Knows
    <3> QED
      BY <3>2, <3>3
  <2>11. AtStage(w)'
    BY <2>5, <2>8, <2>9 DEF AtStage, View
  <2>12. Worker(w)'
    BY <1>2, <2>6, <2>8, <2>10, <2>11, ContinueKeeps DEF Draining
  <2> QED
    BY <1>2, <2>3, <2>6, <2>7, <2>12, Assemble
<1>5. CASE ~disk[j].plan /\ ItemFails(w) /\ UNCHANGED <<row, disk, seen>> /\ Free
  BY <1>1, <1>2, <1>3, <1>5, QuietFail
<1>6. CASE ItemFails(w) /\ UNCHANGED <<row, disk, seen>> /\ Spend
  BY <1>2, <1>3, <1>6, QuietFail, BudgetKeeps
<1> QED
  <2>1. Attempt(w)[1] = c /\ Attempt(w)[2] = k
    BY <1>1
  <2> QED
    BY <1>1, <1>4, <1>5, <1>6, <2>1 DEF Retry

----------------------------------------------------------------------------
(* Rendering and judging *)

\* What one step of run_job makes of its job, as its caller sees it.
LEMMA RunStepTells ==
  ASSUME RenderIInv, NEW w \in Workers, RunStep(w), NEW j, j = On(w), Nobody \notin Interrupted
  PROVE  /\ j \in Jobs /\ job[j] = "running" /\ at[w] # "idle" /\ at'[w] # "idle"
         /\ On(w)' = j /\ \A v \in Workers \ {w} : at'[v] = at[v]
         /\ \A i \in Jobs \ {j} : job'[i] = job[i] /\ receipt'[i] = receipt[i] /\ disk'[i] = disk[i]
         /\ job'[j] \in {"running", "succeeded", "failed", "cancelled"}
         /\ at'[w] = "returned" => job'[j] = "succeeded"
         /\ at'[w] = "raised" /\ faults' = 0 => job'[j] # "running"
         /\ receipt'[j].failure \notin Interrupted
<1> USE DEF RenderIInv, RenderInv
<1>0. Effect(w) /\ Inside(w) /\ Tells(w)
  BY RunStepEffect DEF LocalsTellFiles
<1>1. /\ j \in Jobs /\ mem[w] \in Locals /\ job[j] = "running" /\ receipt[j] = NoReceipts
      /\ at[w] # "idle"
  BY <1>0 DEF RunnerOwnsJob, Inside, RenderTypeOK, On, Locals, Executing, Cleaning
<1>2. /\ \A i \in Jobs \ {j} : disk'[i] = disk[i]
      /\ On(w)' = j /\ \A v \in Workers \ {w} : at'[v] = at[v]
  BY <1>0, <1>1 DEF Effect, RenderTypeOK, On
<1>3. CASE Compile(w) \/ Encode(w) \/ Audit(w) \/ Seal(w) \/ Discard(w) \/ Explain(w)
  <2>1. UNCHANGED row /\ at'[w] \in {"encode", "audit", "seal", "commit", "discard", "explain", "close"}
    BY <1>3 DEF Compile, Encode, Audit, Seal, Discard, Explain, Goto, Raise, RenderTypeOK
  <2> QED
    BY <1>1, <1>2, <2>1 DEF row, NoReceipts
<1>4. CASE Commit(w)
  <2>1. CASE Transition(j, "running", "succeeded", Sealed(w)) /\ Goto(w, "returned")
    <3>1. Appended(j, Sealed(w)).failure = Nobody
      BY <1>1 DEF Appended, Added, Sealed, NoReceipts
    <3>2. /\ job'[j] = "succeeded" /\ receipt'[j] = Appended(j, Sealed(w)) /\ at'[w] = "returned"
          /\ \A i \in Jobs \ {j} : job'[i] = job[i] /\ receipt'[i] = receipt[i]
      BY <1>1, <2>1 DEF Transition, Goto, RenderTypeOK
    <3> QED
      BY <1>1, <1>2, <3>1, <3>2
  <2>2. CASE UNCHANGED row /\ Raise(w, "failed")
    <3>1. at'[w] = "discard" /\ job' = job /\ receipt' = receipt
      BY <2>2 DEF Raise, Goto, RenderTypeOK, row
    <3> QED
      BY <1>1, <1>2, <3>1 DEF NoReceipts
  <2> QED
    BY <1>4, <2>1, <2>2 DEF Commit, On
<1>5. CASE Close(w)
  <2>1. at'[w] = "raised" /\ CanTransition(j, "running", Closing(w))
    BY <1>1, <1>5 DEF Close, Goto, RenderTypeOK, CanTransition, CanAppend, NoReceipts, On
  <2>2. CASE Transition(j, "running", mem[w].code, Closing(w))
    <3>1. Appended(j, Closing(w)).failure \in {Nobody, mem[w].noted}
      BY <1>1 DEF Appended, Added, Closing, NoReceipts
    <3>2. /\ job'[j] = mem[w].code /\ receipt'[j] = Appended(j, Closing(w))
          /\ \A i \in Jobs \ {j} : job'[i] = job[i] /\ receipt'[i] = receipt[i]
      BY <1>1, <2>2 DEF Transition, RenderTypeOK
    <3>3. mem[w].code \in {"failed", "cancelled"} /\ mem[w].noted \in {Nobody, mem[w].code}
      BY <1>0, <1>1 DEF Tells, Locals
    <3> QED
      BY <1>1, <1>2, <2>1, <3>1, <3>2, <3>3 DEF Interrupted
  <2>3. CASE UNCHANGED row /\ Spend
    <3>1. faults' # 0
      BY <2>3, RenderAssumption DEF Spend, RenderTypeOK
    <3> QED
      BY <1>1, <1>2, <2>1, <2>3, <3>1 DEF row, NoReceipts
  <2> QED
    BY <1>5, <2>1, <2>2, <2>3 DEF Close, On
<1> QED
  BY <1>3, <1>4, <1>5 DEF RunStep

\* run_job of the attempt: its row moves while the drain waits.
LEMMA RenderKeeps == ASSUME BatchIInv, NEW w \in Workers, Render(w) PROVE BatchIInv'
<1>1. PICK j \in Jobs : j = Attempt(w) /\ j[1] = cur[w]
  BY DrainFacts DEF Render, Draining
<1>2. /\ Draining(w) /\ stage[w] = "render" /\ UNCHANGED <<batchRow, preparing, runs, lease, drain>>
      /\ \A k \in Indices : k > j[2] => ~Made(<<j[1], k>>)
      /\ Made(j) /\ mine[w] = runs /\ runs \in Nat /\ runs > 0
      /\ Nobody \notin Interrupted
  BY <1>1, DrainFacts, RenderAssumption DEF Render, Draining, FailureCode
<1>3. /\ instance[j] = mine[w] /\ receipt[j].failure \notin Interrupted
      /\ at[w] = "idle" => job[j] \in {"queued", "cancelled"}
      /\ at[w] # "idle" => On(w) = j
  BY <1>1, <1>2 DEF BatchIInv, AtStage, Seat
<1>4. /\ RenderIInv'
      /\ at'[w] # "idle" /\ On(w)' = j /\ \A v \in Workers \ {w} : at'[v] = at[v]
      /\ \A i \in Jobs \ {j} : job'[i] = job[i] /\ receipt'[i] = receipt[i] /\ disk'[i] = disk[i]
      /\ job'[j] \in {"queued", "running", "succeeded", "failed", "cancelled"}
      /\ at'[w] = "returned" => job'[j] = "succeeded"
      /\ at'[w] = "raised" /\ faults' = 0 => job'[j] \notin {"queued", "running"}
      /\ receipt'[j].failure \notin Interrupted
      /\ faults <= faults'
  <2> USE DEF BatchIInv
  <2>1. CASE RunStep(w)
    <3>1. On(w) = j
      BY <1>3, <2>1, RunStepTells, <1>2
    <3>2. Effect(w)
      BY <2>1, RunStepEffect DEF BatchTypeOK
    <3>3. Free \/ Spend
      BY <2>1 DEF RunStep, Compile, Encode, Audit, Seal, Commit, Discard, Explain, Close
    <3> QED
      BY <1>2, <2>1, <3>1, <3>3, RunStepTells, RunStepKeeps, BudgetKeeps
  <2>2. CASE Claim(w, j)
    <3>1. job[j] = "queued" /\ receipt[j] = NoReceipts /\ Appended(j, NoReceipts) = NoReceipts
      <4>1. job[j] = "queued" /\ receipt[j] = NoReceipts
        BY <2>2, OpenAttempt DEF Claim, Transition, CanTransition
      <4> QED
        BY <4>1 DEF Appended, Added, NoReceipts
    <3>2. /\ job'[j] = "running" /\ receipt'[j] = NoReceipts /\ disk' = disk /\ faults' = faults
          /\ at' = [at EXCEPT ![w] = "compile"] /\ mem' = [mem EXCEPT ![w] = Fresh(j)]
          /\ \A i \in Jobs \ {j} : job'[i] = job[i] /\ receipt'[i] = receipt[i]
      BY <2>2, <3>1 DEF Claim, Transition, Goto, budget, BatchTypeOK, RenderTypeOK
    <3>3. Fresh(j).job = j
      BY DEF Fresh
    <3>4. at'[w] = "compile" /\ On(w)' = j /\ \A v \in Workers \ {w} : at'[v] = at[v]
      BY <3>2, <3>3 DEF On, BatchTypeOK, RenderTypeOK
    <3>5. faults <= faults'
      BY <3>2, BudgetKeeps, RenderAssumption
    <3> QED
      BY <1>3, <2>2, <3>1, <3>2, <3>4, <3>5, ClaimKeeps
  <2>3. CASE ClaimRefused(w, j)
    <3>1. /\ job' = job /\ receipt' = receipt /\ disk' = disk
          /\ at' = [at EXCEPT ![w] = "raised"] /\ mem' = [mem EXCEPT ![w] = Fresh(j)]
          /\ Free \/ Spend
      BY <2>3 DEF ClaimRefused, Goto, row
    <3>2. Fresh(j).job = j
      BY DEF Fresh
    <3>3. at'[w] = "raised" /\ On(w)' = j /\ \A v \in Workers \ {w} : at'[v] = at[v]
      BY <3>1, <3>2 DEF On, BatchTypeOK, RenderTypeOK
    <3>4. job[j] \in {"queued", "cancelled"}
      BY <1>3, <2>3 DEF ClaimRefused
    <3>5. faults' = 0 => job[j] = "cancelled"
      BY <2>3, <3>4, BudgetKeeps DEF ClaimRefused
    <3>6. faults <= faults'
      BY <3>1, BudgetKeeps
    <3>7. RenderIInv'
      BY <2>3, CallerKeeps
    <3> QED
      BY <1>3, <3>1, <3>3, <3>4, <3>5, <3>6, <3>7
  <2> QED
    BY <1>1, <1>2, <2>1, <2>2, <2>3 DEF Render
<1>5. /\ UNCHANGED <<parent, result, published, export, preparing, runs, instance, seen, stage, cur, verdicts, mine, lease>>
      /\ Continue(w, "render") /\ "render" \in Stage
  <2>1. UNCHANGED <<parent, result, published, export, preparing, runs, instance, seen, stage, cur, verdicts, mine, lease>>
    BY <1>2 DEF batchRow, drain
  <2> QED
    BY <1>2, <2>1 DEF Continue, To, Stage, BatchIInv, BatchTypeOK
<1>6. Frame(w) /\ BatchTypeOK'
  <2>1. RenderTypeOK' /\ instance' \in [Jobs -> Nat] /\ seen' \in [Workers -> Snapshot]
    BY <1>4, <1>5 DEF RenderIInv, RenderInv, BatchIInv, BatchTypeOK
  <2> QED
    BY <1>1, <1>2, <1>4, <1>5, <2>1, OwnStep
<1>7. Claims' /\ OnlyInterruptionIsRetried'
  <2>1. j[2] > 0 => LET before == <<j[1], j[2] - 1>> IN
           /\ job[before] = "failed"
           /\ receipt[before].failure \in Interrupted
           /\ disk[before].failure = receipt[before].failure
           /\ instance[before] # 0
           /\ instance[j] # 0 => instance[before] < instance[j]
    <3>1. j[1] \in Items /\ j[2] \in Indices /\ j = <<j[1], j[2]>>
      BY BatchAssumption
    <3> QED
      BY <1>2, <3>1 DEF BatchIInv, OnlyInterruptionIsRetried
  <2>2. /\ instance'[j] \in Nat /\ instance'[j] <= runs /\ instance'[j] # 0 /\ runs' = runs /\ instance' = instance
        /\ job'[j] \notin {"none", "batch_held"}
    BY <1>2, <1>3, <1>4, <1>5
  <2> QED
    BY <1>2, <1>4, <2>1, <2>2, ChainKeeps
<1>8. Attempt(w)' = j
  BY <1>1, <1>5, AttemptStays
<1>9. AtStage(w)'
  BY <1>2, <1>3, <1>4, <1>5, <1>8 DEF AtStage
<1>10. \A k \in Indices : LET i == <<cur[w], k>> IN
           /\ Ahead(w, cur[w])' => Knows(w, i)' /\ instance'[i] < mine[w]
           /\ k > 0 => (seen'[w][i].state = "none" <=> job'[i] = "none")
  <2>1. ~Ahead(w, cur[w])'
    BY <1>2, <1>5, DrainFacts DEF Ahead, Items
  <2>2. \A i \in Jobs : i[2] > 0 => (seen[w][i].state = "none" <=> job[i] = "none")
    BY <1>2 DEF BatchIInv, Informed
  <2>3. \A i \in Jobs : job[i] = "none" <=> job'[i] = "none"
    BY <1>2, <1>4 DEF Made
  <2>4. \A k \in Indices : <<cur[w], k>> \in Jobs
    BY <1>2, DrainFacts, BatchAssumption
  <2> QED
    BY <1>5, <2>1, <2>2, <2>3, <2>4
<1>11. Worker(w)'
  <2>1. verdicts[w] \in [Items -> Verdict]
    BY DEF BatchIInv, BatchTypeOK
  <2> QED
    BY <1>2, <1>4, <1>5, <1>6, <1>8, <1>9, <1>10, <2>1, ContinueKeeps DEF Draining
<1> QED
  BY <1>2, <1>4, <1>6, <1>7, <1>11, Assemble

\* A drain that takes back control of its worker disturbs no row.
LEMMA ReturnKeeps ==
  ASSUME BatchIInv, NEW w \in Workers, Goto(w, "idle"), UNCHANGED <<row, disk, mem>>,
         faults' \in 0..MaxFaults, deaths' \in 0..MaxDeaths
  PROVE  RenderIInv' /\ at'[w] = "idle" /\ \A v \in Workers \ {w} : at'[v] = at[v]
<1> USE DEF BatchIInv, BatchTypeOK
<1>1. at' = [at EXCEPT ![w] = "idle"] /\ job' = job /\ receipt' = receipt /\ disk' = disk /\ mem' = mem
  BY DEF Goto, row
<1>2. at'[w] = "idle" /\ \A v \in Workers \ {w} : at'[v] = at[v] /\ mem'[v] = mem[v]
  BY <1>1 DEF RenderTypeOK
<1>3. RenderTypeOK'
  BY <1>1 DEF RenderTypeOK, Resting
<1>4. ~Inside(w)'
  BY <1>2 DEF Inside, Executing, Cleaning
<1> QED
  BY <1>2, <1>3, <1>4, AwayKeeps

\* What a drain knows of the item it is at.
LEMMA OwnIndex ==
  ASSUME BatchIInv, NEW w \in Workers, Draining(w)
  PROVE  /\ \A k \in Indices : <<cur[w], k>> \in Jobs
         /\ \A k \in Indices : k > 0 => (seen[w][<<cur[w], k>>].state = "none" <=> job[<<cur[w], k>>] = "none")
         /\ instance \in [Jobs -> Nat] /\ seen \in [Workers -> Snapshot]
         /\ verdicts[w] \in [Items -> Verdict]
<1>1. \A k \in Indices : <<cur[w], k>> \in Jobs
  BY DrainFacts, BatchAssumption
<1>2. \A i \in Jobs : i[2] > 0 => (seen[w][i].state = "none" <=> job[i] = "none")
  BY DEF BatchIInv, Informed
<1> QED
  BY <1>1, <1>2 DEF BatchIInv, BatchTypeOK

\* The render succeeded.
LEMMA RenderedKeeps == ASSUME BatchIInv, NEW w \in Workers, Rendered(w) PROVE BatchIInv'
<1>1. PICK j \in Jobs : j = Attempt(w) /\ j[1] = cur[w]
  BY DrainFacts DEF Rendered, Stay, Draining
<1>2. /\ Draining(w) /\ stage[w] = "render" /\ at[w] = "returned" /\ job[j] = "succeeded"
      /\ Continue(w, "judge") /\ "judge" \in Stage
  BY <1>1 DEF Rendered, Stay, Draining, BatchIInv, AtStage, Stage
<1>3. UNCHANGED <<job, receipt, disk, instance, parent, result, published, export, preparing, runs, seen, mem>>
      /\ faults' = faults /\ deaths' = deaths /\ Goto(w, "idle")
  BY DEF Rendered, Stay, row, batchRow, budget
<1>4. RenderIInv' /\ at'[w] = "idle" /\ \A v \in Workers \ {w} : at'[v] = at[v]
  BY <1>3, ReturnKeeps, BudgetKeeps DEF row
<1>5. Frame(w) /\ BatchTypeOK'
  <2>1. RenderTypeOK' /\ faults <= faults'
    BY <1>3, <1>4, BudgetKeeps, RenderAssumption DEF RenderIInv, RenderInv
  <2> QED
    BY <1>1, <1>2, <1>3, <1>4, <2>1, OwnIndex, OwnStep
<1>6. Claims' /\ OnlyInterruptionIsRetried'
  BY <1>3, ClaimsStay DEF row
<1>7. stage'[w] = "judge" /\ cur'[w] = cur[w] /\ verdicts'[w] = verdicts[w] /\ verdicts[w] \in [Items -> Verdict]
  BY <1>2 DEF Continue, To, BatchIInv, BatchTypeOK
<1>8. Attempt(w)' = j
  BY <1>1, <1>3, <1>7, AttemptStays
<1>9. AtStage(w)'
  BY <1>2, <1>3, <1>4, <1>7, <1>8 DEF AtStage
<1>10. \A k \in Indices : LET i == <<cur[w], k>> IN
           /\ Ahead(w, cur[w])' => Knows(w, i)' /\ instance'[i] < mine[w]
           /\ k > 0 => (seen'[w][i].state = "none" <=> job'[i] = "none")
  <2>1. ~Ahead(w, cur[w])'
    BY <1>2, <1>7, DrainFacts DEF Ahead, Items
  <2> QED
    BY <1>2, <1>3, <2>1, OwnIndex
<1>11. Worker(w)'
  BY <1>2, <1>4, <1>5, <1>7, <1>9, <1>10, ContinueKeeps DEF Draining
<1> QED
  BY <1>2, <1>4, <1>5, <1>6, <1>11, Assemble

\* The render failed: without faults its row has ended by itself.
LEMMA RenderFailedKeeps == ASSUME BatchIInv, NEW w \in Workers, RenderFailed(w) PROVE BatchIInv'
<1>1. PICK c \in Items, k \in Indices : c = cur[w] /\ k = Newest(w, cur[w]) /\ Attempt(w) = <<c, k>> /\ <<c, k>> \in Jobs
  BY DrainFacts DEF RenderFailed, Stay, Draining
<1> DEFINE j == <<c, k>>  v == [ok |-> FALSE, attempt |-> k]
           e == [state |-> job[j], claimed |-> instance[j] # 0]
<1>2. /\ Draining(w) /\ stage[w] = "render" /\ at[w] = "raised"
      /\ receipt[j].failure \notin Interrupted
      /\ faults = 0 => job[j] \notin {"queued", "running"}
      /\ v \in Verdict /\ Record(w, v) /\ v.ok = FALSE /\ v.attempt = k
      /\ Made(j) /\ \A n \in Indices : n > k => ~Made(<<c, n>>)
  <2>1. Draining(w) /\ stage[w] = "render" /\ at[w] = "raised" /\ ItemFails(w)
    BY DEF RenderFailed, Stay, Draining
  <2>2. /\ receipt[j].failure \notin Interrupted
        /\ faults = 0 => job[j] \notin {"queued", "running"}
    BY <1>1, <2>1 DEF BatchIInv, AtStage
  <2>3. v \in Verdict /\ Record(w, v) /\ v.ok = FALSE /\ v.attempt = k
    BY <1>1, <2>1 DEF ItemFails, Verdict
  <2>4. Made(j) /\ \A n \in Indices : n > k => ~Made(<<c, n>>)
    BY <1>1, <2>1, DrainFacts
  <2> QED
    BY <2>1, <2>2, <2>3, <2>4
<1>3. /\ UNCHANGED <<job, receipt, disk, instance, parent, result, published, export, preparing, runs, mem>>
      /\ faults' = faults /\ deaths' = deaths /\ Goto(w, "idle")
      /\ seen' = [seen EXCEPT ![w][j] = e]
  BY <1>1 DEF RenderFailed, Stay, Learn, row, batchRow, budget
<1>4. RenderIInv' /\ at'[w] = "idle" /\ \A u \in Workers \ {w} : at'[u] = at[u]
  BY <1>3, ReturnKeeps, BudgetKeeps DEF row
<1>5. /\ seen' \in [Workers -> Snapshot] /\ seen'[w][j].state = job[j]
      /\ \A i \in Jobs \ {j} : seen'[w][i] = seen[w][i]
  <2>1. e \in [state : JobState, claimed : BOOLEAN] /\ seen[w] \in Snapshot /\ seen \in [Workers -> Snapshot]
    BY <1>1, RowTypes DEF BatchIInv, BatchTypeOK
  <2>2. [seen[w] EXCEPT ![j] = e] \in Snapshot
    BY <1>1, <2>1 DEF Snapshot
  <2>3. seen'[w] = [seen[w] EXCEPT ![j] = e] /\ seen' \in [Workers -> Snapshot]
    BY <1>3, <2>1, <2>2
  <2> QED
    BY <1>1, <2>1, <2>3 DEF Snapshot
<1>6. Frame(w) /\ BatchTypeOK'
  <2>1. RenderTypeOK' /\ faults <= faults' /\ instance' \in [Jobs -> Nat] /\ j[1] = cur[w]
    BY <1>1, <1>2, <1>3, <1>4, BudgetKeeps, OwnIndex, RenderAssumption DEF RenderIInv, RenderInv
  <2>2. j \in Jobs /\ Draining(w) /\ \E u \in Verdict : Record(w, u)
    BY <1>1, <1>2
  <2>3. UNCHANGED <<job, receipt, disk, instance, parent, result, published, export, preparing, runs>>
    BY <1>3
  <2> HIDE DEF j, v
  <2> QED
    BY <1>4, <1>5, <2>1, <2>2, <2>3, OwnStep
<1>7. Claims' /\ OnlyInterruptionIsRetried'
  BY <1>3, ClaimsStay DEF row
<1>8. Sound(v, c, mine[w])'
  <2> HIDE DEF v
  <2> QED
    BY <1>2, <1>3 DEF Sound, Made
<1>9. \A n \in Indices : n > 0 => (seen'[w][<<cur[w], n>>].state = "none" <=> job'[<<cur[w], n>>] = "none")
  BY <1>1, <1>2, <1>3, <1>5, OwnIndex
<1>10. Worker(w)'
  <2> HIDE DEF v
  <2> QED
    BY <1>1, <1>2, <1>4, <1>6, <1>8, <1>9, RecordKeeps
<1> QED
  BY <1>2, <1>4, <1>6, <1>7, <1>10, Assemble

\* A verdict on a render that succeeded.
LEMMA JudgeKeeps == ASSUME BatchIInv, NEW w \in Workers, Judge(w) PROVE BatchIInv'
<1>1. PICK c \in Items, k \in Indices : c = cur[w] /\ k = Newest(w, cur[w]) /\ Attempt(w) = <<c, k>> /\ <<c, k>> \in Jobs
  BY DrainFacts DEF Judge, Stay, Draining
<1> DEFINE j == <<c, k>>
<1>2. /\ Draining(w) /\ stage[w] = "judge" /\ at[w] = "idle" /\ job[j] = "succeeded"
      /\ Loadable(j) /\ receipt[j].failure \notin Interrupted
      /\ Made(j) /\ \A n \in Indices : n > k => ~Made(<<c, n>>)
  <2>1. Draining(w) /\ stage[w] = "judge"
    BY DEF Judge, Stay, Draining
  <2> QED
    BY <1>1, <2>1, DrainFacts, WhatRowsSay DEF BatchIInv, AtStage
<1>3. /\ UNCHANGED <<job, receipt, disk, instance, at, mem, faults, deaths, parent, result, published, preparing, runs, seen>>
      /\ UNCHANGED <<row, disk, worker, budget>>
  BY DEF Judge, Stay, renderVars, row, worker, budget
<1>4. ASSUME NEW ok \in BOOLEAN, Record(w, [ok |-> ok, attempt |-> k]), export' = [export EXCEPT ![cur[w]] = mine[w]]
      PROVE  BatchIInv'
  <2> DEFINE v == [ok |-> ok, attempt |-> k]
  <2>1. v \in Verdict /\ v.attempt = k /\ Record(w, v)
    BY <1>4 DEF Verdict
  <2>2. faults' \in 0..MaxFaults /\ deaths' \in 0..MaxDeaths /\ faults <= faults'
    BY <1>3, BudgetKeeps, RenderAssumption
  <2>3. RenderIInv' /\ Claims' /\ OnlyInterruptionIsRetried'
    BY <1>3, <2>2, QuietRows
  <2>4. /\ export' \in [Items -> Nat] /\ export'[c] = mine[w] /\ \A i \in Items \ {c} : export'[i] = export[i]
    BY <1>1, <1>4 DEF BatchIInv, BatchTypeOK
  <2>5. mine' = mine /\ lease' = lease
    BY <2>1 DEF Record
  <2> HIDE DEF v
  <2>6. BatchTypeOK'
    <3>1. RenderTypeOK' /\ result' \in Outcome
      BY <1>3, <2>3 DEF RenderIInv, RenderInv, BatchIInv, BatchTypeOK
    <3> QED
      BY <1>2, <1>3, <2>1, <2>4, <2>5, <3>1, OwnIndex, DrainTypes
  <2>7. Frame(w)
    <3>1. /\ \A u \in Workers \ {w} : stage'[u] = stage[u] /\ cur'[u] = cur[u]
          /\ \A i \in Items \ {cur[w]} : verdicts'[w][i] = verdicts[w][i]
      BY <2>1 DEF Record, To, BatchIInv, BatchTypeOK
    <3> QED
      BY <1>1, <1>3, <2>2, <2>4, <2>5, <3>1 DEF Frame
  <2>8. Sound(v, c, mine[w])'
    BY <1>2, <1>3, <2>1, <2>4, <2>5 DEF Sound, Made, Loadable
  <2>9. \A n \in Indices : n > 0 => (seen'[w][<<cur[w], n>>].state = "none" <=> job'[<<cur[w], n>>] = "none")
    BY <1>2, <1>3, OwnIndex
  <2>10. Worker(w)'
    BY <1>1, <1>2, <1>3, <2>1, <2>7, <2>8, <2>9, RecordKeeps
  <2> QED
    BY <1>2, <2>3, <2>6, <2>7, <2>10, Assemble
<1>5. CASE ItemFails(w) /\ UNCHANGED export
  BY <1>1, <1>2, <1>3, <1>5, QuietFail DEF Free, batchRow
<1> QED
  BY <1>1, <1>4, <1>5 DEF Judge

----------------------------------------------------------------------------
(* Publishing, entering and leaving *)

\* batch-result.json says what the drain has collected.
LEMMA WriteResultKeeps == ASSUME BatchIInv, NEW w \in Workers, WriteResult(w) PROVE BatchIInv'
<1>1. Draining(w) /\ stage[w] = "publish" /\ at[w] = "idle" /\ Continue(w, "settle") /\ "settle" \in Stage
  <2>1. Draining(w) /\ stage[w] = "publish"
    BY DEF WriteResult, Stay, Draining
  <2> QED
    BY <2>1, DrainFacts DEF WriteResult, Stage
<1>2. /\ UNCHANGED <<job, receipt, disk, instance, at, mem, faults, deaths, parent, export, published, preparing, runs, seen>>
      /\ UNCHANGED <<row, disk, worker, budget>> /\ result' = Collected(w)
  BY DEF WriteResult, Stay, renderVars, row, worker, budget
<1>3. UNCHANGED <<cur, mine, verdicts, lease>> /\ stage' = [stage EXCEPT ![w] = "settle"]
  BY <1>1 DEF Continue, To
<1>4. faults' \in 0..MaxFaults /\ deaths' \in 0..MaxDeaths /\ faults <= faults'
  BY <1>2, BudgetKeeps, RenderAssumption
<1>5. RenderIInv' /\ Claims' /\ OnlyInterruptionIsRetried'
  BY <1>2, <1>4, QuietRows
<1>6. BatchTypeOK'
  <2>1. RenderTypeOK' /\ result' \in Outcome
    BY <1>2, <1>5 DEF RenderIInv, RenderInv, BatchIInv, BatchTypeOK, Outcome, Collected
  <2>2. instance \in [Jobs -> Nat] /\ seen \in [Workers -> Snapshot] /\ export \in [Items -> Nat]
    BY DEF BatchIInv, BatchTypeOK
  <2> QED
    BY <1>1, <1>2, <1>3, <2>1, <2>2, DrainTypes
<1>7. stage'[w] = "settle" /\ \A v \in Workers \ {w} : stage'[v] = stage[v]
  BY <1>3 DEF BatchIInv, BatchTypeOK
<1>8. Frame(w)
  BY <1>2, <1>3, <1>4, <1>7 DEF Frame
<1>9. Worker(w)'
  <2>1. Seat(w)'
    BY <1>1, <1>2, <1>3, <1>7, DrainFacts DEF Seat, Draining
  <2>2. Informed(w)'
    <3>1. \A i : Ahead(w, i)' => Ahead(w, i)
      BY <1>1, <1>3, <1>7 DEF Ahead
    <3>2. \A j \in Jobs :
            /\ Ahead(w, j[1]) => Knows(w, j) /\ instance[j] < mine[w]
            /\ j[2] > 0 => (seen[w][j].state = "none" <=> job[j] = "none")
      BY <1>1 DEF BatchIInv, Informed
    <3> QED
      BY <1>2, <1>3, <1>7, <3>1, <3>2 DEF Informed, Knows
  <2>3. AtStage(w)'
    <3>1. Collected(w)' = Collected(w)
      BY <1>3 DEF Collected
    <3> QED
      BY <1>1, <1>2, <1>7, <3>1 DEF AtStage
  <2>4. Reports(w)'
    <3>1. \A i \in Items : Sound(verdicts[w][i], i, mine[w])
      BY <1>1 DEF BatchIInv, Reports, Behind
    <3> QED
      BY <1>2, <1>3, <3>1 DEF Reports, Sound, Made, Loadable
  <2> QED
    BY <2>1, <2>2, <2>3, <2>4 DEF Worker
<1> QED
  BY <1>1, <1>5, <1>6, <1>8, <1>9, Assemble

\* Whoever leaves held the lease, so afterwards every worker is at rest.
LEMMA GoneKeeps ==
  ASSUME BatchIInv, NEW w \in Workers, stage[w] # "off", Leave(w), at'[w] = "idle",
         \A v \in Workers \ {w} : at'[v] = at[v]
  PROVE  /\ \A v \in Workers : Worker(v)'
         /\ lease' \in Workers \cup {Nobody} /\ stage' \in [Workers -> Stage]
         /\ cur' \in [Workers -> Items] /\ mine' \in [Workers -> Nat]
         /\ seen' \in [Workers -> Snapshot] /\ verdicts' \in [Workers -> [Items -> Verdict]]
<1> USE DEF BatchIInv, BatchTypeOK
<1>1. lease = w /\ w # Nobody /\ \A v \in Workers \ {w} : stage[v] = "off" /\ at[v] = "idle" /\ cur[v] = 1
  BY RenderAssumption DEF Seat, Draining
<1>2. \A v \in Workers : stage'[v] = "off" /\ at'[v] = "idle" /\ cur'[v] = 1
  BY <1>1 DEF Leave, To
<1>3. \A v \in Workers : Worker(v)'
  BY <1>2 DEF Worker, Seat, Informed, AtStage, Reports, Draining
<1>4. 1 \in Items /\ Blank \in Snapshot /\ [i \in Items |-> Pending] \in [Items -> Verdict] /\ 0 \in Nat
  BY BatchAssumption, RenderAssumption DEF Items, Blank, Snapshot, JobState, Pending, Verdict, Indices
<1>5. /\ lease' \in Workers \cup {Nobody} /\ stage' \in [Workers -> Stage]
      /\ cur' \in [Workers -> Items] /\ mine' \in [Workers -> Nat]
      /\ seen' \in [Workers -> Snapshot] /\ verdicts' \in [Workers -> [Items -> Verdict]]
  BY <1>4 DEF Leave, To, Stage
<1> QED
  BY <1>3, <1>5

\* The batch's row and its verdicts, when neither rows nor files change.
LEMMA ClosedStays ==
  ASSUME BatchIInv, UNCHANGED <<row, disk, batchRow, preparing>>, faults <= faults', faults' \in Nat
  PROVE  Phases' /\ Closed'
<1>1. faults' = 0 => faults = 0
  BY BudgetKeeps
<1>2. Phases'
  BY DEF BatchIInv, Phases, HeldUntilCommitted, Unprepared, batchRow, row
<1>3. Closed'
  BY <1>1 DEF BatchIInv, Closed, Sound, Made, Loadable, batchRow, row
<1> QED
  BY <1>2, <1>3

\* A drain that ends without a result changes nothing.
LEMMA LeavingKeeps ==
  ASSUME BatchIInv, NEW w \in Workers, Refuse(w) \/ Abandon(w) \/ WorkerDies(w)
  PROVE  BatchIInv'
<1>1. /\ stage[w] # "off" /\ Leave(w) /\ UNCHANGED <<row, disk, mem, batchRow, preparing, runs>>
      /\ faults' \in 0..MaxFaults /\ deaths' \in 0..MaxDeaths /\ faults <= faults'
  BY BudgetKeeps, RenderAssumption DEF Refuse, Abandon, WorkerDies, Stay, renderVars, worker, budget
<1>2. RenderIInv' /\ at'[w] = "idle" /\ \A v \in Workers \ {w} : at'[v] = at[v]
  <2>1. CASE WorkerDies(w)
    BY <1>1, <2>1, ReturnKeeps DEF WorkerDies
  <2>2. CASE Refuse(w) \/ Abandon(w)
    <3>1. at[w] = "idle" /\ UNCHANGED worker
      BY <2>2 DEF Refuse, Abandon, Stay, renderVars, BatchIInv, Seat
    <3>2. RenderIInv'
      BY <1>1, <3>1, QuietRenders
    <3> QED
      BY <3>1, <3>2 DEF worker
  <2> QED
    BY <2>1, <2>2
<1>3. Claims' /\ OnlyInterruptionIsRetried'
  BY <1>1, ClaimsStay DEF batchRow
<1>4. Phases' /\ Closed'
  BY <1>1, RenderAssumption, ClosedStays
<1>5. /\ \A v \in Workers : Worker(v)'
      /\ lease' \in Workers \cup {Nobody} /\ stage' \in [Workers -> Stage]
      /\ cur' \in [Workers -> Items] /\ mine' \in [Workers -> Nat]
      /\ seen' \in [Workers -> Snapshot] /\ verdicts' \in [Workers -> [Items -> Verdict]]
  BY <1>1, <1>2, GoneKeeps
<1>6. BatchTypeOK'
  BY <1>1, <1>2, <1>5 DEF BatchIInv, BatchTypeOK, RenderIInv, RenderInv, batchRow
<1> QED
  BY <1>2, <1>3, <1>4, <1>5, <1>6 DEF BatchIInv, Worker

\* A retry whose creation was torn: the attempt exists, without a plan.
LEMMA RetryTornKeeps == ASSUME BatchIInv, NEW w \in Workers, RetryTorn(w) PROVE BatchIInv'
<1>1. PICK c \in Items, k \in Indices : c = cur[w] /\ k = Newest(w, cur[w]) /\ Attempt(w) = <<c, k>> /\ <<c, k>> \in Jobs
  BY DrainFacts DEF RetryTorn, Stay, Draining
<1> DEFINE j == <<c, k>>  n == <<c, k + 1>>
<1>2. /\ Draining(w) /\ stage[w] = "retry" /\ stage[w] # "off" /\ at[w] = "idle" /\ parent = "running" /\ published = NoOutcome
      /\ job[j] = "failed" /\ receipt[j].failure \in Interrupted
      /\ preparing # "holding" /\ ~Unprepared /\ runs \in Nat
      /\ \A i \in Indices : i > k => ~Made(<<c, i>>)
  <2>1. Draining(w) /\ stage[w] = "retry" /\ stage[w] # "off"
    BY DEF RetryTorn, Stay, Draining
  <2> QED
    BY <1>1, <2>1, DrainFacts DEF BatchIInv, AtStage
<1>3. /\ n \in Jobs /\ CreateTorn(n, "queued") /\ Leave(w) /\ UNCHANGED <<worker, batchRow, preparing, runs>>
  <2>1. Attempt(w)[1] = c /\ Attempt(w)[2] = k
    BY <1>1
  <2> QED
    BY <2>1 DEF RetryTorn, Stay
<1>4. k + 1 \in Indices /\ k \in Nat /\ n[1] = c /\ n[2] = k + 1 /\ n[2] - 1 = k
  BY <1>1, <1>3, BatchAssumption, RenderAssumption DEF Indices
<1>5. /\ job[n] = "none" /\ job' = [job EXCEPT ![n] = "queued"] /\ receipt' = receipt /\ disk' = disk
      /\ instance[n] = 0 /\ instance' = instance /\ receipt[n] = NoReceipts
  BY <1>3 DEF CreateTorn, BatchIInv, Claims, RenderIInv, OpenIsBlank, batchRow
<1>6. job'[n] = "queued" /\ \A i \in Jobs \ {n} : job'[i] = job[i]
  BY <1>3, <1>5 DEF BatchIInv, BatchTypeOK, RenderTypeOK
<1>7. RenderIInv'
  BY <1>3, CreateKeeps DEF BatchIInv
<1>8. Claims' /\ OnlyInterruptionIsRetried'
  <2>1. \A i \in Indices : i > n[2] => ~Made(<<n[1], i>>)
    BY <1>2, <1>4, RenderAssumption, BatchAssumption DEF Indices
  <2>2. receipt'[n].failure \notin Interrupted /\ instance[j] # 0 /\ disk[j].failure = receipt[j].failure
    <3>1. Nobody \notin Interrupted
      BY RenderAssumption DEF FailureCode
    <3>2. Loads(j) /\ instance[j] # 0
      BY <1>1, <1>2, WhatRowsSay DEF BatchIInv, Claims
    <3> QED
      BY <1>2, <1>5, <3>1, <3>2 DEF Loads, NoReceipts
  <2>3. runs' = runs /\ instance'[n] \in Nat /\ instance'[n] <= runs /\ instance'[n] = 0
    BY <1>2, <1>3, <1>5
  <2>4. \A i \in Jobs \ {n} : /\ job'[i] = job[i] /\ receipt'[i] = receipt[i] /\ disk'[i] = disk[i]
                              /\ instance'[i] = instance[i]
    BY <1>5, <1>6
  <2>5. LET before == <<n[1], n[2] - 1>> IN
           /\ job[before] = "failed"
           /\ receipt[before].failure \in Interrupted
           /\ disk[before].failure = receipt[before].failure
           /\ instance[before] # 0
    BY <1>2, <1>4, <2>2
  <2> HIDE DEF n
  <2> QED
    BY <1>3, <1>6, <2>1, <2>2, <2>3, <2>4, <2>5, ChainKeeps
<1>9. Phases' /\ Closed'
  <2>1. ~Unprepared'
    <3>1. \A i \in Items : <<i, 0>> \in Jobs
      BY BatchAssumption, RenderAssumption DEF Indices
    <3> QED
      BY <1>2, <1>6, <3>1 DEF Unprepared
  <2>2. parent' = "running" /\ published' = NoOutcome /\ preparing' # "holding"
    BY <1>2, <1>3 DEF batchRow
  <2> QED
    BY <2>1, <2>2 DEF Phases, Closed, HeldUntilCommitted
<1>10. /\ \A v \in Workers : Worker(v)'
       /\ lease' \in Workers \cup {Nobody} /\ stage' \in [Workers -> Stage]
       /\ cur' \in [Workers -> Items] /\ mine' \in [Workers -> Nat]
       /\ seen' \in [Workers -> Snapshot] /\ verdicts' \in [Workers -> [Items -> Verdict]]
  BY <1>2, <1>3, GoneKeeps DEF worker
<1>11. BatchTypeOK'
  BY <1>3, <1>7, <1>10 DEF BatchIInv, BatchTypeOK, RenderIInv, RenderInv, batchRow
<1> QED
  BY <1>7, <1>8, <1>9, <1>10, <1>11 DEF BatchIInv, Worker

\* The parent becomes terminal with the verdicts that were written.
LEMMA SettleKeeps == ASSUME BatchIInv, NEW w \in Workers, Settle(w) PROVE BatchIInv'
<1>1. /\ Draining(w) /\ stage[w] = "settle" /\ stage[w] # "off" /\ Leave(w) /\ at[w] = "idle"
      /\ parent = "running" /\ preparing # "holding" /\ ~Unprepared /\ mine[w] \in Nat /\ mine[w] # 0
  <2>1. Draining(w) /\ stage[w] = "settle" /\ stage[w] # "off"
    BY DEF Settle, Stay, Draining
  <2> QED
    BY <2>1, DrainFacts DEF Settle
<1>2. /\ UNCHANGED <<row, disk, worker, budget, instance, result, export, preparing, runs>>
      /\ parent' = IF \A i \in Items : verdicts[w][i].ok THEN "succeeded" ELSE "failed"
      /\ published' = Collected(w)
  BY <1>1 DEF Settle, Stay, renderVars
<1>3. faults' \in 0..MaxFaults /\ deaths' \in 0..MaxDeaths /\ faults' = faults
  BY <1>2, BudgetKeeps DEF budget
<1>4. RenderIInv' /\ Claims' /\ OnlyInterruptionIsRetried'
  BY <1>2, <1>3, QuietRows
<1>5. published'.run = mine[w] /\ published'.items = verdicts[w] /\ published' \in Outcome /\ published' # NoOutcome
  BY <1>1, <1>2 DEF Collected, Outcome, NoOutcome, BatchIInv, BatchTypeOK
<1>6. result = Collected(w) /\ \A i \in Items : Sound(verdicts[w][i], i, mine[w])
  BY <1>1 DEF BatchIInv, AtStage, Reports, Behind
<1>7. Closed'
  BY <1>2, <1>3, <1>5, <1>6 DEF Closed, Sound, Made, Loadable, row
<1>8. Phases'
  <2>1. ~Unprepared'
    BY <1>1, <1>2 DEF Unprepared, row
  <2> QED
    BY <1>1, <1>2, <1>5, <2>1 DEF Phases, HeldUntilCommitted
<1>9. /\ \A v \in Workers : Worker(v)'
      /\ lease' \in Workers \cup {Nobody} /\ stage' \in [Workers -> Stage]
      /\ cur' \in [Workers -> Items] /\ mine' \in [Workers -> Nat]
      /\ seen' \in [Workers -> Snapshot] /\ verdicts' \in [Workers -> [Items -> Verdict]]
  BY <1>1, <1>2, GoneKeeps DEF worker
<1>10. BatchTypeOK'
  BY <1>2, <1>4, <1>5, <1>9 DEF BatchIInv, BatchTypeOK, RenderIInv, RenderInv, ParentState
<1> QED
  BY <1>4, <1>7, <1>8, <1>9, <1>10 DEF BatchIInv, Worker

\* The lease is taken while everybody is at rest.
LEMMA AcquireKeeps == ASSUME BatchIInv, NEW w \in Workers, Acquire(w) PROVE BatchIInv'
<1>1. /\ lease = Nobody /\ lease' = w /\ stage' = [stage EXCEPT ![w] = "index"]
      /\ UNCHANGED <<row, disk, worker, budget, batchRow, preparing, runs, cur, mine, seen, verdicts>>
  BY DEF Acquire, Stay, To, renderVars
<1>2. faults' \in 0..MaxFaults /\ deaths' \in 0..MaxDeaths /\ faults <= faults'
  BY <1>1, BudgetKeeps, RenderAssumption DEF budget
<1>3. RenderIInv' /\ Claims' /\ OnlyInterruptionIsRetried'
  BY <1>1, <1>2, QuietRows DEF batchRow
<1>4. Phases' /\ Closed'
  BY <1>1, <1>2, RenderAssumption, ClosedStays
<1>5. \A v \in Workers : stage[v] = "off" /\ at[v] = "idle" /\ cur[v] = 1
  BY <1>1, RenderAssumption DEF BatchIInv, Seat, Draining
<1>6. \A v \in Workers : /\ stage'[v] \in {"off", "index"} /\ at'[v] = "idle" /\ cur'[v] = 1
                         /\ stage'[v] # "off" => lease' = v
  BY <1>1, <1>5 DEF worker, BatchIInv, BatchTypeOK
<1>7. \A v \in Workers : Worker(v)'
  BY <1>6 DEF Worker, Seat, Informed, AtStage, Reports, Draining
<1>8. BatchTypeOK'
  BY <1>1, <1>3 DEF BatchIInv, BatchTypeOK, RenderIInv, RenderInv, Stage, batchRow
<1> QED
  BY <1>3, <1>4, <1>7, <1>8 DEF BatchIInv, Worker

\* The index is what the rows say.
LEMMA IndexKeeps == ASSUME BatchIInv, NEW w \in Workers, Index(w) PROVE BatchIInv'
<1> DEFINE now == [j \in Jobs |-> [state |-> job[j], claimed |-> instance[j] # 0]]
<1>1. /\ stage[w] = "index" /\ seen' = [seen EXCEPT ![w] = now] /\ stage' = [stage EXCEPT ![w] = "enter"]
      /\ UNCHANGED <<row, disk, worker, budget, batchRow, preparing, runs, cur, mine, verdicts, lease>>
  BY DEF Index, Stay, To, Continue, renderVars
<1>2. faults' \in 0..MaxFaults /\ deaths' \in 0..MaxDeaths /\ faults <= faults'
  BY <1>1, BudgetKeeps, RenderAssumption DEF budget
<1>3. RenderIInv' /\ Claims' /\ OnlyInterruptionIsRetried'
  BY <1>1, <1>2, QuietRows DEF batchRow
<1>4. Phases' /\ Closed'
  BY <1>1, <1>2, RenderAssumption, ClosedStays
<1>5. /\ lease = w /\ at[w] = "idle" /\ cur[w] = 1
      /\ \A v \in Workers \ {w} : stage[v] = "off" /\ at[v] = "idle" /\ cur[v] = 1
  BY <1>1, RenderAssumption DEF BatchIInv, Seat, Draining
<1>6. /\ now \in Snapshot /\ seen'[w] = now /\ seen' \in [Workers -> Snapshot]
      /\ \A j \in Jobs : now[j].state = job[j] /\ (now[j].claimed <=> instance[j] # 0)
  <2>1. now \in Snapshot
    BY DEF Snapshot, BatchIInv, BatchTypeOK, RenderTypeOK
  <2> QED
    BY <1>1, <2>1 DEF BatchIInv, BatchTypeOK
<1> HIDE DEF now
<1>7. \A v \in Workers \ {w} : stage'[v] = "off" /\ at'[v] = "idle" /\ cur'[v] = 1
  BY <1>1, <1>5 DEF worker, BatchIInv, BatchTypeOK
<1>8. \A v \in Workers \ {w} : Worker(v)'
  BY <1>7 DEF Worker, Seat, Informed, AtStage, Reports, Draining
<1>9. Worker(w)'
  <2>1. stage'[w] = "enter" /\ at'[w] = "idle" /\ cur'[w] = 1 /\ lease' = w
    BY <1>1, <1>5 DEF worker, BatchIInv, BatchTypeOK
  <2>2. \A j \in Jobs : Knows(w, j)'
    BY <1>1, <1>6 DEF Knows, row, batchRow
  <2> QED
    BY <2>1, <2>2 DEF Worker, Seat, Informed, AtStage, Reports, Draining
<1>10. BatchTypeOK'
  BY <1>1, <1>3, <1>6 DEF BatchIInv, BatchTypeOK, RenderIInv, RenderInv, Stage, batchRow
<1> QED
  BY <1>3, <1>4, <1>8, <1>9, <1>10 DEF BatchIInv, Worker

\* A drain starts with the first item: every claim it can meet is older.
LEMMA EnterKeeps == ASSUME BatchIInv, NEW w \in Workers, Enter(w) PROVE BatchIInv'
<1>1. /\ stage[w] = "enter" /\ parent \in {"queued", "running"} /\ parent' = "running"
      /\ runs' = runs + 1 /\ mine' = [mine EXCEPT ![w] = runs + 1] /\ stage' = [stage EXCEPT ![w] = "pick"]
      /\ UNCHANGED <<row, disk, worker, budget, preparing, instance, result, published, export, cur, seen, verdicts, lease>>
  BY DEF Enter, To, renderVars
<1>2. faults' \in 0..MaxFaults /\ deaths' \in 0..MaxDeaths /\ faults <= faults' /\ runs \in Nat
  BY <1>1, BudgetKeeps, RenderAssumption DEF budget, BatchIInv, BatchTypeOK
<1>3. RenderIInv'
  BY <1>1, <1>2, QuietRenders
<1>4. Claims' /\ OnlyInterruptionIsRetried'
  BY <1>1, <1>2 DEF BatchIInv, BatchTypeOK, Claims, OnlyInterruptionIsRetried, Made, row
<1>5. published = NoOutcome
  BY <1>1 DEF BatchIInv, Closed
<1>6. Phases' /\ Closed'
  <2>1. preparing # "holding" /\ ~Unprepared
    BY <1>1 DEF BatchIInv, Phases
  <2> QED
    BY <1>1, <1>5, <2>1 DEF Phases, HeldUntilCommitted, Unprepared, Closed, row
<1>7. /\ lease = w /\ at[w] = "idle" /\ cur[w] = 1 /\ \A j \in Jobs : Knows(w, j)
      /\ \A v \in Workers \ {w} : stage[v] = "off" /\ at[v] = "idle" /\ cur[v] = 1
  BY <1>1, RenderAssumption DEF BatchIInv, Seat, Draining, Informed
<1>8. \A v \in Workers \ {w} : stage'[v] = "off" /\ at'[v] = "idle" /\ cur'[v] = 1
  BY <1>1, <1>7 DEF worker, BatchIInv, BatchTypeOK
<1>9. \A v \in Workers \ {w} : Worker(v)'
  BY <1>8 DEF Worker, Seat, Informed, AtStage, Reports, Draining
<1>10. Worker(w)'
  <2>1. /\ stage'[w] = "pick" /\ at'[w] = "idle" /\ cur'[w] = 1 /\ lease' = w
        /\ mine'[w] = runs + 1 /\ runs' = runs + 1 /\ runs + 1 > 0
    BY <1>1, <1>2, <1>7 DEF worker, BatchIInv, BatchTypeOK
  <2>2. \A j \in Jobs : /\ Knows(w, j)' /\ instance'[j] < mine'[w]
                        /\ j[2] > 0 => (seen'[w][j].state = "none" <=> job'[j] = "none")
    <3> SUFFICES ASSUME NEW j \in Jobs
                 PROVE  /\ Knows(w, j)' /\ instance'[j] < mine'[w]
                        /\ j[2] > 0 => (seen'[w][j].state = "none" <=> job'[j] = "none")
      OBVIOUS
    <3>1. Knows(w, j) /\ instance[j] <= runs /\ instance[j] \in Nat
      BY <1>7 DEF BatchIInv, Claims, BatchTypeOK
    <3>2. Knows(w, j)' /\ instance'[j] < mine'[w]
      BY <1>1, <1>2, <2>1, <3>1 DEF Knows, row
    <3>3. j[2] \in Nat
      BY BatchAssumption, RenderAssumption DEF Indices
    <3>4. j[2] > 0 => (seen[w][j].state = "none" <=> job[j] = "none")
      BY <3>1, <3>3 DEF Knows
    <3> QED
      BY <1>1, <3>2, <3>4 DEF row
  <2>3. \A i \in Items : ~Behind(w, i)'
    BY <2>1 DEF Behind, Items
  <2> QED
    BY <1>1, <2>1, <2>2, <2>3 DEF Worker, Seat, Informed, AtStage, Reports, Draining
<1>11. BatchTypeOK'
  <2>1. mine' \in [Workers -> Nat] /\ runs' \in Nat
    BY <1>1, <1>2 DEF BatchIInv, BatchTypeOK
  <2> QED
    BY <1>1, <1>3, <2>1 DEF BatchIInv, BatchTypeOK, RenderIInv, RenderInv, Stage, ParentState
<1> QED
  BY <1>3, <1>4, <1>6, <1>9, <1>10, <1>11 DEF BatchIInv, Worker

----------------------------------------------------------------------------
(* Preparing the batch *)

\* A child that is missing has a first one before it.
LEMMA NextChildIsItem ==
  ASSUME Unprepared
  PROVE  NextChild \in Items /\ job[<<NextChild, 0>>] = "none"
<1> DEFINE S == {i \in Items : job[<<i, 0>>] = "none"}
<1> DEFINE R == OpToRel(<, Nat)
<1>1. S # {} /\ S \subseteq Nat
  BY DEF Unprepared, Items
<1>2. IsWellFoundedOn(R, Nat)
  BY NatLessThanWellFounded
<1>3. \A x, y \in Nat : x < y => <<x, y>> \in R
  BY DEF OpToRel
<1> HIDE DEF R
<1>4. PICK i \in S : \A y \in S : ~(<<y, i>> \in R)
  BY <1>1, <1>2, WFMin
<1>5. \A k \in 1..(i - 1) : job[<<k, 0>>] # "none"
  <2> SUFFICES ASSUME NEW k \in 1..(i - 1), job[<<k, 0>>] = "none" PROVE FALSE
    OBVIOUS
  <2>1. i \in 1..NItems /\ NItems \in Nat /\ i \in Nat
    BY BatchAssumption DEF Items
  <2>2. k \in Items /\ k \in Nat /\ k < i
    BY <2>1 DEF Items
  <2>3. k \in S /\ <<k, i>> \in R
    BY <1>3, <2>1, <2>2
  <2> QED
    BY <1>4, <2>3
<1> QED
  BY <1>4, <1>5 DEF NextChild

\* Before the manifest is committed nobody drains.
LEMMA NobodyDrains ==
  ASSUME BatchIInv, parent # "running"
  PROVE  \A w \in Workers : ~Draining(w) /\ at[w] = "idle"
  BY DEF BatchIInv, Seat, Draining

\* Drains and claims stay, and no row or file changes.
LEMMA PreparerKeeps ==
  ASSUME BatchIInv, UNCHANGED <<row, disk, worker, instance, result, published, export, runs, lease, drain>>,
         Free \/ Spend \/ Lose, parent' = parent \/ parent = "preparing", parent' \in ParentState,
         preparing' \in {"holding", "aborting", "over"},
         Phases'
  PROVE  BatchIInv'
<1>1. faults' \in 0..MaxFaults /\ deaths' \in 0..MaxDeaths /\ faults <= faults' /\ (faults' = 0 => faults = 0)
  BY BudgetKeeps
<1>2. RenderIInv' /\ Claims' /\ OnlyInterruptionIsRetried'
  BY <1>1, QuietRows
<1>3. Closed'
  <2>1. published # NoOutcome => parent # "preparing"
    BY DEF BatchIInv, Closed
  <2> QED
    BY <1>1, <2>1 DEF BatchIInv, Closed, Sound, Made, Loadable, row
<1>4. ASSUME NEW w \in Workers PROVE Worker(w)'
  <2>1. Worker(w)
    BY DEF BatchIInv, Worker
  <2>2. Draining(w) => parent' = parent
    BY NobodyDrains
  <2>3. /\ UNCHANGED <<job, receipt, disk, at, mem, instance, result, export, runs, lease, stage, cur, mine, seen, verdicts>>
        /\ Attempt(w)' = Attempt(w)
    BY DEF row, worker, drain, Attempt, Newest
  <2>4. Seat(w)'
    BY <2>1, <2>2, <2>3 DEF Worker, Seat, Draining, On
  <2>5. Informed(w)'
    BY <2>1, <2>3 DEF Worker, Informed, Draining, Ahead, Knows
  <2>6. AtStage(w)'
    <3>1. View(w)' = View(w) /\ Excuse(w)' = Excuse(w) /\ Collected(w)' = Collected(w)
      BY <2>3 DEF View, Excuse, Collected
    <3> QED
      BY <1>1, <2>1, <2>3, <3>1 DEF Worker, AtStage
  <2>7. Reports(w)'
    BY <1>1, <2>1, <2>3 DEF Worker, Reports, Draining, Behind, Sound, Made, Loadable
  <2> QED
    BY <2>4, <2>5, <2>6, <2>7 DEF Worker
<1>5. BatchTypeOK'
  BY <1>2 DEF BatchIInv, BatchTypeOK, RenderIInv, RenderInv, drain
<1> QED
  BY <1>2, <1>3, <1>4, <1>5 DEF BatchIInv, Worker

\* Steps of the preparation that touch the batch's own row alone.
LEMMA PreparationKeeps ==
  ASSUME BatchIInv, CommitBatch \/ CommitTorn \/ PrepareFails \/ AbortEnds \/ PreparerDies
  PROVE  BatchIInv'
<1>1. parent \in ParentState /\ Phases
  BY DEF BatchIInv, BatchTypeOK
<1>2. published # NoOutcome => parent # "preparing"
  BY DEF BatchIInv, Closed
<1>3. CASE CommitBatch \/ CommitTorn
  <2>1. /\ UNCHANGED <<row, disk, worker, instance, result, published, export, runs, lease, drain>>
        /\ Free \/ Spend \/ Lose
        /\ preparing = "holding" /\ ~Unprepared /\ parent' = "queued" /\ preparing' \in {"over", "aborting"}
    BY <1>3 DEF CommitBatch, CommitTorn, renderVars, Free
  <2>2. parent = "preparing" /\ Phases'
    BY <1>1, <2>1 DEF Phases, HeldUntilCommitted, Unprepared, row
  <2> QED
    BY <2>1, <2>2, PreparerKeeps DEF ParentState
<1>4. CASE PrepareFails \/ PreparerDies
  <2>1. /\ UNCHANGED <<row, disk, worker, instance, result, published, export, runs, lease, drain>>
        /\ Free \/ Spend \/ Lose
        /\ parent' = parent /\ preparing' \in {"over", "aborting"}
    BY <1>4 DEF PrepareFails, PreparerDies, Holding, renderVars, Free
  <2>2. Phases'
    BY <1>1, <2>1 DEF Phases, HeldUntilCommitted, Unprepared, row
  <2> QED
    BY <1>1, <2>1, <2>2, PreparerKeeps
<1>5. CASE AbortEnds
  <2>1. /\ UNCHANGED <<row, disk, worker, instance, result, published, export, runs, lease, drain>>
        /\ Free \/ Spend \/ Lose
        /\ preparing' = "over"
        /\ parent' = parent \/ (parent = "preparing" /\ parent' = "failed")
    BY <1>5 DEF AbortEnds, Aborting, row
  <2>2. Phases'
    BY <1>1, <1>2, <2>1 DEF Phases, HeldUntilCommitted, Unprepared, row
  <2> QED
    BY <1>1, <2>1, <2>2, PreparerKeeps DEF ParentState
<1> QED
  BY <1>3, <1>4, <1>5

\* A held child appears while no drain is under way.
LEMMA HoldChildKeeps ==
  ASSUME BatchIInv, HoldChild \/ HoldChildTorn
  PROVE  BatchIInv'
<1>1. PICK n \in Jobs : /\ n = <<NextChild, 0>> /\ n[2] = 0 /\ job[n] = "none"
                        /\ (Create(n, "batch_held") /\ UNCHANGED budget) \/ CreateTorn(n, "batch_held")
  <2>1. NextChild \in Items /\ job[<<NextChild, 0>>] = "none"
    BY NextChildIsItem DEF HoldChild, HoldChildTorn
  <2>2. <<NextChild, 0>> \in Jobs
    BY <2>1, BatchAssumption, RenderAssumption DEF Indices
  <2> QED
    BY <2>1, <2>2 DEF HoldChild, HoldChildTorn
<1>2. /\ preparing = "holding" /\ preparing' \in {"holding", "aborting"} /\ parent = "preparing"
      /\ UNCHANGED <<parent, instance, result, published, export, runs, lease, stage, cur, mine, seen, verdicts, at, mem>>
      /\ worker' = worker /\ published = NoOutcome
  <2>1. /\ preparing = "holding" /\ preparing' \in {"holding", "aborting"}
        /\ UNCHANGED <<parent, instance, result, published, export, runs, lease, drain, worker>>
    BY DEF HoldChild, HoldChildTorn, Holding
  <2> QED
    BY <2>1 DEF drain, worker, BatchIInv, Phases, Closed
<1>3. /\ job' = [job EXCEPT ![n] = "batch_held"] /\ receipt' = receipt
      /\ disk' \in {disk, [disk EXCEPT ![n].plan = TRUE]}
      /\ receipt[n] = NoReceipts /\ instance[n] = 0
  BY <1>1 DEF Create, CreateTorn, BatchIInv, Claims, RenderIInv, OpenIsBlank
<1>4. job'[n] = "batch_held" /\ \A i \in Jobs \ {n} : job'[i] = job[i] /\ disk'[i] = disk[i]
  BY <1>1, <1>3 DEF BatchIInv, BatchTypeOK, RenderTypeOK
<1>5. RenderIInv'
  BY <1>1, <1>2, CreateKeeps DEF BatchIInv
<1>6. Claims'
  <2>1. receipt[n].failure \notin Interrupted
    BY <1>3, WhatRowsSay
  <2> QED
    BY <1>2, <1>3, <1>4, <2>1 DEF BatchIInv, Claims
<1>7. OnlyInterruptionIsRetried'
  <2> SUFFICES ASSUME NEW i \in Items, NEW k \in Indices, k > 0, Made(<<i, k>>)'
               PROVE  LET before == <<i, k - 1>> IN
                      /\ job'[before] = "failed"
                      /\ receipt'[before].failure \in Interrupted
                      /\ disk'[before].failure = receipt'[before].failure
                      /\ instance'[before] # 0
                      /\ instance'[<<i, k>>] # 0 => instance'[before] < instance'[<<i, k>>]
    BY DEF OnlyInterruptionIsRetried
  <2>1. <<i, k>> \in Jobs /\ <<i, k - 1>> \in Jobs /\ <<i, k>> # n
    <3>1. k \in Nat /\ k - 1 \in Indices /\ k # 0
      BY RenderAssumption, BatchAssumption DEF Indices
    <3> QED
      BY <1>1, <3>1, BatchAssumption
  <2>2. Made(<<i, k>>)
    BY <1>4, <2>1 DEF Made
  <2>3. <<i, k - 1>> # n
    BY <1>1, <2>2 DEF BatchIInv, OnlyInterruptionIsRetried
  <2> QED
    BY <1>2, <1>3, <1>4, <2>1, <2>2, <2>3 DEF BatchIInv, OnlyInterruptionIsRetried
<1>8. Phases' /\ Closed'
  <2>1. HeldUntilCommitted'
    BY <1>2, <1>4 DEF BatchIInv, Phases, HeldUntilCommitted
  <2> QED
    BY <1>2, <2>1 DEF Phases, Closed
<1>9. ASSUME NEW w \in Workers PROVE Worker(w)'
  <2>1. ~Draining(w) /\ at[w] = "idle" /\ Worker(w)
    BY <1>2, NobodyDrains DEF BatchIInv, Worker
  <2>2. ASSUME NEW j \in Jobs, Knows(w, j) PROVE Knows(w, j)'
    BY <1>1, <1>2, <1>3, <1>4, <2>2 DEF Knows
  <2>3. ~Draining(w)' /\ at'[w] = "idle" /\ stage'[w] = stage[w] /\ stage[w] \in {"off", "index", "enter"}
    BY <1>2, <2>1 DEF Draining
  <2> QED
    BY <1>2, <2>1, <2>2, <2>3 DEF Worker, Seat, Informed, AtStage, Reports
<1>10. BatchTypeOK'
  BY <1>2, <1>5 DEF BatchIInv, BatchTypeOK, RenderIInv, RenderInv
<1> QED
  BY <1>5, <1>6, <1>7, <1>8, <1>9, <1>10 DEF BatchIInv, Worker

\* Only a first attempt that nobody has claimed is cancelled, whatever a drain
\* has read of it.
LEMMA CancelChildKeeps == ASSUME BatchIInv, CancelChild PROVE BatchIInv'
<1>1. PICK n \in Jobs : n[2] = 0 /\ job[n] \in {"batch_held", "queued"} /\ job' = [job EXCEPT ![n] = "cancelled"]
  <2>1. Items \X {0} \subseteq Jobs
    BY BatchAssumption, RenderAssumption DEF Indices
  <2> QED
    BY <2>1 DEF CancelChild, Unclaimed
<1>2. /\ UNCHANGED <<receipt, disk, at, mem, faults, deaths, instance, result, published, export, runs, lease,
                     stage, cur, mine, seen, verdicts, parent, preparing>>
      /\ worker' = worker /\ preparing = "aborting"
  BY DEF CancelChild, Aborting, worker, budget, drain
<1>3. /\ job'[n] = "cancelled" /\ \A i \in Jobs \ {n} : job'[i] = job[i]
      /\ receipt[n] = NoReceipts /\ receipt[n].failure \notin Interrupted
      /\ job' \in [Jobs -> JobState]
  <2>1. receipt[n] = NoReceipts
    BY <1>1, OpenAttempt
  <2> QED
    BY <1>1, <2>1, WhatRowsSay DEF BatchIInv, BatchTypeOK, RenderTypeOK, JobState
<1>4. RenderIInv'
  <2>1. RenderTypeOK'
    BY <1>2, <1>3 DEF BatchIInv, BatchTypeOK, RenderTypeOK
  <2>2. Loads(n)'
    BY <1>2, <1>3 DEF Loads, NoReceipts
  <2>3. \A w \in Workers : Inside(w) => On(w) # n
    BY <1>1, NobodyInUnrun DEF BatchIInv
  <2> QED
    BY <1>2, <1>3, <2>1, <2>2, <2>3, UntendedKeeps DEF BatchIInv
<1>5. Claims'
  BY <1>2, <1>3 DEF BatchIInv, Claims
<1>6. OnlyInterruptionIsRetried'
  <2> SUFFICES ASSUME NEW i \in Items, NEW k \in Indices, k > 0, Made(<<i, k>>)'
               PROVE  LET before == <<i, k - 1>> IN
                      /\ job'[before] = "failed"
                      /\ receipt'[before].failure \in Interrupted
                      /\ disk'[before].failure = receipt'[before].failure
                      /\ instance'[before] # 0
                      /\ instance'[<<i, k>>] # 0 => instance'[before] < instance'[<<i, k>>]
    BY DEF OnlyInterruptionIsRetried
  <2>1. <<i, k>> \in Jobs /\ <<i, k - 1>> \in Jobs /\ <<i, k>> # n
    <3>1. k \in Nat /\ k - 1 \in Indices /\ k # 0
      BY RenderAssumption, BatchAssumption DEF Indices
    <3> QED
      BY <1>1, <3>1, BatchAssumption
  <2>2. Made(<<i, k>>)
    BY <1>3, <2>1 DEF Made
  <2>3. <<i, k - 1>> # n
    BY <1>1, <2>2 DEF BatchIInv, OnlyInterruptionIsRetried
  <2> QED
    BY <1>2, <1>3, <2>1, <2>2, <2>3 DEF BatchIInv, OnlyInterruptionIsRetried
<1>7. Phases'
  <2>0. \A i \in Items : <<i, 0>> \in Jobs
    BY BatchAssumption, RenderAssumption DEF Indices
  <2>1. Unprepared' => Unprepared
    BY <1>3, <2>0 DEF Unprepared
  <2>2. HeldUntilCommitted'
    BY <1>2, <1>3 DEF BatchIInv, Phases, HeldUntilCommitted
  <2> QED
    BY <1>2, <2>1, <2>2 DEF BatchIInv, Phases
<1>8. ASSUME NEW v \in Verdict, NEW i \in Items, NEW r, Sound(v, i, r) PROVE Sound(v, i, r)'
  <2>1. \A k \in Indices : <<i, k>> \in Jobs
    BY BatchAssumption
  <2>2. \A k \in Indices : Made(<<i, k>>) <=> Made(<<i, k>>)'
    BY <1>1, <1>3, <2>1 DEF Made
  <2>3. v.attempt \in Indices
    BY DEF Verdict
  <2>4. \A j \in Jobs : /\ job[j] = "succeeded" <=> job'[j] = "succeeded"
                        /\ job[j] \notin {"queued", "running"} => job'[j] \notin {"queued", "running"}
    BY <1>1, <1>3
  <2> QED
    BY <1>2, <1>8, <2>1, <2>2, <2>3, <2>4 DEF Sound, Loadable
<1>9. Closed'
  <2>1. published \in Outcome
    BY DEF BatchIInv, BatchTypeOK
  <2>2. published # NoOutcome => \A i \in Items : published.items[i] \in Verdict /\ Sound(published.items[i], i, published.run)
    BY <2>1 DEF BatchIInv, Closed, Outcome
  <2>3. published # NoOutcome => \A i \in Items : Sound(published.items[i], i, published.run)'
    BY <1>2, <1>8, <2>2 DEF Sound
  <2> QED
    BY <1>2, <2>3 DEF BatchIInv, Closed
<1>10. ASSUME NEW w \in Workers PROVE Worker(w)'
  <2>1. Worker(w) /\ verdicts[w] \in [Items -> Verdict]
    BY DEF BatchIInv, BatchTypeOK, Worker
  <2>2. Attempt(w)' = Attempt(w) /\ View(w)' = View(w)
    BY <1>2 DEF Attempt, Newest, View
  <2>3. Seat(w)'
    BY <1>2, <2>1, <2>2 DEF Worker, Seat, Draining, On
  <2>4. ASSUME NEW j \in Jobs, Knows(w, j) PROVE Knows(w, j)'
    BY <1>1, <1>2, <1>3, <2>4 DEF Knows
  <2>5. Informed(w)'
    <3>1. \A j \in Jobs : job[j] = "none" <=> job'[j] = "none"
      BY <1>1, <1>3
    <3>2. Draining(w)' <=> Draining(w)
      BY <1>2 DEF Draining
    <3>3. \A j \in Jobs : Ahead(w, j[1])' <=> Ahead(w, j[1])
      BY <1>2 DEF Ahead
    <3> QED
      BY <1>2, <2>1, <2>4, <3>1, <3>2, <3>3 DEF Worker, Informed
  <2>6. AtStage(w)'
    <3>1. Excuse(w)' = Excuse(w) /\ Collected(w)' = Collected(w)
      BY <1>2, <2>2 DEF Excuse, Collected
    <3>2. stage[w] \in {"retry", "render", "judge"} \/ at[w] \in {"returned", "raised"} => Attempt(w) \in Jobs
      BY DrainFacts, <2>1 DEF Draining, Worker, Seat
    <3> QED
      BY <1>1, <1>2, <1>3, <2>1, <2>2, <3>1, <3>2 DEF Worker, AtStage
  <2>7. Reports(w)'
    <3>1. \A i \in Items : Behind(w, i)' <=> Behind(w, i)
      BY <1>2 DEF Behind
    <3>2. Draining(w)' <=> Draining(w)
      BY <1>2 DEF Draining
    <3>3. \A i \in Items : Sound(verdicts[w][i], i, mine[w]) => Sound(verdicts[w][i], i, mine[w])'
      BY <1>2, <1>8, <2>1 DEF Sound
    <3> QED
      BY <1>2, <2>1, <3>1, <3>2, <3>3 DEF Worker, Reports
  <2> QED
    BY <2>3, <2>5, <2>6, <2>7 DEF Worker
<1>11. BatchTypeOK'
  BY <1>2, <1>4 DEF BatchIInv, BatchTypeOK, RenderIInv, RenderInv
<1> QED
  BY <1>4, <1>5, <1>6, <1>7, <1>9, <1>10, <1>11 DEF BatchIInv, Worker

----------------------------------------------------------------------------
(* The theorems *)

\* A batch that has just been created.
LEMMA Init_BatchIInv == ASSUME Init PROVE BatchIInv
<1>1. RenderIInv
  BY RenderInit_RenderIInv DEF Init
<1>2. 1 \in Items /\ <<1, 0>> \in Jobs /\ 0 \in Indices
  BY BatchAssumption, RenderAssumption DEF Items, Indices
<1>3. BatchTypeOK
  <2>1. Blank \in Snapshot /\ Pending \in Verdict
    BY <1>2 DEF Blank, Snapshot, JobState, Pending, Verdict
  <2>2. NoOutcome \in Outcome /\ [i \in Items |-> Pending] \in [Items -> Verdict]
    BY <2>1 DEF NoOutcome, Outcome
  <2> QED
    BY <1>1, <1>2, <2>1, <2>2 DEF Init, BatchTypeOK, RenderIInv, RenderInv, ParentState, Stage
<1>4. \A j \in Jobs : job[j] = "none" /\ receipt[j] = NoReceipts /\ instance[j] = 0
  BY DEF Init, RenderInit
<1>5. Phases
  BY <1>4 DEF Init, Phases, HeldUntilCommitted
<1>6. Claims
  <2>1. NoReceipts.failure \notin Interrupted
    BY RenderAssumption DEF NoReceipts, FailureCode
  <2> QED
    BY <1>4, <2>1 DEF Init, Claims
<1>7. OnlyInterruptionIsRetried
  BY <1>4, BatchAssumption DEF OnlyInterruptionIsRetried, Made
<1>8. Closed
  BY DEF Init, Closed
<1>9. \A w \in Workers : stage[w] = "off" /\ at[w] = "idle" /\ cur[w] = 1
  BY DEF Init, RenderInit
<1>10. \A w \in Workers : Worker(w)
  BY <1>9 DEF Worker, Seat, Informed, AtStage, Reports, Draining
<1> QED
  BY <1>1, <1>3, <1>5, <1>6, <1>7, <1>8, <1>10 DEF BatchIInv, Worker

\* Nothing happens.
LEMMA Stutter_BatchIInv == ASSUME BatchIInv, UNCHANGED batchVars PROVE BatchIInv'
<1>1. /\ UNCHANGED <<row, disk, worker, instance, result, published, export, runs, lease, drain>>
      /\ Free /\ parent' = parent /\ preparing' = preparing
  BY DEF batchVars, renderVars, batchRow, Free
<1>2. Phases'
  BY <1>1 DEF BatchIInv, Phases, HeldUntilCommitted, Unprepared, row
<1> QED
  BY <1>1, <1>2, PreparerKeeps DEF BatchIInv, BatchTypeOK

\* Every step keeps the invariant.
LEMMA Next_BatchIInv == ASSUME BatchIInv, [Next]_batchVars PROVE BatchIInv'
<1>1. CASE Prepare \/ HoldChildTorn \/ CommitTorn \/ PreparerDies
  BY <1>1, HoldChildKeeps, PreparationKeeps, CancelChildKeeps DEF Prepare
<1>2. ASSUME NEW w \in Workers, DrainStep(w) PROVE BatchIInv'
  BY <1>2, IndexKeeps, LeavingKeeps, EnterKeeps, ReleaseKeeps, PickKeeps, ReloadKeeps, ReviewFailedKeeps,
     ClearKeeps, WriteExcuseKeeps, RetireKeeps, RetryKeeps, MarkKeeps, RenderKeeps, RenderedKeeps,
     RenderFailedKeeps, JudgeKeeps, WriteResultKeeps, SettleKeeps DEF DrainStep
<1>3. ASSUME NEW w \in Workers, Acquire(w) \/ Abandon(w) \/ RetryTorn(w) \/ WorkerDies(w) PROVE BatchIInv'
  BY <1>3, AcquireKeeps, LeavingKeeps, RetryTornKeeps
<1> QED
  BY <1>1, <1>2, <1>3, Stutter_BatchIInv DEF Next

\* The invariant holds throughout.
LEMMA BatchInvariant == Spec => []BatchIInv
<1>1. Init => BatchIInv
  BY Init_BatchIInv
<1>2. BatchIInv /\ [Next]_batchVars => BatchIInv'
  BY Next_BatchIInv
<1> QED
  BY <1>1, <1>2, PTL DEF Spec

\* A batch holds its items back until its manifest is committed, and a live
\* run is never taken for a dead one: batch/final.py and batch/hardened.py, for
\* any number of items, workers, faults and deaths.
THEOREM BatchSafety == Spec => []BatchInv
<1>1. BatchIInv => BatchInv
  <2> SUFFICES ASSUME BatchIInv PROVE BatchInv
    OBVIOUS
  <2>1. LiveAttemptIsNotStolen
    <3> SUFFICES ASSUME NEW w \in Workers, at[w] \in Executing \cup Cleaning
                 PROVE  lease = w /\ instance[On(w)] = mine[w] /\ job[On(w)] = "running"
      BY DEF LiveAttemptIsNotStolen
    <3>1. at[w] # "idle"
      BY DEF Executing, Cleaning
    <3>2. stage[w] = "render" /\ On(w) = Attempt(w) /\ lease = w
      BY <3>1 DEF BatchIInv, Seat
    <3> QED
      BY <3>2 DEF BatchIInv, AtStage, RenderIInv, RenderInv, RunnerOwnsJob
  <2> QED
    BY <2>1 DEF BatchInv, BatchIInv, Phases
<1> QED
  BY <1>1, BatchInvariant, PTL

\* Only what a dead drain left behind is tried again, and only on evidence that
\* still verifies (_interrupt_running_attempt, _new_retry).
THEOREM BatchEvidence == Spec => []OnlyInterruptionIsRetried
<1>1. BatchIInv => OnlyInterruptionIsRetried
  BY DEF BatchIInv
<1> QED
  BY <1>1, BatchInvariant, PTL

\* The published result is true of the rows and files it speaks of (_result).
THEOREM BatchVerdicts == Spec => []VerdictInv
<1>1. BatchIInv => VerdictInv
  BY DEF BatchIInv, VerdictInv, Closed, ResultIsTruthful, NoVerdictByInterruption, Sound
<1> QED
  BY <1>1, BatchInvariant, PTL

\* The body of ClosedBatchIsFinal.
StaysClosed == (parent \in Done /\ preparing # "aborting") => UNCHANGED <<row, disk, batchRow>>

\* A terminal batch stays as it is: no drain is at work on it, and a later one
\* turns away.
THEOREM BatchClosed == Spec => ClosedBatchIsFinal
<1>1. ASSUME BatchIInv, [Next]_batchVars PROVE [StaysClosed]_batchVars
  <2> SUFFICES ASSUME Next, parent \in Done, preparing # "aborting" PROVE UNCHANGED <<row, disk, batchRow>>
    BY <1>1 DEF StaysClosed
  <2>1. preparing # "holding" /\ \A w \in Workers : ~Draining(w)
    BY <1>1, NobodyDrains DEF BatchIInv, Phases, Done
  <2>2. ~(Prepare \/ HoldChildTorn \/ CommitTorn \/ PreparerDies)
    BY <2>1 DEF Prepare, HoldChild, HoldChildTorn, CommitBatch, CommitTorn, PrepareFails, CancelChild,
       AbortEnds, PreparerDies, Holding, Aborting
  <2>3. ASSUME NEW w \in Workers, DrainStep(w) \/ RetryTorn(w) PROVE Index(w) \/ Refuse(w)
    <3>1. stage[w] \in {"off", "index", "enter"} /\ ~Enter(w)
      BY <2>1 DEF Draining, Enter, Done
    <3> QED
      BY <2>3, <3>1 DEF DrainStep, Stay, Release, Pick, Reload, ReviewFailed, Clear, WriteExcuse, Retire, Retry,
         Mark, Render, Rendered, RenderFailed, Judge, WriteResult, Settle, RetryTorn
  <2> QED
    BY <2>2, <2>3 DEF Next, Index, Refuse, Acquire, Abandon, WorkerDies, renderVars
<1> QED
  BY <1>1, BatchInvariant, PTL DEF Spec, ClosedBatchIsFinal, StaysClosed

----------------------------------------------------------------------------
(* The promise *)

\* What Renders counts.
Successes(i) == {k \in Indices : job[<<i, k>>] = "succeeded"}

\* An attempt that did not fail is the last one.
LEMMA NothingAfter ==
  ASSUME BatchIInv, NEW i \in Items, NEW k \in Indices, job[<<i, k>>] # "failed"
  PROVE  \A n \in Indices : n > k => ~Made(<<i, n>>)
<1> DEFINE S == {n \in Indices : n > k /\ Made(<<i, n>>)}
<1> DEFINE R == OpToRel(<, Nat)
<1>1. SUFFICES ASSUME S # {} PROVE FALSE
  OBVIOUS
<1>2. MaxRetry \in Nat /\ S \subseteq Nat
  BY BatchAssumption, RenderAssumption DEF Indices
<1>3. IsWellFoundedOn(R, Nat)
  BY NatLessThanWellFounded
<1>4. \A x, y \in Nat : x < y => <<x, y>> \in R
  BY DEF OpToRel
<1> HIDE DEF R
<1>5. PICK m \in S : \A y \in S : ~(<<y, m>> \in R)
  BY <1>1, <1>2, <1>3, WFMin
<1>6. m > 0 /\ m - 1 \in Indices /\ m - 1 >= k /\ m - 1 < m /\ m \in Nat /\ m - 1 \in Nat
  BY <1>2, <1>5 DEF Indices
<1>7. job[<<i, m - 1>>] = "failed"
  BY <1>5, <1>6 DEF BatchIInv, OnlyInterruptionIsRetried
<1>8. m - 1 \in S
  <2>1. m - 1 # k
    BY <1>7
  <2> QED
    BY <1>2, <1>6, <1>7, <2>1 DEF Made, Indices
<1> QED
  BY <1>4, <1>5, <1>6, <1>8

\* However many attempts an item has, at most one of them succeeds.
LEMMA OneSuccess ==
  ASSUME BatchIInv, NEW i \in Items
  PROVE  /\ \A k \in Indices : job[<<i, k>>] = "succeeded" => Successes(i) = {k} /\ Renders(i) = 1
         /\ Successes(i) = {} => Renders(i) = 0
<1>1. ASSUME NEW k \in Indices, job[<<i, k>>] = "succeeded" PROVE Successes(i) = {k} /\ Renders(i) = 1
  <2>1. \A m, n \in Indices : m > n \/ n > m \/ m = n
    BY BatchAssumption, RenderAssumption DEF Indices
  <2>2. \A m, n \in Indices : job[<<i, m>>] = "succeeded" /\ n > m => job[<<i, n>>] = "none"
    BY NothingAfter DEF Made
  <2>3. \A n \in Indices : job[<<i, n>>] = "succeeded" => n = k
    BY <1>1, <2>1, <2>2
  <2>4. Successes(i) = {k}
    BY <1>1, <2>3 DEF Successes
  <2> QED
    BY <2>4, FS_Singleton DEF Renders, Successes
<1>2. Successes(i) = {} => Renders(i) = 0
  BY FS_EmptySet DEF Renders, Successes
<1> QED
  BY <1>1, <1>2

\* Steps that neither win nor lose a success leave the counts alone.
LEMMA RendersStay ==
  ASSUME \A j \in Jobs : job'[j] = "succeeded" <=> job[j] = "succeeded"
  PROVE  \A i \in Items : Renders(i)' = Renders(i)
<1> SUFFICES ASSUME NEW i \in Items PROVE Renders(i)' = Renders(i)
  OBVIOUS
<1>1. \A k \in Indices : <<i, k>> \in Jobs
  BY BatchAssumption
<1>2. {k \in Indices : job'[<<i, k>>] = "succeeded"} = {k \in Indices : job[<<i, k>>] = "succeeded"}
  BY <1>1
<1> QED
  BY <1>2 DEF Renders

\* No step but the commit of a render makes or unmakes a success.
LEMMA SuccessesStay ==
  ASSUME BatchIInv, Next, \A w \in Workers : ~(Render(w) /\ RunStep(w))
  PROVE  \A j \in Jobs : job'[j] = "succeeded" <=> job[j] = "succeeded"
<1> DEFINE Other == \/ job' = job
                    \/ \E j \in Jobs, s \in JobState : /\ job[j] # "succeeded" /\ s # "succeeded"
                                                       /\ job' = [job EXCEPT ![j] = s]
<1> USE DEF JobState
<1>1. Other => \A j \in Jobs : job'[j] = "succeeded" <=> job[j] = "succeeded"
  BY DEF BatchIInv, BatchTypeOK, RenderTypeOK
<1>2. CASE Prepare \/ HoldChildTorn \/ CommitTorn \/ PreparerDies
  <2>1. \A i \in Items : <<i, 0>> \in Jobs
    BY BatchAssumption, RenderAssumption DEF Indices
  <2>2. CASE HoldChild \/ HoldChildTorn
    BY <2>1, <2>2, <1>1, NextChildIsItem DEF HoldChild, HoldChildTorn, Create, CreateTorn
  <2>3. CASE CancelChild
    BY <2>1, <2>3, <1>1 DEF CancelChild, Unclaimed
  <2>4. CASE CommitBatch \/ CommitTorn \/ PrepareFails \/ AbortEnds \/ PreparerDies
    BY <2>4 DEF CommitBatch, CommitTorn, PrepareFails, AbortEnds, PreparerDies, renderVars, row
  <2> QED
    BY <1>2, <2>2, <2>3, <2>4 DEF Prepare
<1>3. ASSUME NEW w \in Workers, DrainStep(w) \/ RetryTorn(w) PROVE Other
  <2> USE DEF row, renderVars
  <2>1. CASE Index(w) \/ Refuse(w) \/ Enter(w) \/ Pick(w) \/ Reload(w) \/ ReviewFailed(w) \/ Clear(w) \/ WriteExcuse(w)
             \/ Mark(w) \/ Rendered(w) \/ RenderFailed(w) \/ Judge(w) \/ WriteResult(w) \/ Settle(w)
    BY <2>1 DEF Index, Refuse, Enter, Pick, Reload, ReviewFailed, Clear, WriteExcuse, Mark, Rendered,
       RenderFailed, Judge, WriteResult, Settle
  <2>2. CASE Release(w)
    <3>1. Attempt(w) \in Jobs
      BY <2>2, DrainFacts DEF Release, Stay, Draining
    <3> QED
      BY <2>2, <3>1 DEF Release, Transition, CanTransition
  <2>3. CASE Retire(w)
    <3>1. Attempt(w) \in Jobs /\ View(w).state \in {"queued", "running"}
      BY <2>3, DrainFacts DEF Retire, Stay, Draining, BatchIInv, AtStage
    <3> QED
      BY <2>3, <3>1 DEF Retire, Transition, CanTransition
  <2>4. CASE Retry(w) \/ RetryTorn(w)
    BY <2>4 DEF Retry, RetryTorn, Create, CreateTorn
  <2>5. CASE Render(w)
    <3>1. Attempt(w) \in Jobs
      BY <2>5, DrainFacts DEF Render, Draining
    <3> QED
      BY <2>5, <3>1 DEF Render, Claim, ClaimRefused, Transition, CanTransition
  <2> QED
    BY <1>3, <2>1, <2>2, <2>3, <2>4, <2>5 DEF DrainStep
<1>4. ASSUME NEW w \in Workers, Acquire(w) \/ Abandon(w) \/ WorkerDies(w) PROVE Other
  BY <1>4 DEF Acquire, Abandon, WorkerDies, row, renderVars
<1> QED
  BY <1>1, <1>2, <1>3, <1>4 DEF Next

\* What one step is under the promise: at most one of its actions.
LEMMA StepKeepsPromise ==
  ASSUME BatchIInv, [Next]_batchVars
  PROVE  [Promise!Next]_(Promise!vars)
<1> DEFINE R == [i \in Items |-> Renders(i)]  V == [i \in Items |-> VerdictOf(i)]
<1>1. ASSUME \A i \in Items : Renders(i)' = Renders(i) PROVE R' = R
  BY <1>1
<1>2. ASSUME published' = published PROVE V' = V
  BY <1>2 DEF VerdictOf
<1>3. ASSUME parent' = parent \/ (parent = "queued" /\ parent' = "running"), published' = published
      PROVE  Phase' = Phase
  <2>1. parent \in ParentState
    BY DEF BatchIInv, BatchTypeOK
  <2> QED
    BY <1>3, <2>1 DEF Phase, ParentState, Done
<1>4. ASSUME UNCHANGED <<Phase, R, V>> PROVE [Promise!Next]_(Promise!vars)
  BY <1>4 DEF Promise!vars
<1>5. CASE UNCHANGED batchVars
  <2>1. job' = job /\ parent' = parent /\ published' = published
    BY <1>5 DEF batchVars, renderVars, row, batchRow
  <2>2. \A i \in Items : Renders(i)' = Renders(i)
    BY <2>1, RendersStay
  <2> QED
    BY <1>1, <1>2, <1>3, <1>4, <2>1, <2>2
<1>6. CASE Next /\ \A w \in Workers : ~(Render(w) /\ RunStep(w))
  <2>1. R' = R
    BY <1>1, <1>6, SuccessesStay, RendersStay
  <2>2. CASE CommitBatch \/ CommitTorn
    <3>1. parent = "preparing" /\ parent' = "queued" /\ published' = published
      BY <2>2 DEF CommitBatch, CommitTorn, BatchIInv, Phases
    <3>2. Phase = "draft" /\ Phase' = "committed"
      BY <3>1 DEF Phase, Done
    <3> QED
      BY <1>2, <2>1, <3>1, <3>2 DEF Promise!Next, Promise!Decide
  <2>3. CASE AbortEnds
    <3>1. published' = published /\ (parent' = parent \/ (parent = "preparing" /\ parent' = "failed"))
      BY <2>3 DEF AbortEnds, Aborting
    <3>2. CASE parent = "preparing" /\ parent' = "failed"
      <4>1. published = NoOutcome
        BY <3>2 DEF BatchIInv, Closed
      <4>2. Phase = "draft" /\ Phase' = "void"
        BY <3>1, <3>2, <4>1 DEF Phase, Done
      <4> QED
        BY <1>2, <2>1, <3>1, <4>2 DEF Promise!Next, Promise!Decide
    <3> QED
      BY <1>2, <1>3, <1>4, <2>1, <3>1, <3>2
  <2>4. ASSUME NEW w \in Workers, Settle(w) PROVE Promise!Next
    <3>1. Draining(w) /\ stage[w] = "settle" /\ published' = Collected(w)
          /\ parent = "running" /\ parent' \in Done /\ mine[w] # 0
      <4>1. Draining(w) /\ stage[w] = "settle"
        BY <2>4 DEF Settle, Stay, Draining
      <4> QED
        BY <2>4, <4>1, DrainFacts DEF Settle, Done
    <3>2. published' # NoOutcome /\ published'.items = verdicts[w]
      BY <3>1 DEF Collected, NoOutcome
    <3>3. Phase = "committed" /\ Phase' = "closed"
      BY <3>1, <3>2 DEF Phase, Done
    <3>4. \A i \in Items : VerdictOf(i)' = IF verdicts[w][i].ok THEN "ok" ELSE "bad"
      BY <3>2 DEF VerdictOf
    <3>5. V' \in [Items -> {"ok", "bad"}]
      BY <3>4
    <3>6. \A i \in Items : V'[i] = "ok" => R[i] = 1
      <4> SUFFICES ASSUME NEW i \in Items, verdicts[w][i].ok PROVE Renders(i) = 1
        BY <3>4
      <4>1. verdicts[w][i].attempt \in Indices
        BY DEF BatchIInv, BatchTypeOK, Verdict
      <4>2. job[<<i, verdicts[w][i].attempt>>] = "succeeded"
        BY <3>1 DEF BatchIInv, Reports, Behind, Sound, Loadable
      <4> QED
        BY <4>1, <4>2, OneSuccess
    <3> QED
      BY <2>1, <3>3, <3>5, <3>6 DEF Promise!Next, Promise!Close
  <2>5. CASE HoldChild \/ PrepareFails \/ CancelChild \/ HoldChildTorn \/ PreparerDies
    <3>1. parent' = parent /\ published' = published
      BY <2>5 DEF HoldChild, PrepareFails, CancelChild, HoldChildTorn, PreparerDies, Holding, Aborting
    <3> QED
      BY <1>2, <1>3, <1>4, <2>1, <3>1
  <2>6. ASSUME NEW w \in Workers, DrainStep(w) \/ Acquire(w) \/ Abandon(w) \/ RetryTorn(w) \/ WorkerDies(w), ~Settle(w)
        PROVE  [Promise!Next]_(Promise!vars)
    <3>1. (parent' = parent \/ (parent = "queued" /\ parent' = "running")) /\ published' = published
      <4>1. CASE DrainStep(w)
        BY <2>6, <4>1 DEF DrainStep, Index, Refuse, Enter, Release, Pick, Reload, ReviewFailed, Clear, WriteExcuse,
           Retire, Retry, Mark, Render, Rendered, RenderFailed, Judge, WriteResult, batchRow
      <4>2. CASE Acquire(w) \/ Abandon(w) \/ RetryTorn(w) \/ WorkerDies(w)
        BY <4>2 DEF Acquire, Abandon, RetryTorn, WorkerDies, batchRow
      <4> QED
        BY <2>6, <4>1, <4>2
    <3> QED
      BY <1>2, <1>3, <1>4, <2>1, <3>1
  <2> QED
    BY <1>6, <2>2, <2>3, <2>4, <2>5, <2>6 DEF Next, Prepare
<1>7. ASSUME NEW w \in Workers, Render(w), RunStep(w) PROVE [Promise!Next]_(Promise!vars)
  <2>1. PICK c \in Items, k \in Indices : c = cur[w] /\ k = Newest(w, cur[w]) /\ Attempt(w) = <<c, k>> /\ <<c, k>> \in Jobs
    BY <1>7, DrainFacts DEF Render, Draining
  <2> DEFINE j == <<c, k>>
  <2>2. On(w) = j
    <3>1. at[w] # "idle"
      BY <1>7, RunStepEffect DEF Inside, Executing, Cleaning, BatchIInv, BatchTypeOK
    <3> QED
      BY <2>1, <3>1 DEF BatchIInv, Seat
  <2>3. /\ job[j] = "running" /\ \A i \in Jobs \ {j} : job'[i] = job[i]
        /\ job'[j] \in {"running", "succeeded", "failed", "cancelled"}
    <3>1. RenderIInv /\ Nobody \notin Interrupted
      BY RenderAssumption DEF BatchIInv, FailureCode
    <3> QED
      BY <1>7, <2>2, <3>1, RunStepTells
  <2>4. parent' = parent /\ published' = published /\ parent = "running"
    BY <1>7, DrainFacts DEF Render, batchRow, Draining
  <2>5. CASE job'[j] # "succeeded"
    <3>1. \A i \in Jobs : job'[i] = "succeeded" <=> job[i] = "succeeded"
      BY <2>3, <2>5
    <3> QED
      BY <1>1, <1>2, <1>3, <1>4, <2>4, <3>1, RendersStay
  <2>6. CASE job'[j] = "succeeded"
    <3>1. \A n \in Indices : job[<<c, n>>] # "succeeded"
      <4>1. \A n \in Indices : n > k => job[<<c, n>>] = "none"
        BY <2>3, NothingAfter DEF Made
      <4>2. \A n \in Indices : n < k => job[<<c, n>>] # "succeeded"
        BY <2>3, NothingAfter DEF Made
      <4>3. \A n \in Indices : n < k \/ n > k \/ n = k
        BY BatchAssumption, RenderAssumption DEF Indices
      <4> QED
        BY <2>3, <4>1, <4>2, <4>3
    <3>2. Renders(c) = 0 /\ Renders(c)' = 1
      <4>1. Renders(c) = 0
        BY <3>1, OneSuccess DEF Successes
      <4>2. \A n \in Indices : <<c, n>> \in Jobs /\ (n # k => <<c, n>> # j)
        BY BatchAssumption
      <4>3. {n \in Indices : job'[<<c, n>>] = "succeeded"} = {k}
        BY <2>3, <2>6, <3>1, <4>2
      <4> QED
        BY <4>1, <4>3, FS_Singleton DEF Renders
    <3>3. \A i \in Items \ {c} : Renders(i)' = Renders(i)
      <4> SUFFICES ASSUME NEW i \in Items \ {c} PROVE Renders(i)' = Renders(i)
        OBVIOUS
      <4>1. \A n \in Indices : job'[<<i, n>>] = job[<<i, n>>]
        <5>1. \A n \in Indices : <<i, n>> \in Jobs \ {j}
          BY BatchAssumption
        <5> QED
          BY <2>3, <5>1
      <4>2. {n \in Indices : job'[<<i, n>>] = "succeeded"} = {n \in Indices : job[<<i, n>>] = "succeeded"}
        BY <4>1
      <4> QED
        BY <4>2 DEF Renders
    <3>4. R' = [R EXCEPT ![c] = 1] /\ R[c] = 0
      BY <3>2, <3>3
    <3>5. Phase = "committed" /\ Phase' = Phase
      <4>1. Phase = "committed"
        BY <2>4 DEF Phase, Done
      <4> QED
        BY <1>3, <2>4, <4>1
    <3> QED
      BY <1>2, <2>4, <3>4, <3>5 DEF Promise!Next, Promise!Render
  <2> QED
    BY <2>5, <2>6
<1> QED
  BY <1>5, <1>6, <1>7

\* Preparation, drains, recovery and retries implement the promise: an item is
\* rendered successfully at most once, and the verdicts are published once.
THEOREM BatchRefines == Spec => ImplementsBatchOutcome
<1>1. Init => Promise!Init
  <2> SUFFICES ASSUME Init PROVE Promise!Init
    OBVIOUS
  <2>1. Phase = "draft"
    BY DEF Init, Phase, Done
  <2>2. \A i \in Items : Renders(i) = 0
    <3>1. \A i \in Items, k \in Indices : job[<<i, k>>] = "none"
      BY BatchAssumption DEF Init, RenderInit
    <3>2. \A i \in Items : Successes(i) = {}
      BY <3>1 DEF Successes
    <3> QED
      BY <3>2, OneSuccess, Init_BatchIInv
  <2>3. \A i \in Items : VerdictOf(i) = "open"
    BY DEF Init, VerdictOf
  <2> QED
    BY <2>1, <2>2, <2>3 DEF Promise!Init
<1>2. BatchIInv /\ [Next]_batchVars => [Promise!Next]_(Promise!vars)
  BY StepKeepsPromise
<1> QED
  BY <1>1, <1>2, BatchInvariant, PTL DEF Spec, ImplementsBatchOutcome, Promise!Spec

----------------------------------------------------------------------------
(* Refinement of RenderOnce *)

\* No row changes, and nobody enters or leaves run_job.
LEMMA QuietActs ==
  ASSUME BatchIInv, BatchIInv', UNCHANGED <<row, worker>>
  PROVE  [Execution!Next]_(Execution!vars)
<1>1. SeenByOwner /\ SeenByOwner'
  BY Seen, SeenAfter DEF BatchIInv
<1>2. /\ \A i \in Jobs : job'[i] = job[i] /\ receipt'[i] = receipt[i]
      /\ \A w \in Workers, i \in Jobs : Running(w, i)' <=> Running(w, i)
  BY DEF row, worker, Running, On
<1> QED
  BY <1>1, <1>2, NothingSeen

\* What a batch does to an attempt outside run_job: release it, cancel it before
\* anybody has claimed it, or retire it when nobody renders.
LEMMA RowActs ==
  ASSUME BatchIInv, BatchIInv', UNCHANGED worker, NEW j \in Jobs,
         \A i \in Jobs \ {j} : job'[i] = job[i] /\ receipt'[i] = receipt[i],
         \/ /\ job[j] = "batch_held" /\ job'[j] = "queued"
            /\ receipt'[j].failure = receipt[j].failure
         \/ /\ job[j] \in {"batch_held", "queued"} /\ job'[j] = "cancelled"
            /\ receipt'[j].failure = receipt[j].failure
         \/ /\ job[j] \in {"queued", "running"} /\ job'[j] = "failed"
            /\ receipt'[j].failure \in Interrupted
            /\ \A v \in Workers : ~Inside(v)
  PROVE  [Execution!Next]_(Execution!vars)
<1>1. SeenByOwner /\ SeenByOwner'
  BY Seen, SeenAfter DEF BatchIInv
<1>2. \A w \in Workers, i \in Jobs : Running(w, i)' <=> Running(w, i)
  BY DEF worker, Running, On
<1>3. Elsewhere(j)
  BY <1>2 DEF Elsewhere
<1>4. Runner(j)' = Runner(j)
  BY <1>1, <1>2 DEF SeenByOwner
<1>5. FilmOf(j)' = FilmOf(j) /\ FailureOf(j) = receipt[j].failure /\ FailureOf(j)' = receipt'[j].failure
  BY <1>1 DEF SeenByOwner
<1>6. CASE job[j] = "batch_held" /\ job'[j] = "queued" /\ receipt'[j].failure = receipt[j].failure
  <2>1. Status(j)' = Status(j) /\ Keeps(j)
    BY <1>5, <1>6 DEF Status, Keeps
  <2> QED
    BY <1>1, <1>3, <1>4, <2>1, ActsIsAStep DEF Acts
<1>7. CASE /\ job[j] \in {"batch_held", "queued"} /\ job'[j] = "cancelled"
           /\ receipt'[j].failure = receipt[j].failure
  <2>1. Status(j) = "waiting" /\ Status(j)' = "cancelled" /\ Keeps(j)
    BY <1>5, <1>7 DEF Status, Keeps
  <2> QED
    BY <1>1, <1>3, <1>4, <2>1, ActsIsAStep DEF Acts
<1>8. CASE /\ job[j] \in {"queued", "running"} /\ job'[j] = "failed"
           /\ receipt'[j].failure \in Interrupted /\ \A v \in Workers : ~Inside(v)
  <2>1. Runner(j) = Nobody
    BY <1>1, <1>8 DEF SeenByOwner, Running, Inside
  <2>2. Status(j) \in {"waiting", "running"} /\ Status(j)' = "failed"
    BY <1>8 DEF Status
  <2> QED
    BY <1>1, <1>3, <1>4, <1>5, <1>8, <2>1, <2>2, ActsIsAStep DEF Acts
<1> QED
  BY <1>6, <1>7, <1>8

\* The first attempt of the next item is a job.
LEMMA FirstAttempts == \A i \in Items : <<i, 0>> \in Jobs
  BY BatchAssumption, RenderAssumption DEF Indices

\* Preparing a batch submits first attempts and may cancel them again.
LEMMA PreparationActs ==
  ASSUME BatchIInv, BatchIInv', Prepare \/ HoldChildTorn \/ CommitTorn \/ PreparerDies
  PROVE  [Execution!Next]_(Execution!vars)
<1>1. CASE HoldChild \/ HoldChildTorn
  <2>1. PICK j \in Jobs : j = <<NextChild, 0>>
    BY <1>1, NextChildIsItem, FirstAttempts DEF HoldChild, HoldChildTorn
  <2>2. (Create(j, "batch_held") \/ CreateTorn(j, "batch_held")) /\ UNCHANGED worker
    BY <1>1, <2>1 DEF HoldChild, HoldChildTorn
  <2>3. SeenByOwner /\ SeenByOwner' /\ RenderTypeOK
    BY Seen, SeenAfter DEF BatchIInv, BatchTypeOK
  <2> QED
    BY <2>2, <2>3, CreateActs
<1>2. CASE CommitBatch \/ PrepareFails \/ AbortEnds \/ CommitTorn \/ PreparerDies
  <2>1. UNCHANGED <<row, worker>>
    BY <1>2 DEF CommitBatch, PrepareFails, AbortEnds, Aborting, CommitTorn, PreparerDies, renderVars, row
  <2> QED
    BY <2>1, QuietActs
<1>3. CASE CancelChild
  <2>1. PICK j \in Unclaimed : job' = [job EXCEPT ![j] = "cancelled"]
    BY <1>3 DEF CancelChild
  <2>2. j \in Jobs /\ job[j] \in {"batch_held", "queued"}
    BY <2>1, FirstAttempts DEF Unclaimed
  <2>3. UNCHANGED <<receipt, worker>>
    BY <1>3 DEF CancelChild, Aborting
  <2>4. job'[j] = "cancelled" /\ \A i \in Jobs \ {j} : job'[i] = job[i]
    BY <2>1, <2>2 DEF BatchIInv, BatchTypeOK, RenderTypeOK
  <2> QED
    BY <2>2, <2>3, <2>4, RowActs
<1> QED
  BY <1>1, <1>2, <1>3 DEF Prepare

\* The held first attempt becomes runnable.
LEMMA ReleaseActs ==
  ASSUME BatchIInv, BatchIInv', NEW w \in Workers, Release(w)
  PROVE  [Execution!Next]_(Execution!vars)
<1>1. PICK j \in Jobs : j = Attempt(w)
  BY DrainFacts DEF Release, Stay, Draining
<1>2. UNCHANGED worker
  BY DEF Release
<1>3. CASE UNCHANGED row
  BY <1>2, <1>3, QuietActs
<1>4. CASE Transition(j, "batch_held", "queued", NoReceipts)
  <2>1. /\ job[j] = "batch_held" /\ job' = [job EXCEPT ![j] = "queued"]
        /\ receipt' = [receipt EXCEPT ![j] = Appended(j, NoReceipts)]
    BY <1>4 DEF Transition, CanTransition
  <2>2. Appended(j, NoReceipts).failure = receipt[j].failure
    BY DEF Appended, Added, NoReceipts
  <2>3. /\ job'[j] = "queued" /\ receipt'[j].failure = receipt[j].failure
        /\ \A i \in Jobs \ {j} : job'[i] = job[i] /\ receipt'[i] = receipt[i]
    BY <2>1, <2>2 DEF BatchIInv, BatchTypeOK, RenderTypeOK
  <2> QED
    BY <1>2, <2>1, <2>3, RowActs
<1> QED
  BY <1>1, <1>3, <1>4 DEF Release

\* A dead drain's attempt is ended with an explanation, and nobody is running it.
LEMMA RetireActs ==
  ASSUME BatchIInv, BatchIInv', NEW w \in Workers, Retire(w)
  PROVE  [Execution!Next]_(Execution!vars)
<1>1. PICK j \in Jobs : j = Attempt(w)
  BY DrainFacts DEF Retire, Stay, Draining
<1>2. UNCHANGED worker
  BY DEF Retire
<1>3. CASE UNCHANGED row
  BY <1>2, <1>3, QuietActs
<1>4. CASE Transition(j, View(w).state, "failed", Retirement(w))
  <2>1. /\ job[j] = View(w).state /\ job' = [job EXCEPT ![j] = "failed"]
        /\ receipt' = [receipt EXCEPT ![j] = Appended(j, Retirement(w))]
    BY <1>4 DEF Transition, CanTransition
  <2>2. job[j] \in {"queued", "running"}
    BY <2>1 DEF Retire, Stay, BatchIInv, AtStage
  <2>3. Appended(j, Retirement(w)).failure = Excuse(w) /\ Excuse(w) \in Interrupted
    <3>1. Excuse(w) \in Interrupted /\ Excuse(w) # Nobody
      BY RenderAssumption DEF Excuse, Interrupted, FailureCode
    <3>2. Retirement(w).failure = Excuse(w)
      BY DEF Retirement
    <3> QED
      BY <3>1, <3>2 DEF Appended, Added
  <2>4. /\ job'[j] = "failed" /\ receipt'[j].failure \in Interrupted
        /\ \A i \in Jobs \ {j} : job'[i] = job[i] /\ receipt'[i] = receipt[i]
    BY <2>1, <2>3 DEF BatchIInv, BatchTypeOK, RenderTypeOK
  <2>5. \A v \in Workers : ~Inside(v)
    BY NobodyInside DEF Retire, Stay, Draining
  <2> QED
    BY <1>2, <2>2, <2>4, <2>5, RowActs
<1> QED
  BY <1>1, <1>3, <1>4 DEF Retire

\* Another attempt is a job of its own.
LEMMA RetryActs ==
  ASSUME BatchIInv, BatchIInv', NEW w \in Workers, Retry(w) \/ RetryTorn(w)
  PROVE  [Execution!Next]_(Execution!vars)
<1>1. UNCHANGED worker
  BY DEF Retry, RetryTorn
<1>2. CASE UNCHANGED row
  BY <1>1, <1>2, QuietActs
<1>3. CASE \E j \in Jobs : Create(j, "queued") \/ CreateTorn(j, "queued")
  <2>1. SeenByOwner /\ SeenByOwner' /\ RenderTypeOK
    BY Seen, SeenAfter DEF BatchIInv, BatchTypeOK
  <2> QED
    BY <1>1, <1>3, <2>1, CreateActs
<1> QED
  BY <1>2, <1>3 DEF Retry, RetryTorn

\* run_job of the drain's own attempt.
LEMMA RenderActs ==
  ASSUME BatchIInv, BatchIInv', NEW w \in Workers, Render(w)
  PROVE  [Execution!Next]_(Execution!vars)
<1>1. SeenByOwner /\ SeenByOwner' /\ RenderTypeOK /\ RenderIInv /\ RenderIInv'
  BY Seen, SeenAfter DEF BatchIInv, BatchTypeOK
<1>2. PICK j \in Jobs : j = Attempt(w)
  BY DrainFacts DEF Render, Draining
<1>3. CASE RunStep(w)
  BY <1>1, <1>3, RunStepActs
<1>4. CASE Claim(w, j)
  BY <1>1, <1>4, ClaimActs
<1>5. CASE ClaimRefused(w, j)
  <2>1. UNCHANGED row /\ ~Inside(w)' /\ OthersGoOn(w)
    BY <1>1, <1>5 DEF ClaimRefused, Goto, RenderTypeOK, OthersGoOn, Inside, Executing, Cleaning, row
  <2> QED
    BY <1>1, <2>1, GoneActs DEF row
<1> QED
  BY <1>2, <1>3, <1>4, <1>5 DEF Render

\* run_job is over for this worker: the drain takes its answer, or the process
\* is gone.
LEMMA OverActs ==
  ASSUME BatchIInv, BatchIInv', NEW w \in Workers, Rendered(w) \/ RenderFailed(w) \/ WorkerDies(w)
  PROVE  [Execution!Next]_(Execution!vars)
<1>1. SeenByOwner /\ SeenByOwner' /\ RenderTypeOK
  BY Seen, SeenAfter DEF BatchIInv, BatchTypeOK
<1>2. UNCHANGED <<row, mem>> /\ Goto(w, "idle")
  BY DEF Rendered, RenderFailed, WorkerDies
<1>3. ~Inside(w)' /\ OthersGoOn(w)
  BY <1>1, <1>2 DEF Goto, RenderTypeOK, OthersGoOn, Inside, Executing, Cleaning
<1> QED
  BY <1>1, <1>2, <1>3, GoneActs DEF row

\* Everything else a drain does is about files, the index and the batch's own row.
LEMMA DrainActs ==
  ASSUME BatchIInv, BatchIInv', NEW w \in Workers,
         \/ DrainStep(w) \/ Acquire(w) \/ Abandon(w) \/ RetryTorn(w) \/ WorkerDies(w)
  PROVE  [Execution!Next]_(Execution!vars)
<1>1. CASE Index(w) \/ Refuse(w) \/ Enter(w) \/ Acquire(w) \/ Abandon(w)
  <2>1. UNCHANGED <<row, worker>>
    BY <1>1 DEF Index, Refuse, Enter, Acquire, Abandon, renderVars, row
  <2> QED
    BY <2>1, QuietActs
<1>2. CASE Pick(w) \/ Reload(w) \/ ReviewFailed(w) \/ Clear(w) \/ WriteExcuse(w) \/ Mark(w)
  <2>1. UNCHANGED <<row, worker>>
    BY <1>2 DEF Pick, Reload, ReviewFailed, Clear, WriteExcuse, Mark, renderVars
  <2> QED
    BY <2>1, QuietActs
<1>3. CASE Judge(w) \/ WriteResult(w) \/ Settle(w)
  <2>1. UNCHANGED <<row, worker>>
    BY <1>3 DEF Judge, WriteResult, Settle, renderVars
  <2> QED
    BY <2>1, QuietActs
<1> QED
  BY <1>1, <1>2, <1>3, ReleaseActs, RetireActs, RetryActs, RenderActs, OverActs DEF DrainStep

\* Also the attempts of a batch implement RenderOnce, although recovery ends and
\* retries what dead drains left behind: an attempt is begun once, nobody ends it
\* while its worker lives, and what is loaded for it never changes.
THEOREM BatchRendersOnce == Spec => ImplementsRenderOnce
<1>1. Init => Execution!Init
  <2> SUFFICES ASSUME Init PROVE Execution!Init
    OBVIOUS
  <2>1. SeenByOwner
    BY Init_BatchIInv, Seen DEF BatchIInv
  <2>2. \A j \in Jobs : Status(j) = "none" /\ FilmOf(j) = Nobody /\ FailureOf(j) = Nobody
    BY <2>1 DEF Init, RenderInit, Status, SeenByOwner, NoReceipts
  <2>3. \A w \in Workers, j \in Jobs : ~Running(w, j)
    BY DEF Init, RenderInit, Running, Executing, Cleaning
  <2>4. \A j \in Jobs : Runner(j) = Nobody
    BY <2>1, <2>3 DEF SeenByOwner
  <2> QED
    BY <2>2, <2>4 DEF Execution!Init
<1>2. BatchIInv /\ BatchIInv' /\ [Next]_batchVars => [Execution!Next]_(Execution!vars)
  <2> SUFFICES ASSUME BatchIInv, BatchIInv', [Next]_batchVars PROVE [Execution!Next]_(Execution!vars)
    OBVIOUS
  <2>1. CASE UNCHANGED batchVars
    BY <2>1, QuietActs DEF batchVars, renderVars
  <2> QED
    BY <2>1, PreparationActs, DrainActs DEF Next
<1> QED
  BY <1>1, <1>2, BatchInvariant, PTL DEF Spec, ImplementsRenderOnce, Execution!Spec
=============================================================================
