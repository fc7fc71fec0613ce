-------------------------- MODULE RenderJobsProofs --------------------------
(***************************************************************************)
(* Proofs about RenderJobs, for any sets of jobs and workers and any bounds  *)
(* on faults and deaths.  RenderInv alone is not inductive: it does not say   *)
(* that a job nobody has run has no receipts, nor what the files of a job      *)
(* have to do with the local variables of the worker that is writing them.   *)
(***************************************************************************)
EXTENDS RenderJobs, TLAPS

Inside(w) == at[w] \in Executing \cup Cleaning

\* A job that has not ended has no receipts, and one that succeeded has its plan.
OpenIsBlank ==
  \A j \in Jobs : job[j] \in {"none", "batch_held", "queued", "running"} => receipt[j] = NoReceipts

PlanIsKept == \A j \in Jobs : job[j] = "succeeded" => disk[j].plan

\* What run_job's local variables and its position say of the files: the
\* command manifest is the worker's own once it has its digest; the output is
\* its own from the audit on, and the artifact manifest binds it before the
\* commit; failure evidence is gone at the commit, and at the end of the cleanup it is what
\* the worker noted.
Tells(w) ==
  Inside(w) =>
    /\ mem[w].command => disk[On(w)].plan /\ disk[On(w)].command = w
    /\ at[w] \in {"encode", "audit", "seal", "commit"} => mem[w].command
    /\ at[w] = "audit" => disk[On(w)].output = w
    /\ at[w] \in {"seal", "commit"} =>
         /\ mem[w].artifact = w
         /\ disk[On(w)].manifest = mem[w].artifact
         /\ disk[On(w)].output = mem[w].artifact
    /\ at[w] = "commit" => disk[On(w)].failure = Nobody
    /\ at[w] # "close" => mem[w].noted = Nobody
    /\ mem[w].noted # Nobody =>
         mem[w].noted = mem[w].code /\ disk[On(w)].failure = mem[w].noted

LocalsTellFiles == \A w \in Workers : Tells(w)

RenderIInv == RenderInv /\ OpenIsBlank /\ PlanIsKept /\ LocalsTellFiles

----------------------------------------------------------------------------
(* One step of run_job, whatever it is *)


\* The files of the worker's job, its locals and its place are all a step of
\* run_job changes beside the job's row.
Effect(w) ==
  /\ \E p \in Executing \cup Cleaning \cup Resting : at' = [at EXCEPT ![w] = p]
  /\ \E m \in Locals : m.job = On(w) /\ mem' = [mem EXCEPT ![w] = m]
  /\ \E f \in Files : f.plan = disk[On(w)].plan /\ disk' = [disk EXCEPT ![On(w)] = f]
  /\ faults' \in 0..MaxFaults
  /\ deaths' = deaths

\* What a step spends of its budget of faults.
LEMMA BudgetEffect ==
  ASSUME RenderTypeOK, Free \/ Spend
  PROVE  faults' \in 0..MaxFaults /\ deaths' = deaths
  BY RenderAssumption DEF RenderTypeOK, Free, Spend, budget

\* Each step of run_job has this effect, and starts inside run_job.
LEMMA RunStepEffect ==
  ASSUME RenderTypeOK, NEW w \in Workers, RunStep(w)
  PROVE  Effect(w) /\ Inside(w)
<1> DEFINE Place == Executing \cup Cleaning \cup Resting
<1>0. /\ mem[w] \in Locals /\ On(w) \in Jobs /\ disk[On(w)] \in Files
      /\ mem = [mem EXCEPT ![w] = mem[w]]
      /\ disk = [disk EXCEPT ![On(w)] = disk[On(w)]]
      /\ w \in Digest /\ Nobody \in Digest /\ Nobody \in Code
      /\ "failed" \in Code /\ "cancelled" \in Code
  BY DEF RenderTypeOK, On, Locals, Digest, Code, FailureCode
<1>1. CASE Compile(w)
  <2>1. \E p \in Place : at' = [at EXCEPT ![w] = p]
    BY <1>1 DEF Compile, Goto, Raise, Executing, Cleaning, Resting
  <2>2. \E m \in Locals : m.job = On(w) /\ mem' = [mem EXCEPT ![w] = m]
    BY <1>0, <1>1 DEF Compile, Raise, Locals, On
  <2>3. \E f \in Files : f.plan = disk[On(w)].plan /\ disk' = [disk EXCEPT ![On(w)] = f]
    BY <1>0, <1>1 DEF Compile, Files
  <2>4. Free \/ Spend
    BY <1>1 DEF Compile
  <2> QED
    BY <2>1, <2>2, <2>3, <2>4, <1>1, BudgetEffect DEF Effect, Inside, Compile, Executing, Cleaning
<1>2. CASE Encode(w)
  <2>1. \E p \in Place : at' = [at EXCEPT ![w] = p]
    BY <1>2 DEF Encode, Goto, Raise, Executing, Cleaning, Resting
  <2>2. \E m \in Locals : m.job = On(w) /\ mem' = [mem EXCEPT ![w] = m]
    BY <1>0, <1>2 DEF Encode, Raise, Locals, On
  <2>3. \E f \in Files : f.plan = disk[On(w)].plan /\ disk' = [disk EXCEPT ![On(w)] = f]
    BY <1>0, <1>2 DEF Encode, Files
  <2>4. Free \/ Spend
    BY <1>2 DEF Encode
  <2> QED
    BY <2>1, <2>2, <2>3, <2>4, <1>2, BudgetEffect DEF Effect, Inside, Encode, Executing, Cleaning
<1>3. CASE Audit(w)
  <2>1. \E p \in Place : at' = [at EXCEPT ![w] = p]
    BY <1>3 DEF Audit, Goto, Raise, Executing, Cleaning, Resting
  <2>2. \E m \in Locals : m.job = On(w) /\ mem' = [mem EXCEPT ![w] = m]
    BY <1>0, <1>3 DEF Audit, Raise, Locals, Files, On
  <2>3. \E f \in Files : f.plan = disk[On(w)].plan /\ disk' = [disk EXCEPT ![On(w)] = f]
    BY <1>0, <1>3 DEF Audit, Files
  <2>4. Free \/ Spend
    BY <1>3 DEF Audit
  <2> QED
    BY <2>1, <2>2, <2>3, <2>4, <1>3, BudgetEffect DEF Effect, Inside, Audit, Executing, Cleaning
<1>4. CASE Seal(w)
  <2>1. \E p \in Place : at' = [at EXCEPT ![w] = p]
    BY <1>4 DEF Seal, Goto, Raise, Executing, Cleaning, Resting
  <2>2. \E m \in Locals : m.job = On(w) /\ mem' = [mem EXCEPT ![w] = m]
    BY <1>0, <1>4 DEF Seal, Raise, Locals, On
  <2>3. \E f \in Files : f.plan = disk[On(w)].plan /\ disk' = [disk EXCEPT ![On(w)] = f]
    BY <1>0, <1>4 DEF Seal, Files
  <2>4. Free \/ Spend
    BY <1>4 DEF Seal
  <2> QED
    BY <2>1, <2>2, <2>3, <2>4, <1>4, BudgetEffect DEF Effect, Inside, Seal, Executing, Cleaning
<1>5. CASE Commit(w)
  <2>1. \E p \in Place : at' = [at EXCEPT ![w] = p]
    BY <1>5 DEF Commit, Goto, Raise, Executing, Cleaning, Resting
  <2>2. \E m \in Locals : m.job = On(w) /\ mem' = [mem EXCEPT ![w] = m]
    BY <1>0, <1>5 DEF Commit, Raise, Locals, On
  <2>3. \E f \in Files : f.plan = disk[On(w)].plan /\ disk' = [disk EXCEPT ![On(w)] = f]
    BY <1>0, <1>5 DEF Commit, Files
  <2>4. Free \/ Spend
    BY <1>5 DEF Commit
  <2> QED
    BY <2>1, <2>2, <2>3, <2>4, <1>5, BudgetEffect DEF Effect, Inside, Commit, Executing, Cleaning
<1>6. CASE Discard(w)
  <2>1. \E p \in Place : at' = [at EXCEPT ![w] = p]
    BY <1>6 DEF Discard, Goto, Raise, Executing, Cleaning, Resting
  <2>2. \E m \in Locals : m.job = On(w) /\ mem' = [mem EXCEPT ![w] = m]
    BY <1>0, <1>6 DEF Discard, Raise, Locals, On
  <2>3. \E f \in Files : f.plan = disk[On(w)].plan /\ disk' = [disk EXCEPT ![On(w)] = f]
    BY <1>0, <1>6 DEF Discard, Files
  <2>4. Free \/ Spend
    BY <1>6 DEF Discard
  <2> QED
    BY <2>1, <2>2, <2>3, <2>4, <1>6, BudgetEffect DEF Effect, Inside, Discard, Executing, Cleaning
<1>7. CASE Explain(w)
  <2>1. \E p \in Place : at' = [at EXCEPT ![w] = p]
    BY <1>7 DEF Explain, Goto, Raise, Executing, Cleaning, Resting
  <2>2. \E m \in Locals : m.job = On(w) /\ mem' = [mem EXCEPT ![w] = m]
    BY <1>0, <1>7 DEF Explain, Raise, Locals, On
  <2>3. \E f \in Files : f.plan = disk[On(w)].plan /\ disk' = [disk EXCEPT ![On(w)] = f]
    BY <1>0, <1>7 DEF Explain, Files, Locals
  <2>4. Free \/ Spend
    BY <1>7 DEF Explain
  <2> QED
    BY <2>1, <2>2, <2>3, <2>4, <1>7, BudgetEffect DEF Effect, Inside, Explain, Executing, Cleaning
<1>8. CASE Close(w)
  <2>1. \E p \in Place : at' = [at EXCEPT ![w] = p]
    BY <1>8 DEF Close, Goto, Raise, Executing, Cleaning, Resting
  <2>2. \E m \in Locals : m.job = On(w) /\ mem' = [mem EXCEPT ![w] = m]
    BY <1>0, <1>8 DEF Close, Raise, Locals, On
  <2>3. \E f \in Files : f.plan = disk[On(w)].plan /\ disk' = [disk EXCEPT ![On(w)] = f]
    BY <1>0, <1>8 DEF Close, Files
  <2>4. Free \/ Spend
    BY <1>8 DEF Close
  <2> QED
    BY <2>1, <2>2, <2>3, <2>4, <1>8, BudgetEffect DEF Effect, Inside, Close, Executing, Cleaning
<1> QED
  BY <1>1, <1>2, <1>3, <1>4, <1>5, <1>6, <1>7, <1>8 DEF RunStep

\* The worker is alone with its job, so a step of it that leaves the row
\* running disturbs nothing that is said of rows, receipts or other workers.
LEMMA LocalStepKeeps ==
  ASSUME RenderIInv, NEW w \in Workers, Effect(w), Inside(w), UNCHANGED row
  PROVE  /\ RenderInv' /\ OpenIsBlank' /\ PlanIsKept'
         /\ \A v \in Workers \ {w} : Inside(v)' => /\ Inside(v) /\ at'[v] = at[v]
                                                 /\ mem'[v] = mem[v]
                                                 /\ disk'[On(v)] = disk[On(v)]
<1> USE DEF RenderIInv, RenderInv
<1>0. /\ On(w) \in Jobs /\ job[On(w)] = "running" /\ receipt[On(w)] = NoReceipts
      /\ \A v \in Workers \ {w} : Inside(v) => On(v) # On(w)
      /\ job' = job /\ receipt' = receipt
  BY DEF RenderTypeOK, RunnerOwnsJob, Inside, On, Locals, row
<1>1. PICK p \in Executing \cup Cleaning \cup Resting, m \in Locals, f \in Files :
        /\ at' = [at EXCEPT ![w] = p]
        /\ m.job = On(w) /\ mem' = [mem EXCEPT ![w] = m]
        /\ disk' = [disk EXCEPT ![On(w)] = f]
  BY DEF Effect
<1>2. RenderTypeOK'
  BY <1>0, <1>1 DEF RenderTypeOK, Effect
<1>3. \A j \in Jobs : j # On(w) => disk'[j] = disk[j]
  BY <1>0, <1>1 DEF RenderTypeOK
<1>4. \A v \in Workers : v # w => at'[v] = at[v] /\ mem'[v] = mem[v]
  BY <1>1 DEF RenderTypeOK
<1>5. mem'[w].job = mem[w].job
  BY <1>1 DEF RenderTypeOK, On
<1>6. ArtifactLoadable'
  BY <1>0, <1>3 DEF ArtifactLoadable
<1>7. FailureLoadable'
  BY <1>0, <1>3 DEF FailureLoadable, NoReceipts
<1>8. RunnerOwnsJob'
  BY <1>0, <1>4, <1>5 DEF RunnerOwnsJob, On, Inside
<1>9. OpenIsBlank' /\ PlanIsKept'
  BY <1>0, <1>3 DEF OpenIsBlank, PlanIsKept
<1>10. \A v \in Workers \ {w} : On(v) \in Jobs
  BY DEF RenderTypeOK, On, Locals
<1> QED
  BY <1>0, <1>2, <1>3, <1>4, <1>6, <1>7, <1>8, <1>9, <1>10 DEF Inside, On

\* The other workers' files and locals are as before: what is left to show
\* of LocalsTellFiles is the worker that took the step.
LEMMA LocalsOfOne ==
  ASSUME RenderIInv, NEW w \in Workers, Effect(w), Inside(w), UNCHANGED row, Tells(w)'
  PROVE  RenderIInv'
<1>1. LocalsTellFiles'
  <2> SUFFICES ASSUME NEW v \in Workers, v # w PROVE Tells(v)'
    BY DEF LocalsTellFiles
  <2>1. Tells(v)
    BY DEF RenderIInv, LocalsTellFiles
  <2> QED
    BY <2>1, LocalStepKeeps DEF Tells, On
<1> QED
  BY <1>1, LocalStepKeeps DEF RenderIInv

\* The six steps between the claim and the terminal update.
LEMMA LocalRunStepKeeps ==
  ASSUME RenderIInv, NEW w \in Workers,
         Compile(w) \/ Encode(w) \/ Audit(w) \/ Seal(w) \/ Discard(w) \/ Explain(w)
  PROVE  RenderIInv'
<1>0. /\ RenderTypeOK /\ RunStep(w) /\ UNCHANGED row
      /\ w # Nobody /\ On(w) \in Jobs /\ mem[w] \in Locals /\ disk[On(w)] \in Files
  BY RenderAssumption DEF RenderIInv, RenderInv, RenderTypeOK, RunStep, On, Locals,
     Compile, Encode, Audit, Seal, Discard, Explain
<1>1. Effect(w) /\ Inside(w)
  BY <1>0, RunStepEffect
<1>2. Tells(w) /\ RenderTypeOK
  BY DEF RenderIInv, RenderInv, LocalsTellFiles
<1>3. SUFFICES Tells(w)'
  BY <1>0, <1>1, LocalsOfOne
<1> DEFINE m == mem[w]  n == mem'[w]  f == disk[On(w)]  g == disk'[On(w)]
<1>4. n.job = m.job /\ g.plan = f.plan /\ m.artifact \in Digest /\ f.output \in Digest
  BY <1>0, <1>1, <1>2 DEF Effect, RenderTypeOK, On, Locals, Files
<1> USE DEF Goto, Raise, RenderTypeOK, On
<1>5. CASE Compile(w)
  <2>1. at[w] = "compile"
    BY <1>0, <1>2, <1>5 DEF Compile
  <2>2. \/ at'[w] = "encode" /\ n = [m EXCEPT !.command = TRUE] /\ f.plan /\ g = [f EXCEPT !.command = w]
        \/ at'[w] = "discard" /\ n = [m EXCEPT !.code = "failed"] /\ g \in {f, [f EXCEPT !.command = w]}
    BY <1>0, <1>2, <1>5 DEF Compile
  <2> QED
    BY <2>1, <2>2, <1>0, <1>2, <1>4 DEF Tells, Inside, Executing, Cleaning, Files, Locals
<1>6. CASE Encode(w)
  <2>1. at[w] = "encode"
    BY <1>0, <1>2, <1>6 DEF Encode
  <2>2. \/ at'[w] = "audit" /\ n = m /\ g = [f EXCEPT !.output = w]
        \/ /\ at'[w] = "discard" /\ g \in {f, [f EXCEPT !.output = w]}
           /\ n \in {[m EXCEPT !.code = "failed"], [m EXCEPT !.code = "cancelled"]}
    BY <1>0, <1>2, <1>6 DEF Encode
  <2> QED
    BY <2>1, <2>2, <1>0, <1>2, <1>4 DEF Tells, Inside, Executing, Cleaning, Files, Locals
<1>7. CASE Audit(w)
  <2>1. at[w] = "audit"
    BY <1>0, <1>2, <1>7 DEF Audit
  <2>2. \/ /\ at'[w] = "seal" /\ f.output # Nobody
           /\ n = [m EXCEPT !.artifact = f.output] /\ g = [f EXCEPT !.manifest = f.output]
        \/ at'[w] = "discard" /\ n = [m EXCEPT !.code = "failed"] /\ g \in {f, [f EXCEPT !.manifest = f.output]}
    BY <1>0, <1>2, <1>7 DEF Audit
  <2> QED
    BY <2>1, <2>2, <1>0, <1>2, <1>4 DEF Tells, Inside, Executing, Cleaning, Files, Locals
<1>8. CASE Seal(w)
  <2>1. at[w] = "seal"
    BY <1>0, <1>2, <1>8 DEF Seal
  <2>2. \/ at'[w] = "commit" /\ n = m /\ g = [f EXCEPT !.failure = Nobody]
        \/ at'[w] = "discard" /\ n = [m EXCEPT !.code = "failed"] /\ g = f
    BY <1>0, <1>2, <1>8 DEF Seal
  <2> QED
    BY <2>1, <2>2, <1>0, <1>2, <1>4 DEF Tells, Inside, Executing, Cleaning, Files, Locals
<1>9. CASE Discard(w)
  <2>1. at[w] = "discard"
    BY <1>0, <1>2, <1>9 DEF Discard, Files
  <2>2. at'[w] = "explain" /\ n = m /\ g.command = f.command
    BY <1>0, <1>2, <1>9 DEF Discard, Files
  <2> QED
    BY <2>1, <2>2, <1>0, <1>2, <1>4 DEF Tells, Inside, Executing, Cleaning, Files, Locals
<1>10. CASE Explain(w)
  <2>1. at[w] = "explain"
    BY <1>0, <1>2, <1>10 DEF Explain, Files
  <2>2. /\ at'[w] = "close" /\ g.command = f.command
        /\ \/ n = [m EXCEPT !.noted = m.code] /\ g.failure = m.code
           \/ n = m
    BY <1>0, <1>2, <1>10 DEF Explain, Files
  <2> QED
    BY <2>1, <2>2, <1>0, <1>2, <1>4 DEF Tells, Inside, Executing, Cleaning, Files, Locals
<1> QED
  BY <1>0, <1>5, <1>6, <1>7, <1>8, <1>9, <1>10

\* A worker leaves run_job: its job's row may end there, if the receipts it
\* appends are those of the files.
Leaves(w, j) ==
  /\ ~Inside(w)'
  /\ mem' = mem /\ disk' = disk
  /\ \A v \in Workers \ {w} : at'[v] = at[v]
  /\ \A i \in Jobs \ {j} : job'[i] = job[i] /\ receipt'[i] = receipt[i]

\* What the row of a job and its files owe each other.
Loads(j) ==
  /\ job[j] = "succeeded" =>
       /\ receipt[j].command # Nobody /\ disk[j].command = receipt[j].command
       /\ receipt[j].artifact # Nobody /\ disk[j].manifest = receipt[j].artifact
       /\ disk[j].output = disk[j].manifest
       /\ disk[j].failure = Nobody /\ disk[j].plan
  /\ receipt[j].command # Nobody => disk[j].command = receipt[j].command
  /\ receipt[j].failure # Nobody =>
       /\ job[j] \in {"failed", "cancelled"}
       /\ disk[j].failure = receipt[j].failure
       /\ (receipt[j].failure = "cancelled") = (job[j] = "cancelled")
  /\ job[j] \in {"none", "batch_held", "queued", "running"} => receipt[j] = NoReceipts

\* The invariants about rows and files, job by job.
LEMMA LoadsIsWhatIsLoaded ==
  ArtifactLoadable /\ FailureLoadable /\ OpenIsBlank /\ PlanIsKept <=> \A j \in Jobs : Loads(j)
  BY DEF Loads, ArtifactLoadable, FailureLoadable, OpenIsBlank, PlanIsKept

\* The row of the worker's own job may change when it leaves.
LEMMA LeaveKeeps ==
  ASSUME RenderIInv, NEW w \in Workers, Inside(w), Leaves(w, On(w)), Loads(On(w))', RenderTypeOK'
  PROVE  RenderIInv'
<1> USE DEF RenderIInv, RenderInv
<1>1. \A v \in Workers : On(v) \in Jobs /\ mem'[v] = mem[v]
  BY DEF RenderTypeOK, On, Locals, Leaves
<1>2. \A v \in Workers \ {w} : Inside(v) => On(v) # On(w)
  BY DEF RunnerOwnsJob, Inside
<1>3. \A j \in Jobs : Loads(j)'
  <2>1. \A j \in Jobs \ {On(w)} : Loads(j) <=> Loads(j)'
    BY <1>1 DEF Leaves, Loads
  <2>2. \A j \in Jobs : Loads(j)
    BY LoadsIsWhatIsLoaded
  <2>3. \A j \in Jobs : j = On(w) => Loads(j)'
    BY <1>1 DEF On, Loads
  <2> QED
    BY <2>1, <2>2, <2>3
<1>4. (ArtifactLoadable /\ FailureLoadable /\ OpenIsBlank /\ PlanIsKept)'
  BY <1>3 DEF Loads, ArtifactLoadable, FailureLoadable, OpenIsBlank, PlanIsKept
<1>5. RunnerOwnsJob'
  BY <1>1, <1>2 DEF RunnerOwnsJob, Leaves, On, Inside
<1>6. LocalsTellFiles'
  <2> SUFFICES ASSUME NEW v \in Workers, Inside(v)' PROVE Tells(v)'
    BY DEF LocalsTellFiles, Tells
  <2>1. v # w /\ Tells(v) /\ Inside(v) /\ at'[v] = at[v]
    BY DEF LocalsTellFiles, Leaves, Inside
  <2> QED
    BY <2>1 DEF Tells, On, Leaves
<1> QED
  BY <1>4, <1>5, <1>6

\* The compare-and-set that publishes a success.
LEMMA CommitKeeps ==
  ASSUME RenderIInv, NEW w \in Workers, Commit(w)
  PROVE  RenderIInv'
<1>0. /\ RenderTypeOK /\ RunStep(w) /\ at[w] = "commit" /\ Tells(w)
      /\ w # Nobody /\ w \in Digest /\ On(w) \in Jobs /\ mem[w] \in Locals
      /\ job[On(w)] = "running" /\ receipt[On(w)] = NoReceipts
  BY RenderAssumption DEF RenderIInv, RenderInv, RenderTypeOK, RunStep, On, Locals, Commit,
     RunnerOwnsJob, LocalsTellFiles, Executing, Cleaning, Digest
<1>1. Effect(w) /\ Inside(w)
  BY <1>0, RunStepEffect
<1>2. CASE Transition(On(w), "running", "succeeded", Sealed(w)) /\ Goto(w, "returned") /\ UNCHANGED mem /\ Free
  <2>1. Appended(On(w), Sealed(w)) = [command |-> w, artifact |-> mem[w].artifact, failure |-> Nobody]
    BY <1>0 DEF Appended, Added, Sealed, NoReceipts
  <2>2. /\ job' = [job EXCEPT ![On(w)] = "succeeded"]
        /\ receipt' = [receipt EXCEPT ![On(w)] = [command |-> w, artifact |-> mem[w].artifact, failure |-> Nobody]]
        /\ disk' = disk /\ mem' = mem /\ at' = [at EXCEPT ![w] = "returned"]
    BY <1>2, <2>1 DEF Transition, Commit, Goto
  <2>3. job'[On(w)] = "succeeded" /\ receipt'[On(w)] = [command |-> w, artifact |-> mem[w].artifact, failure |-> Nobody]
    BY <1>0, <2>2 DEF RenderTypeOK
  <2>4. RenderTypeOK'
    <3>1. [command |-> w, artifact |-> mem[w].artifact, failure |-> Nobody] \in Receipts
      BY <1>0 DEF Receipts, Locals, Code
    <3>2. job' \in [Jobs -> JobState] /\ receipt' \in [Jobs -> Receipts]
      BY <1>0, <2>2, <3>1 DEF RenderTypeOK, JobState
    <3> QED
      BY <1>0, <1>1, <2>2, <3>2 DEF RenderTypeOK, Effect, Resting
  <2>5. Loads(On(w))'
    BY <1>0, <1>1, <2>2, <2>3 DEF Loads, Tells, On
  <2>6. Leaves(w, On(w))
    BY <1>0, <2>2 DEF Leaves, RenderTypeOK, Inside, Executing, Cleaning
  <2> QED
    BY <1>1, <2>4, <2>5, <2>6, LeaveKeeps
<1>3. CASE UNCHANGED <<job, receipt>> /\ Raise(w, "failed")
  <2>1. at'[w] = "discard" /\ mem'[w] = [mem[w] EXCEPT !.code = "failed"] /\ disk' = disk
    BY <1>0, <1>3 DEF RenderTypeOK, Commit, Raise, Goto
  <2>2. Tells(w)'
    BY <1>0, <1>1, <2>1 DEF Tells, On, Locals
  <2> QED
    BY <1>1, <1>3, <2>2, LocalsOfOne DEF row
<1> QED
  BY <1>2, <1>3 DEF Commit, row

\* The best-effort update that ends an unsuccessful run.
LEMMA CloseKeeps ==
  ASSUME RenderIInv, NEW w \in Workers, Close(w)
  PROVE  RenderIInv'
<1>0. /\ RenderTypeOK /\ RunStep(w) /\ at[w] = "close" /\ Tells(w)
      /\ w # Nobody /\ w \in Digest /\ On(w) \in Jobs /\ mem[w] \in Locals
      /\ job[On(w)] = "running" /\ receipt[On(w)] = NoReceipts
  BY RenderAssumption DEF RenderIInv, RenderInv, RenderTypeOK, RunStep, On, Locals, Close,
     RunnerOwnsJob, LocalsTellFiles, Executing, Cleaning, Digest
<1>1. Effect(w) /\ Inside(w)
  BY <1>0, RunStepEffect
<1>2. disk' = disk /\ mem' = mem /\ at' = [at EXCEPT ![w] = "raised"]
  BY DEF Close, Goto
<1>3. Leaves(w, On(w)) <=> \A i \in Jobs \ {On(w)} : job'[i] = job[i] /\ receipt'[i] = receipt[i]
  BY <1>0, <1>2 DEF Leaves, RenderTypeOK, Inside, Executing, Cleaning
<1>4. CASE Transition(On(w), "running", mem[w].code, Closing(w))
  <2> DEFINE r == [command |-> IF mem[w].command THEN w ELSE Nobody, artifact |-> Nobody, failure |-> mem[w].noted]
  <2>1. Appended(On(w), Closing(w)) = r
    BY <1>0 DEF Appended, Added, Closing, NoReceipts
  <2>2. job' = [job EXCEPT ![On(w)] = mem[w].code] /\ receipt' = [receipt EXCEPT ![On(w)] = r]
    BY <1>4, <2>1 DEF Transition
  <2>3. job'[On(w)] = mem[w].code /\ receipt'[On(w)] = r
    BY <1>0, <2>2 DEF RenderTypeOK
  <2>4. RenderTypeOK'
    <3>1. r \in Receipts /\ mem[w].code \in JobState
      BY <1>0 DEF Receipts, Locals, Code, Digest, JobState
    <3>2. job' \in [Jobs -> JobState] /\ receipt' \in [Jobs -> Receipts]
      BY <1>0, <2>2, <3>1 DEF RenderTypeOK
    <3> QED
      BY <1>0, <1>1, <1>2, <3>2 DEF RenderTypeOK, Effect, Resting
  <2>5. Loads(On(w))'
    BY <1>0, <1>1, <1>2, <2>3 DEF Loads, Tells, On, Locals
  <2>6. Leaves(w, On(w))
    BY <1>0, <1>3, <2>2 DEF RenderTypeOK
  <2> QED
    BY <1>1, <2>4, <2>5, <2>6, LeaveKeeps
<1>5. CASE UNCHANGED <<job, receipt>>
  <2>1. RenderTypeOK'
    BY <1>0, <1>1, <1>2, <1>5 DEF RenderTypeOK, Effect, Resting
  <2>2. Loads(On(w))'
    BY <1>0, <1>2, <1>5, LoadsIsWhatIsLoaded DEF Loads, RenderIInv, RenderInv, On
  <2> QED
    BY <1>1, <1>3, <1>5, <2>1, <2>2, LeaveKeeps
<1> QED
  BY <1>4, <1>5 DEF Close, row

\* run_job keeps the invariant, step by step.
LEMMA RunStepKeeps ==
  ASSUME RenderIInv, NEW w \in Workers, RunStep(w)
  PROVE  RenderIInv'
  BY LocalRunStepKeeps, CommitKeeps, CloseKeeps DEF RunStep

----------------------------------------------------------------------------
(* The callers of run_job *)

\* Row and files of a job nobody is in may change if they still agree.
LEMMA UntendedKeeps ==
  ASSUME RenderIInv, NEW j \in Jobs, RenderTypeOK', Loads(j)', at' = at, mem' = mem,
         \A w \in Workers : Inside(w) => On(w) # j,
         \A i \in Jobs \ {j} : job'[i] = job[i] /\ receipt'[i] = receipt[i] /\ disk'[i] = disk[i]
  PROVE  RenderIInv'
<1> USE DEF RenderIInv, RenderInv
<1>1. \A w \in Workers : On(w) \in Jobs
  BY DEF RenderTypeOK, On, Locals
<1>2. \A i \in Jobs : Loads(i)'
  <2>1. \A i \in Jobs \ {j} : Loads(i) <=> Loads(i)'
    BY DEF Loads
  <2>2. \A i \in Jobs : Loads(i)
    BY LoadsIsWhatIsLoaded
  <2> QED
    BY <2>1, <2>2
<1>3. (ArtifactLoadable /\ FailureLoadable /\ OpenIsBlank /\ PlanIsKept)'
  BY <1>2 DEF Loads, ArtifactLoadable, FailureLoadable, OpenIsBlank, PlanIsKept
<1>4. RunnerOwnsJob'
  BY <1>1 DEF RunnerOwnsJob, Inside, On
<1>5. LocalsTellFiles'
  BY <1>1 DEF LocalsTellFiles, Tells, Inside, On
<1> QED
  BY <1>3, <1>4, <1>5

\* Who is inside run_job is in a running job.
LEMMA NobodyInUnrun ==
  ASSUME RenderIInv, NEW j \in Jobs, job[j] # "running"
  PROVE  \A w \in Workers : Inside(w) => On(w) # j
  BY DEF RenderIInv, RenderInv, RunnerOwnsJob, Inside

\* A new job: its row, and the plan file unless the creation was torn.
LEMMA CreateKeeps ==
  ASSUME RenderIInv, NEW j \in Jobs, NEW state \in {"batch_held", "queued"},
         \/ Create(j, state) /\ UNCHANGED budget
         \/ CreateTorn(j, state),
         UNCHANGED worker
  PROVE  RenderIInv'
<1> USE DEF RenderIInv, RenderInv
<1>1. at' = at /\ mem' = mem /\ job[j] = "none" /\ receipt' = receipt
  BY DEF worker, Create, CreateTorn
<1>2. job' = [job EXCEPT ![j] = state]
  BY DEF Create, CreateTorn
<1>3. disk' \in {disk, [disk EXCEPT ![j].plan = TRUE]}
  BY DEF Create, CreateTorn
<1>4. faults' \in 0..MaxFaults /\ deaths' \in 0..MaxDeaths
  BY RenderAssumption DEF RenderTypeOK, Create, CreateTorn, Lose, budget
<1>5. job' \in [Jobs -> JobState] /\ disk' \in [Jobs -> Files]
  BY <1>2, <1>3 DEF RenderTypeOK, JobState, Files
<1>6. RenderTypeOK'
  BY <1>1, <1>4, <1>5 DEF RenderTypeOK
<1>7. receipt[j] = NoReceipts
  BY <1>1 DEF OpenIsBlank
<1>8. Loads(j)'
  BY <1>1, <1>2, <1>7 DEF Loads, NoReceipts, RenderTypeOK
<1>9. \A i \in Jobs \ {j} : job'[i] = job[i] /\ receipt'[i] = receipt[i] /\ disk'[i] = disk[i]
  BY <1>1, <1>2, <1>3 DEF RenderTypeOK
<1> QED
  BY <1>1, <1>6, <1>8, <1>9, NobodyInUnrun, UntendedKeeps

\* Only a queued job is claimed, so nobody is in it and it has no receipts.
LEMMA ClaimKeeps ==
  ASSUME RenderIInv, NEW w \in Workers, NEW j \in Jobs, Claim(w, j)
  PROVE  RenderIInv'
<1> USE DEF RenderIInv, RenderInv
<1>1. /\ at[w] = "idle" /\ job[j] = "queued" /\ receipt[j] = NoReceipts
      /\ job' = [job EXCEPT ![j] = "running"]
      /\ at' = [at EXCEPT ![w] = "compile"] /\ mem' = [mem EXCEPT ![w] = Fresh(j)]
      /\ disk' = disk /\ faults' = faults /\ deaths' = deaths
  BY DEF Claim, Transition, CanTransition, Goto, OpenIsBlank, budget
<1>2. receipt' = receipt
  <2>1. Appended(j, NoReceipts) = NoReceipts
    BY <1>1 DEF Appended, Added, NoReceipts
  <2> QED
    BY <1>1, <2>1 DEF Claim, Transition, RenderTypeOK
<1>3. RenderTypeOK'
  <2>1. Fresh(j) \in Locals
    BY DEF Fresh, Locals, Digest, Code
  <2> QED
    BY <1>1, <1>2, <2>1 DEF RenderTypeOK, JobState, Executing
<1>4. \A v \in Workers \ {w} : at'[v] = at[v] /\ mem'[v] = mem[v] /\ (Inside(v) => On(v) # j)
  BY <1>1, NobodyInUnrun DEF RenderTypeOK
<1>5. at'[w] = "compile" /\ mem'[w] = Fresh(j) /\ Fresh(j).job = j
  BY <1>1 DEF RenderTypeOK, Fresh
<1>6. job'[j] = "running" /\ \A i \in Jobs \ {j} : job'[i] = job[i]
  BY <1>1 DEF RenderTypeOK
<1>7. (ArtifactLoadable /\ FailureLoadable /\ OpenIsBlank /\ PlanIsKept)'
  BY <1>1, <1>2, <1>6 DEF ArtifactLoadable, FailureLoadable, OpenIsBlank, PlanIsKept, NoReceipts
<1>8. RunnerOwnsJob'
  BY <1>1, <1>2, <1>4, <1>5, <1>6 DEF RunnerOwnsJob, On, Inside
<1>9. LocalsTellFiles'
  <2>1. Tells(w)'
    BY <1>5 DEF Tells, Fresh
  <2>2. \A v \in Workers \ {w} : Tells(v)'
    BY <1>1, <1>4 DEF LocalsTellFiles, Tells, On, Inside
  <2> QED
    BY <2>1, <2>2 DEF LocalsTellFiles
<1> QED
  BY <1>3, <1>7, <1>8, <1>9

\* Rows and files stay; a worker stops being inside run_job or was not.
LEMMA AwayKeeps ==
  ASSUME RenderIInv, NEW w \in Workers, UNCHANGED <<row, disk>>, ~Inside(w)',
         \A v \in Workers \ {w} : at'[v] = at[v] /\ mem'[v] = mem[v], RenderTypeOK'
  PROVE  RenderIInv'
<1> USE DEF RenderIInv, RenderInv, row
<1>1. (ArtifactLoadable /\ FailureLoadable /\ OpenIsBlank /\ PlanIsKept)'
  BY DEF ArtifactLoadable, FailureLoadable, OpenIsBlank, PlanIsKept
<1>2. RunnerOwnsJob'
  BY DEF RunnerOwnsJob, On, Inside
<1>3. LocalsTellFiles'
  BY DEF LocalsTellFiles, Tells, On, Inside
<1> QED
  BY <1>1, <1>2, <1>3

\* Callers that take their result, die or are refused.
LEMMA CallerKeeps ==
  ASSUME RenderIInv, NEW w \in Workers,
         Finish(w) \/ Die(w) \/ \E j \in Jobs : ClaimRefused(w, j)
  PROVE  RenderIInv'
<1> USE DEF RenderIInv, RenderInv
<1>1. /\ at' \in {[at EXCEPT ![w] = "idle"], [at EXCEPT ![w] = "raised"]}
      /\ UNCHANGED <<row, disk>>
  BY DEF Finish, Die, ClaimRefused, Goto
<1>2. mem' = mem \/ \E j \in Jobs : mem' = [mem EXCEPT ![w] = Fresh(j)]
  BY DEF Finish, Die, ClaimRefused
<1>3. \A j \in Jobs : Fresh(j) \in Locals
  BY DEF Fresh, Locals, Digest, Code
<1>4. faults' \in 0..MaxFaults /\ deaths' \in 0..MaxDeaths
  BY RenderAssumption DEF RenderTypeOK, Finish, Die, ClaimRefused, Free, Spend, Lose, budget
<1>5. RenderTypeOK'
  BY <1>1, <1>2, <1>3, <1>4 DEF RenderTypeOK, row, Resting
<1>6. ~Inside(w)' /\ \A v \in Workers \ {w} : at'[v] = at[v] /\ mem'[v] = mem[v]
  BY <1>1, <1>2 DEF RenderTypeOK, Inside, Executing, Cleaning
<1> QED
  BY <1>1, <1>5, <1>6, AwayKeeps

----------------------------------------------------------------------------
(* The theorems *)

\* Initially nobody is inside run_job and no job has receipts.
LEMMA RenderInit_RenderIInv == ASSUME RenderInit PROVE RenderIInv
<1>1. RenderTypeOK
  <2>1. \A j \in Jobs : Fresh(j) \in Locals
    BY DEF Fresh, Locals, Digest, Code
  <2>2. mem \in [Workers -> Locals]
    BY <2>1 DEF RenderInit
  <2>3. NoReceipts \in Receipts /\ NoFiles \in Files
    BY DEF NoReceipts, NoFiles, Receipts, Files, Digest, Code
  <2>4. job \in [Jobs -> JobState] /\ receipt \in [Jobs -> Receipts] /\ disk \in [Jobs -> Files]
    BY <2>3 DEF RenderInit, JobState
  <2>5. at \in [Workers -> Executing \cup Cleaning \cup Resting]
    BY DEF RenderInit, Resting
  <2> QED
    BY <2>2, <2>4, <2>5, RenderAssumption DEF RenderInit, RenderTypeOK
<1>2. \A j \in Jobs : job[j] = "none" /\ receipt[j] = NoReceipts
  BY DEF RenderInit
<1>3. \A w \in Workers : ~Inside(w)
  BY DEF RenderInit, Inside, Executing, Cleaning
<1> QED
  BY <1>1, <1>2, <1>3 DEF RenderIInv, RenderInv, ArtifactLoadable, FailureLoadable, RunnerOwnsJob,
     OpenIsBlank, PlanIsKept, LocalsTellFiles, Tells, NoReceipts, Inside

\* The inductive step, one case per action.
LEMMA RenderNext_RenderIInv == ASSUME RenderIInv, [RenderNext]_renderVars PROVE RenderIInv'
<1>1. ASSUME NEW j \in Jobs, Submit(j) \/ SubmitTorn(j) PROVE RenderIInv'
  BY <1>1, CreateKeeps DEF Submit, SubmitTorn, worker
<1>2. ASSUME NEW w \in Workers, NEW j \in Jobs, Claim(w, j) \/ ClaimRefused(w, j) PROVE RenderIInv'
  BY <1>2, ClaimKeeps, CallerKeeps
<1>3. ASSUME NEW w \in Workers, RunStep(w) \/ Finish(w) \/ Die(w) PROVE RenderIInv'
  BY <1>3, RunStepKeeps, CallerKeeps
<1>4. CASE UNCHANGED renderVars
  BY <1>4 DEF renderVars, row, worker, budget, RenderIInv, RenderInv, RenderTypeOK, ArtifactLoadable,
     FailureLoadable, RunnerOwnsJob, OpenIsBlank, PlanIsKept, LocalsTellFiles, Tells, Inside, On
<1> QED
  BY <1>1, <1>2, <1>3, <1>4 DEF RenderNext

\* Whatever workers race for a job and whatever fails or dies on the way, what
\* load_artifact and load_failure re-verify holds, and a run is alone with its
\* job: _render_jobs_final.py, for any number of jobs and workers.
THEOREM RenderSafety == RenderSpec => []RenderInv
<1>1. RenderInit => RenderIInv
  BY RenderInit_RenderIInv
<1>2. RenderIInv /\ [RenderNext]_renderVars => RenderIInv'
  BY RenderNext_RenderIInv
<1>3. RenderIInv => RenderInv
  BY DEF RenderIInv
<1> QED
  BY <1>1, <1>2, <1>3, PTL DEF RenderSpec

\* The body of EvidenceIsFinal.
KeepsEvidence ==
  \A j \in Jobs : job[j] \in Terminal =>
    job'[j] = job[j] /\ receipt'[j] = receipt[j] /\ disk'[j] = disk[j]

\* A step of run_job touches nothing but its own running job.
LEMMA RunStepKeepsEvidence ==
  ASSUME RenderIInv, NEW w \in Workers, RunStep(w)
  PROVE  \A j \in Jobs : job[j] # "running" =>
           job'[j] = job[j] /\ receipt'[j] = receipt[j] /\ disk'[j] = disk[j]
<1> USE DEF RenderIInv, RenderInv
<1>1. Effect(w) /\ Inside(w)
  BY RunStepEffect
<1>2. On(w) \in Jobs /\ job[On(w)] = "running"
  BY <1>1 DEF RunnerOwnsJob, Inside, RenderTypeOK, On, Locals
<1>3. \A j \in Jobs \ {On(w)} : disk'[j] = disk[j]
  BY <1>1, <1>2 DEF Effect, RenderTypeOK
<1>4. \A j \in Jobs \ {On(w)} : job'[j] = job[j] /\ receipt'[j] = receipt[j]
  BY <1>2 DEF RunStep, Compile, Encode, Audit, Seal, Commit, Discard, Explain, Close, Transition,
     row, RenderTypeOK
<1> QED
  BY <1>2, <1>3, <1>4

\* Evidence is append-only across every race and failure: no step changes the
\* row, a receipt or a file of a job that reached a terminal state.
THEOREM RenderEvidence == RenderSpec => EvidenceIsFinal
<1>1. ASSUME RenderIInv, [RenderNext]_renderVars PROVE [KeepsEvidence]_renderVars
  <2> USE DEF KeepsEvidence, Terminal
  <2>1. ASSUME NEW j \in Jobs, Submit(j) \/ SubmitTorn(j) PROVE KeepsEvidence
    BY <1>1, <2>1 DEF RenderIInv, RenderInv, RenderTypeOK, Submit, SubmitTorn, Create, CreateTorn
  <2>2. ASSUME NEW w \in Workers, NEW j \in Jobs, Claim(w, j) \/ ClaimRefused(w, j) PROVE KeepsEvidence
    BY <1>1, <2>2 DEF RenderIInv, RenderInv, RenderTypeOK, Claim, ClaimRefused, Transition, CanTransition, row
  <2>3. ASSUME NEW w \in Workers, RunStep(w) PROVE KeepsEvidence
    BY <1>1, <2>3, RunStepKeepsEvidence
  <2>4. ASSUME NEW w \in Workers, Finish(w) \/ Die(w) PROVE KeepsEvidence
    BY <2>4 DEF Finish, Die, row
  <2> QED
    BY <1>1, <2>1, <2>2, <2>3, <2>4 DEF RenderNext
<1>2. RenderSpec => []RenderIInv
  BY RenderInit_RenderIInv, RenderNext_RenderIInv, PTL DEF RenderSpec
<1> QED
  BY <1>1, <1>2, PTL DEF RenderSpec, EvidenceIsFinal, KeepsEvidence

----------------------------------------------------------------------------
(* Refinement of RenderOnce *)

\* What is loaded for a job is what its row says of it.
LEMMA LoadedIsReceipt ==
  ASSUME ArtifactLoadable, FailureLoadable, PlanIsKept, NEW j \in Jobs
  PROVE  /\ FilmOf(j) = IF job[j] = "succeeded" THEN receipt[j].artifact ELSE Nobody
         /\ FailureOf(j) = receipt[j].failure
<1>1. job[j] = "succeeded" => Loadable(j) /\ disk[j].output = receipt[j].artifact
  BY DEF ArtifactLoadable, PlanIsKept, Loadable
<1>2. job[j] # "succeeded" => ~Loadable(j)
  BY DEF Loadable
<1>3. receipt[j].failure # Nobody => disk[j].failure = receipt[j].failure
  BY DEF FailureLoadable
<1> QED
  BY <1>1, <1>2, <1>3 DEF FilmOf, FailureOf

\* At most one worker runs a job, and Runner names it.
LEMMA RunnerIsTheWorker ==
  ASSUME RunnerOwnsJob, NEW j \in Jobs
  PROVE  /\ \A w \in Workers : Running(w, j) <=> Runner(j) = w
         /\ Runner(j) \in Workers \cup {Nobody}
<1>1. Nobody \notin Workers
  BY RenderAssumption
<1>2. \A w, v \in Workers : Running(w, j) /\ Running(v, j) => v = w
  BY DEF RunnerOwnsJob, Running
<1>3. CASE \E w \in Workers : Running(w, j)
  <2>1. PICK w \in Workers : Running(w, j)
    BY <1>3
  <2>2. Runner(j) = CHOOSE u \in Workers : Running(u, j)
    BY <1>3 DEF Runner
  <2>3. Runner(j) \in Workers /\ Running(Runner(j), j)
    BY <2>1, <2>2
  <2> QED
    BY <1>2, <2>3
<1>4. CASE ~\E w \in Workers : Running(w, j)
  BY <1>1, <1>4 DEF Runner
<1> QED
  BY <1>3, <1>4

\* What of a job its owner can see, in terms of its row and the workers.
SeenByOwner ==
  \A j \in Jobs :
    /\ FilmOf(j) = IF job[j] = "succeeded" THEN receipt[j].artifact ELSE Nobody
    /\ FailureOf(j) = receipt[j].failure
    /\ \A w \in Workers : Running(w, j) <=> Runner(j) = w
    /\ Runner(j) \in Workers \cup {Nobody}

\* It is so in every state the invariant allows.
LEMMA Seen == RenderIInv => SeenByOwner
  BY LoadedIsReceipt, RunnerIsTheWorker DEF RenderIInv, RenderInv, SeenByOwner

\* And so it is after the step.
LEMMA SeenAfter == RenderIInv' => SeenByOwner'
  BY Seen, PTL

\* The rows and runners of all other jobs are as before.
Elsewhere(j) ==
  /\ \A i \in Jobs \ {j} : job'[i] = job[i] /\ receipt'[i] = receipt[i]
  /\ \A w \in Workers, i \in Jobs \ {j} : Running(w, i)' <=> Running(w, i)

Keeps(j) == FilmOf(j)' = FilmOf(j) /\ FailureOf(j)' = FailureOf(j)

\* What a job may do: the actions of RenderOnce, or nothing.
Acts(j) ==
  LET is == Status(j)  willBe == Status(j)'  who == Runner(j)  next == Runner(j)' IN
  \/ willBe = is /\ next = who /\ Keeps(j)
  \/ is = "none" /\ willBe = "waiting" /\ next = who /\ Keeps(j)
  \/ /\ is = "waiting" /\ willBe = "running" /\ Keeps(j)
     /\ next \in Workers /\ \A i \in Jobs : Runner(i) # next
  \/ /\ is = "running" /\ willBe = "succeeded" /\ who # Nobody /\ next = Nobody
     /\ FilmOf(j)' = who /\ FailureOf(j)' = FailureOf(j)
  \/ /\ is = "running" /\ willBe \in {"failed", "cancelled"} /\ who # Nobody /\ next = Nobody
     /\ FilmOf(j)' = FilmOf(j) /\ FailureOf(j)' \in {FailureOf(j), willBe}
  \/ willBe = is /\ who # Nobody /\ next = Nobody /\ Keeps(j)
  \/ /\ is \in {"waiting", "running"} /\ willBe = "failed" /\ who = Nobody /\ next = Nobody
     /\ FilmOf(j)' = FilmOf(j) /\ FailureOf(j)' \in Interrupted
  \/ is = "waiting" /\ willBe = "cancelled" /\ next = who /\ Keeps(j)

\* Nothing of the other jobs' contract changes.
LEMMA ElsewhereStays ==
  ASSUME SeenByOwner, SeenByOwner', NEW j \in Jobs, Elsewhere(j), NEW i \in Jobs, i # j
  PROVE  Status(i)' = Status(i) /\ Runner(i)' = Runner(i) /\ Keeps(i)
<1>1. job'[i] = job[i] /\ receipt'[i] = receipt[i] /\ \A w \in Workers : Running(w, i)' <=> Running(w, i)
  BY DEF Elsewhere
<1>2. Status(i)' = Status(i) /\ Keeps(i)
  BY <1>1 DEF Status, SeenByOwner, Keeps
<1>3. \A w \in Workers : Runner(i)' = w <=> Runner(i) = w
  BY <1>1 DEF SeenByOwner
<1>4. Runner(i) \in Workers \cup {Nobody} /\ Runner(i)' \in Workers \cup {Nobody}
  BY DEF SeenByOwner
<1> QED
  BY <1>2, <1>3, <1>4

\* One job at a time, so the step is one of RenderOnce.
LEMMA ActsIsAStep ==
  ASSUME SeenByOwner, SeenByOwner', NEW j \in Jobs, Elsewhere(j), Acts(j)
  PROVE  [Execution!Next]_(Execution!vars)
<1> DEFINE s == [i \in Jobs |-> Status(i)]
           r == [i \in Jobs |-> Runner(i)]
           f == [i \in Jobs |-> FilmOf(i)]
           e == [i \in Jobs |-> FailureOf(i)]
<1>1. /\ s' = [s EXCEPT ![j] = Status(j)'] /\ r' = [r EXCEPT ![j] = Runner(j)']
      /\ f' = [f EXCEPT ![j] = FilmOf(j)'] /\ e' = [e EXCEPT ![j] = FailureOf(j)']
  <2>1. \A i \in Jobs \ {j} : /\ Status(i)' = Status(i) /\ Runner(i)' = Runner(i)
                             /\ FilmOf(i)' = FilmOf(i) /\ FailureOf(i)' = FailureOf(i)
    BY ElsewhereStays DEF Keeps
  <2> QED
    BY <2>1
<1>2. s[j] = Status(j) /\ r[j] = Runner(j) /\ f[j] = FilmOf(j) /\ e[j] = FailureOf(j)
  OBVIOUS
<1>3. \A i \in Jobs : r[i] = Runner(i)
  OBVIOUS
<1>4. Status(j)' = Status(j) => s' = s
  BY <1>1
<1>5. Runner(j)' = Runner(j) => r' = r
  BY <1>1
<1>6. FilmOf(j)' = FilmOf(j) => f' = f
  BY <1>1
<1>7. FailureOf(j)' = FailureOf(j) => e' = e
  BY <1>1
<1> HIDE DEF s, r, f, e
<1> SUFFICES Execution!Next \/ UNCHANGED <<s, r, f, e>>
  BY DEF Execution!vars, s, r, f, e
<1>8. CASE Status(j)' = Status(j) /\ Runner(j)' = Runner(j) /\ Keeps(j)
  BY <1>4, <1>5, <1>6, <1>7, <1>8 DEF Keeps
<1>9. CASE Status(j) = "none" /\ Status(j)' = "waiting" /\ Runner(j)' = Runner(j) /\ Keeps(j)
  <2>1. Execution!Submit(j)
    BY <1>1, <1>2, <1>5, <1>6, <1>7, <1>9 DEF Execution!Submit, Execution!Turn, Keeps, s, r, f, e
  <2> QED
    BY <2>1 DEF Execution!Next
<1>10. CASE /\ Status(j) = "waiting" /\ Status(j)' = "running" /\ Keeps(j)
            /\ Runner(j)' \in Workers /\ \A i \in Jobs : Runner(i) # Runner(j)'
  <2>1. Execution!Begin(j, Runner(j)')
    BY <1>1, <1>2, <1>3, <1>6, <1>7, <1>10 DEF Execution!Begin, Execution!Turn, Keeps, s, r, f, e
  <2> QED
    BY <1>10, <2>1 DEF Execution!Next
<1>11. CASE /\ Status(j) = "running" /\ Status(j)' = "succeeded"
            /\ Runner(j) # Nobody /\ Runner(j)' = Nobody
            /\ FilmOf(j)' = Runner(j) /\ FailureOf(j)' = FailureOf(j)
  <2>1. Execution!Deliver(j)
    BY <1>1, <1>2, <1>7, <1>11 DEF Execution!Deliver, Execution!Dismiss, Execution!Turn, s, r, f, e
  <2> QED
    BY <2>1 DEF Execution!Next
<1>12. CASE /\ Status(j) = "running" /\ Status(j)' \in {"failed", "cancelled"}
            /\ Runner(j) # Nobody /\ Runner(j)' = Nobody
            /\ FilmOf(j)' = FilmOf(j) /\ FailureOf(j)' \in {FailureOf(j), Status(j)'}
  <2>1. Execution!GiveUp(j, Status(j)')
    BY <1>1, <1>2, <1>6, <1>7, <1>12 DEF Execution!GiveUp, Execution!Dismiss, Execution!Turn, s, r, f, e
  <2> QED
    BY <1>12, <2>1 DEF Execution!Next
<1>13. CASE Status(j)' = Status(j) /\ Runner(j) # Nobody /\ Runner(j)' = Nobody /\ Keeps(j)
  <2>1. Execution!Vanish(j)
    BY <1>1, <1>2, <1>4, <1>6, <1>7, <1>13 DEF Execution!Vanish, Execution!Dismiss, Keeps, s, r, f, e
  <2> QED
    BY <2>1 DEF Execution!Next
<1>14. CASE /\ Status(j) \in {"waiting", "running"} /\ Status(j)' = "failed"
            /\ Runner(j) = Nobody /\ Runner(j)' = Nobody
            /\ FilmOf(j)' = FilmOf(j) /\ FailureOf(j)' \in Interrupted
  <2>1. Execution!Retire(j)
    BY <1>1, <1>2, <1>5, <1>6, <1>14 DEF Execution!Retire, Execution!Turn, s, r, f, e
  <2> QED
    BY <2>1 DEF Execution!Next
<1>15. CASE Status(j) = "waiting" /\ Status(j)' = "cancelled" /\ Runner(j)' = Runner(j) /\ Keeps(j)
  <2>1. Execution!Cancel(j)
    BY <1>1, <1>2, <1>5, <1>6, <1>7, <1>15 DEF Execution!Cancel, Execution!Turn, Keeps, s, r, f, e
  <2> QED
    BY <2>1 DEF Execution!Next
<1> QED
  BY <1>8, <1>9, <1>10, <1>11, <1>12, <1>13, <1>14, <1>15 DEF Acts

\* A step in which no row and no runner changes is none of RenderOnce.
LEMMA NothingSeen ==
  ASSUME SeenByOwner, SeenByOwner', \A i \in Jobs : job'[i] = job[i] /\ receipt'[i] = receipt[i],
         \A w \in Workers, i \in Jobs : Running(w, i)' <=> Running(w, i)
  PROVE  [Execution!Next]_(Execution!vars)
<1>1. \A i \in Jobs : /\ Status(i)' = Status(i) /\ FilmOf(i)' = FilmOf(i)
                      /\ FailureOf(i)' = FailureOf(i)
  BY DEF Status, SeenByOwner
<1>2. \A i \in Jobs : Runner(i)' = Runner(i)
  BY DEF SeenByOwner
<1>3. /\ [i \in Jobs |-> Status(i)]' = [i \in Jobs |-> Status(i)]
      /\ [i \in Jobs |-> Runner(i)]' = [i \in Jobs |-> Runner(i)]
      /\ [i \in Jobs |-> FilmOf(i)]' = [i \in Jobs |-> FilmOf(i)]
      /\ [i \in Jobs |-> FailureOf(i)]' = [i \in Jobs |-> FailureOf(i)]
  BY <1>1, <1>2
<1> QED
  BY <1>3 DEF Execution!vars

\* A job nobody has run is submitted.
LEMMA CreateActs ==
  ASSUME RenderTypeOK, SeenByOwner, SeenByOwner', NEW j \in Jobs, NEW state \in {"batch_held", "queued"},
         Create(j, state) \/ CreateTorn(j, state), UNCHANGED worker
  PROVE  [Execution!Next]_(Execution!vars)
<1>1. /\ job[j] = "none" /\ job'[j] = state /\ \A i \in Jobs \ {j} : job'[i] = job[i]
      /\ receipt' = receipt
  BY DEF Create, CreateTorn, RenderTypeOK
<1>2. \A w \in Workers, i \in Jobs : Running(w, i)' <=> Running(w, i)
  BY DEF worker, Running, On
<1>3. Status(j) = "none" /\ Status(j)' = "waiting"
  BY <1>1 DEF Status
<1>4. Runner(j)' = Runner(j)
  BY <1>2 DEF SeenByOwner
<1>5. Keeps(j)
  BY <1>1 DEF SeenByOwner, Keeps
<1>6. Elsewhere(j) /\ Acts(j)
  BY <1>1, <1>2, <1>3, <1>4, <1>5 DEF Elsewhere, Acts
<1> QED
  BY <1>6, ActsIsAStep

\* A queued job is begun, by a worker that was running none.
LEMMA ClaimActs ==
  ASSUME RenderTypeOK, SeenByOwner, SeenByOwner', NEW w \in Workers, NEW j \in Jobs, Claim(w, j)
  PROVE  [Execution!Next]_(Execution!vars)
<1>1. /\ at[w] = "idle" /\ job[j] = "queued" /\ job' = [job EXCEPT ![j] = "running"]
      /\ receipt' = [receipt EXCEPT ![j] = Appended(j, NoReceipts)]
      /\ at' = [at EXCEPT ![w] = "compile"] /\ mem' = [mem EXCEPT ![w] = Fresh(j)]
  BY DEF Claim, Transition, CanTransition, Goto
<1>2. /\ job'[j] = "running" /\ \A i \in Jobs \ {j} : job'[i] = job[i] /\ receipt'[i] = receipt[i]
      /\ at'[w] = "compile" /\ mem'[w].job = j
      /\ \A v \in Workers \ {w} : at'[v] = at[v] /\ mem'[v] = mem[v]
  BY <1>1 DEF RenderTypeOK, Fresh
<1>3. receipt'[j].failure = receipt[j].failure
  BY <1>1 DEF RenderTypeOK, Appended, Added, NoReceipts
<1>4. \A i \in Jobs : /\ ~Running(w, i) /\ (Running(w, i)' <=> i = j)
                      /\ \A v \in Workers \ {w} : Running(v, i)' <=> Running(v, i)
  BY <1>1, <1>2 DEF Running, On, Executing, Cleaning
<1>5. Runner(j)' = w /\ \A i \in Jobs : Runner(i) # w
  BY <1>4 DEF SeenByOwner
<1>6. Status(j) = "waiting" /\ Status(j)' = "running"
  BY <1>1, <1>2 DEF Status
<1>7. Keeps(j)
  BY <1>1, <1>2, <1>3 DEF SeenByOwner, Keeps
<1>8. Elsewhere(j) /\ Acts(j)
  BY <1>2, <1>4, <1>5, <1>6, <1>7 DEF Elsewhere, Acts
<1> QED
  BY <1>8, ActsIsAStep

\* What the other workers are doing is as before.
OthersGoOn(w) == \A v \in Workers \ {w} : at'[v] = at[v] /\ mem'[v] = mem[v]

\* A worker is gone, or done, and its job's row says nothing of it.
LEMMA GoneActs ==
  ASSUME RenderTypeOK, SeenByOwner, SeenByOwner', NEW w \in Workers, ~Inside(w)', OthersGoOn(w),
         \A i \in Jobs : job'[i] = job[i] /\ receipt'[i] = receipt[i]
  PROVE  [Execution!Next]_(Execution!vars)
<1>1. \A v \in Workers \ {w}, i \in Jobs : Running(v, i)' <=> Running(v, i)
  BY DEF OthersGoOn, Running, On
<1>2. \A i \in Jobs : ~Running(w, i)'
  BY DEF Running, Inside
<1>3. CASE ~Inside(w)
  <2>1. \A i \in Jobs : ~Running(w, i)
    BY <1>3 DEF Running, Inside
  <2> QED
    BY <1>1, <1>2, <2>1, NothingSeen
<1>4. CASE Inside(w)
  <2>1. PICK j \in Jobs : j = On(w)
    BY DEF RenderTypeOK, On, Locals
  <2>2. \A i \in Jobs : Running(w, i) <=> i = j
    BY <1>4, <2>1 DEF Running, Inside
  <2>3. Runner(j) = w /\ Runner(j)' = Nobody
    <3>1. Runner(j) = w
      BY <2>1, <2>2 DEF SeenByOwner
    <3>2. \A v \in Workers \ {w} : ~Running(v, j)
      BY <2>1, <3>1 DEF SeenByOwner
    <3>3. \A v \in Workers : ~Running(v, j)'
      BY <1>1, <1>2, <2>1, <3>2
    <3> QED
      BY <2>1, <3>1, <3>3 DEF SeenByOwner
  <2>4. Status(j)' = Status(j) /\ Keeps(j)
    BY <2>1 DEF Status, SeenByOwner, Keeps
  <2>5. Elsewhere(j) /\ Acts(j)
    BY <1>1, <1>2, <2>1, <2>2, <2>3, <2>4, RenderAssumption DEF Elsewhere, Acts
  <2> QED
    BY <2>1, <2>5, ActsIsAStep
<1> QED
  BY <1>3, <1>4

\* A worker goes on with its job.
LEMMA GoesOn ==
  ASSUME SeenByOwner, SeenByOwner', NEW w \in Workers, Inside(w), Inside(w)', OthersGoOn(w),
         mem'[w].job = mem[w].job, \A i \in Jobs : job'[i] = job[i] /\ receipt'[i] = receipt[i]
  PROVE  [Execution!Next]_(Execution!vars)
<1>1. \A v \in Workers, i \in Jobs : Running(v, i)' <=> Running(v, i)
  BY DEF OthersGoOn, Running, On, Inside
<1> QED
  BY <1>1, NothingSeen

\* Where a step of run_job leads: on, or out.
LEMMA RunStepOutcome ==
  ASSUME RenderIInv, NEW w \in Workers, RunStep(w)
  PROVE  /\ Inside(w) /\ OthersGoOn(w) /\ mem'[w].job = mem[w].job
         /\ \/ UNCHANGED row
            \/ /\ at[w] = "commit" /\ ~Inside(w)'
               /\ Transition(On(w), "running", "succeeded", Sealed(w))
            \/ /\ at[w] = "close" /\ ~Inside(w)'
               /\ Transition(On(w), "running", mem[w].code, Closing(w))
<1>1. Effect(w) /\ Inside(w) /\ RenderTypeOK
  BY RunStepEffect DEF RenderIInv, RenderInv
<1>2. OthersGoOn(w) /\ mem'[w].job = mem[w].job
  BY <1>1 DEF Effect, OthersGoOn, RenderTypeOK, On
<1>3. CASE Commit(w)
  BY <1>1, <1>2, <1>3 DEF Commit, Goto, Inside, Executing, Cleaning, RenderTypeOK, row
<1>4. CASE Close(w)
  BY <1>1, <1>2, <1>4 DEF Close, Goto, Inside, Executing, Cleaning, RenderTypeOK, row
<1>5. CASE Compile(w) \/ Encode(w) \/ Audit(w) \/ Seal(w) \/ Discard(w) \/ Explain(w)
  BY <1>1, <1>2, <1>5 DEF Compile, Encode, Audit, Seal, Discard, Explain
<1> QED
  BY <1>3, <1>4, <1>5 DEF RunStep

\* A success is a delivery of the worker's own film: the digests it appends
\* are its own.
LEMMA CommitActs ==
  ASSUME RenderIInv, RenderIInv', NEW w \in Workers, Inside(w), at[w] = "commit", ~Inside(w)',
         OthersGoOn(w), Transition(On(w), "running", "succeeded", Sealed(w))
  PROVE  [Execution!Next]_(Execution!vars)
<1>1. SeenByOwner /\ SeenByOwner' /\ RenderTypeOK /\ Tells(w) /\ w # Nobody
  BY Seen, SeenAfter, RenderAssumption DEF RenderIInv, RenderInv, LocalsTellFiles
<1>2. PICK j \in Jobs : j = On(w)
  BY <1>1 DEF RenderTypeOK, On, Locals
<1>3. /\ job[j] = "running" /\ receipt[j] = NoReceipts /\ mem[w].artifact = w
  BY <1>1, <1>2 DEF RenderIInv, RenderInv, RunnerOwnsJob, Tells, Inside
<1>4. /\ job'[j] = "succeeded" /\ receipt'[j] = Appended(j, Sealed(w))
      /\ \A i \in Jobs \ {j} : job'[i] = job[i] /\ receipt'[i] = receipt[i]
  BY <1>1, <1>2 DEF Transition, RenderTypeOK
<1>5. receipt'[j].artifact = w /\ receipt'[j].failure = receipt[j].failure
  BY <1>1, <1>3, <1>4 DEF Appended, Added, Sealed, NoReceipts
<1>6. /\ \A v \in Workers \ {w}, i \in Jobs : Running(v, i)' <=> Running(v, i)
      /\ \A i \in Jobs : ~Running(w, i)' /\ (Running(w, i) <=> i = j)
  BY <1>2 DEF OthersGoOn, Running, On, Inside
<1>7. Runner(j) = w /\ Runner(j)' = Nobody
  <2>1. Runner(j) = w
    BY <1>1, <1>6 DEF SeenByOwner
  <2>2. \A v \in Workers : ~Running(v, j)'
    BY <1>1, <1>6, <2>1 DEF SeenByOwner
  <2> QED
    BY <1>1, <2>1, <2>2 DEF SeenByOwner
<1>8. FilmOf(j)' = w /\ FailureOf(j)' = FailureOf(j)
  BY <1>1, <1>4, <1>5 DEF SeenByOwner
<1>9. Status(j) = "running" /\ Status(j)' = "succeeded"
  BY <1>3, <1>4 DEF Status
<1>10. Elsewhere(j) /\ Acts(j)
  BY <1>1, <1>4, <1>6, <1>7, <1>8, <1>9 DEF Elsewhere, Acts
<1> QED
  BY <1>1, <1>10, ActsIsAStep

\* An unsuccessful end is the worker's own, and so is its reason.
LEMMA CloseActs ==
  ASSUME RenderIInv, RenderIInv', NEW w \in Workers, Inside(w), at[w] = "close", ~Inside(w)',
         OthersGoOn(w), Transition(On(w), "running", mem[w].code, Closing(w))
  PROVE  [Execution!Next]_(Execution!vars)
<1>1. SeenByOwner /\ SeenByOwner' /\ RenderTypeOK /\ Tells(w) /\ w # Nobody
  BY Seen, SeenAfter, RenderAssumption DEF RenderIInv, RenderInv, LocalsTellFiles
<1>2. PICK j \in Jobs : j = On(w)
  BY <1>1 DEF RenderTypeOK, On, Locals
<1>3. PICK code \in {"failed", "cancelled"} : code = mem[w].code
  BY <1>1 DEF RenderTypeOK, Locals
<1>4. job[j] = "running" /\ receipt[j] = NoReceipts /\ mem[w].noted \in {Nobody, code}
  BY <1>1, <1>2, <1>3 DEF RenderIInv, RenderInv, RunnerOwnsJob, Tells, Inside
<1>5. /\ job'[j] = code /\ receipt'[j] = Appended(j, Closing(w))
      /\ \A i \in Jobs \ {j} : job'[i] = job[i] /\ receipt'[i] = receipt[i]
  BY <1>1, <1>2, <1>3 DEF Transition, RenderTypeOK
<1>6. receipt'[j].failure \in {receipt[j].failure, code}
  BY <1>4, <1>5 DEF Appended, Added, Closing, NoReceipts
<1>7. /\ \A v \in Workers \ {w}, i \in Jobs : Running(v, i)' <=> Running(v, i)
      /\ \A i \in Jobs : ~Running(w, i)' /\ (Running(w, i) <=> i = j)
  BY <1>2 DEF OthersGoOn, Running, On, Inside
<1>8. Runner(j) = w /\ Runner(j)' = Nobody
  <2>1. Runner(j) = w
    BY <1>1, <1>7 DEF SeenByOwner
  <2>2. \A v \in Workers : ~Running(v, j)'
    BY <1>1, <1>7, <2>1 DEF SeenByOwner
  <2> QED
    BY <1>1, <2>1, <2>2 DEF SeenByOwner
<1>9. Status(j) = "running" /\ Status(j)' = code
  BY <1>4, <1>5 DEF Status
<1>10. FilmOf(j)' = FilmOf(j) /\ FailureOf(j)' \in {FailureOf(j), code}
  BY <1>1, <1>4, <1>5, <1>6 DEF SeenByOwner
<1>11. Elsewhere(j) /\ Acts(j)
  BY <1>1, <1>5, <1>7, <1>8, <1>9, <1>10 DEF Elsewhere, Acts
<1> QED
  BY <1>1, <1>11, ActsIsAStep

\* run_job as its owner sees it.
LEMMA RunStepActs ==
  ASSUME RenderIInv, RenderIInv', NEW w \in Workers, RunStep(w)
  PROVE  [Execution!Next]_(Execution!vars)
<1>1. SeenByOwner /\ SeenByOwner' /\ RenderTypeOK
  BY Seen, SeenAfter DEF RenderIInv, RenderInv
<1>2. Inside(w) /\ OthersGoOn(w) /\ mem'[w].job = mem[w].job
  BY RunStepOutcome
<1>3. CASE UNCHANGED row
  BY <1>1, <1>2, <1>3, GoesOn, GoneActs DEF row
<1> QED
  BY <1>2, <1>3, RunStepOutcome, CommitActs, CloseActs

\* Workers that race for a job, fail, die and clean up implement RenderOnce: a
\* job is begun once, only its own worker ends it, and what load_artifact and
\* load_failure return is that worker's film or the reason, for ever.
THEOREM RenderRefines == RenderSpec => ImplementsRenderOnce
<1>1. RenderInit => Execution!Init
  <2> SUFFICES ASSUME RenderInit PROVE Execution!Init
    OBVIOUS
  <2>1. RenderIInv
    BY RenderInit_RenderIInv
  <2>2. SeenByOwner
    BY <2>1, Seen
  <2>3. \A j \in Jobs : Status(j) = "none" /\ FilmOf(j) = Nobody /\ FailureOf(j) = Nobody
    BY <2>2 DEF RenderInit, Status, SeenByOwner, NoReceipts
  <2>4. \A w \in Workers, j \in Jobs : ~Running(w, j)
    BY DEF RenderInit, Running, Executing, Cleaning
  <2>5. \A j \in Jobs : Runner(j) = Nobody
    BY <2>2, <2>4 DEF SeenByOwner
  <2> QED
    BY <2>3, <2>5 DEF Execution!Init
<1>2. RenderIInv /\ RenderIInv' /\ [RenderNext]_renderVars => [Execution!Next]_(Execution!vars)
  <2> SUFFICES ASSUME RenderIInv, RenderIInv', [RenderNext]_renderVars
               PROVE  [Execution!Next]_(Execution!vars)
    OBVIOUS
  <2>1. SeenByOwner /\ SeenByOwner' /\ RenderTypeOK
    BY Seen, SeenAfter DEF RenderIInv, RenderInv
  <2>2. ASSUME NEW j \in Jobs, Submit(j) \/ SubmitTorn(j) PROVE [Execution!Next]_(Execution!vars)
    BY <2>1, <2>2, CreateActs DEF Submit, SubmitTorn
  <2>3. ASSUME NEW w \in Workers, NEW j \in Jobs, Claim(w, j) PROVE [Execution!Next]_(Execution!vars)
    BY <2>1, <2>3, ClaimActs
  <2>4. ASSUME NEW w \in Workers, Finish(w) \/ Die(w) \/ \E j \in Jobs : ClaimRefused(w, j)
        PROVE  [Execution!Next]_(Execution!vars)
    <3>1. UNCHANGED row /\ ~Inside(w)' /\ OthersGoOn(w)
      BY <2>1, <2>4 DEF Finish, Die, ClaimRefused, Goto, RenderTypeOK, OthersGoOn, Inside,
         Executing, Cleaning, row
    <3> QED
      BY <2>1, <3>1, GoneActs DEF row
  <2>5. ASSUME NEW w \in Workers, RunStep(w) PROVE [Execution!Next]_(Execution!vars)
    BY <2>5, RunStepActs
  <2>6. CASE UNCHANGED renderVars
    BY <2>1, <2>6, NothingSeen DEF renderVars, row, worker, Running, On
  <2> QED
    BY <2>2, <2>3, <2>4, <2>5, <2>6 DEF RenderNext
<1>3. RenderSpec => []RenderIInv
  BY RenderInit_RenderIInv, RenderNext_RenderIInv, PTL DEF RenderSpec
<1> QED
  BY <1>1, <1>2, <1>3, PTL DEF RenderSpec, ImplementsRenderOnce, Execution!Spec
=============================================================================
