----------------------------- MODULE RenderJobs -----------------------------
(***************************************************************************)
(* Persistent render jobs (orchestration/_render_jobs_*.py over             *)
(* storage/job_state.py): a queued job is claimed by compare-and-set, its   *)
(* plan is compiled, rendered and audited, and the outcome is published as   *)
(* files beside append-only receipts in the job row.  Loading an artifact    *)
(* or a failure later trusts a file only if it has the receipt's digest.     *)
(*                                                                         *)
(* A file's content, and a digest of it, is the worker that produced it      *)
(* (two encodes never have the same bytes); of a failure manifest it is the  *)
(* failure code.  Workers are threads of any number of processes.           *)
(***************************************************************************)
EXTENDS Naturals, FiniteSets

CONSTANTS Jobs, Workers,
          Nobody,      \* no file, no receipt
          Cancellable, \* whether run_job's callers pass a cancellation token
          MaxFaults,   \* bound: file and database operations that raise
          MaxDeaths    \* bound: process deaths and process-control exceptions

VARIABLES job,      \* job[j]: state column of the jobs row
          receipt,  \* receipt[j]: digests appended to the row's payload
          disk,     \* disk[j]: the files of the job's directory
          at,       \* at[w]: where in run_job worker w is
          mem,      \* mem[w]: run_job's local variables
          faults, deaths

JobState == {"none", "batch_held", "queued", "running", "succeeded", "failed", "cancelled"}
Terminal == {"succeeded", "failed", "cancelled"}

\* Codes of failure manifests.  The last two are written by batch recovery.
Interrupted == {"render_interrupted", "batch_claim_interrupted"}
FailureCode == {"failed", "cancelled"} \cup Interrupted

ASSUME RenderAssumption ==
  /\ Nobody \notin Workers \cup FailureCode
  /\ Cancellable \in BOOLEAN
  /\ MaxFaults \in Nat /\ MaxDeaths \in Nat

Executing == {"compile", "encode", "audit", "seal", "commit"}
Cleaning  == {"discard", "explain", "close"}
Resting   == {"idle", "returned", "raised"}

Digest == Workers \cup {Nobody}
Code   == FailureCode \cup {Nobody}

Receipts == [command : Digest, artifact : Digest, failure : Code]
Files    == [plan : BOOLEAN, command : Digest, output : Digest, manifest : Digest, failure : Code]
Locals   == [job : Jobs, command : BOOLEAN, artifact : Digest,
             code : {"failed", "cancelled"}, noted : Code]

NoReceipts == [command |-> Nobody, artifact |-> Nobody, failure |-> Nobody]
NoFiles    == [plan |-> FALSE, command |-> Nobody, output |-> Nobody,
               manifest |-> Nobody, failure |-> Nobody]
Fresh(j)   == [job |-> j, command |-> FALSE, artifact |-> Nobody,
               code |-> "failed", noted |-> Nobody]

RenderTypeOK ==
  /\ job \in [Jobs -> JobState]
  /\ receipt \in [Jobs -> Receipts]
  /\ disk \in [Jobs -> Files]
  /\ at \in [Workers -> Executing \cup Cleaning \cup Resting]
  /\ mem \in [Workers -> Locals]
  /\ faults \in 0..MaxFaults
  /\ deaths \in 0..MaxDeaths

RenderInit ==
  /\ job = [j \in Jobs |-> "none"]
  /\ receipt = [j \in Jobs |-> NoReceipts]
  /\ disk = [j \in Jobs |-> NoFiles]
  /\ at = [w \in Workers |-> "idle"]
  /\ mem \in [Workers -> {Fresh(j) : j \in Jobs}]
  /\ faults = 0
  /\ deaths = 0

row    == <<job, receipt>>
worker == <<at, mem>>
budget == <<faults, deaths>>
renderVars == <<row, disk, worker, budget>>

----------------------------------------------------------------------------
(* Storage operations *)

\* A file or database operation of the step raises.
Spend == faults < MaxFaults /\ faults' = faults + 1 /\ UNCHANGED deaths
Free  == UNCHANGED budget

\* The process dies, or a process-control exception ends it.
Lose  == deaths < MaxDeaths /\ deaths' = deaths + 1 /\ UNCHANGED faults

\* Receipt fields are appended to the payload, never replaced.
CanAppend(j, adds) ==
  /\ adds.command # Nobody => receipt[j].command = Nobody
  /\ adds.artifact # Nobody => receipt[j].artifact = Nobody
  /\ adds.failure # Nobody => receipt[j].failure = Nobody

Added(old, new) == IF new = Nobody THEN old ELSE new

Appended(j, adds) ==
  [command  |-> Added(receipt[j].command, adds.command),
   artifact |-> Added(receipt[j].artifact, adds.artifact),
   failure  |-> Added(receipt[j].failure, adds.failure)]

\* Slip: the row is updated without comparing its state and payload.
CanAlways(j, from, adds) == job[j] # "none"

CanTransition(j, from, adds) == job[j] = from /\ CanAppend(j, adds)

\* transition_job_state: one transaction, compare-and-set of state and payload.
Transition(j, from, to, adds) ==
  /\ CanTransition(j, from, adds)
  /\ job' = [job EXCEPT ![j] = to]
  /\ receipt' = [receipt EXCEPT ![j] = Appended(j, adds)]

\* The plan file, then the row.  (An exception before the row is committed
\* removes the directory again; nothing refers to it.)
Create(j, state) ==
  /\ job[j] = "none"
  /\ job' = [job EXCEPT ![j] = state]
  /\ disk' = [disk EXCEPT ![j].plan = TRUE]
  /\ UNCHANGED receipt

\* A process-control exception is raised inside create_job after its commit:
\* the cleanup removes the directory of a row that stays.
CreateTorn(j, state) ==
  /\ job[j] = "none"
  /\ job' = [job EXCEPT ![j] = state]
  /\ Lose
  /\ UNCHANGED <<receipt, disk>>

----------------------------------------------------------------------------
(* run_job *)

On(w) == mem[w].job
Goto(w, where) == at' = [at EXCEPT ![w] = where]

\* An Exception of the guarded part: cleanup follows.
Raise(w, code) ==
  /\ Goto(w, "discard")
  /\ mem' = [mem EXCEPT ![w].code = code]

\* Slip: two readers of a queued row both take it.
ClaimByRead(w, j) ==
  /\ at[w] = "idle"
  /\ job[j] \in {"queued", "running"}
  /\ job' = [job EXCEPT ![j] = "running"]
  /\ Goto(w, "compile")
  /\ mem' = [mem EXCEPT ![w] = Fresh(j)]
  /\ UNCHANGED <<receipt, disk, budget>>

Claim(w, j) ==
  /\ at[w] = "idle"
  /\ Transition(j, "queued", "running", NoReceipts)
  /\ Goto(w, "compile")
  /\ mem' = [mem EXCEPT ![w] = Fresh(j)]
  /\ UNCHANGED <<disk, budget>>

\* RenderJobStateError, or the transaction itself raises.
ClaimRefused(w, j) ==
  /\ at[w] = "idle"
  /\ \/ job[j] \notin {"none", "queued"} /\ Free
     \/ job[j] # "none" /\ Spend
  /\ Goto(w, "raised")
  /\ mem' = [mem EXCEPT ![w] = Fresh(j)]
  /\ UNCHANGED <<row, disk>>

\* Load the plan, compile it, verify the source bytes, write the command
\* manifest.  Only a write that returned makes the digest a receipt.
Compile(w) ==
  /\ at[w] = "compile"
  /\ \/ /\ disk[On(w)].plan
        /\ disk' = [disk EXCEPT ![On(w)].command = w]
        /\ \/ Goto(w, "encode") /\ mem' = [mem EXCEPT ![w].command = TRUE] /\ Free
           \/ Raise(w, "failed") /\ Spend
     \/ Raise(w, "failed") /\ UNCHANGED disk /\ Free
  /\ UNCHANGED row

\* execute_ffmpeg publishes the staged output by one rename, or raises.
Encode(w) ==
  /\ at[w] = "encode"
  /\ \/ /\ disk' = [disk EXCEPT ![On(w)].output = w]
        /\ \/ Goto(w, "audit") /\ UNCHANGED mem /\ Free
           \/ Raise(w, "failed") /\ Spend
     \/ Raise(w, "failed") /\ UNCHANGED disk /\ Free
     \/ Cancellable /\ Raise(w, "cancelled") /\ UNCHANGED disk /\ Free
  /\ UNCHANGED row

\* Probe and hash the output, write the artifact manifest that binds them.
Audit(w) ==
  /\ at[w] = "audit"
  /\ \/ /\ disk[On(w)].output # Nobody
        /\ disk' = [disk EXCEPT ![On(w)].manifest = disk[On(w)].output]
        /\ \/ /\ Goto(w, "seal")
              /\ mem' = [mem EXCEPT ![w].artifact = disk[On(w)].output]
              /\ Free
           \/ Raise(w, "failed") /\ Spend
     \/ Raise(w, "failed") /\ UNCHANGED disk /\ Free
  /\ UNCHANGED row

\* failure_path.unlink: success may not coexist with failure evidence.
Seal(w) ==
  /\ at[w] = "seal"
  /\ \/ /\ disk' = [disk EXCEPT ![On(w)].failure = Nobody]
        /\ Goto(w, "commit") /\ UNCHANGED mem /\ Free
     \/ Raise(w, "failed") /\ UNCHANGED disk /\ Spend
  /\ UNCHANGED row

Sealed(w) == [command |-> w, artifact |-> mem[w].artifact, failure |-> Nobody]

Commit(w) ==
  /\ at[w] = "commit"
  /\ \/ Transition(On(w), "running", "succeeded", Sealed(w))
        /\ Goto(w, "returned") /\ UNCHANGED mem /\ Free
     \/ /\ ~CanTransition(On(w), "running", Sealed(w))
        /\ Raise(w, "failed") /\ UNCHANGED row /\ Free
     \/ Raise(w, "failed") /\ UNCHANGED row /\ Spend
  /\ UNCHANGED disk

\* Best effort: an unlink that raises leaves its file.
Discard(w) ==
  /\ at[w] = "discard"
  /\ LET d == disk[On(w)] IN
     \/ disk' = [disk EXCEPT ![On(w)] = [d EXCEPT !.output = Nobody, !.manifest = Nobody]] /\ Free
     \/ disk' = [disk EXCEPT ![On(w)] = [d EXCEPT !.output = Nobody]] /\ Spend
     \/ disk' = [disk EXCEPT ![On(w)] = [d EXCEPT !.manifest = Nobody]] /\ Spend
  /\ Goto(w, "explain")
  /\ UNCHANGED <<row, mem>>

\* _write_failure; if it raises, there is no failure receipt, although the
\* file may be there.
Explain(w) ==
  /\ at[w] = "explain"
  /\ \/ /\ disk' = [disk EXCEPT ![On(w)].failure = mem[w].code]
        /\ \/ mem' = [mem EXCEPT ![w].noted = mem[w].code] /\ Free
           \/ UNCHANGED mem /\ Spend
     \/ UNCHANGED <<disk, mem>> /\ Spend
  /\ Goto(w, "close")
  /\ UNCHANGED row

Closing(w) ==
  [command |-> IF mem[w].command THEN w ELSE Nobody,
   artifact |-> Nobody,
   failure |-> mem[w].noted]

\* The terminal transition is best effort too: the row may stay running.
Close(w) ==
  /\ at[w] = "close"
  /\ \/ Transition(On(w), "running", mem[w].code, Closing(w)) /\ Free
     \/ ~CanTransition(On(w), "running", Closing(w)) /\ UNCHANGED row /\ Free
     \/ UNCHANGED row /\ Spend
  /\ Goto(w, "raised")
  /\ UNCHANGED <<disk, mem>>

RunStep(w) ==
  \/ Compile(w) \/ Encode(w) \/ Audit(w) \/ Seal(w) \/ Commit(w)
  \/ Discard(w) \/ Explain(w) \/ Close(w)

----------------------------------------------------------------------------
(* Loading what a job ended with *)

\* load_artifact succeeds.
Loadable(j) ==
  /\ job[j] = "succeeded"
  /\ disk[j].plan
  /\ receipt[j].command # Nobody /\ disk[j].command = receipt[j].command
  /\ receipt[j].artifact # Nobody /\ disk[j].manifest = receipt[j].artifact
  /\ disk[j].output = disk[j].manifest

\* load_failure: the authenticated code, or nothing that can be trusted.
FailureOf(j) == IF disk[j].failure = receipt[j].failure THEN receipt[j].failure ELSE Nobody

----------------------------------------------------------------------------
(* Independent callers of the orchestrator *)

Submit(j) ==
  /\ Create(j, "queued")
  /\ UNCHANGED <<worker, budget>>

SubmitTorn(j) ==
  /\ CreateTorn(j, "queued")
  /\ UNCHANGED worker

\* The caller has its artifact or exception.
Finish(w) ==
  /\ at[w] \in {"returned", "raised"}
  /\ Goto(w, "idle")
  /\ UNCHANGED <<row, disk, mem, budget>>

\* The process dies, or KeyboardInterrupt or SystemExit passes through: no
\* cleanup runs and the row stays as it is.
Die(w) ==
  /\ at[w] \in Executing \cup Cleaning
  /\ Lose
  /\ Goto(w, "idle")
  /\ UNCHANGED <<row, disk, mem>>

RenderNext ==
  \/ \E j \in Jobs : Submit(j) \/ SubmitTorn(j)
  \/ \E w \in Workers, j \in Jobs : Claim(w, j) \/ ClaimRefused(w, j)
  \/ \E w \in Workers : RunStep(w) \/ Finish(w) \/ Die(w)

RenderSpec == RenderInit /\ [][RenderNext]_renderVars

----------------------------------------------------------------------------
(* Safety *)

\* What load_artifact re-verifies holds of every succeeded job, whoever else
\* tried to run it and whatever failed on the way: both receipts are there,
\* the command and artifact manifests have the receipts' digests, the output
\* is the one the manifest hashed, and no failure evidence is left beside it.
ArtifactLoadable ==
  \A j \in Jobs : job[j] = "succeeded" =>
    /\ receipt[j].command # Nobody /\ disk[j].command = receipt[j].command
    /\ receipt[j].artifact # Nobody /\ disk[j].manifest = receipt[j].artifact
    /\ disk[j].output = disk[j].manifest
    /\ disk[j].failure = Nobody

\* A receipt of an unsuccessful job is backed by its file, so load_failure
\* and recovery never meet "authenticated failure manifest is missing"; the
\* file's code agrees with the state column.
FailureLoadable ==
  \A j \in Jobs :
    /\ receipt[j].command # Nobody => disk[j].command = receipt[j].command
    /\ receipt[j].failure # Nobody =>
         /\ job[j] \in {"failed", "cancelled"}
         /\ disk[j].failure = receipt[j].failure
         /\ (receipt[j].failure = "cancelled") = (job[j] = "cancelled")

\* Whoever is inside run_job owns the job: its row is running, its receipts
\* are empty and no other worker is inside it.  So the compare-and-set that
\* ends a run is never lost to another worker.
RunnerOwnsJob ==
  \A w \in Workers : at[w] \in Executing \cup Cleaning =>
    /\ job[On(w)] = "running"
    /\ receipt[On(w)] = NoReceipts
    /\ \A v \in Workers \ {w} : at[v] \in Executing \cup Cleaning => On(v) # On(w)

\* What a job's row, files and runner owe each other (_render_jobs_final.py): all
\* of these.
RenderInv == RenderTypeOK /\ ArtifactLoadable /\ FailureLoadable /\ RunnerOwnsJob

\* A job that reached a terminal state keeps it, its receipts and every file
\* of its directory: a late worker never touches evidence.
EvidenceIsFinal ==
  [][\A j \in Jobs : job[j] \in Terminal =>
       job'[j] = job[j] /\ receipt'[j] = receipt[j] /\ disk'[j] = disk[j]]_renderVars

----------------------------------------------------------------------------
(* Refinement of RenderOnce *)

Status(j) == IF job[j] \in {"batch_held", "queued"} THEN "waiting" ELSE job[j]

Running(w, j) == at[w] \in Executing \cup Cleaning /\ On(w) = j

Runner(j) ==
  IF \E w \in Workers : Running(w, j) THEN CHOOSE w \in Workers : Running(w, j) ELSE Nobody

FilmOf(j) == IF Loadable(j) THEN disk[j].output ELSE Nobody

Execution == INSTANCE RenderOnce
  WITH Interruptions <- Interrupted,
       status <- [j \in Jobs |-> Status(j)],
       runner <- [j \in Jobs |-> Runner(j)],
       film   <- [j \in Jobs |-> FilmOf(j)],
       reason <- [j \in Jobs |-> FailureOf(j)]

\* Submitting, running, failing, dying and (in BatchRun) retiring and cancelling
\* together implement: begun once, ended by its own worker or after it is gone,
\* and what is loaded is that worker's film or the reason, for ever.
ImplementsRenderOnce == Execution!Spec
=============================================================================
