------------------------------- MODULE Inbox -------------------------------
(* Capture through the authenticated Inbox: one intake receipt per           *)
(* idempotency key, bytes staged under `.incoming`, the FULL-synchronous     *)
(* acceptance receipt, the content-addressed AssetStore, provenance, the     *)
(* canonical Project, preparation, same-key retries and the reconciliation   *)
(* that precedes serving.  SQLite commits with synchronous=NORMAL are        *)
(* visible at once but reach the disk later, a new directory entry only with *)
(* an fsync of its directory: a power loss may take either away.             *)
EXTENDS Naturals, FiniteSets

CONSTANTS
  Keys,        \* idempotency keys, hence intakes: intake_id_for_key
  Contents,    \* distinguishable file contents, named by their size + SHA-256
  NoBytes,     \* no content
  Torn,        \* a staging file whose writing never finished
  MaxStaged,   \* bound: staging files of one intake
  MaxFaults,   \* bound: failing file or database operations
  MaxCrashes,  \* bound: process deaths
  MaxLosses    \* bound: power losses

ASSUME BoundsAssumption ==
  /\ MaxStaged \in Nat \ {0}
  /\ {MaxFaults, MaxCrashes, MaxLosses} \subseteq Nat
  /\ {NoBytes, Torn} \cap Contents = {}
  /\ NoBytes # Torn

VARIABLES
  kind,     \* "file" or "note": the route a key is posted to
  db,       \* the database every transaction sees
  disk,     \* the database a power loss leaves: its WAL up to the last sync
  staging,  \* http-<intake_id>-*.upload files of each intake
  blob,     \* canonical blob names: "none", "named" (unsynced) or "safe"
  up,       \* the runtime: "down", "boot" (reconcile_receiving) or "up"
  todo,     \* receipts reconcile_receiving has listed and not reached
  at,       \* where the one live operation on an intake stands
  bytes,    \* what the request is uploading
  own,      \* the staging file the request created, 0 for none
  told,     \* the bytes a 201 has acknowledged to the client
  faults, crashes, losses

vars == <<kind, db, disk, staging, blob, up, todo, at, bytes, own, told,
          faults, crashes, losses>>
store == <<staging, blob>>
bounds == <<faults, crashes, losses>>

Intake ==
  [state   : {"absent", "receiving", "prepared", "partial", "failed"},
   sha     : Contents \cup {NoBytes},  \* content_sha256 + size_bytes
   asset   : BOOLEAN,                  \* asset_id is linked
   project : BOOLEAN]                  \* project_id is linked

Blank == [state |-> "absent", sha |-> NoBytes, asset |-> FALSE, project |-> FALSE]

Database ==
  [intake   : [Keys -> Intake],
   assets   : SUBSET Contents,   \* catalog rows
   enriched : SUBSET Contents,   \* rows carrying authoritative probe metadata
   sources  : SUBSET Keys,       \* the SourceRecord reserved by each receipt
   projects : SUBSET Keys]       \* the canonical project of each receipt

StagingFile ==
  [id : 1..MaxStaged, bytes : Contents \cup {Torn},
   live : BOOLEAN,   \* the name is in the directory
   safe : BOOLEAN]   \* the name is in the directory on the disk

Init ==
  /\ kind \in [Keys -> {"file", "note"}]
  /\ db = [intake |-> [k \in Keys |-> Blank], assets |-> {}, enriched |-> {},
           sources |-> {}, projects |-> {}]
  /\ disk = db
  /\ staging = [k \in Keys |-> {}]
  /\ blob = [c \in Contents |-> "none"]
  /\ up = "boot" /\ todo = {}
  /\ at = [k \in Keys |-> "idle"]
  /\ bytes = [k \in Keys |-> NoBytes]
  /\ own = [k \in Keys |-> 0]
  /\ told = [k \in Keys |-> NoBytes]
  /\ faults = 0 /\ crashes = 0 /\ losses = 0

----------------------------------------------------------------------------
(* Transactions, files and receipts *)

\* A transaction at synchronous=NORMAL: visible, on the disk with a later sync.
Commit(new) == db' = new /\ UNCHANGED disk

\* A transaction at synchronous=FULL: its commit syncs the WAL.
CommitFull(new) == db' = new /\ disk' = new

Receipt(k) == db.intake[k]
Receiving(k) == Receipt(k).state = "receiving"
Accepted(k) == Receipt(k).sha # NoBytes

\* transition_intake: every caller expects RECEIVING.
Transition(k, new) == Receiving(k) /\ Commit([db EXCEPT !.intake[k] = new])

\* _staging_candidates.
Candidates(k) == {f \in staging[k] : f.live}

\* _verified_staging_candidate returns the file; otherwise there is none, or
\* the receipt is contradicted.
Verified(k) ==
  \E f \in staging[k] : Candidates(k) = {f} /\ f.bytes = Receipt(k).sha

\* Unlinking is not synced: a name that is safe on the disk may return.
Unlink(fs, gone) ==
  (fs \ gone) \cup {[f EXCEPT !.live = FALSE] : f \in {g \in gone : g.safe}}

\* What unlinking `gone`, best effort, may leave.
BestEffort(k, gone) ==
  \/ staging' = [staging EXCEPT ![k] = Unlink(@, gone)] /\ UNCHANGED faults
  \/ /\ gone # {} /\ faults < MaxFaults
     /\ faults' = faults + 1
     /\ UNCHANGED staging

OwnFile(k) == {f \in Candidates(k) : f.id = own[k]}

Slots(k) == 1..MaxStaged \ {f.id : f \in staging[k]}

Goto(k, pc) == at' = [at EXCEPT ![k] = pc]
Leave(k) == Goto(k, "idle") /\ own' = [own EXCEPT ![k] = 0]

\* A retry of an upload nothing was accepted from starts over.
Revivable(k) ==
  /\ kind[k] = "file" /\ Receipt(k).state = "failed"
  /\ ~Accepted(k) /\ ~Receipt(k).asset /\ ~Receipt(k).project

----------------------------------------------------------------------------
(* Requests.  The idempotency lock of a key lets one request at a time run;  *)
(* what waits for it is a request that arrives later.                        *)

Idle(k) == up = "up" /\ at[k] = "idle"

\* create_intake inserts the receipt, returns the one that is still receiving
\* or revives a failed one; then the upload or the capture begins.
Begin(k, c) ==
  /\ Idle(k)
  /\ \/ Receipt(k).state = "absent"
     \/ Receiving(k) /\ ~Accepted(k)
     \/ Revivable(k)
  /\ IF Receiving(k)
     THEN UNCHANGED <<db, disk>>
     ELSE Commit([db EXCEPT !.intake[k] = [Blank EXCEPT !.state = "receiving"]])
  /\ IF kind[k] = "file"
     THEN /\ Slots(k) # {} /\ Goto(k, "open")
          /\ bytes' = [bytes EXCEPT ![k] = c]
     ELSE Goto(k, "save") /\ UNCHANGED bytes
  /\ UNCHANGED <<kind, store, up, todo, own, told, bounds>>

\* Slip: only an upload whose asset is linked is resumed by a retry.
ResumeLinked(k, c) ==
  /\ Idle(k) /\ Receiving(k) /\ Receipt(k).sha = c /\ Receipt(k).asset
  /\ Goto(k, "recover")
  /\ UNCHANGED <<kind, db, disk, store, up, todo, bytes, own, told, bounds>>

\* _resume_accepted_upload, once the retry's bytes agree with the receipt
\* (other bytes are refused and change nothing).
Resume(k, c) ==
  /\ Idle(k) /\ Receiving(k) /\ Receipt(k).sha = c
  /\ Goto(k, "recover")
  /\ UNCHANGED <<kind, db, disk, store, up, todo, bytes, own, told, bounds>>

\* Slip: a replay answers without comparing the bytes.
ReplayAnyBytes(k, c) ==
  /\ Idle(k) /\ Receipt(k).state \in {"prepared", "partial"}
  /\ told' = [told EXCEPT ![k] = c]
  /\ UNCHANGED <<kind, db, disk, store, up, todo, at, bytes, own, bounds>>

\* IdempotencyReplay: a finished receipt answers 201 for the same bytes.
Replay(k, c) ==
  /\ Idle(k) /\ Receipt(k).state \in {"prepared", "partial"}
  /\ kind[k] = "file" => Receipt(k).sha = c
  /\ told' = [told EXCEPT ![k] = Receipt(k).sha]
  /\ UNCHANGED <<kind, db, disk, store, up, todo, at, bytes, own, bounds>>

----------------------------------------------------------------------------
(* ingest_upload up to byte acceptance *)

Open(k) ==
  /\ at[k] = "open" /\ Goto(k, "fill")
  /\ \E n \in Slots(k) :
       /\ own' = [own EXCEPT ![k] = n]
       /\ staging' = [staging EXCEPT ![k] = @ \cup
            {[id |-> n, bytes |-> Torn, live |-> TRUE, safe |-> FALSE]}]
  /\ UNCHANGED <<kind, db, disk, blob, up, todo, bytes, told, bounds>>

\* The upload is larger than max_upload_bytes.
TooLarge(k) ==
  /\ at[k] = "fill" /\ Goto(k, "failing")
  /\ UNCHANGED <<kind, db, disk, store, up, todo, bytes, own, told, bounds>>

\* The file's data is synced, then `.incoming` itself: every name created or
\* removed there is now on the disk.
Synced(fs) == {[f EXCEPT !.safe = TRUE] : f \in {g \in fs : g.live}}

Fill(k) ==
  /\ at[k] = "fill" /\ Goto(k, "accept")
  /\ staging' = [j \in Keys |-> Synced(
       IF j # k THEN staging[j]
       ELSE {IF f.id = own[k] THEN [f EXCEPT !.bytes = bytes[k]] ELSE f :
               f \in staging[k]})]
  /\ UNCHANGED <<kind, db, disk, blob, up, todo, bytes, own, told, bounds>>

\* Slip: the acceptance receipt commits like any other checkpoint.
AcceptAtNormal(k) ==
  /\ at[k] = "accept" /\ Goto(k, "publish")
  /\ Transition(k, [Receipt(k) EXCEPT !.sha = bytes[k]])
  /\ bytes' = [bytes EXCEPT ![k] = NoBytes]
  /\ UNCHANGED <<kind, store, up, todo, own, told, bounds>>

\* The byte-acceptance linearization point.
Accept(k) ==
  /\ at[k] = "accept" /\ Goto(k, "publish")
  /\ Receiving(k)
  /\ CommitFull([db EXCEPT !.intake[k].sha = bytes[k]])
  /\ bytes' = [bytes EXCEPT ![k] = NoBytes]
  /\ UNCHANGED <<kind, store, up, todo, own, told, bounds>>

----------------------------------------------------------------------------
(* AssetStore.ingest_file *)

\* A canonical name that exists is verified and reused.
Publish(k) ==
  LET c == Receipt(k).sha IN
  /\ at[k] = "publish" /\ Goto(k, "sync")
  /\ blob' = [blob EXCEPT ![c] = IF @ = "none" THEN "named" ELSE @]
  /\ UNCHANGED <<kind, db, disk, staging, up, todo, bytes, own, told, bounds>>

Sync(k) ==
  /\ at[k] = "sync" /\ Goto(k, "catalog")
  /\ blob' = [blob EXCEPT ![Receipt(k).sha] = "safe"]
  /\ UNCHANGED <<kind, db, disk, staging, up, todo, bytes, own, told, bounds>>

\* put_asset; an upload goes on to its link, a recovery verifies first.
Catalog(k) ==
  /\ at[k] = "catalog"
  /\ Goto(k, IF own[k] # 0 THEN "link" ELSE "verify")
  /\ Commit([db EXCEPT !.assets = @ \cup {Receipt(k).sha}])
  /\ UNCHANGED <<kind, store, up, todo, bytes, own, told, bounds>>

----------------------------------------------------------------------------
(* _recover_asset_for_intake: from the latest durable representation *)

\* Slip: a canonical name left by an interrupted rename is taken as durable.
RecoverTrustingName(k) ==
  LET c == Receipt(k).sha IN
  /\ at[k] = "recover"
  /\ Goto(k, IF ~Accepted(k) THEN "lost"
             ELSE IF c \in db.assets THEN "verify"
             ELSE IF blob[c] # "none" THEN "catalog"
             ELSE IF Verified(k) THEN "publish"
             ELSE IF up = "boot" THEN "lost" ELSE "refused")
  /\ UNCHANGED <<kind, db, disk, store, up, todo, bytes, own, told, bounds>>

Recover(k) ==
  LET c == Receipt(k).sha IN
  /\ at[k] = "recover"
  /\ Goto(k, IF ~Accepted(k) THEN "lost"
             ELSE IF c \in db.assets THEN "verify"
             ELSE IF blob[c] # "none" THEN "sync"
             ELSE IF Verified(k) THEN "publish"
             ELSE IF Candidates(k) = {} /\ up = "boot" THEN "lost"
             ELSE "refused")
  /\ UNCHANGED <<kind, db, disk, store, up, todo, bytes, own, told, bounds>>

\* _ensure_asset_bytes.
Verify(k) ==
  LET c == Receipt(k).sha IN
  /\ at[k] = "verify"
  /\ IF blob[c] # "none"
     THEN Goto(k, "discard") /\ blob' = [blob EXCEPT ![c] = "safe"]
     ELSE /\ Goto(k, IF Verified(k) THEN "publish" ELSE "refused")
          /\ UNCHANGED blob
  /\ UNCHANGED <<kind, db, disk, staging, up, todo, bytes, own, told, bounds>>

\* The canonical blob is authoritative now.
Discard(k) ==
  /\ at[k] = "discard"
  /\ Goto(k, IF Receipt(k).asset THEN "source" ELSE "link")
  /\ BestEffort(k, Candidates(k))
  /\ UNCHANGED <<kind, db, disk, blob, up, todo, bytes, own, told, crashes, losses>>

----------------------------------------------------------------------------
(* Linkage, provenance, project and preparation *)

Link(k) ==
  /\ at[k] = "link" /\ Goto(k, "source")
  /\ Transition(k, [Receipt(k) EXCEPT !.asset = TRUE])
  /\ UNCHANGED <<kind, store, up, todo, bytes, own, told, bounds>>

\* _ensure_source_record, under the source ID reserved with the receipt.
Source(k) ==
  /\ at[k] = "source" /\ Goto(k, "save")
  /\ Commit([db EXCEPT !.sources = @ \cup {k}])
  /\ UNCHANGED <<kind, store, up, todo, bytes, own, told, bounds>>

\* _ensure_project: the canonical project is found or saved, then linked.
SaveProject(k) ==
  /\ at[k] = "save" /\ Goto(k, "project")
  /\ Commit([db EXCEPT !.projects = @ \cup {k}])
  /\ UNCHANGED <<kind, store, up, todo, bytes, own, told, bounds>>

LinkProject(k) ==
  /\ at[k] = "project"
  /\ Goto(k, IF kind[k] = "file" THEN "probe" ELSE "prepared")
  /\ IF Receipt(k).project
     THEN UNCHANGED <<db, disk>>
     ELSE Transition(k, [Receipt(k) EXCEPT !.project = TRUE])
  /\ UNCHANGED <<kind, store, up, todo, bytes, own, told, bounds>>

\* _prepare_receiving_file: a probe enriches the asset; without one, or
\* without its thumbnail, the intake ends partial.
Probe(k) ==
  /\ at[k] = "probe"
  /\ \/ /\ \/ Goto(k, "prepared")
           \/ Goto(k, "partial")
        /\ Commit([db EXCEPT !.enriched = @ \cup {Receipt(k).sha}])
     \/ Goto(k, "partial") /\ UNCHANGED <<db, disk>>
  /\ UNCHANGED <<kind, store, up, todo, bytes, own, told, bounds>>

Settle(k) ==
  /\ at[k] \in {"prepared", "partial"} /\ Goto(k, "done")
  /\ Transition(k, [Receipt(k) EXCEPT !.state = at[k]])
  /\ UNCHANGED <<kind, store, up, todo, bytes, own, told, bounds>>

\* The request's own staging file goes and the client is answered.
Finish(k) ==
  /\ at[k] = "done" /\ Leave(k)
  /\ BestEffort(k, OwnFile(k))
  /\ told' = IF up = "up" THEN [told EXCEPT ![k] = Receipt(k).sha] ELSE told
  /\ UNCHANGED <<kind, db, disk, blob, up, todo, bytes, crashes, losses>>

----------------------------------------------------------------------------
(* Failures *)

StorageSteps ==
  {"open", "fill", "accept", "publish", "sync", "catalog", "recover", "verify",
   "link", "source", "save", "project", "probe", "prepared", "partial", "lost"}

\* An OSError or an sqlite3.OperationalError out of the step.
StorageFault(k) ==
  /\ at[k] \in StorageSteps /\ faults < MaxFaults
  /\ faults' = faults + 1
  /\ Goto(k, "failing")
  /\ UNCHANGED <<kind, db, disk, store, up, todo, bytes, own, told, crashes, losses>>

\* Slip: failure handling always removes the request's staging file.
ClassifyDroppingStaged(k) ==
  /\ at[k] = "failing" /\ up = "up"
  /\ IF kind[k] = "note" \/ Accepted(k)
     THEN UNCHANGED <<db, disk>>
     ELSE Transition(k, [Receipt(k) EXCEPT !.state = "failed"])
  /\ Leave(k)
  /\ bytes' = [bytes EXCEPT ![k] = NoBytes]
  /\ BestEffort(k, OwnFile(k))
  /\ UNCHANGED <<kind, blob, up, todo, told, crashes, losses>>

\* ingest_upload and capture_url_note: what was accepted, and a note, stays
\* receiving (only a retry diagnostic is written), and its staging file stays
\* while no asset is linked; an upload nothing was accepted from fails.
Classify(k) ==
  /\ at[k] = "failing" /\ up = "up"
  /\ IF kind[k] = "note" \/ Accepted(k)
     THEN UNCHANGED <<db, disk>>
     ELSE Transition(k, [Receipt(k) EXCEPT !.state = "failed"])
  /\ Leave(k)
  /\ bytes' = [bytes EXCEPT ![k] = NoBytes]
  /\ BestEffort(k, IF Accepted(k) /\ ~Receipt(k).asset THEN {} ELSE OwnFile(k))
  /\ UNCHANGED <<kind, blob, up, todo, told, crashes, losses>>

\* Under the same pressure get_intake fails as well (the staging file stays),
\* or the failed transition does (it is best effort, and the file goes).
ClassifyBlind(k) ==
  /\ at[k] = "failing" /\ up = "up" /\ faults < MaxFaults
  /\ faults' = faults + 1
  /\ Leave(k)
  /\ bytes' = [bytes EXCEPT ![k] = NoBytes]
  /\ \/ UNCHANGED staging
     \/ /\ kind[k] = "file" /\ ~Accepted(k)
        /\ staging' = [staging EXCEPT ![k] = Unlink(@, OwnFile(k))]
  /\ UNCHANGED <<kind, db, disk, blob, up, todo, told, crashes, losses>>

\* An InboxError refuses a resumed upload: the receipt ends failed only once
\* its project is linked.
Refuse(k) ==
  /\ at[k] = "refused" /\ up = "up" /\ Leave(k)
  /\ IF Receipt(k).project
     THEN Transition(k, [Receipt(k) EXCEPT !.state = "failed"])
     ELSE UNCHANGED <<db, disk>>
  /\ UNCHANGED <<kind, store, up, todo, bytes, told, bounds>>

\* reconcile_receiving keeps an accepted file and a note receiving across a
\* storage failure; anything else it cannot recover fails (unless that
\* transition fails), and then its staging files go.
BootKeeps(k) ==
  /\ up = "boot" /\ Leave(k)
  /\ \/ /\ at[k] = "failing" /\ (kind[k] = "note" \/ Accepted(k))
        /\ UNCHANGED faults
     \/ /\ at[k] \in {"failing", "refused"} /\ faults < MaxFaults
        /\ faults' = faults + 1
  /\ UNCHANGED <<kind, db, disk, store, up, todo, bytes, told, crashes, losses>>

BootFails(k) ==
  /\ up = "boot"
  /\ \/ at[k] \in {"lost", "refused"}
     \/ at[k] = "failing" /\ kind[k] = "file" /\ ~Accepted(k)
  /\ Goto(k, "purge")
  /\ Transition(k, [Receipt(k) EXCEPT !.state = "failed"])
  /\ UNCHANGED <<kind, store, up, todo, bytes, own, told, bounds>>

Purge(k) ==
  /\ at[k] = "purge" /\ Leave(k)
  /\ BestEffort(k, Candidates(k))
  /\ UNCHANGED <<kind, db, disk, blob, up, todo, bytes, told, crashes, losses>>

----------------------------------------------------------------------------
(* The runtime and its machine *)

\* reconcile_receiving takes the listed receipts one by one.
BootTake(k) ==
  /\ up = "boot" /\ k \in todo
  /\ \A j \in Keys : at[j] = "idle"
  /\ todo' = todo \ {k}
  /\ Goto(k, IF kind[k] = "file" THEN "recover" ELSE "save")
  /\ UNCHANGED <<kind, db, disk, store, up, bytes, own, told, bounds>>

Serve ==
  /\ up = "boot" /\ todo = {}
  /\ \A j \in Keys : at[j] = "idle"
  /\ up' = "up"
  /\ UNCHANGED <<kind, db, disk, store, todo, at, bytes, own, told, bounds>>

Restart ==
  /\ up = "down" /\ up' = "boot"
  /\ todo' = {k \in Keys : Receiving(k)}
  /\ UNCHANGED <<kind, db, disk, store, at, bytes, own, told, bounds>>

Stop ==
  /\ up' = "down" /\ todo' = {}
  /\ at' = [k \in Keys |-> "idle"]
  /\ bytes' = [k \in Keys |-> NoBytes]
  /\ own' = [k \in Keys |-> 0]

\* The process dies; what it wrote stays visible.
Crash ==
  /\ up # "down" /\ crashes < MaxCrashes
  /\ crashes' = crashes + 1
  /\ Stop
  /\ UNCHANGED <<kind, db, disk, store, told, faults, losses>>

\* Staging names on which the directory and the disk disagree.
UnsureNames ==
  {x \in UNION {{k} \X staging[k] : k \in Keys} : x[2].live # x[2].safe}

\* The machine loses power: unsynced commits are gone, unsynced names and
\* removals are kept or lost, each for itself.
PowerLoss ==
  /\ up # "down" /\ losses < MaxLosses
  /\ losses' = losses + 1
  /\ Stop
  /\ db' = disk /\ UNCHANGED disk
  /\ \E back \in SUBSET UnsureNames :
       staging' = [k \in Keys |->
         Synced({f \in staging[k] : f.live /\ f.safe}
                \cup {[f EXCEPT !.live = TRUE] :
                        f \in {g \in staging[k] : <<k, g>> \in back}})]
  /\ blob' \in [Contents -> {"none", "safe"}]
  /\ \A c \in Contents :
       blob[c] # "named" => blob'[c] = blob[c]
  /\ UNCHANGED <<kind, told, faults, crashes>>

\* The WAL reaches the disk with a checkpoint or another connection's sync.
WalSync ==
  /\ disk # db /\ disk' = db
  /\ UNCHANGED <<kind, db, store, up, todo, at, bytes, own, told, bounds>>

Step(k) ==
  \/ Open(k) \/ TooLarge(k) \/ Fill(k) \/ Accept(k)
  \/ Publish(k) \/ Sync(k) \/ Catalog(k)
  \/ Recover(k) \/ Verify(k) \/ Discard(k)
  \/ Link(k) \/ Source(k) \/ SaveProject(k) \/ LinkProject(k)
  \/ Probe(k) \/ Settle(k) \/ Finish(k)
  \/ Classify(k) \/ Refuse(k) \/ BootKeeps(k) \/ BootFails(k) \/ Purge(k)
  \/ BootTake(k)

Next ==
  \/ \E k \in Keys :
       \/ Step(k) \/ StorageFault(k) \/ ClassifyBlind(k)
       \/ \E c \in Contents : Begin(k, c) \/ Resume(k, c) \/ Replay(k, c)
  \/ Serve \/ Restart \/ Crash \/ PowerLoss \/ WalSync

Spec == Init /\ [][Next]_vars

\* A handler runs to its end, a runtime that is down is started again, and
\* the client's queue retries a capture it holds no 201 for.
Fairness ==
  /\ \A k \in Keys : WF_vars(Step(k))
  /\ \A k \in Keys, c \in Contents : WF_vars(Resume(k, c))
  /\ \A k \in Keys : WF_vars(kind[k] = "note" /\ \E c \in Contents : Begin(k, c))
  /\ WF_vars(Serve) /\ WF_vars(Restart)

FairSpec == Spec /\ Fairness

----------------------------------------------------------------------------
(* Safety *)

InboxTypeOK ==
  /\ kind \in [Keys -> {"file", "note"}]
  /\ {db, disk} \subseteq Database
  /\ \A k \in Keys :
       /\ staging[k] \subseteq StagingFile
       /\ \A f \in staging[k] : f.live \/ f.safe
       /\ own[k] # 0 => Cardinality(OwnFile(k)) = 1
       /\ kind[k] = "note" => staging[k] = {} /\ ~Accepted(k)
  /\ blob \in [Contents -> {"none", "named", "safe"}]
  /\ up \in {"down", "boot", "up"} /\ todo \subseteq Keys
  /\ at \in [Keys -> StorageSteps \cup
               {"idle", "discard", "done", "failing", "refused", "purge"}]
  /\ bytes \in [Keys -> Contents \cup {NoBytes}]
  /\ own \in [Keys -> 0..MaxStaged]
  /\ told \in [Keys -> Contents \cup {NoBytes}]

\* A catalog row never outruns the durability of its canonical blob, also
\* for uploads of the same bytes under two keys, reused names, recovery and
\* whatever part of the database a power loss leaves.
CatalogIsBacked == \A c \in db.assets \cup disk.assets : blob[c] = "safe"

\* The disk holds what was accepted: a canonical blob or a whole staging file,
\* under a durable name.
Held(k) ==
  Accepted(k) =>
    \/ blob[Receipt(k).sha] = "safe"
    \/ \E f \in staging[k] : f.live /\ f.safe /\ f.bytes = Receipt(k).sha

\* From acceptance on, whatever fails, dies, loses power or restarts, no step
\* but the purge of a refused receipt takes the last durable copy away.
LastCopyIsKept == [][\A k \in Keys : Held(k) => Held(k)' \/ at[k] = "purge"]_vars

\* A finished receipt names a complete chain, in the database the process
\* sees and in the one a power loss would leave: its asset row, the reserved
\* provenance, its canonical project and, if prepared, the probe's metadata.
ChainIsComplete ==
  \A d \in {db, disk}, k \in Keys :
    LET r == d.intake[k] IN
    /\ r.project => k \in d.projects
    /\ r.asset => r.sha \in d.assets
    /\ r.state \in {"prepared", "partial"} => k \in d.projects
    /\ kind[k] = "file" /\ k \in d.projects => k \in d.sources
    /\ kind[k] = "file" /\ k \in d.sources => r.asset
    /\ kind[k] = "file" /\ r.state = "prepared" => r.sha \in d.enriched

\* Receipts, catalog and blobs of the Inbox (application/inbox.py): both of these,
\* and the types.
InboxInv == InboxTypeOK /\ CatalogIsBacked /\ ChainIsComplete

\* A client told 201 for its bytes finds exactly these bytes under its key,
\* never failed, also after power losses that undid the final commits.
AckIsKept ==
  \A k \in Keys : told[k] # NoBytes =>
    /\ Receipt(k).sha = told[k] /\ Receipt(k).state # "failed"
    /\ blob[told[k]] = "safe"

\* The accepted digest and size are frozen: nothing, power loss included,
\* changes or loses a receipt once its FULL commit returned.  (Also a part of
\* what ImplementsAcceptedCapture says.)
ReceiptIsFrozen ==
  [][\A k \in Keys : Accepted(k) => Receipt(k)'.sha = Receipt(k).sha]_vars

\* "after it returns, recovery must preserve or reproduce exactly those
\* accepted bytes even across process or machine power loss"
\* (docs/pr8-local-api.md:81): an accepted upload never ends failed.
AcceptedIsPreserved ==
  \A k \in Keys : Accepted(k) => Receipt(k).state # "failed"

----------------------------------------------------------------------------
(* Refinement of AcceptedCapture *)

Refused(k) == Accepted(k) /\ Receipt(k).state = "failed"

Promise == INSTANCE AcceptedCapture
  WITH accepted <- [k \in Keys |-> Receipt(k).sha],
       kept     <- [k \in Keys |-> Accepted(k) /\ Held(k)],
       refused  <- [k \in Keys |-> Refused(k)]

\* Uploads, retries, failures, recovery and power losses together implement: one
\* content for a key, a 201 only for what is held, no refusal after it, and no
\* copy given up but of what is refused.
ImplementsAcceptedCapture == Promise!Spec

----------------------------------------------------------------------------
(* Liveness *)

\* Accepted bytes and captured notes reach a final receipt, by a retry or by
\* the reconciliation of a restart; only an upload that several staging files
\* claim (or claimed, until they were purged) waits for a startup to refuse it.
CaptureFinishes ==
  \A k \in Keys :
    Receiving(k) /\ (Accepted(k) \/ kind[k] = "note")
      ~> ~Receiving(k) \/ Cardinality(Candidates(k)) > 1 \/ ~Held(k)
=============================================================================
