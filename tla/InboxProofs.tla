----------------------------- MODULE InboxProofs -----------------------------
(***************************************************************************)
(* Proofs about Inbox, for any sets of keys and contents and any bounds.     *)
(* InboxInv is not inductive: it does not say what an intake's place in the   *)
(* handlers means for its receipt, nor how far the database on the disk may   *)
(* lag behind the one every transaction sees.                                *)
(***************************************************************************)
EXTENDS Inbox, FiniteSetTheorems, TLAPS

\* Where a request may stand while it owns a staging file.
Uploading ==
  {"fill", "accept", "publish", "sync", "catalog", "link", "source", "save",
   "project", "probe", "prepared", "partial", "done", "failing"}

Places ==
  StorageSteps \cup {"idle", "discard", "done", "failing", "refused", "purge"}

\* A request that owns a staging file is served, owns exactly one, and is on
\* the upload's way.
OwnsOne(k) ==
  own[k] # 0 => up = "up" /\ at[k] \in Uploading /\ \E f \in staging[k] : OwnFile(k) = {f}

\* What a receipt says of the rows of its own database d.
Whole(d, k) ==
  LET r == d.intake[k] IN
  /\ r.project => k \in d.projects
  /\ r.asset => r.sha \in d.assets
  /\ r.state \in {"prepared", "partial"} => k \in d.projects
  /\ kind[k] = "file" /\ k \in d.projects => k \in d.sources
  /\ kind[k] = "file" /\ k \in d.sources => r.asset
  /\ kind[k] = "file" /\ r.state = "prepared" => r.sha \in d.enriched
  /\ r.state = "absent" => r.sha = NoBytes

\* How far the disk may lag behind: never in the accepted bytes, and a failure
\* of accepted bytes that reached the disk is final.
Lag(k) ==
  /\ disk.intake[k].sha = Receipt(k).sha
  /\ Accepted(k) /\ disk.intake[k].state = "failed" => Receipt(k).state = "failed"

\* What an intake's place in the handlers says of its receipt and its rows.
Along(k) ==
  /\ up = "down" => at[k] = "idle"
  /\ at[k] \in {"open", "fill", "accept"} =>
       up = "up" /\ kind[k] = "file" /\ ~Accepted(k) /\ bytes[k] \in Contents
  /\ at[k] \in {"publish", "sync", "catalog", "verify", "discard", "link"} =>
       kind[k] = "file" /\ Accepted(k)
  /\ at[k] = "recover" => kind[k] = "file"
  /\ at[k] = "catalog" => blob[Receipt(k).sha] = "safe"
  /\ at[k] \in {"verify", "discard", "link"} => Receipt(k).sha \in db.assets
  /\ at[k] = "source" => Receipt(k).asset
  /\ at[k] = "save" /\ kind[k] = "file" => k \in db.sources
  /\ at[k] \in {"project", "probe", "prepared", "partial", "done"} => k \in db.projects
  /\ at[k] = "probe" => kind[k] = "file"
  /\ at[k] = "prepared" /\ kind[k] = "file" => Receipt(k).sha \in db.enriched
  /\ at[k] = "done" => Receipt(k).state \in {"prepared", "partial"}
  /\ at[k] = "purge" => Receipt(k).state = "failed"

\* What was acknowledged is in the receipt of both databases, under a durable
\* name, and on no way to a failure.
Told(k) ==
  told[k] # NoBytes =>
    /\ Receipt(k).sha = told[k] /\ Receipt(k).state # "failed"
    /\ disk.intake[k].state # "failed"
    /\ blob[told[k]] = "safe"
    /\ at[k] \notin {"lost", "refused", "purge"}

\* Reconciliation has only receiving intakes left to take, and only while booting.
Listed(k) == k \in todo => up = "boot" /\ at[k] = "idle" /\ Receiving(k)

\* The type invariant without the cardinality, for one key.
Kept(k) ==
  /\ \A f \in staging[k] : f.live \/ f.safe
  /\ kind[k] = "note" => staging[k] = {} /\ ~Accepted(k)
  /\ OwnsOne(k)

Typed ==
  /\ kind \in [Keys -> {"file", "note"}]
  /\ db \in Database /\ disk \in Database
  /\ staging \in [Keys -> SUBSET StagingFile]
  /\ blob \in [Contents -> {"none", "named", "safe"}]
  /\ up \in {"down", "boot", "up"} /\ todo \subseteq Keys
  /\ at \in [Keys -> Places]
  /\ bytes \in [Keys -> Contents \cup {NoBytes}]
  /\ own \in [Keys -> 0..MaxStaged]
  /\ told \in [Keys -> Contents \cup {NoBytes}]

\* All there is to say of one intake.
Good(k) == Whole(db, k) /\ Whole(disk, k) /\ Lag(k) /\ Along(k) /\ Told(k) /\ Listed(k)

InboxIInv ==
  /\ Typed
  /\ CatalogIsBacked
  /\ \A k \in Keys : Kept(k) /\ Good(k)

----------------------------------------------------------------------------
(* A step of one intake, seen from the others *)

\* A step that concerns intake k alone: the others keep their place, receipt
\* and rows, the catalog only grows and no durable name is lost.
Elsewhere(k) ==
  /\ kind' = kind /\ up' = up /\ disk' \in {disk, db'}
  /\ db.assets \subseteq db'.assets /\ db.enriched \subseteq db'.enriched
  /\ \A c \in Contents : blob[c] = "safe" => blob'[c] = "safe"
  /\ \A j \in Keys \ {k} :
       /\ at'[j] = at[j] /\ bytes'[j] = bytes[j] /\ told'[j] = told[j]
       /\ db'.intake[j] = db.intake[j]
       /\ (j \in db'.sources) <=> (j \in db.sources)
       /\ (j \in db'.projects) <=> (j \in db.projects)
       /\ j \in todo' => j \in todo

\* The receipts and the row sets of a database have their types.
LEMMA DatabaseTypes ==
  ASSUME NEW d \in Database
  PROVE  /\ d.intake \in [Keys -> Intake]
         /\ d.assets \subseteq Contents /\ d.enriched \subseteq Contents
         /\ d.sources \subseteq Keys /\ d.projects \subseteq Keys
         /\ \A k \in Keys : /\ d.intake[k] \in Intake
                            /\ d.intake[k].sha \in Contents \cup {NoBytes}
                            /\ d.intake[k].state \in {"absent", "receiving", "prepared", "partial", "failed"}
                            /\ d.intake[k].asset \in BOOLEAN
                            /\ d.intake[k].project \in BOOLEAN
  BY DEF Database, Intake

\* The model values NoBytes and Torn name no content.
LEMMA NoContent == NoBytes \notin Contents /\ Torn \notin Contents
  BY BoundsAssumption

\* A step of intake k keeps what holds of every other intake.
LEMMA OthersStay ==
  ASSUME InboxIInv, NEW k \in Keys, Elsewhere(k), NEW j \in Keys \ {k}
  PROVE  Good(j)'
<1>1. Good(j) /\ db \in Database /\ disk \in Database /\ told[j] \in Contents \cup {NoBytes}
  BY DEF InboxIInv, Typed
<1>2. Whole(db, j)'
  BY <1>1 DEF Elsewhere, Good, Whole
<1>3. Whole(disk, j)'
  BY <1>1, <1>2 DEF Elsewhere, Good, Whole
<1>4. Lag(j)'
  BY <1>1 DEF Elsewhere, Good, Lag, Receipt, Accepted
<1>5. Receipt(j)' = Receipt(j) /\ Receipt(j).sha \in Contents \cup {NoBytes}
  BY <1>1, DatabaseTypes DEF Elsewhere, Receipt
<1>6. Along(j)'
  BY <1>1, <1>5, NoContent DEF Elsewhere, Good, Along, Accepted
<1>7. Told(j)'
  BY <1>1 DEF Elsewhere, Good, Told, Receipt
<1>8. Listed(j)'
  BY <1>1, <1>5 DEF Elsewhere, Good, Listed, Receiving
<1> QED
  BY <1>2, <1>3, <1>4, <1>6, <1>7, <1>8 DEF Good

\* A step that touches no staging file keeps what holds of them.
LEMMA FilesStay ==
  ASSUME InboxIInv, kind' = kind, staging' = staging,
         \A j \in Keys : /\ own'[j] # 0 => own'[j] = own[j] /\ at'[j] \in Uploading /\ up' = up
                         /\ kind[j] = "note" => Receipt(j)'.sha = NoBytes
  PROVE  \A j \in Keys : Kept(j)'
  BY DEF InboxIInv, Kept, OwnsOne, OwnFile, Candidates, Accepted

----------------------------------------------------------------------------
(* Steps that move an intake and write no database, file or blob *)

\* Nothing is written: intake k only goes to another place.
Walks(k) ==
  /\ UNCHANGED <<kind, db, disk, staging, blob, up, bytes, told>>
  /\ todo' \subseteq todo
  /\ \E p \in Places : at' = [at EXCEPT ![k] = p]
  /\ \/ own' = own /\ (own[k] # 0 => at'[k] \in Uploading)
     \/ own' = [own EXCEPT ![k] = 0]

\* Such a step keeps everything but what the new place itself says.
LEMMA WalkStays ==
  ASSUME InboxIInv, NEW k \in Keys, Walks(k)
  PROVE  /\ Typed' /\ CatalogIsBacked'
         /\ \A j \in Keys : Kept(j)'
         /\ \A j \in Keys \ {k} : Good(j)'
         /\ Whole(db, k)' /\ Whole(disk, k)' /\ Lag(k)'
         /\ Receipt(k)' = Receipt(k)
<1>1. Typed'
  BY BoundsAssumption DEF InboxIInv, Typed, Walks
<1>2. CatalogIsBacked'
  BY DEF InboxIInv, CatalogIsBacked, Walks
<1>3. at \in [Keys -> Places] /\ own \in [Keys -> 0..MaxStaged]
  BY DEF InboxIInv, Typed
<1>4. \A j \in Keys : Kept(j)'
  <2>1. ASSUME NEW j \in Keys
        PROVE  /\ own'[j] # 0 => own'[j] = own[j] /\ at'[j] \in Uploading /\ up' = up
               /\ kind[j] = "note" => Receipt(j)'.sha = NoBytes
    BY <1>3 DEF InboxIInv, Walks, Kept, OwnsOne, Receipt, Accepted
  <2> QED
    BY <2>1, FilesStay DEF Walks
<1>5. \A j \in Keys \ {k} : Good(j)'
  <2>1. Elsewhere(k)
    BY <1>3 DEF Walks, Elsewhere
  <2> QED
    BY <2>1, OthersStay
<1>6. Whole(db, k)' /\ Whole(disk, k)' /\ Lag(k)' /\ Receipt(k)' = Receipt(k)
  BY DEF InboxIInv, Walks, Good, Whole, Lag, Receipt, Accepted
<1> QED
  BY <1>1, <1>2, <1>4, <1>5, <1>6

\* An upload too large for the inbox fails.
LEMMA TooLargeKeeps ==
  ASSUME InboxIInv, NEW k \in Keys, TooLarge(k)
  PROVE  InboxIInv'
<1>1. Walks(k) /\ at[k] = "fill" /\ at'[k] = "failing"
  BY DEF InboxIInv, Typed, TooLarge, Goto, store, bounds, Walks, Places, Uploading
<1>2. Along(k)' /\ Told(k)' /\ Listed(k)'
  BY <1>1 DEF InboxIInv, Good, Along, Told, Listed, Walks, Receipt, Accepted
<1> QED
  BY <1>1, <1>2, WalkStays DEF InboxIInv, Good

\* Recovery from the latest durable representation.
LEMMA RecoverKeeps ==
  ASSUME InboxIInv, NEW k \in Keys, Recover(k)
  PROVE  InboxIInv'
<1>1. at[k] = "recover" /\ kind[k] = "file" /\ own[k] = 0
  BY DEF InboxIInv, Recover, Good, Along, Kept, OwnsOne, Uploading
<1> DEFINE c == Receipt(k).sha
<1>2. \/ at'[k] = "lost" /\ ~Accepted(k)
      \/ at'[k] = "verify" /\ Accepted(k) /\ c \in db.assets
      \/ at'[k] = "sync" /\ Accepted(k)
      \/ at'[k] = "publish" /\ Accepted(k)
      \/ at'[k] \in {"lost", "refused"} /\ blob[c] = "none"
  <2>1. at'[k] = IF ~Accepted(k) THEN "lost"
                 ELSE IF c \in db.assets THEN "verify"
                 ELSE IF blob[c] # "none" THEN "sync"
                 ELSE IF Verified(k) THEN "publish"
                 ELSE IF Candidates(k) = {} /\ up = "boot" THEN "lost"
                 ELSE "refused"
    BY DEF InboxIInv, Typed, Recover, Goto
  <2>2. CASE ~Accepted(k) \/ c \in db.assets \/ blob[c] # "none"
    BY <2>1, <2>2
  <2>3. CASE Accepted(k) /\ c \notin db.assets /\ blob[c] = "none"
    BY <2>1, <2>3
  <2> QED
    BY <2>2, <2>3
<1>3. Walks(k)
  BY <1>1, <1>2 DEF InboxIInv, Typed, Recover, Goto, store, bounds, Walks, Places, StorageSteps
<1>4. Along(k)' /\ Listed(k)'
  BY <1>1, <1>2, <1>3 DEF InboxIInv, Good, Along, Listed, Walks, Receipt, Accepted
<1>5. Told(k)'
  BY <1>1, <1>2, <1>3, NoContent DEF InboxIInv, Good, Told, Walks, Receipt, Accepted
<1> QED
  BY <1>3, <1>4, <1>5, WalkStays DEF InboxIInv, Good

\* A storage failure out of any step.
LEMMA StorageFaultKeeps ==
  ASSUME InboxIInv, NEW k \in Keys, StorageFault(k)
  PROVE  InboxIInv'
<1>1. Walks(k) /\ at[k] \in StorageSteps /\ at'[k] = "failing"
  BY DEF InboxIInv, Typed, StorageFault, Goto, store, Walks, Places, Uploading
<1>2. at[k] # "idle"
  BY <1>1 DEF StorageSteps
<1>3. Along(k)' /\ Told(k)' /\ Listed(k)'
  BY <1>1, <1>2 DEF InboxIInv, Good, Along, Told, Listed, Walks, Receipt, Accepted
<1> QED
  BY <1>1, <1>3, WalkStays DEF InboxIInv, Good

\* A retry whose bytes agree resumes the accepted upload.
LEMMA ResumeKeeps ==
  ASSUME InboxIInv, NEW k \in Keys, NEW c \in Contents, Resume(k, c)
  PROVE  InboxIInv'
<1>1. /\ at[k] = "idle" /\ up = "up" /\ at'[k] = "recover" /\ own[k] = 0
      /\ kind[k] = "file" /\ Receipt(k).sha = c
  BY NoContent DEF InboxIInv, Typed, Resume, Idle, Goto, Kept, OwnsOne, Uploading, Accepted
<1>2. Walks(k)
  BY <1>1 DEF InboxIInv, Typed, Resume, Goto, store, bounds, Walks, Places, StorageSteps
<1>3. Along(k)' /\ Told(k)' /\ Listed(k)'
  BY <1>1, <1>2 DEF InboxIInv, Good, Along, Told, Listed, Walks, Receipt, Accepted
<1> QED
  BY <1>2, <1>3, WalkStays DEF InboxIInv, Good

\* Reconciliation that cannot decide leaves the receipt as it is.
LEMMA BootKeepsKeeps ==
  ASSUME InboxIInv, NEW k \in Keys, BootKeeps(k)
  PROVE  InboxIInv'
<1>1. /\ up = "boot" /\ at[k] \in {"failing", "refused"} /\ at'[k] = "idle"
      /\ own' = [own EXCEPT ![k] = 0]
  BY DEF InboxIInv, Typed, BootKeeps, Leave, Goto
<1>2. Walks(k)
  BY <1>1 DEF InboxIInv, Typed, BootKeeps, Leave, Goto, store, Walks, Places
<1>3. Along(k)' /\ Told(k)' /\ Listed(k)'
  BY <1>1, <1>2 DEF InboxIInv, Good, Along, Told, Listed, Walks, Receipt, Accepted
<1> QED
  BY <1>2, <1>3, WalkStays DEF InboxIInv, Good

\* Reconciliation takes the next receipt.
LEMMA BootTakeKeeps ==
  ASSUME InboxIInv, NEW k \in Keys, BootTake(k)
  PROVE  InboxIInv'
<1>1. /\ up = "boot" /\ at[k] = "idle" /\ own[k] = 0 /\ k \notin todo'
      /\ kind[k] = "file" => at'[k] = "recover"
      /\ kind[k] # "file" => at'[k] = "save"
  BY DEF InboxIInv, Typed, BootTake, Goto, Kept, OwnsOne, Uploading
<1>2. Walks(k)
  BY <1>1 DEF InboxIInv, Typed, BootTake, Goto, store, bounds, Walks, Places, StorageSteps
<1>3. Along(k)' /\ Told(k)' /\ Listed(k)'
  BY <1>1, <1>2 DEF InboxIInv, Good, Along, Told, Listed, Walks, Receipt, Accepted
<1> QED
  BY <1>2, <1>3, WalkStays DEF InboxIInv, Good

----------------------------------------------------------------------------
(* Steps that commit one transaction and touch no file *)

\* The receipt of k becomes r, and nothing else of the database changes.
Rewrites(k, r) ==
  /\ r \in Intake
  /\ db' \in Database
  /\ db'.intake = [db.intake EXCEPT ![k] = r]
  /\ db'.assets = db.assets /\ db'.enriched = db.enriched
  /\ db'.sources = db.sources /\ db'.projects = db.projects

\* A commit of the receipt alone is such a rewriting.
LEMMA CommitRewrites ==
  ASSUME Typed, NEW k \in Keys, NEW r \in Intake, db' = [db EXCEPT !.intake[k] = r]
  PROVE  Rewrites(k, r)
  BY DEF Typed, Database, Rewrites

\* A commit for k: the receipt keeps its accepted bytes, new catalog rows have
\* durable names, and the disk only hears of it later.
Commits(k) ==
  /\ UNCHANGED <<kind, disk, staging, blob, up, todo, told>>
  /\ db' \in Database
  /\ Elsewhere(k)
  /\ \A c \in db'.assets : c \in db.assets \/ blob[c] = "safe"
  /\ Receipt(k)'.sha = Receipt(k).sha
  /\ at' \in [Keys -> Places]
  /\ bytes' \in [Keys -> Contents \cup {NoBytes}]
  /\ \/ own' = own /\ (own[k] # 0 => at'[k] \in Uploading)
     \/ own' = [own EXCEPT ![k] = 0]

\* Such a step keeps everything but what k's own receipt and place say.
LEMMA CommitStays ==
  ASSUME InboxIInv, NEW k \in Keys, Commits(k)
  PROVE  /\ Typed' /\ CatalogIsBacked'
         /\ \A j \in Keys : Kept(j)'
         /\ \A j \in Keys \ {k} : Good(j)'
         /\ Whole(disk, k)'
         /\ disk'.intake[k].sha = Receipt(k)'.sha
<1>1. Typed'
  BY BoundsAssumption DEF InboxIInv, Typed, Commits
<1>2. CatalogIsBacked'
  BY DEF InboxIInv, CatalogIsBacked, Commits
<1>3. at \in [Keys -> Places] /\ own \in [Keys -> 0..MaxStaged]
  BY DEF InboxIInv, Typed
<1>4. \A j \in Keys : Kept(j)'
  <2>1. ASSUME NEW j \in Keys
        PROVE  /\ own'[j] # 0 => own'[j] = own[j] /\ at'[j] \in Uploading /\ up' = up
               /\ kind[j] = "note" => Receipt(j)'.sha = NoBytes
    <3>1. Receipt(j)'.sha = Receipt(j).sha /\ (j # k => at'[j] = at[j])
      BY DEF Commits, Elsewhere, Receipt
    <3> QED
      BY <1>3, <3>1 DEF InboxIInv, Commits, Kept, OwnsOne, Accepted
  <2> QED
    BY <2>1, FilesStay DEF Commits
<1>5. \A j \in Keys \ {k} : Good(j)'
  BY OthersStay DEF Commits
<1>6. Whole(disk, k)' /\ disk'.intake[k].sha = Receipt(k)'.sha
  BY DEF InboxIInv, Commits, Good, Whole, Lag
<1> QED
  BY <1>1, <1>2, <1>4, <1>5, <1>6

\* The asset is linked to the receipt.
LEMMA LinkKeeps ==
  ASSUME InboxIInv, NEW k \in Keys, Link(k)
  PROVE  InboxIInv'
<1> DEFINE r == [Receipt(k) EXCEPT !.asset = TRUE]
<1>1. Typed /\ Good(k) /\ Receipt(k) \in Intake /\ Receiving(k)
  BY DatabaseTypes DEF InboxIInv, Typed, Link, Transition, Receipt
<1>2. Rewrites(k, r)
  <2>1. r \in Intake
    BY <1>1 DEF Intake
  <2> QED
    BY <1>1, <2>1, CommitRewrites DEF Link, Transition, Commit
<1>3. /\ Receipt(k)' = r /\ r.asset /\ r.sha = Receipt(k).sha
      /\ r.state = "receiving" /\ r.project = Receipt(k).project
  BY <1>1, <1>2, DatabaseTypes DEF Rewrites, Receipt, Receiving, Intake, Typed
<1>4. Commits(k) /\ at[k] = "link" /\ at'[k] = "source"
  <2>1. Elsewhere(k)
    BY <1>1, <1>2, DatabaseTypes
       DEF Typed, Link, Goto, Transition, Commit, store, bounds, Elsewhere, Rewrites
  <2> QED
    BY <1>1, <1>2, <1>3, <2>1
       DEF Typed, Link, Goto, Transition, Commit, store, bounds, Commits, Rewrites,
           Places, StorageSteps, Uploading
<1>5. Whole(db, k)'
  BY <1>1, <1>2, <1>3, <1>4 DEF Whole, Good, Along, Rewrites, Commits, Receipt
<1>6. Lag(k)' /\ Along(k)' /\ Told(k)' /\ Listed(k)'
  BY <1>1, <1>2, <1>3, <1>4 DEF Good, Lag, Along, Told, Listed, Commits, Accepted, Receiving, Rewrites
<1> QED
  BY <1>4, <1>5, <1>6, CommitStays DEF InboxIInv, Good

\* The asset's row enters the catalog once its durable name is synced.
LEMMA CatalogKeeps ==
  ASSUME InboxIInv, NEW k \in Keys, Catalog(k)
  PROVE  InboxIInv'
<1> DEFINE c == Receipt(k).sha
<1>1. Typed /\ Good(k) /\ kind[k] = "file" /\ c \in Contents /\ blob[c] = "safe"
  BY DatabaseTypes DEF InboxIInv, Typed, Catalog, Good, Along, Receipt, Accepted
<1>2. /\ db' \in Database /\ db'.intake = db.intake
      /\ db'.assets = db.assets \cup {c} /\ db'.enriched = db.enriched
      /\ db'.sources = db.sources /\ db'.projects = db.projects
  BY <1>1 DEF Typed, Catalog, Commit, Database
<1>3. Commits(k) /\ at[k] = "catalog" /\ at'[k] \in {"link", "verify"}
  <2>1. Elsewhere(k)
    BY <1>2 DEF InboxIInv, Typed, Catalog, Goto, Commit, store, bounds, Elsewhere
  <2>2. PICK p \in {"link", "verify"} :
          /\ at' = [at EXCEPT ![k] = p]
          /\ own[k] # 0 => p \in Uploading
    BY DEF Catalog, Goto, Uploading
  <2>3. \A x \in db'.assets : x \in db.assets \/ blob[x] = "safe"
    BY <1>1, <1>2
  <2>4. at' \in [Keys -> Places]
    BY <1>1, <2>2 DEF Typed, Places, StorageSteps
  <2>5. own' = own /\ (own[k] # 0 => at'[k] \in Uploading)
    BY <1>1, <2>2 DEF Typed, Catalog
  <2> QED
    BY <1>1, <1>2, <2>1, <2>2, <2>3, <2>4, <2>5
       DEF Typed, Catalog, Commit, store, bounds, Commits, Receipt
<1>4. Receipt(k)' = Receipt(k) /\ Whole(db, k)'
  BY <1>1, <1>2, <1>3 DEF Good, Whole, Commits, Receipt
<1>5. Lag(k)' /\ Along(k)' /\ Told(k)' /\ Listed(k)'
  BY <1>1, <1>2, <1>3, <1>4 DEF Good, Lag, Along, Told, Listed, Commits, Accepted, Receiving
<1> QED
  BY <1>3, <1>4, <1>5, CommitStays DEF InboxIInv, Good

\* The source record is written under the reserved ID.
LEMMA SourceKeeps ==
  ASSUME InboxIInv, NEW k \in Keys, Source(k)
  PROVE  InboxIInv'
<1>1. Typed /\ Good(k) /\ Receipt(k).asset
  BY DEF InboxIInv, Source, Good, Along
<1>2. /\ db' \in Database /\ db'.intake = db.intake
      /\ db'.assets = db.assets /\ db'.enriched = db.enriched
      /\ db'.sources = db.sources \cup {k} /\ db'.projects = db.projects
  BY <1>1 DEF Typed, Source, Commit, Database
<1>3. Commits(k) /\ at[k] = "source" /\ at'[k] = "save"
  <2>1. Elsewhere(k)
    BY <1>2 DEF InboxIInv, Typed, Source, Goto, Commit, store, bounds, Elsewhere
  <2> QED
    BY <1>1, <1>2, <2>1
       DEF Typed, Source, Goto, Commit, store, bounds, Commits, Places, StorageSteps,
           Uploading, Receipt
<1>4. Receipt(k)' = Receipt(k) /\ Whole(db, k)'
  BY <1>1, <1>2, <1>3 DEF Good, Whole, Commits, Receipt
<1>5. Lag(k)' /\ Along(k)' /\ Told(k)' /\ Listed(k)'
  BY <1>1, <1>2, <1>3, <1>4 DEF Good, Lag, Along, Told, Listed, Commits, Accepted, Receiving
<1> QED
  BY <1>3, <1>4, <1>5, CommitStays DEF InboxIInv, Good

\* The canonical project is found or saved.
LEMMA SaveProjectKeeps ==
  ASSUME InboxIInv, NEW k \in Keys, SaveProject(k)
  PROVE  InboxIInv'
<1>1. Typed /\ Good(k) /\ (kind[k] = "file" => k \in db.sources)
  BY DEF InboxIInv, SaveProject, Good, Along
<1>2. /\ db' \in Database /\ db'.intake = db.intake
      /\ db'.assets = db.assets /\ db'.enriched = db.enriched
      /\ db'.sources = db.sources /\ db'.projects = db.projects \cup {k}
  BY <1>1 DEF Typed, SaveProject, Commit, Database
<1>3. Commits(k) /\ at[k] = "save" /\ at'[k] = "project"
  <2>1. Elsewhere(k)
    BY <1>2 DEF InboxIInv, Typed, SaveProject, Goto, Commit, store, bounds, Elsewhere
  <2> QED
    BY <1>1, <1>2, <2>1
       DEF Typed, SaveProject, Goto, Commit, store, bounds, Commits, Places, StorageSteps,
           Uploading, Receipt
<1>4. Receipt(k)' = Receipt(k) /\ Whole(db, k)'
  BY <1>1, <1>2, <1>3 DEF Good, Whole, Commits, Receipt
<1>5. Lag(k)' /\ Along(k)' /\ Told(k)' /\ Listed(k)'
  BY <1>1, <1>2, <1>3, <1>4 DEF Good, Lag, Along, Told, Listed, Commits, Accepted, Receiving
<1> QED
  BY <1>3, <1>4, <1>5, CommitStays DEF InboxIInv, Good

\* The project is linked to the receipt, unless it already is.
LEMMA LinkProjectKeeps ==
  ASSUME InboxIInv, NEW k \in Keys, LinkProject(k)
  PROVE  InboxIInv'
<1> DEFINE r == [Receipt(k) EXCEPT !.project = TRUE]
<1>1. /\ Typed /\ Good(k) /\ Receipt(k) \in Intake /\ k \in db.projects
      /\ at[k] = "project"
  BY DatabaseTypes DEF InboxIInv, Typed, LinkProject, Good, Along, Receipt
<1> PICK p \in {"probe", "prepared"} :
      /\ at' = [at EXCEPT ![k] = p]
      /\ p = "probe" <=> kind[k] = "file"
  BY DEF LinkProject, Goto
<1>2. /\ (\E q \in Places : at' = [at EXCEPT ![k] = q])
      /\ at'[k] = p /\ p \in Uploading
      /\ at' \in [Keys -> Places]
  BY <1>1 DEF Typed, Places, StorageSteps, Uploading
<1>3. CASE Receipt(k).project
  <2>1. Walks(k)
    BY <1>1, <1>2, <1>3 DEF LinkProject, store, bounds, Walks
  <2>2. Along(k)' /\ Told(k)' /\ Listed(k)'
    BY <1>1, <2>1 DEF Typed, Good, Along, Told, Listed, Walks, Receipt, Accepted
  <2> QED
    BY <2>1, <2>2, WalkStays DEF InboxIInv, Good
<1>4. CASE ~Receipt(k).project
  <2>1. Rewrites(k, r) /\ Receiving(k)
    <3>1. r \in Intake
      BY <1>1 DEF Intake
    <3> QED
      BY <1>1, <1>4, <3>1, CommitRewrites DEF LinkProject, Transition, Commit
  <2>2. /\ Receipt(k)' = r /\ r.asset = Receipt(k).asset /\ r.sha = Receipt(k).sha
        /\ r.state = "receiving"
    BY <1>1, <2>1, DatabaseTypes DEF Rewrites, Receipt, Receiving, Intake, Typed
  <2>3. Commits(k)
    <3>1. Elsewhere(k)
      BY <1>1, <1>4, <2>1, DatabaseTypes
         DEF Typed, LinkProject, Transition, Commit, store, bounds, Elsewhere, Rewrites
    <3> QED
      BY <1>1, <1>2, <1>4, <2>1, <2>2, <3>1
         DEF Typed, LinkProject, Transition, Commit, store, bounds, Commits, Rewrites
  <2>4. Whole(db, k)'
    BY <1>1, <2>1, <2>2, <2>3 DEF Whole, Good, Rewrites, Commits, Receipt
  <2>5. Lag(k)' /\ Along(k)' /\ Told(k)' /\ Listed(k)'
    BY <1>1, <2>1, <2>2, <2>3
       DEF Typed, Good, Lag, Along, Told, Listed, Commits, Accepted, Receiving, Rewrites
  <2> QED
    BY <2>3, <2>4, <2>5, CommitStays DEF InboxIInv, Good
<1> QED
  BY <1>3, <1>4

\* The probe enriches the asset, or leaves the intake partial.
LEMMA ProbeKeeps ==
  ASSUME InboxIInv, NEW k \in Keys, Probe(k)
  PROVE  InboxIInv'
<1> DEFINE c == Receipt(k).sha
<1>1. /\ Typed /\ Good(k) /\ kind[k] = "file" /\ k \in db.projects /\ at[k] = "probe"
      /\ c \in Contents
  BY DatabaseTypes DEF InboxIInv, Typed, Probe, Good, Along, Whole, Receipt
<1>2. CASE /\ \/ Goto(k, "prepared")
              \/ Goto(k, "partial")
           /\ Commit([db EXCEPT !.enriched = @ \cup {c}])
  <2>1. /\ db' \in Database /\ db'.intake = db.intake
        /\ db'.assets = db.assets /\ db'.enriched = db.enriched \cup {c}
        /\ db'.sources = db.sources /\ db'.projects = db.projects
    BY <1>1, <1>2 DEF Typed, Commit, Database
  <2>2. Commits(k) /\ at'[k] \in {"prepared", "partial"}
    <3>1. Elsewhere(k)
      BY <1>2, <2>1 DEF InboxIInv, Typed, Probe, Goto, Commit, store, bounds, Elsewhere
    <3> QED
      BY <1>1, <1>2, <2>1, <3>1
         DEF Typed, Probe, Goto, Commit, store, bounds, Commits, Places, StorageSteps,
             Uploading, Receipt
  <2>3. Receipt(k)' = Receipt(k) /\ Whole(db, k)'
    BY <1>1, <2>1, <2>2 DEF Good, Whole, Commits, Receipt
  <2>4. Lag(k)' /\ Along(k)' /\ Told(k)' /\ Listed(k)'
    BY <1>1, <2>1, <2>2, <2>3 DEF Good, Lag, Along, Told, Listed, Commits, Accepted, Receiving
  <2> QED
    BY <2>2, <2>3, <2>4, CommitStays DEF InboxIInv, Good
<1>3. CASE Goto(k, "partial") /\ UNCHANGED <<db, disk>>
  <2>1. Walks(k) /\ at'[k] = "partial"
    BY <1>1, <1>3
       DEF Typed, Probe, Goto, store, bounds, Walks, Places, StorageSteps, Uploading
  <2>2. Along(k)' /\ Told(k)' /\ Listed(k)'
    BY <1>1, <2>1 DEF Typed, Good, Along, Told, Listed, Walks, Receipt, Accepted
  <2> QED
    BY <2>1, <2>2, WalkStays DEF InboxIInv, Good
<1> QED
  BY <1>2, <1>3 DEF Probe

\* The receipt takes its final state.
LEMMA SettleKeeps ==
  ASSUME InboxIInv, NEW k \in Keys, Settle(k)
  PROVE  InboxIInv'
<1> DEFINE r == [Receipt(k) EXCEPT !.state = at[k]]
<1>1. /\ Typed /\ Good(k) /\ Receipt(k) \in Intake /\ Receiving(k)
      /\ k \in db.projects /\ at[k] \in {"prepared", "partial"}
  BY DatabaseTypes DEF InboxIInv, Typed, Settle, Transition, Receipt, Good, Along
<1>2. Rewrites(k, r)
  <2>1. r \in Intake
    BY <1>1 DEF Intake
  <2> QED
    BY <1>1, <2>1, CommitRewrites DEF Settle, Transition, Commit
<1>3. /\ Receipt(k)' = r /\ r.asset = Receipt(k).asset /\ r.sha = Receipt(k).sha
      /\ r.state = at[k] /\ r.project = Receipt(k).project
  BY <1>1, <1>2, DatabaseTypes DEF Rewrites, Receipt, Intake, Typed
<1>4. Commits(k) /\ at'[k] = "done"
  <2>1. Elsewhere(k)
    BY <1>1, <1>2, DatabaseTypes
       DEF Typed, Settle, Goto, Transition, Commit, store, bounds, Elsewhere, Rewrites
  <2> QED
    BY <1>1, <1>2, <1>3, <2>1
       DEF Typed, Settle, Goto, Transition, Commit, store, bounds, Commits, Rewrites,
           Places, StorageSteps, Uploading
<1>5. Whole(db, k)'
  BY <1>1, <1>2, <1>3, <1>4 DEF Whole, Good, Along, Rewrites, Commits, Receipt
<1>6. Lag(k)' /\ Along(k)' /\ Told(k)' /\ Listed(k)'
  BY <1>1, <1>2, <1>3, <1>4
     DEF Good, Lag, Along, Told, Listed, Commits, Accepted, Receiving, Rewrites
<1> QED
  BY <1>4, <1>5, <1>6, CommitStays DEF InboxIInv, Good

\* A transition to failed writes only the state of the receipt.
LEMMA FailingRewrites ==
  ASSUME Typed, NEW k \in Keys, Transition(k, [Receipt(k) EXCEPT !.state = "failed"])
  PROVE  /\ Rewrites(k, [Receipt(k) EXCEPT !.state = "failed"])
         /\ Receipt(k)'.asset = Receipt(k).asset /\ Receipt(k)'.sha = Receipt(k).sha
         /\ Receipt(k)'.state = "failed" /\ Receipt(k)'.project = Receipt(k).project
         /\ Receiving(k) /\ disk' = disk
<1>1. Receipt(k) \in Intake
  BY DatabaseTypes DEF Typed, Receipt
<1>2. [Receipt(k) EXCEPT !.state = "failed"] \in Intake
  BY <1>1 DEF Intake
<1>3. Rewrites(k, [Receipt(k) EXCEPT !.state = "failed"])
  BY <1>2, CommitRewrites DEF Transition, Commit
<1>4. Receipt(k)' = [Receipt(k) EXCEPT !.state = "failed"]
  BY <1>3, DatabaseTypes DEF Typed, Rewrites, Receipt
<1> QED
  BY <1>1, <1>3, <1>4 DEF Intake, Transition, Commit

\* Reconciliation refuses a receipt it can neither recover nor keep.
LEMMA BootFailsKeeps ==
  ASSUME InboxIInv, NEW k \in Keys, BootFails(k)
  PROVE  InboxIInv'
<1> DEFINE r == [Receipt(k) EXCEPT !.state = "failed"]
<1>1. /\ Typed /\ Good(k) /\ at'[k] = "purge" /\ up = "boot" /\ at[k] # "idle"
      /\ at' \in [Keys -> Places]
      /\ \/ at[k] \in {"lost", "refused"}
         \/ at[k] = "failing" /\ ~Accepted(k)
  BY DEF InboxIInv, Typed, BootFails, Goto, Places
<1>2. /\ Rewrites(k, r)
      /\ Receipt(k)'.asset = Receipt(k).asset /\ Receipt(k)'.sha = Receipt(k).sha
      /\ Receipt(k)'.state = "failed" /\ Receipt(k)'.project = Receipt(k).project
      /\ Receiving(k) /\ disk' = disk
  BY <1>1, FailingRewrites DEF BootFails
<1>3. own[k] = 0
  BY <1>1 DEF InboxIInv, Kept, OwnsOne
<1>4. Commits(k)
  <2>1. Elsewhere(k)
    BY <1>1, <1>2, DatabaseTypes
       DEF Typed, BootFails, Goto, store, bounds, Elsewhere, Rewrites
  <2> QED
    BY <1>1, <1>2, <1>3, <2>1
       DEF Typed, BootFails, store, bounds, Commits, Rewrites
<1>5. Whole(db, k)'
  BY <1>1, <1>2, <1>4 DEF Whole, Good, Rewrites, Commits, Receipt
<1>6. told[k] = NoBytes
  BY <1>1 DEF Good, Told, Accepted
<1>7. Lag(k)' /\ Along(k)' /\ Told(k)' /\ Listed(k)'
  BY <1>1, <1>2, <1>4, <1>6 DEF Good, Lag, Along, Told, Listed, Commits, Rewrites
<1> QED
  BY <1>4, <1>5, <1>7, CommitStays DEF InboxIInv, Good

\* A refused resume ends failed only once its project is linked.
LEMMA RefuseKeeps ==
  ASSUME InboxIInv, NEW k \in Keys, Refuse(k)
  PROVE  InboxIInv'
<1>1. /\ Typed /\ Good(k) /\ at[k] = "refused" /\ at'[k] = "idle" /\ up = "up"
      /\ at' = [at EXCEPT ![k] = "idle"] /\ own' = [own EXCEPT ![k] = 0]
      /\ at' \in [Keys -> Places] /\ told[k] = NoBytes /\ k \notin todo
  BY DEF InboxIInv, Typed, Refuse, Goto, Leave, Places, Good, Told, Listed
<1>2. CASE Receipt(k).project
  <2> DEFINE r == [Receipt(k) EXCEPT !.state = "failed"]
  <2>1. /\ Rewrites(k, r)
        /\ Receipt(k)'.asset = Receipt(k).asset /\ Receipt(k)'.sha = Receipt(k).sha
        /\ Receipt(k)'.state = "failed" /\ Receipt(k)'.project = Receipt(k).project
        /\ Receiving(k) /\ disk' = disk
    BY <1>1, <1>2, FailingRewrites DEF Refuse
  <2>2. Commits(k)
    <3>1. Elsewhere(k)
      BY <1>1, <2>1, DatabaseTypes
         DEF Typed, Refuse, store, bounds, Elsewhere, Rewrites
    <3> QED
      BY <1>1, <2>1, <3>1 DEF Typed, Refuse, store, bounds, Commits, Rewrites
  <2>3. Whole(db, k)'
    BY <1>1, <2>1, <2>2 DEF Whole, Good, Rewrites, Commits, Receipt
  <2>4. Lag(k)' /\ Along(k)' /\ Told(k)' /\ Listed(k)'
    BY <1>1, <2>1, <2>2 DEF Good, Lag, Along, Told, Listed, Commits, Rewrites
  <2> QED
    BY <2>2, <2>3, <2>4, CommitStays DEF InboxIInv, Good
<1>3. CASE ~Receipt(k).project
  <2>1. Walks(k)
    BY <1>1, <1>3 DEF Refuse, store, bounds, Walks, Places
  <2>2. Along(k)' /\ Told(k)' /\ Listed(k)'
    BY <1>1, <2>1 DEF Good, Along, Told, Listed, Walks
  <2> QED
    BY <2>1, <2>2, WalkStays DEF InboxIInv, Good
<1> QED
  BY <1>2, <1>3

\* An intake nothing was accepted for owns no rows but a note's project.
LEMMA NothingAccepted ==
  ASSUME InboxIInv, NEW k \in Keys, ~Accepted(k)
  PROVE  /\ ~Receipt(k).asset /\ told[k] = NoBytes
         /\ kind[k] = "file" => k \notin db.sources /\ k \notin db.projects
<1>1. db.assets \subseteq Contents
  BY DatabaseTypes DEF InboxIInv, Typed
<1> QED
  BY <1>1, NoContent DEF InboxIInv, Good, Whole, Told, Receipt, Accepted

\* create_intake, and the start of the upload or the capture.
LEMMA BeginKeeps ==
  ASSUME InboxIInv, NEW k \in Keys, NEW c \in Contents, Begin(k, c)
  PROVE  InboxIInv'
<1> DEFINE r == [Blank EXCEPT !.state = "receiving"]
<1>1. /\ Typed /\ Good(k) /\ at[k] = "idle" /\ up = "up" /\ own[k] = 0
      /\ k \notin todo
  BY DEF InboxIInv, Begin, Idle, Good, Kept, OwnsOne, Uploading, Listed
<1>2. ~Accepted(k)
  BY <1>1 DEF Begin, Good, Whole, Receipt, Accepted, Revivable
<1>3. /\ ~Receipt(k).asset /\ told[k] = NoBytes
      /\ kind[k] = "file" => k \notin db.sources /\ k \notin db.projects
  BY <1>2, NothingAccepted
<1>4. PICK p \in {"open", "save"} :
        /\ at' = [at EXCEPT ![k] = p]
        /\ p = "open" <=> kind[k] = "file"
        /\ p = "open" => bytes' = [bytes EXCEPT ![k] = c]
        /\ p = "save" => bytes' = bytes
  BY DEF Begin, Goto
<1>5. /\ at' \in [Keys -> Places] /\ at'[k] = p
      /\ bytes' \in [Keys -> Contents \cup {NoBytes}]
      /\ p = "open" => bytes'[k] = c
      /\ \A j \in Keys \ {k} : at'[j] = at[j] /\ bytes'[j] = bytes[j]
  BY <1>1, <1>4 DEF Typed, Places, StorageSteps
<1>6. /\ db' \in Database /\ disk' = disk
      /\ db'.assets = db.assets /\ db'.enriched = db.enriched
      /\ db'.sources = db.sources /\ db'.projects = db.projects
      /\ \A j \in Keys \ {k} : db'.intake[j] = db.intake[j]
      /\ Receipt(k)'.sha = NoBytes /\ Receipt(k).sha = NoBytes
      /\ Receipt(k)'.asset => Receipt(k).asset
      /\ Receipt(k)'.project => Receipt(k).project
      /\ Receipt(k)'.state = "receiving"
  <2>1. CASE Receiving(k)
    BY <1>1, <1>2, <2>1 DEF Begin, Typed, Receiving, Accepted, Receipt
  <2>2. CASE ~Receiving(k)
    <3>1. r \in Intake /\ r.sha = NoBytes /\ r.asset = FALSE /\ r.project = FALSE
          /\ r.state = "receiving"
      BY DEF Blank, Intake
    <3>2. Rewrites(k, r) /\ disk' = disk
      BY <1>1, <2>2, <3>1, CommitRewrites DEF Begin, Commit
    <3>3. Receipt(k)' = r /\ \A j \in Keys \ {k} : db'.intake[j] = db.intake[j]
      BY <1>1, <3>2, DatabaseTypes DEF Typed, Rewrites, Receipt
    <3> QED
      BY <1>2, <1>3, <3>1, <3>2, <3>3 DEF Rewrites, Accepted
  <2> QED
    BY <2>1, <2>2
<1>7. Commits(k)
  <2>1. Elsewhere(k)
    BY <1>5, <1>6 DEF Begin, store, bounds, Elsewhere
  <2> QED
    BY <1>1, <1>5, <1>6, <2>1 DEF Begin, store, bounds, Commits
<1>8. Whole(db, k)'
  BY <1>1, <1>3, <1>6, <1>7 DEF Whole, Good, Commits, Receipt
<1>9. Lag(k)' /\ Along(k)' /\ Told(k)' /\ Listed(k)'
  BY <1>1, <1>3, <1>4, <1>5, <1>6, <1>7
     DEF Good, Lag, Along, Told, Listed, Commits, Accepted
<1> QED
  BY <1>7, <1>8, <1>9, CommitStays DEF InboxIInv, Good

----------------------------------------------------------------------------
(* Steps on the canonical blob *)

\* Only the canonical names change, and no durable one is lost.
Publishes(k) ==
  /\ UNCHANGED <<kind, db, disk, staging, up, todo, bytes, own, told>>
  /\ blob' \in [Contents -> {"none", "named", "safe"}]
  /\ \A c \in Contents : blob[c] = "safe" => blob'[c] = "safe"
  /\ at' \in [Keys -> Places]
  /\ \A j \in Keys \ {k} : at'[j] = at[j]
  /\ own[k] # 0 => at'[k] \in Uploading

\* Such a step keeps everything but what k's new place says.
LEMMA PublishStays ==
  ASSUME InboxIInv, NEW k \in Keys, Publishes(k)
  PROVE  /\ Typed' /\ CatalogIsBacked'
         /\ \A j \in Keys : Kept(j)'
         /\ \A j \in Keys \ {k} : Good(j)'
         /\ Whole(db, k)' /\ Whole(disk, k)' /\ Lag(k)'
         /\ Receipt(k)' = Receipt(k)
<1>1. Typed'
  BY DEF InboxIInv, Typed, Publishes
<1>2. CatalogIsBacked'
  BY DatabaseTypes DEF InboxIInv, Typed, CatalogIsBacked, Publishes
<1>3. \A j \in Keys : Kept(j)'
  <2>1. ASSUME NEW j \in Keys
        PROVE  /\ own'[j] # 0 => own'[j] = own[j] /\ at'[j] \in Uploading /\ up' = up
               /\ kind[j] = "note" => Receipt(j)'.sha = NoBytes
    BY DEF InboxIInv, Publishes, Kept, OwnsOne, Receipt, Accepted
  <2> QED
    BY <2>1, FilesStay DEF Publishes
<1>4. \A j \in Keys \ {k} : Good(j)'
  <2>1. Elsewhere(k)
    BY DEF Publishes, Elsewhere
  <2> QED
    BY <2>1, OthersStay
<1>5. Whole(db, k)' /\ Whole(disk, k)' /\ Lag(k)' /\ Receipt(k)' = Receipt(k)
  BY DEF InboxIInv, Publishes, Good, Whole, Lag, Receipt, Accepted
<1> QED
  BY <1>1, <1>2, <1>3, <1>4, <1>5

\* The blob is named, or verified and reused.
LEMMA PublishKeeps ==
  ASSUME InboxIInv, NEW k \in Keys, Publish(k)
  PROVE  InboxIInv'
<1>1. /\ Typed /\ Good(k) /\ at[k] = "publish" /\ at'[k] = "sync"
      /\ kind[k] = "file" /\ Accepted(k) /\ Receipt(k).sha \in Contents
  BY DatabaseTypes DEF InboxIInv, Typed, Publish, Goto, Good, Along, Accepted, Receipt
<1>2. /\ blob' \in [Contents -> {"none", "named", "safe"}]
      /\ \A c \in Contents : blob[c] = "safe" => blob'[c] = "safe"
  BY <1>1 DEF Typed, Publish
<1>3. Publishes(k)
  BY <1>1, <1>2
     DEF Publish, Typed, Goto, store, bounds, Publishes, Places, StorageSteps, Uploading
<1>4. told[k] \in Contents \cup {NoBytes}
  BY <1>1 DEF Typed
<1>5. Along(k)' /\ Told(k)' /\ Listed(k)'
  BY <1>1, <1>3, <1>4, PublishStays
     DEF Good, Along, Told, Listed, Publishes, Accepted
<1> QED
  BY <1>3, <1>5, PublishStays DEF InboxIInv, Good

\* The directory of the blob is synced.
LEMMA SyncKeeps ==
  ASSUME InboxIInv, NEW k \in Keys, Sync(k)
  PROVE  InboxIInv'
<1>1. /\ Typed /\ Good(k) /\ at[k] = "sync" /\ at'[k] = "catalog"
      /\ kind[k] = "file" /\ Accepted(k) /\ Receipt(k).sha \in Contents
  BY DatabaseTypes DEF InboxIInv, Typed, Sync, Goto, Good, Along, Accepted, Receipt
<1>2. /\ blob' \in [Contents -> {"none", "named", "safe"}]
      /\ blob'[Receipt(k).sha] = "safe"
      /\ \A c \in Contents : blob[c] = "safe" => blob'[c] = "safe"
  BY <1>1 DEF Typed, Sync
<1>3. Publishes(k)
  BY <1>1, <1>2
     DEF Sync, Typed, Goto, store, bounds, Publishes, Places, StorageSteps, Uploading
<1>4. told[k] \in Contents \cup {NoBytes}
  BY <1>1 DEF Typed
<1>5. Along(k)' /\ Told(k)' /\ Listed(k)'
  BY <1>1, <1>2, <1>3, <1>4, PublishStays
     DEF Good, Along, Told, Listed, Publishes, Accepted
<1> QED
  BY <1>3, <1>5, PublishStays DEF InboxIInv, Good

\* The bytes of a catalogued asset are verified.
LEMMA VerifyKeeps ==
  ASSUME InboxIInv, NEW k \in Keys, Verify(k)
  PROVE  InboxIInv'
<1>1. /\ Typed /\ Good(k) /\ at[k] = "verify" /\ own[k] = 0
      /\ kind[k] = "file" /\ Accepted(k) /\ Receipt(k).sha \in Contents
      /\ Receipt(k).sha \in db.assets /\ blob[Receipt(k).sha] = "safe"
  BY DatabaseTypes
     DEF InboxIInv, Typed, Verify, Good, Along, Accepted, Receipt, Kept, OwnsOne,
         Uploading, CatalogIsBacked
<1>2. /\ at' = [at EXCEPT ![k] = "discard"] /\ at'[k] = "discard"
      /\ blob' = [blob EXCEPT ![Receipt(k).sha] = "safe"]
  BY <1>1 DEF Typed, Verify, Goto
<1>3. /\ blob' \in [Contents -> {"none", "named", "safe"}]
      /\ \A c \in Contents : blob[c] = "safe" => blob'[c] = "safe"
  BY <1>1, <1>2 DEF Typed
<1>4. Publishes(k)
  BY <1>1, <1>2, <1>3
     DEF Verify, Typed, store, bounds, Publishes, Places, StorageSteps
<1>5. told[k] \in Contents \cup {NoBytes}
  BY <1>1 DEF Typed
<1>6. Along(k)' /\ Told(k)' /\ Listed(k)'
  BY <1>1, <1>2, <1>4, <1>5, PublishStays
     DEF Good, Along, Told, Listed, Publishes, Accepted
<1> QED
  BY <1>4, <1>6, PublishStays DEF InboxIInv, Good

----------------------------------------------------------------------------
(* Acceptance and acknowledgement *)

\* A finished receipt names its asset's durable bytes.
LEMMA FinishedIsDurable ==
  ASSUME InboxIInv, NEW k \in Keys, Receipt(k).state \in {"prepared", "partial"},
         Accepted(k)
  PROVE  /\ blob[Receipt(k).sha] = "safe" /\ disk.intake[k].state # "failed"
         /\ disk.intake[k].sha = Receipt(k).sha
<1>1. kind[k] = "file"
  BY DEF InboxIInv, Typed, Kept
<1>2. Receipt(k).sha \in db.assets
  BY <1>1 DEF InboxIInv, Good, Whole, Receipt
<1> QED
  BY <1>2 DEF InboxIInv, CatalogIsBacked, Good, Lag

\* A finished receipt answers the same bytes again.
LEMMA ReplayKeeps ==
  ASSUME InboxIInv, NEW k \in Keys, NEW c \in Contents, Replay(k, c)
  PROVE  InboxIInv'
<1>1. /\ Typed /\ Good(k) /\ at[k] = "idle"
      /\ Receipt(k).state \in {"prepared", "partial"}
      /\ Receipt(k).sha \in Contents \cup {NoBytes}
  BY DatabaseTypes DEF InboxIInv, Typed, Replay, Idle, Receipt
<1>2. /\ UNCHANGED <<kind, db, disk, staging, blob, up, todo, at, bytes, own>>
      /\ told' = [told EXCEPT ![k] = Receipt(k).sha]
      /\ told' \in [Keys -> Contents \cup {NoBytes}] /\ told'[k] = Receipt(k).sha
  BY <1>1 DEF Replay, store, Typed
<1>3. Typed' /\ CatalogIsBacked'
  BY <1>2 DEF InboxIInv, Typed, CatalogIsBacked
<1>4. \A j \in Keys : Kept(j)'
  BY <1>2 DEF InboxIInv, Kept, OwnsOne, OwnFile, Candidates, Accepted, Receipt
<1>5. \A j \in Keys \ {k} : Good(j)'
  <2>1. Elsewhere(k)
    BY <1>1, <1>2 DEF Typed, Elsewhere
  <2> QED
    BY <2>1, OthersStay
<1>6. Receipt(k)' = Receipt(k) /\ Whole(db, k)' /\ Whole(disk, k)' /\ Lag(k)'
      /\ Along(k)' /\ Listed(k)'
  BY <1>1, <1>2 DEF Good, Whole, Lag, Along, Listed, Receipt, Accepted, Receiving
<1>7. Told(k)'
  BY <1>1, <1>2, <1>6, FinishedIsDurable DEF Told, Accepted
<1> QED
  BY <1>3, <1>4, <1>5, <1>6, <1>7 DEF InboxIInv, Good

\* The acceptance receipt commits, with the disk.
LEMMA AcceptKeeps ==
  ASSUME InboxIInv, NEW k \in Keys, Accept(k)
  PROVE  InboxIInv'
<1> DEFINE r == [Receipt(k) EXCEPT !.sha = bytes[k]]
<1>1. /\ Typed /\ Good(k) /\ at[k] = "accept" /\ at'[k] = "publish"
      /\ kind[k] = "file" /\ ~Accepted(k) /\ bytes[k] \in Contents
      /\ Receipt(k) \in Intake /\ Receiving(k) /\ k \notin todo
      /\ at' \in [Keys -> Places] /\ bytes' \in [Keys -> Contents \cup {NoBytes}]
  BY DatabaseTypes
     DEF InboxIInv, Typed, Accept, Goto, Good, Along, Receipt, Places, StorageSteps, Listed
<1>2. ~Receipt(k).asset /\ told[k] = NoBytes /\ k \notin db.sources /\ k \notin db.projects
  BY <1>1, NothingAccepted
<1>3. Rewrites(k, r) /\ disk' = db'
  <2>1. r \in Intake
    BY <1>1 DEF Intake
  <2>2. [db EXCEPT !.intake[k].sha = bytes[k]] = [db EXCEPT !.intake[k] = r]
    BY <1>1 DEF Typed, Database, Receipt
  <2> QED
    BY <1>1, <2>1, <2>2, CommitRewrites DEF Accept, CommitFull
<1>4. /\ Receipt(k)' = r /\ r.asset = Receipt(k).asset /\ r.sha = bytes[k]
      /\ r.state = "receiving" /\ r.project = Receipt(k).project
  BY <1>1, <1>3, DatabaseTypes DEF Rewrites, Receipt, Receiving, Intake, Typed
<1>5. Elsewhere(k)
  BY <1>1, <1>3, DatabaseTypes
     DEF Typed, Accept, Goto, store, bounds, Elsewhere, Rewrites
<1>6. UNCHANGED <<kind, staging, blob, up, todo, own, told>>
  BY DEF Accept, store
<1>7. Typed' /\ CatalogIsBacked'
  BY <1>1, <1>3, <1>6 DEF InboxIInv, Typed, CatalogIsBacked, Rewrites
<1>8. \A j \in Keys : Kept(j)'
  <2>1. ASSUME NEW j \in Keys
        PROVE  /\ own'[j] # 0 => own'[j] = own[j] /\ at'[j] \in Uploading /\ up' = up
               /\ kind[j] = "note" => Receipt(j)'.sha = NoBytes
    BY <1>1, <1>5, <1>6
       DEF InboxIInv, Elsewhere, Kept, OwnsOne, Receipt, Accepted, Uploading
  <2> QED
    BY <1>6, <2>1, FilesStay
<1>9. Whole(db, k)'
  BY <1>1, <1>2, <1>3, <1>4, <1>6 DEF Whole, Good, Rewrites, Receipt
<1>10. Lag(k)' /\ Along(k)' /\ Told(k)' /\ Listed(k)' /\ Whole(disk, k)'
  BY <1>1, <1>2, <1>3, <1>4, <1>6, <1>9, NoContent
     DEF Good, Lag, Along, Told, Listed, Accepted, Whole, Receipt
<1>11. \A j \in Keys \ {k} : Good(j)'
  BY <1>5, OthersStay
<1> QED
  BY <1>7, <1>8, <1>9, <1>10, <1>11 DEF InboxIInv, Good

----------------------------------------------------------------------------
(* Steps on the staging files *)

\* Some names of k's staging files are unlinked, or none is.
Unlinks(k) ==
  \/ staging' = staging
  \/ \E gone \in SUBSET staging[k] :
       staging' = [staging EXCEPT ![k] = Unlink(@, gone)]

\* What is left after unlinking are staging files that still exist somewhere.
LEMMA UnlinkLeaves ==
  ASSUME NEW fs \in SUBSET StagingFile, NEW gone \in SUBSET fs,
         \A f \in fs : f.live \/ f.safe
  PROVE  /\ Unlink(fs, gone) \subseteq StagingFile
         /\ \A f \in Unlink(fs, gone) : f.live \/ f.safe
         /\ fs = {} => Unlink(fs, gone) = {}
<1>1. ASSUME NEW g \in fs, g.safe
      PROVE  /\ [g EXCEPT !.live = FALSE] \in StagingFile
             /\ [g EXCEPT !.live = FALSE].safe
  BY <1>1 DEF StagingFile
<1> QED
  BY <1>1 DEF Unlink

\* Unlinking keeps what holds of the files, once k's request owns none.
LEMMA UnlinkKeeps ==
  ASSUME InboxIInv, NEW k \in Keys, Unlinks(k), kind' = kind, up' = up, own'[k] = 0,
         \A j \in Keys \ {k} : own'[j] = own[j] /\ at'[j] = at[j],
         \A j \in Keys : Receipt(j)'.sha = Receipt(j).sha
  PROVE  staging' \in [Keys -> SUBSET StagingFile] /\ \A j \in Keys : Kept(j)'
<1>1. staging \in [Keys -> SUBSET StagingFile] /\ \A j \in Keys : Kept(j)
  BY DEF InboxIInv, Typed
<1>2. \/ staging' = staging
      \/ \E fs \in SUBSET StagingFile :
           /\ staging' = [staging EXCEPT ![k] = fs]
           /\ \A f \in fs : f.live \/ f.safe
           /\ staging[k] = {} => fs = {}
  BY <1>1, UnlinkLeaves DEF Unlinks, Kept
<1>3. staging' \in [Keys -> SUBSET StagingFile]
  BY <1>1, <1>2
<1>4. \A j \in Keys \ {k} : staging'[j] = staging[j]
  BY <1>1, <1>2
<1>5. ASSUME NEW j \in Keys \ {k}
      PROVE  Kept(j)'
  BY <1>1, <1>4 DEF Kept, OwnsOne, OwnFile, Candidates, Accepted
<1>6. Kept(k)'
  BY <1>1, <1>2 DEF Kept, OwnsOne, Accepted
<1> QED
  BY <1>3, <1>5, <1>6

\* A best effort unlinks or does not.
LEMMA BestEffortUnlinks ==
  ASSUME NEW k \in Keys, NEW gone \in SUBSET staging[k], BestEffort(k, gone)
  PROVE  Unlinks(k)
  BY DEF BestEffort, Unlinks

\* k's request lets go of its files, and no database or blob is written.
Discards(k) ==
  /\ UNCHANGED <<kind, db, disk, blob, up, todo>>
  /\ Unlinks(k)
  /\ own' = [own EXCEPT ![k] = 0]
  /\ at' \in [Keys -> Places]
  /\ bytes' \in [Keys -> Contents \cup {NoBytes}]
  /\ told' \in [Keys -> Contents \cup {NoBytes}]
  /\ \A j \in Keys \ {k} : at'[j] = at[j] /\ bytes'[j] = bytes[j] /\ told'[j] = told[j]

\* Such a step keeps everything but what k's new place and answer say.
LEMMA DiscardStays ==
  ASSUME InboxIInv, NEW k \in Keys, Discards(k)
  PROVE  /\ Typed' /\ CatalogIsBacked'
         /\ \A j \in Keys : Kept(j)'
         /\ \A j \in Keys \ {k} : Good(j)'
         /\ Whole(db, k)' /\ Whole(disk, k)' /\ Lag(k)'
         /\ Receipt(k)' = Receipt(k)
<1>1. staging' \in [Keys -> SUBSET StagingFile] /\ \A j \in Keys : Kept(j)'
  <2>1. \A j \in Keys : Receipt(j)'.sha = Receipt(j).sha
    BY DEF Discards, Receipt
  <2>2. own'[k] = 0 /\ \A j \in Keys \ {k} : own'[j] = own[j] /\ at'[j] = at[j]
    BY DEF InboxIInv, Typed, Discards
  <2> QED
    BY <2>1, <2>2, UnlinkKeeps DEF Discards
<1>2. Typed'
  <2>1. own' \in [Keys -> 0..MaxStaged]
    BY BoundsAssumption DEF InboxIInv, Typed, Discards
  <2> QED
    BY <1>1, <2>1 DEF InboxIInv, Typed, Discards
<1>3. CatalogIsBacked'
  BY DEF InboxIInv, CatalogIsBacked, Discards
<1>4. \A j \in Keys \ {k} : Good(j)'
  <2>1. Elsewhere(k)
    BY DEF Discards, Elsewhere
  <2> QED
    BY <2>1, OthersStay
<1>5. Whole(db, k)' /\ Whole(disk, k)' /\ Lag(k)' /\ Receipt(k)' = Receipt(k)
  BY DEF InboxIInv, Discards, Good, Whole, Lag, Receipt, Accepted
<1> QED
  BY <1>1, <1>2, <1>3, <1>4, <1>5

\* The staging files go: the canonical blob is authoritative now.
LEMMA DiscardKeeps ==
  ASSUME InboxIInv, NEW k \in Keys, Discard(k)
  PROVE  InboxIInv'
<1>1. /\ Typed /\ Good(k) /\ at[k] = "discard" /\ own[k] = 0
      /\ own = [own EXCEPT ![k] = 0] /\ Candidates(k) \subseteq staging[k]
  BY DEF InboxIInv, Typed, Discard, Kept, OwnsOne, Uploading, Candidates
<1>2. PICK p \in {"source", "link"} :
        /\ at' = [at EXCEPT ![k] = p]
        /\ p = "source" <=> Receipt(k).asset
  BY DEF Discard, Goto
<1>3. at' \in [Keys -> Places] /\ at'[k] = p
  BY <1>1, <1>2 DEF Typed, Places, StorageSteps
<1>4. Discards(k)
  BY <1>1, <1>2, <1>3, BestEffortUnlinks DEF Typed, Discard, Discards
<1>5. /\ UNCHANGED <<kind, db, disk, blob, up, todo, told>>
      /\ Receipt(k)' = Receipt(k)
  BY <1>4, DiscardStays DEF Discard
<1>6. Along(k)'
  BY <1>1, <1>2, <1>3, <1>5 DEF Good, Along, Accepted
<1>7. Told(k)' /\ Listed(k)'
  BY <1>1, <1>2, <1>3, <1>5 DEF Good, Told, Listed
<1> QED
  BY <1>4, <1>6, <1>7, DiscardStays DEF InboxIInv, Good

\* The refused receipt's staging files go.
LEMMA PurgeKeeps ==
  ASSUME InboxIInv, NEW k \in Keys, Purge(k)
  PROVE  InboxIInv'
<1>1. /\ Typed /\ Good(k) /\ at[k] = "purge" /\ Candidates(k) \subseteq staging[k]
      /\ at' = [at EXCEPT ![k] = "idle"] /\ at'[k] = "idle"
      /\ at' \in [Keys -> Places]
  BY DEF InboxIInv, Typed, Purge, Leave, Goto, Candidates, Places
<1>2. Discards(k)
  BY <1>1, BestEffortUnlinks DEF Typed, Purge, Leave, Discards
<1>3. Along(k)' /\ Told(k)' /\ Listed(k)'
  BY <1>1, <1>2, DiscardStays DEF Purge, Good, Along, Told, Listed, Discards, Accepted
<1> QED
  BY <1>2, <1>3, DiscardStays DEF InboxIInv, Good

\* The client is answered, and the request's own staging file goes.
LEMMA FinishKeeps ==
  ASSUME InboxIInv, NEW k \in Keys, Finish(k)
  PROVE  InboxIInv'
<1>1. /\ Typed /\ Good(k) /\ at[k] = "done" /\ OwnFile(k) \subseteq staging[k]
      /\ at' = [at EXCEPT ![k] = "idle"] /\ at'[k] = "idle"
      /\ at' \in [Keys -> Places] /\ Receipt(k).state \in {"prepared", "partial"}
      /\ Receipt(k).sha \in Contents \cup {NoBytes}
  BY DatabaseTypes
     DEF InboxIInv, Typed, Finish, Leave, Goto, OwnFile, Candidates, Places, Good, Along, Receipt
<1>2. /\ told'[k] \in {told[k], Receipt(k).sha}
      /\ told' \in [Keys -> Contents \cup {NoBytes}]
      /\ \A j \in Keys \ {k} : at'[j] = at[j] /\ told'[j] = told[j]
  BY <1>1 DEF Typed, Finish
<1>3. Discards(k)
  BY <1>1, <1>2, BestEffortUnlinks DEF Typed, Finish, Leave, Discards
<1>4. Along(k)' /\ Listed(k)'
  BY <1>1, <1>3, DiscardStays DEF Good, Along, Listed, Discards, Accepted
<1>5. Told(k)'
  BY <1>1, <1>2, <1>3, FinishedIsDurable, DiscardStays DEF Good, Told, Discards, Accepted
<1> QED
  BY <1>3, <1>4, <1>5, DiscardStays DEF InboxIInv, Good

\* A failed request: what was accepted, and a note, stays receiving.
LEMMA ClassifyKeeps ==
  ASSUME InboxIInv, NEW k \in Keys, Classify(k)
  PROVE  InboxIInv'
<1>1. /\ Typed /\ Good(k) /\ at[k] = "failing" /\ up = "up" /\ k \notin todo
      /\ OwnFile(k) \subseteq staging[k] /\ {} \subseteq staging[k]
      /\ at' = [at EXCEPT ![k] = "idle"] /\ at'[k] = "idle"
      /\ own' = [own EXCEPT ![k] = 0] /\ own'[k] = 0
      /\ at' \in [Keys -> Places]
      /\ own' \in [Keys -> 0..MaxStaged]
      /\ bytes' \in [Keys -> Contents \cup {NoBytes}]
      /\ \A j \in Keys \ {k} : at'[j] = at[j] /\ bytes'[j] = bytes[j] /\ own'[j] = own[j]
  BY BoundsAssumption
     DEF InboxIInv, Typed, Classify, Leave, Goto, OwnFile, Candidates, Places, Good, Listed
<1>2. UNCHANGED <<kind, blob, up, todo, told>>
  BY DEF Classify
<1>3. Unlinks(k)
  <2>1. CASE Accepted(k) /\ ~Receipt(k).asset
    BY <1>1, <2>1, BestEffortUnlinks DEF Classify
  <2>2. CASE ~(Accepted(k) /\ ~Receipt(k).asset)
    BY <1>1, <2>2, BestEffortUnlinks DEF Classify
  <2> QED
    BY <2>1, <2>2
<1>4. CASE kind[k] = "note" \/ Accepted(k)
  <2>1. Discards(k)
    BY <1>1, <1>2, <1>3, <1>4 DEF Typed, Classify, Discards
  <2>2. UNCHANGED <<db, disk>> /\ Receipt(k)' = Receipt(k)
    BY <2>1, DiscardStays DEF Discards
  <2>3. Along(k)'
    BY <1>1, <1>2, <2>2 DEF Good, Along, Accepted
  <2>4. Told(k)' /\ Listed(k)'
    BY <1>1, <1>2, <2>2 DEF Good, Told, Listed
  <2> QED
    BY <2>1, <2>3, <2>4, DiscardStays DEF InboxIInv, Good
<1>5. CASE ~(kind[k] = "note" \/ Accepted(k))
  <2> DEFINE r == [Receipt(k) EXCEPT !.state = "failed"]
  <2>1. /\ Rewrites(k, r)
        /\ Receipt(k)'.asset = Receipt(k).asset /\ Receipt(k)'.sha = Receipt(k).sha
        /\ Receipt(k)'.state = "failed" /\ Receipt(k)'.project = Receipt(k).project
        /\ disk' = disk
    BY <1>1, <1>5, FailingRewrites DEF Classify
  <2>2. Elsewhere(k)
    BY <1>1, <1>2, <2>1, DatabaseTypes DEF Typed, Elsewhere, Rewrites
  <2>3. staging' \in [Keys -> SUBSET StagingFile] /\ \A j \in Keys : Kept(j)'
    <3>1. \A j \in Keys : Receipt(j)'.sha = Receipt(j).sha
      BY <2>1, <2>2 DEF Elsewhere, Receipt
    <3> QED
      BY <1>1, <1>2, <1>3, <3>1, UnlinkKeeps
  <2>4. Typed' /\ CatalogIsBacked'
    BY <1>1, <1>2, <2>1, <2>3 DEF InboxIInv, Typed, CatalogIsBacked, Rewrites
  <2>5. \A j \in Keys \ {k} : Good(j)'
    BY <2>2, OthersStay
  <2>6. told[k] = NoBytes
    BY <1>5, NothingAccepted
  <2>7. Whole(db, k)' /\ Whole(disk, k)'
    BY <1>1, <1>2, <2>1 DEF Whole, Good, Rewrites, Receipt
  <2>8. Lag(k)' /\ Along(k)' /\ Told(k)' /\ Listed(k)'
    BY <1>1, <1>2, <2>1, <2>6 DEF Good, Lag, Along, Told, Listed, Rewrites
  <2> QED
    BY <2>3, <2>4, <2>5, <2>7, <2>8 DEF InboxIInv, Good
<1> QED
  BY <1>4, <1>5

\* The same, when the database does not answer the failure handling either.
LEMMA ClassifyBlindKeeps ==
  ASSUME InboxIInv, NEW k \in Keys, ClassifyBlind(k)
  PROVE  InboxIInv'
<1>1. /\ Typed /\ Good(k) /\ at[k] = "failing" /\ up = "up"
      /\ OwnFile(k) \subseteq staging[k]
      /\ at' = [at EXCEPT ![k] = "idle"] /\ at'[k] = "idle"
      /\ at' \in [Keys -> Places]
  BY DEF InboxIInv, Typed, ClassifyBlind, Leave, Goto, OwnFile, Candidates, Places
<1>2. Unlinks(k)
  BY <1>1 DEF ClassifyBlind, Unlinks
<1>3. Discards(k)
  BY <1>1, <1>2 DEF Typed, ClassifyBlind, Leave, Discards
<1>4. UNCHANGED <<kind, db, disk, blob, up, todo, told>> /\ Receipt(k)' = Receipt(k)
  BY <1>3, DiscardStays DEF ClassifyBlind
<1>5. Along(k)'
  BY <1>1, <1>4 DEF Good, Along, Accepted
<1>6. Told(k)' /\ Listed(k)'
  BY <1>1, <1>4 DEF Good, Told, Listed
<1> QED
  BY <1>3, <1>5, <1>6, DiscardStays DEF InboxIInv, Good

\* The upload opens a staging file of its own.
LEMMA OpenKeeps ==
  ASSUME InboxIInv, NEW k \in Keys, Open(k)
  PROVE  InboxIInv'
<1>1. /\ Typed /\ Good(k) /\ Kept(k) /\ at[k] = "open" /\ up = "up" /\ kind[k] = "file"
      /\ at' = [at EXCEPT ![k] = "fill"] /\ at'[k] = "fill"
      /\ at' \in [Keys -> Places] /\ k \notin todo
  BY DEF InboxIInv, Typed, Open, Goto, Places, StorageSteps, Good, Along, Listed
<1>2. PICK n \in Slots(k) :
        /\ own' = [own EXCEPT ![k] = n]
        /\ staging' = [staging EXCEPT ![k] = @ \cup
             {[id |-> n, bytes |-> Torn, live |-> TRUE, safe |-> FALSE]}]
  BY DEF Open
<1> DEFINE f == [id |-> n, bytes |-> Torn, live |-> TRUE, safe |-> FALSE]
<1>3. n \in 1..MaxStaged /\ \A g \in staging[k] : g.id # n
  BY DEF Slots
<1>4. f \in StagingFile /\ f.live /\ f.id = n
  BY <1>3 DEF StagingFile
<1>5. /\ staging'[k] = staging[k] \cup {f} /\ own'[k] = n
      /\ staging' \in [Keys -> SUBSET StagingFile]
      /\ \A j \in Keys \ {k} : staging'[j] = staging[j] /\ own'[j] = own[j] /\ at'[j] = at[j]
  BY <1>1, <1>2, <1>4 DEF Typed
<1>6. own' \in [Keys -> 0..MaxStaged]
  BY <1>1, <1>2, <1>3, BoundsAssumption DEF Typed
<1>7. UNCHANGED <<kind, db, disk, blob, up, todo, bytes, told>>
  BY DEF Open
<1>8. Typed' /\ CatalogIsBacked'
  BY <1>1, <1>5, <1>6, <1>7 DEF InboxIInv, Typed, CatalogIsBacked
<1>9. \A j \in Keys \ {k} : Kept(j)'
  BY <1>5, <1>7 DEF InboxIInv, Kept, OwnsOne, OwnFile, Candidates, Accepted, Receipt
<1>10. Kept(k)'
  <2>1. OwnFile(k)' = {f} /\ f \in staging'[k]
    BY <1>3, <1>4, <1>5 DEF OwnFile, Candidates
  <2> QED
    BY <1>1, <1>4, <1>5, <1>7, <2>1 DEF Kept, OwnsOne, Uploading
<1>11. \A j \in Keys \ {k} : Good(j)'
  <2>1. Elsewhere(k)
    BY <1>5, <1>7 DEF Elsewhere
  <2> QED
    BY <2>1, OthersStay
<1>12. Good(k)'
  BY <1>1, <1>7 DEF Good, Whole, Lag, Along, Told, Listed, Accepted, Receipt
<1> QED
  BY <1>8, <1>9, <1>10, <1>11, <1>12 DEF InboxIInv

\* What a sync of `.incoming` leaves of a key's files: the live ones, safe now.
LEMMA SyncedLeaves ==
  ASSUME NEW fs \in SUBSET StagingFile
  PROVE  /\ Synced(fs) \subseteq StagingFile
         /\ \A f \in Synced(fs) : f.live \/ f.safe
         /\ fs = {} => Synced(fs) = {}
         /\ \A f \in fs : f.live => [f EXCEPT !.safe = TRUE] \in Synced(fs)
         /\ \A h \in Synced(fs) : \E f \in fs :
              f.live /\ h = [f EXCEPT !.safe = TRUE] /\ h.live /\ h.id = f.id
<1>1. ASSUME NEW f \in fs, f.live
      PROVE  LET h == [f EXCEPT !.safe = TRUE] IN
             h \in StagingFile /\ h.safe /\ h.live /\ h.id = f.id
  BY <1>1 DEF StagingFile
<1> QED
  BY <1>1 DEF Synced

\* The one file a request owns is the one it owns after the sync.
LEMMA SyncedOwn ==
  ASSUME NEW fs \in SUBSET StagingFile, NEW n, NEW f \in fs,
         {g \in fs : g.live /\ g.id = n} = {f}
  PROVE  LET h == [f EXCEPT !.safe = TRUE] IN
         h \in Synced(fs) /\ {g \in Synced(fs) : g.live /\ g.id = n} = {h}
<1> DEFINE h == [f EXCEPT !.safe = TRUE]
<1>1. f.live /\ f.id = n
  OBVIOUS
<1>2. h \in Synced(fs) /\ h.live /\ h.id = n
  BY <1>1, SyncedLeaves DEF StagingFile
<1>3. ASSUME NEW g \in Synced(fs), g.live, g.id = n
      PROVE  g = h
  BY <1>3, SyncedLeaves
<1> QED
  BY <1>2, <1>3

\* The bytes of the upload in the request's own file.
Filled(k) == {IF f.id = own[k] THEN [f EXCEPT !.bytes = bytes[k]] ELSE f : f \in staging[k]}

\* The upload's bytes are in its own file, whole, and the other files are as
\* they were.
LEMMA FilledLeaves ==
  ASSUME NEW k \in Keys, staging[k] \in SUBSET StagingFile, bytes[k] \in Contents
  PROVE  /\ Filled(k) \in SUBSET StagingFile
         /\ staging[k] = {} => Filled(k) = {}
         /\ \A f \in staging[k] : OwnFile(k) = {f} =>
              \E h \in Filled(k) : {g \in Filled(k) : g.live /\ g.id = own[k]} = {h}
<1> DEFINE new(f) == IF f.id = own[k] THEN [f EXCEPT !.bytes = bytes[k]] ELSE f
<1>1. ASSUME NEW f \in staging[k]
      PROVE  new(f) \in StagingFile /\ new(f).id = f.id /\ new(f).live = f.live
  BY <1>1 DEF StagingFile
<1>2. Filled(k) = {new(f) : f \in staging[k]}
  BY DEF Filled
<1> HIDE DEF new
<1>3. ASSUME NEW f \in staging[k], OwnFile(k) = {f}
      PROVE  {g \in Filled(k) : g.live /\ g.id = own[k]} = {new(f)} /\ new(f) \in Filled(k)
  <2>1. f.live /\ f.id = own[k]
    BY <1>3 DEF OwnFile, Candidates
  <2>2. new(f) \in Filled(k) /\ new(f).live /\ new(f).id = own[k]
    BY <1>1, <1>2, <2>1
  <2>3. ASSUME NEW g \in Filled(k), g.live, g.id = own[k]
        PROVE  g = new(f)
    <3>1. PICK e \in staging[k] : g = new(e)
      BY <1>2
    <3>2. e \in OwnFile(k)
      BY <1>1, <2>3, <3>1 DEF OwnFile, Candidates
    <3> QED
      BY <1>3, <3>1, <3>2
  <2> QED
    BY <2>2, <2>3
<1> QED
  BY <1>1, <1>2, <1>3

\* The upload is written and synced, and with it every name of `.incoming`.
LEMMA FillKeeps ==
  ASSUME InboxIInv, NEW k \in Keys, Fill(k)
  PROVE  InboxIInv'
<1>1. /\ Typed /\ Good(k) /\ at[k] = "fill" /\ bytes[k] \in Contents
      /\ at' = [at EXCEPT ![k] = "accept"] /\ at'[k] = "accept"
      /\ at' \in [Keys -> Places] /\ kind[k] = "file"
      /\ staging \in [Keys -> SUBSET StagingFile]
  BY DEF InboxIInv, Typed, Fill, Goto, Places, StorageSteps, Good, Along
<1>2. UNCHANGED <<kind, db, disk, blob, up, todo, bytes, own, told>>
  BY DEF Fill
<1> DEFINE before(j) == IF j # k THEN staging[j] ELSE Filled(k)
<1>3. staging' = [j \in Keys |-> Synced(before(j))]
  BY DEF Fill, Filled
<1>4. ASSUME NEW j \in Keys
      PROVE  /\ before(j) \in SUBSET StagingFile
             /\ staging[j] = {} => before(j) = {}
             /\ own[j] # 0 => \E f \in before(j) :
                  {g \in before(j) : g.live /\ g.id = own[j]} = {f}
  <2>1. Kept(j)
    BY DEF InboxIInv
  <2>2. CASE j # k
    BY <1>1, <2>1, <2>2 DEF Kept, OwnsOne, OwnFile, Candidates
  <2>3. CASE j = k
    <3>1. staging[k] \in SUBSET StagingFile
      BY <1>1
    <3> QED
      BY <1>1, <2>1, <2>3, <3>1, FilledLeaves DEF Kept, OwnsOne
  <2> QED
    BY <2>2, <2>3
<1> HIDE DEF before
<1>5. staging' \in [Keys -> SUBSET StagingFile]
  BY <1>3, <1>4, SyncedLeaves
<1>6. ASSUME NEW j \in Keys
      PROVE  Kept(j)'
  <2>1. Kept(j) /\ staging'[j] = Synced(before(j))
    BY <1>3 DEF InboxIInv
  <2>2. own[j] # 0 => \E f \in staging'[j] :
           {g \in staging'[j] : g.live /\ g.id = own[j]} = {f}
    <3>1. SUFFICES ASSUME own[j] # 0
                   PROVE  \E f \in Synced(before(j)) :
                            {g \in Synced(before(j)) : g.live /\ g.id = own[j]} = {f}
      BY <2>1
    <3>2. PICK f \in before(j) : {g \in before(j) : g.live /\ g.id = own[j]} = {f}
      BY <1>4, <3>1
    <3>3. LET h == [f EXCEPT !.safe = TRUE] IN
          /\ h \in Synced(before(j))
          /\ {g \in Synced(before(j)) : g.live /\ g.id = own[j]} = {h}
      BY <1>4, <3>2, SyncedOwn
    <3> QED
      BY <3>3
  <2>3. /\ \A f \in staging'[j] : f.live \/ f.safe
        /\ staging[j] = {} => staging'[j] = {}
    BY <1>4, <2>1, SyncedLeaves
  <2>4. own[j] # 0 => at'[j] \in Uploading
    BY <1>1, <2>1 DEF Typed, Kept, OwnsOne, Uploading
  <2> QED
    BY <1>2, <2>1, <2>2, <2>3, <2>4 DEF Kept, OwnsOne, OwnFile, Candidates, Accepted, Receipt
<1>7. Typed' /\ CatalogIsBacked'
  BY <1>1, <1>2, <1>5 DEF InboxIInv, Typed, CatalogIsBacked
<1>8. \A j \in Keys \ {k} : Good(j)'
  <2>1. Elsewhere(k)
    BY <1>1, <1>2 DEF Typed, Elsewhere
  <2> QED
    BY <2>1, OthersStay
<1>9. Good(k)'
  BY <1>1, <1>2 DEF Good, Whole, Lag, Along, Told, Listed, Accepted, Receipt
<1> QED
  BY <1>6, <1>7, <1>8, <1>9 DEF InboxIInv

----------------------------------------------------------------------------
(* The runtime and its machine *)

\* A step of the runtime: no intake is at work, and no file is written.
LEMMA RuntimeStays ==
  ASSUME InboxIInv, \A j \in Keys : at'[j] = "idle" /\ own'[j] = 0,
         UNCHANGED <<kind, db, disk, staging, blob, told>>,
         up' \in {"down", "boot", "up"}, todo' \subseteq Keys,
         \A j \in todo' : up' = "boot" /\ Receiving(j),
         at' \in [Keys -> Places], own' \in [Keys -> 0..MaxStaged],
         bytes' \in [Keys -> Contents \cup {NoBytes}]
  PROVE  InboxIInv'
<1>1. Typed' /\ CatalogIsBacked'
  BY DEF InboxIInv, Typed, CatalogIsBacked
<1>2. \A j \in Keys : Kept(j)'
  BY DEF InboxIInv, Kept, OwnsOne, Accepted, Receipt
<1>3. ASSUME NEW j \in Keys
      PROVE  Good(j)'
  <2>1. Good(j)
    BY DEF InboxIInv
  <2>2. Receipt(j)' = Receipt(j) /\ Whole(db, j)' /\ Whole(disk, j)' /\ Lag(j)'
    BY <2>1 DEF Good, Whole, Lag, Receipt, Accepted
  <2>3. Along(j)' /\ Told(j)' /\ Listed(j)'
    BY <2>1, <2>2 DEF Good, Along, Told, Listed, Receiving
  <2> QED
    BY <2>2, <2>3 DEF Good
<1> QED
  BY <1>1, <1>2, <1>3 DEF InboxIInv

\* An idle intake owns no staging file.
LEMMA IdleOwnsNone ==
  ASSUME InboxIInv, NEW j \in Keys, at[j] = "idle"
  PROVE  own[j] = 0
  BY DEF InboxIInv, Kept, OwnsOne, Uploading

\* The runtime begins to serve once reconciliation has ended.
LEMMA ServeKeeps ==
  ASSUME InboxIInv, Serve
  PROVE  InboxIInv'
<1>1. \A j \in Keys : at'[j] = "idle" /\ own'[j] = 0
  BY IdleOwnsNone DEF Serve
<1>2. todo' = {} /\ at' = at /\ own' = own /\ bytes' = bytes
  BY DEF Serve
<1>3. UNCHANGED <<kind, db, disk, staging, blob, told>> /\ up' = "up"
  BY DEF Serve, store
<1>4. at' \in [Keys -> Places] /\ own' \in [Keys -> 0..MaxStaged]
      /\ bytes' \in [Keys -> Contents \cup {NoBytes}]
  BY <1>2 DEF InboxIInv, Typed
<1> QED
  BY <1>1, <1>2, <1>3, <1>4, RuntimeStays

\* A restart lists every receipt that is still receiving.
LEMMA RestartKeeps ==
  ASSUME InboxIInv, Restart
  PROVE  InboxIInv'
<1>1. \A j \in Keys : at[j] = "idle"
  BY DEF InboxIInv, Restart, Good, Along
<1>2. \A j \in Keys : at'[j] = "idle" /\ own'[j] = 0
  BY <1>1, IdleOwnsNone DEF Restart
<1>3. todo' = {j \in Keys : Receiving(j)} /\ at' = at /\ own' = own /\ bytes' = bytes
  BY DEF Restart
<1>4. UNCHANGED <<kind, db, disk, staging, blob, told>> /\ up' = "boot"
  BY DEF Restart, store
<1>5. at' \in [Keys -> Places] /\ own' \in [Keys -> 0..MaxStaged]
      /\ bytes' \in [Keys -> Contents \cup {NoBytes}]
  BY <1>3 DEF InboxIInv, Typed
<1> QED
  BY <1>2, <1>3, <1>4, <1>5, RuntimeStays

\* What stops leaves no operation behind.
LEMMA StopLeaves ==
  ASSUME Stop
  PROVE  /\ up' = "down" /\ todo' = {}
         /\ \A j \in Keys : at'[j] = "idle" /\ own'[j] = 0
         /\ at' \in [Keys -> Places] /\ own' \in [Keys -> 0..MaxStaged]
         /\ bytes' \in [Keys -> Contents \cup {NoBytes}]
<1>1. at' \in [Keys -> Places] /\ bytes' \in [Keys -> Contents \cup {NoBytes}]
  BY DEF Stop, Places
<1>2. own' \in [Keys -> 0..MaxStaged]
  BY BoundsAssumption DEF Stop
<1> QED
  BY <1>1, <1>2 DEF Stop

\* The process dies.
LEMMA CrashKeeps ==
  ASSUME InboxIInv, Crash
  PROVE  InboxIInv'
<1>1. UNCHANGED <<kind, db, disk, staging, blob, told>> /\ Stop
  BY DEF Crash, store
<1> QED
  BY <1>1, StopLeaves, RuntimeStays

\* The write-ahead log reaches the disk.
LEMMA WalSyncKeeps ==
  ASSUME InboxIInv, WalSync
  PROVE  InboxIInv'
<1>1. /\ disk' = db
      /\ UNCHANGED <<kind, db, staging, blob, up, todo, at, bytes, own, told>>
  BY DEF WalSync, store
<1>2. Typed' /\ CatalogIsBacked'
  BY <1>1 DEF InboxIInv, Typed, CatalogIsBacked
<1>3. \A j \in Keys : Kept(j)'
  BY <1>1 DEF InboxIInv, Kept, OwnsOne, OwnFile, Candidates, Accepted, Receipt
<1>4. ASSUME NEW j \in Keys
      PROVE  Good(j)'
  <2>1. Good(j)
    BY DEF InboxIInv
  <2>2. Receipt(j)' = Receipt(j) /\ Whole(db, j)' /\ Whole(disk, j)' /\ Lag(j)'
    BY <1>1, <2>1 DEF Good, Whole, Lag, Receipt, Accepted
  <2>3. Along(j)' /\ Told(j)' /\ Listed(j)'
    BY <1>1, <2>1, <2>2 DEF Good, Along, Told, Listed, Receiving, Accepted, Receipt
  <2> QED
    BY <2>2, <2>3 DEF Good
<1> QED
  BY <1>2, <1>3, <1>4 DEF InboxIInv

\* The machine loses power: the database of the disk is what is left.
LEMMA PowerLossKeeps ==
  ASSUME InboxIInv, PowerLoss
  PROVE  InboxIInv'
<1>1. /\ UNCHANGED <<kind, disk, told>> /\ db' = disk /\ Stop
      /\ \A c \in Contents : blob[c] = "safe" => blob'[c] = "safe"
  BY DEF PowerLoss
<1>2. /\ up' = "down" /\ todo' = {}
      /\ \A j \in Keys : at'[j] = "idle" /\ own'[j] = 0
      /\ at' \in [Keys -> Places] /\ own' \in [Keys -> 0..MaxStaged]
      /\ bytes' \in [Keys -> Contents \cup {NoBytes}]
  BY <1>1, StopLeaves
<1>3. blob' \in [Contents -> {"none", "named", "safe"}]
  BY DEF PowerLoss
<1>4. PICK back \in SUBSET UnsureNames :
        staging' = [j \in Keys |->
          Synced({f \in staging[j] : f.live /\ f.safe}
                 \cup {[f EXCEPT !.live = TRUE] :
                         f \in {g \in staging[j] : <<j, g>> \in back}})]
  BY DEF PowerLoss
<1> DEFINE left(j) == {f \in staging[j] : f.live /\ f.safe}
                      \cup {[f EXCEPT !.live = TRUE] :
                              f \in {g \in staging[j] : <<j, g>> \in back}}
<1>5. ASSUME NEW j \in Keys
      PROVE  /\ left(j) \in SUBSET StagingFile
             /\ staging[j] = {} => left(j) = {}
  <2>1. staging[j] \in SUBSET StagingFile
    BY DEF InboxIInv, Typed
  <2>2. ASSUME NEW f \in staging[j]
        PROVE  [f EXCEPT !.live = TRUE] \in StagingFile
    BY <2>1 DEF StagingFile
  <2> QED
    BY <2>1, <2>2
<1>6. staging' = [j \in Keys |-> Synced(left(j))]
  BY <1>4
<1> HIDE DEF left
<1>7. /\ staging' \in [Keys -> SUBSET StagingFile]
      /\ \A j \in Keys : /\ \A f \in staging'[j] : f.live \/ f.safe
                         /\ staging[j] = {} => staging'[j] = {}
  BY <1>5, <1>6, SyncedLeaves
<1>8. disk.assets \subseteq Contents
  BY DatabaseTypes DEF InboxIInv, Typed
<1>9. Typed' /\ CatalogIsBacked'
  <2>1. Typed'
    BY <1>1, <1>2, <1>3, <1>7 DEF InboxIInv, Typed
  <2>2. CatalogIsBacked'
    BY <1>1, <1>8 DEF InboxIInv, CatalogIsBacked
  <2> QED
    BY <2>1, <2>2
<1>10. ASSUME NEW j \in Keys
       PROVE  Kept(j)' /\ Good(j)'
  <2>1. Good(j) /\ Kept(j) /\ told[j] \in Contents \cup {NoBytes}
    BY DEF InboxIInv, Typed
  <2>2. Receipt(j)' = disk.intake[j] /\ Receipt(j)'.sha = Receipt(j).sha
    BY <1>1, <2>1 DEF Good, Lag, Receipt
  <2>3. Kept(j)'
    BY <1>1, <1>2, <1>7, <2>1, <2>2 DEF Kept, OwnsOne, Accepted
  <2>4. Whole(db, j)' /\ Whole(disk, j)' /\ Lag(j)'
    BY <1>1, <2>1 DEF Good, Whole, Lag, Receipt, Accepted
  <2>5. Along(j)' /\ Listed(j)'
    BY <1>1, <1>2 DEF Along, Listed
  <2>6. Told(j)'
    BY <1>1, <1>2, <2>1, <2>2 DEF Good, Told
  <2> QED
    BY <2>3, <2>4, <2>5, <2>6 DEF Good
<1> QED
  BY <1>9, <1>10 DEF InboxIInv

----------------------------------------------------------------------------
(* The invariant *)

\* The empty inbox satisfies the invariant.
LEMMA InboxStarts ==
  ASSUME Init
  PROVE  InboxIInv
<1>1. Blank \in Intake /\ Blank.state = "absent" /\ Blank.sha = NoBytes
      /\ ~Blank.asset /\ ~Blank.project
  BY DEF Blank, Intake
<1>2. db \in Database /\ disk = db /\ \A k \in Keys : db.intake[k] = Blank
  <2>1. [k \in Keys |-> Blank] \in [Keys -> Intake]
    BY <1>1
  <2> QED
    BY <2>1 DEF Init, Database
<1>3. Typed
  <2>1. own \in [Keys -> 0..MaxStaged]
    BY BoundsAssumption DEF Init
  <2>2. staging \in [Keys -> SUBSET StagingFile] /\ todo \subseteq Keys
    BY DEF Init
  <2>3. at \in [Keys -> Places] /\ kind \in [Keys -> {"file", "note"}]
    BY DEF Init, Places
  <2> QED
    BY <1>2, <2>1, <2>2, <2>3 DEF Init, Typed
<1>4. CatalogIsBacked
  BY <1>2 DEF Init, CatalogIsBacked
<1>5. ASSUME NEW k \in Keys
      PROVE  Kept(k) /\ Good(k)
  <2>1. Receipt(k) = Blank /\ disk.intake[k] = Blank
    BY <1>2 DEF Receipt
  <2>2. Kept(k)
    BY <1>1, <2>1 DEF Init, Kept, OwnsOne, Accepted
  <2>3. Whole(db, k) /\ Whole(disk, k)
    BY <1>1, <1>2 DEF Init, Whole
  <2>4. Lag(k) /\ Along(k) /\ Told(k) /\ Listed(k)
    BY <1>1, <2>1 DEF Init, Lag, Along, Told, Listed, Accepted
  <2> QED
    BY <2>2, <2>3, <2>4 DEF Good
<1> QED
  BY <1>3, <1>4, <1>5 DEF InboxIInv

\* Every step of every intake, and of the machine, keeps it.
LEMMA InboxSteps ==
  ASSUME InboxIInv, [Next]_vars
  PROVE  InboxIInv'
<1>1. ASSUME NEW k \in Keys, Step(k)
      PROVE  InboxIInv'
  BY <1>1, TooLargeKeeps, RecoverKeeps, BootKeepsKeeps, BootTakeKeeps, LinkKeeps,
     CatalogKeeps, SourceKeeps, SaveProjectKeeps, LinkProjectKeeps, ProbeKeeps,
     SettleKeeps, BootFailsKeeps, RefuseKeeps, PublishKeeps, SyncKeeps, VerifyKeeps,
     AcceptKeeps, DiscardKeeps, PurgeKeeps, FinishKeeps, ClassifyKeeps, OpenKeeps,
     FillKeeps
     DEF Step
<1>2. ASSUME NEW k \in Keys, StorageFault(k) \/ ClassifyBlind(k)
      PROVE  InboxIInv'
  BY <1>2, StorageFaultKeeps, ClassifyBlindKeeps
<1>3. ASSUME NEW k \in Keys, NEW c \in Contents, Begin(k, c) \/ Resume(k, c) \/ Replay(k, c)
      PROVE  InboxIInv'
  BY <1>3, BeginKeeps, ResumeKeeps, ReplayKeeps
<1>4. CASE Serve \/ Restart \/ Crash \/ PowerLoss \/ WalSync
  BY <1>4, ServeKeeps, RestartKeeps, CrashKeeps, PowerLossKeeps, WalSyncKeeps
<1>5. CASE UNCHANGED vars
  <2>1. UNCHANGED <<kind, db, disk, staging, blob, up, todo, at, bytes, own, told>>
    BY <1>5 DEF vars
  <2>2. Typed' /\ CatalogIsBacked'
    BY <2>1 DEF InboxIInv, Typed, CatalogIsBacked
  <2>3. ASSUME NEW j \in Keys
        PROVE  Kept(j)' /\ Good(j)'
    <3>1. Kept(j) /\ Good(j)
      BY DEF InboxIInv
    <3>2. Kept(j)'
      BY <2>1, <3>1 DEF Kept, OwnsOne, OwnFile, Candidates, Accepted, Receipt
    <3>3. Whole(db, j)' /\ Whole(disk, j)' /\ Lag(j)' /\ Told(j)'
      BY <2>1, <3>1 DEF Good, Whole, Lag, Told, Accepted, Receipt
    <3>4. Along(j)' /\ Listed(j)'
      BY <2>1, <3>1 DEF Good, Along, Listed, Accepted, Receipt, Receiving
    <3> QED
      BY <3>2, <3>3, <3>4 DEF Good
  <2> QED
    BY <2>2, <2>3 DEF InboxIInv
<1> QED
  BY <1>1, <1>2, <1>3, <1>4, <1>5 DEF Next

\* The inductive invariant holds in every reachable state.
LEMMA InboxInductive == Spec => []InboxIInv
<1>1. Init => InboxIInv
  BY InboxStarts
<1>2. InboxIInv /\ [Next]_vars => InboxIInv'
  BY InboxSteps
<1> QED
  BY <1>1, <1>2, PTL DEF Spec

\* The inductive invariant contains what the runs check of a state.
LEMMA InboxIInvImplies ==
  ASSUME InboxIInv
  PROVE  InboxInv /\ AckIsKept
<1>1. Typed /\ CatalogIsBacked /\ \A k \in Keys : Kept(k) /\ Good(k)
  BY DEF InboxIInv
<1>2. ASSUME NEW k \in Keys
      PROVE  /\ staging[k] \subseteq StagingFile
             /\ \A f \in staging[k] : f.live \/ f.safe
             /\ own[k] # 0 => Cardinality(OwnFile(k)) = 1
             /\ kind[k] = "note" => staging[k] = {} /\ ~Accepted(k)
  <2>1. Kept(k) /\ staging[k] \subseteq StagingFile
    BY <1>1 DEF Typed
  <2>2. own[k] # 0 => Cardinality(OwnFile(k)) = 1
    BY <2>1, FS_Singleton DEF Kept, OwnsOne
  <2> QED
    BY <2>1, <2>2 DEF Kept
<1>3. InboxTypeOK
  BY <1>1, <1>2 DEF Typed, InboxTypeOK, Places
<1>4. ChainIsComplete
  BY <1>1 DEF Good, Whole, ChainIsComplete
<1>5. AckIsKept
  BY <1>1 DEF Good, Told, AckIsKept
<1> QED
  BY <1>1, <1>3, <1>4, <1>5 DEF InboxInv

\* For any keys, contents, faults, crashes and power losses: the catalog never
\* outruns the durable blobs, and every receipt names a complete chain, in the
\* database of the process and in the one a power loss would leave.
THEOREM InboxSafety == Spec => []InboxInv
<1>1. InboxIInv => InboxInv
  BY InboxIInvImplies
<1> QED
  BY <1>1, InboxInductive, PTL

\* A client told 201 finds exactly its bytes under its key, durable and never
\* failed, whatever power losses undo afterwards.
THEOREM InboxAcknowledges == Spec => []AckIsKept
<1>1. InboxIInv => AckIsKept
  BY InboxIInvImplies
<1> QED
  BY <1>1, InboxInductive, PTL

----------------------------------------------------------------------------
(* What no step takes away *)

\* While its bytes are being accepted, a request's staging file is whole and
\* its name durable.
Staged(k) ==
  /\ at[k] \in {"fill", "accept"} => own[k] # 0
  /\ at[k] = "accept" =>
       \E f \in staging[k] : f.live /\ f.safe /\ f.bytes = bytes[k]

InboxStagedIInv == InboxIInv /\ \A k \in Keys : Staged(k)

\* A durable name stays durable.
NamesStay == \A c \in Contents : blob[c] = "safe" => blob'[c] = "safe"

\* A durable staging file is lost to a purge, or once it holds no accepted bytes
\* or the canonical blob does.
FileGoes(k) == at[k] = "purge" \/ ~Accepted(k) \/ blob[Receipt(k).sha] = "safe"

\* A step that neither stages nor accepts bytes for k.
Steady(k) ==
  /\ Receipt(k)'.sha = Receipt(k).sha
  /\ at'[k] \in {"fill", "accept"} =>
       at'[k] = at[k] /\ own'[k] = own[k] /\ bytes'[k] = bytes[k]
  /\ \A f \in staging[k] :
       f.live /\ f.safe /\ f \notin staging'[k] =>
         at'[k] \notin {"fill", "accept"} /\ FileGoes(k)

\* The places a step other than opening and writing a staging file leads to.
Moves(k) ==
  /\ \E p \in Places \ {"fill", "accept"} : at' = [at EXCEPT ![k] = p]
  /\ \A j \in Keys \ {k} : own'[j] = own[j] /\ bytes'[j] = bytes[j]

\* A rewritten receipt keeps its accepted bytes, and so do all others.
LEMMA RewriteKeepsSha ==
  ASSUME Typed, NEW k \in Keys, NEW r \in Intake, r.sha = Receipt(k).sha,
         db' = [db EXCEPT !.intake[k] = r]
  PROVE  \A j \in Keys : Receipt(j)'.sha = Receipt(j).sha
<1>1. Rewrites(k, r)
  BY CommitRewrites
<1> QED
  BY <1>1, DatabaseTypes DEF Typed, Rewrites, Receipt

\* Steps that leave the staging files alone are steady for every intake.
LEMMA MovesAreSteady ==
  ASSUME InboxIInv, NEW k \in Keys, Moves(k), staging' = staging,
         \A j \in Keys : Receipt(j)'.sha = Receipt(j).sha,
         NEW j \in Keys
  PROVE  Steady(j)
  BY DEF InboxIInv, Typed, Moves, Steady

\* Steps that write no database, file or blob.
LEMMA QuietSteps ==
  ASSUME InboxIInv, NEW k \in Keys,
         \/ TooLarge(k) \/ Recover(k) \/ StorageFault(k) \/ BootKeeps(k) \/ BootTake(k)
         \/ \E c \in Contents : Resume(k, c) \/ Replay(k, c),
         NEW j \in Keys
  PROVE  NamesStay /\ Steady(j)
<1>1. UNCHANGED <<db, staging, blob, bytes>>
  BY DEF TooLarge, Recover, StorageFault, BootKeeps, BootTake, Resume, Replay, store
<1>2. at' = at \/ \E p \in Places \ {"fill", "accept"} : at' = [at EXCEPT ![k] = p]
  <2>1. CASE Recover(k)
    <3>1. \E p \in {"lost", "verify", "sync", "publish", "refused"} :
            at' = [at EXCEPT ![k] = p]
      BY <2>1 DEF Recover, Goto
    <3> QED
      BY <3>1 DEF Places, StorageSteps
  <2>2. CASE BootTake(k)
    <3>1. \E p \in {"recover", "save"} : at' = [at EXCEPT ![k] = p]
      BY <2>2 DEF BootTake, Goto
    <3> QED
      BY <3>1 DEF Places, StorageSteps
  <2>3. CASE \/ TooLarge(k) \/ StorageFault(k) \/ BootKeeps(k)
             \/ \E c \in Contents : Resume(k, c) \/ Replay(k, c)
    BY <2>3 DEF TooLarge, StorageFault, BootKeeps, Leave, Resume, Replay, Goto, Places,
                StorageSteps
  <2> QED
    BY <2>1, <2>2, <2>3
<1>3. \/ own' = own
      \/ own' = [own EXCEPT ![k] = 0] /\ at'[k] = "idle"
  BY DEF InboxIInv, Typed, TooLarge, Recover, StorageFault, BootKeeps, BootTake, Resume, Replay,
         Leave, Goto
<1> QED
  BY <1>1, <1>2, <1>3 DEF InboxIInv, Typed, NamesStay, Steady, Receipt

\* Steps that commit a transaction and touch no file.
LEMMA CommittingSteps ==
  ASSUME InboxIInv, NEW k \in Keys,
         \/ Link(k) \/ Catalog(k) \/ Source(k) \/ SaveProject(k) \/ LinkProject(k)
         \/ Probe(k) \/ Settle(k) \/ Refuse(k) \/ BootFails(k)
         \/ \E c \in Contents : Begin(k, c),
         NEW j \in Keys
  PROVE  NamesStay /\ Steady(j)
<1>1. UNCHANGED <<staging, blob>>
  BY DEF Link, Catalog, Source, SaveProject, LinkProject, Probe, Settle, Refuse, BootFails,
         Begin, store
<1>2. Typed /\ Receipt(k) \in Intake
  BY DatabaseTypes DEF InboxIInv, Typed, Receipt
<1>3. \A i \in Keys : Receipt(i)'.sha = Receipt(i).sha
  <2>1. CASE Catalog(k) \/ Source(k) \/ SaveProject(k) \/ Probe(k)
    <3>1. CASE Catalog(k)
      BY <1>2, <3>1 DEF Typed, Database, Catalog, Commit, Receipt
    <3>2. CASE Source(k) \/ SaveProject(k)
      BY <1>2, <3>2 DEF Typed, Database, Source, SaveProject, Commit, Receipt
    <3>3. CASE Probe(k)
      BY <1>2, <3>3 DEF Typed, Database, Probe, Commit, Receipt
    <3> QED
      BY <2>1, <3>1, <3>2, <3>3
  <2>2. CASE Link(k)
    <3>1. LET r == [Receipt(k) EXCEPT !.asset = TRUE] IN
          r \in Intake /\ r.sha = Receipt(k).sha
      BY <1>2 DEF Intake
    <3> QED
      BY <1>2, <2>2, <3>1, RewriteKeepsSha DEF Link, Transition, Commit
  <2>3. CASE LinkProject(k)
    BY <1>2, <2>3, RewriteKeepsSha DEF LinkProject, Transition, Commit, Intake, Receipt
  <2>4. CASE Settle(k)
    BY <1>2, <2>4, RewriteKeepsSha DEF Settle, Transition, Commit, Intake
  <2>5. CASE Refuse(k)
    BY <1>2, <2>5, RewriteKeepsSha DEF Refuse, Transition, Commit, Intake, Receipt
  <2>6. CASE BootFails(k)
    BY <1>2, <2>6, RewriteKeepsSha DEF BootFails, Transition, Commit, Intake
  <2>7. CASE \E c \in Contents : Begin(k, c)
    <3>1. PICK c \in Contents : Begin(k, c)
      BY <2>7
    <3>2. Receipt(k).sha = NoBytes
      BY <3>1 DEF InboxIInv, Begin, Good, Whole, Receipt, Accepted, Revivable
    <3>3. LET r == [Blank EXCEPT !.state = "receiving"] IN r \in Intake /\ r.sha = NoBytes
      BY DEF Blank, Intake
    <3>4. CASE Receiving(k)
      BY <3>1, <3>4 DEF Begin, Receipt
    <3>5. CASE ~Receiving(k)
      BY <1>2, <3>1, <3>2, <3>3, <3>5, RewriteKeepsSha DEF Begin, Commit
    <3> QED
      BY <3>4, <3>5
  <2> QED
    BY <2>1, <2>2, <2>3, <2>4, <2>5, <2>6, <2>7
<1>4. Moves(k)
  <2>1. \E p \in Places \ {"fill", "accept"} : at' = [at EXCEPT ![k] = p]
    <3>1. \E p \in {"link", "verify", "source", "save", "project", "probe", "prepared",
                    "partial", "done", "idle", "purge", "open"} :
            at' = [at EXCEPT ![k] = p]
      BY DEF Link, Catalog, Source, SaveProject, LinkProject, Probe, Settle, Refuse,
             BootFails, Begin, Leave, Goto
    <3> QED
      BY <3>1 DEF Places, StorageSteps
  <2>2. \A i \in Keys \ {k} : own'[i] = own[i] /\ bytes'[i] = bytes[i]
    BY <1>2 DEF Typed, Link, Catalog, Source, SaveProject, LinkProject, Probe, Settle,
                Refuse, BootFails, Begin, Leave
  <2> QED
    BY <2>1, <2>2 DEF Moves
<1> QED
  BY <1>1, <1>3, <1>4, MovesAreSteady DEF NamesStay

\* Steps on the canonical blob.
LEMMA PublishingSteps ==
  ASSUME InboxIInv, NEW k \in Keys, Publish(k) \/ Sync(k) \/ Verify(k), NEW j \in Keys
  PROVE  NamesStay /\ Steady(j)
<1>1. UNCHANGED <<db, staging, own, bytes>>
  BY DEF Publish, Sync, Verify
<1>2. Moves(k)
  <2>1. \E p \in {"sync", "catalog", "discard", "publish", "refused"} :
          at' = [at EXCEPT ![k] = p]
    BY DEF Publish, Sync, Verify, Goto
  <2> QED
    BY <1>1, <2>1 DEF Moves, Places, StorageSteps
<1>3. NamesStay
  BY DEF InboxIInv, Typed, Publish, Sync, Verify, NamesStay
<1> QED
  BY <1>1, <1>2, <1>3, MovesAreSteady DEF Receipt

\* What unlinking k's files may lose, when the canonical blob of what was
\* accepted is durable.
LEMMA UnlinksAreSteady ==
  ASSUME InboxIInv, NEW k \in Keys, Moves(k), staging' = staging \/ FileGoes(k),
         \A i \in Keys \ {k} : staging'[i] = staging[i],
         \A i \in Keys : Receipt(i)'.sha = Receipt(i).sha,
         NEW j \in Keys
  PROVE  Steady(j)
  BY DEF InboxIInv, Typed, Moves, Steady

\* Steps that unlink staging files.
LEMMA UnlinkingSteps ==
  ASSUME InboxIInv, NEW k \in Keys,
         Discard(k) \/ Purge(k) \/ Finish(k) \/ Classify(k) \/ ClassifyBlind(k),
         NEW j \in Keys
  PROVE  NamesStay /\ Steady(j)
<1>1. /\ Typed /\ Good(k) /\ Receipt(k) \in Intake /\ blob' = blob
      /\ staging \in [Keys -> SUBSET StagingFile]
  BY DatabaseTypes
     DEF InboxIInv, Typed, Receipt, Discard, Purge, Finish, Classify, ClassifyBlind
<1>2. \A i \in Keys : Receipt(i)'.sha = Receipt(i).sha
  <2>1. CASE db' = db
    BY <2>1 DEF Receipt
  <2>2. CASE Classify(k) /\ db' # db
    <3>1. LET r == [Receipt(k) EXCEPT !.state = "failed"] IN
          r \in Intake /\ r.sha = Receipt(k).sha
      BY <1>1 DEF Intake
    <3> QED
      BY <1>1, <2>2, <3>1, RewriteKeepsSha DEF Classify, Transition, Commit
  <2> QED
    BY <2>1, <2>2 DEF Discard, Purge, Finish, ClassifyBlind
<1>3. Moves(k)
  <2>1. \E p \in {"source", "link", "idle"} : at' = [at EXCEPT ![k] = p]
    BY DEF Discard, Purge, Finish, Classify, ClassifyBlind, Leave, Goto
  <2>2. \A i \in Keys \ {k} : own'[i] = own[i] /\ bytes'[i] = bytes[i]
    BY <1>1 DEF Typed, Discard, Purge, Finish, Classify, ClassifyBlind, Leave
  <2> QED
    BY <2>1, <2>2 DEF Moves, Places, StorageSteps
<1>4. \A i \in Keys \ {k} : staging'[i] = staging[i]
  BY <1>1 DEF Discard, Purge, Finish, Classify, ClassifyBlind, BestEffort
<1>5. Accepted(k) /\ Receipt(k).asset => blob[Receipt(k).sha] = "safe"
  BY <1>1 DEF InboxIInv, Good, Whole, CatalogIsBacked, Receipt
<1>6. staging' = staging \/ FileGoes(k)
  <2>1. CASE Discard(k)
    BY <1>1, <2>1 DEF InboxIInv, Discard, Good, Along, CatalogIsBacked, FileGoes
  <2>2. CASE Purge(k)
    BY <2>2 DEF Purge, FileGoes
  <2>3. CASE Finish(k)
    BY <1>1, <2>3, FinishedIsDurable DEF Finish, Good, Along, FileGoes
  <2>4. CASE Classify(k)
    <3>1. CASE Accepted(k) /\ ~Receipt(k).asset
      <4>1. BestEffort(k, {})
        BY <2>4, <3>1 DEF Classify
      <4>2. Unlink(staging[k], {}) = staging[k]
        BY DEF Unlink
      <4> QED
        BY <1>1, <4>1, <4>2 DEF BestEffort
    <3>2. CASE ~(Accepted(k) /\ ~Receipt(k).asset)
      BY <1>5, <3>2 DEF FileGoes
    <3> QED
      BY <3>1, <3>2
  <2>5. CASE ClassifyBlind(k)
    BY <2>5 DEF ClassifyBlind, FileGoes
  <2> QED
    BY <2>1, <2>2, <2>3, <2>4, <2>5
<1> QED
  BY <1>1, <1>2, <1>3, <1>4, <1>6, UnlinksAreSteady DEF NamesStay

\* Opening a staging file takes nothing away.
LEMMA OpeningSteps ==
  ASSUME InboxIInv, NEW k \in Keys, Open(k), NEW j \in Keys
  PROVE  NamesStay /\ (j # k => Steady(j)) /\ (Staged(k)' /\ Receipt(k)' = Receipt(k))
<1>1. /\ blob' = blob /\ Receipt(j)' = Receipt(j) /\ Receipt(k)' = Receipt(k)
      /\ j # k => at'[j] = at[j] /\ own'[j] = own[j] /\ bytes'[j] = bytes[j]
      /\ j # k => staging'[j] = staging[j]
      /\ at'[k] = "fill"
  BY DEF InboxIInv, Typed, Open, Goto, Receipt
<1>2. own'[k] # 0
  <2>1. PICK n \in Slots(k) : own' = [own EXCEPT ![k] = n]
    BY DEF Open
  <2>2. n \in 1..MaxStaged
    BY DEF Slots
  <2> QED
    BY <2>1, <2>2, BoundsAssumption DEF InboxIInv, Typed
<1> QED
  BY <1>1, <1>2 DEF NamesStay, Steady, Staged

\* A sync of `.incoming` keeps every durable name with its bytes.
LEMMA SyncedKeeps ==
  ASSUME NEW fs \in SUBSET StagingFile, NEW f \in fs, f.live, f.safe
  PROVE  f \in Synced(fs)
<1>1. [f EXCEPT !.safe = TRUE] = f
  BY DEF StagingFile
<1> QED
  BY <1>1, SyncedLeaves

\* Writing the upload leaves a whole, durable file of its bytes, and the others.
LEMMA FillingSteps ==
  ASSUME InboxIInv, NEW k \in Keys, own[k] # 0, Fill(k), NEW j \in Keys
  PROVE  NamesStay /\ (j # k => Steady(j)) /\ (Staged(k)' /\ Receipt(k)' = Receipt(k))
<1>1. /\ blob' = blob /\ Receipt(j)' = Receipt(j) /\ Receipt(k)' = Receipt(k)
      /\ j # k => at'[j] = at[j]
      /\ own' = own /\ bytes' = bytes /\ bytes[k] \in Contents
      /\ at'[k] = "accept" /\ staging[j] \in SUBSET StagingFile
      /\ staging[k] \in SUBSET StagingFile
  BY DEF InboxIInv, Typed, Fill, Goto, Receipt, Good, Along
<1>2. j # k => staging'[j] = Synced(staging[j])
  BY DEF Fill
<1>3. j # k => Steady(j)
  BY <1>1, <1>2, SyncedKeeps DEF Steady
<1>4. staging'[k] = Synced(Filled(k))
  BY DEF Fill, Filled
<1>5. PICK f \in staging[k] : OwnFile(k) = {f}
  BY DEF InboxIInv, Kept, OwnsOne
<1>6. f.live /\ f.id = own[k] /\ f \in StagingFile
  BY <1>1, <1>5 DEF OwnFile, Candidates
<1> DEFINE g == [f EXCEPT !.bytes = bytes[k]]
           h == [g EXCEPT !.safe = TRUE]
<1>7. g \in Filled(k) /\ g.live /\ g \in StagingFile
  BY <1>1, <1>6 DEF Filled, StagingFile
<1>8. Filled(k) \in SUBSET StagingFile
  BY <1>1, FilledLeaves
<1>9. h \in staging'[k]
  BY <1>4, <1>7 DEF Synced
<1>10. h.live /\ h.safe /\ h.bytes = bytes[k]
  BY <1>6 DEF StagingFile
<1>11. Staged(k)'
  BY <1>1, <1>9, <1>10 DEF Staged
<1> QED
  BY <1>1, <1>3, <1>11 DEF NamesStay

\* Acceptance writes only k's own receipt.
LEMMA AcceptingSteps ==
  ASSUME InboxIInv, NEW k \in Keys, Accept(k), NEW j \in Keys
  PROVE  /\ NamesStay /\ (j # k => Steady(j)) /\ staging' = staging
         /\ ~Accepted(k) /\ Receipt(k)'.sha = bytes[k] /\ at'[k] = "publish"
<1>1. /\ Typed /\ blob' = blob /\ staging' = staging /\ own' = own
      /\ at' = [at EXCEPT ![k] = "publish"] /\ bytes' = [bytes EXCEPT ![k] = NoBytes]
      /\ ~Accepted(k)
  BY DEF InboxIInv, Accept, store, Goto, Good, Along
<1>2. \A i \in Keys \ {k} : Receipt(i)'.sha = Receipt(i).sha
  BY <1>1 DEF Typed, Database, Accept, CommitFull, Receipt
<1>3. Receipt(k)'.sha = bytes[k]
  BY <1>1 DEF Typed, Database, Intake, Accept, CommitFull, Receipt
<1> QED
  BY <1>1, <1>2, <1>3 DEF Typed, NamesStay, Steady

\* Steps of the runtime and a crash write nothing.
LEMMA RuntimeSteps ==
  ASSUME InboxIInv, Serve \/ Restart \/ Crash \/ WalSync \/ UNCHANGED vars, NEW j \in Keys
  PROVE  NamesStay /\ Steady(j)
<1>1. UNCHANGED <<db, staging, blob>>
  BY DEF Serve, Restart, Crash, WalSync, store, vars
<1>2. \/ UNCHANGED <<at, own, bytes>>
      \/ at'[j] = "idle"
  BY DEF Serve, Restart, Crash, Stop, WalSync, vars
<1> QED
  BY <1>1, <1>2 DEF NamesStay, Steady, Receipt

\* A power loss keeps every durable name, and every accepted receipt.
LEMMA PowerLossSteps ==
  ASSUME InboxIInv, PowerLoss, NEW j \in Keys
  PROVE  /\ NamesStay /\ Steady(j)
         /\ \A f \in staging[j] : f.live /\ f.safe => f \in staging'[j]
<1>1. NamesStay /\ db' = disk /\ at'[j] = "idle"
  BY DEF PowerLoss, Stop, NamesStay
<1>2. Receipt(j)'.sha = Receipt(j).sha
  BY <1>1 DEF InboxIInv, Good, Lag, Receipt
<1>3. ASSUME NEW f \in staging[j], f.live, f.safe
      PROVE  f \in staging'[j]
  <2>1. PICK back \in SUBSET UnsureNames :
          staging' = [k \in Keys |->
            Synced({g \in staging[k] : g.live /\ g.safe}
                   \cup {[g EXCEPT !.live = TRUE] :
                           g \in {e \in staging[k] : <<k, e>> \in back}})]
    BY DEF PowerLoss
  <2> DEFINE left == {g \in staging[j] : g.live /\ g.safe}
                     \cup {[g EXCEPT !.live = TRUE] :
                             g \in {e \in staging[j] : <<j, e>> \in back}}
  <2>2. staging'[j] = Synced(left) /\ f \in left
    BY <1>3, <2>1
  <2>3. [f EXCEPT !.safe = TRUE] = f
    BY <1>3 DEF InboxIInv, Typed, StagingFile
  <2> HIDE DEF left
  <2>4. [f EXCEPT !.safe = TRUE] \in Synced(left)
    BY <1>3, <2>2 DEF Synced
  <2> QED
    BY <2>2, <2>3, <2>4
<1> QED
  BY <1>1, <1>2, <1>3 DEF Steady

\* Every step keeps the durable names; for one intake it is steady, or stages
\* its bytes, or accepts them from a durable staging file.
LEMMA StepsAreSteady ==
  ASSUME InboxStagedIInv, [Next]_vars, NEW j \in Keys
  PROVE  /\ NamesStay
         /\ \/ Steady(j)
            \/ /\ Open(j) \/ Fill(j)
               /\ Staged(j)' /\ Receipt(j)' = Receipt(j) /\ ~Accepted(j)
            \/ /\ Accept(j) /\ ~Accepted(j) /\ at'[j] = "publish"
               /\ \E f \in staging'[j] : f.live /\ f.safe /\ f.bytes = Receipt(j)'.sha
<1>0. InboxIInv /\ \A k \in Keys : Staged(k)
  BY DEF InboxStagedIInv
<1>1. ASSUME NEW k \in Keys, Open(k) \/ Fill(k)
      PROVE  /\ NamesStay /\ (j # k => Steady(j))
             /\ Staged(k)' /\ Receipt(k)' = Receipt(k) /\ ~Accepted(k)
  <2>1. ~Accepted(k) /\ (Fill(k) => own[k] # 0)
    BY <1>0, <1>1 DEF InboxIInv, Good, Along, Open, Fill, Staged
  <2> QED
    BY <1>0, <1>1, <2>1, OpeningSteps, FillingSteps
<1>2. ASSUME NEW k \in Keys, Accept(k)
      PROVE  /\ NamesStay /\ (j # k => Steady(j)) /\ ~Accepted(k) /\ at'[k] = "publish"
             /\ \E f \in staging'[k] : f.live /\ f.safe /\ f.bytes = Receipt(k)'.sha
  <2>1. \E f \in staging[k] : f.live /\ f.safe /\ f.bytes = bytes[k]
    BY <1>0, <1>2 DEF Accept, Staged
  <2> QED
    BY <1>0, <1>2, <2>1, AcceptingSteps
<1>3. ASSUME NEW k \in Keys, Step(k), ~Open(k), ~Fill(k), ~Accept(k)
      PROVE  NamesStay /\ Steady(j)
  BY <1>0, <1>3, QuietSteps, CommittingSteps, PublishingSteps, UnlinkingSteps DEF Step
<1>4. ASSUME NEW k \in Keys,
             \/ StorageFault(k) \/ ClassifyBlind(k)
             \/ \E c \in Contents : Begin(k, c) \/ Resume(k, c) \/ Replay(k, c)
      PROVE  NamesStay /\ Steady(j)
  BY <1>0, <1>4, QuietSteps, CommittingSteps, UnlinkingSteps
<1>5. CASE Serve \/ Restart \/ Crash \/ PowerLoss \/ WalSync \/ UNCHANGED vars
  BY <1>0, <1>5, RuntimeSteps, PowerLossSteps
<1>6. CASE Next
  <2>1. CASE \E k \in Keys : Step(k)
    BY <1>1, <1>2, <1>3, <2>1
  <2>2. CASE \E k \in Keys :
               \/ StorageFault(k) \/ ClassifyBlind(k)
               \/ \E c \in Contents : Begin(k, c) \/ Resume(k, c) \/ Replay(k, c)
    BY <1>4, <2>2
  <2> QED
    BY <1>5, <1>6, <2>1, <2>2 DEF Next
<1> QED
  BY <1>5, <1>6

\* The bytes being accepted stay whole and durable.
LEMMA StagedSteps ==
  ASSUME InboxStagedIInv, [Next]_vars
  PROVE  InboxStagedIInv'
<1>1. InboxIInv'
  BY InboxSteps DEF InboxStagedIInv
<1>2. ASSUME NEW j \in Keys
      PROVE  Staged(j)'
  <2>1. CASE Steady(j)
    <3>1. Staged(j)
      BY DEF InboxStagedIInv
    <3> QED
      BY <2>1, <3>1 DEF Steady, Staged
  <2>2. CASE at'[j] = "publish"
    BY <2>2 DEF Staged
  <2> QED
    BY <2>1, <2>2, StepsAreSteady
<1> QED
  BY <1>1, <1>2 DEF InboxStagedIInv

\* The extended invariant holds in every reachable state.
LEMMA InboxStaged == Spec => []InboxStagedIInv
<1>1. Init => InboxStagedIInv
  BY InboxStarts DEF Init, InboxStagedIInv, Staged
<1>2. InboxStagedIInv /\ [Next]_vars => InboxStagedIInv'
  BY StagedSteps
<1> QED
  BY <1>1, <1>2, PTL DEF Spec

\* No step, power loss included, changes or loses the accepted digest of a
\* receipt whose FULL commit returned.
THEOREM InboxFreezes == Spec => ReceiptIsFrozen
<1>1. ASSUME InboxStagedIInv, [Next]_vars
      PROVE  [\A k \in Keys : Accepted(k) => Receipt(k)'.sha = Receipt(k).sha]_vars
  <2>1. ASSUME NEW k \in Keys, Accepted(k)
        PROVE  Receipt(k)'.sha = Receipt(k).sha
    BY <1>1, <2>1, StepsAreSteady DEF Steady
  <2> QED
    BY <2>1
<1> QED
  BY <1>1, InboxStaged, PTL DEF Spec, ReceiptIsFrozen

\* A copy outlives every step but a purge, and acceptance makes one.
LEMMA CopiesStay ==
  ASSUME InboxStagedIInv, [Next]_vars, NEW k \in Keys, at[k] # "purge", Held(k)
  PROVE  Held(k)'
<1>1. CASE ~Accepted(k) /\ Receipt(k)'.sha = Receipt(k).sha
  BY <1>1 DEF Held, Accepted
<1>2. CASE Accept(k) /\ ~Accepted(k)
  BY <1>2, StepsAreSteady DEF Held, Accepted, Steady
<1>3. CASE Steady(k) /\ Accepted(k)
  <2>1. Receipt(k).sha \in Contents
    BY <1>3, DatabaseTypes DEF InboxStagedIInv, InboxIInv, Typed, Receipt, Accepted
  <2>2. Receipt(k)'.sha = Receipt(k).sha /\ NamesStay
    BY <1>3, StepsAreSteady DEF Steady
  <2>3. CASE blob[Receipt(k).sha] = "safe"
    BY <2>1, <2>2, <2>3 DEF NamesStay, Held
  <2>4. CASE blob[Receipt(k).sha] # "safe"
    <3>1. PICK f \in staging[k] : f.live /\ f.safe /\ f.bytes = Receipt(k).sha
      BY <1>3, <2>4 DEF Held
    <3>2. f \in staging'[k]
      BY <1>3, <2>4, <3>1 DEF Steady, FileGoes
    <3> QED
      BY <2>2, <3>1 , <3>2 DEF Held
  <2> QED
    BY <2>3, <2>4
<1> QED
  BY <1>1, <1>2, <1>3, StepsAreSteady DEF Steady

\* From acceptance on, no step but the purge of a refused receipt takes the last
\* durable copy of the accepted bytes away.
THEOREM InboxKeepsLastCopy == Spec => LastCopyIsKept
<1>1. InboxStagedIInv /\ [Next]_vars =>
        [\A k \in Keys : Held(k) => Held(k)' \/ at[k] = "purge"]_vars
  BY CopiesStay
<1> QED
  BY <1>1, InboxStaged, PTL DEF Spec, LastCopyIsKept

----------------------------------------------------------------------------
(* Refinement of AcceptedCapture *)

\* A step that leaves every receipt as it is, or rewrites k's without ending
\* accepted bytes in a failure, refuses nothing.
LEMMA NothingRefused ==
  ASSUME InboxIInv, NEW k \in Keys, NEW r \in Intake,
         db'.intake = db.intake \/ db'.intake = [db.intake EXCEPT ![k] = r],
         r.state # "failed" \/ r.sha = NoBytes,
         NEW j \in Keys, Refused(j)'
  PROVE  Refused(j)
<1>1. db.intake \in [Keys -> Intake]
  BY DEF InboxIInv, Typed, Database
<1>2. CASE db'.intake = db.intake
  BY <1>2 DEF Refused, Accepted, Receipt
<1>3. CASE db'.intake = [db.intake EXCEPT ![k] = r]
  <2>1. CASE j = k
    BY <1>1, <1>3, <2>1 DEF Refused, Accepted, Receipt
  <2>2. CASE j # k
    BY <1>1, <1>3, <2>2 DEF Refused, Accepted, Receipt
  <2> QED
    BY <2>1, <2>2
<1> QED
  BY <1>2, <1>3

\* A step of one intake that answers nobody.
Silent(k) ==
  \/ Open(k) \/ TooLarge(k) \/ Fill(k)
  \/ Publish(k) \/ Sync(k) \/ Catalog(k)
  \/ Recover(k) \/ Verify(k) \/ Discard(k)
  \/ Link(k) \/ Source(k) \/ SaveProject(k) \/ LinkProject(k)
  \/ Probe(k) \/ Settle(k)
  \/ Classify(k) \/ BootKeeps(k) \/ Purge(k) \/ BootTake(k)
  \/ StorageFault(k) \/ ClassifyBlind(k)
  \/ \E c \in Contents : Begin(k, c) \/ Resume(k, c)

\* Such a step refuses nothing, and tells nobody.
LEMMA SilentRefuseNothing ==
  ASSUME InboxIInv, NEW k \in Keys, Silent(k)
  PROVE  told' = told /\ \A j \in Keys : Refused(j)' => Refused(j)
<1>1. told' = told
  BY DEF Silent, Open, TooLarge, Fill, Publish, Sync, Catalog, Recover, Verify, Discard, Link,
         Source, SaveProject, LinkProject, Probe, Settle, Classify, BootKeeps, Purge, BootTake,
         StorageFault, ClassifyBlind, Begin, Resume
<1>2. Typed /\ Receipt(k) \in Intake /\ db \in Database
  BY DatabaseTypes DEF InboxIInv, Typed, Receipt
<1> DEFINE Allowed(r) ==
      /\ r \in Intake /\ (r.state # "failed" \/ r.sha = NoBytes)
      /\ db'.intake = db.intake \/ db'.intake = [db.intake EXCEPT ![k] = r]
           new == [Blank EXCEPT !.state = "receiving"]
<1>3. new \in Intake /\ new.state = "receiving"
  BY DEF Blank, Intake
<1>4. \E r \in Intake : Allowed(r)
  <2>1. CASE db' = db
    BY <1>3, <2>1
  <2>2. CASE Catalog(k) \/ Source(k) \/ SaveProject(k) \/ Probe(k)
    <3>1. db'.intake = db.intake
      BY <1>2, <2>2 DEF Database, Catalog, Source, SaveProject, Probe, Commit
    <3> QED
      BY <1>3, <3>1
  <2>3. CASE Link(k)
    <3> DEFINE r == [Receipt(k) EXCEPT !.asset = TRUE]
    <3>1. r \in Intake /\ r.state = "receiving"
      BY <1>2, <2>3 DEF Link, Transition, Receiving, Intake
    <3>2. db' = [db EXCEPT !.intake[k] = r]
      BY <2>3 DEF Link, Transition, Commit
    <3>3. db'.intake = [db.intake EXCEPT ![k] = r]
      BY <1>2, <3>1, <3>2, CommitRewrites DEF Rewrites
    <3> QED
      BY <3>1, <3>3
  <2>4. CASE LinkProject(k) /\ db' # db
    <3> DEFINE r == [Receipt(k) EXCEPT !.project = TRUE]
    <3>1. Transition(k, r)
      BY <2>4 DEF LinkProject
    <3>2. r \in Intake /\ r.state = "receiving"
      BY <1>2, <3>1 DEF Transition, Receiving, Intake
    <3>3. db'.intake = [db.intake EXCEPT ![k] = r]
      BY <1>2, <3>1, <3>2, CommitRewrites DEF Rewrites, Transition, Commit
    <3> QED
      BY <3>2, <3>3
  <2>5. CASE Settle(k)
    <3> DEFINE r == [Receipt(k) EXCEPT !.state = at[k]]
    <3>1. r \in Intake /\ r.state # "failed"
      BY <1>2, <2>5 DEF Settle, Intake
    <3>2. db'.intake = [db.intake EXCEPT ![k] = r]
      BY <1>2, <2>5, <3>1, CommitRewrites DEF Rewrites, Settle, Transition, Commit
    <3> QED
      BY <3>1, <3>2
  <2>6. CASE Classify(k) /\ db' # db
    <3> DEFINE r == [Receipt(k) EXCEPT !.state = "failed"]
    <3>1. r \in Intake /\ r.sha = NoBytes
      BY <1>2, <2>6 DEF Classify, Intake, Accepted
    <3>2. db'.intake = [db.intake EXCEPT ![k] = r]
      BY <1>2, <2>6, <3>1, CommitRewrites DEF Rewrites, Classify, Transition, Commit
    <3> QED
      BY <3>1, <3>2
  <2>7. CASE (\E c \in Contents : Begin(k, c)) /\ db' # db
    <3>1. db' = [db EXCEPT !.intake[k] = new]
      BY <2>7 DEF Begin, Commit
    <3>2. db'.intake = [db.intake EXCEPT ![k] = new]
      BY <1>2, <1>3, <3>1, CommitRewrites DEF Rewrites
    <3> QED
      BY <1>3, <3>2
  <2> QED
    BY <2>1, <2>2, <2>3, <2>4, <2>5, <2>6, <2>7
       DEF Silent, Open, TooLarge, Fill, Publish, Sync, Recover, Verify, Discard, LinkProject,
           Classify, BootKeeps, Purge, BootTake, StorageFault, ClassifyBlind, Resume
<1>5. PICK r \in Intake : Allowed(r)
  BY <1>4
<1> QED
  BY <1>1, <1>5, NothingRefused

\* Nor does a step of the runtime or the machine: a power loss only undoes.
LEMMA MachineRefusesNothing ==
  ASSUME InboxIInv, Serve \/ Restart \/ Crash \/ PowerLoss \/ WalSync \/ UNCHANGED vars
  PROVE  told' = told /\ \A j \in Keys : Refused(j)' => Refused(j)
<1>1. told' = told
  BY DEF Serve, Restart, Crash, PowerLoss, WalSync, vars
<1>2. CASE db' = db
  BY <1>1, <1>2 DEF Refused, Accepted, Receipt
<1>3. CASE PowerLoss
  <2>1. db' = disk
    BY <1>3 DEF PowerLoss
  <2> QED
    BY <1>1, <2>1 DEF InboxIInv, Good, Lag, Refused, Accepted, Receipt
<1> QED
  BY <1>2, <1>3 DEF Serve, Restart, Crash, WalSync, vars

\* Nothing is refused or told, and no copy is given up: copies and refusals return.
LEMMA ReturnRefines ==
  ASSUME told' = told,
         \A j \in Keys : Receipt(j)'.sha = Receipt(j).sha,
         \A j \in Keys : Refused(j)' => Refused(j),
         \A j \in Keys : Held(j) => Held(j)'
  PROVE  Promise!Return
<1>1. [k \in Keys |-> Receipt(k).sha]' = [k \in Keys |-> Receipt(k).sha]
  OBVIOUS
<1>2. [k \in Keys |-> Refused(k)]' \in [Keys -> BOOLEAN]
  BY DEF Refused
<1>3. [k \in Keys |-> Accepted(k) /\ Held(k)]' \in [Keys -> BOOLEAN]
  OBVIOUS
<1>4. \A k \in Keys : [j \in Keys |-> Refused(j)]'[k] => [j \in Keys |-> Refused(j)][k]
  BY DEF Refused
<1>5. \A k \in Keys : [j \in Keys |-> Accepted(j) /\ Held(j)][k]
                        => [j \in Keys |-> Accepted(j) /\ Held(j)]'[k]
  BY DEF Accepted
<1> QED
  BY <1>1, <1>2, <1>3, <1>4, <1>5 DEF Promise!Return

\* The acceptance receipt: the bytes it names are held by its staging file.
LEMMA AcceptRefines ==
  ASSUME InboxStagedIInv, NEW k \in Keys, Accept(k)
  PROVE  Promise!Accept(k)
<1>1. [Next]_vars
  BY DEF Next, Step
<1>2. Typed /\ Good(k) /\ InboxIInv /\ bytes[k] \in Contents /\ ~Accepted(k) /\ Receiving(k)
  BY DEF InboxStagedIInv, InboxIInv, Good, Along, Accept
<1>3. Receipt(k)'.sha = bytes[k] /\ Receipt(k).sha = NoBytes
  BY <1>2, AcceptingSteps DEF Accepted
<1>4. \A j \in Keys \ {k} : Receipt(j)' = Receipt(j)
  BY <1>2 DEF Typed, Database, Accept, CommitFull, Receipt
<1>5. Receipt(k)'.state = Receipt(k).state
  BY <1>2 DEF Typed, Database, Intake, Accept, CommitFull, Receipt
<1>6. UNCHANGED <<staging, blob, told>>
  BY DEF Accept, store
<1>7. Held(k)' /\ Accepted(k)'
  <2>1. Held(k) /\ at[k] # "purge"
    BY <1>2 DEF Held, Accept
  <2> QED
    BY <1>1, <1>2, <1>3, <2>1, CopiesStay, NoContent DEF Accepted
<1>8. \A j \in Keys \ {k} : (Accepted(j) /\ Held(j))' = (Accepted(j) /\ Held(j))
  BY <1>4, <1>6 DEF Accepted, Held
<1>9. [j \in Keys |-> Receipt(j).sha]'
        = [[j \in Keys |-> Receipt(j).sha] EXCEPT ![k] = bytes[k]]
  BY <1>3, <1>4
<1>10. [j \in Keys |-> Accepted(j) /\ Held(j)]'
        = [[j \in Keys |-> Accepted(j) /\ Held(j)] EXCEPT ![k] = TRUE]
  BY <1>7, <1>8
<1>11. \A j \in Keys : Refused(j)' = Refused(j)
  BY <1>2, <1>4, <1>5 DEF Refused, Receiving, Accepted
<1>12. [j \in Keys |-> Refused(j)]' = [j \in Keys |-> Refused(j)]
  BY <1>11
<1> QED
  BY <1>2, <1>3, <1>6, <1>9, <1>10, <1>12 DEF Promise!Accept
\* An answer 201: to a capture of a file it names bytes that are held.
LEMMA TellRefines ==
  ASSUME InboxStagedIInv, NEW k \in Keys,
         Finish(k) \/ \E c \in Contents : Replay(k, c)
  PROVE  Promise!Tell(k) \/ Promise!Return
<1>1. [Next]_vars
  BY DEF Next, Step
<1>2. InboxIInv /\ Typed /\ Told(k) /\ Along(k) /\ db' = db /\ blob' = blob
  BY DEF InboxStagedIInv, InboxIInv, Good, Finish, Replay, store
<1>3. /\ Receipt(k).state \in {"prepared", "partial"} /\ at[k] # "purge"
      /\ told' \in {told, [told EXCEPT ![k] = Receipt(k).sha]}
  BY <1>2 DEF Finish, Replay, Idle, Along
<1>4. \A j \in Keys : Receipt(j)' = Receipt(j) /\ (Refused(j)' = Refused(j))
  BY <1>2 DEF Receipt, Refused, Accepted
<1>5. \A j \in Keys \ {k} : staging'[j] = staging[j]
  BY <1>2 DEF Typed, Finish, Replay, BestEffort, store
<1>6. Held(k) => Held(k)'
  BY <1>1, <1>3, CopiesStay
<1>7. \A j \in Keys : Held(j) => Held(j)'
  BY <1>2, <1>4, <1>5, <1>6 DEF Held, Accepted
<1>8. CASE told' = told
  BY <1>4, <1>7, <1>8, ReturnRefines
<1>9. CASE told' # told
  <2>1. told' = [told EXCEPT ![k] = Receipt(k).sha] /\ Accepted(k)
    BY <1>2, <1>3, <1>9 DEF Typed, Told, Accepted
  <2>2. blob[Receipt(k).sha] = "safe" /\ ~Refused(k)
    BY <1>2, <1>3, <2>1, FinishedIsDurable DEF Refused
  <2>3. Held(k) /\ Held(k)'
    BY <1>2, <1>4, <2>2 DEF Held, Accepted
  <2>4. \A j \in Keys : (Accepted(j) /\ Held(j))' = (Accepted(j) /\ Held(j))
    <3>1. (Accepted(k) /\ Held(k))' = (Accepted(k) /\ Held(k))
      BY <1>4, <2>1, <2>3 DEF Accepted
    <3>2. ASSUME NEW j \in Keys \ {k}
          PROVE  (Accepted(j) /\ Held(j))' = (Accepted(j) /\ Held(j))
      BY <1>2, <1>4, <1>5, <3>2 DEF Accepted, Held
    <3> QED
      BY <3>1, <3>2
  <2>5. [j \in Keys |-> Receipt(j).sha]' = [j \in Keys |-> Receipt(j).sha]
    BY <1>4
  <2>6. [j \in Keys |-> Accepted(j) /\ Held(j)]' = [j \in Keys |-> Accepted(j) /\ Held(j)]
    BY <2>4
  <2>7. [j \in Keys |-> Refused(j)]' = [j \in Keys |-> Refused(j)]
    BY <1>4
  <2> QED
    BY <2>1, <2>2, <2>3, <2>5, <2>6, <2>7 DEF Promise!Tell, Accepted
<1> QED
  BY <1>8, <1>9

\* A receipt that is failed: nothing was accepted, or nobody told.
LEMMA RefuseRefines ==
  ASSUME InboxStagedIInv, NEW k \in Keys, Refuse(k) \/ BootFails(k)
  PROVE  Promise!Refuse(k) \/ Promise!Return
<1>1. [Next]_vars
  BY DEF Next, Step
<1>2. InboxIInv /\ Typed /\ Told(k) /\ Receipt(k) \in Intake
  BY DatabaseTypes DEF InboxStagedIInv, InboxIInv, Good, Typed, Receipt
<1>3. UNCHANGED <<staging, blob, told>>
  BY DEF Refuse, BootFails, store
<1>4. at[k] # "purge" /\ ~Accept(k)
  BY DEF Refuse, BootFails, Accept
<1>5. /\ \A j \in Keys : Receipt(j)'.sha = Receipt(j).sha
      /\ \A j \in Keys : (Held(j) /\ Accepted(j))' = (Held(j) /\ Accepted(j))
  <2>1. \A j \in Keys : Receipt(j)'.sha = Receipt(j).sha
    BY <1>2, CommittingSteps DEF Steady
  <2> QED
    BY <1>3, <2>1 DEF Held, Accepted
<1>6. CASE db' = db
  <2>1. \A j \in Keys : Refused(j)' => Refused(j)
    BY <1>6 DEF Refused, Accepted, Receipt
  <2>2. \A j \in Keys : Held(j) => Held(j)'
    BY <1>3, <1>5 DEF Held, Accepted
  <2> QED
    BY <1>3, <1>5, <2>1, <2>2, ReturnRefines
<1> DEFINE r == [Receipt(k) EXCEPT !.state = "failed"]
<1>7. CASE db' # db
  <2>1. Transition(k, r)
    BY <1>7 DEF Refuse, BootFails
  <2>2. r \in Intake /\ r.sha = Receipt(k).sha /\ r.state = "failed"
    BY <1>2 DEF Intake
  <2>3. db'.intake = [db.intake EXCEPT ![k] = r]
    BY <1>2, <2>1, <2>2, CommitRewrites DEF Rewrites, Transition, Commit
  <2>4. \A j \in Keys : j # k => Receipt(j)' = Receipt(j)
    BY <1>2, <2>3 DEF Receipt, Typed, Database
  <2>5. Receipt(k)' = r
    BY <1>2, <2>3 DEF Receipt, Typed, Database
  <2>6. CASE ~Accepted(k)
    <3>1. \A j \in Keys : Refused(j)' => Refused(j)
      BY <2>2, <2>4, <2>5, <2>6 DEF Refused, Accepted
    <3>2. \A j \in Keys : Held(j) => Held(j)'
      BY <1>3, <1>5 DEF Held, Accepted
    <3> QED
      BY <1>3, <1>5, <3>1, <3>2, ReturnRefines
  <2>7. CASE Accepted(k)
    <3>1. told[k] = NoBytes
      <4>1. CASE Refuse(k) \/ at[k] \in {"lost", "refused"}
        BY <1>2, <4>1 DEF Refuse, Told
      <4>2. CASE BootFails(k) /\ at[k] \notin {"lost", "refused"}
        BY <2>7, <4>2 DEF BootFails
      <4> QED
        BY <4>1, <4>2
    <3>2. Refused(k)'
      BY <2>2, <2>5, <2>7 DEF Refused, Accepted
    <3>3. \A j \in Keys : j # k => Refused(j)' = Refused(j)
      BY <2>4 DEF Refused, Accepted
    <3>4. [j \in Keys |-> Refused(j)]' = [[j \in Keys |-> Refused(j)] EXCEPT ![k] = TRUE]
      BY <3>2, <3>3 DEF Refused
    <3>5. [j \in Keys |-> Accepted(j) /\ Held(j)]' = [j \in Keys |-> Accepted(j) /\ Held(j)]
      BY <1>5
    <3>6. [j \in Keys |-> Receipt(j).sha]' = [j \in Keys |-> Receipt(j).sha]
      BY <1>5
    <3> QED
      BY <1>3, <2>7, <3>1, <3>4, <3>5, <3>6 DEF Promise!Refuse, Accepted
  <2> QED
    BY <2>6, <2>7
<1> QED
  BY <1>6, <1>7

\* A purge gives up the copy of what is refused.
LEMMA PurgeRefines ==
  ASSUME InboxStagedIInv, NEW k \in Keys, Purge(k)
  PROVE  Promise!Drop(k) \/ Promise!Return
<1>1. InboxIInv /\ Typed /\ Along(k) /\ at[k] = "purge"
  BY DEF InboxStagedIInv, InboxIInv, Good, Purge
<1>2. UNCHANGED <<db, blob, told>> /\ BestEffort(k, Candidates(k))
  BY DEF Purge
<1>3. \A j \in Keys : Receipt(j)' = Receipt(j) /\ (Refused(j)' = Refused(j))
  BY <1>2 DEF Receipt, Refused, Accepted
<1>4. \A j \in Keys \ {k} : staging'[j] = staging[j]
  BY <1>1, <1>2 DEF Typed, BestEffort
<1>5. \A j \in Keys \ {k} : (Accepted(j) /\ Held(j))' = (Accepted(j) /\ Held(j))
  BY <1>2, <1>3, <1>4 DEF Held, Accepted
<1>6. CASE Held(k) => Held(k)'
  <2>1. \A j \in Keys : Held(j) => Held(j)'
    BY <1>3, <1>5, <1>6 DEF Held, Accepted
  <2> QED
    BY <1>2, <1>3, <2>1, ReturnRefines
<1>7. CASE Held(k) /\ ~Held(k)'
  <2>1. Accepted(k) /\ Refused(k)
    BY <1>1, <1>3, <1>7 DEF Held, Accepted, Refused, Along
  <2>2. [j \in Keys |-> Accepted(j) /\ Held(j)]'
          = [[j \in Keys |-> Accepted(j) /\ Held(j)] EXCEPT ![k] = FALSE]
    BY <1>5, <1>7
  <2>3. [j \in Keys |-> Receipt(j).sha]' = [j \in Keys |-> Receipt(j).sha]
    BY <1>3
  <2>4. [j \in Keys |-> Refused(j)]' = [j \in Keys |-> Refused(j)]
    BY <1>3
  <2> QED
    BY <1>2, <2>1, <2>2, <2>3, <2>4 DEF Promise!Drop
<1> QED
  BY <1>6, <1>7

\* A step of intake k writes no staging file of another, but may sync them all.
LEMMA OthersKeepCopies ==
  ASSUME InboxIInv, NEW k \in Keys, Silent(k), NEW j \in Keys, j # k, Held(j),
         Receipt(j)'.sha = Receipt(j).sha
  PROVE  Held(j)'
<1>1. staging'[j] \in {staging[j], Synced(staging[j])}
  BY DEF InboxIInv, Typed, Silent, Open, TooLarge, Fill, Publish, Sync, Catalog, Recover, Verify,
         Discard, Link, Source, SaveProject, LinkProject, Probe, Settle, Classify, BootKeeps,
         Purge, BootTake, StorageFault, ClassifyBlind, Begin, Resume, BestEffort, store
<1>2. NamesStay
  <2>1. CASE Open(k) \/ Fill(k)
    BY <2>1 DEF Open, Fill, NamesStay
  <2>2. CASE ~(Open(k) \/ Fill(k))
    BY <2>2, QuietSteps, CommittingSteps, PublishingSteps, UnlinkingSteps DEF Silent
  <2> QED
    BY <2>1, <2>2
<1>3. Receipt(j).sha \in Contents \cup {NoBytes} /\ staging[j] \in SUBSET StagingFile
  BY DatabaseTypes DEF InboxIInv, Typed, Receipt
<1>4. \A f \in staging[j] : f.live /\ f.safe => f \in staging'[j]
  BY <1>1, <1>3, SyncedKeeps
<1> QED
  BY <1>2, <1>3, <1>4 DEF Held, NamesStay, Accepted

\* A step of one intake that only moves it on.
LEMMA SilentRefines ==
  ASSUME InboxStagedIInv, NEW k \in Keys, Silent(k), ~Purge(k)
  PROVE  Promise!Return
<1>1. [Next]_vars /\ InboxIInv
  BY DEF Silent, Next, Step, InboxStagedIInv
<1>2. told' = told /\ \A j \in Keys : Refused(j)' => Refused(j)
  BY <1>1, SilentRefuseNothing
<1>3. \A j \in Keys : Steady(j) \/ Receipt(j)'.sha = Receipt(j).sha
  <2>1. CASE Open(k) \/ Fill(k)
    <3>1. db' = db
      BY <2>1 DEF Open, Fill
    <3> QED
      BY <3>1 DEF Receipt
  <2>2. CASE ~(Open(k) \/ Fill(k))
    BY <1>1, <2>2, QuietSteps, CommittingSteps, PublishingSteps, UnlinkingSteps DEF Silent
  <2> QED
    BY <2>1, <2>2
<1>4. \A j \in Keys : Receipt(j)'.sha = Receipt(j).sha
  BY <1>3 DEF Steady
<1>5. \A j \in Keys : Held(j) => Held(j)'
  <2>1. ASSUME NEW j \in Keys, Held(j)
        PROVE  Held(j)'
    <3>1. CASE at[j] # "purge"
      BY <1>1, <2>1, <3>1, CopiesStay
    <3>2. CASE at[j] = "purge"
      <4>1. j # k
        BY <1>1, <3>2
           DEF InboxIInv, Good, Along, Silent, Open, TooLarge, Fill, Publish, Sync, Catalog,
               Recover, Verify, Discard, Link, Source, SaveProject, LinkProject, Probe, Settle,
               Classify, BootKeeps, BootTake, StorageFault, ClassifyBlind, Begin, Resume, Idle,
               StorageSteps
      <4> QED
        BY <1>1, <1>4, <2>1, <4>1, OthersKeepCopies
    <3> QED
      BY <3>1, <3>2
  <2> QED
    BY <2>1
<1> QED
  BY <1>2, <1>4, <1>5, ReturnRefines

\* The runtime and the machine: what they undo are refusals and removals.
LEMMA MachineRefines ==
  ASSUME InboxStagedIInv, Serve \/ Restart \/ Crash \/ PowerLoss \/ WalSync \/ UNCHANGED vars
  PROVE  Promise!Return
<1>1. InboxIInv
  BY DEF InboxStagedIInv
<1>2. told' = told /\ \A j \in Keys : Refused(j)' => Refused(j)
  BY <1>1, MachineRefusesNothing
<1>3. \A j \in Keys : NamesStay /\ Receipt(j)'.sha = Receipt(j).sha
  BY <1>1, RuntimeSteps, PowerLossSteps DEF Steady
<1>4. \A j \in Keys : \A f \in staging[j] : f.live /\ f.safe => f \in staging'[j]
  <2>1. CASE PowerLoss
    BY <1>1, <2>1, PowerLossSteps
  <2>2. CASE staging' = staging
    BY <2>2
  <2> QED
    BY <2>1, <2>2 DEF Serve, Restart, Crash, WalSync, vars, store
<1>5. \A j \in Keys : Receipt(j).sha \in Contents \cup {NoBytes}
  BY <1>1, DatabaseTypes DEF InboxIInv, Typed, Receipt
<1>6. \A j \in Keys : Held(j) => Held(j)'
  BY <1>3, <1>4, <1>5 DEF Held, NamesStay, Accepted
<1> QED
  BY <1>2, <1>3, <1>6, ReturnRefines

\* Every step of the Inbox is one of the promise, or leaves it alone.
LEMMA InboxStepRefines ==
  ASSUME InboxStagedIInv, [Next]_vars
  PROVE  Promise!Next
<1>1. CASE \E k \in Keys : Silent(k) \/ Accept(k) \/ Finish(k) \/ Refuse(k) \/ BootFails(k)
                               \/ \E c \in Contents : Replay(k, c)
  BY <1>1, SilentRefines, PurgeRefines, AcceptRefines, TellRefines, RefuseRefines
     DEF Promise!Next
<1>2. CASE Serve \/ Restart \/ Crash \/ PowerLoss \/ WalSync \/ UNCHANGED vars
  BY <1>2, MachineRefines DEF Promise!Next
<1> QED
  BY <1>1, <1>2 DEF Next, Step, Silent

\* Uploads, retries, failures, recovery, deaths and power losses implement the
\* promise to whoever captures, for any keys, contents and bounds.
THEOREM InboxKeepsPromise == Spec => ImplementsAcceptedCapture
<1>1. Init => Promise!Init
  <2>1. SUFFICES ASSUME Init PROVE Promise!Init
    OBVIOUS
  <2>2. \A k \in Keys : Receipt(k).sha = NoBytes /\ ~Accepted(k) /\ ~Refused(k)
    BY <2>1 DEF Init, Blank, Receipt, Accepted, Refused
  <2>3. [k \in Keys |-> Receipt(k).sha] = [k \in Keys |-> NoBytes]
    BY <2>2
  <2>4. [k \in Keys |-> Accepted(k) /\ Held(k)] = [k \in Keys |-> FALSE]
    BY <2>2
  <2>5. [k \in Keys |-> Refused(k)] = [k \in Keys |-> FALSE]
    BY <2>2 DEF Refused
  <2> QED
    BY <2>1, <2>3, <2>4, <2>5 DEF Promise!Init, Init
<1>2. InboxStagedIInv /\ [Next]_vars => [Promise!Next]_(Promise!vars)
  BY InboxStepRefines
<1> QED
  BY <1>1, <1>2, InboxStaged, PTL DEF Spec, ImplementsAcceptedCapture, Promise!Spec
=============================================================================
