--------------------------- MODULE DialogueProofs ---------------------------
(***************************************************************************)
(* Proofs about PanelDialogue, VoicedStory and SharedScenes: the way from     *)
(* the text of a panel to an accepted dialogue, from there to a voiced story  *)
(* and its presentation, and from a voiced scene to its copies in a long      *)
(* form.  The three have nothing in common but the shape of their proofs: a   *)
(* write replaces one manifest, so an invariant is a predicate on manifests   *)
(* together with what a snapshot that is still fresh says of the stored one.  *)
(***************************************************************************)
EXTENDS PanelDialogue, VoicedStory, SharedScenes, SequenceTheorems, TLAPS

----------------------------------------------------------------------------
(* PanelDialogue: the manifest *)

PanelManifest ==
  [state : Editable \cup {"rendering", "done"}, preview : {"absent", "open", "approved"},
   text : [Panels -> Texts], ocrTask : [Panels -> OcrTask], ocrResume : Editable \cup {Unnamed},
   registry : Registry, speaker : [Panels -> [by : Characters \cup {Unnamed}, text : Texts]],
   task : [Panels -> DialogueTask], resume : Settling \cup {Unnamed}]

\* Open tasks are answerable and answers proven, as one predicate on manifests.
\* Every request answers tasks one by one, so the queue's all or nothing is no
\* more than the guard of each.
Answerable(p) ==
  /\ \A s \in Panels : p.ocrTask[s].status = "open" => Correctable(p, s)
  /\ \A s \in Panels : p.task[s].status = "open" => Assignable(p, s) /\ Registered(p) # {}
  /\ \A s \in Panels : p.speaker[s].by # Unnamed => Proven(p, s)

\* What a reader with a fresh snapshot may rely on when the answer comes: its
\* panel is still unread, and the state it will put into the task is the one
\* that the open tasks have.
ReadsFresh(r) ==
  reader[r].fresh =>
    /\ reader[r].panel \in Panels /\ panel.text[reader[r].panel] = "unread"
    /\ reader[r].resume \in Editable
    /\ panel.ocrResume # Unnamed => reader[r].resume = panel.ocrResume

PanelIInv ==
  /\ panel \in PanelManifest /\ Answerable(panel)
  /\ reader \in [Readers -> [panel : Panels \cup {Unnamed}, resume : Editable \cup {Unnamed},
                             fresh : BOOLEAN]]
  /\ \A r \in Readers : ReadsFresh(r)

\* The inductive invariant says all that the run checks.
LEMMA PanelInvHolds ==
  ASSUME PanelIInv
  PROVE  PanelReviewInv
<1>1. PanelTypeOK
  BY DEF PanelIInv, PanelTypeOK, PanelManifest
<1>2. OpenWorkIsActionable
  BY DEF PanelIInv, Answerable, OpenWorkIsActionable, OpenDialogue, Queued
<1>3. AcceptedDialogueIsProven
  BY DEF PanelIInv, Answerable, AcceptedDialogueIsProven, Assigned
<1> QED
  BY <1>1, <1>2, <1>3 DEF PanelReviewInv

\* A write of a sound manifest keeps the invariant: no snapshot stays fresh.
LEMMA PanelCommitKeeps ==
  ASSUME PanelIInv, NEW p \in PanelManifest, Answerable(p), PanelCommit(p)
  PROVE  PanelIInv'
<1>1. panel' \in PanelManifest /\ Answerable(panel)'
  BY DEF PanelCommit, Answerable, Correctable, Assignable, Proven, Registered, Assigned,
         Readable, Canonical
<1>2. \A r \in Readers : reader'[r] = [reader[r] EXCEPT !.fresh = FALSE]
  BY DEF PanelCommit
<1>3. reader' \in [Readers -> [panel : Panels \cup {Unnamed}, resume : Editable \cup {Unnamed},
                               fresh : BOOLEAN]]
  BY DEF PanelCommit, PanelIInv
<1>4. \A r \in Readers : ReadsFresh(r)'
  BY <1>2 DEF ReadsFresh, PanelIInv
<1> QED
  BY <1>1, <1>3, <1>4 DEF PanelIInv

----------------------------------------------------------------------------
(* PanelDialogue: what a write makes of the manifest *)

\* A manifest differs from another in these fields at most; the panels whose
\* tasks are not written keep what their tasks rely on.
LEMMA PanelOnly ==
  ASSUME NEW p \in PanelManifest, NEW q \in PanelManifest, Answerable(p),
         q.registry = p.registry \/ \A s \in Panels : p.task[s].status # "open",
         Registered(p) \subseteq Registered(q),
         NEW s \in Panels,
         q.text[s] = p.text[s], q.ocrTask[s] = p.ocrTask[s], q.task[s] = p.task[s],
         q.speaker[s] = p.speaker[s],
         p.ocrTask[s].status = "open" => q.ocrResume = p.ocrResume /\ q.state = "needs_review",
         p.task[s].status = "open" => q.resume = p.resume /\ q.state = "needs_review"
  PROVE  /\ q.ocrTask[s].status = "open" => Correctable(q, s)
         /\ q.task[s].status = "open" => Assignable(q, s) /\ Registered(q) # {}
         /\ q.speaker[s].by # Unnamed => Proven(q, s)
<1>1. q.ocrTask[s].status = "open" => Correctable(q, s)
  BY DEF Answerable, Correctable
<1>2. q.task[s].status = "open" => Assignable(q, s) /\ Registered(q) # {}
  BY DEF Answerable, Assignable, Assigned, Readable, Canonical
<1>3. q.speaker[s].by # Unnamed => Proven(q, s)
  BY DEF Answerable, Proven, Readable
<1> QED
  BY <1>1, <1>2, <1>3

\* An answer of OCR is retained; an uncertain one asks for its correction.
OcrRead(p, s, t) == [p EXCEPT !.text[s] = t]

OcrAsked(p, s, t, resume) ==
  [OcrRead(p, s, t) EXCEPT !.state = "needs_review", !.ocrResume = resume,
     !.ocrTask[s] = [status |-> "open", resume |-> resume, seen |-> t]]

\* Nothing else relied on a panel that was unread.
LEMMA OcrAnswers ==
  ASSUME PanelAssumption, NEW p \in PanelManifest, Answerable(p), NEW s \in Panels,
         p.text[s] = "unread", NEW t \in {"certain", "uncertain"}, NEW resume \in Editable,
         p.ocrResume # Unnamed => resume = p.ocrResume,
         NEW q, q = IF t = "certain" THEN OcrRead(p, s, t) ELSE OcrAsked(p, s, t, resume)
  PROVE  q \in PanelManifest /\ Answerable(q)
<1> DEFINE read == [p EXCEPT !.text[s] = t]
           open == [status |-> "open", resume |-> resume, seen |-> t]
<1>1. /\ read \in PanelManifest /\ read.text = [p.text EXCEPT ![s] = t]
      /\ read.state = p.state /\ read.preview = p.preview /\ read.ocrTask = p.ocrTask
      /\ read.ocrResume = p.ocrResume /\ read.registry = p.registry
      /\ read.speaker = p.speaker /\ read.task = p.task /\ read.resume = p.resume
  BY DEF PanelManifest, Texts
<1>2. open \in OcrTask
  BY DEF OcrTask, Texts
<1>3. p.ocrTask[s].status # "open" /\ p.task[s].status # "open" /\ p.speaker[s].by = Unnamed
  BY DEF Answerable, Correctable, Assignable, Proven, Readable
<1>4. CASE t = "certain"
  <2>1. q = read
    BY <1>4 DEF OcrRead
  <2> HIDE DEF read
  <2>2. q \in PanelManifest /\ Registered(q) = Registered(p)
    BY <1>1, <2>1 DEF Registered
  <2>3. \A u \in Panels : u # s => q.text[u] = p.text[u]
    BY <1>1, <2>1 DEF PanelManifest
  <2>4. ASSUME NEW u \in Panels
        PROVE  /\ q.ocrTask[u].status = "open" => Correctable(q, u)
               /\ q.task[u].status = "open" => Assignable(q, u) /\ Registered(q) # {}
               /\ q.speaker[u].by # Unnamed => Proven(q, u)
    <3>1. CASE u = s
      BY <1>1, <1>3, <2>1, <3>1
    <3>2. CASE u # s
      <4>1. p.ocrTask[u].status = "open" => q.ocrResume = p.ocrResume /\ q.state = "needs_review"
        BY <1>1, <2>1 DEF Answerable, Correctable
      <4>2. p.task[u].status = "open" => q.resume = p.resume /\ q.state = "needs_review"
        BY <1>1, <2>1 DEF Answerable, Assignable
      <4>3. /\ q.text[u] = p.text[u] /\ q.ocrTask[u] = p.ocrTask[u] /\ q.task[u] = p.task[u]
            /\ q.speaker[u] = p.speaker[u] /\ q.registry = p.registry
        BY <1>1, <2>1, <2>3, <3>2
      <4> QED
        BY <2>2, <4>1, <4>2, <4>3, PanelOnly
    <3> QED
      BY <3>1, <3>2
  <2> QED
    BY <2>2, <2>4 DEF Answerable
<1>5. CASE t = "uncertain"
  <2>1. q = [read EXCEPT !.state = "needs_review", !.ocrResume = resume, !.ocrTask[s] = open]
    BY <1>5 DEF OcrRead, OcrAsked
  <2> HIDE DEF read, open
  <2>2. /\ q \in PanelManifest /\ q.text = read.text /\ q.state = "needs_review"
        /\ q.ocrTask = [p.ocrTask EXCEPT ![s] = open]
        /\ q.ocrResume = resume /\ q.registry = p.registry
        /\ q.speaker = p.speaker /\ q.task = p.task /\ q.resume = p.resume
    <3> DEFINE tasks == [p.ocrTask EXCEPT ![s] = open]
    <3>1. tasks \in [Panels -> OcrTask]
      BY <1>2 DEF PanelManifest
    <3>2. q = [read EXCEPT !.state = "needs_review", !.ocrResume = resume, !.ocrTask = tasks]
      BY <1>1, <2>1 DEF PanelManifest
    <3> HIDE DEF tasks
    <3>3. /\ q \in PanelManifest /\ q.text = read.text /\ q.state = "needs_review"
          /\ q.ocrTask = tasks /\ q.ocrResume = resume /\ q.registry = p.registry
          /\ q.speaker = p.speaker /\ q.task = p.task /\ q.resume = p.resume
      BY <1>1, <3>1, <3>2 DEF PanelManifest, Editable
    <3> QED
      BY <3>3 DEF tasks
  <2>3. Registered(q) = Registered(p)
    BY <2>2 DEF Registered
  <2>4. \A u \in Panels : u # s => q.text[u] = p.text[u] /\ q.ocrTask[u] = p.ocrTask[u]
    BY <1>1, <2>2 DEF PanelManifest
  <2>5. q.text[s] = t /\ q.ocrTask[s] = open
    BY <1>1, <2>2 DEF PanelManifest
  <2>6. ASSUME NEW u \in Panels
        PROVE  /\ q.ocrTask[u].status = "open" => Correctable(q, u)
               /\ q.task[u].status = "open" => Assignable(q, u) /\ Registered(q) # {}
               /\ q.speaker[u].by # Unnamed => Proven(q, u)
    <3>1. CASE u = s
      <4>1. Correctable(q, s)
        BY <1>5, <2>2, <2>5 DEF Correctable, open
      <4> QED
        BY <1>3, <2>2, <3>1, <4>1
    <3>2. CASE u # s
      <4>1. p.ocrTask[u].status = "open" => p.ocrResume = resume
        BY PanelAssumption DEF Answerable, Correctable, Editable, Settling
      <4>2. p.ocrTask[u].status = "open" => q.ocrResume = p.ocrResume /\ q.state = "needs_review"
        BY <2>2, <4>1
      <4>3. p.task[u].status = "open" => q.resume = p.resume /\ q.state = "needs_review"
        BY <2>2
      <4>4. /\ q.text[u] = p.text[u] /\ q.ocrTask[u] = p.ocrTask[u] /\ q.task[u] = p.task[u]
            /\ q.speaker[u] = p.speaker[u] /\ q.registry = p.registry
        BY <2>2, <2>4, <3>2
      <4>5. q \in PanelManifest /\ Registered(p) \subseteq Registered(q)
        BY <2>2, <2>3
      <4> QED
        BY <4>2, <4>3, <4>4, <4>5, PanelOnly
    <3> QED
      BY <3>1, <3>2
  <2> QED
    BY <2>2, <2>6 DEF Answerable
<1> QED
  BY <1>4, <1>5

\* Nothing is open in a project that is not held for review, or that no task blocks.
LEMMA NothingOpen ==
  ASSUME NEW p \in PanelManifest, Answerable(p), p.state # "needs_review"
  PROVE  \A s \in Panels : p.ocrTask[s].status # "open" /\ p.task[s].status # "open"
  BY DEF Answerable, Correctable, Assignable

\* A write of fields no task relies on: with nothing open, anything goes.
LEMMA StateMoves ==
  ASSUME NEW p \in PanelManifest, Answerable(p), NEW q \in PanelManifest,
         q.text = p.text, q.ocrTask = p.ocrTask, q.task = p.task, q.speaker = p.speaker,
         q.ocrResume = p.ocrResume, q.resume = p.resume,
         Registered(p) \subseteq Registered(q),
         \/ q.registry = p.registry /\ q.state = "needs_review"
         \/ \A s \in Panels : p.ocrTask[s].status # "open" /\ p.task[s].status # "open"
  PROVE  Answerable(q)
<1>1. ASSUME NEW u \in Panels
      PROVE  /\ q.ocrTask[u].status = "open" => Correctable(q, u)
             /\ q.task[u].status = "open" => Assignable(q, u) /\ Registered(q) # {}
             /\ q.speaker[u].by # Unnamed => Proven(q, u)
  BY PanelOnly
<1> QED
  BY <1>1 DEF Answerable

\* A correction: the task is answered, and the others' resume state is there
\* as long as one of them is open.
LEMMA CorrectionKeeps ==
  ASSUME PanelAssumption, PanelIInv, Correct
  PROVE  PanelIInv'
<1> DEFINE p == panel
<1>1. PICK s \in Panels : /\ Correctable(p, s)
        /\ LET fixed == [p EXCEPT !.text[s] = "corrected", !.ocrTask[s].status = "resolved"]
               left  == IF OpenOcr(fixed) = {} THEN [fixed EXCEPT !.ocrResume = Unnamed] ELSE fixed
           IN PanelCommit(Settle(left, p.ocrResume))
  BY DEF Correct
<1>2. p \in PanelManifest /\ Answerable(p)
  BY DEF PanelIInv
<1> DEFINE fixed == [p EXCEPT !.text[s] = "corrected", !.ocrTask[s].status = "resolved"]
           left  == IF OpenOcr(fixed) = {} THEN [fixed EXCEPT !.ocrResume = Unnamed] ELSE fixed
           q     == Settle(left, p.ocrResume)
<1> HIDE DEF p
<1>3. /\ fixed \in PanelManifest /\ fixed.registry = p.registry /\ fixed.resume = p.resume
      /\ fixed.speaker = p.speaker /\ fixed.task = p.task /\ fixed.ocrResume = p.ocrResume
      /\ fixed.text = [p.text EXCEPT ![s] = "corrected"]
      /\ fixed.ocrTask = [p.ocrTask EXCEPT ![s].status = "resolved"]
  <2> DEFINE texts == [p.text EXCEPT ![s] = "corrected"]
             tasks == [p.ocrTask EXCEPT ![s].status = "resolved"]
  <2>1. texts \in [Panels -> Texts]
    BY <1>2 DEF PanelManifest, Texts
  <2>2. tasks \in [Panels -> OcrTask]
    BY <1>2 DEF PanelManifest, OcrTask
  <2>3. fixed = [[p EXCEPT !.text = texts] EXCEPT !.ocrTask = tasks]
    BY <1>2 DEF PanelManifest
  <2> HIDE DEF texts, tasks, fixed
  <2>4. QED
    BY <1>2, <2>1, <2>2, <2>3 DEF PanelManifest, texts, tasks
<1> HIDE DEF fixed
<1>4. /\ left \in PanelManifest /\ left.registry = p.registry /\ left.resume = p.resume
      /\ left.speaker = p.speaker /\ left.task = p.task /\ left.text = fixed.text
      /\ left.ocrTask = fixed.ocrTask
      /\ left.ocrResume = IF OpenOcr(fixed) = {} THEN Unnamed ELSE p.ocrResume
  BY <1>3 DEF PanelManifest
<1> HIDE DEF left
<1>5. /\ q \in PanelManifest /\ q.registry = p.registry /\ q.resume = p.resume
      /\ q.speaker = p.speaker /\ q.task = p.task /\ q.text = fixed.text
      /\ q.ocrTask = fixed.ocrTask /\ q.ocrResume = left.ocrResume
      /\ q.state = IF Blockers(left) THEN "needs_review" ELSE p.ocrResume
  BY <1>1, <1>4 DEF PanelManifest, Settle, Correctable, Editable, Settling
<1> HIDE DEF q
<1>6. Registered(q) = Registered(p)
  BY <1>5 DEF Registered
<1>7. p.task[s].status # "open" /\ p.speaker[s].by = Unnamed
  BY <1>1, <1>2 DEF Answerable, Correctable, Assignable, Proven, Readable
<1>8. fixed.ocrTask[s].status = "resolved"
  BY <1>2, <1>3 DEF PanelManifest, OcrTask
<1>9. \A u \in Panels : u # s => fixed.text[u] = p.text[u] /\ fixed.ocrTask[u] = p.ocrTask[u]
  BY <1>2, <1>3 DEF PanelManifest
<1>10. ASSUME NEW u \in Panels
       PROVE  /\ q.ocrTask[u].status = "open" => Correctable(q, u)
              /\ q.task[u].status = "open" => Assignable(q, u) /\ Registered(q) # {}
              /\ q.speaker[u].by # Unnamed => Proven(q, u)
  <2>1. CASE u = s
    BY <1>5, <1>7, <1>8, <2>1
  <2>2. CASE u # s
    <3>1. p.ocrTask[u].status = "open" => q.ocrResume = p.ocrResume /\ q.state = "needs_review"
      BY <1>4, <1>5, <1>9, <2>2 DEF OpenOcr, Blockers
    <3>2. p.task[u].status = "open" => q.resume = p.resume /\ q.state = "needs_review"
      BY <1>4, <1>5 DEF OpenDialogue, Blockers
    <3>3. /\ q.text[u] = p.text[u] /\ q.ocrTask[u] = p.ocrTask[u] /\ q.task[u] = p.task[u]
          /\ q.speaker[u] = p.speaker[u] /\ q.registry = p.registry
      BY <1>5, <1>9, <2>2
    <3>4. q \in PanelManifest /\ Registered(p) \subseteq Registered(q)
      BY <1>5, <1>6
    <3> QED
      BY <1>2, <3>1, <3>2, <3>3, <3>4, PanelOnly
  <2> QED
    BY <2>1, <2>2
<1>11. Answerable(q)
  BY <1>10 DEF Answerable
<1> QED
  BY <1>1, <1>5, <1>11, PanelCommitKeeps DEF q, left, fixed, p

\* The registry changes only while no dialogue task shows it.
LEMMA RegistryKeeps ==
  ASSUME PanelIInv, RegisterCharacter \/ UpdateCharacter
  PROVE  PanelIInv'
<1> DEFINE p == panel
<1>1. PICK c \in Characters, v \in {"recorded", "renamed"} :
        RegistryIsFree(p) /\ PanelCommit([p EXCEPT !.registry[c] = v])
  BY DEF RegisterCharacter, UpdateCharacter, Rename, PanelIInv, PanelManifest, Registry
<1> DEFINE q == [p EXCEPT !.registry[c] = v]
<1>2. p \in PanelManifest /\ Answerable(p)
  BY DEF PanelIInv
<1> HIDE DEF p
<1>3. /\ q \in PanelManifest /\ q.state = p.state /\ q.text = p.text /\ q.ocrTask = p.ocrTask
      /\ q.task = p.task /\ q.speaker = p.speaker /\ q.ocrResume = p.ocrResume
      /\ q.resume = p.resume /\ q.registry = [p.registry EXCEPT ![c] = v]
  BY <1>2 DEF PanelManifest, Registry
<1>4. Registered(p) \subseteq Registered(q)
  BY <1>2, <1>3 DEF Registered, PanelManifest, Registry
<1>5. \A s \in Panels : p.ocrTask[s].status # "open" /\ p.task[s].status # "open"
  BY <1>1, <1>2, NothingOpen DEF RegistryIsFree, Settling
<1> HIDE DEF q
<1>6. Answerable(q)
  BY <1>2, <1>3, <1>4, <1>5, StateMoves
<1> QED
  BY <1>1, <1>3, <1>6, PanelCommitKeeps DEF q, p

\* A dialogue task shows text, registry and resume state of its own write.
LEMMA PrepareKeeps ==
  ASSUME PanelAssumption, PanelIInv, PrepareScene
  PROVE  PanelIInv'
<1> DEFINE p == panel
<1>1. PICK s \in Panels :
        /\ Registered(p) # {} /\ s \notin Assigned(p) /\ Readable(p, s) /\ MayResume(p)
        /\ p.task[s].status = "none"
        /\ PanelCommit([p EXCEPT !.state = "needs_review", !.resume = ResumeOf(p),
             !.task[s] = [status |-> "open", accepted |-> Unnamed,
                          payload |-> Canonical(p, s, ResumeOf(p))]])
  BY DEF PrepareScene
<1> DEFINE new == [status |-> "open", accepted |-> Unnamed, payload |-> Canonical(p, s, ResumeOf(p))]
           q   == [p EXCEPT !.state = "needs_review", !.resume = ResumeOf(p), !.task[s] = new]
<1>2. p \in PanelManifest /\ Answerable(p)
  BY DEF PanelIInv
<1> HIDE DEF p
<1>3. ResumeOf(p) \in Settling
  BY <1>1, <1>2 DEF ResumeOf, MayResume, PanelManifest
<1>4. new \in DialogueTask
  <2>1. Canonical(p, s, ResumeOf(p)) \in Payload
    BY <1>2, <1>3 DEF Canonical, Payload, PanelManifest
  <2> QED
    BY <2>1 DEF DialogueTask
<1>5. new.status = "open" /\ new.payload = Canonical(p, s, ResumeOf(p))
  OBVIOUS
<1> HIDE DEF new
<1>6. /\ q \in PanelManifest /\ q.state = "needs_review" /\ q.text = p.text
      /\ q.ocrTask = p.ocrTask /\ q.task = [p.task EXCEPT ![s] = new]
      /\ q.speaker = p.speaker /\ q.ocrResume = p.ocrResume
      /\ q.resume = ResumeOf(p) /\ q.registry = p.registry
  BY <1>2, <1>3, <1>4 DEF PanelManifest, Editable
<1> HIDE DEF q
<1>7. Registered(q) = Registered(p)
  BY <1>6 DEF Registered
<1>8. ASSUME NEW u \in Panels
      PROVE  /\ q.ocrTask[u].status = "open" => Correctable(q, u)
             /\ q.task[u].status = "open" => Assignable(q, u) /\ Registered(q) # {}
             /\ q.speaker[u].by # Unnamed => Proven(q, u)
  <2>1. CASE u = s
    <3>1. q.task[s] = new /\ q.speaker[s].by = Unnamed
      BY <1>1, <1>2, <1>6 DEF PanelManifest, Assigned
    <3>2. q.ocrTask[s].status # "open"
      BY <1>1, <1>2, <1>6 DEF Answerable, Correctable, Readable
    <3>3. Assignable(q, s)
      BY <1>1, <1>3, <1>5, <1>6, <3>1 DEF Assignable, Assigned, Readable, Canonical
    <3> QED
      BY <1>1, <1>7, <2>1, <3>1, <3>2, <3>3
  <2>2. CASE u # s
    <3>1. p.task[u].status = "open" => q.resume = p.resume /\ q.state = "needs_review"
      BY <1>2, <1>6, PanelAssumption DEF Answerable, Assignable, ResumeOf, Settling
    <3>2. /\ q.text[u] = p.text[u] /\ q.ocrTask[u] = p.ocrTask[u] /\ q.task[u] = p.task[u]
          /\ q.speaker[u] = p.speaker[u] /\ q.registry = p.registry
      BY <1>2, <1>6, <2>2 DEF PanelManifest
    <3>3. q \in PanelManifest /\ Registered(p) \subseteq Registered(q)
      BY <1>6, <1>7
    <3>4. p.ocrTask[u].status = "open" => q.ocrResume = p.ocrResume /\ q.state = "needs_review"
      BY <1>6
    <3> QED
      BY <1>2, <3>1, <3>2, <3>3, <3>4, PanelOnly
  <2> QED
    BY <2>1, <2>2
<1>9. Answerable(q)
  BY <1>8 DEF Answerable
<1> QED
  BY <1>1, <1>6, <1>9, PanelCommitKeeps DEF q, new, p

\* An assignment: text and registry were checked against the payload, and the
\* resume state is there as long as another dialogue task is open.
LEMMA AssignmentKeeps ==
  ASSUME PanelAssumption, PanelIInv, ApplyScene
  PROVE  PanelIInv'
<1> DEFINE p == panel
<1>1. PICK s \in Panels, c \in Registered(p) : /\ Assignable(p, s)
        /\ LET taken == [p EXCEPT !.speaker[s] = [by |-> c, text |-> p.text[s]],
                                  !.task[s].status = "resolved", !.task[s].accepted = c]
               left  == IF OpenDialogue(taken) = {} THEN [taken EXCEPT !.resume = Unnamed] ELSE taken
           IN PanelCommit(Settle(left, p.resume))
  BY DEF ApplyScene
<1> DEFINE taken == [p EXCEPT !.speaker[s] = [by |-> c, text |-> p.text[s]],
                              !.task[s].status = "resolved", !.task[s].accepted = c]
           left  == IF OpenDialogue(taken) = {} THEN [taken EXCEPT !.resume = Unnamed] ELSE taken
           q     == Settle(left, p.resume)
<1>2. p \in PanelManifest /\ Answerable(p)
  BY DEF PanelIInv
<1>3. c \in Characters /\ p.registry[c] # "unknown" /\ c # Unnamed
  BY <1>1, PanelAssumption DEF Registered
<1> HIDE DEF p
<1> DEFINE said  == [by |-> c, text |-> p.text[s]]
           done  == [p.task[s] EXCEPT !.status = "resolved", !.accepted = c]
           heard == [p.speaker EXCEPT ![s] = said]
           tasks == [p.task EXCEPT ![s] = done]
<1>4. done \in DialogueTask /\ done.status = "resolved" /\ done.accepted = c
  <2>1. p.task[s] \in DialogueTask
    BY <1>2 DEF PanelManifest
  <2> QED
    BY <1>3, <2>1 DEF DialogueTask
<1>5. heard \in [Panels -> [by : Characters \cup {Unnamed}, text : Texts]]
  BY <1>2, <1>3 DEF PanelManifest
<1>6. tasks \in [Panels -> DialogueTask]
  BY <1>2, <1>4 DEF PanelManifest
<1>7. /\ heard[s].by = c /\ heard[s].text = p.text[s] /\ tasks[s] = done
      /\ \A u \in Panels : u # s => heard[u] = p.speaker[u] /\ tasks[u] = p.task[u]
  BY <1>2 DEF PanelManifest
<1>8. taken = [[p EXCEPT !.speaker = heard] EXCEPT !.task = tasks]
  BY <1>2 DEF PanelManifest, DialogueTask
<1> HIDE DEF heard, tasks, said, done
<1> HIDE DEF taken
<1>9. /\ taken \in PanelManifest /\ taken.registry = p.registry /\ taken.resume = p.resume
      /\ taken.speaker = heard /\ taken.task = tasks /\ taken.text = p.text
      /\ taken.ocrTask = p.ocrTask /\ taken.ocrResume = p.ocrResume
  BY <1>2, <1>5, <1>6, <1>8 DEF PanelManifest
<1>10. /\ left \in PanelManifest /\ left.registry = p.registry
       /\ left.speaker = heard /\ left.task = tasks /\ left.text = p.text
       /\ left.ocrTask = p.ocrTask /\ left.ocrResume = p.ocrResume
       /\ left.resume = IF OpenDialogue(taken) = {} THEN Unnamed ELSE p.resume
  BY <1>9 DEF PanelManifest
<1> HIDE DEF left
<1>11. /\ q \in PanelManifest /\ q.registry = p.registry /\ q.resume = left.resume
       /\ q.speaker = heard /\ q.task = tasks /\ q.text = p.text
       /\ q.ocrTask = p.ocrTask /\ q.ocrResume = p.ocrResume
       /\ q.state = IF Blockers(left) THEN "needs_review" ELSE p.resume
  BY <1>1, <1>10 DEF PanelManifest, Settle, Assignable, Editable
<1> HIDE DEF q
<1>12. Registered(q) = Registered(p)
  BY <1>11 DEF Registered
<1>13. p.ocrTask[s].status # "open"
  BY <1>1, <1>2 DEF Answerable, Correctable, Assignable, Readable
<1>14. ASSUME NEW u \in Panels
       PROVE  /\ q.ocrTask[u].status = "open" => Correctable(q, u)
              /\ q.task[u].status = "open" => Assignable(q, u) /\ Registered(q) # {}
              /\ q.speaker[u].by # Unnamed => Proven(q, u)
  <2>1. CASE u = s
    <3>1. Proven(q, s)
      BY <1>1, <1>4, <1>7, <1>11, <1>12 DEF Proven, Readable, Assignable
    <3>2. q.task[s].status # "open"
      BY <1>4, <1>7, <1>11
    <3> QED
      BY <1>11, <1>13, <2>1, <3>1, <3>2
  <2>2. CASE u # s
    <3>1. p.ocrTask[u].status = "open" => q.ocrResume = p.ocrResume /\ q.state = "needs_review"
      BY <1>10, <1>11 DEF OpenOcr, Blockers
    <3>2. p.task[u].status = "open" => q.resume = p.resume /\ q.state = "needs_review"
      BY <1>7, <1>9, <1>10, <1>11, <2>2 DEF OpenDialogue, Blockers
    <3>3. /\ q.text[u] = p.text[u] /\ q.ocrTask[u] = p.ocrTask[u] /\ q.task[u] = p.task[u]
          /\ q.speaker[u] = p.speaker[u] /\ q.registry = p.registry
      BY <1>7, <1>11, <2>2
    <3>4. q \in PanelManifest /\ Registered(p) \subseteq Registered(q)
      BY <1>11, <1>12
    <3> QED
      BY <1>2, <3>1, <3>2, <3>3, <3>4, PanelOnly
  <2> QED
    BY <2>1, <2>2
<1>15. Answerable(q)
  BY <1>14 DEF Answerable
<1> QED
  BY <1>1, <1>11, <1>15, PanelCommitKeeps DEF q, left, taken, p

\* The preview review takes a project only to needs_review while tasks are open.
LEMMA PanelReviewKeeps ==
  ASSUME PanelIInv, Bootstrap \/ ApprovePreview \/ RenderFinal
  PROVE  PanelIInv'
<1> DEFINE p == panel
<1>1. p \in PanelManifest /\ Answerable(p)
  BY DEF PanelIInv
<1>2. PICK v \in {"absent", "open", "approved"}, state \in Editable \cup {"rendering", "done"} :
        /\ PanelCommit([p EXCEPT !.preview = v, !.state = state])
        /\ \/ state = "needs_review"
           \/ \A s \in Panels : p.ocrTask[s].status # "open" /\ p.task[s].status # "open"
  <2>1. CASE Bootstrap
    BY <2>1 DEF Bootstrap, Editable
  <2>2. CASE ApprovePreview
    BY <2>2 DEF ApprovePreview, Editable, Settling, OpenOcr, OpenDialogue
  <2>3. CASE RenderFinal
    <3>1. \A s \in Panels : p.ocrTask[s].status # "open" /\ p.task[s].status # "open"
      BY <1>1, <2>3, NothingOpen DEF RenderFinal
    <3>2. \E next \in {"rendering", "ready", "done"} : PanelCommit([p EXCEPT !.state = next])
      BY <2>3 DEF RenderFinal
    <3>3. PICK next \in {"rendering", "ready", "done"} : PanelCommit([p EXCEPT !.state = next])
      BY <3>2
    <3>4. [p EXCEPT !.state = next] = [p EXCEPT !.preview = p.preview, !.state = next]
      BY <1>1 DEF PanelManifest
    <3>5. p.preview \in {"absent", "open", "approved"}
      BY <1>1 DEF PanelManifest
    <3> QED
      BY <3>1, <3>3, <3>4, <3>5 DEF Editable, Settling
  <2> QED
    BY <2>1, <2>2, <2>3
<1> DEFINE q == [p EXCEPT !.preview = v, !.state = state]
<1> HIDE DEF p
<1>3. /\ q \in PanelManifest /\ q.state = state /\ q.text = p.text /\ q.ocrTask = p.ocrTask
      /\ q.task = p.task /\ q.speaker = p.speaker /\ q.ocrResume = p.ocrResume
      /\ q.resume = p.resume /\ q.registry = p.registry
  BY <1>1 DEF PanelManifest
<1>4. Registered(p) \subseteq Registered(q)
  BY <1>3 DEF Registered
<1> HIDE DEF q
<1>5. Answerable(q)
  BY <1>1, <1>2, <1>3, <1>4, StateMoves
<1> QED
  BY <1>2, <1>3, <1>5, PanelCommitKeeps DEF q, p

----------------------------------------------------------------------------
(* PanelDialogue: readers, and the theorem *)

\* A reader starts from the manifest as it is.
LEMMA OcrStartKeeps ==
  ASSUME PanelAssumption, PanelIInv, NEW r \in Readers, OcrStart(r)
  PROVE  PanelIInv'
<1>1. PICK s \in Panels :
        /\ panel.state \in Editable /\ panel.text[s] = "unread"
        /\ reader' = [reader EXCEPT ![r] =
             [panel |-> s, fresh |-> TRUE,
              resume |-> IF panel.ocrResume = Unnamed THEN panel.state ELSE panel.ocrResume]]
        /\ UNCHANGED panel
  BY DEF OcrStart
<1> DEFINE resume == IF panel.ocrResume = Unnamed THEN panel.state ELSE panel.ocrResume
<1>2. resume \in Editable
  BY <1>1 DEF PanelIInv, PanelManifest
<1>3. panel' \in PanelManifest /\ Answerable(panel)'
  BY <1>1 DEF PanelIInv, Answerable, Correctable, Assignable, Proven, Registered, Assigned,
              Readable, Canonical
<1>4. reader' \in [Readers -> [panel : Panels \cup {Unnamed}, resume : Editable \cup {Unnamed},
                               fresh : BOOLEAN]]
  BY <1>1, <1>2 DEF PanelIInv
<1>5. ASSUME NEW u \in Readers PROVE ReadsFresh(u)'
  BY <1>1, <1>2 DEF PanelIInv, ReadsFresh
<1> QED
  BY <1>3, <1>4, <1>5 DEF PanelIInv

\* An answer is written over the manifest it was asked from.
LEMMA OcrFinishKeeps ==
  ASSUME PanelAssumption, PanelIInv, NEW r \in Readers, OcrFinish(r)
  PROVE  PanelIInv'
<1> DEFINE s == reader[r].panel
<1>1. PICK t \in {"certain", "uncertain"} :
        /\ s # Unnamed /\ reader[r].fresh
        /\ panel' = IF t = "certain" THEN [panel EXCEPT !.text[s] = t]
                    ELSE [[panel EXCEPT !.text[s] = t] EXCEPT !.state = "needs_review",
                            !.ocrResume = reader[r].resume,
                            !.ocrTask[s] = [status |-> "open", resume |-> reader[r].resume, seen |-> t]]
        /\ reader' = [q \in Readers |-> IF q = r THEN NoReader
                                        ELSE [reader[q] EXCEPT !.fresh = FALSE]]
  BY DEF OcrFinish
<1>2. panel \in PanelManifest /\ Answerable(panel) /\ ReadsFresh(r)
  BY DEF PanelIInv
<1>3. /\ s \in Panels /\ panel.text[s] = "unread" /\ reader[r].resume \in Editable
      /\ panel.ocrResume # Unnamed => reader[r].resume = panel.ocrResume
  BY <1>1, <1>2 DEF ReadsFresh
<1>4. panel' \in PanelManifest /\ Answerable(panel')
  <2>1. panel' = IF t = "certain" THEN OcrRead(panel, s, t)
                 ELSE OcrAsked(panel, s, t, reader[r].resume)
    BY <1>1 DEF OcrRead, OcrAsked
  <2> QED
    BY <1>2, <1>3, <2>1, PanelAssumption, OcrAnswers
<1>5. reader' \in [Readers -> [panel : Panels \cup {Unnamed}, resume : Editable \cup {Unnamed},
                               fresh : BOOLEAN]]
  BY <1>1 DEF PanelIInv, NoReader
<1>6. ASSUME NEW u \in Readers PROVE ReadsFresh(u)'
  BY <1>1 DEF PanelIInv, ReadsFresh, NoReader
<1>7. Answerable(panel)'
  BY <1>4 DEF Answerable, Correctable, Assignable, Proven, Registered, Assigned, Readable, Canonical
<1> QED
  BY <1>4, <1>5, <1>6, <1>7 DEF PanelIInv

\* Every step of OCR, dialogue and review keeps the invariant.
LEMMA PanelGoesOn ==
  ASSUME PanelAssumption, PanelIInv, [PanelNext]_panelVars
  PROVE  PanelIInv'
<1>1. ASSUME NEW r \in Readers, OcrGiveUp(r) PROVE PanelIInv'
  BY <1>1 DEF OcrGiveUp, PanelIInv, NoReader, ReadsFresh, Answerable, Correctable, Assignable,
              Proven, Registered, Assigned, Readable, Canonical
<1>2. CASE UNCHANGED panelVars
  BY <1>2 DEF panelVars, PanelIInv, ReadsFresh, Answerable, Correctable, Assignable,
              Proven, Registered, Assigned, Readable, Canonical
<1> QED
  BY <1>1, <1>2, OcrStartKeeps, OcrFinishKeeps, CorrectionKeeps, RegistryKeeps, PrepareKeeps,
     AssignmentKeeps, PanelReviewKeeps DEF PanelNext

\* However OCR, corrections, assignments and the preview review overlap: what
\* people are asked can be answered, and what they answered is proven
\* (application/panel_ocr.py, dialogue.py and its hardening).
THEOREM PanelSafety == PanelSpec => []PanelReviewInv
<1>1. PanelInit => PanelIInv
  BY PanelAssumption DEF PanelInit, PanelIInv, PanelManifest, Answerable, ReadsFresh, NoReader,
     NoOcrTask, NoDialogueTask, OcrTask, DialogueTask, Payload, Registry, Texts, Editable, Settling
<1>2. PanelIInv /\ [PanelNext]_panelVars => PanelIInv'
  BY PanelAssumption, PanelGoesOn
<1>3. PanelIInv => PanelReviewInv
  BY PanelInvHolds
<1> QED
  BY <1>1, <1>2, <1>3, PTL DEF PanelSpec

----------------------------------------------------------------------------
(* VoicedStory: the manifest *)

VoiceLine == [cut : Cuts, base : Cuts]

StoryManifest ==
  [state : Unreviewed \cup {"needs_review"}, preview : {"absent", "open", "approved"},
   speaker : [Scenes -> Cast \cup {NoOne}], bound : [Cast -> 0..Override],
   heard : [Scenes -> Cuts], told : [Scenes -> VoiceLine],
   owned : [Scenes -> Cuts], length : [Scenes -> Cuts],
   shown : [preset : Presets \cup {NoOne}, of : [Scenes -> VoiceLine]],
   look : Presets \cup {NoOne}]

\* Receipts are in the voice of now, and of a voice at all: a line without a
\* speaker has none, so accepting one cannot make a receipt stale.
ReceiptsAreCurrent(p) ==
  \A s \in Scenes : p.heard[s] # Authored => p.heard[s][1] = VoiceOf(p, s) /\ p.heard[s][1] # 0

\* Only accepted lines are told, so a scene that Derived leaves out is one the
\* story has never touched.
ScenesRestorable(p) ==
  \A s \in Scenes :
    /\ p.owned[s] = p.told[s].cut /\ p.length[s] = p.told[s].cut /\ p.told[s].base = Authored
    /\ p.told[s] # NoLine => p.speaker[s] # NoOne

SoundStory(p) == ReceiptsAreCurrent(p) /\ ScenesRestorable(p) /\ p.look = p.shown.preset

\* A synthesis whose snapshot is fresh speaks in the voice its line has.
SpeaksFresh(t) ==
  voicing[t].fresh =>
    /\ voicing[t].scene \in Scenes /\ voicing[t].voice # 0
    /\ voicing[t].voice = VoiceOf(story, voicing[t].scene)

VoicingOK ==
  voicing \in [Threads -> [at : {"idle", "resolved", "speaking", "spoken"},
                           scene : Scenes \cup {NoOne}, voice : 0..Override,
                           force : BOOLEAN, fresh : BOOLEAN]]

VoiceIInv ==
  /\ story \in StoryManifest /\ SoundStory(story)
  /\ revision \in 1..MaxRevision
  /\ VoicingOK /\ \A t \in Threads : SpeaksFresh(t)

\* What a step may not do to the look of an approved preview.
LookStands == story'.look # story.look => story'.preview # "approved"

\* The inductive invariant says all that the run checks.
LEMMA VoiceInvHolds ==
  ASSUME VoiceIInv
  PROVE  VoiceInv
<1>1. VoiceTypeOK
  BY DEF VoiceIInv, VoiceTypeOK, StoryManifest, VoiceLine, VoicingOK
<1>2. VoiceIsCurrent
  BY DEF VoiceIInv, SoundStory, ReceiptsAreCurrent, VoiceIsCurrent
<1>3. AuthorIsRestorable
  BY DEF VoiceIInv, SoundStory, ScenesRestorable, AuthorIsRestorable, LookIsOwned
<1> QED
  BY <1>1, <1>2, <1>3 DEF VoiceInv

\* The constants of the model have the types the manifest gives them.
LEMMA VoicesAreVoices ==
  ASSUME VoiceAssumption
  PROVE  /\ Override \in Nat /\ 0 \in 0..Override /\ Override \in 0..Override
         /\ Authored \in Cuts /\ NoLine \in VoiceLine
         /\ \A n \in 1..MaxRevision : n \in 0..Override /\ n # 0
         /\ \A v \in 0..Override, n \in 1..MaxTakes :
              <<v, n>> \in Cuts /\ <<v, n>> # Authored /\ <<v, n>>[1] = v
  BY DEF VoiceAssumption, Override, Authored, Cuts, NoLine, VoiceLine

\* A write of a sound manifest keeps the invariant: no snapshot stays fresh.
LEMMA StoryCommitKeeps ==
  ASSUME VoiceIInv, NEW p \in StoryManifest, SoundStory(p), StoryCommit(p)
  PROVE  VoiceIInv' /\ story' = p
<1>1. story' = p /\ revision' = revision
  BY DEF StoryCommit
<1>2. SoundStory(story)'
  BY <1>1 DEF SoundStory, ReceiptsAreCurrent, ScenesRestorable, VoiceOf
<1>3. \A t \in Threads : voicing'[t] = [voicing[t] EXCEPT !.fresh = FALSE]
  BY DEF StoryCommit
<1>4. VoicingOK'
  BY DEF StoryCommit, VoiceIInv, VoicingOK
<1>5. \A t \in Threads : SpeaksFresh(t)'
  BY <1>3 DEF SpeaksFresh, VoiceIInv, VoicingOK
<1> QED
  BY <1>1, <1>2, <1>4, <1>5 DEF VoiceIInv

\* A speaker for a line that had none: there is no receipt for it yet.
LEMMA AcceptKeeps ==
  ASSUME VoiceAssumption, VoiceIInv, AcceptDialogue
  PROVE  VoiceIInv' /\ LookStands
<1> DEFINE p == story
<1>1. PICK s \in Scenes \ Accepted(p), c \in Cast : StoryCommit([p EXCEPT !.speaker[s] = c])
  BY DEF AcceptDialogue
<1> DEFINE q == [p EXCEPT !.speaker[s] = c]
<1>2. p \in StoryManifest /\ SoundStory(p)
  BY DEF VoiceIInv
<1> HIDE DEF p
<1>3. /\ q \in StoryManifest /\ q.speaker = [p.speaker EXCEPT ![s] = c]
      /\ q.bound = p.bound /\ q.heard = p.heard /\ q.told = p.told /\ q.owned = p.owned
      /\ q.length = p.length /\ q.shown = p.shown /\ q.look = p.look
  BY <1>1, <1>2 DEF StoryManifest
<1> HIDE DEF q
<1>4. s \in Scenes /\ p.speaker[s] = NoOne /\ c # NoOne
  BY <1>1, <1>2 DEF Accepted, VoiceAssumption
<1>5. \A u \in Scenes : u # s => q.speaker[u] = p.speaker[u]
  BY <1>2, <1>3 DEF StoryManifest
<1>6. p.heard[s] = Authored
  BY <1>2, <1>4 DEF SoundStory, ReceiptsAreCurrent, VoiceOf
<1>7. ReceiptsAreCurrent(q)
  BY <1>2, <1>3, <1>5, <1>6 DEF SoundStory, ReceiptsAreCurrent, VoiceOf
<1>8. ScenesRestorable(q)
  BY <1>2, <1>3, <1>4, <1>5 DEF SoundStory, ScenesRestorable
<1>9. SoundStory(q)
  BY <1>2, <1>3, <1>7, <1>8 DEF SoundStory
<1> QED
  BY <1>1, <1>3, <1>9, StoryCommitKeeps DEF q, p, LookStands

\* The review moves state and preview only.
LEMMA VoiceReviewKeeps ==
  ASSUME VoiceIInv, Review
  PROVE  VoiceIInv' /\ LookStands
<1> DEFINE p == story
<1>1. PICK v \in {"open", "approved"}, state \in Unreviewed \cup {"needs_review"} :
        StoryCommit([p EXCEPT !.preview = v, !.state = state])
  BY DEF Review, Unreviewed
<1> DEFINE q == [p EXCEPT !.preview = v, !.state = state]
<1>2. p \in StoryManifest /\ SoundStory(p)
  BY DEF VoiceIInv
<1> HIDE DEF p
<1>3. /\ q \in StoryManifest /\ q.speaker = p.speaker
      /\ q.bound = p.bound /\ q.heard = p.heard /\ q.told = p.told /\ q.owned = p.owned
      /\ q.length = p.length /\ q.shown = p.shown /\ q.look = p.look
  BY <1>2 DEF StoryManifest
<1> HIDE DEF q
<1>4. SoundStory(q)
  BY <1>2, <1>3 DEF SoundStory, ReceiptsAreCurrent, ScenesRestorable, VoiceOf
<1> QED
  BY <1>1, <1>3, <1>4, StoryCommitKeeps DEF q, p, LookStands

\* A binding goes with the receipts that were made in it.
LEMMA ReboundKeeps ==
  ASSUME VoiceAssumption, VoiceIInv, NEW c \in Cast, NEW v \in 0..Override,
         StoryCommit(Rebound(story, c, v))
  PROVE  VoiceIInv' /\ LookStands
<1> DEFINE p == story
           quiet == [s \in Scenes |-> IF s \in LinesOf(p, c) THEN Authored ELSE p.heard[s]]
           q == Rebound(p, c, v)
<1>1. p \in StoryManifest /\ SoundStory(p)
  BY DEF VoiceIInv
<1> HIDE DEF p
<1>2. quiet \in [Scenes -> Cuts]
  BY <1>1, VoicesAreVoices DEF StoryManifest
<1>3. q = [p EXCEPT !.bound[c] = v, !.heard = quiet]
  BY DEF Rebound
<1> HIDE DEF quiet, q
<1>4. /\ q \in StoryManifest /\ q.speaker = p.speaker
      /\ q.bound = [p.bound EXCEPT ![c] = v] /\ q.heard = quiet /\ q.told = p.told
      /\ q.owned = p.owned /\ q.length = p.length /\ q.shown = p.shown /\ q.look = p.look
  BY <1>1, <1>2, <1>3 DEF StoryManifest
<1>5. \A d \in Cast : d # c => q.bound[d] = p.bound[d]
  BY <1>1, <1>4 DEF StoryManifest
<1>6. ReceiptsAreCurrent(q)
  <2> SUFFICES ASSUME NEW s \in Scenes, q.heard[s] # Authored
               PROVE  q.heard[s][1] = VoiceOf(q, s) /\ q.heard[s][1] # 0
    BY DEF ReceiptsAreCurrent
  <2>1. s \notin LinesOf(p, c) /\ q.heard[s] = p.heard[s]
    BY <1>4 DEF quiet
  <2>2. p.heard[s][1] = VoiceOf(p, s) /\ p.heard[s][1] # 0
    BY <1>1, <2>1 DEF SoundStory, ReceiptsAreCurrent
  <2>3. p.speaker[s] # c /\ p.speaker[s] \in Cast \cup {NoOne}
    BY <1>1, <2>1 DEF LinesOf, StoryManifest
  <2>4. VoiceOf(q, s) = VoiceOf(p, s)
    BY <1>4, <1>5, <2>3 DEF VoiceOf
  <2> QED
    BY <2>1, <2>2, <2>4
<1>7. SoundStory(q)
  BY <1>1, <1>4, <1>6 DEF SoundStory, ScenesRestorable
<1> QED
  BY <1>4, <1>7, StoryCommitKeeps DEF q, p, LookStands

\* The story is cut anew from the receipts; the author's lengths stay known.
LEMMA ToldIsSound ==
  ASSUME VoiceAssumption, NEW p \in StoryManifest, SoundStory(p), Derivable(p)
  PROVE  Told(p) \in StoryManifest /\ SoundStory(Told(p)) /\ Told(p).look = p.look
         /\ Told(p).speaker = p.speaker /\ Told(p).bound = p.bound
<1> DEFINE told == Derived(p)
           cuts == [s \in Scenes |-> told[s].cut]
           spans == [s \in Scenes |-> IF s \in Accepted(p) THEN p.heard[s] ELSE p.length[s]]
           q == Told(p)
<1>1. ASSUME NEW s \in Scenes
      PROVE  /\ told[s] \in VoiceLine /\ told[s].base = Authored
             /\ s \in Accepted(p) => told[s].cut = p.heard[s]
             /\ s \notin Accepted(p) => told[s] = NoLine /\ p.length[s] = Authored
  <2>1. p.length[s] = p.told[s].cut /\ p.told[s].base = Authored
    BY DEF SoundStory, ScenesRestorable
  <2>2. p.told[s] = NoLine => p.length[s] = Authored
    BY <2>1 DEF NoLine
  <2>3. p.heard[s] \in Cuts /\ Authored \in Cuts
    BY VoicesAreVoices DEF StoryManifest
  <2>4. CASE s \in Accepted(p)
    <3>1. told[s] = [cut |-> p.heard[s], base |-> Authored]
      BY <2>1, <2>2, <2>4 DEF Derived
    <3> QED
      BY <2>3, <2>4, <3>1 DEF VoiceLine
  <2>5. CASE s \notin Accepted(p)
    <3>1. told[s] = NoLine
      BY <2>5 DEF Derived
    <3>2. p.told[s] = NoLine
      BY <2>5 DEF SoundStory, ScenesRestorable, Accepted
    <3> QED
      BY <2>2, <2>3, <2>5, <3>1, <3>2 DEF NoLine, VoiceLine
  <2> QED
    BY <2>4, <2>5
<1>2. told \in [Scenes -> VoiceLine]
  <2>1. \A s \in Scenes : told[s] \in VoiceLine
    BY <1>1
  <2>2. told = [s \in Scenes |-> told[s]]
    BY DEF Derived
  <2> QED
    BY <2>1, <2>2
<1>3. q = [p EXCEPT !.told = told, !.owned = cuts, !.length = spans]
  BY DEF Told
<1> HIDE DEF told
<1>4. cuts \in [Scenes -> Cuts]
  BY <1>2 DEF VoiceLine
<1>5. spans \in [Scenes -> Cuts]
  BY DEF StoryManifest
<1>6. \A s \in Scenes : cuts[s] = told[s].cut /\ spans[s] = told[s].cut
  BY <1>1 DEF NoLine
<1> HIDE DEF cuts, spans, q
<1>7. /\ q \in StoryManifest /\ q.speaker = p.speaker /\ q.bound = p.bound
      /\ q.heard = p.heard /\ q.told = told /\ q.owned = cuts /\ q.length = spans
      /\ q.shown = p.shown /\ q.look = p.look
  BY <1>2, <1>3, <1>4, <1>5 DEF StoryManifest
<1>8. ScenesRestorable(q)
  BY <1>1, <1>6, <1>7 DEF ScenesRestorable, Accepted
<1>9. ReceiptsAreCurrent(q)
  BY <1>7 DEF SoundStory, ReceiptsAreCurrent, VoiceOf
<1> QED
  BY <1>7, <1>8, <1>9 DEF SoundStory, q

\* Without the story the scenes have the author's lengths again.
LEMMA DematerializeKeeps ==
  ASSUME VoiceAssumption, VoiceIInv, Dematerialize
  PROVE  VoiceIInv' /\ LookStands
<1> DEFINE p == story
           none == [s \in Scenes |-> Authored]
           spans == [s \in Scenes |-> IF p.told[s] = NoLine THEN p.length[s] ELSE p.told[s].base]
           q == [p EXCEPT !.told = Nothing, !.owned = none, !.length = spans]
<1>1. p \in StoryManifest /\ SoundStory(p)
  BY DEF VoiceIInv
<1>2. StoryCommit(q)
  <2>1. StoryCommit([p EXCEPT !.told = Nothing, !.owned = none,
          !.length = [s \in Scenes |-> IF p.told[s] = NoLine THEN @[s] ELSE p.told[s].base]])
    BY DEF Dematerialize
  <2>2. p.length = p.length /\ DOMAIN p = DOMAIN p
    OBVIOUS
  <2> QED
    BY <1>1, <2>1 DEF StoryManifest
<1> HIDE DEF p
<1>3. none \in [Scenes -> Cuts] /\ Nothing \in [Scenes -> VoiceLine]
  BY VoicesAreVoices DEF Nothing
<1>4. \A s \in Scenes : spans[s] = Authored /\ none[s] = Authored /\ Nothing[s] = NoLine
  BY <1>1 DEF SoundStory, ScenesRestorable, NoLine, Nothing
<1>5. spans \in [Scenes -> Cuts]
  BY <1>4, VoicesAreVoices
<1> HIDE DEF none, spans, q
<1>6. /\ q \in StoryManifest /\ q.speaker = p.speaker /\ q.bound = p.bound
      /\ q.heard = p.heard /\ q.told = Nothing /\ q.owned = none /\ q.length = spans
      /\ q.shown = p.shown /\ q.look = p.look
  BY <1>1, <1>3, <1>5 DEF StoryManifest, q
<1>7. ScenesRestorable(q)
  BY <1>4, <1>6 DEF ScenesRestorable, NoLine
<1>8. SoundStory(q)
  BY <1>1, <1>6, <1>7 DEF SoundStory, ReceiptsAreCurrent, VoiceOf
<1> QED
  BY <1>2, <1>6, <1>8, StoryCommitKeeps DEF p, LookStands

\* The story is told again by the thread that spoke the line anew.
LEMMA TellAgainKeeps ==
  ASSUME VoiceAssumption, VoiceIInv, NEW t \in Threads, TellAgain(t)
  PROVE  VoiceIInv' /\ LookStands
<1>1. story \in StoryManifest /\ SoundStory(story)
  BY DEF VoiceIInv
<1>2. /\ Derivable(story) /\ story' = Told(story) /\ UNCHANGED revision
      /\ voicing' = [u \in Threads |-> IF u = t THEN Idle ELSE [voicing[u] EXCEPT !.fresh = FALSE]]
  BY DEF TellAgain
<1>3. /\ Told(story) \in StoryManifest /\ SoundStory(Told(story))
      /\ Told(story).look = story.look
  BY <1>1, <1>2, ToldIsSound, VoiceAssumption
<1>4. SoundStory(story)'
  BY <1>2, <1>3 DEF SoundStory, ReceiptsAreCurrent, ScenesRestorable, VoiceOf
<1>5. Idle \in [at : {"idle", "resolved", "speaking", "spoken"},
                scene : Scenes \cup {NoOne}, voice : 0..Override,
                force : BOOLEAN, fresh : BOOLEAN] /\ ~Idle.fresh
  BY VoicesAreVoices DEF Idle
<1>6. VoicingOK'
  BY <1>2, <1>5 DEF VoiceIInv, VoicingOK
<1>7. \A u \in Threads : ~voicing'[u].fresh
  BY <1>2, <1>5 DEF VoiceIInv, VoicingOK
<1> QED
  BY <1>2, <1>3, <1>4, <1>6, <1>7 DEF VoiceIInv, SpeaksFresh, LookStands

\* A receipt is written under the manifest its voice was resolved from.
LEMMA RecordKeeps ==
  ASSUME VoiceAssumption, VoiceIInv, NEW t \in Threads, Record(t)
  PROVE  VoiceIInv' /\ LookStands
<1> DEFINE p == story
           v == voicing[t]
<1>1. PICK n \in 1..MaxTakes :
        /\ v.fresh /\ story' = [p EXCEPT !.heard[v.scene] = <<v.voice, n>>]
        /\ voicing' = [u \in Threads |->
             IF u # t THEN [voicing[u] EXCEPT !.fresh = FALSE]
             ELSE IF v.force THEN [v EXCEPT !.at = "spoken", !.fresh = FALSE] ELSE Idle]
        /\ UNCHANGED revision
  BY DEF Record
<1>2. p \in StoryManifest /\ SoundStory(p) /\ SpeaksFresh(t) /\ VoicingOK
  BY DEF VoiceIInv
<1>3. v.scene \in Scenes /\ v.voice # 0 /\ v.voice = VoiceOf(p, v.scene) /\ v.voice \in 0..Override
  BY <1>1, <1>2 DEF SpeaksFresh, VoicingOK
<1>4. SoundStory(story') /\ story' \in StoryManifest /\ story'.look = p.look
  <2> DEFINE s == v.scene
             take == <<v.voice, n>>
             q == [p EXCEPT !.heard[s] = take]
  <2>1. take \in Cuts /\ take[1] = v.voice /\ take[1] = VoiceOf(p, s) /\ take[1] # 0
    BY <1>3, VoicesAreVoices
  <2>2. p \in StoryManifest /\ SoundStory(p) /\ s \in Scenes /\ story' = q
    BY <1>1, <1>2, <1>3
  <2> HIDE DEF p, v, s, take
  <2>3. /\ q \in StoryManifest /\ q.heard = [p.heard EXCEPT ![s] = take]
        /\ q.speaker = p.speaker /\ q.bound = p.bound /\ q.told = p.told /\ q.owned = p.owned
        /\ q.length = p.length /\ q.shown = p.shown /\ q.look = p.look
    BY <2>1, <2>2 DEF StoryManifest
  <2> HIDE DEF q
  <2>4. ReceiptsAreCurrent(q)
    BY <2>1, <2>2, <2>3 DEF StoryManifest, SoundStory, ReceiptsAreCurrent, VoiceOf
  <2>5. SoundStory(q) /\ q \in StoryManifest /\ q.look = p.look
    BY <2>2, <2>3, <2>4 DEF SoundStory, ScenesRestorable
  <2> QED
    BY <2>2, <2>5
<1>5. SoundStory(story)'
  BY <1>4 DEF SoundStory, ReceiptsAreCurrent, ScenesRestorable, VoiceOf
<1>6. Idle \in [at : {"idle", "resolved", "speaking", "spoken"},
                scene : Scenes \cup {NoOne}, voice : 0..Override,
                force : BOOLEAN, fresh : BOOLEAN] /\ ~Idle.fresh
  BY VoicesAreVoices DEF Idle
<1>7. VoicingOK'
  BY ZenonT(40), <1>1, <1>2, <1>6 DEF VoicingOK
<1>8. \A u \in Threads : ~voicing'[u].fresh
  BY <1>1, <1>2, <1>6 DEF VoicingOK
<1> QED
  BY <1>1, <1>4, <1>5, <1>7, <1>8 DEF VoiceIInv, SpeaksFresh, LookStands

\* Resolving, speaking and leaving write nothing.
LEMMA VoicingKeeps ==
  ASSUME VoiceAssumption, VoiceIInv, NEW t \in Threads, Resolve(t) \/ Speak(t) \/ Leave(t)
  PROVE  VoiceIInv' /\ LookStands
<1>1. UNCHANGED <<story, revision>> /\ VoicingOK /\ story \in StoryManifest
  BY DEF Resolve, Speak, Leave, VoiceIInv
<1>2. SoundStory(story)'
  BY <1>1 DEF VoiceIInv, SoundStory, ReceiptsAreCurrent, ScenesRestorable, VoiceOf
<1>3. VoicingOK' /\ \A u \in Threads : SpeaksFresh(u)'
  <2>1. CASE Resolve(t)
    <3>1. PICK s \in Scenes, f \in BOOLEAN :
            /\ VoiceOf(story, s) # 0
            /\ voicing' = [voicing EXCEPT ![t] = [at |-> "resolved", scene |-> s, force |-> f,
                                                  voice |-> VoiceOf(story, s), fresh |-> TRUE]]
      BY <2>1 DEF Resolve
    <3>2. VoiceOf(story, s) \in 0..Override
      BY <1>1, VoicesAreVoices DEF VoiceOf, StoryManifest
    <3>3. VoicingOK'
      BY <1>1, <3>1, <3>2 DEF VoicingOK
    <3>4. \A u \in Threads : SpeaksFresh(u)'
      BY <1>1, <3>1 DEF VoicingOK, SpeaksFresh, VoiceOf, VoiceIInv
    <3> QED
      BY <3>3, <3>4
  <2>2. CASE Speak(t)
    BY <1>1, <2>2 DEF Speak, VoicingOK, SpeaksFresh, VoiceOf, VoiceIInv
  <2>3. CASE Leave(t)
    <3>1. Idle \in [at : {"idle", "resolved", "speaking", "spoken"},
                    scene : Scenes \cup {NoOne}, voice : 0..Override,
                    force : BOOLEAN, fresh : BOOLEAN] /\ ~Idle.fresh
      BY VoicesAreVoices DEF Idle
    <3> QED
      BY <1>1, <2>3, <3>1 DEF Leave, VoicingOK, SpeaksFresh, VoiceOf, VoiceIInv
  <2> QED
    BY <2>1, <2>2, <2>3
<1> QED
  BY <1>1, <1>2, <1>3 DEF VoiceIInv, LookStands

\* A write of the presentation reopens the preview it finds approved.
LEMMA LookKeeps ==
  ASSUME VoiceAssumption, VoiceIInv, Present \/ Unpresent
  PROVE  VoiceIInv' /\ LookStands
<1> DEFINE p == story
<1>1. p \in StoryManifest /\ SoundStory(p)
  BY DEF VoiceIInv
<1>2. PICK k \in Presets \cup {NoOne}, shown \in [preset : Presets \cup {NoOne}, of : [Scenes -> VoiceLine]] :
        shown.preset = k /\ StoryCommit(Reopened([p EXCEPT !.shown = shown, !.look = k]))
  <2>1. CASE Present
    <3>1. PICK k \in Presets : StoryCommit(Reopened(WithLook(p, k)))
      BY <2>1 DEF Present
    <3>2. LookFor(p, k) \in [preset : Presets \cup {NoOne}, of : [Scenes -> VoiceLine]]
      BY <1>1 DEF LookFor, StoryManifest
    <3> QED
      BY <3>1, <3>2 DEF WithLook, LookFor
  <2>2. CASE Unpresent
    <3>1. StoryCommit(Reopened(WithoutLook(p)))
      BY <2>2 DEF Unpresent
    <3>2. NotShown \in [preset : Presets \cup {NoOne}, of : [Scenes -> VoiceLine]]
      BY VoicesAreVoices DEF NotShown, Nothing
    <3> QED
      BY <3>1, <3>2 DEF WithoutLook, NotShown
  <2> QED
    BY <2>1, <2>2
<1> DEFINE worn == [p EXCEPT !.shown = shown, !.look = k]
           q == Reopened(worn)
<1> HIDE DEF p
<1>3. /\ worn \in StoryManifest /\ worn.speaker = p.speaker /\ worn.bound = p.bound
      /\ worn.heard = p.heard /\ worn.told = p.told /\ worn.owned = p.owned
      /\ worn.length = p.length /\ worn.shown = shown /\ worn.look = k
  BY <1>1 DEF StoryManifest
<1> HIDE DEF worn
<1>4. /\ q \in StoryManifest /\ q.speaker = p.speaker /\ q.bound = p.bound
      /\ q.heard = p.heard /\ q.told = p.told /\ q.owned = p.owned
      /\ q.length = p.length /\ q.shown = shown /\ q.look = k /\ q.preview # "approved"
  <2>1. CASE worn.preview = "absent"
    BY <1>3, <2>1 DEF Reopened
  <2>2. CASE worn.preview # "absent"
    <3>1. q = [worn EXCEPT !.preview = "open",
                 !.state = IF worn.state = "ready" THEN "needs_review" ELSE worn.state]
      BY <1>3, <2>2 DEF Reopened, StoryManifest
    <3> QED
      BY <1>3, <3>1 DEF StoryManifest, Unreviewed
  <2> QED
    BY <2>1, <2>2
<1> HIDE DEF q
<1>5. SoundStory(q)
  BY <1>1, <1>2, <1>4 DEF SoundStory, ReceiptsAreCurrent, ScenesRestorable, VoiceOf
<1> QED
  BY <1>2, <1>4, <1>5, StoryCommitKeeps DEF q, worn, p, LookStands

\* Every step of cast, synthesis, story and presentation keeps the invariant,
\* and none slips a look under an approval.
LEMMA VoiceGoesOn ==
  ASSUME VoiceAssumption, VoiceIInv, [VoiceNext]_voiceVars
  PROVE  VoiceIInv' /\ LookStands
<1>1. CASE Bind
  <2>1. PICK c \in Cast, v \in (1..revision) \cup {Override} : StoryCommit(Rebound(story, c, v))
    BY <1>1 DEF Bind
  <2>2. v \in 0..Override
    BY VoicesAreVoices DEF VoiceIInv, VoiceAssumption, Override
  <2> QED
    BY <2>1, <2>2, VoiceAssumption, ReboundKeeps
<1>2. CASE Unbind
  <2>1. PICK c \in Cast : StoryCommit(Rebound(story, c, 0))
    BY <1>2 DEF Unbind
  <2> QED
    BY <2>1, VoiceAssumption, ReboundKeeps, VoicesAreVoices
<1>3. CASE Materialize
  <2>1. Derivable(story) /\ StoryCommit(Told(story))
    BY <1>3 DEF Materialize
  <2>2. Told(story) \in StoryManifest /\ SoundStory(Told(story)) /\ Told(story).look = story.look
    BY <2>1, ToldIsSound, VoiceAssumption DEF VoiceIInv
  <2> QED
    BY <2>1, <2>2, StoryCommitKeeps DEF LookStands
<1>4. CASE PutCast
  BY <1>4, VoiceAssumption DEF PutCast, VoiceIInv, VoicingOK, SpeaksFresh, SoundStory, VoiceOf,
     ReceiptsAreCurrent, ScenesRestorable, LookStands
<1>5. CASE UNCHANGED voiceVars
  BY <1>5 DEF voiceVars, VoiceIInv, VoicingOK, SpeaksFresh, SoundStory, VoiceOf,
     ReceiptsAreCurrent, ScenesRestorable, LookStands
<1> QED
  BY <1>1, <1>2, <1>3, <1>4, <1>5, VoiceAssumption, AcceptKeeps, VoiceReviewKeeps, VoicingKeeps,
     RecordKeeps, TellAgainKeeps, DematerializeKeeps, LookKeeps DEF VoiceNext

\* A project of unvoiced scenes satisfies it.
LEMMA VoiceStarts ==
  ASSUME VoiceAssumption, VoiceInit
  PROVE  VoiceIInv
<1>1. story \in StoryManifest
  <2>1. [s \in Scenes |-> Authored] \in [Scenes -> Cuts] /\ Nothing \in [Scenes -> VoiceLine]
    BY VoicesAreVoices DEF Nothing
  <2>2. NotShown \in [preset : Presets \cup {NoOne}, of : [Scenes -> VoiceLine]]
    BY <2>1 DEF NotShown
  <2>3. [c \in Cast |-> 0] \in [Cast -> 0..Override]
    BY VoicesAreVoices
  <2> QED
    BY <2>1, <2>2, <2>3 DEF VoiceInit, StoryManifest, Unreviewed
<1>2. SoundStory(story)
  BY DEF VoiceInit, SoundStory, ReceiptsAreCurrent, ScenesRestorable, Nothing, NotShown, NoLine
<1>3. revision \in 1..MaxRevision
  BY DEF VoiceInit, VoiceAssumption
<1>4. VoicingOK /\ \A t \in Threads : SpeaksFresh(t)
  BY VoicesAreVoices DEF VoiceInit, VoicingOK, SpeaksFresh, Idle
<1> QED
  BY <1>1, <1>2, <1>3, <1>4 DEF VoiceIInv

\* A receipt is in the voice its line has now, and the author's scenes, music
\* and camera can be had back, in whatever order people bind, speak, tell,
\* present and take back (application/tts.py, voice_cast_workflow.py,
\* voiced_story.py, voiced_scene.py).
THEOREM VoiceSafety == VoiceSpec => []VoiceInv
<1>1. VoiceInit => VoiceIInv
  BY VoiceAssumption, VoiceStarts
<1>2. VoiceIInv /\ [VoiceNext]_voiceVars => VoiceIInv'
  BY VoiceAssumption, VoiceGoesOn
<1>3. VoiceIInv => VoiceInv
  BY VoiceInvHolds
<1> QED
  BY <1>1, <1>2, <1>3, PTL DEF VoiceSpec

\* No write of a presentation leaves an approval of the preview behind
\* (voiced_scene_hardening.py, _invalidate_pr10_render_identity).
THEOREM VoiceLookIsApproved == VoiceSpec => ApprovedLookIsKept
<1>1. VoiceInit => VoiceIInv
  BY VoiceAssumption, VoiceStarts
<1>2. VoiceIInv /\ [VoiceNext]_voiceVars => VoiceIInv'
  BY VoiceAssumption, VoiceGoesOn
<1>3. VoiceIInv /\ [VoiceNext]_voiceVars =>
        [story'.look # story.look => story'.preview # "approved"]_voiceVars
  BY VoiceAssumption, VoiceGoesOn DEF LookStands
<1> QED
  BY <1>1, <1>2, <1>3, PTL DEF VoiceSpec, ApprovedLookIsKept


-----------------------------------------------------------------------------
(* SharedScenes: the host                                                    *)

HostManifest ==
  [state : {"prepared", "needs_review", "ready", "rendering"},
   preview : {"absent", "open", "approved"},
   copies : RefLists, watched : SUBSET RefLists,
   records : SUBSET Records, owned : SUBSET Records, author : SUBSET Records]

\* What holds of the host as it is stored: without what sharing owns it is the
\* author's, every copy has its record, and what can be watched are the copies
\* that are in it, of which there are some to watch after an approval.
SoundHost(h) ==
  /\ h.records \ h.owned = h.author
  /\ NeededBy(h.copies) \subseteq h.records
  /\ h.watched # {} => h.watched = {h.copies}
  /\ h.preview = "absent" => h.watched = {}
  /\ h.preview = "approved" => h.watched # {}

SharerCall == [at : {"idle", "share", "preview", "final", "overtaken"}, refs : RefLists,
               read : 0..MaxShared]

\* A render that has not been overtaken compiles the copies that are in the host,
\* and for a preview that is still open.
RendersTheHost(t) ==
  sharer[t].at = "preview" =>
    sharer[t].refs = host.copies /\ host.preview = "open"

SharedIInv ==
  /\ origin \in [Origins -> [valid : BOOLEAN, look : 1..MaxLooks, record : Records]]
  /\ host \in HostManifest /\ SoundHost(host)
  /\ sharer \in [Sharers -> SharerCall]
  /\ \A t \in Sharers : RendersTheHost(t)

\* The inductive invariant says all that the run checks.
LEMMA SharedInvHolds ==
  ASSUME SharedIInv
  PROVE  SharedInv
<1>1. SharedTypeOK
  BY DEF SharedIInv, SharedTypeOK, HostManifest, SharerCall
<1>2. BaseHost(host).records = host.author
  BY DEF SharedIInv, HostManifest, SoundHost, BaseHost
<1> QED
  BY <1>1, <1>2 DEF SharedIInv, SoundHost, SharedInv, HostIsRestorable, ApprovedCopiesWereWatched

\* A list of references is a sequence of bounded length; the empty one is one.
LEMMA ListsAreBounded ==
  ASSUME SharedAssumption
  PROVE  /\ <<>> \in RefLists
         /\ \A l \in RefLists : /\ Len(l) \in 0..MaxShared /\ DOMAIN l = 1..Len(l)
                                /\ \A i \in DOMAIN l : l[i] \in SharedRef
<1>1. ASSUME NEW l \in RefLists
      PROVE  /\ Len(l) \in 0..MaxShared /\ DOMAIN l = 1..Len(l)
             /\ \A i \in DOMAIN l : l[i] \in SharedRef
  <2>1. PICK n \in 0..MaxShared : l \in [1..n -> SharedRef]
    BY <1>1 DEF RefLists
  <2>2. n \in Nat /\ l \in Seq(SharedRef) /\ Len(l) = n
    BY <2>1, SharedAssumption DEF SharedAssumption
  <2> QED
    BY <2>1, <2>2
<1>2. <<>> \in RefLists
  <2>1. <<>> \in [1..0 -> SharedRef] /\ DOMAIN <<>> = {}
    OBVIOUS
  <2>2. 0 \in 0..MaxShared
    BY SharedAssumption DEF SharedAssumption
  <2> QED
    BY <2>1, <2>2 DEF RefLists
<1> QED
  BY <1>1, <1>2

\* The records that copies need are source records, and none where nothing is
\* shared.
LEMMA NeededAreRecords ==
  ASSUME SharedAssumption, SharedIInv
  PROVE  /\ NeededBy(<<>>) = {}
         /\ \A l \in RefLists : NeededBy(l) \subseteq Records
<1>1. \A l \in RefLists : \A i \in DOMAIN l : l[i].of \in Origins
  BY ListsAreBounded DEF SharedRef
<1>2. \A o \in Origins : origin[o].record \in Records
  BY DEF SharedIInv
<1> QED
  BY <1>1, <1>2 DEF NeededBy

\* A caller that is idle or overtaken renders nothing.
LEMMA UnengagedIsACall ==
  ASSUME SharedAssumption
  PROVE  /\ Unengaged \in SharerCall /\ Unengaged.at # "preview"
         /\ Overtaken \in SharerCall /\ Overtaken.at # "preview"
BY ListsAreBounded DEF Unengaged, Overtaken, SharerCall, SharedAssumption

\* A write of a sound host keeps the invariant: it overtakes every other call.
LEMMA HostCommitKeeps ==
  ASSUME SharedAssumption, SharedIInv, NEW h \in HostManifest, SoundHost(h),
         NEW t \in Sharers, HostWrites(t, h)
  PROVE  SharedIInv'
<1>1. /\ host' = h /\ UNCHANGED origin
      /\ sharer' = [u \in Sharers |->
                      IF u = t \/ sharer[u].at = "idle" THEN Unengaged ELSE Overtaken]
  BY DEF HostWrites
<1>2. host' \in HostManifest /\ SoundHost(host)'
  BY <1>1 DEF SoundHost, NeededBy
<1>3. sharer' \in [Sharers -> SharerCall] /\ \A u \in Sharers : sharer'[u].at # "preview"
  BY <1>1, UnengagedIsACall
<1> QED
  BY <1>1, <1>2, <1>3 DEF SharedIInv, RendersTheHost

-----------------------------------------------------------------------------
(* SharedScenes: the steps                                                   *)

\* Taking the copies out gives the author's host back.
LEMMA BaseIsSound ==
  ASSUME SharedAssumption, SharedIInv
  PROVE  /\ BaseHost(host) \in HostManifest
         /\ BaseHost(host) = [host EXCEPT !.copies = <<>>, !.records = host.author, !.owned = {}]
         /\ BaseHost(host).preview = host.preview
<1>1. host \in HostManifest /\ host.records \ host.owned = host.author
  BY DEF SharedIInv, SoundHost
<1>2. BaseHost(host) = [host EXCEPT !.copies = <<>>, !.records = host.author, !.owned = {}]
  BY <1>1 DEF BaseHost, HostManifest
<1>3. [host EXCEPT !.copies = <<>>, !.records = host.author, !.owned = {}] \in HostManifest
  BY <1>1, ListsAreBounded DEF HostManifest
<1> QED
  BY <1>1, <1>2, <1>3 DEF HostManifest

\* Whatever is put into the host, the reset of the preview leaves nothing to
\* watch and no approval.
LEMMA ReopenedIsSound ==
  ASSUME NEW h \in HostManifest, h.records \ h.owned = h.author,
         NeededBy(h.copies) \subseteq h.records, h.preview = "absent" => h.watched = {}
  PROVE  PreviewReopened(h) \in HostManifest /\ SoundHost(PreviewReopened(h))
<1>1. CASE h.preview = "absent"
  BY <1>1 DEF PreviewReopened, SoundHost
<1>2. CASE h.preview # "absent"
  <2> DEFINE g == PreviewReopened(h)
  <2>1. g = [h EXCEPT !.preview = "open", !.watched = {},
               !.state = IF h.state = "ready" THEN "needs_review" ELSE h.state]
    BY <1>2 DEF PreviewReopened, HostManifest
  <2>2. /\ g \in HostManifest /\ g.records = h.records /\ g.owned = h.owned
        /\ g.author = h.author /\ g.copies = h.copies /\ g.watched = {} /\ g.preview = "open"
    BY <2>1 DEF HostManifest
  <2> QED
    BY <2>2 DEF SoundHost
<1> QED
  BY <1>1, <1>2

\* Sharing replaces the copies, their records and what the host owns of them.
LEMMA ShareKeeps ==
  ASSUME SharedAssumption, SharedIInv, NEW t \in Sharers, Share(t)
  PROVE  SharedIInv'
<1> DEFINE refs == sharer[t].refs
           need == NeededBy(refs)
           h == [WithProvenance(BaseHost(host), refs) EXCEPT !.copies = refs]
<1>1. host \in HostManifest /\ SoundHost(host) /\ refs \in RefLists /\ need \subseteq Records
  BY NeededAreRecords DEF SharedIInv, SharerCall
<1>2. HostWrites(t, PreviewReopened(h))
  BY DEF Share
<1>3. /\ h \in HostManifest /\ h.copies = refs /\ h.records = host.author \cup need
      /\ h.owned = need \ host.author /\ h.author = host.author
      /\ h.watched = host.watched /\ h.preview = host.preview
  <2> DEFINE base == BaseHost(host)
             given == [base EXCEPT !.records = host.author \cup need, !.owned = need \ host.author]
  <2>1. /\ base \in HostManifest /\ base.records = host.author /\ base.author = host.author
        /\ base.watched = host.watched /\ base.preview = host.preview
    BY <1>1, BaseIsSound DEF HostManifest
  <2>2. WithProvenance(base, refs) = given
    BY <2>1 DEF WithProvenance, HostManifest
  <2>3. h = [given EXCEPT !.copies = refs]
    BY <2>2
  <2>4. host.author \cup need \in SUBSET Records /\ need \ host.author \in SUBSET Records
    BY <1>1 DEF HostManifest
  <2> HIDE DEF base, need, refs, h
  <2>5. /\ given \in HostManifest /\ given.records = host.author \cup need
        /\ given.owned = need \ host.author /\ given.author = host.author
        /\ given.watched = host.watched /\ given.preview = host.preview
    BY <2>1, <2>4 DEF HostManifest
  <2> HIDE DEF given
  <2> QED
    BY <1>1, <2>3, <2>5 DEF HostManifest
<1> HIDE DEF h
<1>4. NeededBy(h.copies) \subseteq h.records /\ h.records \ h.owned = h.author
  BY <1>3
<1>5. h.preview = "absent" => h.watched = {}
  BY <1>1, <1>3 DEF SoundHost
<1>6. PreviewReopened(h) \in HostManifest /\ SoundHost(PreviewReopened(h))
  BY <1>3, <1>4, <1>5, ReopenedIsSound
<1> QED
  BY <1>2, <1>6, HostCommitKeeps, SharedAssumption

\* Taking the scenes back leaves neither copies nor records of theirs.
LEMMA UnshareKeeps ==
  ASSUME SharedAssumption, SharedIInv, NEW t \in Sharers, Unshare(t)
  PROVE  SharedIInv'
<1> DEFINE h == BaseHost(host)
<1>1. host \in HostManifest /\ SoundHost(host)
  BY DEF SharedIInv
<1>2. HostWrites(t, PreviewReopened(h))
  BY DEF Unshare
<1>3. /\ h \in HostManifest /\ h.copies = <<>> /\ h.records = host.author /\ h.owned = {}
      /\ h.author = host.author /\ h.watched = host.watched /\ h.preview = host.preview
  BY <1>1, BaseIsSound DEF HostManifest
<1> HIDE DEF h
<1>4. NeededBy(h.copies) \subseteq h.records /\ h.records \ h.owned = h.author
  BY <1>3, NeededAreRecords
<1>5. h.preview = "absent" => h.watched = {}
  BY <1>1, <1>3 DEF SoundHost
<1>6. PreviewReopened(h) \in HostManifest /\ SoundHost(PreviewReopened(h))
  BY <1>3, <1>4, <1>5, ReopenedIsSound
<1> QED
  BY <1>2, <1>6, HostCommitKeeps, SharedAssumption

\* The candidate is of the copies that are in the host: nobody overtook the render.
LEMMA PreviewKeeps ==
  ASSUME SharedAssumption, SharedIInv, NEW t \in Sharers, RenderedPreview(t)
  PROVE  SharedIInv'
<1> DEFINE refs == sharer[t].refs
           h == [host EXCEPT !.watched = {refs}]
<1>1. host \in HostManifest /\ SoundHost(host) /\ refs \in RefLists
  BY DEF SharedIInv, SharerCall
<1>2. HostWrites(t, h) /\ refs = host.copies /\ host.preview = "open"
  BY DEF RenderedPreview, Validated, SharedIInv, RendersTheHost
<1>3. /\ h \in HostManifest /\ h.copies = host.copies /\ h.records = host.records
      /\ h.owned = host.owned /\ h.author = host.author /\ h.watched = {refs}
      /\ h.preview = host.preview
  BY <1>1 DEF HostManifest
<1> HIDE DEF h
<1>4. SoundHost(h)
  BY <1>1, <1>2, <1>3 DEF SoundHost
<1> QED
  BY <1>2, <1>3, <1>4, HostCommitKeeps, SharedAssumption

\* The review and the claim of a final render move the state and the preview,
\* and an approval finds something that can be watched.
LEMMA HostReviewKeeps ==
  ASSUME SharedAssumption, SharedIInv, NEW t \in Sharers, HostReview(t) \/ ClaimedFinal(t)
  PROVE  SharedIInv'
<1>1. PICK seen \in {"absent", "open", "approved"},
           state \in {"prepared", "needs_review", "ready", "rendering"} :
        /\ HostWrites(t, [host EXCEPT !.preview = seen, !.state = state])
        /\ seen = "absent" => host.preview = "absent"
        /\ seen = "approved" => host.watched # {}
  <2>1. host \in HostManifest /\ SoundHost(host)
    BY DEF SharedIInv
  <2>2. ASSUME NEW state \in {"ready", "rendering"}, HostWrites(t, [host EXCEPT !.state = state])
        PROVE  /\ HostWrites(t, [host EXCEPT !.preview = host.preview, !.state = state])
               /\ host.preview \in {"absent", "open", "approved"}
    <3>1. [host EXCEPT !.state = state] = [host EXCEPT !.preview = host.preview, !.state = state]
      BY <2>1 DEF HostManifest
    <3> QED
      BY <2>1, <2>2, <3>1 DEF HostManifest
  <2>3. CASE ClaimedFinal(t)
    BY <2>1, <2>2, <2>3 DEF ClaimedFinal, SoundHost
  <2>4. CASE HostReview(t)
    BY <2>1, <2>2, <2>4 DEF HostReview, SoundHost
  <2> QED
    BY <2>3, <2>4
<1> DEFINE h == [host EXCEPT !.preview = seen, !.state = state]
<1>2. host \in HostManifest /\ SoundHost(host)
  BY DEF SharedIInv
<1>3. /\ h \in HostManifest /\ h.copies = host.copies /\ h.records = host.records
      /\ h.owned = host.owned /\ h.author = host.author /\ h.watched = host.watched
      /\ h.preview = seen
  BY <1>2 DEF HostManifest
<1>4. HostWrites(t, h)
  BY <1>1
<1> HIDE DEF h
<1>5. SoundHost(h)
  BY <1>1, <1>2, <1>3 DEF SoundHost
<1> QED
  BY <1>3, <1>4, <1>5, HostCommitKeeps, SharedAssumption

\* Sources change their looks and whether they stand, never the record that
\* the provenance of a copy refers to.
LEMMA SourcesKeep ==
  ASSUME SharedAssumption, SharedIInv, OriginChanges
  PROVE  SharedIInv'
<1>1. UNCHANGED <<host, sharer>>
  BY DEF OriginChanges
<1>2. /\ origin' \in [Origins -> [valid : BOOLEAN, look : 1..MaxLooks, record : Records]]
      /\ \A o \in Origins : origin'[o].record = origin[o].record
  <2>1. PICK o \in Origins :
          \/ origin' = [origin EXCEPT ![o].look = @ + 1, ![o].valid = TRUE] /\ origin[o].look < MaxLooks
          \/ origin' = [origin EXCEPT ![o].valid = ~@]
    BY DEF OriginChanges
  <2> DEFINE Source == [valid : BOOLEAN, look : 1..MaxLooks, record : Records]
             src == origin[o]
  <2>2. src \in Source
    BY DEF SharedIInv
  <2>3. PICK new \in Source :
          new.record = src.record /\ origin' = [origin EXCEPT ![o] = new]
    <3>1. CASE /\ origin[o].look < MaxLooks
               /\ origin' = [origin EXCEPT ![o].look = @ + 1, ![o].valid = TRUE]
      <4> DEFINE moved == [src EXCEPT !.look = src.look + 1]
                 new == [moved EXCEPT !.valid = TRUE]
      <4>1. src.look + 1 \in 1..MaxLooks
        BY <2>2, <3>1, SharedAssumption DEF SharedAssumption
      <4>2. origin' = [origin EXCEPT ![o] = new]
        BY <3>1 DEF SharedIInv
      <4> HIDE DEF src
      <4>3. moved \in Source /\ moved.record = src.record
        BY <2>2, <4>1
      <4> HIDE DEF moved
      <4>4. new \in Source /\ new.record = src.record
        BY <4>3
      <4> QED
        BY <4>2, <4>4
    <3>2. CASE origin' = [origin EXCEPT ![o].valid = ~@]
      <4> DEFINE new == [src EXCEPT !.valid = ~src.valid]
      <4>1. origin' = [origin EXCEPT ![o] = new]
        BY <3>2 DEF SharedIInv
      <4> HIDE DEF src
      <4>2. new \in Source /\ new.record = src.record
        BY <2>2
      <4> QED
        BY <4>1, <4>2
    <3> QED
      BY <2>1, <3>1, <3>2
  <2> QED
    BY <2>3 DEF SharedIInv
<1>3. \A l \in RefLists : NeededBy(l)' = NeededBy(l)
  BY <1>2, ListsAreBounded DEF NeededBy, SharedRef
<1>4. SoundHost(host)'
  <2>1. host.copies \in RefLists /\ SoundHost(host)
    BY DEF SharedIInv, HostManifest
  <2>2. NeededBy(host.copies)' = NeededBy(host.copies)
    BY <1>1, <1>3, <2>1 DEF NeededBy
  <2> QED
    BY <1>1, <2>1, <2>2 DEF SoundHost
<1> QED
  BY <1>1, <1>2, <1>4 DEF SharedIInv, RendersTheHost

\* Calls begin, read source after source and are given up; the host stays.
LEMMA SharersKeep ==
  ASSUME SharedAssumption, SharedIInv, NEW t \in Sharers,
         BeginShare(t) \/ BeginRender(t) \/ ReadOrigin(t) \/ GiveUpSharing(t)
  PROVE  SharedIInv'
<1>1. UNCHANGED <<origin, host>> /\ host \in HostManifest
  BY DEF BeginShare, BeginRender, ReadOrigin, GiveUpSharing, SharedIInv
<1>2. SoundHost(host)'
  BY <1>1 DEF SharedIInv, SoundHost, NeededBy
<1>3. PICK call \in SharerCall :
        /\ sharer' = [sharer EXCEPT ![t] = call]
        /\ call.at = "preview" => call.refs = host.copies /\ host.preview = "open"
  <2>1. CASE BeginShare(t)
    <3>1. PICK refs \in RefLists :
            sharer' = [sharer EXCEPT ![t] = [at |-> "share", refs |-> refs, read |-> 0]]
      BY <2>1 DEF BeginShare
    <3> DEFINE call == [at |-> "share", refs |-> refs, read |-> 0]
    <3>2. call \in SharerCall
      BY SharedAssumption DEF SharerCall, SharedAssumption
    <3> QED
      BY <3>1, <3>2
  <2>2. CASE BeginRender(t)
    <3>1. PICK purpose \in {"preview", "final"} :
            /\ purpose = "preview" => host.preview = "open"
            /\ sharer' = [sharer EXCEPT ![t] = [at |-> purpose, refs |-> host.copies, read |-> 0]]
      BY <2>2 DEF BeginRender
    <3> DEFINE call == [at |-> purpose, refs |-> host.copies, read |-> 0]
    <3>2. call \in SharerCall
      BY <1>1, SharedAssumption DEF SharerCall, SharedAssumption, HostManifest
    <3> QED
      BY <3>1, <3>2
  <2>3. CASE ReadOrigin(t)
    <3>1. sharer[t] \in SharerCall /\ RendersTheHost(t)
      BY DEF SharedIInv
    <3>2. sharer[t].read + 1 \in 0..MaxShared
      BY <2>3, <3>1, ListsAreBounded DEF ReadOrigin, SharerCall
    <3>3. sharer' = [sharer EXCEPT ![t] = [sharer[t] EXCEPT !.read = sharer[t].read + 1]]
      BY <2>3 DEF ReadOrigin, SharedIInv
    <3> DEFINE call == [sharer[t] EXCEPT !.read = sharer[t].read + 1]
    <3>4. /\ call \in SharerCall /\ call.at = sharer[t].at
          /\ call.refs = sharer[t].refs
      BY <3>1, <3>2 DEF SharerCall
    <3> HIDE DEF call
    <3>5. sharer' = [sharer EXCEPT ![t] = call]
      BY <3>3 DEF call
    <3> QED
      BY <3>1, <3>4, <3>5 DEF RendersTheHost
  <2>4. CASE GiveUpSharing(t)
    BY <2>4, UnengagedIsACall DEF GiveUpSharing
  <2> QED
    BY <2>1, <2>2, <2>3, <2>4
<1>4. sharer' \in [Sharers -> SharerCall] /\ \A u \in Sharers : RendersTheHost(u)'
  BY <1>1, <1>3 DEF SharedIInv, RendersTheHost
<1> QED
  BY <1>1, <1>2, <1>4 DEF SharedIInv

\* Every step of the sources, the sharers and the host's review keeps the
\* invariant.
LEMMA SharedGoesOn ==
  ASSUME SharedAssumption, SharedIInv, [SharedNext]_sharedVars
  PROVE  SharedIInv'
<1>1. CASE UNCHANGED sharedVars
  BY <1>1 DEF sharedVars, SharedIInv, SoundHost, NeededBy, RendersTheHost
<1> QED
  BY <1>1, SourcesKeep, SharersKeep, ShareKeeps, UnshareKeeps, PreviewKeeps, HostReviewKeeps
  DEF SharedNext

\* A host starts as its author made it.
LEMMA SharedStarts ==
  ASSUME SharedAssumption, SharedInit
  PROVE  SharedIInv
<1>1. PICK own \in SUBSET Records :
        host = [state |-> "prepared", preview |-> "absent", copies |-> <<>>,
                watched |-> {}, records |-> own, owned |-> {}, author |-> own]
  BY DEF SharedInit
<1>2. host \in HostManifest
  BY <1>1, ListsAreBounded DEF HostManifest
<1>3. SoundHost(host)
  BY <1>1 DEF SoundHost, NeededBy
<1>4. origin \in [Origins -> [valid : BOOLEAN, look : 1..MaxLooks, record : Records]]
  <2>1. origin \in [Origins -> [valid : {TRUE}, look : {1}, record : Records]]
    BY DEF SharedInit
  <2>2. [valid : {TRUE}, look : {1}, record : Records]
          \subseteq [valid : BOOLEAN, look : 1..MaxLooks, record : Records]
    <3>1. 1 \in 1..MaxLooks
      BY SharedAssumption DEF SharedAssumption
    <3> QED
      BY <3>1
  <2> QED
    BY <2>1, <2>2
<1>5. sharer \in [Sharers -> SharerCall] /\ \A t \in Sharers : sharer[t].at # "preview"
  BY UnengagedIsACall DEF SharedInit
<1> QED
  BY <1>2, <1>3, <1>4, <1>5 DEF SharedIInv, RendersTheHost

\* However often scenes are shared, replaced and taken back while their
\* sources change: the host can be had back as its author made it, every copy
\* has its record, and what was approved is what was watched
\* (application/long_form_shared.py and its workflow).
THEOREM SharedSafety == SharedSpec => []SharedInv
<1>1. SharedInit => SharedIInv
  BY SharedAssumption, SharedStarts
<1>2. SharedIInv /\ [SharedNext]_sharedVars => SharedIInv'
  BY SharedAssumption, SharedGoesOn
<1>3. SharedIInv => SharedInv
  BY SharedInvHolds
<1> QED
  BY <1>1, <1>2, <1>3, PTL DEF SharedSpec
=============================================================================
