--------------------------- MODULE PanelDialogue ---------------------------
(***************************************************************************)
(* Panel text and dialogue of one project: OCR of a panel with its          *)
(* correction task (application/panel_ocr.py), the character registry and   *)
(* the speaker assignment of a scene (application/dialogue.py and its two   *)
(* hardening passes).  Both workflows and the preview review of the same     *)
(* project take it to needs_review and give it back.                        *)
(*                                                                         *)
(* Every operation reads the manifest and writes it back only if it is       *)
(* unchanged (_cas_project; updated_at makes every write a new manifest), so *)
(* a short operation is one step.  OCR is not short: the provider runs       *)
(* between snapshot and write, and `fresh` says the snapshot is still the    *)
(* stored manifest.                                                         *)
(*                                                                         *)
(* A panel has one text region.  An extraction digest is what is known of    *)
(* its text, a registry is the version of each character record.            *)
(***************************************************************************)
EXTENDS Naturals, FiniteSets

CONSTANTS Panels,       \* scenes of the project with a panel image
          Characters,   \* characters people may register
          Readers,      \* threads running OCR
          Unnamed        \* no character, no state, no panel

ASSUME PanelAssumption ==
  Unnamed \notin Characters \cup Panels \cup {"prepared", "ready", "needs_review"}

VARIABLES panel,    \* the manifest: lifecycle state, extractions, dialogue, review tasks
          reader    \* per OCR thread: its panel, the resume state it read, its snapshot

panelVars == <<panel, reader>>

Settling  == {"prepared", "ready"}
Editable  == Settling \cup {"needs_review"}
Texts     == {"unread", "uncertain", "corrected", "certain"}
Registry  == [Characters -> {"unknown", "recorded", "renamed"}]

OcrTask == [status : {"none", "open", "resolved"}, resume : Editable \cup {Unnamed}, seen : Texts]
Payload == [text : Texts, registry : Registry, resume : Settling \cup {Unnamed}]
DialogueTask == [status : {"none", "open", "resolved"}, payload : Payload,
                 accepted : Characters \cup {Unnamed}]

NoReader  == [panel |-> Unnamed, resume |-> Unnamed, fresh |-> FALSE]
NoOcrTask == [status |-> "none", resume |-> Unnamed, seen |-> "unread"]
NoDialogueTask ==
  [status |-> "none", accepted |-> Unnamed,
   payload |-> [text |-> "unread", registry |-> [c \in Characters |-> "unknown"], resume |-> Unnamed]]

PanelTypeOK ==
  /\ panel.state \in Editable \cup {"rendering", "done"}
  /\ panel.text \in [Panels -> Texts]
  /\ panel.ocrTask \in [Panels -> OcrTask]
  /\ panel.ocrResume \in Editable \cup {Unnamed}
  /\ panel.registry \in Registry
  /\ panel.speaker \in [Panels -> [by : Characters \cup {Unnamed}, text : Texts]]
  /\ panel.task \in [Panels -> DialogueTask]
  /\ panel.resume \in Settling \cup {Unnamed}
  /\ panel.preview \in {"absent", "open", "approved"}
  /\ reader \in [Readers -> [panel : Panels \cup {Unnamed}, resume : Editable \cup {Unnamed},
                             fresh : BOOLEAN]]

PanelInit ==
  /\ panel = [state |-> "prepared", preview |-> "absent",
              text |-> [s \in Panels |-> "unread"], ocrTask |-> [s \in Panels |-> NoOcrTask],
              ocrResume |-> Unnamed,
              registry |-> [c \in Characters |-> "unknown"],
              speaker |-> [s \in Panels |-> [by |-> Unnamed, text |-> "unread"]],
              task |-> [s \in Panels |-> NoDialogueTask], resume |-> Unnamed]
  /\ reader = [r \in Readers |-> NoReader]

-----------------------------------------------------------------------------
(* Helpers.                                                                *)

\* Every committed write makes all snapshots taken before it stale.
PanelCommit(p) ==
  /\ panel' = p
  /\ reader' = [r \in Readers |-> [reader[r] EXCEPT !.fresh = FALSE]]

OpenOcr(p)      == {s \in Panels : p.ocrTask[s].status = "open"}
OpenDialogue(p) == {s \in Panels : p.task[s].status = "open"}
Blockers(p) == OpenOcr(p) # {} \/ OpenDialogue(p) # {} \/ p.preview = "open"
Registered(p) == {c \in Characters : p.registry[c] # "unknown"}
Assigned(p)   == {s \in Panels : p.speaker[s].by # Unnamed}

\* What a resolved review returns the project to.
Settle(p, resume) == [p EXCEPT !.state = IF Blockers(p) THEN "needs_review" ELSE resume]

\* _review_payload: the region's text, the registry and the resume state.
Canonical(p, s, resume) ==
  [text |-> p.text[s], registry |-> p.registry, resume |-> resume]

\* _panel_extraction: retained, and no uncertainty left.
Readable(p, s) == p.text[s] \in {"certain", "corrected"}

-----------------------------------------------------------------------------
(* OCR.                                                                    *)

\* A snapshot, its checks, and the provider is called.  A retained
\* extraction is returned as it is.
OcrStart(r) == \E s \in Panels :
  /\ reader[r] = NoReader
  /\ panel.state \in Editable
  /\ panel.text[s] = "unread"
  /\ panel.ocrResume # Unnamed => panel.state = "needs_review"
  /\ reader' = [reader EXCEPT ![r] =
       [panel |-> s, fresh |-> TRUE,
        resume |-> IF panel.ocrResume = Unnamed THEN panel.state ELSE panel.ocrResume]]
  /\ UNCHANGED panel

\* Slip: the answer is written over whatever the manifest has become.
OcrFinishUnchecked(r) == \E t \in {"certain", "uncertain"} :
  /\ reader[r].panel # Unnamed
  /\ panel.state \in Editable
  /\ panel' = [panel EXCEPT !.text[reader[r].panel] = t]
  /\ reader' = [reader EXCEPT ![r] = NoReader]

\* The answer is retained; an uncertain one opens a correction task and
\* takes the project to needs_review.
OcrFinish(r) == \E t \in {"certain", "uncertain"} :
  LET s == reader[r].panel IN
  /\ s # Unnamed /\ reader[r].fresh
  /\ LET read == [panel EXCEPT !.text[s] = t] IN
     /\ panel' = IF t = "certain" THEN read
                 ELSE [read EXCEPT !.state = "needs_review", !.ocrResume = reader[r].resume,
                         !.ocrTask[s] = [status |-> "open", resume |-> reader[r].resume, seen |-> t]]
     /\ reader' = [q \in Readers |-> IF q = r THEN NoReader
                                     ELSE [reader[q] EXCEPT !.fresh = FALSE]]

\* The provider fails, or the snapshot is no longer the stored manifest.
OcrGiveUp(r) ==
  /\ reader[r].panel # Unnamed
  /\ reader' = [reader EXCEPT ![r] = NoReader]
  /\ UNCHANGED panel

\* The acceptance guards of apply_corrections.
Correctable(p, s) ==
  /\ p.ocrTask[s].status = "open" /\ p.state = "needs_review"
  /\ p.ocrResume \in Editable /\ p.ocrResume = p.ocrTask[s].resume
  /\ p.text[s] = "uncertain" /\ p.ocrTask[s].seen = p.text[s]

Correct == \E s \in Panels :
  /\ Correctable(panel, s)
  /\ LET fixed == [panel EXCEPT !.text[s] = "corrected", !.ocrTask[s].status = "resolved"]
         left  == IF OpenOcr(fixed) = {} THEN [fixed EXCEPT !.ocrResume = Unnamed] ELSE fixed
     IN PanelCommit(Settle(left, panel.ocrResume))

-----------------------------------------------------------------------------
(* Characters and speakers.                                                *)

\* _reject_character_registry_review_collision
RegistryIsFree(p) == p.state \in Settling /\ OpenDialogue(p) = {}

RegisterCharacter == \E c \in Characters :
  /\ RegistryIsFree(panel)
  /\ panel.registry[c] = "unknown"
  /\ PanelCommit([panel EXCEPT !.registry[c] = "recorded"])

Rename(c) == PanelCommit([panel EXCEPT !.registry[c] = IF @ = "renamed" THEN "recorded" ELSE "renamed"])

UpdateCharacter == \E c \in Characters :
  RegistryIsFree(panel) /\ panel.registry[c] # "unknown" /\ Rename(c)

\* _resume_state: a checkpoint of its own, or an editable project no other
\* review holds.
MayResume(p) == IF p.resume # Unnamed THEN p.state = "needs_review" ELSE p.state \in Settling
ResumeOf(p)  == IF p.resume # Unnamed THEN p.resume ELSE p.state

PrepareScene == \E s \in Panels :
  /\ Registered(panel) # {}
  /\ s \notin Assigned(panel)
  /\ Readable(panel, s)
  /\ MayResume(panel)
  /\ panel.task[s].status = "none"
  /\ PanelCommit([panel EXCEPT !.state = "needs_review", !.resume = ResumeOf(panel),
               !.task[s] = [status |-> "open", accepted |-> Unnamed,
                            payload |-> Canonical(panel, s, ResumeOf(panel))]])

\* The acceptance guards of apply_scene_assignment.
Assignable(p, s) ==
  /\ p.task[s].status = "open" /\ p.state = "needs_review" /\ p.resume \in Settling
  /\ s \notin Assigned(p) /\ Readable(p, s)
  /\ p.task[s].payload = Canonical(p, s, p.resume)

ApplyScene == \E s \in Panels : \E c \in Registered(panel) :
  /\ Assignable(panel, s)
  /\ LET taken == [panel EXCEPT !.speaker[s] = [by |-> c, text |-> panel.text[s]],
                                !.task[s].status = "resolved", !.task[s].accepted = c]
         left  == IF OpenDialogue(taken) = {} THEN [taken EXCEPT !.resume = Unnamed] ELSE taken
     IN PanelCommit(Settle(left, panel.resume))

\* DialogueWorkflow.list_queue: one task that fails a check takes every task of
\* the project off the phone's queue.
Queued(p) ==
  IF \A s \in OpenDialogue(p) : Assignable(p, s) THEN OpenDialogue(p) ELSE {}

\* validated_dialogue_manifest, of one accepted scene: the extraction it was read
\* from is retained, and the one resolved task of the scene accepted it.
Proven(p, s) ==
  /\ Readable(p, s) /\ p.speaker[s].text = p.text[s]
  /\ p.speaker[s].by \in Registered(p)
  /\ p.task[s].status = "resolved" /\ p.task[s].accepted = p.speaker[s].by

-----------------------------------------------------------------------------
(* The preview review and the final render of the same project, as far as   *)
(* they move its state (ReviewProject has them in full).                    *)

Bootstrap ==
  /\ panel.preview = "absent" /\ panel.state \in Editable
  /\ PanelCommit([panel EXCEPT !.preview = "open", !.state = "needs_review"])

ApprovePreview ==
  /\ panel.preview = "open" /\ panel.state = "needs_review"
  /\ OpenOcr(panel) = {} /\ OpenDialogue(panel) = {}
  /\ PanelCommit([panel EXCEPT !.preview = "approved", !.state = "ready"])

RenderFinal ==
  \/ /\ panel.preview = "approved" /\ panel.state = "ready"
     /\ PanelCommit([panel EXCEPT !.state = "rendering"])
  \/ /\ panel.state = "rendering"
     /\ \E next \in {"ready", "done"} : PanelCommit([panel EXCEPT !.state = next])

PanelNext ==
  \/ \E r \in Readers : OcrStart(r) \/ OcrFinish(r) \/ OcrGiveUp(r)
  \/ Correct \/ RegisterCharacter \/ UpdateCharacter \/ PrepareScene \/ ApplyScene
  \/ Bootstrap \/ ApprovePreview \/ RenderFinal

PanelSpec == PanelInit /\ [][PanelNext]_panelVars

-----------------------------------------------------------------------------
(* Properties.                                                             *)

\* However OCR corrections, speaker assignments and the preview review
\* overlap, every open task still meets the guards of the request that
\* answers it: nothing it shows has drifted, and the state to return to is
\* still there.  A task that no longer does can never be closed.
OpenWorkIsActionable ==
  \A s \in Panels :
    /\ panel.ocrTask[s].status = "open" => Correctable(panel, s)
    /\ s \in OpenDialogue(panel) => s \in Queued(panel) /\ Registered(panel) # {}

\* validated_dialogue_manifest never fails on what the workflows wrote: an
\* accepted speaker is registered, was read from the extraction that is
\* retained now, and is the one the resolved task accepted.  Voice, story and
\* render all refuse a project for which this fails.
AcceptedDialogueIsProven ==
  \A s \in Assigned(panel) : Proven(panel, s)

\* The work OCR and dialogue leave for people (application/panel_ocr.py,
\* dialogue.py): both of these, and the types.
PanelReviewInv == PanelTypeOK /\ OpenWorkIsActionable /\ AcceptedDialogueIsProven
=============================================================================
