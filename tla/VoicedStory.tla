---------------------------- MODULE VoicedStory ----------------------------
(***************************************************************************)
(* From accepted dialogue to a voiced scene, in one project: the cast        *)
(* registry and the binding of characters to cast revisions                  *)
(* (application/voice_cast_*.py), synthesis of a line (application/tts.py),   *)
(* the story materialized over the scenes (application/voiced_story.py) and  *)
(* its presentation (application/voiced_scene.py and its hardening).         *)
(*                                                                         *)
(* A write is a compare-and-set of the manifest, so an operation is one       *)
(* step, except that a line is spoken between a snapshot and its write and   *)
(* that regenerate_line makes two writes.  `fresh`: the snapshot is still     *)
(* the stored manifest.                                                      *)
(*                                                                         *)
(* A scene has one line.  A voice is what a cast revision, or an override of *)
(* its settings, makes a character sound like; a take is the bytes one       *)
(* synthesis returned.  A scene's length is the take it was cut to, Authored *)
(* before that.                                                             *)
(***************************************************************************)
EXTENDS Naturals, FiniteSets

CONSTANTS Scenes, Cast, Threads, Presets,
          NoOne,        \* no character, no scene, no preset
          MaxRevision,   \* bound: revisions of the cast
          MaxTakes       \* bound: different recordings of one line in one voice

ASSUME VoiceAssumption ==
  /\ MaxRevision \in Nat \ {0} /\ MaxTakes \in Nat \ {0}
  /\ NoOne \notin Scenes \cup Cast \cup Presets

VARIABLES story,     \* the manifest: dialogue, bindings, receipts, story, presentation
          revision,  \* the newest cast revision
          voicing    \* per thread: the line it is synthesizing

voiceVars == <<story, revision, voicing>>

Override == MaxRevision + 1
Voices   == 1..Override
Authored == <<0, 0>>
Cuts     == (0..Override) \X (0..MaxTakes)     \* <<voice, take>>
NoLine   == [cut |-> Authored, base |-> Authored]
Unreviewed  == {"prepared", "ready"}

Idle == [at |-> "idle", scene |-> NoOne, voice |-> 0, force |-> FALSE, fresh |-> FALSE]

VoiceTypeOK ==
  /\ story.state \in Unreviewed \cup {"needs_review"}
  /\ story.preview \in {"absent", "open", "approved"}
  /\ story.speaker \in [Scenes -> Cast \cup {NoOne}]
  /\ story.bound \in [Cast -> 0..Override]
  /\ story.heard \in [Scenes -> Cuts]
  /\ story.told \in [Scenes -> [cut : Cuts, base : Cuts]]
  /\ story.owned \in [Scenes -> Cuts] /\ story.length \in [Scenes -> Cuts]
  /\ story.shown \in [preset : Presets \cup {NoOne}, of : [Scenes -> [cut : Cuts, base : Cuts]]]
  /\ story.look \in Presets \cup {NoOne}
  /\ revision \in 1..MaxRevision
  /\ voicing \in [Threads -> [at : {"idle", "resolved", "speaking", "spoken"},
                              scene : Scenes \cup {NoOne}, voice : 0..Override,
                              force : BOOLEAN, fresh : BOOLEAN]]

Nothing == [s \in Scenes |-> NoLine]
NotShown == [preset |-> NoOne, of |-> Nothing]

VoiceInit ==
  /\ story = [state |-> "prepared", preview |-> "absent",
              speaker |-> [s \in Scenes |-> NoOne], bound |-> [c \in Cast |-> 0],
              heard |-> [s \in Scenes |-> Authored], told |-> Nothing,
              owned |-> [s \in Scenes |-> Authored], length |-> [s \in Scenes |-> Authored],
              shown |-> NotShown, look |-> NoOne]
  /\ revision = 1
  /\ voicing = [t \in Threads |-> Idle]

-----------------------------------------------------------------------------
StoryCommit(p) ==
  /\ story' = p
  /\ voicing' = [t \in Threads |-> [voicing[t] EXCEPT !.fresh = FALSE]]
  /\ UNCHANGED revision

Accepted(p)  == {s \in Scenes : p.speaker[s] # NoOne}
LinesOf(p,c) == {s \in Scenes : p.speaker[s] = c}
HasStory(p)  == \E s \in Scenes : p.told[s] # NoLine

\* _resolve_from_project: the voice a line has now, 0 if its character is unbound.
VoiceOf(p, s) == IF p.speaker[s] = NoOne THEN 0 ELSE p.bound[p.speaker[s]]

-----------------------------------------------------------------------------
(* Dialogue and preview reviews, as far as they concern voices.            *)

\* A speaker is accepted in a review that held the project in needs_review.
AcceptDialogue == \E s \in Scenes \ Accepted(story), c \in Cast :
  StoryCommit([story EXCEPT !.speaker[s] = c])

Review ==
  \/ /\ story.preview = "absent"
     /\ StoryCommit([story EXCEPT !.preview = "open", !.state = "needs_review"])
  \/ /\ story.preview = "open"
     /\ StoryCommit([story EXCEPT !.preview = "approved", !.state = "ready"])

-----------------------------------------------------------------------------
(* The cast.                                                               *)

\* A new definition is a new revision; revisions are never changed.
PutCast ==
  /\ revision < MaxRevision
  /\ revision' = revision + 1
  /\ UNCHANGED <<story, voicing>>

\* _invalidate_character_tts: receipts of the character's lines are removed
\* with the binding that made them.
Rebound(p, c, v) ==
  [p EXCEPT !.bound[c] = v,
            !.heard = [s \in Scenes |-> IF s \in LinesOf(p, c) THEN Authored ELSE p.heard[s]]]

Bind == \E c \in Cast, v \in (1..revision) \cup {Override} :
  /\ story.state \in Unreviewed
  /\ story.bound[c] # v
  /\ StoryCommit(Rebound(story, c, v))

Unbind == \E c \in Cast :
  /\ story.state \in Unreviewed
  /\ story.bound[c] # 0
  /\ StoryCommit(Rebound(story, c, 0))

-----------------------------------------------------------------------------
(* Synthesis of a line.                                                    *)

\* VoiceCastWorkflow.synthesize_line, preview_character or regenerate_line
\* resolves the voice from one snapshot.
Resolve(t) == \E s \in Scenes, f \in BOOLEAN :
  /\ voicing[t].at = "idle"
  /\ VoiceOf(story, s) # 0
  /\ voicing' = [voicing EXCEPT ![t] = [at |-> "resolved", scene |-> s, force |-> f,
                                        voice |-> VoiceOf(story, s), fresh |-> TRUE]]
  /\ UNCHANGED <<story, revision>>

\* Slip: synthesis goes on from whatever snapshot it finds.
SpeakFromNewSnapshot(t) ==
  /\ voicing[t].at = "resolved"
  /\ story.state \in Unreviewed
  /\ voicing' = [voicing EXCEPT ![t].at = "speaking", ![t].fresh = TRUE]
  /\ UNCHANGED <<story, revision>>

\* _validate_record_identity: the receipt of line s is of a request in voice v.
IsReceiptOf(p, s, v) == p.heard[s][1] = v

\* A second snapshot, which must be the one the voice was resolved from; a
\* current receipt of the same request is returned as it is.
Speak(t) ==
  /\ voicing[t].at = "resolved" /\ voicing[t].fresh
  /\ story.state \in Unreviewed
  /\ ~IsReceiptOf(story, voicing[t].scene, voicing[t].voice) \/ voicing[t].force
  /\ voicing' = [voicing EXCEPT ![t].at = "speaking"]
  /\ UNCHANGED <<story, revision>>

\* The recording is ingested and its receipt written, if the manifest is
\* still the one the request was made from.
Record(t) == \E n \in 1..MaxTakes :
  LET v == voicing[t] IN
  /\ v.at = "speaking" /\ v.fresh
  /\ story' = [story EXCEPT !.heard[v.scene] = <<v.voice, n>>]
  /\ voicing' = [u \in Threads |->
       IF u # t THEN [voicing[u] EXCEPT !.fresh = FALSE]
       ELSE IF v.force THEN [v EXCEPT !.at = "spoken", !.fresh = FALSE] ELSE Idle]
  /\ UNCHANGED revision

\* The provider or a check fails, the cached receipt is returned, or the
\* story is not told again after a regenerated line.
Leave(t) ==
  /\ voicing[t].at # "idle"
  /\ voicing' = [voicing EXCEPT ![t] = Idle]
  /\ UNCHANGED <<story, revision>>

-----------------------------------------------------------------------------
(* The story.                                                              *)

\* derive refuses a line that is unbound, unspoken or spoken in another voice.
Derivable(p) ==
  /\ Accepted(p) # {}
  /\ \A s \in Accepted(p) : VoiceOf(p, s) # 0 /\ IsReceiptOf(p, s, VoiceOf(p, s))

Derived(p) ==
  [s \in Scenes |-> IF s \notin Accepted(p) THEN NoLine
                    ELSE [cut |-> p.heard[s],
                          base |-> IF p.told[s] = NoLine THEN p.length[s] ELSE p.told[s].base]]

\* _scene_materialization_matches
ScenesMatch(p, told) ==
  \A s \in Scenes : p.owned[s] = told[s].cut /\ (told[s] # NoLine => p.length[s] = told[s].cut)

StoryIsCurrent(p) ==
  HasStory(p) /\ Derivable(p) /\ p.told = Derived(p) /\ ScenesMatch(p, p.told)

Told(p) ==
  [p EXCEPT !.told = Derived(p), !.owned = [s \in Scenes |-> Derived(p)[s].cut],
            !.length = [s \in Scenes |-> IF s \in Accepted(p) THEN p.heard[s] ELSE p.length[s]]]

Materialize ==
  /\ story.state \in Unreviewed
  /\ Derivable(story) /\ ~StoryIsCurrent(story)
  /\ StoryCommit(Told(story))

\* regenerate_line's second write.
TellAgain(t) ==
  /\ voicing[t].at = "spoken"
  /\ HasStory(story) /\ story.state \in Unreviewed
  /\ Derivable(story) /\ ~StoryIsCurrent(story)
  /\ story' = Told(story)
  /\ voicing' = [u \in Threads |-> IF u = t THEN Idle ELSE [voicing[u] EXCEPT !.fresh = FALSE]]
  /\ UNCHANGED revision

Dematerialize ==
  /\ story.state \in Unreviewed
  /\ HasStory(story) /\ ScenesMatch(story, story.told)
  /\ StoryCommit([story EXCEPT !.told = Nothing, !.owned = [s \in Scenes |-> Authored],
       !.length = [s \in Scenes |-> IF story.told[s] = NoLine THEN @[s] ELSE story.told[s].base]])

-----------------------------------------------------------------------------
(* The presentation: ducking of the music and camera motion.               *)

\* Slip: the approved preview survives the change of presentation.
ReopenedOnlyInReview(p) == p

\* _invalidate_pr10_render_identity, in the same write as the presentation.
Reopened(p) ==
  IF p.preview = "absent" THEN p
  ELSE [p EXCEPT !.preview = "open", !.state = IF @ = "ready" THEN "needs_review" ELSE @]

\* _validate_owned_state: what the presentation put in the scenes is there.
LookIsOwned(p) == p.look = p.shown.preset

\* derive: the plan of a preset is of the story as it is told.
LookFor(p, k) == [preset |-> k, of |-> p.told]

\* _apply_plan and _base_project: the plan is put into the scenes and kept, or
\* both are taken away.
WithLook(p, k) == [p EXCEPT !.shown = LookFor(p, k), !.look = k]
WithoutLook(p) == [p EXCEPT !.shown = NotShown, !.look = NoOne]

Present == \E k \in Presets :
  /\ LookIsOwned(story)
  /\ StoryIsCurrent(story)
  /\ story.shown # LookFor(story, k)
  /\ StoryCommit(Reopened(WithLook(story, k)))

Unpresent ==
  /\ story.shown # NotShown /\ LookIsOwned(story)
  /\ StoryCommit(Reopened(WithoutLook(story)))

VoiceNext ==
  \/ AcceptDialogue \/ Review \/ PutCast \/ Bind \/ Unbind
  \/ \E t \in Threads : Resolve(t) \/ Speak(t) \/ Record(t) \/ Leave(t) \/ TellAgain(t)
  \/ Materialize \/ Dematerialize \/ Present \/ Unpresent

VoiceSpec == VoiceInit /\ [][VoiceNext]_voiceVars

-----------------------------------------------------------------------------
(* Properties.                                                             *)

\* A receipt is always in the voice its line has now: not in that of a
\* binding changed while the provider was speaking for minutes, nor of one
\* removed since.  (The story refuses a receipt that is not; synthesis and
\* the phone's player take it as current.)
VoiceIsCurrent ==
  \A s \in Scenes : story.heard[s] # Authored => story.heard[s][1] = VoiceOf(story, s)

\* Whatever is told, retold, regenerated and presented in whatever order,
\* the author's scene can still be had back: without a story the lengths are
\* the author's and nothing of it is left in the scenes, with one it
\* remembers the author's lengths and is what the scenes hold; the same of
\* the music and the camera.
AuthorIsRestorable ==
  /\ \A s \in Scenes :
       /\ story.owned[s] = story.told[s].cut
       /\ story.length[s] = story.told[s].cut
       /\ story.told[s].base = Authored
  /\ LookIsOwned(story)

\* Recordings, story and look of a voiced project (application/voiced_story.py,
\* voiced_scene.py, tts.py): both of these, and the types.
VoiceInv == VoiceTypeOK /\ VoiceIsCurrent /\ AuthorIsRestorable

\* Once a project is in review, a write that changes the presentation leaves
\* no approval behind.
ApprovedLookIsKept ==
  [][story'.look # story.look => story'.preview # "approved"]_voiceVars

=============================================================================
