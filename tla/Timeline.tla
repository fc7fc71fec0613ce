------------------------------ MODULE Timeline ------------------------------
(***************************************************************************)
(* The timeline compiler (timeline/compiler.py), the validators of the plan  *)
(* it returns (timeline/models.py) and the chapters of a long form           *)
(* (application/long_form.py).  One call of compile_timeline is followed     *)
(* over every bounded input: the scenes are scheduled, the media of a scene   *)
(* is checked, one overlay or audio track is placed, and chapters are laid    *)
(* over the plan.                                                           *)
(*                                                                         *)
(* Time is in whole units (the code's floats and their 1e-9 tolerance are    *)
(* left out).  A cut is a transition of length 0.                           *)
(***************************************************************************)
EXTENDS Naturals, SequencesExt, FiniteSets

CONSTANTS None,        \* an optional field that is not given
          MaxScenes,   \* bound: scenes of a project
          MaxLength,   \* bound: length of a scene
          MaxSource    \* bound: length of a source file, start of a trim or a track

ASSUME TimelineAssumption ==
  MaxScenes \in Nat \ {0} /\ MaxLength \in Nat \ {0} /\ MaxSource \in Nat \ {0}

VARIABLES reel,   \* the project's scenes, in order
          plan,   \* what has been planned of them
          stage   \* how far the call is

timelineVars == <<reel, plan, stage>>

Joins  == {None} \cup (0..MaxLength)
Shot   == [length : 1..MaxLength, enter : Joins, leave : Joins]
Reels  == UNION {[1..n -> Shot] : n \in 1..MaxScenes}
Lengths == {None} \cup (1..MaxSource)
Asset  == [type : {"video"}, length : Lengths, sound : BOOLEAN]
            \cup [type : {"image"}, length : {None}, sound : {FALSE}]
            \cup [type : {"audio"}, length : Lengths, sound : {TRUE}]
Media  == [asset : Asset \cup {None}, from : 0..1, trim : {None} \cup (1..MaxLength)]
Stills == {a \in Asset : a.length = None}
Item   == LET placed == [start |-> 0..MaxLength, length |-> {None} \cup (1..MaxLength)] IN
  [kind : {"overlay"}, start : placed.start, length : placed.length,
   asset : Stills \cup {None}, loop : {FALSE}]
    \cup [kind : {"file"}, start : placed.start, length : placed.length,
          asset : Asset \cup {None}, loop : BOOLEAN]
    \cup [kind : {"original"}, start : placed.start, length : placed.length,
          asset : {None}, loop : BOOLEAN]

NoMedia == [scene |-> 0, media |-> [asset |-> None, from |-> 0, trim |-> None]]
NoPlan  == [scenes |-> <<>>, of |-> NoMedia, item |-> None, chapters |-> <<>>]

TimelineInit ==
  /\ reel \in Reels
  /\ plan = NoPlan
  /\ stage = "drafted"

Given(v, default) == IF v = None THEN default ELSE v

-----------------------------------------------------------------------------
(* The schedule.                                                           *)

\* _transition_pair: either side may state the transition, both must agree.
Agree(l, r)  == l = None \/ r = None \/ l = r
Joined(l, r) == Given(l, Given(r, 0))
JoinAfter(s, i) == IF i = 0 \/ i = Len(s) THEN 0 ELSE Joined(s[i].leave, s[i + 1].enter)

\* Slip: a scene's two transitions are only checked one at a time.
SchedulableSideBySide(s) ==
  /\ s[1].enter \in {None, 0} /\ Last(s).leave \in {None, 0}
  /\ \A i \in 1..(Len(s) - 1) :
       /\ Agree(s[i].leave, s[i + 1].enter)
       /\ JoinAfter(s, i) <= s[i].length /\ JoinAfter(s, i) <= s[i + 1].length

\* compile_timeline's refusals before the schedule.
Schedulable(s) ==
  /\ s[1].enter \in {None, 0} /\ Last(s).leave \in {None, 0}
  /\ \A i \in 1..(Len(s) - 1) :
       /\ Agree(s[i].leave, s[i + 1].enter)
       /\ JoinAfter(s, i) <= s[i].length /\ JoinAfter(s, i) <= s[i + 1].length
  /\ \A i \in DOMAIN s : JoinAfter(s, i - 1) + JoinAfter(s, i) <= s[i].length

\* _scene_schedule
Scheduled(s) ==
  LET start[i \in DOMAIN s] ==
        IF i = 1 THEN 0 ELSE start[i - 1] + s[i - 1].length - JoinAfter(s, i - 1)
  IN [i \in DOMAIN s |-> [start |-> start[i], end |-> start[i] + s[i].length,
                          in |-> JoinAfter(s, i - 1), out |-> JoinAfter(s, i)]]

Total == Last(plan.scenes).end

Schedule ==
  /\ stage = "drafted"
  /\ IF Schedulable(reel)
     THEN /\ stage' = "scheduled"
          /\ plan' = [plan EXCEPT !.scenes = Scheduled(reel)]
          /\ reel' = [i \in DOMAIN reel |-> [reel[i] EXCEPT !.enter = None, !.leave = None]]
     ELSE stage' = "refused" /\ UNCHANGED <<reel, plan>>

-----------------------------------------------------------------------------
(* The media of a scene.                                                   *)

Fits(from, length, asset) == asset.length # None => from + length <= asset.length

MediaIsUsable(scene, m) ==
  IF m.asset = None THEN m.from = 0 /\ m.trim = None
  ELSE CASE m.asset.type = "audio" -> FALSE
         [] m.asset.type = "image" -> m.from = 0 /\ m.trim = None
         [] OTHER -> LET wanted == Given(m.trim, scene.length) IN
                       wanted >= scene.length /\ Fits(m.from, wanted, m.asset)

PlanMedia == \E i \in DOMAIN reel, m \in Media :
  /\ stage = "scheduled"
  /\ IF MediaIsUsable(reel[i], m)
     THEN stage' = "filled" /\ plan' = [plan EXCEPT !.of = [scene |-> i, media |-> m]]
     ELSE stage' = "refused" /\ UNCHANGED plan
  /\ UNCHANGED reel

-----------------------------------------------------------------------------
(* Overlays and audio tracks, in a scene or over the whole film.            *)

\* add_overlay and add_audio: where the item lies in its scope.
InScope(x, length) ==
  x.start < length /\ x.start + Given(x.length, length - x.start) <= length

\* "original" audio is the sound of the scene's own media, from where the
\* scene's cut begins.
SourceOf(x, i) ==
  IF x.kind # "original" THEN [asset |-> x.asset, from |-> 0]
  ELSE [asset |-> plan.of.media.asset, from |-> plan.of.media.from + x.start]

HasSound(asset) == asset.type # "image" /\ asset.sound

ItemIsUsable(x, i, length) ==
  LET s == SourceOf(x, i)
      l == Given(x.length, length - x.start)
  IN /\ InScope(x, length)
     /\ CASE x.kind = "overlay" -> s.asset # None => s.asset.type # "audio"
          [] x.kind = "original" /\ (i = 0 \/ s.asset = None) -> FALSE
          [] OTHER -> s.asset # None =>
               HasSound(s.asset) /\ (x.loop \/ Fits(s.from, l, s.asset))

\* Items are placed in the scene that has media, or (scope 0) over the film.
PlanItem == \E x \in Item, i \in {0, plan.of.scene} :
  /\ stage = "filled"
  /\ LET length == IF i = 0 THEN Total ELSE reel[i].length
         from   == IF i = 0 THEN 0 ELSE plan.scenes[i].start
     IN IF ItemIsUsable(x, i, length)
        THEN /\ stage' = "planned"
             /\ plan' = [plan EXCEPT !.item =
                  [kind |-> x.kind, scope |-> i, start |-> from + x.start, loop |-> x.loop,
                   end |-> from + x.start + Given(x.length, length - x.start),
                   asset |-> SourceOf(x, i).asset, from |-> SourceOf(x, i).from]]
        ELSE stage' = "refused" /\ UNCHANGED plan
  /\ UNCHANGED reel

-----------------------------------------------------------------------------
(* Chapters: consecutive runs of scenes, each ending with one of `ends`.    *)

\* compile_long_form_composition; its own validator wants them contiguous,
\* so that no chapter can begin inside a transition.
Chapters(ends) ==
  {c \in (DOMAIN reel) \X ends :
     c[1] <= c[2] /\ (c[1] = 1 \/ c[1] - 1 \in ends) /\ \A k \in c[1]..(c[2] - 1) : k \notin ends}

\* Where one chapter ends the next begins: no transition lies between them.
ChaptersAreContiguous(ends) ==
  \A j \in ends \ {Len(reel)} : plan.scenes[j].end = plan.scenes[j + 1].start

Compose == \E ends \in SUBSET DOMAIN reel :
  /\ stage = "scheduled" /\ Len(reel) \in ends
  /\ IF ChaptersAreContiguous(ends)
     THEN /\ stage' = "composed"
          /\ plan' = [plan EXCEPT !.chapters =
               {[start |-> plan.scenes[c[1]].start, end |-> plan.scenes[c[2]].end] : c \in Chapters(ends)}]
     ELSE stage' = "refused" /\ UNCHANGED plan
  /\ UNCHANGED reel

TimelineNext == Schedule \/ PlanMedia \/ PlanItem \/ Compose

TimelineSpec == TimelineInit /\ [][TimelineNext]_timelineVars

-----------------------------------------------------------------------------
(* Properties.                                                             *)

\* RenderPlan's validators over the scenes: validate_plan_graph.
ScenesAreValid ==
  LET p == plan.scenes IN
  /\ p[1].start = 0 /\ p[1].in = 0 /\ Last(p).out = 0
  /\ \A i \in DOMAIN p : p[i].in + p[i].out <= p[i].end - p[i].start
  /\ \A i \in 2..Len(p) : p[i - 1].out = p[i].in /\ p[i].start = p[i - 1].end - p[i].in

\* Its validators over media and one item.
MediaIsValid ==
  LET m == plan.of.media
      s == plan.scenes[plan.of.scene]
  IN m.asset # None /\ m.asset.type = "video" =>
       /\ Given(m.trim, s.end - s.start) >= s.end - s.start
       /\ Fits(m.from, Given(m.trim, s.end - s.start), m.asset)

ItemIsValid ==
  LET x == plan.item
      within == IF x.scope = 0 THEN [start |-> 0, end |-> Total] ELSE plan.scenes[x.scope]
  IN /\ x.start < x.end /\ within.start <= x.start /\ x.end <= within.end /\ x.end <= Total
     /\ x.kind = "original" => x.asset # None
     /\ x.asset = None => x.from = 0
     /\ x.asset # None /\ x.kind # "overlay" =>
          /\ HasSound(x.asset)
          /\ x.asset.length # None => x.from < x.asset.length
          /\ ~x.loop => Fits(x.from, x.end - x.start, x.asset)

\* Whatever compile_timeline accepts, the plan's own validators accept: a
\* call ends in a plan or in one of the compiler's errors, never in a
\* half-made plan that fails to validate (an "original" track that loops is
\* the case where the two say different things and one implies the other).
PlanIsValid ==
  /\ stage \notin {"drafted", "refused"} => ScenesAreValid
  /\ stage \in {"filled", "planned"} => MediaIsValid
  /\ stage = "planned" => ItemIsValid

\* Every instant of the film shows one scene, or the two a transition joins,
\* and belongs to one chapter: nothing is black, no third scene shows
\* through, and two chapters never claim one instant.
EveryInstantIsShown ==
  stage \notin {"drafted", "refused"} =>
    \A k \in 0..(Total - 1) :
      LET shown == {i \in DOMAIN plan.scenes : plan.scenes[i].start <= k /\ k < plan.scenes[i].end} IN
      /\ \/ Cardinality(shown) = 1
         \/ \E i \in DOMAIN plan.scenes : shown = {i, i + 1} /\ plan.scenes[i].out > 0
      /\ stage = "composed" =>
           Cardinality({c \in plan.chapters : c.start <= k /\ k < c.end}) = 1

\* What a compiled timeline is good for (timeline/compiler.py): both of these.
TimelineInv == PlanIsValid /\ EveryInstantIsShown
=============================================================================
