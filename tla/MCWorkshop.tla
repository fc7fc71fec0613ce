----------------------------- MODULE MCWorkshop -----------------------------
(* Bounded instances of the parts a video is made in, in one run.  No step  *)
(* of one changes the state of another, so `part` says which of them lives  *)
(* and the others keep one initial state: the states are the sum of the     *)
(* parts' states, and the living part behaves as under its own              *)
(* specification.                                                           *)
EXTENDS RenderJobs, PanelDialogue, VoicedStory, SharedScenes, Timeline,
        ProjectSetup, ProductionLibrary, DailyProduction, TLC

VARIABLE part

Parts == {"render", "panel", "voice", "shared", "timeline", "setup", "library", "daily"}

workshopVars == <<part, renderVars, panelVars, voiceVars, sharedVars, timelineVars,
                  setupVars, libraryVars, dailyVars>>

\* Of a part that does not live, one initial state is enough.
Only(p, pinned) == part = p \/ pinned

\* Records have no other names, so the first source has the first one.  Bound: the
\* host has that one of its own; or none, while the sources share theirs.
OneOfAKind ==
  LET first == CHOOSE i \in Records : TRUE IN
  /\ origin[CHOOSE o \in Origins : TRUE].record = first
  /\ \/ host.author = {first}
     \/ host.author = {} /\ \A o \in Origins : origin[o].record = first

WorkshopInit ==
  /\ part \in Parts
  /\ Only("timeline", reel = <<[length |-> 1, enter |-> None, leave |-> None]>>)
  /\ TimelineInit
  /\ RenderInit /\ Only("render", \A w \in Workers : mem[w] = Fresh(CHOOSE j \in Jobs : TRUE))
  /\ SharedInit /\ OneOfAKind
  /\ Only("shared", host.author = {} /\ \A o, u \in Origins : origin[o] = origin[u])
  /\ SetupInit /\ Only("setup", draft = Blank /\ probed)
  /\ DailyInit /\ Only("daily", \A p \in Works : work[p] = "fresh")
  /\ PanelInit /\ VoiceInit /\ LibraryInit

\* A part that does not live stands still.
Still(p, vars) == IF part = p THEN TRUE ELSE UNCHANGED vars

OnlyThePart ==
  /\ UNCHANGED part
  /\ Still("render", renderVars) /\ Still("panel", panelVars)
  /\ Still("voice", voiceVars) /\ Still("shared", sharedVars)
  /\ Still("timeline", timelineVars) /\ Still("setup", setupVars)
  /\ Still("library", libraryVars) /\ Still("daily", dailyVars)

WorkshopNext ==
  \/ part = "render" /\ RenderNext /\ OnlyThePart
  \/ part = "panel" /\ PanelNext /\ OnlyThePart
  \/ part = "voice" /\ VoiceNext /\ OnlyThePart
  \/ part = "shared" /\ SharedNext /\ OnlyThePart
  \/ part = "timeline" /\ TimelineNext /\ OnlyThePart
  \/ part = "setup" /\ SetupNext /\ OnlyThePart
  \/ part = "library" /\ LibraryNext /\ OnlyThePart
  \/ part = "daily" /\ DailyNext /\ OnlyThePart

WorkshopSpec == WorkshopInit /\ [][WorkshopNext]_workshopVars

\* Request threads are interchangeable in every part that has two of them; the
\* Readers, Sharers and Handlers of the instance are one set.
WorkshopSymmetry == Permutations(Sharers)
=============================================================================
