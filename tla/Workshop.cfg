SPECIFICATION WorkshopSpec
CONSTANTS
  Jobs = {j1, j2}
  Workers = {w1, w2}
  Nobody = Nobody
  Cancellable = TRUE
  MaxFaults = 2
  MaxDeaths = 1
  Panels = {p1, p2}
  Characters = {c1}
  Readers = {t1, t2}
  Unnamed = Unnamed
  Scenes = {s1, s2}
  Cast = {c1}
  Threads = {v1}
  Presets = {k1}
  NoOne = NoOne
  MaxRevision = 1
  MaxTakes = 2
  Origins = {o1, o2}
  Records = {r1, r2}
  Sharers = {t1, t2}
  MaxLooks = 2
  MaxShared = 2
  None = None
  MaxScenes = 3
  MaxLength = 2
  MaxSource = 2
  Handlers = {t1, t2}
  NoHandler = NoHandler
  MaxCommits = 4
  MaxRevisions = 1
  LibraryAssets = {a1}
  Projects = {p1}
  Collections = {q1}
  NoCollection = NoCollection
  Top = 3
  Surrogates = {2}
  Letters = {1, 3}
  MaxKey = 1
  MaxTags = 2
  Works = {p1, p2}
  RawWorks = {p2}
  MaxRenders = 1
  MaxFinals = 2
  MaxVariants = 2
  MaxRequests = 2
CHECK_DEADLOCK FALSE
SYMMETRY WorkshopSymmetry
INVARIANTS
  RenderInv
  PanelReviewInv
  VoiceInv
  SharedInv
  TimelineInv
  SetupInv
  LibraryInv
  DailyInv
PROPERTIES
  EvidenceIsFinal
  ApprovedLookIsKept
  SetupIsNotUndone
  SafeWorkDecidesNothing
