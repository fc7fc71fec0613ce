--------------------------- MODULE ProductionHome ---------------------------
(* The production page of the phone: one project screen that loads, shows    *)
(* and commands the active project, and Home that starts, creates and opens  *)
(* projects.  Every request is answered later, in any order or not at all,   *)
(* and the code after an await runs on the page as it is by then.            *)
EXTENDS Naturals, FiniteSets

CONSTANTS
  Videos,               \* projects
  Closed,
  MaxLoads, MaxAsked,   \* loads, and requests under way at a time (bounds)
  MaxVersion            \* changes of a project (bound)

ASSUME HomeAssumption ==
  /\ Closed \notin Videos
  /\ MaxLoads \in Nat /\ MaxAsked \in Nat /\ MaxVersion \in Nat

VARIABLES
  video,     \* server: the projects
  paired,    \* the page has a session
  active,    \* activeProjectId
  shown,     \* what the body of the project screen was rendered from
  newest,    \* projectFlowGeneration
  loads,     \* GET projects/<id> under way
  asked,     \* POST requests under way
  opening,   \* openProject calls that still wait for refreshHome
  acked      \* version of each project at the last command the page saw succeed

homeVars == <<video, paired, active, shown, newest, loads, asked, opening, acked>>

NoVideo == [stage |-> "absent", preview |-> FALSE, version |-> 0]
Nowhere == [of |-> Closed, is |-> NoVideo]

HomeInit ==
  /\ video \in [Videos -> [stage : {"absent", "setup", "review", "ready"},
                           preview : {FALSE}, version : {0}]]
  /\ paired = TRUE /\ active = Closed /\ shown = Nowhere
  /\ newest = 0 /\ loads = {} /\ asked = {} /\ opening = {}
  /\ acked = [p \in Videos |-> 0]

HomeIsVisible == paired /\ active = Closed

----------------------------------------------------------------------------
(* The server *)

\* A request: on project at, about a review task or preview job of project of.
\* seen is the project's version afterwards, 0 until it has been carried out.
Post(do, at, of) == [do |-> do, at |-> at, of |-> of, seen |-> 0]

\* Review tasks and preview jobs are looked up in the project of the path.
InPath(c) == c.of = c.at

Accepts(c) ==
  LET p == video[c.at] IN
  CASE c.do = "create"    -> p.stage = "absent"
    [] c.do = "bootstrap" -> p.stage = "setup"
    [] c.do = "decide"    -> InPath(c) /\ p.stage \in {"review", "ready"}
    [] c.do = "preview"   -> p.stage = "review"
    [] c.do \in {"approve", "reject"} -> InPath(c) /\ p.stage = "review" /\ p.preview
    [] c.do = "final"     -> p.stage = "ready"

After(c) ==
  LET p == [video[c.at] EXCEPT !.version = @ + 1] IN
  CASE c.do \in {"create", "bootstrap", "decide", "reject"} ->
         [p EXCEPT !.stage = "review", !.preview = FALSE]
    [] c.do = "preview" -> [p EXCEPT !.preview = TRUE]
    [] c.do = "approve" -> [p EXCEPT !.stage = "ready"]
    [] c.do = "final"   -> [p EXCEPT !.stage = "done"]

ServerDoes(c) ==
  /\ c \in asked /\ c.seen = 0 /\ Accepts(c)
  /\ video[c.at].version < MaxVersion
  /\ video' = [video EXCEPT ![c.at] = After(c)]
  /\ asked' = (asked \ {c}) \cup {[c EXCEPT !.seen = After(c).version]}
  /\ UNCHANGED <<paired, active, shown, newest, loads, opening, acked>>

----------------------------------------------------------------------------
(* The project screen *)

\* refreshProjectFlow for project p.
Load(p) ==
  /\ newest < MaxLoads /\ newest' = newest + 1
  /\ loads' = loads \cup {[gen |-> newest + 1, of |-> p, got |-> Nowhere]}

LoadRead(l) ==
  /\ l \in loads /\ l.got = Nowhere
  /\ loads' = (loads \ {l}) \cup {[l EXCEPT !.got = [of |-> l.of, is |-> video[l.of]]]}
  /\ UNCHANGED <<video, paired, active, shown, newest, asked, opening, acked>>

\* Slip: only the project is compared, not the generation.
IsForActive(l) == active = l.of

IsCurrent(l) == l.gen = newest /\ active = l.of

\* The answer, or a failure (got = Nowhere); one that is not current is dropped.
LoadArrives(l) ==
  /\ l \in loads /\ loads' = loads \ {l}
  /\ shown' = IF IsCurrent(l) THEN l.got ELSE shown
  /\ UNCHANGED <<video, paired, active, newest, asked, opening, acked>>

Refresh ==
  /\ active # Closed /\ Load(active)
  /\ UNCHANGED <<video, paired, active, shown, asked, opening, acked>>

\* The controls of the rendered cards.
Offered(s) ==
  CASE s.is.stage = "review" -> {"decide"} \cup IF s.is.preview THEN {"approve", "reject"}
                                                ELSE {"preview"}
    [] s.is.stage = "ready" -> {"decide", "final"}
    [] OTHER -> {}

Send(c) ==
  /\ Cardinality(asked) < MaxAsked /\ c \notin asked
  /\ asked' = asked \cup {c}
  /\ UNCHANGED <<video, paired, active, shown, newest, loads, opening, acked>>

\* The path names the active project; a task or a job is that of the card.  A
\* control is disabled while its own request is under way.
Click(do) ==
  /\ active # Closed /\ do \in Offered(shown)
  /\ Send(Post(do, active, shown.of))

\* A command succeeded: the active project is loaded again.
CommandDone(c) ==
  /\ c \in asked /\ c.do \notin {"create", "bootstrap"} /\ c.seen # 0
  /\ asked' = asked \ {c}
  /\ acked' = [acked EXCEPT ![c.at] = IF @ < c.seen THEN c.seen ELSE @]
  /\ IF active # Closed THEN Load(active) ELSE UNCHANGED <<newest, loads>>
  /\ UNCHANGED <<video, paired, active, shown, opening>>

\* Refused, or the answer is lost: a message, and the button is enabled again.
RequestFails(c) ==
  /\ c \in asked /\ asked' = asked \ {c}
  /\ UNCHANGED <<video, paired, active, shown, newest, loads, opening, acked>>

\* closeProjectFlow
BackHome ==
  /\ active # Closed /\ newest < MaxLoads
  /\ active' = Closed /\ newest' = newest + 1 /\ shown' = Nowhere
  /\ UNCHANGED <<video, paired, loads, asked, opening, acked>>

----------------------------------------------------------------------------
(* Home *)

\* openProject: the body keeps what it shows until the load arrives.
OpenProject(p) == active' = p /\ Load(p)

OpenCard(p) ==
  /\ HomeIsVisible /\ video[p].stage # "absent"
  /\ OpenProject(p)
  /\ UNCHANGED <<video, paired, shown, asked, opening, acked>>

\* startProject and createProductionProject: the request, refreshHome, openProject.
StartVideo(p) ==
  /\ HomeIsVisible /\ video[p].stage \in {"absent", "setup"}
  /\ Send(Post(IF video[p].stage = "setup" THEN "bootstrap" ELSE "create", p, p))

Started(c) ==
  /\ c \in asked /\ c.do \in {"create", "bootstrap"} /\ c.seen # 0
  /\ asked' = asked \ {c} /\ opening' = opening \cup {c.at}
  /\ UNCHANGED <<video, paired, active, shown, newest, loads, acked>>

\* ... wherever the user is by now.
OpenLater(p) ==
  /\ p \in opening /\ opening' = opening \ {p}
  /\ OpenProject(p)
  /\ UNCHANGED <<video, paired, shown, asked, acked>>

\* refreshHome without a session: the screen is hidden, its body stays.
SessionEnds ==
  /\ paired /\ paired' = FALSE /\ active' = Closed
  /\ UNCHANGED <<video, shown, newest, loads, asked, opening, acked>>

SessionReturns ==
  /\ ~paired /\ paired' = TRUE
  /\ UNCHANGED <<video, active, shown, newest, loads, asked, opening, acked>>

HomeNext ==
  \/ \E c \in asked : ServerDoes(c) \/ CommandDone(c) \/ RequestFails(c) \/ Started(c)
  \/ \E l \in loads : LoadRead(l) \/ LoadArrives(l)
  \/ \E do \in {"decide", "preview", "approve", "reject", "final"} : Click(do)
  \/ Refresh \/ BackHome \/ SessionEnds \/ SessionReturns
  \/ \E p \in Videos : OpenCard(p) \/ StartVideo(p) \/ OpenLater(p)

HomeSpec == HomeInit /\ [][HomeNext]_homeVars

----------------------------------------------------------------------------
(* Properties *)

HomeTypeOK ==
  /\ \A p \in Videos : /\ video[p].stage \in {"absent", "setup", "review", "ready", "done"}
                       /\ acked[p] <= video[p].version /\ video[p].version <= MaxVersion
  /\ active \in Videos \cup {Closed} /\ shown.of \in Videos \cup {Closed}
  /\ newest \in 0 .. MaxLoads /\ \A l \in loads : l.gen \in 1 .. newest
  /\ Cardinality(asked) <= MaxAsked /\ opening \subseteq Videos

\* Once nothing is being loaded for it, the screen shows the active project, no
\* older than the last command the page saw succeed on it: loads that overtake
\* each other, or that come back to a screen left and opened again, do not bring
\* back an earlier state of the project.
ScreenIsCurrent ==
  (active # Closed /\ ~\E l \in loads : l.gen = newest /\ l.of = active) =>
    \/ shown = Nowhere
    \/ shown.of = active /\ shown.is.version >= acked[active]

\* A review decision takes effect on no project but the one whose card was
\* clicked, although the path is made from the project that is active by then.
DecisionsHitTheirProject ==
  \A c \in asked : (c.do \in {"decide", "approve", "reject"} /\ c.seen # 0) => c.at = c.of

\* What the page can be trusted for (web/static/production-home.js with
\* api/review_routes.py): all of the above.
HomeInv == HomeTypeOK /\ ScreenIsCurrent /\ DecisionsHitTheirProject
=============================================================================
