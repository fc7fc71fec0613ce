---------------------------- MODULE MCStorefront ----------------------------
(* Bounded instances of the parts that face the phone and YouTube, in one   *)
(* run, side by side as in MCWorkshop: `part` lives, the others stand still. *)
EXTENDS YouTubeUpload, PhoneQueue, Analytics, ProductionHome, TLC

VARIABLE part

Parts == {"upload", "phone", "analytics", "home"}

storefrontVars == <<part, uploadVars, phoneVars, analyticsVars, homeVars>>

\* Of a part that does not live, one initial state is enough.
Only(p, pinned) == part = p \/ pinned

\* Immediate and without declarations.
Plain(r) == ask[r] = [when |-> Unset, v2 |-> FALSE]

\* Bound: at most one of the requests is scheduled or carries declarations.
MostlyPlain == \E r \in Requests : \A s \in Requests \ {r} : Plain(s)

StorefrontInit ==
  /\ part \in Parts
  /\ UploadInit /\ MostlyPlain /\ Only("upload", \A r \in Requests : Plain(r))
  /\ AnalyticsInit /\ Only("analytics", account = CHOOSE c \in Channels : TRUE)
  /\ HomeInit /\ Only("home", \A v \in Videos : video[v].stage = "absent")
  /\ PhoneInit

\* A part that does not live stands still.
Still(p, vars) == IF part = p THEN TRUE ELSE UNCHANGED vars

OnlyThePart ==
  /\ UNCHANGED part
  /\ Still("upload", uploadVars) /\ Still("phone", phoneVars)
  /\ Still("analytics", analyticsVars) /\ Still("home", homeVars)

StorefrontNext ==
  \/ part = "upload" /\ UploadNext /\ OnlyThePart
  \/ part = "phone" /\ PhoneNext /\ OnlyThePart
  \/ part = "analytics" /\ AnalyticsNext /\ OnlyThePart
  \/ part = "home" /\ HomeNext /\ OnlyThePart

StorefrontSpec == StorefrontInit /\ [][StorefrontNext]_storefrontVars

\* Shares and Tabs stand for every set with their values; what has those, and
\* Sessions, is interchangeable in every part that has it.
StorefrontSymmetry ==
  Permutations(Shares) \cup Permutations(Tabs) \cup Permutations(Sessions)
=============================================================================
