---------------------------- MODULE SharedScenes ----------------------------
(***************************************************************************)
(* Voiced scenes of other projects shared into a long-form host              *)
(* (application/long_form_shared*.py): a reference pins a source scene to     *)
(* one look of it, materialize puts copies behind the host's own scenes       *)
(* together with the provenance they need, dematerialize takes both away,    *)
(* and the review renders the host only while every copy is what its source  *)
(* still is (review_pr24_hardening.py).                                      *)
(*                                                                         *)
(* The host is written by compare-and-set; the sources are read one by one   *)
(* before that, each in a transaction of its own, and any of them may change *)
(* in between.  A look stands for the digests of a source scene and of its   *)
(* story and presentation; its provenance is one source record.  `watched`    *)
(* holds the copies of the preview people can watch, if there is one.         *)
(***************************************************************************)
EXTENDS Naturals, Sequences, FiniteSets

CONSTANTS Origins,    \* source scenes, each in a project of its own
          Records,    \* source records
          Sharers,    \* threads sharing into, or rendering, the host
          MaxLooks,   \* bound: looks a source scene takes
          MaxShared   \* bound: scenes shared at a time

ASSUME SharedAssumption == MaxLooks \in Nat \ {0} /\ MaxShared \in Nat \ {0}

VARIABLES origin,    \* source scenes: their authority, look and source record
          host,      \* the host's manifest
          sharer     \* per thread: the call it makes

sharedVars == <<origin, host, sharer>>

SharedRef == [of : Origins, look : 1..MaxLooks]
Unengaged == [at |-> "idle", refs |-> <<>>, read |-> 0]

\* The host has been written since the call took its snapshot: whatever it still
\* reads, its compare-and-set fails.
Overtaken == [Unengaged EXCEPT !.at = "overtaken"]

\* Sequences of references without two of one source scene.
RefLists ==
  {l \in UNION {[1..n -> SharedRef] : n \in 0..MaxShared} :
     \A i, j \in DOMAIN l : i # j => l[i].of # l[j].of}

SharedTypeOK ==
  /\ origin \in [Origins -> [valid : BOOLEAN, look : 1..MaxLooks, record : Records]]
  /\ host \in [state : {"prepared", "needs_review", "ready", "rendering"},
               preview : {"absent", "open", "approved"},
               copies : RefLists, watched : SUBSET RefLists,
               records : SUBSET Records, owned : SUBSET Records, author : SUBSET Records]
  /\ sharer \in [Sharers -> [at : {"idle", "share", "preview", "final", "overtaken"},
                             refs : RefLists, read : 0..MaxShared]]

\* `author` only remembers what the host came with.
SharedInit ==
  /\ origin \in [Origins -> [valid : {TRUE}, look : {1}, record : Records]]
  /\ \E own \in SUBSET Records :
       host = [state |-> "prepared", preview |-> "absent", copies |-> <<>>,
               watched |-> {}, records |-> own, owned |-> {}, author |-> own]
  /\ sharer = [t \in Sharers |-> Unengaged]

-----------------------------------------------------------------------------
(* Helpers.                                                                *)

\* _cas: every committed write overtakes the calls of the others.
HostWrites(t, h) ==
  /\ host' = h
  /\ sharer' = [u \in Sharers |->
                  IF u = t \/ sharer[u].at = "idle" THEN Unengaged ELSE Overtaken]
  /\ UNCHANGED origin

\* _validate_reference_authority
StillThat(r) == origin[r.of].valid /\ origin[r.of].look = r.look

NeededBy(refs) == {origin[refs[i].of].record : i \in DOMAIN refs}

\* _base_host: the host without copies and without the records that came with them.
BaseHost(h) ==
  [h EXCEPT !.copies = <<>>, !.records = @ \ h.owned, !.owned = {}]

\* _merge_provenance_with_ownership
WithProvenance(h, refs) ==
  [h EXCEPT !.records = @ \cup NeededBy(refs), !.owned = NeededBy(refs) \ h.records]

\* Slip: only an open preview is reset.
PreviewKept(h) == h

\* _invalidate_pr10_render_identity, in the same write.
PreviewReopened(h) ==
  IF h.preview = "absent" THEN h
  ELSE [h EXCEPT !.preview = "open", !.watched = {},
                 !.state = IF @ = "ready" THEN "needs_review" ELSE @]

-----------------------------------------------------------------------------
(* Sources.                                                                *)

\* A source is presented anew, or its story or presentation is taken away or
\* put back.
OriginChanges == \E o \in Origins :
  /\ \/ /\ origin[o].look < MaxLooks
        /\ origin' = [origin EXCEPT ![o].look = @ + 1, ![o].valid = TRUE]
     \/ origin' = [origin EXCEPT ![o].valid = ~@]
  /\ UNCHANGED <<host, sharer>>

\* capture_shared_voiced_scene: the references people may hold, one for each look
\* that a source has had.
Captured == {r \in SharedRef : r.look <= origin[r.of].look}

-----------------------------------------------------------------------------
(* Sharing and rendering: a snapshot of the host, then source after source.  *)

BeginShare(t) == \E refs \in RefLists :
  /\ sharer[t].at = "idle"
  /\ host.state # "rendering"
  /\ refs # <<>> /\ refs # host.copies
  /\ \A i \in DOMAIN refs : refs[i] \in Captured
  /\ sharer' = [sharer EXCEPT ![t] = [at |-> "share", refs |-> refs, read |-> 0]]
  /\ UNCHANGED <<origin, host>>

\* _compile_plan of a preview or a final render first validates the copies
\* of the snapshot that will be rendered.
BeginRender(t) == \E purpose \in {"preview", "final"} :
  /\ sharer[t].at = "idle"
  /\ IF purpose = "preview" THEN host.preview = "open" /\ host.state # "rendering"
     ELSE host.preview = "approved" /\ host.state = "ready"
  /\ sharer' = [sharer EXCEPT ![t] = [at |-> purpose, refs |-> host.copies, read |-> 0]]
  /\ UNCHANGED <<origin, host>>

ReadOrigin(t) ==
  /\ sharer[t].read < Len(sharer[t].refs)
  /\ StillThat(sharer[t].refs[sharer[t].read + 1])
  /\ sharer' = [sharer EXCEPT ![t].read = @ + 1]
  /\ UNCHANGED <<origin, host>>

Validated(t) == sharer[t].read = Len(sharer[t].refs)

\* A source is no longer what the reference says, or the host was changed.
GiveUpSharing(t) ==
  /\ sharer[t].at # "idle"
  /\ sharer' = [sharer EXCEPT ![t] = Unengaged]
  /\ UNCHANGED <<origin, host>>

Share(t) ==
  /\ sharer[t].at = "share" /\ Validated(t)
  /\ HostWrites(t, PreviewReopened(
       [WithProvenance(BaseHost(host), sharer[t].refs) EXCEPT !.copies = sharer[t].refs]))

Unshare(t) ==
  /\ sharer[t].at = "idle"
  /\ host.state # "rendering" /\ host.copies # <<>>
  /\ HostWrites(t, PreviewReopened(BaseHost(host)))

\* The rendered preview becomes the candidate people watch.
RenderedPreview(t) ==
  /\ sharer[t].at = "preview" /\ Validated(t)
  /\ HostWrites(t, [host EXCEPT !.watched = {sharer[t].refs}])

ClaimedFinal(t) ==
  /\ sharer[t].at = "final" /\ Validated(t)
  /\ HostWrites(t, [host EXCEPT !.state = "rendering"])

-----------------------------------------------------------------------------
(* The host's review, in outline (ReviewProject has it in full).            *)

HostReview(t) ==
  /\ sharer[t].at = "idle"
  /\ \/ /\ host.preview = "absent"
        /\ HostWrites(t, [host EXCEPT !.preview = "open", !.state = "needs_review"])
     \/ /\ host.preview = "open" /\ host.watched # {}
        /\ HostWrites(t, [host EXCEPT !.preview = "approved", !.state = "ready"])
     \/ /\ host.state = "rendering"
        /\ HostWrites(t, [host EXCEPT !.state = "ready"])

SharedNext ==
  \/ OriginChanges
  \/ \E t \in Sharers :
       \/ BeginShare(t) \/ BeginRender(t) \/ ReadOrigin(t) \/ GiveUpSharing(t)
       \/ Share(t) \/ Unshare(t) \/ RenderedPreview(t) \/ ClaimedFinal(t) \/ HostReview(t)

SharedSpec == SharedInit /\ [][SharedNext]_sharedVars

-----------------------------------------------------------------------------
(* Properties.                                                             *)

\* However often scenes are shared, replaced by others and taken back, with
\* source records the host had before, brings twice or shares with another
\* source: taking them back leaves the host what its author made it, and
\* until then every copy has its record there.
HostIsRestorable ==
  /\ BaseHost(host).records = host.author
  /\ NeededBy(host.copies) \subseteq host.records

\* What was approved is what was watched: no sharing slips under an approval
\* or under a preview still being rendered.
ApprovedCopiesWereWatched ==
  host.preview = "approved" => host.watched = {host.copies}

\* Sharing scenes into a long form (application/long_form_shared.py and
\* its workflow): both of these, and the types.
SharedInv == SharedTypeOK /\ HostIsRestorable /\ ApprovedCopiesWereWatched

=============================================================================
