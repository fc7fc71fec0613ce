------------------------- MODULE ProductionLibrary -------------------------
(* The production library's index over assets: tags, searches by exact tag,  *)
(* by tag prefix and by earlier use, and virtual collections, which are      *)
(* stored queries.  A prefix is searched as a half-open range of keys in the *)
(* order of code points, so the index can answer it; a text is a sequence of *)
(* code points here, with the gap of the surrogates and a last code point.   *)
(* Rows and shown tags of a search are two reads with no transaction.        *)
EXTENDS Naturals, FiniteSets, SequencesExt

CONSTANTS
  LibraryAssets, Projects, Collections,
  NoCollection,     \* there is none under an identity
  Top, Surrogates,  \* 0x10FFFF and 0xD800 .. 0xDFFF
  Letters,          \* code points people use in tags and queries (bound)
  MaxKey,           \* longest key of a tag or query (bound)
  MaxTags           \* tags of one replacement (bound)

ASSUME LibraryAssumption ==
  /\ Top \in Nat /\ MaxKey \in Nat
  /\ Surrogates # {} /\ Surrogates = Min(Surrogates) .. Max(Surrogates)
  /\ Surrogates \subseteq 1 .. Top - 1
  /\ Letters \subseteq (0 .. Top) \ Surrogates
  /\ NoCollection \notin [prefix : Seq(Nat), exact : SUBSET Seq(Nat), used : STRING]

VARIABLES
  tagged,      \* library_asset_tags: the tags of each asset
  usedBy,      \* project_assets: the projects that use each asset
  collections, \* library_virtual_collections: the query under each identity
  finding      \* the search in progress

libraryVars == <<tagged, usedBy, collections, finding>>

Scalars == (0 .. Top) \ Surrogates
KeysUpTo(m) == UNION {[1 .. n -> Scalars] : n \in 1 .. m}  \* casefolded values
Keys == UNION {[1 .. n -> Letters] : n \in 1 .. MaxKey}
Spellings == 1 .. 2                                       \* of one key
LibraryTag == [key : Keys, value : Spellings]
NoPrefix == <<>>
\* (A query may have no condition at all: then it finds every asset.)
LibraryQuery == [prefix : Keys \cup {NoPrefix}, exact : {{}} \cup {{k} : k \in Keys},
                 used : {"any", "yes", "no"}]

LibraryInit ==
  /\ tagged = [a \in LibraryAssets |-> {}]
  /\ usedBy = [a \in LibraryAssets |-> {}]
  /\ collections = [c \in Collections |-> NoCollection]
  /\ finding = [pc |-> "rest"]

----------------------------------------------------------------------------
(* set_tags, put_collection, delete_collection *)

\* Of the spellings of one key the smallest stays.
CanonicalTags(tags) ==
  {t \in tags : \A u \in tags : u.key = t.key => t.value <= u.value}

\* The tags of an asset are replaced in one transaction.
SetTags(a) ==
  /\ \E tags \in UNION {kSubset(n, LibraryTag) : n \in 0 .. MaxTags} :
       tagged' = [tagged EXCEPT ![a] = CanonicalTags(tags)]
  /\ UNCHANGED <<usedBy, collections, finding>>

\* Saving a Project replaces its rows of project_assets.
UseAsset(a, p) ==
  /\ usedBy' = [usedBy EXCEPT ![a] = IF p \in @ THEN @ \ {p} ELSE @ \cup {p}]
  /\ UNCHANGED <<tagged, collections, finding>>

PutCollection(c, query) ==
  /\ collections' = [collections EXCEPT ![c] = query]
  /\ UNCHANGED <<tagged, usedBy, finding>>

DeleteCollection(c) ==
  /\ collections[c] # NoCollection
  /\ collections' = [collections EXCEPT ![c] = NoCollection]
  /\ UNCHANGED <<tagged, usedBy, finding>>

----------------------------------------------------------------------------
(* search *)

\* BINARY collation: the order of code points, a prefix before its extensions.
Precedes(s, t) ==
  \/ IsStrictPrefix(s, t)
  \/ \E i \in DOMAIN s \cap DOMAIN t :
       s[i] < t[i] /\ SubSeq(s, 1, i - 1) = SubSeq(t, 1, i - 1)

\* The next scalar: the surrogates are skipped.
Successor(c) == IF c + 1 \in Surrogates THEN Max(Surrogates) + 1 ELSE c + 1

Unbounded == <<>>

\* Slip: the bound the index was first written with, prefix + U+FFFF.
UpperBoundByLastChar(prefix) == Append(prefix, Top - 1)

\* _prefix_upper_bound: the right-most code point with a successor is raised.
PrefixUpperBound(prefix) ==
  LET raisable == {i \in DOMAIN prefix : prefix[i] < Top} IN
  IF raisable = {} THEN Unbounded
  ELSE Append(SubSeq(prefix, 1, Max(raisable) - 1), Successor(prefix[Max(raisable)]))

InRange(key, prefix) ==
  /\ ~Precedes(key, prefix)
  /\ PrefixUpperBound(prefix) # Unbounded => Precedes(key, PrefixUpperBound(prefix))

KeysOf(a) == {t.key : t \in tagged[a]}

\* The conditions of the statement; those of exact tags are joined by AND.
Selects(query, a) ==
  /\ query.exact \subseteq KeysOf(a)
  /\ query.prefix # NoPrefix => \E k \in KeysOf(a) : InRange(k, query.prefix)
  /\ query.used = "yes" => usedBy[a] # {}
  /\ query.used = "no" => usedBy[a] = {}

\* The rows of a query, or of the query a collection held when it was read.
SearchRows(query) ==
  /\ finding.pc = "rest"
  /\ finding' = [pc |-> "rows", hits |-> {a \in LibraryAssets : Selects(query, a)}]
  /\ UNCHANGED <<tagged, usedBy, collections>>

SearchCollection(c) ==
  /\ finding.pc = "rest" /\ collections[c] # NoCollection
  /\ finding' = [pc |-> "collection", query |-> collections[c]]
  /\ UNCHANGED <<tagged, usedBy, collections>>

SearchStored ==
  /\ finding.pc = "collection"
  /\ finding' = [pc |-> "rows", hits |-> {a \in LibraryAssets : Selects(finding.query, a)}]
  /\ UNCHANGED <<tagged, usedBy, collections>>

\* The tags shown with the hits are read afterwards.
SearchTags ==
  /\ finding.pc = "rows"
  /\ finding' = [pc |-> "rest"]
  /\ UNCHANGED <<tagged, usedBy, collections>>

LibraryNext ==
  \/ \E a \in LibraryAssets : SetTags(a) \/ \E p \in Projects : UseAsset(a, p)
  \/ \E c \in Collections : \/ DeleteCollection(c) \/ SearchCollection(c)
                            \/ \E query \in LibraryQuery : PutCollection(c, query)
  \/ \E query \in LibraryQuery : SearchRows(query)
  \/ SearchStored \/ SearchTags

LibrarySpec == LibraryInit /\ [][LibraryNext]_libraryVars

----------------------------------------------------------------------------
(* Properties *)

LibraryTypeOK ==
  /\ \A a \in LibraryAssets : tagged[a] \subseteq LibraryTag /\ usedBy[a] \subseteq Projects
  /\ collections \in [Collections -> LibraryQuery \cup {NoCollection}]
  /\ finding.pc \in {"rest", "collection", "rows"}

\* The range of keys a prefix is searched by holds exactly the keys that begin
\* with it, at the last code point and across the surrogates (and for keys longer
\* than those the tags of the run have, of every code point).
PrefixIsExact ==
  \A k, prefix \in KeysUpTo(MaxKey + 2) : InRange(k, prefix) <=> IsPrefix(prefix, k)

\* A tag key is on an asset once, so replacing its tags never hits the primary
\* key of library_asset_tags half way.
TagsAreCanonical ==
  \A a \in LibraryAssets : \A t, u \in tagged[a] : t.key = u.key => t = u

\* What a search of the index answers with (storage/library_index*.py).
LibraryInv == LibraryTypeOK /\ PrefixIsExact /\ TagsAreCanonical
=============================================================================
