----------------------------- MODULE ResolveCore -----------------------------
(***************************************************************************)
(* How a path of the view is resolved through the layers of the virtual    *)
(* filesystem (common/details/ResolveCoreDetail.hpp, with the policy of    *)
(* common/FilesystemIsolationPolicy.hpp and the lookup of                   *)
(* common/details/FilesystemIsolationTableDetail.hpp).                     *)
(*                                                                         *)
(* Layer 0 is the upper layer, the only one the sandbox writes; the lower  *)
(* layers are packed, each mounted at a folder of the view; the last layer *)
(* is the host filesystem.  A whiteout is a marker beside an entry which    *)
(* hides it below; an opaque marker lies inside a folder and hides what     *)
(* the layers below hold in it.                                            *)
(*                                                                         *)
(* The module is a set of operators on a disk d, the content of all layers, *)
(* and an isolation table iso.  A path is the sequence of its names below  *)
(* the root of its drive; text (namespaces, case, separators, streams and  *)
(* the reserved names of markers) is left out, and so is what the file     *)
(* system of a layer finds behind a link of its own.                       *)
(***************************************************************************)
EXTENDS Naturals, Sequences, FiniteSets, SequencesExt, FiniteSetsExt

CONSTANTS
    Paths,           \* the paths of the view
    Lower,           \* how many packed layers there are
    Mount,           \* where each packed layer is mounted
    Data,            \* what a file may hold
    Empty,           \* the content of a file which was just created
    Links,           \* what a link of the view may name, each a [rel, to]
    MaxReparseDepth  \* kMaxReparseDepth

Upper  == 0
Host   == Lower + 1
Layers == Upper..Host

ASSUME ResolveAssumption ==
    /\ Lower \in Nat /\ MaxReparseDepth \in Nat
    /\ Mount \in [1..Lower -> Paths]
    /\ <<>> \in Paths
    /\ Paths \subseteq Seq(UNION {Range(p) : p \in Paths})
    /\ \A p \in Paths : p # <<>> => Front(p) \in Paths
    /\ Empty \in Data

None    == [kind |-> "none"]
Dir     == [kind |-> "dir"]
File(c) == [kind |-> "file", data |-> c]
Link(l) == [kind |-> "link", target |-> l]
Nodes   == {None, Dir} \cup {File(c) : c \in Data} \cup {Link(l) : l \in Links}

\* One layer: its objects and the markers which lie in it, each named by the
\* path it marks.
Layer == [node : [Paths -> Nodes], whiteout : SUBSET Paths, opaque : SUBSET Paths]
Disks == [Layers -> Layer]

Prefix(p, k) == SubSeq(p, 1, k)
NodeAt(d, i, p) == IF p \in Paths THEN d[i].node[p] ELSE None

-----------------------------------------------------------------------------
\* The walk of one layer.

MountOf(i)  == IF i \in 1..Lower THEN Mount[i] ELSE <<>>
Maps(i, p)  == IsPrefix(MountOf(i), p)
Walk(i, p)  == Len(MountOf(i)) .. Len(p)

\* The walk of layer i comes to the component of length k: every component above
\* it exists in the layer and no whiteout hides one of them.
Reaches(d, i, p, k) ==
    \A j \in Len(MountOf(i)) .. (k - 1) :
        NodeAt(d, i, Prefix(p, j)) # None /\ Prefix(p, j) \notin d[i].whiteout

WhiteoutFound(d, i, p) ==
    \E k \in Walk(i, p) : Reaches(d, i, p, k) /\ Prefix(p, k) \in d[i].whiteout
OpaqueFound(d, i, p) ==
    \E k \in Walk(i, p) : k < Len(p) /\ Reaches(d, i, p, k + 1) /\ Prefix(p, k) \in d[i].opaque
HitIn(d, i, p) ==
    Reaches(d, i, p, Len(p)) /\ p \notin d[i].whiteout /\ NodeAt(d, i, p) # None
ParentIn(d, i, p) ==
    Len(MountOf(i)) < Len(p) /\ Reaches(d, i, p, Len(p))
LinkOnWay(d, i, p) ==
    \E k \in Walk(i, p) : Reaches(d, i, p, k) /\ Prefix(p, k) \notin d[i].whiteout
                          /\ NodeAt(d, i, Prefix(p, k)).kind = "link"

\* Mutant: an opaque marker does not end the search.
MarkedByWhiteout(d, i, p) == WhiteoutFound(d, i, p)

Marked(d, i, p) == WhiteoutFound(d, i, p) \/ OpaqueFound(d, i, p)

\* Mutant: a reader stops at the first layer which holds the folder.
SearchedToFolder(d, p, stopFirst) ==
    {i \in Layers :
        /\ Maps(i, p)
        /\ \A j \in Layers : j < i /\ Maps(j, p) =>
               ~Marked(d, j, p) /\ ~(stopFirst /\ (HitIn(d, j, p) \/ ParentIn(d, j, p)))}

\* The layers the search looks at: it ends below a layer which carries a marker
\* on the way, and below the first hit when the caller only reads.
Searched(d, p, stopFirst) ==
    {i \in Layers :
        /\ Maps(i, p)
        /\ \A j \in Layers : j < i /\ Maps(j, p) =>
               ~Marked(d, j, p) /\ ~(stopFirst /\ HitIn(d, j, p))}

-----------------------------------------------------------------------------
\* The isolation table lists some paths with a mode and the kind of the entry;
\* the closest listed entry at or above a path decides.

Modes == {"Full", "WriteCopy", "Merge", "Whiteout"}
Entry == [mode : Modes, kind : {"dir", "file"}]
Unlisted == [mode |-> "Merge", kind |-> "dir"]

Lookup(iso, p) ==
    LET listed == {k \in 0..Len(p) : Prefix(p, k) \in DOMAIN iso}
    IN  IF listed = {} THEN Unlisted ELSE iso[Prefix(p, Max(listed))]

HidesHost(e)  == e.mode = "Whiteout" \/ (e.mode = "Full" /\ e.kind = "dir")
HidesLower(e) == e.mode = "Whiteout"
Masked(e, i)  == i # Upper /\ (HidesLower(e) \/ (HidesHost(e) /\ i = Host))
WritesAnywhere(mode, sandboxHolds) == ~sandboxHolds  \* mutant
WritesToHost(mode, sandboxHolds) == mode = "Merge" /\ ~sandboxHolds

-----------------------------------------------------------------------------
\* The result of a resolution.  "hits" stands for the list hPath, which is
\* ordered by layer; "kind" is the kind of its first object.

First(S) == Min(S)

Resolution(d, p, e, searched, hits) ==
    [ path     |-> p,
      hits     |-> hits,
      kind     |-> IF hits = {} THEN "none" ELSE NodeAt(d, First(hits), p).kind,
      status   |-> IF hits # {} THEN "Exists"
                   ELSE IF \E i \in searched : WhiteoutFound(d, i, p) THEN "HiddenByWhiteout"
                   ELSE IF \E i \in searched : OpaqueFound(d, i, p) THEN "BlockedByOpaque"
                   ELSE IF e.mode = "Whiteout" THEN "HiddenByIsolation"
                   ELSE "NotFound",
      parent   |-> \E i \in searched : ParentIn(d, i, p),
      inUpper  |-> Upper \in searched /\ HitIn(d, Upper, p),
      whiteoutInUpper |-> WhiteoutFound(d, Upper, p),
      holds    |-> \/ \E i \in hits : i # Host
                   \/ \E i \in searched \ {Host} : Marked(d, i, p),
      mode     |-> e.mode,
      masked   |-> HidesHost(e) \/ HidesLower(e),
      link     |-> \E i \in searched : LinkOnWay(d, i, p),
      resolved |-> TRUE ]

HitsShown(d, p, e, searched) == {i \in searched : HitIn(d, i, p) /\ ~Masked(e, i)}
ResolutionOf(d, p, e, searched) == Resolution(d, p, e, searched, HitsShown(d, p, e, searched))
ResolvePlain(d, iso, p, stopFirst) == ResolutionOf(d, p, Lookup(iso, p), Searched(d, p, stopFirst))

\* A link of the view is expanded by the view itself: the first component of the
\* path which is one is replaced by its target, until no component is.  The
\* target of a link which leaves the view cannot be resolved.
Failed  == [ok |-> FALSE, path |-> <<>>]
Fine(p) == [ok |-> TRUE, path |-> p]

Rebased(base, rest) == IF base \in Paths THEN Fine(base \o rest) ELSE Failed
Substituted(p, k, target) ==
    Rebased(IF target.rel THEN Prefix(p, k - 1) \o target.to ELSE target.to, SubSeq(p, k + 1, Len(p)))

\* The components which are links, each probed for its own object.
LinksAlong(p, followFinal, probes) ==
    {k \in 1..Len(p) : /\ k < Len(p) \/ followFinal
                       /\ probes[k].kind = "link"
                       /\ \A j \in 1..k : probes[j].status = "Exists"}
ExpandAt(d, p, probes, links) ==
    IF links = {} THEN Fine(p)
    ELSE Substituted(p, First(links), NodeAt(d, First(probes[First(links)].hits), Prefix(p, First(links))).target)
ExpandProbed(d, p, followFinal, probes) == ExpandAt(d, p, probes, LinksAlong(p, followFinal, probes))
ExpandFirst(d, iso, p, followFinal) ==
    ExpandProbed(d, p, followFinal, [k \in 1..Len(p) |-> ResolvePlain(d, iso, Prefix(p, k), TRUE)])

\* The expansion gives up when a link is left after MaxReparseDepth of them.
Onward(d, iso, before, followFinal) ==
    IF before.ok THEN ExpandFirst(d, iso, before.path, followFinal) ELSE Failed
Settled(last, next) == IF last.ok /\ next # last THEN Failed ELSE last
Expand(d, iso, p, followFinal) ==
    LET chain[n \in 0..(MaxReparseDepth + 1)] ==
            IF n = 0 THEN Fine(p) ELSE Onward(d, iso, chain[n - 1], followFinal)
    IN  Settled(chain[MaxReparseDepth], chain[MaxReparseDepth + 1])

\* follow: "All" reaches what a final link names, "Parent" reaches the link.  A link
\* which leads beyond Paths, the bound of the view, leaves the view.
ResolveThrough(d, iso, p, stopFirst, plain, there) ==
    IF ~there.ok \/ there.path \notin Paths THEN [plain EXCEPT !.resolved = FALSE]
    ELSE IF there.path = p THEN plain
    ELSE ResolvePlain(d, iso, there.path, stopFirst)
ResolveFrom(d, iso, p, stopFirst, follow, plain) ==
    IF plain.link THEN ResolveThrough(d, iso, p, stopFirst, plain, Expand(d, iso, p, follow = "All")) ELSE plain
Resolve(d, iso, p, stopFirst, follow) ==
    ResolveFrom(d, iso, p, stopFirst, follow, ResolvePlain(d, iso, p, stopFirst))

\* What a query of the attributes of a path finds (ResolveViewPath() and
\* QueryPathFromResolve()): a hit whose folder the walk did not reach is found
\* when its folder is.
FolderThere(d, iso, p) == p = <<>> \/ Resolve(d, iso, Front(p), TRUE, "All").status = "Exists"
QueryPathFromResolve(d, iso, r) ==
    IF r.resolved /\ r.status = "Exists" /\ (r.parent \/ FolderThere(d, iso, r.path))
    THEN NodeAt(d, First(r.hits), r.path)
    ELSE None
QueryPath(d, iso, p) == QueryPathFromResolve(d, iso, Resolve(d, iso, p, TRUE, "Parent"))

\* What the view holds.
View(d, iso) == [p \in Paths |-> QueryPath(d, iso, p)]

-----------------------------------------------------------------------------
\* The merge of a directory enumeration (sandbox/filesystem/DirectoryMerge.cpp):
\* the folders of the record of the handle, one layer after the other up to the
\* first which is no folder.
PendingDir(d, record) ==
    {i \in record.hits : \A j \in record.hits : j <= i => NodeAt(d, j, record.path).kind = "dir"}

\* Mutant: the enumeration reports what the layers hold.
ListingOfLayers(d, iso, record) ==
    {n \in {p[Len(p)] : p \in Paths \ {<<>>}} :
        \E i \in PendingDir(d, record) : NodeAt(d, i, Append(record.path, n)) # None}

\* An entry the view does not hold is dropped, and so is a name an earlier layer
\* reported.
Listing(d, iso, record) ==
    {n \in {p[Len(p)] : p \in Paths \ {<<>>}} :
        LET p == Append(record.path, n)
        IN  /\ \E i \in PendingDir(d, record) : NodeAt(d, i, p) # None
            /\ Resolve(d, iso, p, TRUE, "All").status = "Exists"}
=============================================================================
