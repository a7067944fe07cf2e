---------------------- MODULE FilesystemIsolation_proofs ----------------------
(***************************************************************************)
(* The file hooks, for any number of processes, packed layers and paths:   *)
(* the packed layers are never written, the host is written only where the *)
(* isolation table says Merge, and a step changes the view only at the     *)
(* path of its call.  A call decides with what it resolved when it began,  *)
(* so what was true of the layers then has to stay true until the write:   *)
(* an entry which was found in a packed layer, or in the host where it     *)
(* must not be written, is never removed.  For the view, what a path shows *)
(* is a function of the layers at the path and above it alone.             *)
(***************************************************************************)
EXTENDS FilesystemIsolation, SequenceTheorems, WellFoundedInduction, TLAPS

PathNames == UNION {Range(p) : p \in Paths}

Kinds    == {"none", "dir", "file", "link"}
Statuses == {"Exists", "HiddenByWhiteout", "BlockedByOpaque", "HiddenByIsolation", "NotFound"}

\* The records the hooks work with.
Results ==
    [path : Paths, hits : SUBSET Layers, kind : Kinds, status : Statuses, parent : BOOLEAN,
     inUpper : BOOLEAN, whiteoutInUpper : BOOLEAN, holds : BOOLEAN, mode : Modes,
     masked : BOOLEAN, link : BOOLEAN, resolved : BOOLEAN]

Closes  == [call : {"close"}, path : Paths, disp : {"open"}, edit : {FALSE}, dir : {FALSE}]
Renamings == [call : {"rename"}, path : Paths, disp : Dispositions, edit : BOOLEAN, dir : BOOLEAN, source : Paths]

OpenPlaces   == {"unhide", "again", "newdir", "opaque", "folders", "copy", "fill", "copied", "open", "record"}
DeletePlaces == {"check", "host"}
MovePlaces   == {"unmark", "move", "hide"}
LastPlaces   == {"upper", "mark"}
CopyPlaces   == {"copy", "fill"}

InCall == [pc : OpenPlaces, req : Requests, res : Results]
          \cup [pc : DeletePlaces, req : Requests \cup Closes, res : Results]
          \cup [pc : MovePlaces, req : Renamings, res : Results]
          \cup [pc : LastPlaces, req : Requests \cup Closes \cup Renamings, res : Results]

OpenHandle == [open : {TRUE}, at : Layers \X Paths, path : Paths, edit : BOOLEAN, dir : BOOLEAN,
               record : {NoRecord} \cup Results, pending : BOOLEAN]

TableFits == \A q \in DOMAIN iso : q \in Paths /\ iso[q] \in Entry

TypeInv ==
    /\ disk \in Disks
    /\ TableFits
    /\ proc \in [Procs -> {Idle} \cup InCall]
    /\ handle \in [Procs -> {NoHandle} \cup OpenHandle]
    /\ calls \in [Procs -> 0..MaxCalls]
    /\ \A p \in Procs : proc[p].pc \in OpenPlaces => Req(p).call \in {"create", "open"}
    /\ \A p \in Procs : proc[p].pc \in CopyPlaces => Res(p).hits # {}
    /\ \A p \in Procs : proc[p].pc \in {"unmark", "move", "record"} => handle[p].open

TreeInv == IsTree(disk[Upper]) /\ IsTree(disk[Host])

\* A result says how the table isolates its path.
ModeFits(res) == res.mode = Lookup(iso, res.path).mode

\* What was found in a packed layer stays there.
PackedHold(res) == \A i \in res.hits : i \in 1..Lower => disk[i].node[res.path] # None

\* A handle which may write is one of the upper layer, or of the host where it may be
\* written.
MayWrite(i, q) == i = Upper \/ (i = Host /\ MayWriteHost(q))
HandleFits(p) ==
    handle[p].open =>
        /\ handle[p].edit => MayWrite(handle[p].at[1], handle[p].at[2])
        /\ handle[p].pending => handle[p].edit
        /\ handle[p].record # NoRecord => ModeFits(handle[p].record)

CallFits(p) ==
    ~At(p, "idle") =>
        /\ ModeFits(Res(p))
        /\ proc[p].pc \in OpenPlaces => PackedHold(Res(p))
        /\ At(p, "open") /\ Req(p).call = "open" => ~NeedsCopy(Req(p), Res(p))
        /\ At(p, "host") => ToHost(Res(p))
        /\ proc[p].pc \in {"unmark", "move"} => handle[p].edit

WriteInv == TypeInv /\ \A p \in Procs : HandleFits(p) /\ CallFits(p)

\* A rename moves no folder.
MovesFit(p) == proc[p].pc \in {"unmark", "move"} => ~handle[p].dir

\* What lies below a folder which a call removes from the host may be written.
FolderFits(p) ==
    At(p, "host") /\ Res(p).kind = "dir" =>
        \A x \in Paths : IsStrictPrefix(Res(p).path, x) /\ disk[Host].node[x] # None => MayWriteHost(x)

\* What was found in the host stays there, unless it may be written.
HostHolds(p) ==
    proc[p].pc \in OpenPlaces /\ Host \in Res(p).hits =>
        disk[Host].node[Res(p).path] # None \/ MayWriteHost(Res(p).path)

\* A result which leads to the host names what the host shows.
HostShown(res) == ToHost(res) /\ Exists(res) => Host \in res.hits
ResultsShow(p) ==
    /\ ~At(p, "idle") => HostShown(Res(p))
    /\ handle[p].open /\ handle[p].record # NoRecord => HostShown(handle[p].record)

HostInv ==
    /\ WriteInv /\ TreeInv
    /\ disk[Host].whiteout = {} /\ disk[Host].opaque = {}
    /\ \E s \in Starts : iso = s.iso
    /\ \A p \in Procs : HostHolds(p) /\ ResultsShow(p) /\ MovesFit(p) /\ FolderFits(p)

\* The hypotheses.
WritersAsk == \A r \in Requests : r.call = "create" /\ r.disp \in {"overwrite", "overwrite_if"} => r.edit
MergeIsConvex ==
    \A s \in Starts : \A x, y, z \in Paths :
        /\ IsStrictPrefix(x, y) /\ IsStrictPrefix(y, z)
        /\ Lookup(s.iso, x).mode = "Merge" /\ Lookup(s.iso, z).mode = "Merge"
        => Lookup(s.iso, y).mode = "Merge"
-----------------------------------------------------------------------------
(* Paths, and the first of some layers.                                    *)

LEMMA FirstNames ==
    ASSUME NEW S, NEW s, NEW n \in Nat, \A i \in 1..n : s[i] \in S
    PROVE  /\ SubSeq(s, 1, n) \in Seq(S) /\ Len(SubSeq(s, 1, n)) = n
           /\ \A i \in 1..n : SubSeq(s, 1, n)[i] = s[i]
<1>1. 1 \in Int /\ n \in Int /\ n - 1 + 1 = n
  OBVIOUS
<1>2. /\ SubSeq(s, 1, n) \in Seq(S)
      /\ Len(SubSeq(s, 1, n)) = IF 1 <= n THEN n - 1 + 1 ELSE 0
      /\ \A i \in 1..(n - 1 + 1) : SubSeq(s, 1, n)[i] = s[1 + i - 1]
  BY <1>1, SubSeqProperties
<1>3. QED
  BY <1>2

LEMMA PathSeq == ASSUME NEW p \in Paths PROVE p \in Seq(PathNames)
  BY ResolveAssumption DEF PathNames

LEMMA LayersAre ==
    /\ Lower \in Nat /\ Upper = 0 /\ Host = Lower + 1 /\ Upper # Host
    /\ Layers = 0..(Lower + 1) /\ Upper \in Layers /\ Host \in Layers
    /\ \A i \in Layers : i = Upper \/ i = Host \/ i \in 1..Lower
    /\ \A i \in 1..Lower : i \in Layers /\ i # Upper /\ i # Host
  BY ResolveAssumption DEF Upper, Host, Layers

LEMMA PrefixTransitive ==
    ASSUME NEW x \in Paths, NEW y \in Paths, NEW z \in Paths, IsPrefix(x, y), IsPrefix(y, z)
    PROVE  IsPrefix(x, z)
  BY PathSeq DEF IsPrefix

LEMMA PrefixIsSame ==
    ASSUME NEW x \in Paths, NEW y \in Paths, IsPrefix(x, y), IsPrefix(y, x)
    PROVE  x = y
  BY PathSeq DEF IsPrefix

LEMMA PrefixOfItself == ASSUME NEW x \in Paths PROVE IsPrefix(x, x)
  BY PathSeq DEF IsPrefix

LEMMA StrictTransitive ==
    ASSUME NEW x \in Paths, NEW y \in Paths, NEW z \in Paths, IsStrictPrefix(x, y), IsPrefix(y, z)
    PROVE  IsStrictPrefix(x, z)
  BY PrefixTransitive, PrefixIsSame DEF IsStrictPrefix

\* Whatever lies above a path lies above or is its folder.
LEMMA FolderAbove ==
    ASSUME NEW x \in Paths, NEW y \in Paths, IsStrictPrefix(x, y)
    PROVE  /\ y # <<>> /\ Front(y) \in Paths
           /\ IsPrefix(x, Front(y)) /\ IsStrictPrefix(Front(y), y)
<1>1. x \in Seq(PathNames) /\ y \in Seq(PathNames)
  BY PathSeq
<1>2. Len(x) <= Len(y) /\ x = SubSeq(y, 1, Len(x)) /\ x # y
  BY <1>1 DEF IsStrictPrefix, IsPrefix
<1>3. Len(x) < Len(y)
  BY <1>1, <1>2
<1>4. y # <<>>
  BY <1>1, <1>3
<1>5. Front(y) \in Paths
  BY <1>4, ResolveAssumption
<1>6. /\ Front(y) \in Seq(PathNames) /\ Len(Front(y)) = Len(y) - 1
      /\ \A i \in 1..(Len(y) - 1) : Front(y)[i] = y[i]
  <2>1. PICK n \in Nat : n = Len(y) - 1
    BY <1>1, <1>3
  <2>2. \A i \in 1..n : y[i] \in PathNames
    BY <1>1, <2>1
  <2>3. /\ SubSeq(y, 1, n) \in Seq(PathNames) /\ Len(SubSeq(y, 1, n)) = n
        /\ \A i \in 1..n : SubSeq(y, 1, n)[i] = y[i]
    BY <2>2, FirstNames
  <2>4. QED
    BY <2>1, <2>3 DEF Front
<1>7. IsPrefix(x, Front(y))
  BY <1>1, <1>2, <1>3, <1>6 DEF IsPrefix
<1>8. IsStrictPrefix(Front(y), y)
  BY <1>1, <1>4, <1>6 DEF IsPrefix, IsStrictPrefix
<1>9. QED
  BY <1>4, <1>5, <1>7, <1>8

LEMMA Minimum ==
    ASSUME NEW S, S \subseteq Nat, S # {}
    PROVE  \E x \in S : \A y \in S : x <= y
<1> DEFINE R == {ss \in Nat \X Nat : ss[1] < ss[2]}
<1>1. IsWellFoundedOn(R, Nat)
  <2>1. SUFFICES ASSUME NEW f \in [Nat -> Nat], \A n \in Nat : <<f[n+1], f[n]>> \in R PROVE FALSE
    BY DEF IsWellFoundedOn
  <2>2. QED
    BY <2>1, NatLessThanWellFounded DEF OpToRel, IsWellFoundedOn
<1>2. \A x, y \in Nat : <<y, x>> \notin R => x <= y
  OBVIOUS
<1>3. \E x \in S : \A y \in S : ~ (<<y, x>> \in R)
  <2> HIDE DEF R
  <2>1. QED
    BY <1>1, WFMin
<1>4. QED
  <2> HIDE DEF R
  <2>1. QED
    BY <1>2, <1>3

LEMMA FirstIs ==
    ASSUME NEW S \in SUBSET Layers, S # {}
    PROVE  First(S) \in S
<1>1. S \subseteq Nat
  BY LayersAre
<1>2. \E x \in S : \A y \in S : x <= y
  BY <1>1, Minimum
<1>3. QED
  BY <1>2 DEF First, Min

\* The closest listed entry.
LEMMA MaximumIs ==
    ASSUME NEW n \in Nat, NEW S \in SUBSET (0..n), S # {}
    PROVE  Max(S) \in S
<1> DEFINE T == {n - x : x \in S}
<1>1. T \subseteq Nat /\ T # {}
  <2>1. \A x \in 0..n : n - x \in Nat
    OBVIOUS
  <2>2. PICK x \in S : TRUE
    OBVIOUS
  <2>3. T \subseteq Nat
    BY <2>1
  <2>4. n - x \in T
    BY <2>2
  <2>5. QED
    BY <2>3, <2>4
<1>2. PICK y \in T : \A z \in T : y <= z
  <2> HIDE DEF T
  <2>1. QED
    BY <1>1, Minimum
<1>3. PICK x \in S : y = n - x
  BY <1>2
<1>4. \A z \in S : x >= z
  BY <1>2, <1>3
<1>5. QED
  BY <1>4 DEF Max

LEMMA LookupIs ==
    ASSUME NEW table, NEW p \in Paths, \A q \in DOMAIN table : q \in Paths /\ table[q] \in Entry
    PROVE  Lookup(table, p) \in Entry
<1> DEFINE listed == {k \in 0..Len(p) : Prefix(p, k) \in DOMAIN table}
<1>1. CASE listed = {}
  BY <1>1 DEF Lookup, Unlisted, Entry, Modes
<1>2. CASE listed # {}
  <2>1. Len(p) \in Nat
    BY PathSeq
  <2>2. Max(listed) \in listed
    BY <1>2, <2>1, MaximumIs
  <2>3. QED
    BY <1>2, <2>2 DEF Lookup
<1>3. QED
  BY <1>1, <1>2
-----------------------------------------------------------------------------
(* What a resolution returns.                                              *)

LEMMA NodeIs ==
    ASSUME NEW d \in Disks, NEW i \in Layers, NEW p
    PROVE  NodeAt(d, i, p) \in Nodes
  BY DEF Disks, Layer, NodeAt, Nodes

LEMMA KindIs == ASSUME NEW n \in Nodes PROVE n.kind \in Kinds
  BY DEF Nodes, None, Dir, File, Link, Kinds

LEMMA ResolutionIs ==
    ASSUME NEW d \in Disks, NEW p \in Paths, NEW e \in Entry,
           NEW searched \in SUBSET Layers, NEW hits \in SUBSET Layers
    PROVE  /\ Resolution(d, p, e, searched, hits) \in Results
           /\ Resolution(d, p, e, searched, hits).path = p
           /\ Resolution(d, p, e, searched, hits).mode = e.mode
           /\ Resolution(d, p, e, searched, hits).hits = hits
<1> DEFINE r == Resolution(d, p, e, searched, hits)
<1>1. r.kind \in Kinds
  <2>1. CASE hits = {}
    BY <2>1 DEF Resolution, Kinds
  <2>2. CASE hits # {}
    <3>1. First(hits) \in Layers
      BY <2>2, FirstIs
    <3>2. NodeAt(d, First(hits), p).kind \in Kinds
      BY <3>1, NodeIs, KindIs
    <3>3. QED
      BY <2>2, <3>2 DEF Resolution
  <2>3. QED
    BY <2>1, <2>2
<1>2. r.status \in Statuses
  BY DEF Resolution, Statuses
<1>3. /\ r.parent \in BOOLEAN /\ r.inUpper \in BOOLEAN /\ r.whiteoutInUpper \in BOOLEAN
      /\ r.holds \in BOOLEAN /\ r.masked \in BOOLEAN /\ r.link \in BOOLEAN
  BY DEF Resolution, WhiteoutFound, HidesHost, HidesLower
<1>4. r.path = p /\ r.hits = hits /\ r.mode = e.mode /\ r.mode \in Modes /\ r.resolved = TRUE
  BY DEF Resolution, Entry
<1>5. r = [path |-> r.path, hits |-> r.hits, kind |-> r.kind, status |-> r.status, parent |-> r.parent,
           inUpper |-> r.inUpper, whiteoutInUpper |-> r.whiteoutInUpper, holds |-> r.holds,
           mode |-> r.mode, masked |-> r.masked, link |-> r.link, resolved |-> r.resolved]
  BY DEF Resolution
<1>6. r \in Results
  <2> HIDE DEF r
  <2>1. QED
    BY <1>1, <1>2, <1>3, <1>4, <1>5 DEF Results
<1>7. QED
  BY <1>4, <1>6

\* The entries a result names were found.
Found(d, table, res) ==
    /\ res \in Results /\ res.mode = Lookup(table, res.path).mode
    /\ \A i \in res.hits : d[i].node[res.path] # None

LEMMA PlainIs ==
    ASSUME NEW d \in Disks, NEW table, NEW p \in Paths, NEW stopFirst,
           \A q \in DOMAIN table : q \in Paths /\ table[q] \in Entry
    PROVE  Found(d, table, ResolvePlain(d, table, p, stopFirst)) /\ ResolvePlain(d, table, p, stopFirst).path = p
<1> DEFINE e == Lookup(table, p)
           searched == Searched(d, p, stopFirst)
           hits == HitsShown(d, p, e, searched)
<1>1. e \in Entry
  BY LookupIs
<1>2. searched \subseteq Layers
  BY DEF Searched
<1>3. hits \subseteq searched /\ \A i \in hits : NodeAt(d, i, p) # None
  BY DEF HitsShown, HitIn
<1>4. ResolvePlain(d, table, p, stopFirst) = Resolution(d, p, e, searched, hits)
  BY DEF ResolvePlain, ResolutionOf
<1> HIDE DEF e, searched, hits
<1>5. /\ Resolution(d, p, e, searched, hits) \in Results
      /\ Resolution(d, p, e, searched, hits).path = p
      /\ Resolution(d, p, e, searched, hits).mode = e.mode
      /\ Resolution(d, p, e, searched, hits).hits = hits
  BY <1>1, <1>2, <1>3, ResolutionIs
<1>6. \A i \in hits : d[i].node[p] # None
  BY <1>3 DEF NodeAt
<1>7. QED
  BY <1>4, <1>5, <1>6 DEF Found, e

\* A resolution follows the links of the view, and stays in it.
LEMMA ResolveIs ==
    ASSUME NEW d \in Disks, NEW table, NEW p \in Paths, NEW stopFirst, NEW follow,
           \A q \in DOMAIN table : q \in Paths /\ table[q] \in Entry
    PROVE  Found(d, table, Resolve(d, table, p, stopFirst, follow))
<1> DEFINE plain == ResolvePlain(d, table, p, stopFirst)
           there == Expand(d, table, p, follow = "All")
<1>1. Found(d, table, plain)
  BY PlainIs
<1>2. Found(d, table, [plain EXCEPT !.resolved = FALSE])
  <2> HIDE DEF plain
  <2>1. QED
    BY <1>1 DEF Found, Results
<1>3. there.path \in Paths => Found(d, table, ResolvePlain(d, table, there.path, stopFirst))
  BY PlainIs
<1>4. Resolve(d, table, p, stopFirst, follow)
         = IF plain.link THEN ResolveThrough(d, table, p, stopFirst, plain, there) ELSE plain
  BY DEF Resolve, ResolveFrom
<1> HIDE DEF plain, there
<1>5. Found(d, table, ResolveThrough(d, table, p, stopFirst, plain, there))
  BY <1>1, <1>2, <1>3 DEF ResolveThrough
<1>6. QED
  BY <1>1, <1>4, <1>5
-----------------------------------------------------------------------------
(* What the operations of a layer do to the disk.                          *)

\* Only layer i may have changed.
OnlyIn(i, d, e) == e \in Disks /\ \A j \in Layers : j # i => e[j] = d[j]

LEMMA NodeOfLayer == ASSUME NEW d \in Disks, NEW i \in Layers, NEW p \in Paths PROVE d[i].node[p] \in Nodes
  BY DEF Disks, Layer

LEMMA OnlyInTransitive ==
    ASSUME NEW i \in Layers, NEW d, NEW e, NEW f, OnlyIn(i, d, e), OnlyIn(i, e, f)
    PROVE  OnlyIn(i, d, f)
  BY DEF OnlyIn

LEMMA PutIs ==
    ASSUME NEW d \in Disks, NEW i \in Layers, NEW p \in Paths, NEW n \in Nodes
    PROVE  /\ OnlyIn(i, d, Put(d, i, p, n))
           /\ Put(d, i, p, n)[i].node = [d[i].node EXCEPT ![p] = n]
           /\ Put(d, i, p, n)[i].whiteout = d[i].whiteout
           /\ Put(d, i, p, n)[i].opaque = d[i].opaque
<1> DEFINE layer == [d[i] EXCEPT !.node[p] = n]
<1>1. d[i] \in Layer
  BY DEF Disks
<1>2. Put(d, i, p, n) = [d EXCEPT ![i] = layer]
  BY DEF Put
<1>3. /\ layer \in Layer /\ layer.node = [d[i].node EXCEPT ![p] = n]
      /\ layer.whiteout = d[i].whiteout /\ layer.opaque = d[i].opaque
  BY <1>1 DEF Layer
<1>4. OnlyIn(i, d, Put(d, i, p, n)) /\ Put(d, i, p, n)[i] = layer
  <2> HIDE DEF layer
  <2>1. QED
    BY <1>2, <1>3 DEF OnlyIn, Disks
<1>5. QED
  <2> HIDE DEF layer
  <2>1. QED
    BY <1>3, <1>4

LEMMA RemoveAllIs ==
    ASSUME NEW d \in Disks, NEW i \in Layers, NEW p \in Paths
    PROVE  /\ OnlyIn(i, d, RemoveAll(d, i, p))
           /\ RemoveAll(d, i, p)[i].node = [q \in Paths |-> IF IsPrefix(p, q) THEN None ELSE d[i].node[q]]
           /\ RemoveAll(d, i, p)[i].whiteout = {q \in d[i].whiteout : ~IsStrictPrefix(p, q)}
           /\ RemoveAll(d, i, p)[i].opaque = {q \in d[i].opaque : ~IsPrefix(p, q)}
<1> DEFINE layer == [ node     |-> [q \in Paths |-> IF IsPrefix(p, q) THEN None ELSE d[i].node[q]],
                      whiteout |-> {q \in d[i].whiteout : ~IsStrictPrefix(p, q)},
                      opaque   |-> {q \in d[i].opaque : ~IsPrefix(p, q)} ]
<1>1. d[i] \in Layer /\ None \in Nodes
  BY DEF Disks, Nodes
<1>2. RemoveAll(d, i, p) = [d EXCEPT ![i] = layer]
  BY DEF RemoveAll, Disks
<1>3. layer \in Layer
  BY <1>1 DEF Layer
<1>4. OnlyIn(i, d, RemoveAll(d, i, p)) /\ RemoveAll(d, i, p)[i] = layer
  <2> HIDE DEF layer
  <2>1. QED
    BY <1>2, <1>3 DEF OnlyIn, Disks
<1>5. QED
  BY <1>4

LEMMA DeleteOneIs ==
    ASSUME NEW d \in Disks, NEW i \in Layers, NEW p \in Paths
    PROVE  /\ OnlyIn(i, d, DeleteOne(d, i, p))
           /\ \/ DeleteOne(d, i, p) = d
              \/ CanDelete(d, i, p) /\ DeleteOne(d, i, p) = Put(d, i, p, None)
<1>1. OnlyIn(i, d, Put(d, i, p, None))
  <2>1. None \in Nodes
    BY DEF Nodes
  <2>2. QED
    BY <2>1, PutIs
<1>2. OnlyIn(i, d, d)
  BY DEF OnlyIn
<1>3. QED
  BY <1>1, <1>2 DEF DeleteOne

LEMMA FoldersIs ==
    ASSUME NEW d \in Disks, NEW i \in Layers, NEW p \in Paths
    PROVE  /\ OnlyIn(i, d, Folders(d, i, p))
           /\ Folders(d, i, p)[i].whiteout = d[i].whiteout
           /\ Folders(d, i, p)[i].opaque = d[i].opaque
           /\ \A q \in Paths :
                 \/ Folders(d, i, p)[i].node[q] = d[i].node[q]
                 \/ /\ d[i].node[q] = None /\ Folders(d, i, p)[i].node[q] = Dir /\ IsStrictPrefix(q, p)
                    /\ \A j \in 1..Len(q) : NodeAt(d, i, Prefix(p, j)) \in {None, Dir}
           /\ \A q \in Paths :
                 /\ IsStrictPrefix(q, p) /\ d[i].node[q] = None
                 /\ \A j \in 1..Len(q) : NodeAt(d, i, Prefix(p, j)) \in {None, Dir}
                 => Folders(d, i, p)[i].node[q] = Dir
<1> DEFINE blocked(k) == \E j \in 1..k : NodeAt(d, i, Prefix(p, j)) \notin {None, Dir}
           nodes == [q \in Paths |-> IF IsStrictPrefix(q, p) /\ d[i].node[q] = None /\ ~blocked(Len(q))
                                     THEN Dir ELSE d[i].node[q]]
           layer == [d[i] EXCEPT !.node = nodes]
<1>1. d[i] \in Layer /\ Dir \in Nodes
  BY DEF Disks, Nodes
<1>2. Folders(d, i, p) = [d EXCEPT ![i] = layer]
  BY DEF Folders, Disks
<1>3. nodes \in [Paths -> Nodes]
  <2> HIDE DEF blocked
  <2>1. QED
    BY <1>1 DEF Layer
<1>4. layer \in Layer /\ layer.node = nodes /\ layer.whiteout = d[i].whiteout /\ layer.opaque = d[i].opaque
  <2> HIDE DEF nodes
  <2>1. QED
    BY <1>1, <1>3 DEF Layer
<1>5. OnlyIn(i, d, Folders(d, i, p)) /\ Folders(d, i, p)[i] = layer
  <2> HIDE DEF layer, nodes
  <2>1. QED
    BY <1>2, <1>4 DEF OnlyIn, Disks
<1>6. QED
  <2> HIDE DEF layer
  <2>1. /\ Folders(d, i, p)[i].node = nodes
        /\ Folders(d, i, p)[i].whiteout = d[i].whiteout
        /\ Folders(d, i, p)[i].opaque = d[i].opaque
    BY <1>4, <1>5
  <2>2. QED
    BY <1>5, <2>1

LEMMA OpenedIs ==
    ASSUME NEW d \in Disks, NEW i \in Layers, NEW r, NEW p \in Paths
    PROVE  /\ OnlyIn(i, d, Opened(d, i, r, p))
           /\ \/ Opened(d, i, r, p) = d /\ Holds(d, i, p) /\ r.disp \in {"open", "open_if"}
              \/ \E n \in {Dir, File(Empty)} :
                    Opened(d, i, r, p) = Put(d, i, p, n) /\ ~(Holds(d, i, p) /\ r.disp \in {"open", "open_if"})
<1>1. \A n \in {Dir, File(Empty)} : OnlyIn(i, d, Put(d, i, p, n))
  <2>1. Dir \in Nodes /\ File(Empty) \in Nodes
    BY ResolveAssumption DEF Nodes
  <2>2. QED
    BY <2>1, PutIs
<1>2. OnlyIn(i, d, d)
  BY DEF OnlyIn
<1>3. QED
  BY <1>1, <1>2 DEF Opened

LEMMA DeleteEntryIs ==
    ASSUME NEW d \in Disks, NEW i \in Layers, NEW res \in Results
    PROVE  OnlyIn(i, d, DeleteEntry(d, i, res))
  BY RemoveAllIs, DeleteOneIs DEF DeleteEntry, Results

LEMMA MarkersAre ==
    ASSUME NEW d \in Disks, NEW i \in Layers, NEW W \in SUBSET Paths
    PROVE  /\ OnlyIn(i, d, [d EXCEPT ![i].whiteout = W])
           /\ OnlyIn(i, d, [d EXCEPT ![i].opaque = W])
           /\ [d EXCEPT ![i].whiteout = W][i] = [d[i] EXCEPT !.whiteout = W]
           /\ [d EXCEPT ![i].opaque = W][i] = [d[i] EXCEPT !.opaque = W]
<1>1. d[i] \in Layer
  BY DEF Disks
<1>2. [d[i] EXCEPT !.whiteout = W] \in Layer /\ [d[i] EXCEPT !.opaque = W] \in Layer
  BY <1>1 DEF Layer
<1>3. QED
  BY <1>1, <1>2 DEF OnlyIn, Disks

\* A move writes the layer it leaves and the layer it goes to, at and below the two names.
LEMMA MovedIs ==
    ASSUME NEW d \in Disks, NEW i \in Layers, NEW from \in Paths, NEW j \in Layers, NEW to \in Paths
    PROVE  /\ Moved(d, i, from, j, to) \in Disks
           /\ \A k \in Layers : k # i /\ k # j => Moved(d, i, from, j, to)[k] = d[k]
           /\ \A k \in Layers : \A q \in Paths : ~IsPrefix(to, q) =>
                 /\ Moved(d, i, from, j, to)[k].node[q] \in {None, d[k].node[q]}
                 /\ ~IsPrefix(from, q) =>
                       /\ Moved(d, i, from, j, to)[k].node[q] = d[k].node[q]
                       /\ q \in Moved(d, i, from, j, to)[k].whiteout <=> q \in d[k].whiteout
                       /\ q \in Moved(d, i, from, j, to)[k].opaque <=> q \in d[k].opaque
<1> DEFINE source(q) == from \o SubSeq(q, Len(to) + 1, Len(q))
           marks(S)  == {q \in Paths : IsPrefix(to, q) /\ source(q) \in S}
           nodes     == [q \in Paths |-> IF IsPrefix(to, q) THEN NodeAt(d, i, source(q)) ELSE d[j].node[q]]
           W         == d[j].whiteout \cup (marks(d[i].whiteout) \ {to})
           O         == d[j].opaque \cup marks(d[i].opaque)
           layer     == [d[j] EXCEPT !.node = nodes, !.whiteout = W, !.opaque = O]
           taken     == [d EXCEPT ![j].node =
                                    [q \in Paths |-> IF IsPrefix(to, q) THEN NodeAt(d, i, source(q)) ELSE @[q]],
                                  ![j].whiteout = @ \cup (marks(d[i].whiteout) \ {to}),
                                  ![j].opaque = @ \cup marks(d[i].opaque)]
<1>1. d[j] \in Layer
  BY DEF Disks
<1>2. nodes \in [Paths -> Nodes] /\ W \subseteq Paths /\ O \subseteq Paths
  <2>1. \A q : NodeAt(d, i, q) \in Nodes
    BY NodeIs
  <2> HIDE DEF source
  <2>2. QED
    BY <1>1, <2>1 DEF Layer
<1>3. layer \in Layer
  <2> HIDE DEF nodes, W, O
  <2>1. QED
    BY <1>1, <1>2 DEF Layer
<1>4. taken = [d EXCEPT ![j] = layer]
  <2>1. taken = [d EXCEPT ![j].node = nodes, ![j].whiteout = W, ![j].opaque = O]
    <3> HIDE DEF source, marks
    <3>1. QED
      BY <1>1 DEF Disks, Layer
  <2> HIDE DEF nodes, W, O, taken
  <2>2. QED
    BY <1>1, <2>1 DEF Disks, Layer
<1>5. Moved(d, i, from, j, to) = RemoveAll(taken, i, from)
  BY DEF Moved
<1>6. OnlyIn(j, d, taken)
  <2> HIDE DEF layer, taken
  <2>1. QED
    BY <1>3, <1>4 DEF OnlyIn, Disks
<1>7. OnlyIn(i, taken, RemoveAll(taken, i, from))
  <2> HIDE DEF taken
  <2>1. taken \in Disks
    BY <1>6 DEF OnlyIn
  <2>2. QED
    BY <2>1, RemoveAllIs
<1>8. ASSUME NEW q \in Paths, ~IsPrefix(to, q)
      PROVE  /\ taken[j].node[q] = d[j].node[q]
             /\ q \in taken[j].whiteout <=> q \in d[j].whiteout
             /\ q \in taken[j].opaque <=> q \in d[j].opaque
  <2>1. nodes[q] = d[j].node[q] /\ (q \in W <=> q \in d[j].whiteout) /\ (q \in O <=> q \in d[j].opaque)
    <3> HIDE DEF source
    <3>1. QED
      BY <1>8
  <2> HIDE DEF nodes, W, O, taken
  <2>2. layer.node = nodes /\ layer.whiteout = W /\ layer.opaque = O
    BY <1>1 DEF Layer
  <2> HIDE DEF layer
  <2>3. taken[j] = layer
    BY <1>4 DEF Disks
  <2>4. QED
    BY <2>1, <2>2, <2>3
<1>9. ASSUME NEW k \in Layers, NEW q \in Paths, ~IsPrefix(to, q)
      PROVE  /\ taken[k].node[q] = d[k].node[q]
             /\ q \in taken[k].whiteout <=> q \in d[k].whiteout
             /\ q \in taken[k].opaque <=> q \in d[k].opaque
  <2> HIDE DEF taken
  <2>1. CASE k = j
    BY <1>8, <1>9, <2>1
  <2>2. CASE k # j
    BY <1>6, <2>2 DEF OnlyIn
  <2>3. QED
    BY <2>1, <2>2
<1>10. ASSUME NEW k \in Layers, NEW q \in Paths
       PROVE  /\ RemoveAll(taken, i, from)[k].node[q] \in {None, taken[k].node[q]}
              /\ ~IsPrefix(from, q) =>
                    /\ RemoveAll(taken, i, from)[k].node[q] = taken[k].node[q]
                    /\ q \in RemoveAll(taken, i, from)[k].whiteout <=> q \in taken[k].whiteout
                    /\ q \in RemoveAll(taken, i, from)[k].opaque <=> q \in taken[k].opaque
  <2> HIDE DEF taken
  <2>1. taken \in Disks
    BY <1>6 DEF OnlyIn
  <2>2. CASE k = i
    <3> DEFINE e == RemoveAll(taken, i, from)
    <3>1. /\ e[i].node = [x \in Paths |-> IF IsPrefix(from, x) THEN None ELSE taken[i].node[x]]
          /\ e[i].whiteout = {x \in taken[i].whiteout : ~IsStrictPrefix(from, x)}
          /\ e[i].opaque = {x \in taken[i].opaque : ~IsPrefix(from, x)}
      BY <2>1, RemoveAllIs
    <3> HIDE DEF e
    <3>2. e[i].node[q] = IF IsPrefix(from, q) THEN None ELSE taken[i].node[q]
      BY <3>1
    <3>3. ~IsPrefix(from, q) => ~IsStrictPrefix(from, q)
      BY DEF IsStrictPrefix
    <3>4. ~IsPrefix(from, q) => (q \in e[i].whiteout <=> q \in taken[i].whiteout)
      BY <3>1, <3>3
    <3>5. ~IsPrefix(from, q) => (q \in e[i].opaque <=> q \in taken[i].opaque)
      BY <3>1
    <3>6. QED
      BY <2>2, <3>2, <3>4, <3>5 DEF e
  <2>3. CASE k # i
    BY <1>7, <2>3 DEF OnlyIn
  <2>4. QED
    BY <2>2, <2>3
<1>11. QED
  <2> HIDE DEF taken
  <2>1. /\ Moved(d, i, from, j, to) \in Disks
        /\ \A k \in Layers : k # i /\ k # j => Moved(d, i, from, j, to)[k] = d[k]
    BY <1>5, <1>6, <1>7 DEF OnlyIn
  <2>2. QED
    BY <1>5, <1>9, <1>10, <2>1

LEMMA MovedLayers ==
    ASSUME NEW d \in Disks, NEW i \in Layers, NEW from \in Paths, NEW j \in Layers, NEW to \in Paths
    PROVE  /\ Moved(d, i, from, j, to) \in Disks
           /\ \A k \in Layers : k # i /\ k # j => Moved(d, i, from, j, to)[k] = d[k]
  BY MovedIs

-----------------------------------------------------------------------------
(* Type correctness.                                                       *)

ProcTypes ==
    /\ proc \in [Procs -> {Idle} \cup InCall]
    /\ \A p \in Procs : proc[p].pc \in OpenPlaces => Req(p).call \in {"create", "open"}
    /\ \A p \in Procs : proc[p].pc \in CopyPlaces => Res(p).hits # {}

\* The places of one call follow each other.
Follows(from, to) ==
    \/ from \in OpenPlaces /\ to \in OpenPlaces
    \/ from \in DeletePlaces /\ to \in DeletePlaces \cup LastPlaces
    \/ from \in MovePlaces /\ to \in MovePlaces \cup LastPlaces
    \/ from \in LastPlaces /\ to \in LastPlaces

LEMMA PlacesApart ==
    /\ \A x \in OpenPlaces : x # "idle" /\ x \notin DeletePlaces \cup MovePlaces \cup LastPlaces
    /\ \A x \in DeletePlaces : x # "idle" /\ x \notin MovePlaces \cup LastPlaces
    /\ \A x \in MovePlaces : x # "idle" /\ x \notin LastPlaces
    /\ \A x \in LastPlaces : x # "idle"
    /\ \A x \in CopyPlaces : x # "idle"
  BY DEF CopyPlaces, OpenPlaces, DeletePlaces, MovePlaces, LastPlaces

LEMMA RequestIs ==
    ASSUME NEW r \in Requests
    PROVE  /\ r \in Request /\ r.path \in Paths /\ r.disp \in Dispositions
           /\ r.edit \in BOOLEAN /\ r.dir \in BOOLEAN
           /\ r.call = "open" => r.disp = "open"
  BY FilesystemAssumption DEF Request

LEMMA InCallIs ==
    ASSUME ProcTypes, NEW p \in Procs, ~At(p, "idle")
    PROVE  /\ proc[p] \in InCall
           /\ proc[p] = [pc |-> proc[p].pc, req |-> Req(p), res |-> Res(p)]
           /\ Res(p) \in Results /\ Res(p).path \in Paths /\ Res(p).hits \subseteq Layers
           /\ proc[p].pc \in OpenPlaces => Req(p) \in Requests /\ Req(p).call \in {"create", "open"}
           /\ proc[p].pc \in DeletePlaces => Req(p) \in Requests \cup Closes
           /\ proc[p].pc \in MovePlaces => Req(p) \in Renamings
           /\ proc[p].pc \in LastPlaces => Req(p) \in Requests \cup Closes \cup Renamings
<1>1. proc[p] \in InCall
  BY DEF ProcTypes, At, Idle
<1>2. /\ proc[p] = [pc |-> proc[p].pc, req |-> Req(p), res |-> Res(p)]
      /\ Res(p) \in Results
      /\ proc[p].pc \in OpenPlaces => Req(p) \in Requests
      /\ proc[p].pc \in DeletePlaces => Req(p) \in Requests \cup Closes
      /\ proc[p].pc \in MovePlaces => Req(p) \in Renamings
      /\ proc[p].pc \in LastPlaces => Req(p) \in Requests \cup Closes \cup Renamings
  BY <1>1, PlacesApart DEF InCall, Req, Res
<1>3. Res(p).path \in Paths /\ Res(p).hits \subseteq Layers
  BY <1>2 DEF Results
<1>4. QED
  BY <1>1, <1>2, <1>3 DEF ProcTypes

LEMMA CallTyped ==
    ASSUME ProcTypes, NEW p \in Procs, NEW pc, NEW r, NEW res, Call(p, pc, r, res),
           [pc |-> pc, req |-> r, res |-> res] \in InCall,
           pc \in OpenPlaces => r.call \in {"create", "open"},
           pc \in CopyPlaces => res.hits # {}
    PROVE  /\ ProcTypes'
           /\ proc'[p] = [pc |-> pc, req |-> r, res |-> res]
           /\ \A q \in Procs : q # p => proc'[q] = proc[q]
<1>1. /\ proc' \in [Procs -> {Idle} \cup InCall]
      /\ proc'[p] = [pc |-> pc, req |-> r, res |-> res]
      /\ \A q \in Procs : q # p => proc'[q] = proc[q]
  BY DEF ProcTypes, Call
<1>2. QED
  BY <1>1 DEF ProcTypes, Req, Res

LEMMA ReturnTyped ==
    ASSUME ProcTypes, NEW p \in Procs, Return(p)
    PROVE  /\ ProcTypes' /\ proc'[p] = Idle
           /\ \A q \in Procs : q # p => proc'[q] = proc[q]
<1>1. /\ proc' \in [Procs -> {Idle} \cup InCall]
      /\ proc'[p] = Idle
      /\ \A q \in Procs : q # p => proc'[q] = proc[q]
  BY DEF ProcTypes, Return
<1>2. QED
  BY <1>1, PlacesApart DEF ProcTypes, Req, Res, Idle

LEMMA GotoTyped ==
    ASSUME ProcTypes, NEW p \in Procs, NEW pc, Goto(p, pc), Follows(proc[p].pc, pc),
           pc \in CopyPlaces => Res(p).hits # {}
    PROVE  /\ ProcTypes'
           /\ proc'[p] = [pc |-> pc, req |-> Req(p), res |-> Res(p)]
           /\ \A q \in Procs : q # p => proc'[q] = proc[q]
<1>1. ~At(p, "idle")
  BY PlacesApart DEF Follows, At
<1>2. /\ proc[p] = [pc |-> proc[p].pc, req |-> Req(p), res |-> Res(p)]
      /\ Res(p) \in Results
  BY <1>1, InCallIs
<1>3. [pc |-> pc, req |-> Req(p), res |-> Res(p)] \in InCall
  BY <1>1, <1>2, InCallIs DEF Follows, InCall
<1>4. Call(p, pc, Req(p), Res(p))
  <2>1. proc' = [proc EXCEPT ![p] = [proc[p] EXCEPT !.pc = pc]]
    BY DEF Goto
  <2>2. [proc[p] EXCEPT !.pc = pc] = [pc |-> pc, req |-> Req(p), res |-> Res(p)]
    BY <1>2
  <2>3. QED
    BY <2>1, <2>2 DEF Call
<1>5. pc \in OpenPlaces => Req(p).call \in {"create", "open"}
  BY PlacesApart DEF Follows, ProcTypes
<1>6. QED
  BY <1>3, <1>4, <1>5, CallTyped

LEMMA HandleIs ==
    ASSUME TypeInv, NEW p \in Procs, handle[p].open
    PROVE  /\ handle[p] \in OpenHandle
           /\ handle[p].at[1] \in Layers /\ handle[p].at[2] \in Paths /\ handle[p].path \in Paths
           /\ handle[p].edit \in BOOLEAN /\ handle[p].pending \in BOOLEAN /\ handle[p].dir \in BOOLEAN
           /\ handle[p].record \in {NoRecord} \cup Results
<1>1. handle[p] \in OpenHandle
  BY DEF TypeInv, NoHandle
<1>2. QED
  BY <1>1 DEF OpenHandle

LEMMA ResolvedIs ==
    ASSUME TypeInv, NEW q \in Paths, NEW stopFirst, NEW follow
    PROVE  /\ Found(disk, iso, Resolve(disk, iso, q, stopFirst, follow))
           /\ Resolve(disk, iso, q, stopFirst, follow) \in Results
  BY ResolveIs DEF TypeInv, TableFits, Found

LEMMA InitTypeInv == ASSUME Init PROVE TypeInv
  BY FilesystemAssumption, PlacesApart DEF Init, TypeInv, TableFits, Idle, NoHandle, OpenPlaces,
         CopyPlaces

\* A call which holds an open handle for its last steps.
NeedsHandle == {"unmark", "move", "record"}

LEMMA TypesTogether ==
    ASSUME TypeInv, disk' \in Disks, iso' = iso, ProcTypes', calls' \in [Procs -> 0..MaxCalls],
           handle' \in [Procs -> {NoHandle} \cup OpenHandle],
           NEW p \in Procs, \A q \in Procs : q # p => proc'[q] = proc[q] /\ handle'[q].open = handle[q].open,
           proc'[p].pc \in NeedsHandle => handle'[p].open
    PROVE  TypeInv'
  BY DEF TypeInv, ProcTypes, TableFits, NeedsHandle

\* The same for a step which leaves the handles alone.
LEMMA StepTyped ==
    ASSUME TypeInv, disk' \in Disks, iso' = iso, ProcTypes', handle' = handle, calls' = calls,
           NEW p \in Procs, \A q \in Procs : q # p => proc'[q] = proc[q],
           proc'[p].pc \in NeedsHandle => handle[p].open
    PROVE  TypeInv'
  BY TypesTogether DEF TypeInv

LEMMA CallCounted ==
    ASSUME TypeInv, NEW p \in Procs, calls[p] < MaxCalls
    PROVE  [calls EXCEPT ![p] = @ + 1] \in [Procs -> 0..MaxCalls]
  BY FilesystemAssumption DEF TypeInv

LEMMA OpenFileTyped ==
    ASSUME TypeInv, NEW p \in Procs, NEW r \in Requests, OpenFile(p, r)
    PROVE  TypeInv'
<1> DEFINE res == Resolve(disk, iso, r.path, ReadsOnly(r), Follow(r))
<1>1. res \in Results
  BY ResolvedIs, RequestIs
<1>2. \E pc \in OpenPlaces \ NeedsHandle : Call(p, pc, r, res) /\ (pc \in CopyPlaces => res.hits # {})
  BY DEF OpenFile, OpenResolved, AfterResolve, OpenPlaces, NeedsHandle, NeedsCopy, CopyPlaces
<1> HIDE DEF res
<1>3. PICK pc \in OpenPlaces \ NeedsHandle : Call(p, pc, r, res) /\ (pc \in CopyPlaces => res.hits # {})
  BY <1>2
<1>4. [pc |-> pc, req |-> r, res |-> res] \in InCall /\ r.call \in {"create", "open"}
  BY <1>1 DEF InCall, OpenFile
<1>5. ProcTypes
  BY DEF TypeInv, ProcTypes
<1>6. /\ ProcTypes'
      /\ proc'[p] = [pc |-> pc, req |-> r, res |-> res]
      /\ \A q \in Procs : q # p => proc'[q] = proc[q]
  BY <1>3, <1>4, <1>5, CallTyped
<1>7. disk' \in Disks /\ iso' = iso /\ handle' = handle /\ calls' \in [Procs -> 0..MaxCalls]
  BY CallCounted DEF OpenFile, TypeInv
<1>8. QED
  BY <1>6, <1>7, TypesTogether DEF TypeInv

LEMMA UnhideTyped == ASSUME TypeInv, NEW p \in Procs, Unhide(p) PROVE TypeInv'
<1>1. ProcTypes
  BY DEF TypeInv, ProcTypes
<1>2. Goto(p, "again") /\ Follows(proc[p].pc, "again")
  BY DEF Unhide, At, Follows, OpenPlaces
<1>3. disk' \in Disks
  <2>1. disk \in Disks /\ disk[Upper] \in Layer
    BY LayersAre DEF TypeInv, Disks
  <2>2. disk[Upper].whiteout \ {Res(p).path} \in SUBSET Paths
    BY <2>1 DEF Layer
  <2>3. disk' = [disk EXCEPT ![Upper].whiteout = disk[Upper].whiteout \ {Res(p).path}]
    BY <2>1, LayersAre DEF Unhide, Disks
  <2>4. QED
    BY <2>1, <2>2, <2>3, MarkersAre, LayersAre DEF OnlyIn
<1>4. /\ ProcTypes' /\ proc'[p] = [pc |-> "again", req |-> Req(p), res |-> Res(p)]
      /\ \A q \in Procs : q # p => proc'[q] = proc[q]
  BY <1>1, <1>2, GotoTyped DEF CopyPlaces
<1>5. QED
  BY <1>3, <1>4, StepTyped DEF Unhide, NeedsHandle

LEMMA ResolveAgainTyped == ASSUME TypeInv, NEW p \in Procs, ResolveAgain(p) PROVE TypeInv'
<1>1. ProcTypes
  BY DEF TypeInv, ProcTypes
<1>2. ~At(p, "idle") /\ proc[p].pc \in OpenPlaces
  BY DEF ResolveAgain, At, OpenPlaces
<1>3. /\ Req(p) \in Requests /\ Req(p).call \in {"create", "open"}
      /\ Res(p) \in Results /\ Res(p).path \in Paths
  BY <1>1, <1>2, InCallIs
<1>4. Resolve(disk, iso, Res(p).path, FALSE, Follow(Req(p))) \in Results
  BY <1>3, ResolvedIs
<1>5. PICK pc \in {"newdir", "folders"}, res \in Results : Call(p, pc, Req(p), res)
  BY <1>3, <1>4 DEF ResolveAgain
<1>6. pc \in OpenPlaces /\ pc \notin NeedsHandle \cup CopyPlaces
  BY DEF OpenPlaces, NeedsHandle, CopyPlaces
<1>7. [pc |-> pc, req |-> Req(p), res |-> res] \in InCall
  BY <1>3, <1>6 DEF InCall
<1>8. /\ ProcTypes' /\ proc'[p] = [pc |-> pc, req |-> Req(p), res |-> res]
      /\ \A q \in Procs : q # p => proc'[q] = proc[q]
  BY <1>1, <1>3, <1>5, <1>6, <1>7, CallTyped
<1>9. QED
  BY <1>6, <1>8, StepTyped DEF ResolveAgain, TypeInv

LEMMA MakeFolderAgainTyped == ASSUME TypeInv, NEW p \in Procs, MakeFolderAgain(p) PROVE TypeInv'
<1>1. ProcTypes
  BY DEF TypeInv, ProcTypes
<1>2. Goto(p, "opaque") /\ Follows(proc[p].pc, "opaque") /\ ~At(p, "idle")
  BY DEF MakeFolderAgain, At, Follows, OpenPlaces
<1>3. disk' \in Disks
  BY <1>1, <1>2, InCallIs, OpenedIs, LayersAre DEF MakeFolderAgain, TypeInv, OnlyIn
<1>4. /\ ProcTypes' /\ proc'[p] = [pc |-> "opaque", req |-> Req(p), res |-> Res(p)]
      /\ \A q \in Procs : q # p => proc'[q] = proc[q]
  BY <1>1, <1>2, GotoTyped DEF CopyPlaces
<1>5. QED
  BY <1>3, <1>4, StepTyped DEF MakeFolderAgain, NeedsHandle

LEMMA MakeOpaqueTyped == ASSUME TypeInv, NEW p \in Procs, MakeOpaque(p) PROVE TypeInv'
<1>1. ProcTypes
  BY DEF TypeInv, ProcTypes
<1>2. disk' \in Disks
  <2>1. disk \in Disks /\ disk[Upper] \in Layer /\ Upper \in Layers
    BY LayersAre DEF TypeInv, Disks
  <2>2. Res(p).path \in Paths
    BY <1>1, InCallIs DEF MakeOpaque, At
  <2>3. disk[Upper].opaque \cup {Res(p).path} \in SUBSET Paths
    BY <2>1, <2>2 DEF Layer
  <2>4. disk' = disk \/ disk' = [disk EXCEPT ![Upper].opaque = disk[Upper].opaque \cup {Res(p).path}]
    BY <2>1 DEF MakeOpaque, Disks
  <2>5. [disk EXCEPT ![Upper].opaque = disk[Upper].opaque \cup {Res(p).path}] \in Disks
    BY <2>1, <2>3, MarkersAre DEF OnlyIn
  <2>6. QED
    BY <2>1, <2>4, <2>5
<1>3. /\ ProcTypes' /\ proc'[p] = Idle
      /\ \A q \in Procs : q # p => proc'[q] = proc[q]
  BY <1>1, ReturnTyped DEF MakeOpaque
<1>4. QED
  BY <1>2, <1>3, StepTyped DEF MakeOpaque, Idle, NeedsHandle

LEMMA MakeFoldersTyped == ASSUME TypeInv, NEW p \in Procs, MakeFolders(p) PROVE TypeInv'
<1>1. ProcTypes
  BY DEF TypeInv, ProcTypes
<1>2. PICK pc \in {"copy", "open"} : Goto(p, pc) /\ (pc \in CopyPlaces => Res(p).hits # {})
  BY DEF MakeFolders, NeedsCopy, CopyPlaces
<1>3. Follows(proc[p].pc, pc) /\ ~At(p, "idle")
  BY DEF MakeFolders, At, Follows, OpenPlaces
<1>4. disk' \in Disks
  BY <1>1, <1>3, InCallIs, FoldersIs, LayersAre DEF MakeFolders, TypeInv, OnlyIn
<1>5. /\ ProcTypes' /\ proc'[p] = [pc |-> pc, req |-> Req(p), res |-> Res(p)]
      /\ \A q \in Procs : q # p => proc'[q] = proc[q]
  BY <1>1, <1>2, <1>3, GotoTyped
<1>6. QED
  BY <1>4, <1>5, StepTyped DEF MakeFolders, NeedsHandle

\* What is copied is an object of a layer.
LEMMA SourceIs ==
    ASSUME TypeInv, NEW p \in Procs, proc[p].pc \in CopyPlaces
    PROVE  NodeAt(disk, First(Res(p).hits), Res(p).path) \in Nodes
<1>1. Res(p).hits \in SUBSET Layers /\ Res(p).hits # {}
  BY InCallIs, PlacesApart DEF TypeInv, ProcTypes, At
<1>2. First(Res(p).hits) \in Layers
  BY <1>1, FirstIs
<1>3. QED
  BY <1>2, NodeIs DEF TypeInv

LEMMA CopyStartTyped == ASSUME TypeInv, NEW p \in Procs, CopyStart(p) PROVE TypeInv'
<1>1. ProcTypes
  BY DEF TypeInv, ProcTypes
<1>2. /\ ~At(p, "idle") /\ Follows(proc[p].pc, "fill") /\ Follows(proc[p].pc, "copied")
      /\ proc[p].pc \in CopyPlaces
  BY DEF CopyStart, At, Follows, OpenPlaces, CopyPlaces
<1>3. disk' \in Disks
  <2> DEFINE source == NodeAt(disk, First(Res(p).hits), Res(p).path)
             d      == Folders(disk, Upper, Res(p).path)
  <2>1. disk \in Disks /\ Upper \in Layers /\ Res(p).path \in Paths
    BY <1>1, <1>2, InCallIs, LayersAre DEF TypeInv
  <2>2. d \in Disks
    BY <2>1, FoldersIs DEF OnlyIn
  <2>3. source \in Nodes /\ File(Empty) \in Nodes
    BY <1>2, SourceIs, ResolveAssumption DEF Nodes
  <2>4. disk' \in {disk, d, Put(d, Upper, Res(p).path, File(Empty)), Put(d, Upper, Res(p).path, source)}
    BY DEF CopyStart
  <2> HIDE DEF source, d
  <2>5. Put(d, Upper, Res(p).path, File(Empty)) \in Disks /\ Put(d, Upper, Res(p).path, source) \in Disks
    BY <2>1, <2>2, <2>3, PutIs DEF OnlyIn
  <2>6. QED
    BY <2>1, <2>2, <2>4, <2>5
<1>4. handle' = handle /\ calls' = calls /\ iso' = iso
  BY DEF CopyStart
<1>5. Goto(p, "fill") \/ Goto(p, "copied") \/ Return(p)
  BY DEF CopyStart
<1>6. Res(p).hits # {}
  BY <1>1, <1>2 DEF ProcTypes
<1>7. /\ ProcTypes' /\ proc'[p].pc \in {"fill", "copied", "idle"}
      /\ \A q \in Procs : q # p => proc'[q] = proc[q]
  <2>1. CASE Goto(p, "fill")
    <3>1. /\ ProcTypes' /\ proc'[p] = [pc |-> "fill", req |-> Req(p), res |-> Res(p)]
          /\ \A q \in Procs : q # p => proc'[q] = proc[q]
      BY <1>1, <1>2, <1>6, <2>1, GotoTyped
    <3>2. QED
      BY <3>1
  <2>2. CASE Goto(p, "copied")
    <3>1. /\ ProcTypes' /\ proc'[p] = [pc |-> "copied", req |-> Req(p), res |-> Res(p)]
          /\ \A q \in Procs : q # p => proc'[q] = proc[q]
      BY <1>1, <1>2, <1>6, <2>2, GotoTyped
    <3>2. QED
      BY <3>1
  <2>3. CASE Return(p)
    BY <1>1, <2>3, ReturnTyped DEF Idle
  <2>4. QED
    BY <1>5, <2>1, <2>2, <2>3
<1>8. QED
  BY <1>3, <1>4, <1>7, StepTyped DEF NeedsHandle

LEMMA CopyFillTyped == ASSUME TypeInv, NEW p \in Procs, CopyFill(p) PROVE TypeInv'
<1>1. ProcTypes
  BY DEF TypeInv, ProcTypes
<1>2. /\ Goto(p, "copied") /\ Follows(proc[p].pc, "copied") /\ ~At(p, "idle")
      /\ proc[p].pc \in CopyPlaces
  BY DEF CopyFill, At, Follows, OpenPlaces, CopyPlaces
<1>3. disk' \in Disks
  <2> DEFINE source == NodeAt(disk, First(Res(p).hits), Res(p).path)
  <2>1. disk \in Disks /\ Upper \in Layers /\ Res(p).path \in Paths
    BY <1>1, <1>2, InCallIs, LayersAre DEF TypeInv
  <2>2. source \in Nodes
    BY <1>2, SourceIs
  <2>3. disk' \in {disk, Put(disk, Upper, Res(p).path, source)}
    BY DEF CopyFill
  <2> HIDE DEF source
  <2>4. Put(disk, Upper, Res(p).path, source) \in Disks
    BY <2>1, <2>2, PutIs DEF OnlyIn
  <2>5. QED
    BY <2>1, <2>3, <2>4
<1>4. /\ ProcTypes' /\ proc'[p] = [pc |-> "copied", req |-> Req(p), res |-> Res(p)]
      /\ \A q \in Procs : q # p => proc'[q] = proc[q]
  BY <1>1, <1>2, GotoTyped DEF CopyPlaces
<1>5. QED
  BY <1>3, <1>4, StepTyped DEF CopyFill, NeedsHandle

LEMMA CopyBreaksTyped == ASSUME TypeInv, NEW p \in Procs, CopyBreaks(p) PROVE TypeInv'
<1>1. ProcTypes
  BY DEF TypeInv, ProcTypes
<1>2. Goto(p, "copied") /\ Follows(proc[p].pc, "copied")
  BY DEF CopyBreaks, At, Follows, OpenPlaces
<1>3. /\ ProcTypes' /\ proc'[p] = [pc |-> "copied", req |-> Req(p), res |-> Res(p)]
      /\ \A q \in Procs : q # p => proc'[q] = proc[q]
  BY <1>1, <1>2, GotoTyped DEF CopyPlaces
<1>4. QED
  BY <1>3, StepTyped DEF CopyBreaks, NeedsHandle, TypeInv

LEMMA CopiedTyped == ASSUME TypeInv, NEW p \in Procs, Copied(p) PROVE TypeInv'
<1>1. ProcTypes
  BY DEF TypeInv, ProcTypes
<1>2. ~At(p, "idle") /\ proc[p].pc \in OpenPlaces /\ Follows(proc[p].pc, "open")
  BY DEF Copied, At, OpenPlaces, Follows
<1>3. Req(p) \in Requests /\ Req(p).call \in {"create", "open"} /\ Res(p) \in Results
  BY <1>1, <1>2, InCallIs
<1>4. [Res(p) EXCEPT !.inUpper = TRUE, !.hits = @ \cup {Upper}] \in Results
  BY <1>3, LayersAre DEF Results
<1>5. Goto(p, "open") => Call(p, "open", Req(p), Res(p))
  <2>1. proc[p] = [pc |-> proc[p].pc, req |-> Req(p), res |-> Res(p)]
    BY <1>1, <1>2, InCallIs
  <2>2. [proc[p] EXCEPT !.pc = "open"] = [pc |-> "open", req |-> Req(p), res |-> Res(p)]
    BY <2>1
  <2>3. QED
    BY <2>2 DEF Goto, Call
<1>6. PICK res \in Results : Call(p, "open", Req(p), res)
  BY <1>3, <1>4, <1>5 DEF Copied
<1>7. [pc |-> "open", req |-> Req(p), res |-> res] \in InCall /\ "open" \notin CopyPlaces \cup NeedsHandle
  BY <1>3 DEF InCall, OpenPlaces, CopyPlaces, NeedsHandle
<1>8. /\ ProcTypes' /\ proc'[p] = [pc |-> "open", req |-> Req(p), res |-> res]
      /\ \A q \in Procs : q # p => proc'[q] = proc[q]
  BY <1>1, <1>3, <1>6, <1>7, CallTyped
<1>9. QED
  BY <1>7, <1>8, StepTyped DEF Copied, TypeInv

\* The layer an open names is one of the layers.
LEMMA OpenLayerIs ==
    ASSUME NEW r, NEW res \in Results
    PROVE  OpenLayer(r, res) \in Layers
  BY LayersAre, FirstIs DEF OpenLayer, Results

LEMMA OpensTyped == ASSUME TypeInv, NEW p \in Procs, Opens(p) PROVE TypeInv'
<1> DEFINE r == Req(p)
           res == Res(p)
           i == OpenLayer(r, res)
           opened == Opened(disk, i, r, res.path)
           record == IF r.call = "open" THEN res ELSE NoRecord
           h == NewHandle(r, i, res.path, NodeAt(opened, i, res.path), record)
<1>1. ProcTypes
  BY DEF TypeInv, ProcTypes
<1>2. ~At(p, "idle") /\ proc[p].pc \in OpenPlaces /\ Follows(proc[p].pc, "record")
  BY DEF Opens, At, OpenPlaces, Follows
<1>3. r \in Requests /\ res \in Results /\ res.path \in Paths /\ r.edit \in BOOLEAN
  BY <1>1, <1>2, InCallIs, RequestIs
<1>4. i \in Layers /\ disk \in Disks
  BY <1>3, OpenLayerIs DEF TypeInv
<1>5. opened \in Disks
  BY <1>3, <1>4, OpenedIs DEF OnlyIn
<1>6. h \in OpenHandle
  <2>1. (NodeAt(opened, i, res.path) = Dir) \in BOOLEAN
    OBVIOUS
  <2>2. record \in {NoRecord} \cup Results
    BY <1>3
  <2> HIDE DEF r, res, i, opened, record
  <2>3. QED
    BY <1>3, <1>4, <2>1, <2>2 DEF NewHandle, OpenHandle
<1>7. /\ disk' \in {disk, opened} /\ iso' = iso /\ calls' = calls
      /\ \/ handle' = [handle EXCEPT ![p] = h] /\ (Goto(p, "record") \/ Return(p))
         \/ handle' = handle /\ Return(p)
  BY DEF Opens
<1> HIDE DEF r, res, i, opened, record, h
<1>8. /\ handle' \in [Procs -> {NoHandle} \cup OpenHandle]
      /\ \A q \in Procs : q # p => handle'[q] = handle[q]
      /\ (Goto(p, "record") /\ handle'[p] = h) \/ Return(p)
  BY <1>6, <1>7 DEF TypeInv
<1>9. h.open = TRUE
  BY <1>6 DEF OpenHandle
<1>10. CASE Goto(p, "record") /\ handle'[p] = h
  <2>1. /\ ProcTypes' /\ proc'[p] = [pc |-> "record", req |-> Req(p), res |-> Res(p)]
        /\ \A q \in Procs : q # p => proc'[q] = proc[q]
    BY <1>1, <1>2, <1>10, GotoTyped DEF CopyPlaces
  <2>2. QED
    BY <1>4, <1>5, <1>7, <1>8, <1>9, <1>10, <2>1, TypesTogether DEF TypeInv
<1>11. CASE Return(p)
  <2>1. /\ ProcTypes' /\ proc'[p] = Idle
        /\ \A q \in Procs : q # p => proc'[q] = proc[q]
    BY <1>1, <1>11, ReturnTyped
  <2>2. proc'[p].pc \notin NeedsHandle
    BY <2>1 DEF Idle, NeedsHandle
  <2>3. QED
    BY <1>4, <1>5, <1>7, <1>8, <2>1, <2>2, TypesTogether DEF TypeInv
<1>12. QED
  BY <1>7, <1>8, <1>10, <1>11

LEMMA RecordHandleTyped == ASSUME TypeInv, NEW p \in Procs, RecordHandle(p) PROVE TypeInv'
<1> DEFINE found == RecordOf(Resolve(disk, iso, Res(p).path, FALSE, Follow(Req(p))))
<1>1. ProcTypes
  BY DEF TypeInv, ProcTypes
<1>2. found \in {NoRecord} \cup Results
  <2>1. Res(p).path \in Paths
    BY <1>1, InCallIs DEF RecordHandle, At
  <2>2. QED
    BY <2>1, ResolvedIs DEF RecordOf
<1>3. handle[p].open
  BY DEF RecordHandle, At, TypeInv
<1>4. handle' = [handle EXCEPT ![p].record = found]
  BY DEF RecordHandle
<1> HIDE DEF found
<1>5. [handle[p] EXCEPT !.record = found] \in OpenHandle
  BY <1>2, <1>3, HandleIs DEF OpenHandle
<1>6. /\ handle' \in [Procs -> {NoHandle} \cup OpenHandle]
      /\ \A q \in Procs : handle'[q].open = handle[q].open
  BY <1>4, <1>5 DEF TypeInv, OpenHandle
<1>7. /\ ProcTypes' /\ proc'[p] = Idle
      /\ \A q \in Procs : q # p => proc'[q] = proc[q]
  BY <1>1, ReturnTyped DEF RecordHandle
<1>8. proc'[p].pc \notin NeedsHandle
  BY <1>7 DEF Idle, NeedsHandle
<1>9. QED
  BY <1>6, <1>7, <1>8, TypesTogether DEF RecordHandle, TypeInv

LEMMA WriteTyped == ASSUME TypeInv, NEW p \in Procs, NEW c \in Written, Write(p, c) PROVE TypeInv'
<1>1. handle[p].at[1] \in Layers /\ handle[p].at[2] \in Paths
  BY HandleIs DEF Write, Denotes
<1>2. File(c) \in Nodes
  BY FilesystemAssumption DEF Nodes
<1>3. disk' \in Disks
  BY <1>1, <1>2, PutIs DEF Write, TypeInv, OnlyIn
<1>4. ProcTypes'
  BY DEF TypeInv, ProcTypes, Write, Req, Res
<1>5. QED
  BY <1>3, <1>4, StepTyped DEF Write, At, NeedsHandle

LEMMA SetDeleteTyped == ASSUME TypeInv, NEW p \in Procs, SetDelete(p) PROVE TypeInv'
<1>1. [handle[p] EXCEPT !.pending = TRUE] \in OpenHandle
  BY HandleIs DEF SetDelete, Denotes, OpenHandle
<1>2. /\ handle' \in [Procs -> {NoHandle} \cup OpenHandle]
      /\ \A q \in Procs : handle'[q].open = handle[q].open
  BY <1>1, HandleIs DEF TypeInv, SetDelete, Denotes, OpenHandle
<1>3. ProcTypes'
  BY DEF TypeInv, ProcTypes, SetDelete, Req, Res
<1>4. QED
  BY <1>2, <1>3, TypesTogether DEF SetDelete, At, NeedsHandle, TypeInv

LEMMA CloseObjectIs ==
    ASSUME TypeInv, NEW p \in Procs, handle[p].open
    PROVE  OnlyIn(handle[p].at[1], disk, CloseObject(disk, handle[p]))
  BY HandleIs, DeleteOneIs DEF CloseObject, OnlyIn, TypeInv

LEMMA CloseTyped == ASSUME TypeInv, NEW p \in Procs, Close(p) PROVE TypeInv'
<1> DEFINE h == handle[p]
           r == [call |-> "close", path |-> h.path, disp |-> "open", edit |-> FALSE, dir |-> FALSE]
<1>1. ProcTypes
  BY DEF TypeInv, ProcTypes
<1>2. h.path \in Paths /\ h.record \in {NoRecord} \cup Results
  BY HandleIs DEF Close
<1>3. r \in Closes
  BY <1>2 DEF Closes
<1>4. disk' \in Disks
  BY CloseObjectIs DEF Close, OnlyIn
<1>5. /\ handle' \in [Procs -> {NoHandle} \cup OpenHandle]
      /\ \A q \in Procs : q # p => handle'[q] = handle[q]
  BY DEF Close, TypeInv
<1>6. (Call(p, "check", r, h.record) /\ h.record # NoRecord) \/ proc' = proc
  BY DEF Close
<1>7. /\ ProcTypes' /\ proc'[p].pc \in {"check", "idle"}
      /\ \A q \in Procs : q # p => proc'[q] = proc[q]
  <2>1. CASE Call(p, "check", r, h.record) /\ h.record # NoRecord
    <3> HIDE DEF h, r
    <3>1. [pc |-> "check", req |-> r, res |-> h.record] \in InCall
      BY <1>2, <1>3, <2>1 DEF InCall, DeletePlaces
    <3>2. /\ ProcTypes' /\ proc'[p] = [pc |-> "check", req |-> r, res |-> h.record]
          /\ \A q \in Procs : q # p => proc'[q] = proc[q]
      BY <1>1, <2>1, <3>1, CallTyped DEF OpenPlaces, CopyPlaces
    <3>3. QED
      BY <3>2
  <2>2. CASE proc' = proc
    BY <1>1, <2>2 DEF ProcTypes, Req, Res, Close, At
  <2>3. QED
    BY <1>6, <2>1, <2>2
<1>8. QED
  BY <1>4, <1>5, <1>7, TypesTogether DEF Close, NeedsHandle, TypeInv

LEMMA DeleteFileTyped ==
    ASSUME TypeInv, NEW p \in Procs, NEW r \in Requests, DeleteFile(p, r)
    PROVE  TypeInv'
<1> DEFINE res == Resolve(disk, iso, r.path, FALSE, "Parent")
<1>1. ProcTypes
  BY DEF TypeInv, ProcTypes
<1>2. res \in Results /\ Call(p, "check", r, res)
  BY ResolvedIs, RequestIs DEF DeleteFile
<1> HIDE DEF res
<1>3. [pc |-> "check", req |-> r, res |-> res] \in InCall
  BY <1>2 DEF InCall, DeletePlaces
<1>4. /\ ProcTypes' /\ proc'[p] = [pc |-> "check", req |-> r, res |-> res]
      /\ \A q \in Procs : q # p => proc'[q] = proc[q]
  BY <1>1, <1>2, <1>3, CallTyped DEF OpenPlaces, CopyPlaces
<1>5. disk' \in Disks /\ iso' = iso /\ handle' = handle /\ calls' \in [Procs -> 0..MaxCalls]
  BY CallCounted DEF DeleteFile, TypeInv
<1>6. QED
  BY <1>4, <1>5, TypesTogether DEF TypeInv, NeedsHandle

LEMMA DeleteChecksTyped == ASSUME TypeInv, NEW p \in Procs, DeleteChecks(p) PROVE TypeInv'
<1>1. ProcTypes
  BY DEF TypeInv, ProcTypes
<1>2. (\E pc \in {"host", "upper"} : Goto(p, pc)) \/ Return(p)
  BY DEF DeleteChecks
<1>3. /\ ProcTypes' /\ proc'[p].pc \in {"host", "upper", "idle"}
      /\ \A q \in Procs : q # p => proc'[q] = proc[q]
  <2>1. ASSUME NEW pc \in {"host", "upper"}, Goto(p, pc)
        PROVE  /\ ProcTypes' /\ proc'[p] = [pc |-> pc, req |-> Req(p), res |-> Res(p)]
               /\ \A q \in Procs : q # p => proc'[q] = proc[q]
    <3>1. Follows(proc[p].pc, pc) /\ pc \notin CopyPlaces
      BY DEF DeleteChecks, At, Follows, DeletePlaces, LastPlaces, CopyPlaces
    <3>2. QED
      BY <1>1, <2>1, <3>1, GotoTyped
  <2>2. CASE Return(p)
    BY <1>1, <2>2, ReturnTyped DEF Idle
  <2>3. QED
    BY <1>2, <2>1, <2>2
<1>4. QED
  BY <1>3, StepTyped DEF DeleteChecks, NeedsHandle, TypeInv

LEMMA DeleteInHostTyped == ASSUME TypeInv, NEW p \in Procs, DeleteInHost(p) PROVE TypeInv'
<1>1. ProcTypes
  BY DEF TypeInv, ProcTypes
<1>2. Goto(p, "upper") /\ Follows(proc[p].pc, "upper") /\ ~At(p, "idle")
  BY DEF DeleteInHost, At, Follows, DeletePlaces, LastPlaces
<1>3. disk' \in Disks
  BY <1>1, <1>2, InCallIs, DeleteEntryIs, LayersAre DEF DeleteInHost, TypeInv, OnlyIn
<1>4. /\ ProcTypes' /\ proc'[p] = [pc |-> "upper", req |-> Req(p), res |-> Res(p)]
      /\ \A q \in Procs : q # p => proc'[q] = proc[q]
  BY <1>1, <1>2, GotoTyped DEF CopyPlaces
<1>5. QED
  BY <1>3, <1>4, StepTyped DEF DeleteInHost, NeedsHandle

LEMMA DeleteInUpperTyped == ASSUME TypeInv, NEW p \in Procs, DeleteInUpper(p) PROVE TypeInv'
<1>1. ProcTypes
  BY DEF TypeInv, ProcTypes
<1>2. ~At(p, "idle") /\ Follows(proc[p].pc, "mark")
  BY DEF DeleteInUpper, At, Follows, LastPlaces
<1>3. Goto(p, "mark") \/ Return(p)
  BY DEF DeleteInUpper
<1>4. disk' \in {disk, DeleteOne(disk, Upper, Res(p).path), DeleteEntry(disk, Upper, Res(p))}
  BY DEF DeleteInUpper
<1>5. disk' \in Disks
  BY <1>1, <1>2, <1>4, InCallIs, DeleteOneIs, DeleteEntryIs, LayersAre DEF TypeInv, OnlyIn
<1>6. CASE Goto(p, "mark")
  <2>1. /\ ProcTypes' /\ proc'[p] = [pc |-> "mark", req |-> Req(p), res |-> Res(p)]
        /\ \A q \in Procs : q # p => proc'[q] = proc[q]
    BY <1>1, <1>2, <1>6, GotoTyped DEF CopyPlaces
  <2>2. QED
    BY <1>5, <2>1, StepTyped DEF DeleteInUpper, NeedsHandle
<1>7. CASE Return(p)
  <2>1. /\ ProcTypes' /\ proc'[p] = Idle
        /\ \A q \in Procs : q # p => proc'[q] = proc[q]
    BY <1>1, <1>7, ReturnTyped
  <2>2. QED
    BY <1>5, <2>1, StepTyped DEF DeleteInUpper, NeedsHandle, Idle
<1>8. QED
  BY <1>3, <1>6, <1>7

LEMMA MarkDeletedTyped == ASSUME TypeInv, NEW p \in Procs, MarkDeleted(p) PROVE TypeInv'
<1> DEFINE q == Res(p).path
           d == Folders(disk, Upper, q)
<1>1. ProcTypes
  BY DEF TypeInv, ProcTypes
<1>2. q \in Paths /\ Upper \in Layers /\ disk \in Disks
  BY <1>1, InCallIs, LayersAre DEF MarkDeleted, At, TypeInv
<1>3. d \in Disks
  BY <1>2, FoldersIs DEF OnlyIn
<1>4. disk' = d \/ disk' = [d EXCEPT ![Upper].whiteout = @ \cup {q}]
  BY DEF MarkDeleted
<1> HIDE DEF q, d
<1>5. disk' \in Disks
  <2>1. d[Upper].whiteout \cup {q} \in SUBSET Paths
    BY <1>2, <1>3 DEF Disks, Layer
  <2>2. [d EXCEPT ![Upper].whiteout = d[Upper].whiteout \cup {q}] \in Disks
    BY <1>2, <1>3, <2>1, MarkersAre DEF OnlyIn
  <2>3. [d EXCEPT ![Upper].whiteout = @ \cup {q}] = [d EXCEPT ![Upper].whiteout = d[Upper].whiteout \cup {q}]
    BY <1>2, <1>3 DEF Disks
  <2>4. QED
    BY <1>3, <1>4, <2>2, <2>3
<1>6. /\ ProcTypes' /\ proc'[p] = Idle
      /\ \A x \in Procs : x # p => proc'[x] = proc[x]
  BY <1>1, ReturnTyped DEF MarkDeleted
<1>7. QED
  BY <1>5, <1>6, StepTyped DEF MarkDeleted, NeedsHandle, Idle

LEMMA RenameTyped ==
    ASSUME TypeInv, NEW p \in Procs, NEW r \in Requests, Rename(p, r)
    PROVE  TypeInv'
<1> DEFINE res == Resolve(disk, iso, r.path, FALSE, "Parent")
           s == [call |-> "rename", path |-> r.path, disp |-> r.disp, edit |-> r.edit, dir |-> r.dir,
                 source |-> ViewPathOfHandle(handle[p])]
<1>1. ProcTypes
  BY DEF TypeInv, ProcTypes
<1>2. res \in Results
  BY ResolvedIs, RequestIs
<1>3. s \in Renamings
  BY RequestIs, HandleIs DEF Rename, Denotes, ViewPathOfHandle, Renamings
<1>4. \E pc \in {"unmark", "move"} : Call(p, pc, s, res)
  BY DEF Rename, RenameResolved
<1>5. handle[p].open /\ iso' = iso /\ disk' = disk /\ handle' = handle
  BY DEF Rename, Denotes
<1> HIDE DEF res, s
<1>6. PICK pc \in {"unmark", "move"} : Call(p, pc, s, res)
  BY <1>4
<1>7. [pc |-> pc, req |-> s, res |-> res] \in InCall /\ pc \notin OpenPlaces \cup CopyPlaces
  BY <1>2, <1>3 DEF InCall, MovePlaces, OpenPlaces, CopyPlaces
<1>8. /\ ProcTypes' /\ proc'[p] = [pc |-> pc, req |-> s, res |-> res]
      /\ \A q \in Procs : q # p => proc'[q] = proc[q]
  BY <1>1, <1>6, <1>7, CallTyped
<1>9. calls' \in [Procs -> 0..MaxCalls]
  BY CallCounted DEF Rename
<1>10. QED
  BY <1>5, <1>8, <1>9, TypesTogether DEF TypeInv

LEMMA RenameUnhidesTyped == ASSUME TypeInv, NEW p \in Procs, RenameUnhides(p) PROVE TypeInv'
<1>1. ProcTypes
  BY DEF TypeInv, ProcTypes
<1>2. Goto(p, "move") /\ Follows(proc[p].pc, "move")
  BY DEF RenameUnhides, At, Follows, MovePlaces
<1>3. disk' \in Disks
  <2>1. disk \in Disks /\ disk[Upper] \in Layer
    BY LayersAre DEF TypeInv, Disks
  <2>2. disk[Upper].whiteout \ {Res(p).path} \in SUBSET Paths
    BY <2>1 DEF Layer
  <2>3. disk' = [disk EXCEPT ![Upper].whiteout = disk[Upper].whiteout \ {Res(p).path}]
    BY <2>1, LayersAre DEF RenameUnhides, Disks
  <2>4. QED
    BY <2>1, <2>2, <2>3, MarkersAre, LayersAre DEF OnlyIn
<1>4. /\ ProcTypes' /\ proc'[p] = [pc |-> "move", req |-> Req(p), res |-> Res(p)]
      /\ \A q \in Procs : q # p => proc'[q] = proc[q]
  BY <1>1, <1>2, GotoTyped DEF CopyPlaces
<1>5. handle[p].open
  BY DEF RenameUnhides, At, TypeInv
<1>6. QED
  BY <1>3, <1>4, <1>5, StepTyped DEF RenameUnhides

\* A move takes every handle of the object to its new place.
LEMMA MovedHandles ==
    ASSUME TypeInv, NEW p \in Procs, NEW at \in Layers \X Paths,
           handle' = [q \in Procs |-> IF handle[q].open /\ handle[q].at = handle[p].at
                                      THEN [handle[q] EXCEPT !.at = at] ELSE handle[q]]
    PROVE  /\ handle' \in [Procs -> {NoHandle} \cup OpenHandle]
           /\ \A q \in Procs :
                 /\ handle'[q].open = handle[q].open
                 /\ handle[q].open => /\ handle'[q].edit = handle[q].edit
                                      /\ handle'[q].pending = handle[q].pending
                                      /\ handle'[q].record = handle[q].record
                                      /\ handle'[q].dir = handle[q].dir
                                      /\ handle'[q].at \in {handle[q].at, at}
<1>1. \A q \in Procs : handle[q].open => [handle[q] EXCEPT !.at = at] \in OpenHandle
  BY HandleIs DEF OpenHandle
<1>2. \A q \in Procs : handle[q].open => handle[q] \in OpenHandle
  BY HandleIs
<1>3. QED
  BY <1>1, <1>2 DEF TypeInv, OpenHandle

LEMMA RenameMovesTyped == ASSUME TypeInv, NEW p \in Procs, RenameMoves(p) PROVE TypeInv'
<1> DEFINE to == Res(p).path
           j == IF ToHost(Res(p)) THEN Host ELSE Upper
           d == Folders(disk, j, to)
<1>1. ProcTypes
  BY DEF TypeInv, ProcTypes
<1>2. /\ ~At(p, "idle") /\ Follows(proc[p].pc, "hide")
      /\ handle[p].open /\ handle[p].at[1] \in Layers /\ handle[p].at[2] \in Paths
  BY HandleIs DEF RenameMoves, At, Follows, MovePlaces, TypeInv
<1>3. to \in Paths /\ j \in Layers /\ disk \in Disks
  BY <1>1, <1>2, InCallIs, LayersAre DEF TypeInv
<1>4. d \in Disks
  BY <1>3, FoldersIs DEF OnlyIn
<1>5. \/ /\ disk' = Moved(d, handle[p].at[1], handle[p].at[2], j, to) /\ Goto(p, "hide")
         /\ handle' = [q \in Procs |-> IF handle[q].open /\ handle[q].at = handle[p].at
                                       THEN [handle[q] EXCEPT !.at = <<j, to>>] ELSE handle[q]]
      \/ disk' = d /\ Return(p) /\ handle' = handle
  BY DEF RenameMoves
<1>6. iso' = iso /\ calls' = calls
  BY DEF RenameMoves
<1> HIDE DEF to, j, d
<1>7. CASE disk' = d /\ Return(p) /\ handle' = handle
  <2>1. /\ ProcTypes' /\ proc'[p] = Idle
        /\ \A q \in Procs : q # p => proc'[q] = proc[q]
    BY <1>1, <1>7, ReturnTyped
  <2>2. QED
    BY <1>4, <1>6, <1>7, <2>1, StepTyped DEF NeedsHandle, Idle
<1>8. CASE /\ disk' = Moved(d, handle[p].at[1], handle[p].at[2], j, to) /\ Goto(p, "hide")
           /\ handle' = [q \in Procs |-> IF handle[q].open /\ handle[q].at = handle[p].at
                                         THEN [handle[q] EXCEPT !.at = <<j, to>>] ELSE handle[q]]
  <2>1. disk' \in Disks
    BY <1>2, <1>3, <1>4, <1>8, MovedLayers
  <2>2. <<j, to>> \in Layers \X Paths
    BY <1>3
  <2>3. /\ handle' \in [Procs -> {NoHandle} \cup OpenHandle]
        /\ \A q \in Procs : handle'[q].open = handle[q].open
    BY <1>8, <2>2, MovedHandles
  <2>4. /\ ProcTypes' /\ proc'[p] = [pc |-> "hide", req |-> Req(p), res |-> Res(p)]
        /\ \A q \in Procs : q # p => proc'[q] = proc[q]
    BY <1>1, <1>2, <1>8, GotoTyped DEF CopyPlaces
  <2>5. proc'[p].pc \in NeedsHandle => handle'[p].open
    BY <1>2, <2>3, <2>4 DEF NeedsHandle
  <2>6. \A q \in Procs : q # p => proc'[q] = proc[q] /\ handle'[q].open = handle[q].open
    BY <2>3, <2>4
  <2>7. ProcTypes' /\ iso' = iso /\ handle' \in [Procs -> {NoHandle} \cup OpenHandle]
    BY <1>6, <2>3, <2>4
  <2>8. calls' \in [Procs -> 0..MaxCalls]
    BY <1>6 DEF TypeInv
  <2>9. QED
    BY <2>1, <2>5, <2>6, <2>7, <2>8, TypesTogether
<1>9. QED
  BY <1>5, <1>7, <1>8

LEMMA HideSourceTyped == ASSUME TypeInv, NEW p \in Procs, HideSource(p) PROVE TypeInv'
<1> DEFINE res == Resolve(disk, iso, Req(p).source, FALSE, "Parent")
<1>1. ProcTypes
  BY DEF TypeInv, ProcTypes
<1>2. ~At(p, "idle") /\ proc[p].pc \in MovePlaces
  BY DEF HideSource, At, MovePlaces
<1>3. Req(p) \in Renamings
  BY <1>1, <1>2, InCallIs
<1>4. res \in Results
  BY <1>3, ResolvedIs DEF Renamings
<1>5. Call(p, "upper", Req(p), res) \/ Return(p)
  BY DEF HideSource
<1> HIDE DEF res
<1>6. CASE Return(p)
  <2>1. /\ ProcTypes' /\ proc'[p] = Idle
        /\ \A q \in Procs : q # p => proc'[q] = proc[q]
    BY <1>1, <1>6, ReturnTyped
  <2>2. QED
    BY <2>1, StepTyped DEF HideSource, NeedsHandle, Idle, TypeInv
<1>7. CASE Call(p, "upper", Req(p), res)
  <2>1. [pc |-> "upper", req |-> Req(p), res |-> res] \in InCall
    BY <1>3, <1>4 DEF InCall, LastPlaces
  <2>2. /\ ProcTypes' /\ proc'[p] = [pc |-> "upper", req |-> Req(p), res |-> res]
        /\ \A q \in Procs : q # p => proc'[q] = proc[q]
    BY <1>1, <1>7, <2>1, CallTyped DEF OpenPlaces, CopyPlaces
  <2>3. QED
    BY <2>2, StepTyped DEF HideSource, NeedsHandle, TypeInv
<1>8. QED
  BY <1>5, <1>6, <1>7

LEMMA KilledTyped == ASSUME TypeInv, NEW p \in Procs, Killed(p) PROVE TypeInv'
<1>1. ProcTypes
  BY DEF TypeInv, ProcTypes
<1>2. disk' \in Disks
  BY CloseObjectIs DEF Killed, TypeInv, OnlyIn
<1>3. /\ handle' \in [Procs -> {NoHandle} \cup OpenHandle]
      /\ \A q \in Procs : q # p => handle'[q] = handle[q]
      /\ calls' \in [Procs -> 0..MaxCalls] /\ iso' = iso
  BY FilesystemAssumption DEF Killed, TypeInv
<1>4. /\ ProcTypes' /\ proc'[p] = Idle
      /\ \A q \in Procs : q # p => proc'[q] = proc[q]
  BY <1>1, ReturnTyped DEF Killed
<1>5. QED
  BY <1>2, <1>3, <1>4, TypesTogether DEF NeedsHandle, Idle

LEMMA NextTypeInv == ASSUME TypeInv, [Next]_vars PROVE TypeInv'
<1>1. CASE UNCHANGED vars
  BY <1>1 DEF vars, TypeInv, TableFits, Req, Res
<1>2. CASE Next
  <2>1. PICK p \in Procs : Begins(p) \/ Goes(p) \/ Uses(p) \/ Killed(p)
    BY <1>2 DEF Next
  <2>2. CASE Begins(p)
    BY <2>2, OpenFileTyped, DeleteFileTyped, RenameTyped DEF Begins
  <2>3. CASE Goes(p)
    BY <2>3, UnhideTyped, ResolveAgainTyped, MakeFolderAgainTyped, MakeOpaqueTyped, MakeFoldersTyped,
       CopyStartTyped, CopyFillTyped, CopyBreaksTyped, CopiedTyped, OpensTyped, RecordHandleTyped,
       DeleteChecksTyped, DeleteInHostTyped, DeleteInUpperTyped, MarkDeletedTyped,
       RenameUnhidesTyped, RenameMovesTyped, HideSourceTyped DEF Goes
  <2>4. CASE Uses(p)
    BY <2>4, WriteTyped, SetDeleteTyped, CloseTyped DEF Uses
  <2>5. CASE Killed(p)
    BY <2>5, KilledTyped
  <2>6. QED
    BY <2>1, <2>2, <2>3, <2>4, <2>5
<1>3. QED
  BY <1>1, <1>2

\* Every object and every marker of a layer is a path of the view, whatever the
\* calls did (sandbox/filesystem).
THEOREM FilesystemTypes == Spec => []TypeOK
<1>1. Init => TypeInv
  BY InitTypeInv
<1>2. TypeInv /\ [Next]_vars => TypeInv'
  BY NextTypeInv
<1>3. TypeInv => TypeOK
  <2> SUFFICES ASSUME TypeInv PROVE TypeOK
    OBVIOUS
  <2>1. ProcTypes
    BY DEF TypeInv, ProcTypes
  <2>2. \A p \in Procs : ~At(p, "idle") => Res(p).path \in Paths /\ Res(p).hits \subseteq Layers
    BY <2>1, InCallIs
  <2>3. \A p \in Procs : handle[p].open => handle[p].at \in Layers \X Paths
    BY HandleIs DEF OpenHandle
  <2>4. QED
    BY <2>2, <2>3 DEF TypeInv, TypeOK, TableFits
<1>4. QED
  BY <1>1, <1>2, <1>3, PTL DEF Spec

-----------------------------------------------------------------------------
(* The packed layers are never written.                                    *)

PackedKept == \A i \in 1..Lower : disk'[i] = disk[i]

LEMMA PackedApart ==
    ASSUME NEW i \in Layers, i = Upper \/ i = Host, NEW d, NEW e, OnlyIn(i, d, e)
    PROVE  \A j \in 1..Lower : e[j] = d[j]
  BY LayersAre DEF OnlyIn

\* A call which resolves begins with what is there.
LEMMA FoundFits ==
    ASSUME TypeInv, NEW q \in Paths, NEW stopFirst, NEW follow
    PROVE  /\ ModeFits(Resolve(disk, iso, q, stopFirst, follow))
           /\ PackedHold(Resolve(disk, iso, q, stopFirst, follow))
  BY ResolvedIs DEF Found, ModeFits, PackedHold

\* What one process does leaves the calls of the others as they were.
LEMMA OthersFit ==
    ASSUME WriteInv, NEW p \in Procs, iso' = iso, PackedKept,
           \A q \in Procs : q # p => proc'[q] = proc[q] /\ handle'[q] = handle[q]
    PROVE  \A q \in Procs : q # p => HandleFits(q)' /\ CallFits(q)'
<1> SUFFICES ASSUME NEW q \in Procs, q # p PROVE HandleFits(q)' /\ CallFits(q)'
  OBVIOUS
<1>1. proc'[q] = proc[q] /\ handle'[q] = handle[q] /\ HandleFits(q) /\ CallFits(q)
  BY DEF WriteInv
<1>2. HandleFits(q)'
  BY <1>1 DEF HandleFits, ModeFits, MayWrite, MayWriteHost
<1>3. CallFits(q)'
  BY <1>1 DEF CallFits, ModeFits, PackedHold, PackedKept, At, Req, Res
<1>4. QED
  BY <1>2, <1>3

\* A step of a process which leaves its handle alone and goes on with the same result.
LEMMA GoesOn ==
    ASSUME WriteInv, TypeInv', NEW p \in Procs, NEW pc, iso' = iso, PackedKept, handle' = handle,
           Goto(p, pc), Follows(proc[p].pc, pc),
           pc = "open" /\ Req(p).call = "open" => ~NeedsCopy(Req(p), Res(p)),
           pc = "host" => ToHost(Res(p)),
           pc \in {"unmark", "move"} => handle[p].edit
    PROVE  WriteInv'
<1>1. ProcTypes
  BY DEF WriteInv, TypeInv, ProcTypes
<1>2. proc' = [proc EXCEPT ![p] = [pc |-> pc, req |-> Req(p), res |-> Res(p)]] /\ ~At(p, "idle")
  <2>1. ~At(p, "idle")
    BY PlacesApart DEF Follows, At
  <2>2. proc[p] = [pc |-> proc[p].pc, req |-> Req(p), res |-> Res(p)]
    BY <1>1, <2>1, InCallIs
  <2>3. [proc[p] EXCEPT !.pc = pc] = [pc |-> pc, req |-> Req(p), res |-> Res(p)]
    BY <2>2
  <2>4. QED
    BY <2>1, <2>3 DEF Goto
<1>3. /\ proc'[p] = [pc |-> pc, req |-> Req(p), res |-> Res(p)]
      /\ \A q \in Procs : q # p => proc'[q] = proc[q]
  BY <1>1, <1>2 DEF ProcTypes
<1>4. \A q \in Procs : q # p => HandleFits(q)' /\ CallFits(q)'
  BY <1>3, OthersFit
<1>5. HandleFits(p)'
  BY DEF WriteInv, HandleFits, ModeFits, MayWrite, MayWriteHost
<1>6. CallFits(p)'
  <2>1. Req(p)' = Req(p) /\ Res(p)' = Res(p) /\ proc'[p].pc = pc
    BY <1>3 DEF Req, Res
  <2>2. ModeFits(Res(p))'
    BY <1>2, <2>1 DEF WriteInv, CallFits, ModeFits
  <2>3. pc \in OpenPlaces => PackedHold(Res(p))'
    BY <1>2, <2>1, PlacesApart DEF WriteInv, CallFits, PackedHold, PackedKept, Follows
  <2>4. NeedsCopy(Req(p), Res(p))' <=> NeedsCopy(Req(p), Res(p))
    BY <2>1 DEF NeedsCopy, Modifies, WantCreate, ToHost, WritesToHost, Exists
  <2>5. ToHost(Res(p))' <=> ToHost(Res(p))
    BY <2>1 DEF ToHost, WritesToHost
  <2>6. QED
    BY <2>1, <2>2, <2>3, <2>4, <2>5 DEF CallFits, At
<1>7. QED
  BY <1>4, <1>5, <1>6 DEF WriteInv

\* A step of a process which ends its call.
LEMMA Ends ==
    ASSUME WriteInv, TypeInv', NEW p \in Procs, iso' = iso, PackedKept, Return(p),
           \A q \in Procs : q # p => handle'[q] = handle[q],
           HandleFits(p)'
    PROVE  WriteInv'
<1>1. ProcTypes
  BY DEF WriteInv, TypeInv, ProcTypes
<1>2. proc'[p] = Idle /\ \A q \in Procs : q # p => proc'[q] = proc[q]
  BY <1>1, ReturnTyped
<1>3. \A q \in Procs : q # p => HandleFits(q)' /\ CallFits(q)'
  BY <1>2, OthersFit
<1>4. CallFits(p)'
  BY <1>2 DEF CallFits, At, Idle
<1>5. QED
  BY <1>3, <1>4 DEF WriteInv

LEMMA HandleStays ==
    ASSUME WriteInv, NEW p \in Procs, iso' = iso, handle'[p] = handle[p]
    PROVE  HandleFits(p)'
  BY DEF WriteInv, HandleFits, ModeFits, MayWrite, MayWriteHost

\* A step of a process which goes on with another result.
LEMMA Begun ==
    ASSUME WriteInv, TypeInv', NEW p \in Procs, NEW pc, NEW r, NEW res, iso' = iso, PackedKept,
           Call(p, pc, r, res), ModeFits(res), pc \in OpenPlaces => PackedHold(res),
           \A q \in Procs : q # p => handle'[q] = handle[q],
           HandleFits(p)',
           pc = "open" /\ r.call = "open" => ~NeedsCopy(r, res),
           pc = "host" => ToHost(res),
           pc \in {"unmark", "move"} => handle'[p].edit
    PROVE  WriteInv'
<1>1. /\ proc'[p] = [pc |-> pc, req |-> r, res |-> res]
      /\ \A q \in Procs : q # p => proc'[q] = proc[q]
  BY DEF WriteInv, TypeInv, Call
<1>2. \A q \in Procs : q # p => HandleFits(q)' /\ CallFits(q)'
  BY <1>1, OthersFit
<1>3. Req(p)' = r /\ Res(p)' = res /\ proc'[p].pc = pc
  BY <1>1 DEF Req, Res
<1>4. CallFits(p)'
  <2>1. ModeFits(Res(p))' /\ (pc \in OpenPlaces => PackedHold(Res(p))')
    BY <1>3 DEF ModeFits, PackedHold, PackedKept
  <2>2. NeedsCopy(Req(p), Res(p))' <=> NeedsCopy(r, res)
    BY <1>3 DEF NeedsCopy, Modifies, WantCreate, ToHost, WritesToHost, Exists
  <2>3. ToHost(Res(p))' <=> ToHost(res)
    BY <1>3 DEF ToHost, WritesToHost
  <2>4. QED
    BY <1>3, <2>1, <2>2, <2>3 DEF CallFits, At
<1>5. QED
  BY <1>2, <1>4 DEF WriteInv

LEMMA OpenFileWrites ==
    ASSUME WriteInv, TypeInv', NEW p \in Procs, NEW r \in Requests, OpenFile(p, r)
    PROVE  PackedKept /\ WriteInv'
<1> DEFINE res == Resolve(disk, iso, r.path, ReadsOnly(r), Follow(r))
<1>1. ModeFits(res) /\ PackedHold(res)
  BY RequestIs, FoundFits DEF WriteInv
<1>2. \E pc \in {"unhide", "folders", "copy", "open"} :
         Call(p, pc, r, res) /\ (pc = "open" /\ r.call = "open" => ~NeedsCopy(r, res))
  BY DEF OpenFile, OpenResolved, AfterResolve
<1>3. iso' = iso /\ handle' = handle /\ PackedKept
  BY DEF OpenFile, PackedKept
<1> HIDE DEF res
<1>4. PICK pc \in {"unhide", "folders", "copy", "open"} :
         Call(p, pc, r, res) /\ (pc = "open" /\ r.call = "open" => ~NeedsCopy(r, res))
  BY <1>2
<1>5. HandleFits(p)'
  BY <1>3, HandleStays
<1>6. WriteInv'
  BY <1>1, <1>3, <1>4, <1>5, Begun
<1>7. QED
  BY <1>3, <1>6

LEMMA UnhideWrites == ASSUME WriteInv, TypeInv', NEW p \in Procs, Unhide(p) PROVE PackedKept /\ WriteInv'
<1>1. PackedKept
  BY LayersAre DEF Unhide, PackedKept, WriteInv, TypeInv, Disks
<1>2. Goto(p, "again") /\ Follows(proc[p].pc, "again") /\ iso' = iso /\ handle' = handle
  BY DEF Unhide, At, Follows, OpenPlaces
<1>3. QED
  BY <1>1, <1>2, GoesOn

LEMMA ResolveAgainWrites == ASSUME WriteInv, TypeInv', NEW p \in Procs, ResolveAgain(p) PROVE PackedKept /\ WriteInv'
<1> DEFINE again == Resolve(disk, iso, Res(p).path, FALSE, Follow(Req(p)))
<1>1. ~At(p, "idle") /\ proc[p].pc \in OpenPlaces /\ ProcTypes
  BY DEF ResolveAgain, At, OpenPlaces, WriteInv, TypeInv, ProcTypes
<1>2. Res(p).path \in Paths
  BY <1>1, InCallIs
<1>3. ModeFits(again) /\ PackedHold(again) /\ ModeFits(Res(p)) /\ PackedHold(Res(p))
  BY <1>1, <1>2, FoundFits DEF WriteInv, CallFits
<1>4. iso' = iso /\ handle' = handle /\ PackedKept
  BY DEF ResolveAgain, PackedKept
<1>5. \E pc \in {"newdir", "folders"} : Call(p, pc, Req(p), Res(p)) \/ Call(p, pc, Req(p), again)
  BY DEF ResolveAgain
<1> HIDE DEF again
<1>6. PICK pc \in {"newdir", "folders"}, res \in {Res(p), again} : Call(p, pc, Req(p), res)
  BY <1>5
<1>7. ModeFits(res) /\ PackedHold(res) /\ HandleFits(p)'
  BY <1>3, <1>4, HandleStays
<1>8. WriteInv'
  BY <1>4, <1>6, <1>7, Begun
<1>9. QED
  BY <1>4, <1>8

LEMMA MakeFolderAgainWrites ==
    ASSUME WriteInv, TypeInv', NEW p \in Procs, MakeFolderAgain(p) PROVE PackedKept /\ WriteInv'
<1>1. ProcTypes /\ disk \in Disks
  BY DEF WriteInv, TypeInv, ProcTypes
<1>2. /\ Goto(p, "opaque") /\ Follows(proc[p].pc, "opaque") /\ iso' = iso /\ handle' = handle
      /\ ~At(p, "idle")
  BY DEF MakeFolderAgain, At, Follows, OpenPlaces
<1>3. OnlyIn(Upper, disk, Opened(disk, Upper, Req(p), Res(p).path))
  BY <1>1, <1>2, InCallIs, OpenedIs, LayersAre
<1>4. PackedKept
  BY <1>3, PackedApart, LayersAre DEF MakeFolderAgain, PackedKept
<1>5. QED
  BY <1>2, <1>4, GoesOn

LEMMA MakeOpaqueWrites ==
    ASSUME WriteInv, TypeInv', NEW p \in Procs, MakeOpaque(p) PROVE PackedKept /\ WriteInv'
<1>1. PackedKept
  BY LayersAre DEF MakeOpaque, PackedKept, WriteInv, TypeInv, Disks
<1>2. Return(p) /\ iso' = iso /\ handle' = handle
  BY DEF MakeOpaque
<1>3. QED
  BY <1>1, <1>2, HandleStays, Ends

LEMMA MakeFoldersWrites ==
    ASSUME WriteInv, TypeInv', NEW p \in Procs, MakeFolders(p) PROVE PackedKept /\ WriteInv'
<1>1. ProcTypes /\ disk \in Disks
  BY DEF WriteInv, TypeInv, ProcTypes
<1>2. PICK pc \in {"copy", "open"} : Goto(p, pc) /\ (pc = "open" => ~NeedsCopy(Req(p), Res(p)))
  BY DEF MakeFolders
<1>3. Follows(proc[p].pc, pc) /\ iso' = iso /\ handle' = handle /\ ~At(p, "idle")
  BY DEF MakeFolders, At, Follows, OpenPlaces
<1>4. PICK i \in {Upper, Host} : disk' = Folders(disk, i, Res(p).path)
  BY DEF MakeFolders
<1>5. OnlyIn(i, disk, Folders(disk, i, Res(p).path))
  <2>1. i \in Layers /\ Res(p).path \in Paths
    BY <1>1, <1>3, InCallIs, LayersAre
  <2>2. QED
    BY <1>1, <2>1, FoldersIs
<1>6. PackedKept
  BY <1>4, <1>5, PackedApart, LayersAre DEF PackedKept
<1>7. QED
  BY <1>2, <1>3, <1>6, GoesOn

LEMMA CopyStartWrites ==
    ASSUME WriteInv, TypeInv', NEW p \in Procs, CopyStart(p) PROVE PackedKept /\ WriteInv'
<1> DEFINE source == NodeAt(disk, First(Res(p).hits), Res(p).path)
           d      == Folders(disk, Upper, Res(p).path)
<1>1. ProcTypes /\ disk \in Disks
  BY DEF WriteInv, TypeInv, ProcTypes
<1>2. /\ ~At(p, "idle") /\ Follows(proc[p].pc, "fill") /\ Follows(proc[p].pc, "copied")
      /\ proc[p].pc \in CopyPlaces /\ iso' = iso /\ handle' = handle
      /\ (Goto(p, "fill") \/ Goto(p, "copied") \/ Return(p))
  BY DEF CopyStart, At, Follows, OpenPlaces, CopyPlaces
<1>3. /\ OnlyIn(Upper, disk, d) /\ OnlyIn(Upper, d, Put(d, Upper, Res(p).path, File(Empty)))
      /\ OnlyIn(Upper, d, Put(d, Upper, Res(p).path, source))
  <2>1. source \in Nodes /\ File(Empty) \in Nodes
    BY <1>2, SourceIs, ResolveAssumption DEF Nodes, WriteInv
  <2>2. Res(p).path \in Paths /\ Upper \in Layers
    BY <1>1, <1>2, InCallIs, LayersAre
  <2>3. OnlyIn(Upper, disk, d)
    BY <1>1, <2>2, FoldersIs
  <2>4. d \in Disks
    BY <2>3 DEF OnlyIn
  <2> HIDE DEF source, d
  <2>5. QED
    BY <2>1, <2>2, <2>3, <2>4, PutIs
<1>4. disk' \in {disk, d, Put(d, Upper, Res(p).path, File(Empty)), Put(d, Upper, Res(p).path, source)}
  BY DEF CopyStart
<1> HIDE DEF source, d
<1>5. PackedKept
  BY <1>3, <1>4, PackedApart, LayersAre DEF PackedKept
<1>6. CASE Return(p)
  BY <1>2, <1>5, <1>6, HandleStays, Ends
<1>7. CASE Goto(p, "fill")
  BY <1>2, <1>5, <1>7, GoesOn
<1>8. CASE Goto(p, "copied")
  BY <1>2, <1>5, <1>8, GoesOn
<1>9. QED
  BY <1>2, <1>5, <1>6, <1>7, <1>8

LEMMA CopyFillWrites ==
    ASSUME WriteInv, TypeInv', NEW p \in Procs, CopyFill(p) PROVE PackedKept /\ WriteInv'
<1> DEFINE source == NodeAt(disk, First(Res(p).hits), Res(p).path)
<1>1. ProcTypes /\ disk \in Disks
  BY DEF WriteInv, TypeInv, ProcTypes
<1>2. /\ ~At(p, "idle") /\ Follows(proc[p].pc, "copied") /\ Goto(p, "copied")
      /\ proc[p].pc \in CopyPlaces /\ iso' = iso /\ handle' = handle
  BY DEF CopyFill, At, Follows, OpenPlaces, CopyPlaces
<1>3. OnlyIn(Upper, disk, Put(disk, Upper, Res(p).path, source))
  <2>1. source \in Nodes /\ Res(p).path \in Paths /\ Upper \in Layers
    BY <1>1, <1>2, SourceIs, InCallIs, LayersAre DEF WriteInv
  <2> HIDE DEF source
  <2>2. QED
    BY <1>1, <2>1, PutIs
<1>4. disk' \in {disk, Put(disk, Upper, Res(p).path, source)}
  BY DEF CopyFill
<1> HIDE DEF source
<1>5. PackedKept
  BY <1>3, <1>4, PackedApart, LayersAre DEF PackedKept
<1>6. QED
  BY <1>2, <1>5, GoesOn

LEMMA CopyBreaksWrites ==
    ASSUME WriteInv, TypeInv', NEW p \in Procs, CopyBreaks(p) PROVE PackedKept /\ WriteInv'
<1>1. /\ Follows(proc[p].pc, "copied") /\ Goto(p, "copied") /\ iso' = iso /\ handle' = handle
      /\ PackedKept
  BY DEF CopyBreaks, At, Follows, OpenPlaces, PackedKept
<1>2. QED
  BY <1>1, GoesOn

LEMMA CopiedWrites ==
    ASSUME WriteInv, TypeInv', NEW p \in Procs, Copied(p) PROVE PackedKept /\ WriteInv'
<1> DEFINE res == [Res(p) EXCEPT !.inUpper = TRUE, !.hits = @ \cup {Upper}]
<1>1. /\ Follows(proc[p].pc, "open") /\ iso' = iso /\ handle' = handle /\ PackedKept
      /\ ~At(p, "idle") /\ proc[p].pc \in OpenPlaces /\ ProcTypes
  BY DEF Copied, At, Follows, OpenPlaces, PackedKept, WriteInv, TypeInv, ProcTypes
<1>2. CASE Req(p).call # "open"
  BY <1>1, <1>2, GoesOn DEF Copied
<1>3. CASE Req(p).call = "open"
  <2>1. Call(p, "open", Req(p), res)
    BY <1>3 DEF Copied
  <2>2. Res(p) \in Results /\ ModeFits(Res(p)) /\ PackedHold(Res(p))
    BY <1>1, InCallIs DEF WriteInv, CallFits
  <2>3. ModeFits(res) /\ PackedHold(res) /\ res.inUpper
    BY <2>2, LayersAre DEF ModeFits, PackedHold, Results
  <2>4. ~NeedsCopy(Req(p), res)
    BY <2>3 DEF NeedsCopy
  <2> HIDE DEF res
  <2>5. WriteInv'
    BY <1>1, <2>1, <2>3, <2>4, HandleStays, Begun
  <2>6. QED
    BY <1>1, <2>5
<1>4. QED
  BY <1>2, <1>3

\* A call which only reads opens what is there.
LEMMA ReadsLeave ==
    ASSUME WriteInv, WritersAsk, NEW p \in Procs, At(p, "open"),
           OpenLayer(Req(p), Res(p)) \in 1..Lower,
           CanOpen(disk, OpenLayer(Req(p), Res(p)), Req(p), Res(p).path)
    PROVE  Opened(disk, OpenLayer(Req(p), Res(p)), Req(p), Res(p).path) = disk
<1> DEFINE r == Req(p)
           res == Res(p)
           i == OpenLayer(r, res)
<1>1. /\ ~At(p, "idle") /\ proc[p].pc \in OpenPlaces /\ ProcTypes
  BY DEF At, OpenPlaces, WriteInv, TypeInv, ProcTypes
<1>2. r \in Requests /\ r.call \in {"create", "open"} /\ res.path \in Paths /\ res.hits \in SUBSET Layers
  BY <1>1, InCallIs
<1>3. i \in res.hits /\ (r.call = "create" => ~r.edit)
  BY <1>2, FirstIs, LayersAre DEF OpenLayer
<1>4. NodeAt(disk, i, res.path) # None
  BY <1>1, <1>2, <1>3 DEF WriteInv, CallFits, PackedHold, NodeAt
<1>5. r.disp \in Dispositions /\ (r.call = "open" => r.disp = "open")
  BY <1>2, RequestIs
<1>6. r.disp \in {"open", "open_if"}
  BY <1>2, <1>3, <1>4, <1>5 DEF CanOpen, WritersAsk, Dispositions
<1>7. QED
  BY <1>4, <1>6 DEF Opened, Holds

LEMMA OpensWrites ==
    ASSUME WriteInv, TypeInv', WritersAsk, NEW p \in Procs, Opens(p) PROVE PackedKept /\ WriteInv'
<1> DEFINE r == Req(p)
           res == Res(p)
           i == OpenLayer(r, res)
           opened == Opened(disk, i, r, res.path)
           record == IF r.call = "open" THEN res ELSE NoRecord
           h == NewHandle(r, i, res.path, NodeAt(opened, i, res.path), record)
<1>1. /\ ~At(p, "idle") /\ proc[p].pc \in OpenPlaces /\ ProcTypes /\ Follows(proc[p].pc, "record")
  BY DEF Opens, At, OpenPlaces, Follows, WriteInv, TypeInv, ProcTypes
<1>2. r \in Requests /\ r.call \in {"create", "open"} /\ res.path \in Paths /\ res \in Results
  BY <1>1, InCallIs
<1>3. i \in Layers
  BY <1>2, OpenLayerIs
<1>4. /\ iso' = iso
      /\ \/ /\ CanOpen(disk, i, r, res.path) /\ disk' = opened
            /\ handle' = [handle EXCEPT ![p] = h] /\ (Goto(p, "record") \/ Return(p))
         \/ disk' = disk /\ handle' = handle /\ Return(p)
  BY DEF Opens
<1>5. r.edit => MayWrite(i, res.path)
  <2> SUFFICES ASSUME r.edit PROVE MayWrite(i, res.path)
    OBVIOUS
  <2>1. ModeFits(res) /\ (r.call = "open" => ~NeedsCopy(r, res))
    BY <1>1 DEF WriteInv, CallFits, Opens
  <2>2. CASE ToHost(res)
    BY <2>1, <2>2 DEF OpenLayer, TargetHost, Modifies, MayWrite, MayWriteHost, ModeFits, ToHost,
                      WritesToHost
  <2>3. CASE ~ToHost(res)
    BY <1>2, <2>1, <2>3 DEF OpenLayer, TargetHost, Modifies, MayWrite, NeedsCopy
  <2>4. QED
    BY <2>2, <2>3
<1>6. PackedKept
  <2>1. OnlyIn(i, disk, opened)
    BY <1>2, <1>3, OpenedIs DEF WriteInv, TypeInv
  <2>2. i \in 1..Lower /\ CanOpen(disk, i, r, res.path) => opened = disk
    BY ReadsLeave DEF Opens
  <2> HIDE DEF r, res, i, opened, h
  <2>3. CASE i \in 1..Lower
    BY <1>4, <2>2, <2>3 DEF PackedKept
  <2>4. CASE i \notin 1..Lower
    BY <1>3, <1>4, <2>1, <2>4, PackedApart, LayersAre DEF PackedKept
  <2>5. QED
    BY <2>3, <2>4
<1>7. /\ h.open /\ h.at[1] = i /\ h.at[2] = res.path /\ h.edit = r.edit /\ ~h.pending
      /\ h.record = record
  BY DEF NewHandle
<1>8. record # NoRecord => ModeFits(record)
  BY <1>1 DEF WriteInv, CallFits
<1> HIDE DEF r, res, i, opened, record, h
<1>9. HandleFits(p)'
  <2>1. CASE handle' = handle
    BY <1>4, <2>1, HandleStays
  <2>2. CASE handle' = [handle EXCEPT ![p] = h]
    <3>1. handle'[p] = h
      BY <2>2 DEF WriteInv, TypeInv
    <3>2. r.edit => i = Upper \/ (i = Host /\ Lookup(iso, res.path).mode = "Merge")
      BY <1>5 DEF MayWrite, MayWriteHost
    <3>3. record # NoRecord => record.mode = Lookup(iso, record.path).mode
      BY <1>8 DEF ModeFits
    <3>4. QED
      BY <1>4, <1>7, <3>1, <3>2, <3>3 DEF HandleFits, MayWrite, MayWriteHost, ModeFits
  <2>3. QED
    BY <1>4, <2>1, <2>2
<1>10. \A q \in Procs : q # p => handle'[q] = handle[q]
  BY <1>4 DEF WriteInv, TypeInv
<1>11. CASE Return(p)
  BY <1>4, <1>6, <1>9, <1>10, <1>11, Ends
<1>12. CASE Goto(p, "record")
  <2>1. proc[p] = [pc |-> proc[p].pc, req |-> Req(p), res |-> Res(p)] /\ ModeFits(Res(p)) /\ PackedHold(Res(p))
    BY <1>1, InCallIs DEF WriteInv, CallFits
  <2>2. Call(p, "record", Req(p), Res(p))
    <3>1. [proc[p] EXCEPT !.pc = "record"] = [pc |-> "record", req |-> Req(p), res |-> Res(p)]
      BY <2>1
    <3>2. QED
      BY <1>12, <3>1 DEF Goto, Call
  <2>3. WriteInv'
    BY <1>4, <1>6, <1>9, <1>10, <2>1, <2>2, Begun
  <2>4. QED
    BY <1>6, <2>3
<1>13. QED
  BY <1>4, <1>6, <1>11, <1>12

LEMMA RecordHandleWrites ==
    ASSUME WriteInv, TypeInv', NEW p \in Procs, RecordHandle(p) PROVE PackedKept /\ WriteInv'
<1> DEFINE found == Resolve(disk, iso, Res(p).path, FALSE, Follow(Req(p)))
<1>1. /\ ~At(p, "idle") /\ ProcTypes /\ Return(p) /\ PackedKept /\ iso' = iso
      /\ handle[p].open /\ handle' = [handle EXCEPT ![p].record = RecordOf(found)]
  BY DEF RecordHandle, At, WriteInv, TypeInv, ProcTypes, PackedKept
<1>2. ModeFits(found)
  BY <1>1, InCallIs, FoundFits DEF WriteInv
<1> HIDE DEF found
<1>3. handle[p] \in OpenHandle
  BY <1>1, HandleIs DEF WriteInv
<1>4. /\ handle'[p].open /\ handle'[p].at = handle[p].at /\ handle'[p].edit = handle[p].edit
      /\ handle'[p].pending = handle[p].pending /\ handle'[p].record = RecordOf(found)
      /\ \A q \in Procs : q # p => handle'[q] = handle[q]
  BY <1>1, <1>3 DEF WriteInv, TypeInv, OpenHandle
<1>5. HandleFits(p)'
  <2>1. RecordOf(found) # NoRecord => RecordOf(found).mode = Lookup(iso, RecordOf(found).path).mode
    BY <1>1, <1>2 DEF RecordOf, ModeFits
  <2>2. HandleFits(p)
    BY DEF WriteInv
  <2>3. QED
    BY <1>1, <1>4, <2>1, <2>2 DEF HandleFits, MayWrite, MayWriteHost, ModeFits
<1>6. QED
  BY <1>1, <1>4, <1>5, Ends

LEMMA WriteWrites ==
    ASSUME WriteInv, TypeInv', NEW p \in Procs, NEW c \in Written, Write(p, c) PROVE PackedKept /\ WriteInv'
<1>1. /\ iso' = iso /\ proc' = proc /\ handle' = handle
      /\ handle[p].at[1] \in Layers /\ handle[p].at[2] \in Paths /\ disk \in Disks
  BY HandleIs DEF Write, Denotes, WriteInv, TypeInv
<1>2. handle[p].at[1] \in {Upper, Host}
  BY DEF WriteInv, HandleFits, MayWrite, Write, Denotes
<1>3. OnlyIn(handle[p].at[1], disk, Put(disk, handle[p].at[1], handle[p].at[2], File(c)))
  <2>1. File(c) \in Nodes
    BY FilesystemAssumption DEF Nodes
  <2>2. QED
    BY <1>1, <2>1, PutIs
<1>4. PackedKept
  BY <1>1, <1>2, <1>3, PackedApart DEF Write, PackedKept
<1>5. \A q \in Procs : HandleFits(q)'
  BY <1>1, HandleStays
<1>6. \A q \in Procs : CallFits(q)'
  BY <1>1, <1>4 DEF WriteInv, CallFits, ModeFits, PackedHold, PackedKept, At, Req, Res
<1>7. QED
  BY <1>4, <1>5, <1>6 DEF WriteInv

LEMMA SetDeleteWrites ==
    ASSUME WriteInv, TypeInv', NEW p \in Procs, SetDelete(p) PROVE PackedKept /\ WriteInv'
<1>1. /\ iso' = iso /\ proc' = proc /\ PackedKept /\ handle[p].edit /\ handle[p].open /\ At(p, "idle")
      /\ handle' = [handle EXCEPT ![p].pending = TRUE]
  BY DEF SetDelete, Denotes, PackedKept
<1>2. handle[p] \in OpenHandle
  BY <1>1, HandleIs DEF WriteInv
<1>3. /\ handle'[p].at = handle[p].at /\ handle'[p].edit = handle[p].edit /\ handle'[p].record = handle[p].record
      /\ \A q \in Procs : q # p => handle'[q] = handle[q]
  BY <1>1, <1>2 DEF WriteInv, TypeInv, OpenHandle
<1>4. HandleFits(p)'
  BY <1>1, <1>3 DEF WriteInv, HandleFits, ModeFits, MayWrite, MayWriteHost
<1>5. CallFits(p)'
  BY <1>1 DEF CallFits, At
<1>6. \A q \in Procs : q # p => HandleFits(q)' /\ CallFits(q)'
  BY <1>1, <1>3, OthersFit
<1>7. QED
  BY <1>1, <1>4, <1>5, <1>6 DEF WriteInv

\* What a close removes lies in a layer which may be written.
LEMMA ClosedLayer ==
    ASSUME WriteInv, NEW p \in Procs, handle[p].open
    PROVE  /\ CloseObject(disk, handle[p]) \in Disks
           /\ \A i \in 1..Lower : CloseObject(disk, handle[p])[i] = disk[i]
<1>1. OnlyIn(handle[p].at[1], disk, CloseObject(disk, handle[p]))
  BY CloseObjectIs DEF WriteInv
<1>2. CASE handle[p].pending
  <2>1. handle[p].at[1] \in {Upper, Host}
    BY <1>2 DEF WriteInv, HandleFits, MayWrite
  <2>2. QED
    BY <1>1, <2>1, PackedApart, LayersAre DEF OnlyIn
<1>3. CASE ~handle[p].pending
  BY <1>3 DEF CloseObject, WriteInv, TypeInv
<1>4. QED
  BY <1>2, <1>3

LEMMA CloseWrites ==
    ASSUME WriteInv, TypeInv', NEW p \in Procs, Close(p) PROVE PackedKept /\ WriteInv'
<1> DEFINE h == handle[p]
           r == [call |-> "close", path |-> h.path, disp |-> "open", edit |-> FALSE, dir |-> FALSE]
<1>1. /\ h.open /\ disk' = CloseObject(disk, h) /\ iso' = iso /\ handle' = [handle EXCEPT ![p] = NoHandle]
      /\ ((Call(p, "check", r, h.record) /\ h.record # NoRecord /\ h.pending) \/ proc' = proc)
      /\ At(p, "idle")
  BY DEF Close
<1>2. PackedKept
  BY <1>1, ClosedLayer DEF PackedKept
<1>3. \A q \in Procs : q # p => handle'[q] = handle[q]
  BY <1>1 DEF WriteInv, TypeInv
<1>4. HandleFits(p)'
  BY <1>1 DEF HandleFits, NoHandle, WriteInv, TypeInv
<1>5. CASE Call(p, "check", r, h.record) /\ h.record # NoRecord /\ h.pending
  <2>1. ModeFits(h.record)
    BY <1>1, <1>5 DEF WriteInv, HandleFits
  <2> HIDE DEF h, r
  <2>2. QED
    BY <1>1, <1>2, <1>3, <1>4, <1>5, <2>1, Begun DEF OpenPlaces
<1>6. CASE proc' = proc
  <2>1. CallFits(p)'
    BY <1>1, <1>6 DEF CallFits, At
  <2>2. \A q \in Procs : q # p => HandleFits(q)' /\ CallFits(q)'
    BY <1>1, <1>2, <1>3, <1>6, OthersFit
  <2>3. QED
    BY <1>2, <1>4, <2>1, <2>2 DEF WriteInv
<1>7. QED
  BY <1>1, <1>5, <1>6

LEMMA DeleteFileWrites ==
    ASSUME WriteInv, TypeInv', NEW p \in Procs, NEW r \in Requests, DeleteFile(p, r)
    PROVE  PackedKept /\ WriteInv'
<1> DEFINE res == Resolve(disk, iso, r.path, FALSE, "Parent")
<1>1. /\ Call(p, "check", r, res) /\ ModeFits(res)
      /\ iso' = iso /\ handle' = handle /\ PackedKept
  BY RequestIs, FoundFits DEF DeleteFile, WriteInv, PackedKept
<1> HIDE DEF res
<1>2. HandleFits(p)'
  BY <1>1, HandleStays
<1>3. WriteInv'
  BY <1>1, <1>2, Begun DEF OpenPlaces
<1>4. QED
  BY <1>1, <1>3

LEMMA DeleteChecksWrites ==
    ASSUME WriteInv, TypeInv', NEW p \in Procs, DeleteChecks(p) PROVE PackedKept /\ WriteInv'
<1>1. iso' = iso /\ handle' = handle /\ PackedKept
  BY DEF DeleteChecks, PackedKept
<1>2. \/ Goto(p, "host") /\ ToHost(Res(p))
      \/ Goto(p, "upper")
      \/ Return(p)
  BY DEF DeleteChecks
<1>3. Follows(proc[p].pc, "host") /\ Follows(proc[p].pc, "upper")
  BY DEF DeleteChecks, At, Follows, DeletePlaces, LastPlaces
<1>4. CASE Goto(p, "host") /\ ToHost(Res(p))
  BY <1>1, <1>3, <1>4, GoesOn
<1>5. CASE Goto(p, "upper")
  BY <1>1, <1>3, <1>5, GoesOn
<1>6. CASE Return(p)
  BY <1>1, <1>6, HandleStays, Ends
<1>7. QED
  BY <1>2, <1>4, <1>5, <1>6

LEMMA DeleteInHostWrites ==
    ASSUME WriteInv, TypeInv', NEW p \in Procs, DeleteInHost(p) PROVE PackedKept /\ WriteInv'
<1>1. /\ ~At(p, "idle") /\ ProcTypes /\ disk \in Disks /\ iso' = iso /\ handle' = handle
      /\ Goto(p, "upper") /\ Follows(proc[p].pc, "upper") /\ disk' = DeleteEntry(disk, Host, Res(p))
  BY DEF DeleteInHost, At, WriteInv, TypeInv, ProcTypes, Follows, DeletePlaces, LastPlaces
<1>2. OnlyIn(Host, disk, DeleteEntry(disk, Host, Res(p)))
  BY <1>1, InCallIs, DeleteEntryIs, LayersAre
<1>3. PackedKept
  BY <1>1, <1>2, PackedApart, LayersAre DEF PackedKept
<1>4. QED
  BY <1>1, <1>3, GoesOn

LEMMA DeleteInUpperWrites ==
    ASSUME WriteInv, TypeInv', NEW p \in Procs, DeleteInUpper(p) PROVE PackedKept /\ WriteInv'
<1> DEFINE one == DeleteOne(disk, Upper, Res(p).path)
           entry == DeleteEntry(disk, Upper, Res(p))
<1>1. /\ ~At(p, "idle") /\ ProcTypes /\ disk \in Disks /\ iso' = iso /\ handle' = handle
      /\ Follows(proc[p].pc, "mark") /\ (Goto(p, "mark") \/ Return(p))
      /\ disk' \in {disk, one, entry}
  BY DEF DeleteInUpper, At, WriteInv, TypeInv, ProcTypes, Follows, LastPlaces
<1>2. OnlyIn(Upper, disk, one) /\ OnlyIn(Upper, disk, entry)
  BY <1>1, InCallIs, DeleteOneIs, DeleteEntryIs, LayersAre
<1> HIDE DEF one, entry
<1>3. PackedKept
  BY <1>1, <1>2, PackedApart, LayersAre DEF PackedKept
<1>4. CASE Goto(p, "mark")
  BY <1>1, <1>3, <1>4, GoesOn
<1>5. CASE Return(p)
  BY <1>1, <1>3, <1>5, HandleStays, Ends
<1>6. QED
  BY <1>1, <1>4, <1>5

LEMMA MarkDeletedWrites ==
    ASSUME WriteInv, TypeInv', NEW p \in Procs, MarkDeleted(p) PROVE PackedKept /\ WriteInv'
<1> DEFINE d == Folders(disk, Upper, Res(p).path)
<1>1. /\ ~At(p, "idle") /\ ProcTypes /\ disk \in Disks /\ iso' = iso /\ handle' = handle /\ Return(p)
      /\ (disk' = d \/ disk' = [d EXCEPT ![Upper].whiteout = @ \cup {Res(p).path}])
  BY DEF MarkDeleted, At, WriteInv, TypeInv, ProcTypes
<1>2. OnlyIn(Upper, disk, d)
  BY <1>1, InCallIs, FoldersIs, LayersAre
<1> HIDE DEF d
<1>3. PackedKept
  BY <1>1, <1>2, LayersAre DEF PackedKept, OnlyIn, Disks
<1>4. QED
  BY <1>1, <1>3, HandleStays, Ends

LEMMA RenameWrites ==
    ASSUME WriteInv, TypeInv', NEW p \in Procs, NEW r \in Requests, Rename(p, r)
    PROVE  PackedKept /\ WriteInv'
<1> DEFINE res == Resolve(disk, iso, r.path, FALSE, "Parent")
           s == [call |-> "rename", path |-> r.path, disp |-> r.disp, edit |-> r.edit, dir |-> r.dir,
                 source |-> ViewPathOfHandle(handle[p])]
<1>1. /\ \E pc \in {"unmark", "move"} : Call(p, pc, s, res)
      /\ ModeFits(res) /\ iso' = iso /\ handle' = handle /\ PackedKept /\ handle[p].edit
  BY RequestIs, FoundFits DEF Rename, RenameResolved, WriteInv, PackedKept
<1> HIDE DEF res, s
<1>2. PICK pc \in {"unmark", "move"} : Call(p, pc, s, res)
  BY <1>1
<1>3. HandleFits(p)'
  BY <1>1, HandleStays
<1>4. WriteInv'
  BY <1>1, <1>2, <1>3, Begun DEF OpenPlaces
<1>5. QED
  BY <1>1, <1>4

LEMMA RenameUnhidesWrites ==
    ASSUME WriteInv, TypeInv', NEW p \in Procs, RenameUnhides(p) PROVE PackedKept /\ WriteInv'
<1>1. PackedKept
  BY LayersAre DEF RenameUnhides, PackedKept, WriteInv, TypeInv, Disks
<1>2. /\ Goto(p, "move") /\ Follows(proc[p].pc, "move") /\ iso' = iso /\ handle' = handle
      /\ handle[p].edit
  BY DEF RenameUnhides, At, Follows, MovePlaces, WriteInv, CallFits
<1>3. QED
  BY <1>1, <1>2, GoesOn

LEMMA RenameMovesWrites ==
    ASSUME WriteInv, TypeInv', NEW p \in Procs, RenameMoves(p) PROVE PackedKept /\ WriteInv'
<1> DEFINE to == Res(p).path
           j == IF ToHost(Res(p)) THEN Host ELSE Upper
           d == Folders(disk, j, to)
           moved == Moved(d, handle[p].at[1], handle[p].at[2], j, to)
           handles == [q \in Procs |-> IF handle[q].open /\ handle[q].at = handle[p].at
                                       THEN [handle[q] EXCEPT !.at = <<j, to>>] ELSE handle[q]]
<1>1. /\ ~At(p, "idle") /\ ProcTypes /\ disk \in Disks /\ iso' = iso /\ Follows(proc[p].pc, "hide")
      /\ handle[p].open /\ handle[p].edit /\ ModeFits(Res(p))
      /\ \/ disk' = moved /\ Goto(p, "hide") /\ handle' = handles
         \/ disk' = d /\ Return(p) /\ handle' = handle
  BY DEF RenameMoves, At, Follows, MovePlaces, WriteInv, TypeInv, ProcTypes, CallFits
<1>2. handle[p].at[1] \in {Upper, Host} /\ handle[p].at[2] \in Paths
  BY <1>1, HandleIs DEF WriteInv, HandleFits, MayWrite
<1>3. /\ to \in Paths /\ j \in {Upper, Host} /\ j \in Layers /\ handle[p].at[1] \in Layers
      /\ MayWrite(j, to)
  BY <1>1, <1>2, InCallIs, LayersAre DEF MayWrite, MayWriteHost, ModeFits, ToHost, WritesToHost
<1> HIDE DEF to, j
<1>4. OnlyIn(j, disk, d)
  BY <1>1, <1>3, FoldersIs
<1>5. \A i \in Layers : i # handle[p].at[1] /\ i # j => moved[i] = d[i]
  BY <1>2, <1>3, <1>4, MovedLayers DEF OnlyIn
<1> HIDE DEF d, moved
<1>6. PackedKept
  BY <1>1, <1>2, <1>3, <1>4, <1>5, LayersAre DEF PackedKept, OnlyIn
<1>7. CASE disk' = d /\ Return(p) /\ handle' = handle
  BY <1>1, <1>6, <1>7, HandleStays, Ends
<1>8. CASE disk' = moved /\ Goto(p, "hide") /\ handle' = handles
  <2>1. <<j, to>> \in Layers \X Paths /\ <<j, to>>[1] = j /\ <<j, to>>[2] = to
    BY <1>3
  <2>2. \A q \in Procs :
           /\ handle'[q].open = handle[q].open
           /\ handle[q].open => /\ handle'[q].edit = handle[q].edit
                                /\ handle'[q].pending = handle[q].pending
                                /\ handle'[q].record = handle[q].record
                                /\ handle'[q].at \in {handle[q].at, <<j, to>>}
    BY <1>8, <2>1, MovedHandles DEF WriteInv
  <2>3. ASSUME NEW q \in Procs PROVE HandleFits(q)'
    <3>1. HandleFits(q)
      BY DEF WriteInv
    <3>2. j = Upper \/ (j = Host /\ Lookup(iso, to).mode = "Merge")
      BY <1>3 DEF MayWrite, MayWriteHost
    <3>3. QED
      BY <1>1, <2>1, <2>2, <3>1, <3>2 DEF HandleFits, MayWrite, MayWriteHost, ModeFits
  <2>4. proc' = [proc EXCEPT ![p] = [pc |-> "hide", req |-> Req(p), res |-> Res(p)]]
    <3>1. proc[p] = [pc |-> proc[p].pc, req |-> Req(p), res |-> Res(p)]
      BY <1>1, InCallIs
    <3>2. [proc[p] EXCEPT !.pc = "hide"] = [pc |-> "hide", req |-> Req(p), res |-> Res(p)]
      BY <3>1
    <3>3. QED
      BY <1>8, <3>2 DEF Goto
  <2>5. CallFits(p)'
    <3>1. proc'[p] = [pc |-> "hide", req |-> Req(p), res |-> Res(p)]
      BY <1>1, <2>4 DEF ProcTypes
    <3>2. Res(p)' = Res(p) /\ proc'[p].pc = "hide"
      BY <3>1 DEF Res
    <3>3. QED
      BY <1>1, <3>2 DEF CallFits, At, ModeFits, OpenPlaces
  <2>6. ASSUME NEW q \in Procs, q # p PROVE CallFits(q)'
    <3>1. proc'[q] = proc[q]
      BY <1>1, <2>4, <2>6 DEF ProcTypes
    <3>2. proc[q].pc \in {"unmark", "move"} => handle'[q].edit = handle[q].edit
      BY <2>2 DEF WriteInv, TypeInv
    <3>3. CallFits(q)
      BY DEF WriteInv
    <3>4. QED
      BY <1>1, <1>6, <3>1, <3>2, <3>3 DEF CallFits, ModeFits, PackedHold, PackedKept, At, Req, Res
  <2>7. QED
    BY <1>6, <2>3, <2>5, <2>6 DEF WriteInv
<1>9. QED
  BY <1>1, <1>7, <1>8

LEMMA HideSourceWrites ==
    ASSUME WriteInv, TypeInv', NEW p \in Procs, HideSource(p) PROVE PackedKept /\ WriteInv'
<1> DEFINE res == Resolve(disk, iso, Req(p).source, FALSE, "Parent")
<1>1. /\ ~At(p, "idle") /\ proc[p].pc \in MovePlaces /\ ProcTypes
      /\ iso' = iso /\ handle' = handle /\ PackedKept
  BY DEF HideSource, At, MovePlaces, WriteInv, TypeInv, ProcTypes, PackedKept
<1>2. Req(p).source \in Paths
  BY <1>1, InCallIs DEF Renamings
<1>3. ModeFits(res) /\ (Call(p, "upper", Req(p), res) \/ Return(p))
  BY <1>2, FoundFits DEF HideSource, WriteInv
<1>4. HandleFits(p)'
  BY <1>1, HandleStays
<1> HIDE DEF res
<1>5. CASE Return(p)
  BY <1>1, <1>4, <1>5, Ends
<1>6. CASE Call(p, "upper", Req(p), res)
  <2>1. WriteInv'
    BY <1>1, <1>3, <1>4, <1>6, Begun DEF OpenPlaces
  <2>2. QED
    BY <1>1, <2>1
<1>7. QED
  BY <1>3, <1>5, <1>6

LEMMA KilledWrites ==
    ASSUME WriteInv, TypeInv', NEW p \in Procs, Killed(p) PROVE PackedKept /\ WriteInv'
<1>1. /\ iso' = iso /\ Return(p) /\ handle' = [handle EXCEPT ![p] = NoHandle]
      /\ PackedKept
  BY ClosedLayer DEF Killed, PackedKept
<1>2. /\ \A q \in Procs : q # p => handle'[q] = handle[q]
      /\ HandleFits(p)'
  BY <1>1 DEF HandleFits, NoHandle, WriteInv, TypeInv
<1>3. QED
  BY <1>1, <1>2, Ends

LEMMA NextWrites == ASSUME WriteInv, WritersAsk, [Next]_vars PROVE PackedKept /\ WriteInv'
<1>1. TypeInv'
  BY NextTypeInv DEF WriteInv
<1>2. CASE UNCHANGED vars
  <2>1. PackedKept
    BY <1>2 DEF vars, PackedKept
  <2>2. \A p \in Procs : HandleFits(p)' /\ CallFits(p)'
    BY <1>2 DEF vars, WriteInv, HandleFits, CallFits, ModeFits, MayWrite, MayWriteHost, PackedHold, At,
       Req, Res, NeedsCopy, Modifies, WantCreate, ToHost, WritesToHost, Exists
  <2>3. QED
    BY <1>1, <2>1, <2>2 DEF WriteInv
<1>3. CASE Next
  <2>1. PICK p \in Procs : Begins(p) \/ Goes(p) \/ Uses(p) \/ Killed(p)
    BY <1>3 DEF Next
  <2>2. CASE Begins(p)
    BY <1>1, <2>2, OpenFileWrites, DeleteFileWrites, RenameWrites DEF Begins
  <2>3. CASE Goes(p)
    BY <1>1, <2>3, UnhideWrites, ResolveAgainWrites, MakeFolderAgainWrites, MakeOpaqueWrites,
       MakeFoldersWrites, CopyStartWrites, CopyFillWrites, CopyBreaksWrites, CopiedWrites, OpensWrites,
       RecordHandleWrites, DeleteChecksWrites, DeleteInHostWrites, DeleteInUpperWrites,
       MarkDeletedWrites, RenameUnhidesWrites, RenameMovesWrites, HideSourceWrites DEF Goes
  <2>4. CASE Uses(p)
    BY <1>1, <2>4, WriteWrites, SetDeleteWrites, CloseWrites DEF Uses
  <2>5. CASE Killed(p)
    BY <1>1, <2>5, KilledWrites
  <2>6. QED
    BY <2>1, <2>2, <2>3, <2>4, <2>5
<1>4. QED
  BY <1>2, <1>3

LEMMA InitWriteInv == ASSUME Init PROVE WriteInv
<1>1. TypeInv
  BY InitTypeInv
<1>2. \A p \in Procs : HandleFits(p) /\ CallFits(p)
  BY DEF Init, HandleFits, CallFits, NoHandle, Idle, At
<1>3. QED
  BY <1>1, <1>2 DEF WriteInv

\* "The read-only layers are never written", for the packed ones: whatever the
\* processes call, in whatever order their steps come and wherever one dies, a packed
\* layer stays as it was.  A program which asks to overwrite a file asks to write it
\* (sandbox/hook/NtCreateFile.cpp).
THEOREM PackedLayersAreKept ==
    ASSUME WritersAsk
    PROVE  Spec => [][\A i \in 1..Lower : disk'[i] = disk[i]]_vars
<1>1. Init => WriteInv
  BY InitWriteInv
<1>2. WriteInv /\ [Next]_vars => WriteInv'
  BY NextWrites
<1>3. WriteInv /\ [Next]_vars => [\A i \in 1..Lower : disk'[i] = disk[i]]_vars
  BY NextWrites DEF PackedKept
<1>4. QED
  BY <1>1, <1>2, <1>3, PTL DEF Spec

-----------------------------------------------------------------------------
(* The layers stay trees.                                                  *)

LEMMA RootIs == <<>> \in Paths
  BY ResolveAssumption

LEMMA TreePut ==
    ASSUME NEW d \in Disks, NEW i \in Layers, NEW p \in Paths, NEW n \in Nodes, IsTree(d[i]),
           d[i].node[p] # Dir, HasFolder(d, i, p) \/ d[i].node[p] # None
    PROVE  IsTree(Put(d, i, p, n)[i])
<1> DEFINE e == Put(d, i, p, n)
<1>1. /\ e[i].node = [d[i].node EXCEPT ![p] = n] /\ e[i].whiteout = d[i].whiteout /\ e[i].opaque = d[i].opaque
      /\ d[i].node \in [Paths -> Nodes]
  BY PutIs DEF Disks, Layer
<1>2. p # <<>>
  BY DEF IsTree, HasFolder
<1> HIDE DEF e
<1>3. e[i].node[<<>>] \in {None, Dir}
  BY <1>1, <1>2, RootIs DEF IsTree
<1>4. ASSUME NEW q \in Paths, e[i].node[q] # Dir
      PROVE  /\ \A x \in Paths : IsStrictPrefix(q, x) => e[i].node[x] = None
             /\ \A x \in e[i].whiteout : ~IsStrictPrefix(q, x)
             /\ \A x \in e[i].opaque : ~IsPrefix(q, x)
  <2>1. d[i].node[q] # Dir
    BY <1>1, <1>4
  <2>2. ~IsStrictPrefix(q, p)
    <3> SUFFICES ASSUME IsStrictPrefix(q, p) PROVE FALSE
      OBVIOUS
    <3>1. d[i].node[p] = None
      BY <2>1 DEF IsTree
    <3>2. Front(p) \in Paths /\ IsPrefix(q, Front(p)) /\ d[i].node[Front(p)] = Dir
      BY <3>1, FolderAbove DEF HasFolder, NodeAt
    <3>3. CASE q = Front(p)
      BY <2>1, <3>2, <3>3
    <3>4. CASE q # Front(p)
      BY <2>1, <3>2, <3>4 DEF IsTree, IsStrictPrefix, None, Dir
    <3>5. QED
      BY <3>3, <3>4
  <2>3. QED
    BY <1>1, <2>1, <2>2 DEF IsTree
<1>5. QED
  BY <1>3, <1>4 DEF IsTree, e

LEMMA TreeRemoveAll ==
    ASSUME NEW d \in Disks, NEW i \in Layers, NEW p \in Paths, IsTree(d[i])
    PROVE  IsTree(RemoveAll(d, i, p)[i])
<1> DEFINE e == RemoveAll(d, i, p)
<1>1. /\ e[i].node = [q \in Paths |-> IF IsPrefix(p, q) THEN None ELSE d[i].node[q]]
      /\ e[i].whiteout = {q \in d[i].whiteout : ~IsStrictPrefix(p, q)}
      /\ e[i].opaque = {q \in d[i].opaque : ~IsPrefix(p, q)}
      /\ d[i].whiteout \subseteq Paths /\ d[i].opaque \subseteq Paths
  BY RemoveAllIs DEF Disks, Layer
<1> HIDE DEF e
<1>2. e[i].node[<<>>] \in {None, Dir}
  BY <1>1, RootIs DEF IsTree
<1>3. ASSUME NEW q \in Paths, e[i].node[q] # Dir
      PROVE  /\ \A x \in Paths : IsStrictPrefix(q, x) => e[i].node[x] = None
             /\ \A x \in e[i].whiteout : ~IsStrictPrefix(q, x)
             /\ \A x \in e[i].opaque : ~IsPrefix(q, x)
  <2>1. CASE IsPrefix(p, q)
    <3>1. \A x \in Paths : IsPrefix(q, x) => IsPrefix(p, x)
      BY <2>1, PrefixTransitive
    <3>2. \A x \in Paths : IsStrictPrefix(q, x) => IsStrictPrefix(p, x)
      BY <2>1, <3>1, PrefixIsSame DEF IsStrictPrefix
    <3>3. QED
      BY <1>1, <3>1, <3>2 DEF IsStrictPrefix
  <2>2. CASE ~IsPrefix(p, q)
    <3>1. d[i].node[q] # Dir
      BY <1>1, <1>3, <2>2
    <3>2. QED
      BY <1>1, <3>1 DEF IsTree
  <2>3. QED
    BY <2>1, <2>2
<1>4. QED
  BY <1>2, <1>3 DEF IsTree, e

LEMMA TreeDeleteOne ==
    ASSUME NEW d \in Disks, NEW i \in Layers, NEW p \in Paths, IsTree(d[i])
    PROVE  IsTree(DeleteOne(d, i, p)[i])
<1> DEFINE e == Put(d, i, p, None)
<1>1. SUFFICES ASSUME CanDelete(d, i, p) PROVE IsTree(e[i])
  BY DeleteOneIs
<1>2. /\ e[i].node = [d[i].node EXCEPT ![p] = None] /\ e[i].whiteout = d[i].whiteout /\ e[i].opaque = d[i].opaque
      /\ d[i].node \in [Paths -> Nodes]
  <2>1. None \in Nodes
    BY DEF Nodes
  <2>2. QED
    BY <2>1, PutIs DEF Disks, Layer
<1>3. /\ \A x \in Paths : IsStrictPrefix(p, x) => d[i].node[x] = None
      /\ \A x \in d[i].whiteout : ~IsStrictPrefix(p, x)
      /\ \A x \in d[i].opaque : ~IsPrefix(p, x)
  BY <1>1 DEF CanDelete, Below, MarkersIn
<1> HIDE DEF e
<1>4. QED
  BY <1>2, <1>3, RootIs DEF IsTree

LEMMA TreeFolders ==
    ASSUME NEW d \in Disks, NEW i \in Layers, NEW p \in Paths, IsTree(d[i])
    PROVE  IsTree(Folders(d, i, p)[i])
<1> DEFINE e == Folders(d, i, p)
<1>1. /\ e[i].whiteout = d[i].whiteout /\ e[i].opaque = d[i].opaque
      /\ \A q \in Paths :
            \/ e[i].node[q] = d[i].node[q]
            \/ /\ d[i].node[q] = None /\ e[i].node[q] = Dir /\ IsStrictPrefix(q, p)
               /\ \A j \in 1..Len(q) : NodeAt(d, i, Prefix(p, j)) \in {None, Dir}
      /\ \A q \in Paths :
            /\ IsStrictPrefix(q, p) /\ d[i].node[q] = None
            /\ \A j \in 1..Len(q) : NodeAt(d, i, Prefix(p, j)) \in {None, Dir}
            => e[i].node[q] = Dir
  BY FoldersIs
<1> HIDE DEF e
<1>2. e[i].node[<<>>] \in {None, Dir}
  BY <1>1, RootIs DEF IsTree
<1>3. ASSUME NEW q \in Paths, e[i].node[q] # Dir
      PROVE  /\ \A x \in Paths : IsStrictPrefix(q, x) => e[i].node[x] = None
             /\ \A x \in e[i].whiteout : ~IsStrictPrefix(q, x)
             /\ \A x \in e[i].opaque : ~IsPrefix(q, x)
  <2>1. d[i].node[q] # Dir
    BY <1>1, <1>3
  <2>2. ASSUME NEW x \in Paths, IsStrictPrefix(q, x) PROVE e[i].node[x] = None
    <3>1. d[i].node[x] = None
      BY <2>1, <2>2 DEF IsTree
    <3>2. SUFFICES ASSUME e[i].node[x] # d[i].node[x] PROVE FALSE
      BY <3>1
    <3>3. IsStrictPrefix(x, p) /\ \A j \in 1..Len(x) : NodeAt(d, i, Prefix(p, j)) \in {None, Dir}
      BY <1>1, <3>2
    <3>4. IsStrictPrefix(q, p)
      BY <2>2, <3>3, StrictTransitive DEF IsStrictPrefix
    <3>5. q = Prefix(p, Len(q)) /\ Len(q) \in Nat /\ Len(x) \in Nat /\ Len(q) <= Len(x) /\ (q # <<>> => Len(q) >= 1)
      BY <2>2, <3>4, PathSeq DEF IsStrictPrefix, IsPrefix, Prefix
    <3>6. \A j \in 1..Len(q) : NodeAt(d, i, Prefix(p, j)) \in {None, Dir}
      BY <3>3, <3>5
    <3>7. d[i].node[q] = None
      <4>1. CASE q = <<>>
        BY <2>1, <4>1 DEF IsTree
      <4>2. CASE q # <<>>
        <5>1. NodeAt(d, i, q) \in {None, Dir}
          BY <3>5, <3>6, <4>2
        <5>2. QED
          BY <2>1, <5>1 DEF NodeAt
      <4>3. QED
        BY <4>1, <4>2
    <3>8. QED
      BY <1>1, <1>3, <3>4, <3>6, <3>7
  <2>3. QED
    BY <1>1, <2>1, <2>2 DEF IsTree
<1>4. QED
  BY <1>2, <1>3 DEF IsTree, e

\* A marker lies in a folder.
LEMMA TreeMarked ==
    ASSUME NEW d \in Disks, NEW i \in Layers, NEW p \in Paths, IsTree(d[i])
    PROVE  /\ HasFolder(d, i, p) => IsTree([d EXCEPT ![i].whiteout = d[i].whiteout \cup {p}][i])
           /\ d[i].node[p] = Dir => IsTree([d EXCEPT ![i].opaque = d[i].opaque \cup {p}][i])
           /\ IsTree([d EXCEPT ![i].whiteout = d[i].whiteout \ {p}][i])
<1>1. d[i] \in Layer /\ d[i].node \in [Paths -> Nodes] /\ d[i].whiteout \subseteq Paths /\ d[i].opaque \subseteq Paths
  BY DEF Disks, Layer
<1>2. ASSUME NEW W \in SUBSET Paths
      PROVE  /\ [d EXCEPT ![i].whiteout = W][i].node = d[i].node
             /\ [d EXCEPT ![i].whiteout = W][i].whiteout = W
             /\ [d EXCEPT ![i].whiteout = W][i].opaque = d[i].opaque
             /\ [d EXCEPT ![i].opaque = W][i].node = d[i].node
             /\ [d EXCEPT ![i].opaque = W][i].whiteout = d[i].whiteout
             /\ [d EXCEPT ![i].opaque = W][i].opaque = W
  BY <1>1 DEF Disks, Layer
<1>3. ASSUME NEW q \in Paths, d[i].node[q] # Dir
      PROVE  /\ HasFolder(d, i, p) => ~IsStrictPrefix(q, p)
             /\ d[i].node[p] = Dir => ~IsPrefix(q, p)
  <2>1. ASSUME HasFolder(d, i, p), IsStrictPrefix(q, p) PROVE FALSE
    <3>1. Front(p) \in Paths /\ IsPrefix(q, Front(p)) /\ d[i].node[Front(p)] = Dir
      BY <2>1, FolderAbove DEF HasFolder, NodeAt
    <3>2. CASE q = Front(p)
      BY <1>3, <3>1, <3>2
    <3>3. CASE q # Front(p)
      BY <1>3, <3>1, <3>3 DEF IsTree, IsStrictPrefix, None, Dir
    <3>4. QED
      BY <3>2, <3>3
  <2>2. ASSUME d[i].node[p] = Dir, IsPrefix(q, p) PROVE FALSE
    BY <1>3, <2>2 DEF IsTree, IsStrictPrefix, None, Dir
  <2>3. QED
    BY <2>1, <2>2
<1>4. HasFolder(d, i, p) => IsTree([d EXCEPT ![i].whiteout = d[i].whiteout \cup {p}][i])
  <2>1. d[i].whiteout \cup {p} \in SUBSET Paths
    BY <1>1
  <2>2. QED
    BY <1>2, <1>3, <2>1 DEF IsTree
<1>5. d[i].node[p] = Dir => IsTree([d EXCEPT ![i].opaque = d[i].opaque \cup {p}][i])
  <2>1. d[i].opaque \cup {p} \in SUBSET Paths
    BY <1>1
  <2>2. QED
    BY <1>2, <1>3, <2>1 DEF IsTree
<1>6. IsTree([d EXCEPT ![i].whiteout = d[i].whiteout \ {p}][i])
  <2>1. d[i].whiteout \ {p} \in SUBSET Paths
    BY <1>1
  <2>2. QED
    BY <1>2, <2>1 DEF IsTree
<1>7. QED
  BY <1>4, <1>5, <1>6

\* The place an object moves from, name by name.
LEMMA SourceBelow ==
    ASSUME NEW from \in Paths, NEW to \in Paths, NEW q \in Paths, IsPrefix(to, q)
    PROVE  LET s == from \o SubSeq(q, Len(to) + 1, Len(q))
           IN  /\ q = to => s = from
               /\ s \in Paths => IsPrefix(from, s) /\ (q # to => IsStrictPrefix(from, s))
<1> DEFINE rest == SubSeq(q, Len(to) + 1, Len(q))
           s == from \o rest
<1>1. /\ from \in Seq(PathNames) /\ to \in Seq(PathNames) /\ q \in Seq(PathNames)
      /\ Len(to) <= Len(q) /\ to = SubSeq(q, 1, Len(to))
  BY PathSeq DEF IsPrefix
<1>2. rest \in Seq(PathNames) /\ Len(rest) = Len(q) - Len(to)
  BY <1>1
<1> HIDE DEF rest
<1>3. /\ Len(s) = Len(from) + Len(rest) /\ s \in Seq(PathNames)
      /\ \A k \in 1..Len(from) : s[k] = from[k]
  <2>1. Len(s) = Len(from) + Len(rest) /\ s \in Seq(PathNames)
    BY <1>1, <1>2, ConcatProperties
  <2>2. ASSUME NEW k \in 1..Len(from) PROVE s[k] = from[k]
    <3>1. k \in 1..(Len(from) + Len(rest)) /\ k <= Len(from)
      BY <1>1, <1>2
    <3>2. QED
      BY <1>1, <1>2, <3>1, ConcatProperties
  <2>3. QED
    BY <2>1, <2>2
<1>4. q = to => s = from
  BY <1>1, <1>2
<1>5. IsPrefix(from, s)
  BY <1>1, <1>2, <1>3 DEF IsPrefix
<1>6. q # to => s # from
  BY <1>1, <1>2, <1>3
<1>7. QED
  BY <1>4, <1>5, <1>6 DEF IsStrictPrefix, rest

\* Whoever moves a file or a link moves one object and no marker.
LEMMA MovedOne ==
    ASSUME NEW d \in Disks, NEW i \in Layers, NEW from \in Paths, NEW j \in Layers, NEW to \in Paths,
           IsTree(d[i]), IsTree(d[j]), d[i].node[from] \notin {None, Dir},
           HasFolder(d, j, to), d[j].node[to] # Dir, ~IsPrefix(from, to)
    PROVE  Moved(d, i, from, j, to) = Put(Put(d, j, to, d[i].node[from]), i, from, None)
<1> DEFINE n == d[i].node[from]
           source(q) == from \o SubSeq(q, Len(to) + 1, Len(q))
           marks(S)  == {q \in Paths : IsPrefix(to, q) /\ source(q) \in S}
           nodes     == [q \in Paths |-> IF IsPrefix(to, q) THEN NodeAt(d, i, source(q)) ELSE d[j].node[q]]
           taken     == [d EXCEPT ![j].node =
                                    [q \in Paths |-> IF IsPrefix(to, q) THEN NodeAt(d, i, source(q)) ELSE @[q]],
                                  ![j].whiteout = @ \cup (marks(d[i].whiteout) \ {to}),
                                  ![j].opaque = @ \cup marks(d[i].opaque)]
           put       == Put(d, j, to, n)
<1>1. /\ d[j] \in Layer /\ d[i] \in Layer /\ n \in Nodes /\ None \in Nodes
      /\ d[i].whiteout \subseteq Paths /\ d[i].opaque \subseteq Paths
      /\ d[j].node \in [Paths -> Nodes]
  BY DEF Disks, Layer, Nodes
<1>2. \A q \in Paths : IsPrefix(to, q) => NodeAt(d, i, source(q)) = IF q = to THEN n ELSE None
  <2>1. ASSUME NEW q \in Paths, IsPrefix(to, q), q = to PROVE NodeAt(d, i, source(q)) = n
    <3>1. source(q) = from
      BY <2>1, SourceBelow
    <3>2. QED
      BY <3>1 DEF NodeAt
  <2>2. ASSUME NEW q \in Paths, IsPrefix(to, q), q # to PROVE NodeAt(d, i, source(q)) = None
    <3>1. source(q) \in Paths => IsStrictPrefix(from, source(q))
      BY <2>2, SourceBelow
    <3> HIDE DEF source
    <3>2. QED
      BY <3>1 DEF IsTree, NodeAt
  <2> HIDE DEF source, n
  <2>3. QED
    BY <2>1, <2>2
<1>3. \A q \in Paths : IsPrefix(to, q) /\ q # to => d[j].node[q] = None
  BY DEF IsTree, IsStrictPrefix
<1>4. nodes = [d[j].node EXCEPT ![to] = n]
  <2>1. IsPrefix(to, to)
    BY PrefixOfItself
  <2> HIDE DEF source, n
  <2>2. QED
    BY <1>1, <1>2, <1>3, <2>1
<1>5. marks(d[i].whiteout) \ {to} = {} /\ marks(d[i].opaque) = {}
  <2>1. ASSUME NEW q \in Paths, IsPrefix(to, q), source(q) \in d[i].whiteout, q # to PROVE FALSE
    BY <1>1, <2>1, SourceBelow DEF IsTree
  <2>2. ASSUME NEW q \in Paths, IsPrefix(to, q), source(q) \in d[i].opaque PROVE FALSE
    BY <1>1, <2>2, SourceBelow DEF IsTree
  <2> HIDE DEF source
  <2>3. QED
    BY <2>1, <2>2
<1>6. taken = put
  <2>1. taken = [d EXCEPT ![j].node = nodes,
                          ![j].whiteout = d[j].whiteout \cup (marks(d[i].whiteout) \ {to}),
                          ![j].opaque = d[j].opaque \cup marks(d[i].opaque)]
    <3> HIDE DEF source, marks
    <3>1. QED
      BY <1>1 DEF Disks, Layer
  <2>2. put = [d EXCEPT ![j] = [d[j] EXCEPT !.node = nodes]]
    <3> HIDE DEF nodes, n
    <3>1. QED
      BY <1>1, <1>4 DEF Put, Disks, Layer
  <2> HIDE DEF nodes, marks, taken, put
  <2>3. taken = [d EXCEPT ![j].node = nodes, ![j].whiteout = d[j].whiteout, ![j].opaque = d[j].opaque]
    BY <1>5, <2>1
  <2>4. [d[j] EXCEPT !.node = nodes, !.whiteout = d[j].whiteout, !.opaque = d[j].opaque] = [d[j] EXCEPT !.node = nodes]
    BY <1>1 DEF Layer
  <2>5. taken = [d EXCEPT ![j] = [d[j] EXCEPT !.node = nodes, !.whiteout = d[j].whiteout, !.opaque = d[j].opaque]]
    BY <1>1, <2>3 DEF Disks, Layer
  <2>6. QED
    BY <2>2, <2>4, <2>5
<1>7. Moved(d, i, from, j, to) = RemoveAll(put, i, from)
  BY <1>6 DEF Moved
<1>8. /\ put \in Disks /\ IsTree(put[i]) /\ put[i].node[from] # Dir
  <2>1. IsTree(put[j]) /\ OnlyIn(j, d, put) /\ put[j].node = [d[j].node EXCEPT ![to] = n]
    BY <1>1, TreePut, PutIs
  <2>2. from # to
    BY PrefixOfItself
  <2> HIDE DEF put
  <2>3. CASE i = j
    BY <1>1, <2>1, <2>2, <2>3 DEF OnlyIn
  <2>4. CASE i # j
    BY <2>1, <2>4 DEF OnlyIn
  <2>5. QED
    BY <2>3, <2>4
<1> HIDE DEF put
<1>9. RemoveAll(put, i, from) = Put(put, i, from, None)
  <2> DEFINE gone == [q \in Paths |-> IF IsPrefix(from, q) THEN None ELSE put[i].node[q]]
             W    == {q \in put[i].whiteout : ~IsStrictPrefix(from, q)}
             O    == {q \in put[i].opaque : ~IsPrefix(from, q)}
  <2>1. put[i] \in Layer /\ put[i].node \in [Paths -> Nodes]
    BY <1>8 DEF Disks, Layer
  <2>2. gone = [put[i].node EXCEPT ![from] = None]
    BY <1>8, <2>1, PrefixOfItself DEF IsTree, IsStrictPrefix
  <2>3. W = put[i].whiteout /\ O = put[i].opaque
    BY <1>8 DEF IsTree
  <2>4. RemoveAll(put, i, from) = [put EXCEPT ![i] = [node |-> gone, whiteout |-> W, opaque |-> O]]
    BY <1>8 DEF RemoveAll, Disks
  <2>5. Put(put, i, from, None) = [put EXCEPT ![i] = [put[i] EXCEPT !.node = gone]]
    <3> HIDE DEF gone
    <3>1. QED
      BY <1>8, <2>1, <2>2 DEF Put, Disks, Layer
  <2> HIDE DEF gone, W, O
  <2>6. [node |-> gone, whiteout |-> W, opaque |-> O] = [put[i] EXCEPT !.node = gone]
    BY <2>1, <2>3 DEF Layer
  <2>7. QED
    BY <2>4, <2>5, <2>6
<1>10. QED
  BY <1>7, <1>9 DEF put

-----------------------------------------------------------------------------
(* The host is written only where the table says Merge.                    *)

HostKept ==
    /\ disk'[Host].whiteout = disk[Host].whiteout /\ disk'[Host].opaque = disk[Host].opaque
    /\ \A q \in Paths : disk'[Host].node[q] # disk[Host].node[q] =>
           MayWriteHost(q) \/ (disk[Host].node[q] = None /\ \E r \in Paths : IsStrictPrefix(q, r) /\ MayWriteHost(r))

\* What a step leaves of the handles of the other processes.
OthersKeep(p) ==
    \A q \in Procs : q # p =>
        /\ handle'[q].open = handle[q].open
        /\ handle[q].open => handle'[q].record = handle[q].record /\ handle'[q].dir = handle[q].dir

RecordShows(p) == handle[p].open /\ handle[p].record # NoRecord => HostShown(handle[p].record)

LEMMA ShownByResolution ==
    ASSUME NEW d \in Disks, NEW p \in Paths, NEW e \in Entry,
           NEW searched \in SUBSET Layers, NEW hits \in SUBSET Layers
    PROVE  HostShown(Resolution(d, p, e, searched, hits))
<1> DEFINE res == Resolution(d, p, e, searched, hits)
<1>1. res.hits = hits
  BY ResolutionIs
<1>2. res.status = "Exists" => hits # {}
  BY DEF Resolution
<1>3. ~res.holds => \A i \in hits : i = Host
  BY DEF Resolution
<1> HIDE DEF res
<1>4. QED
  BY <1>1, <1>2, <1>3 DEF HostShown, ToHost, WritesToHost, Exists, res

LEMMA PlainShows ==
    ASSUME NEW d \in Disks, NEW table, NEW p \in Paths, NEW stopFirst,
           \A q \in DOMAIN table : q \in Paths /\ table[q] \in Entry
    PROVE  HostShown(ResolvePlain(d, table, p, stopFirst))
<1> DEFINE e == Lookup(table, p)
           searched == Searched(d, p, stopFirst)
           hits == HitsShown(d, p, e, searched)
<1>1. e \in Entry /\ searched \in SUBSET Layers /\ hits \in SUBSET Layers
  BY LookupIs DEF Searched, HitsShown
<1>2. ResolvePlain(d, table, p, stopFirst) = Resolution(d, p, e, searched, hits)
  BY DEF ResolvePlain, ResolutionOf
<1> HIDE DEF e, searched, hits
<1>3. QED
  BY <1>1, <1>2, ShownByResolution

LEMMA ResolveShows ==
    ASSUME TypeInv, NEW p \in Paths, NEW stopFirst, NEW follow
    PROVE  HostShown(Resolve(disk, iso, p, stopFirst, follow))
<1> DEFINE plain == ResolvePlain(disk, iso, p, stopFirst)
           there == Expand(disk, iso, p, follow = "All")
<1>1. disk \in Disks /\ \A q \in DOMAIN iso : q \in Paths /\ iso[q] \in Entry
  BY DEF TypeInv, TableFits
<1>2. HostShown(plain) /\ plain \in Results
  BY <1>1, PlainShows, PlainIs DEF Found
<1>3. HostShown([plain EXCEPT !.resolved = FALSE])
  <2> HIDE DEF plain
  <2>1. QED
    BY <1>2 DEF HostShown, ToHost, WritesToHost, Exists, Results
<1>4. there.path \in Paths => HostShown(ResolvePlain(disk, iso, there.path, stopFirst))
  BY <1>1, PlainShows
<1>5. Resolve(disk, iso, p, stopFirst, follow)
         = IF plain.link THEN ResolveThrough(disk, iso, p, stopFirst, plain, there) ELSE plain
  BY DEF Resolve, ResolveFrom
<1> HIDE DEF plain, there
<1>6. HostShown(ResolveThrough(disk, iso, p, stopFirst, plain, there))
  BY <1>2, <1>3, <1>4 DEF ResolveThrough
<1>7. QED
  BY <1>2, <1>5, <1>6

LEMMA ConvexHere ==
    ASSUME HostInv, MergeIsConvex, NEW x \in Paths, NEW y \in Paths, NEW z \in Paths,
           IsStrictPrefix(x, y), IsStrictPrefix(y, z), MayWriteHost(x), MayWriteHost(z)
    PROVE  MayWriteHost(y)
<1>1. PICK s \in Starts : iso = s.iso
  BY DEF HostInv
<1>2. QED
  BY <1>1 DEF MergeIsConvex, MayWriteHost

LEMMA HostStep ==
    ASSUME HostInv, MergeIsConvex, WriteInv', HostKept, TreeInv', iso' = iso, NEW p \in Procs,
           \A q \in Procs : q # p => proc'[q] = proc[q],
           OthersKeep(p),
           HostHolds(p)', ResultsShow(p)', MovesFit(p)', FolderFits(p)'
    PROVE  HostInv'
<1>1. \A q \in Paths : MayWriteHost(q)' <=> MayWriteHost(q)
  BY DEF MayWriteHost
<1>2. ASSUME NEW q \in Procs, q # p PROVE HostHolds(q)' /\ ResultsShow(q)' /\ MovesFit(q)' /\ FolderFits(q)'
  <2>1. proc'[q] = proc[q] /\ HostHolds(q) /\ ResultsShow(q) /\ MovesFit(q) /\ FolderFits(q) /\ CallFits(q)
    BY <1>2 DEF HostInv, WriteInv
  <2>2. /\ handle'[q].open = handle[q].open
        /\ handle[q].open => handle'[q].record = handle[q].record /\ handle'[q].dir = handle[q].dir
    BY <1>2 DEF OthersKeep
  <2>3. proc[q].pc # "idle" => Res(q).path \in Paths
    BY InCallIs DEF HostInv, WriteInv, TypeInv, ProcTypes, At
  <2>4. HostHolds(q)'
    BY <1>1, <2>1, <2>3, PlacesApart DEF HostHolds, HostKept, Res, MayWriteHost
  <2>5. ResultsShow(q)'
    BY <2>1, <2>2 DEF ResultsShow, HostShown, ToHost, WritesToHost, Exists, Res, At
  <2>6. MovesFit(q)'
    BY <2>1, <2>2 DEF MovesFit, HostInv, WriteInv, TypeInv
  <2>7. FolderFits(q)'
    <3> SUFFICES ASSUME At(q, "host"), Res(q).kind = "dir", NEW x \in Paths,
                        IsStrictPrefix(Res(q).path, x), disk'[Host].node[x] # None
                 PROVE  MayWriteHost(x)
      BY <1>1, <2>1 DEF FolderFits, At, Res
    <3>1. Res(q).path \in Paths /\ MayWriteHost(Res(q).path)
      BY <2>1, <2>3 DEF CallFits, At, ModeFits, ToHost, WritesToHost, MayWriteHost
    <3>2. CASE disk[Host].node[x] # None
      BY <2>1, <3>2 DEF FolderFits
    <3>3. CASE disk[Host].node[x] = None /\ ~MayWriteHost(x)
      <4>1. PICK r \in Paths : IsStrictPrefix(x, r) /\ MayWriteHost(r)
        BY <3>3 DEF HostKept
      <4>2. QED
        BY <3>1, <4>1, ConvexHere
    <3>4. QED
      BY <3>2, <3>3
  <2>8. QED
    BY <2>4, <2>5, <2>6, <2>7
<1>3. disk'[Host].whiteout = {} /\ disk'[Host].opaque = {} /\ \E s \in Starts : iso' = s.iso
  BY DEF HostInv, HostKept
<1>4. QED
  BY <1>2, <1>3 DEF HostInv

\* The process goes on with the result it has.
LEMMA HostGoesOn ==
    ASSUME HostInv, MergeIsConvex, WriteInv', HostKept, TreeInv', iso' = iso, NEW p \in Procs, NEW pc,
           Goto(p, pc), Follows(proc[p].pc, pc), pc # "host", OthersKeep(p), RecordShows(p)',
           pc \in {"unmark", "move"} => ~handle'[p].dir
    PROVE  HostInv'
<1>1. ~At(p, "idle") /\ ProcTypes
  BY PlacesApart DEF Follows, At, HostInv, WriteInv, TypeInv, ProcTypes
<1>2. /\ proc[p] = [pc |-> proc[p].pc, req |-> Req(p), res |-> Res(p)] /\ Res(p).path \in Paths
      /\ HostHolds(p) /\ ResultsShow(p)
  BY <1>1, InCallIs DEF HostInv
<1>3. proc' = [proc EXCEPT ![p] = [pc |-> pc, req |-> Req(p), res |-> Res(p)]]
  <2>1. [proc[p] EXCEPT !.pc = pc] = [pc |-> pc, req |-> Req(p), res |-> Res(p)]
    BY <1>2
  <2>2. QED
    BY <2>1 DEF Goto
<1>4. /\ proc'[p] = [pc |-> pc, req |-> Req(p), res |-> Res(p)]
      /\ \A q \in Procs : q # p => proc'[q] = proc[q]
  BY <1>1, <1>3 DEF ProcTypes
<1>5. Res(p)' = Res(p) /\ proc'[p].pc = pc
  BY <1>4 DEF Res
<1>6. HostHolds(p)'
  <2>1. pc \in OpenPlaces => proc[p].pc \in OpenPlaces
    BY PlacesApart DEF Follows
  <2>2. QED
    BY <1>2, <1>5, <2>1 DEF HostHolds, HostKept, MayWriteHost
<1>7. ResultsShow(p)'
  BY <1>1, <1>2, <1>5 DEF ResultsShow, RecordShows, HostShown, ToHost, WritesToHost, Exists
<1>8. MovesFit(p)' /\ FolderFits(p)'
  BY <1>5 DEF MovesFit, FolderFits, At
<1>9. QED
  BY <1>4, <1>6, <1>7, <1>8, HostStep

LEMMA HostEnds ==
    ASSUME HostInv, MergeIsConvex, WriteInv', HostKept, TreeInv', iso' = iso, NEW p \in Procs,
           Return(p), OthersKeep(p), RecordShows(p)'
    PROVE  HostInv'
<1>1. proc'[p] = Idle /\ \A q \in Procs : q # p => proc'[q] = proc[q]
  BY ReturnTyped DEF HostInv, WriteInv, TypeInv, ProcTypes
<1>2. HostHolds(p)' /\ ResultsShow(p)' /\ MovesFit(p)' /\ FolderFits(p)'
  BY <1>1, PlacesApart DEF Idle, HostHolds, ResultsShow, RecordShows, MovesFit, FolderFits, At
<1>3. QED
  BY <1>1, <1>2, HostStep

\* The process goes on with another result.
LEMMA HostBegins ==
    ASSUME HostInv, MergeIsConvex, WriteInv', HostKept, TreeInv', iso' = iso, NEW p \in Procs, NEW pc,
           NEW r, NEW res \in Results,
           Call(p, pc, r, res), OthersKeep(p), RecordShows(p)', HostShown(res), pc # "host",
           pc \in OpenPlaces /\ Host \in res.hits => disk[Host].node[res.path] # None \/ MayWriteHost(res.path),
           pc \in {"unmark", "move"} => ~handle'[p].dir
    PROVE  HostInv'
<1>1. /\ proc'[p] = [pc |-> pc, req |-> r, res |-> res]
      /\ \A q \in Procs : q # p => proc'[q] = proc[q]
  BY DEF HostInv, WriteInv, TypeInv, Call
<1>2. Res(p)' = res /\ proc'[p].pc = pc
  BY <1>1 DEF Res
<1>3. res.path \in Paths
  BY DEF Results
<1>4. HostHolds(p)'
  BY <1>2, <1>3 DEF HostHolds, HostKept, MayWriteHost
<1>5. ResultsShow(p)'
  BY <1>2 DEF ResultsShow, RecordShows, HostShown, ToHost, WritesToHost, Exists
<1>6. MovesFit(p)' /\ FolderFits(p)'
  BY <1>2 DEF MovesFit, FolderFits, At
<1>7. QED
  BY <1>1, <1>4, <1>5, <1>6, HostStep

\* A step which writes the upper layer only.
LEMMA UpperOnly ==
    ASSUME HostInv, NEW e, disk' = e, OnlyIn(Upper, disk, e), IsTree(e[Upper])
    PROVE  HostKept /\ TreeInv'
<1>1. e[Host] = disk[Host]
  BY LayersAre DEF OnlyIn
<1>2. QED
  BY <1>1 DEF HostInv, HostKept, TreeInv

LEMMA DiskStays == ASSUME HostInv, disk' = disk PROVE HostKept /\ TreeInv'
  BY DEF HostInv, HostKept, TreeInv

LEMMA HandlesStay ==
    ASSUME HostInv, NEW p \in Procs, handle' = handle
    PROVE  OthersKeep(p) /\ RecordShows(p)'
  BY DEF HostInv, OthersKeep, RecordShows, ResultsShow, HostShown, ToHost, WritesToHost, Exists

\* What a call finds, it finds in the layers as they are.
LEMMA FoundShows ==
    ASSUME HostInv, NEW q \in Paths, NEW stopFirst, NEW follow
    PROVE  LET res == Resolve(disk, iso, q, stopFirst, follow)
           IN  /\ res \in Results /\ HostShown(res)
               /\ Host \in res.hits => disk[Host].node[res.path] # None
  BY ResolvedIs, ResolveShows DEF HostInv, WriteInv, Found

LEMMA OpenFileHost ==
    ASSUME HostInv, MergeIsConvex, WriteInv', NEW p \in Procs, NEW r \in Requests, OpenFile(p, r)
    PROVE  HostKept /\ HostInv'
<1> DEFINE res == Resolve(disk, iso, r.path, ReadsOnly(r), Follow(r))
<1>1. /\ res \in Results /\ HostShown(res)
      /\ Host \in res.hits => disk[Host].node[res.path] # None
  BY RequestIs, FoundShows
<1>2. \E pc \in {"unhide", "folders", "copy", "open"} : Call(p, pc, r, res)
  BY DEF OpenFile, OpenResolved, AfterResolve
<1> HIDE DEF res
<1>3. PICK pc \in {"unhide", "folders", "copy", "open"} : Call(p, pc, r, res)
  BY <1>2
<1>4. HostKept /\ TreeInv' /\ iso' = iso /\ OthersKeep(p) /\ RecordShows(p)'
  BY DiskStays, HandlesStay DEF OpenFile
<1>5. HostInv'
  BY <1>1, <1>3, <1>4, HostBegins
<1>6. QED
  BY <1>4, <1>5

LEMMA UnhideHost == ASSUME HostInv, MergeIsConvex, WriteInv', NEW p \in Procs, Unhide(p) PROVE HostKept /\ HostInv'
<1> DEFINE e == [disk EXCEPT ![Upper].whiteout = disk[Upper].whiteout \ {Res(p).path}]
<1>1. /\ disk \in Disks /\ disk[Upper] \in Layer /\ IsTree(disk[Upper]) /\ Upper \in Layers
      /\ ProcTypes /\ ~At(p, "idle")
  BY LayersAre DEF HostInv, WriteInv, TypeInv, Disks, TreeInv, ProcTypes, Unhide, At
<1>2. Res(p).path \in Paths /\ disk[Upper].whiteout \ {Res(p).path} \in SUBSET Paths
  BY <1>1, InCallIs DEF Layer
<1>3. disk' = e
  BY <1>1 DEF Unhide, Disks
<1>4. OnlyIn(Upper, disk, e) /\ IsTree(e[Upper])
  BY <1>1, <1>2, MarkersAre, TreeMarked
<1> HIDE DEF e
<1>5. HostKept /\ TreeInv'
  BY <1>3, <1>4, UpperOnly
<1>6. /\ Goto(p, "again") /\ Follows(proc[p].pc, "again") /\ iso' = iso
      /\ OthersKeep(p) /\ RecordShows(p)'
  BY HandlesStay DEF Unhide, At, Follows, OpenPlaces
<1>7. HostInv'
  BY <1>5, <1>6, HostGoesOn
<1>8. QED
  BY <1>5, <1>7

LEMMA ResolveAgainHost ==
    ASSUME HostInv, MergeIsConvex, WriteInv', NEW p \in Procs, ResolveAgain(p) PROVE HostKept /\ HostInv'
<1> DEFINE again == Resolve(disk, iso, Res(p).path, FALSE, Follow(Req(p)))
<1>1. ~At(p, "idle") /\ proc[p].pc \in OpenPlaces /\ ProcTypes
  BY DEF ResolveAgain, At, OpenPlaces, HostInv, WriteInv, TypeInv, ProcTypes
<1>2. Res(p).path \in Paths /\ Res(p) \in Results /\ HostShown(Res(p)) /\ HostHolds(p)
  BY <1>1, InCallIs DEF HostInv, ResultsShow
<1>3. again \in Results /\ HostShown(again) /\ (Host \in again.hits => disk[Host].node[again.path] # None)
  BY <1>2, FoundShows
<1>4. HostKept /\ TreeInv' /\ iso' = iso /\ OthersKeep(p) /\ RecordShows(p)'
  BY DiskStays, HandlesStay DEF ResolveAgain
<1>5. \E pc \in {"newdir", "folders"} : Call(p, pc, Req(p), Res(p)) \/ Call(p, pc, Req(p), again)
  BY DEF ResolveAgain
<1> HIDE DEF again
<1>6. PICK pc \in {"newdir", "folders"}, res \in {Res(p), again} : Call(p, pc, Req(p), res)
  BY <1>5
<1>7. /\ res \in Results /\ HostShown(res)
      /\ Host \in res.hits => disk[Host].node[res.path] # None \/ MayWriteHost(res.path)
  BY <1>1, <1>2, <1>3 DEF HostHolds
<1>8. HostInv'
  BY <1>4, <1>6, <1>7, HostBegins
<1>9. QED
  BY <1>4, <1>8

\* An open which makes an object makes it in a folder, or empties a file.
LEMMA TreeOpened ==
    ASSUME NEW d \in Disks, NEW i \in Layers, NEW r, NEW p \in Paths, IsTree(d[i]), CanOpen(d, i, r, p)
    PROVE  IsTree(Opened(d, i, r, p)[i])
<1>1. SUFFICES ASSUME NEW n \in {Dir, File(Empty)}, ~(Holds(d, i, p) /\ r.disp \in {"open", "open_if"})
               PROVE  IsTree(Put(d, i, p, n)[i])
  BY OpenedIs
<1>2. n \in Nodes
  BY ResolveAssumption DEF Nodes
<1>3. d[i].node[p] # Dir /\ (HasFolder(d, i, p) \/ d[i].node[p] # None)
  BY <1>1 DEF CanOpen, Holds, NodeAt, None, Dir
<1>4. QED
  BY <1>2, <1>3, TreePut

LEMMA MakeFolderAgainHost ==
    ASSUME HostInv, MergeIsConvex, WriteInv', NEW p \in Procs, MakeFolderAgain(p) PROVE HostKept /\ HostInv'
<1> DEFINE e == Opened(disk, Upper, Req(p), Res(p).path)
<1>1. /\ disk \in Disks /\ IsTree(disk[Upper]) /\ Upper \in Layers /\ ProcTypes /\ ~At(p, "idle")
  BY LayersAre DEF HostInv, WriteInv, TypeInv, TreeInv, ProcTypes, MakeFolderAgain, At
<1>2. Res(p).path \in Paths
  BY <1>1, InCallIs
<1>3. OnlyIn(Upper, disk, e) /\ (CanOpen(disk, Upper, Req(p), Res(p).path) => IsTree(e[Upper]))
  BY <1>1, <1>2, OpenedIs, TreeOpened
<1>4. disk' = disk \/ (CanOpen(disk, Upper, Req(p), Res(p).path) /\ disk' = e)
  BY DEF MakeFolderAgain
<1> HIDE DEF e
<1>5. HostKept /\ TreeInv'
  BY <1>3, <1>4, UpperOnly, DiskStays
<1>6. /\ Goto(p, "opaque") /\ Follows(proc[p].pc, "opaque") /\ iso' = iso
      /\ OthersKeep(p) /\ RecordShows(p)'
  BY HandlesStay DEF MakeFolderAgain, At, Follows, OpenPlaces
<1>7. HostInv'
  BY <1>5, <1>6, HostGoesOn
<1>8. QED
  BY <1>5, <1>7

LEMMA MakeOpaqueHost ==
    ASSUME HostInv, MergeIsConvex, WriteInv', NEW p \in Procs, MakeOpaque(p) PROVE HostKept /\ HostInv'
<1> DEFINE e == [disk EXCEPT ![Upper].opaque = disk[Upper].opaque \cup {Res(p).path}]
<1>1. /\ disk \in Disks /\ disk[Upper] \in Layer /\ IsTree(disk[Upper]) /\ Upper \in Layers
      /\ ProcTypes /\ ~At(p, "idle")
  BY LayersAre DEF HostInv, WriteInv, TypeInv, Disks, TreeInv, ProcTypes, MakeOpaque, At
<1>2. Res(p).path \in Paths /\ disk[Upper].opaque \cup {Res(p).path} \in SUBSET Paths
  BY <1>1, InCallIs DEF Layer
<1>3. disk' = disk \/ (disk[Upper].node[Res(p).path] = Dir /\ disk' = e)
  BY <1>1, <1>2 DEF MakeOpaque, Disks, NodeAt
<1>4. OnlyIn(Upper, disk, e) /\ (disk[Upper].node[Res(p).path] = Dir => IsTree(e[Upper]))
  BY <1>1, <1>2, MarkersAre, TreeMarked
<1> HIDE DEF e
<1>5. HostKept /\ TreeInv'
  BY <1>3, <1>4, UpperOnly, DiskStays
<1>6. Return(p) /\ iso' = iso /\ OthersKeep(p) /\ RecordShows(p)'
  BY HandlesStay DEF MakeOpaque
<1>7. HostInv'
  BY <1>5, <1>6, HostEnds
<1>8. QED
  BY <1>5, <1>7

\* The folders above an entry of the host which may be written.
LEMMA HostFolders ==
    ASSUME HostInv, NEW q \in Paths, NEW i \in {Upper, Host}, i = Host => MayWriteHost(q),
           disk' = Folders(disk, i, q)
    PROVE  HostKept /\ TreeInv'
<1> DEFINE e == Folders(disk, i, q)
<1>1. /\ disk \in Disks /\ i \in Layers /\ IsTree(disk[Upper]) /\ IsTree(disk[Host]) /\ Upper # Host
      /\ Upper \in Layers /\ Host \in Layers
  BY LayersAre DEF HostInv, WriteInv, TypeInv, TreeInv
<1>2. /\ OnlyIn(i, disk, e) /\ IsTree(e[i])
      /\ e[i].whiteout = disk[i].whiteout /\ e[i].opaque = disk[i].opaque
      /\ \A x \in Paths : e[i].node[x] = disk[i].node[x] \/ (disk[i].node[x] = None /\ IsStrictPrefix(x, q))
  BY <1>1, FoldersIs, TreeFolders
<1> HIDE DEF e
<1>3. disk' = e
  BY DEF e
<1>4. TreeInv'
  BY <1>1, <1>2, <1>3 DEF TreeInv, OnlyIn
<1>5. HostKept
  BY <1>1, <1>2, <1>3 DEF HostKept, OnlyIn
<1>6. QED
  BY <1>4, <1>5

LEMMA MakeFoldersHost ==
    ASSUME HostInv, MergeIsConvex, WriteInv', NEW p \in Procs, MakeFolders(p) PROVE HostKept /\ HostInv'
<1> DEFINE i == IF TargetHost(Req(p), Res(p)) THEN Host ELSE Upper
<1>1. ProcTypes /\ ~At(p, "idle") /\ ModeFits(Res(p))
  BY DEF HostInv, WriteInv, TypeInv, ProcTypes, CallFits, MakeFolders, At
<1>2. Res(p).path \in Paths
  BY <1>1, InCallIs
<1>3. i \in {Upper, Host} /\ (i = Host => MayWriteHost(Res(p).path))
  BY <1>1, LayersAre DEF TargetHost, ToHost, WritesToHost, MayWriteHost, ModeFits
<1>4. disk' = Folders(disk, i, Res(p).path)
  BY DEF MakeFolders
<1> HIDE DEF i
<1>5. HostKept /\ TreeInv'
  BY <1>2, <1>3, <1>4, HostFolders
<1>6. PICK pc \in {"copy", "open"} : Goto(p, pc)
  BY DEF MakeFolders
<1>7. Follows(proc[p].pc, pc) /\ iso' = iso /\ OthersKeep(p) /\ RecordShows(p)'
  BY HandlesStay DEF MakeFolders, At, Follows, OpenPlaces
<1>8. HostInv'
  BY <1>5, <1>6, <1>7, HostGoesOn
<1>9. QED
  BY <1>5, <1>8

\* A step which writes an entry of the host which may be written.
LEMMA HostOnly ==
    ASSUME HostInv, NEW e, disk' = e, OnlyIn(Host, disk, e), IsTree(e[Host]),
           e[Host].whiteout = disk[Host].whiteout, e[Host].opaque = disk[Host].opaque,
           \A x \in Paths : e[Host].node[x] # disk[Host].node[x] => MayWriteHost(x)
    PROVE  HostKept /\ TreeInv'
<1>1. e[Upper] = disk[Upper]
  BY LayersAre DEF OnlyIn
<1>2. QED
  BY <1>1 DEF HostInv, HostKept, TreeInv

LEMMA CopyStartHost ==
    ASSUME HostInv, MergeIsConvex, WriteInv', NEW p \in Procs, CopyStart(p) PROVE HostKept /\ HostInv'
<1> DEFINE q == Res(p).path
           source == NodeAt(disk, First(Res(p).hits), q)
           d      == Folders(disk, Upper, q)
           ok     == HasFolder(d, Upper, q) /\ NodeAt(d, Upper, q) # Dir
<1>1. /\ ProcTypes /\ disk \in Disks /\ IsTree(disk[Upper]) /\ Upper \in Layers
      /\ ~At(p, "idle") /\ Follows(proc[p].pc, "fill") /\ Follows(proc[p].pc, "copied")
      /\ proc[p].pc \in CopyPlaces /\ TypeInv
  BY LayersAre DEF HostInv, WriteInv, TypeInv, TreeInv, ProcTypes, CopyStart, At, Follows, OpenPlaces,
                   CopyPlaces
<1>2. q \in Paths /\ source \in Nodes /\ File(Empty) \in Nodes
  BY <1>1, InCallIs, SourceIs, ResolveAssumption DEF Nodes
<1>3. OnlyIn(Upper, disk, d) /\ IsTree(d[Upper]) /\ d \in Disks
  BY <1>1, <1>2, FoldersIs, TreeFolders DEF OnlyIn
<1>4. /\ iso' = iso /\ (Goto(p, "fill") \/ Goto(p, "copied") \/ Return(p))
      /\ \/ disk' \in {disk, d}
         \/ ok /\ disk' = Put(d, Upper, q, File(Empty))
         \/ ok /\ disk' = Put(d, Upper, q, source)
  BY DEF CopyStart
<1>5. OthersKeep(p) /\ RecordShows(p)'
  BY HandlesStay DEF CopyStart
<1> HIDE DEF q, source, d
<1>6. ASSUME ok, NEW n \in Nodes
      PROVE  OnlyIn(Upper, disk, Put(d, Upper, q, n)) /\ IsTree(Put(d, Upper, q, n)[Upper])
  <2>1. OnlyIn(Upper, d, Put(d, Upper, q, n))
    BY <1>1, <1>2, <1>3, PutIs
  <2>2. d[Upper].node[q] # Dir
    BY <1>2, <1>6 DEF NodeAt
  <2>3. IsTree(Put(d, Upper, q, n)[Upper])
    BY <1>1, <1>2, <1>3, <1>6, <2>2, TreePut
  <2>4. QED
    BY <1>1, <1>3, <2>1, <2>3, OnlyInTransitive
<1>7. HostKept /\ TreeInv'
  <2>1. CASE disk' = disk
    BY <2>1, DiskStays
  <2>2. CASE disk' = d
    BY <1>3, <2>2, UpperOnly
  <2>3. CASE ok /\ disk' = Put(d, Upper, q, File(Empty))
    BY <1>2, <1>6, <2>3, UpperOnly
  <2>4. CASE ok /\ disk' = Put(d, Upper, q, source)
    BY <1>2, <1>6, <2>4, UpperOnly
  <2>5. QED
    BY <1>4, <2>1, <2>2, <2>3, <2>4
<1>8. CASE Return(p)
  BY <1>4, <1>5, <1>7, <1>8, HostEnds
<1>9. CASE Goto(p, "fill")
  BY <1>1, <1>4, <1>5, <1>7, <1>9, HostGoesOn
<1>10. CASE Goto(p, "copied")
  BY <1>1, <1>4, <1>5, <1>7, <1>10, HostGoesOn
<1>11. QED
  BY <1>4, <1>7, <1>8, <1>9, <1>10

LEMMA CopyFillHost ==
    ASSUME HostInv, MergeIsConvex, WriteInv', NEW p \in Procs, CopyFill(p) PROVE HostKept /\ HostInv'
<1> DEFINE q == Res(p).path
           source == NodeAt(disk, First(Res(p).hits), q)
           e == Put(disk, Upper, q, source)
<1>1. /\ ProcTypes /\ disk \in Disks /\ IsTree(disk[Upper]) /\ Upper \in Layers
      /\ ~At(p, "idle") /\ Follows(proc[p].pc, "copied") /\ proc[p].pc \in CopyPlaces /\ TypeInv
  BY LayersAre DEF HostInv, WriteInv, TypeInv, TreeInv, ProcTypes, CopyFill, At, Follows, OpenPlaces,
                   CopyPlaces
<1>2. q \in Paths /\ source \in Nodes
  BY <1>1, InCallIs, SourceIs
<1>3. iso' = iso /\ Goto(p, "copied") /\ (disk' = disk \/ (NodeAt(disk, Upper, q).kind = "file" /\ disk' = e))
  BY DEF CopyFill
<1>4. OthersKeep(p) /\ RecordShows(p)'
  BY HandlesStay DEF CopyFill
<1> HIDE DEF q, source
<1>5. NodeAt(disk, Upper, q).kind = "file" => OnlyIn(Upper, disk, e) /\ IsTree(e[Upper])
  <2>1. NodeAt(disk, Upper, q).kind = "file" => disk[Upper].node[q] # Dir /\ disk[Upper].node[q] # None
    BY <1>2 DEF NodeAt, Dir, None
  <2>2. QED
    BY <1>1, <1>2, <2>1, PutIs, TreePut
<1> HIDE DEF e
<1>6. HostKept /\ TreeInv'
  BY <1>3, <1>5, UpperOnly, DiskStays
<1>7. HostInv'
  BY <1>1, <1>3, <1>4, <1>6, HostGoesOn
<1>8. QED
  BY <1>6, <1>7

LEMMA CopyBreaksHost ==
    ASSUME HostInv, MergeIsConvex, WriteInv', NEW p \in Procs, CopyBreaks(p) PROVE HostKept /\ HostInv'
<1>1. /\ Follows(proc[p].pc, "copied") /\ Goto(p, "copied") /\ iso' = iso
      /\ HostKept /\ TreeInv' /\ OthersKeep(p) /\ RecordShows(p)'
  BY DiskStays, HandlesStay DEF CopyBreaks, At, Follows, OpenPlaces
<1>2. QED
  BY <1>1, HostGoesOn

LEMMA CopiedHost ==
    ASSUME HostInv, MergeIsConvex, WriteInv', NEW p \in Procs, Copied(p) PROVE HostKept /\ HostInv'
<1> DEFINE res == [Res(p) EXCEPT !.inUpper = TRUE, !.hits = @ \cup {Upper}]
<1>1. /\ Follows(proc[p].pc, "open") /\ iso' = iso
      /\ ~At(p, "idle") /\ proc[p].pc \in OpenPlaces /\ ProcTypes
  BY DEF Copied, At, Follows, OpenPlaces, HostInv, WriteInv, TypeInv, ProcTypes
<1>2. HostKept /\ TreeInv' /\ OthersKeep(p) /\ RecordShows(p)'
  BY DiskStays, HandlesStay DEF Copied
<1>3. CASE Req(p).call # "open"
  <2>1. Goto(p, "open")
    BY <1>3 DEF Copied
  <2>2. QED
    BY <1>1, <1>2, <2>1, HostGoesOn
<1>4. CASE Req(p).call = "open"
  <2>1. Call(p, "open", Req(p), res)
    BY <1>4 DEF Copied
  <2>2. Res(p) \in Results /\ HostShown(Res(p)) /\ HostHolds(p)
    BY <1>1, InCallIs DEF HostInv, ResultsShow
  <2>3. /\ res \in Results /\ HostShown(res)
        /\ Host \in res.hits => disk[Host].node[res.path] # None \/ MayWriteHost(res.path)
    BY <1>1, <2>2, LayersAre DEF HostHolds, HostShown, ToHost, WritesToHost, Exists, Results
  <2> HIDE DEF res
  <2>4. HostInv'
    BY <1>1, <1>2, <2>1, <2>3, HostBegins
  <2>5. QED
    BY <1>2, <2>4
<1>5. QED
  BY <1>3, <1>4

\* An open which leads to the host changes what may be written there.
LEMMA HostReadsLeave ==
    ASSUME HostInv, WritersAsk, NEW p \in Procs, At(p, "open"),
           OpenLayer(Req(p), Res(p)) = Host, CanOpen(disk, Host, Req(p), Res(p).path)
    PROVE  MayWriteHost(Res(p).path) \/ Opened(disk, Host, Req(p), Res(p).path) = disk
<1> DEFINE r == Req(p)
           res == Res(p)
<1>1. /\ ~At(p, "idle") /\ proc[p].pc \in OpenPlaces /\ ProcTypes /\ ModeFits(res) /\ HostHolds(p)
  BY DEF At, OpenPlaces, HostInv, WriteInv, TypeInv, ProcTypes, CallFits
<1>2. r \in Requests /\ r.call \in {"create", "open"} /\ res.path \in Paths /\ res.hits \in SUBSET Layers
  BY <1>1, InCallIs
<1>3. CASE TargetHost(r, res)
  BY <1>1, <1>3 DEF TargetHost, ToHost, WritesToHost, MayWriteHost, ModeFits
<1>4. CASE ~TargetHost(r, res)
  <2>1. Host \in res.hits /\ (r.call = "create" => ~r.edit)
    BY <1>2, <1>4, FirstIs, LayersAre DEF OpenLayer
  <2>2. CASE NodeAt(disk, Host, res.path) # None
    <3>1. r.disp \in Dispositions /\ (r.call = "open" => r.disp = "open")
      BY <1>2, RequestIs
    <3>2. r.disp \in {"open", "open_if"}
      BY <1>2, <2>1, <2>2, <3>1 DEF CanOpen, WritersAsk, Dispositions
    <3>3. QED
      BY <2>2, <3>2 DEF Opened, Holds
  <2>3. CASE NodeAt(disk, Host, res.path) = None
    BY <1>1, <1>2, <2>1, <2>3 DEF HostHolds, NodeAt
  <2>4. QED
    BY <2>2, <2>3
<1>5. QED
  BY <1>3, <1>4

LEMMA OpensHost ==
    ASSUME HostInv, MergeIsConvex, WritersAsk, WriteInv', NEW p \in Procs, Opens(p)
    PROVE  HostKept /\ HostInv'
<1> DEFINE r == Req(p)
           res == Res(p)
           i == OpenLayer(r, res)
           opened == Opened(disk, i, r, res.path)
           record == IF r.call = "open" THEN res ELSE NoRecord
           h == NewHandle(r, i, res.path, NodeAt(opened, i, res.path), record)
<1>1. /\ ~At(p, "idle") /\ At(p, "open") /\ ProcTypes /\ Follows(proc[p].pc, "record") /\ disk \in Disks
      /\ IsTree(disk[Upper]) /\ IsTree(disk[Host])
  BY DEF Opens, At, OpenPlaces, Follows, HostInv, WriteInv, TypeInv, TreeInv, ProcTypes
<1>2. res.path \in Paths /\ res \in Results /\ HostShown(res)
  BY <1>1, InCallIs DEF HostInv, ResultsShow
<1>3. i \in Layers
  BY <1>2, OpenLayerIs
<1>4. /\ iso' = iso
      /\ \/ /\ CanOpen(disk, i, r, res.path) /\ disk' = opened
            /\ handle' = [handle EXCEPT ![p] = h] /\ (Goto(p, "record") \/ Return(p))
         \/ disk' = disk /\ handle' = handle /\ Return(p)
  BY DEF Opens
<1>5. CanOpen(disk, i, r, res.path) /\ disk' = opened => HostKept /\ TreeInv'
  <2> SUFFICES ASSUME CanOpen(disk, i, r, res.path), disk' = opened PROVE HostKept /\ TreeInv'
    OBVIOUS
  <2>1. CASE i \in 1..Lower
    <3>1. opened = disk
      BY <1>1, <2>1, ReadsLeave DEF HostInv
    <3>2. QED
      BY <3>1, DiskStays
  <2>2. CASE i = Upper
    <3>1. OnlyIn(Upper, disk, opened) /\ IsTree(opened[Upper])
      BY <1>1, <1>2, <1>3, <2>2, OpenedIs, TreeOpened
    <3> HIDE DEF opened
    <3>2. QED
      BY <3>1, UpperOnly
  <2>3. CASE i = Host
    <3>1. CASE opened = disk
      BY <3>1, DiskStays
    <3>2. CASE opened # disk
      <4>1. MayWriteHost(res.path)
        BY <1>1, <2>3, <3>2, HostReadsLeave
      <4>2. OnlyIn(Host, disk, opened) /\ IsTree(opened[Host])
        BY <1>1, <1>2, <1>3, <2>3, OpenedIs, TreeOpened
      <4>3. /\ opened[Host].whiteout = disk[Host].whiteout /\ opened[Host].opaque = disk[Host].opaque
            /\ \A x \in Paths : opened[Host].node[x] # disk[Host].node[x] => MayWriteHost(x)
        <5>1. PICK n \in {Dir, File(Empty)} : opened = Put(disk, Host, res.path, n)
          BY <1>2, <1>3, <2>3, <3>2, OpenedIs, <1>1
        <5>2. n \in Nodes
          BY ResolveAssumption DEF Nodes
        <5>3. /\ opened[Host].node = [disk[Host].node EXCEPT ![res.path] = n]
              /\ opened[Host].whiteout = disk[Host].whiteout /\ opened[Host].opaque = disk[Host].opaque
          BY <1>1, <1>2, <5>1, <5>2, PutIs, LayersAre
        <5>4. disk[Host].node \in [Paths -> Nodes]
          BY <1>1, LayersAre DEF Disks, Layer
        <5> HIDE DEF opened, res
        <5>5. QED
          BY <4>1, <5>3, <5>4
      <4> HIDE DEF opened
      <4>4. QED
        BY <4>2, <4>3, HostOnly
    <3>3. QED
      BY <3>1, <3>2
  <2>4. QED
    BY <1>3, <2>1, <2>2, <2>3, LayersAre
<1>6. HostKept /\ TreeInv'
  BY <1>4, <1>5, DiskStays
<1>7. record # NoRecord => HostShown(record)
  BY <1>2
<1>8. h.record = record
  BY DEF NewHandle
<1> HIDE DEF r, res, i, opened, record, h
<1>9. OthersKeep(p) /\ RecordShows(p)'
  <2>1. CASE handle' = handle
    BY <2>1, HandlesStay
  <2>2. CASE handle' = [handle EXCEPT ![p] = h]
    <3>1. handle'[p] = h /\ \A q \in Procs : q # p => handle'[q] = handle[q]
      BY <2>2 DEF HostInv, WriteInv, TypeInv
    <3>2. QED
      BY <1>7, <1>8, <3>1 DEF OthersKeep, RecordShows, HostShown, ToHost, WritesToHost, Exists
  <2>3. QED
    BY <1>4, <2>1, <2>2
<1>10. CASE Return(p)
  BY <1>4, <1>6, <1>9, <1>10, HostEnds
<1>11. CASE Goto(p, "record")
  BY <1>1, <1>4, <1>6, <1>9, <1>11, HostGoesOn
<1>12. QED
  BY <1>4, <1>6, <1>10, <1>11

LEMMA RecordHandleHost ==
    ASSUME HostInv, MergeIsConvex, WriteInv', NEW p \in Procs, RecordHandle(p) PROVE HostKept /\ HostInv'
<1> DEFINE found == Resolve(disk, iso, Res(p).path, FALSE, Follow(Req(p)))
<1>1. /\ ~At(p, "idle") /\ ProcTypes /\ Return(p) /\ iso' = iso /\ TypeInv /\ disk' = disk
      /\ handle[p].open /\ handle' = [handle EXCEPT ![p].record = RecordOf(found)]
  BY DEF RecordHandle, At, HostInv, WriteInv, TypeInv, ProcTypes
<1>2. HostShown(found)
  BY <1>1, InCallIs, FoundShows
<1> HIDE DEF found
<1>3. handle[p] \in OpenHandle
  BY <1>1, HandleIs
<1>4. /\ handle'[p].record = RecordOf(found)
      /\ \A q \in Procs : q # p => handle'[q] = handle[q]
  BY <1>1, <1>3 DEF TypeInv, OpenHandle
<1>5. OthersKeep(p) /\ RecordShows(p)'
  BY <1>2, <1>4 DEF OthersKeep, RecordShows, RecordOf, HostShown, ToHost, WritesToHost, Exists
<1>6. HostKept /\ TreeInv'
  BY <1>1, DiskStays
<1>7. QED
  BY <1>1, <1>5, <1>6, HostEnds


\* A step which writes one entry of a layer, where it may be written.
LEMMA EntryWritten ==
    ASSUME HostInv, NEW i \in Layers, NEW q \in Paths, NEW n \in Nodes, MayWrite(i, q),
           IsTree(Put(disk, i, q, n)[i]), disk' = Put(disk, i, q, n)
    PROVE  HostKept /\ TreeInv'
<1> DEFINE e == Put(disk, i, q, n)
<1>1. disk \in Disks
  BY DEF HostInv, WriteInv, TypeInv
<1>2. /\ OnlyIn(i, disk, e) /\ e[i].node = [disk[i].node EXCEPT ![q] = n]
      /\ e[i].whiteout = disk[i].whiteout /\ e[i].opaque = disk[i].opaque
  BY <1>1, PutIs
<1>3. disk' = e /\ IsTree(e[i])
  OBVIOUS
<1>4. disk[i].node \in [Paths -> Nodes]
  BY <1>1 DEF Disks, Layer
<1> HIDE DEF e
<1>5. CASE i = Upper
  BY <1>2, <1>3, <1>5, UpperOnly
<1>6. CASE i = Host /\ MayWriteHost(q)
  <2>1. \A x \in Paths : e[Host].node[x] # disk[Host].node[x] => MayWriteHost(x)
    BY <1>2, <1>4, <1>6
  <2>2. QED
    BY <1>2, <1>3, <1>6, <2>1, HostOnly
<1>7. QED
  BY <1>5, <1>6 DEF MayWrite

LEMMA EntryDeleted ==
    ASSUME HostInv, NEW i \in Layers, NEW q \in Paths, MayWrite(i, q), disk' = DeleteOne(disk, i, q)
    PROVE  HostKept /\ TreeInv'
<1>1. disk \in Disks /\ None \in Nodes /\ i \in {Upper, Host}
  BY DEF HostInv, WriteInv, TypeInv, Nodes, MayWrite
<1>2. IsTree(disk[i])
  BY <1>1 DEF HostInv, TreeInv
<1>3. CASE disk' = disk
  BY <1>3, DiskStays
<1>4. CASE DeleteOne(disk, i, q) = Put(disk, i, q, None)
  <2>1. IsTree(Put(disk, i, q, None)[i])
    BY <1>1, <1>2, <1>4, TreeDeleteOne
  <2>2. QED
    BY <1>1, <1>4, <2>1, EntryWritten
<1>5. QED
  BY <1>1, <1>3, <1>4, DeleteOneIs

LEMMA ObjectClosed ==
    ASSUME HostInv, NEW p \in Procs, handle[p].open, disk' = CloseObject(disk, handle[p])
    PROVE  HostKept /\ TreeInv'
<1>1. handle[p].at[1] \in Layers /\ handle[p].at[2] \in Paths
  BY HandleIs DEF HostInv, WriteInv
<1>2. CASE handle[p].pending
  BY <1>1, <1>2, EntryDeleted DEF CloseObject, HostInv, WriteInv, HandleFits
<1>3. CASE ~handle[p].pending
  BY <1>3, DiskStays DEF CloseObject
<1>4. QED
  BY <1>2, <1>3

\* A step which leaves the calls as they are.
LEMMA CallsStay ==
    ASSUME HostInv, MergeIsConvex, WriteInv', HostKept, TreeInv', iso' = iso, proc' = proc, NEW p \in Procs,
           At(p, "idle"), OthersKeep(p), RecordShows(p)'
    PROVE  HostInv'
<1>1. HostHolds(p)' /\ ResultsShow(p)' /\ MovesFit(p)' /\ FolderFits(p)'
  BY PlacesApart DEF HostHolds, ResultsShow, RecordShows, MovesFit, FolderFits, At
<1>2. QED
  BY <1>1, HostStep

LEMMA WriteHost ==
    ASSUME HostInv, MergeIsConvex, WriteInv', NEW p \in Procs, NEW c \in Written, Write(p, c)
    PROVE  HostKept /\ HostInv'
<1> DEFINE i == handle[p].at[1]
           q == handle[p].at[2]
<1>1. /\ handle[p].open /\ i \in Layers /\ q \in Paths /\ MayWrite(i, q) /\ disk \in Disks
      /\ IsTree(disk[Upper]) /\ IsTree(disk[Host])
  BY HandleIs DEF HostInv, WriteInv, TypeInv, TreeInv, HandleFits, Write, Denotes
<1>2. File(c) \in Nodes
  BY FilesystemAssumption DEF Nodes
<1>3. disk' = Put(disk, i, q, File(c)) /\ NodeAt(disk, i, q).kind = "file"
  BY DEF Write
<1> HIDE DEF i, q
<1>4. disk[i].node[q] # Dir /\ disk[i].node[q] # None
  BY <1>1, <1>3 DEF NodeAt, Dir, None
<1>5. IsTree(disk[i])
  BY <1>1 DEF MayWrite
<1>6. IsTree(Put(disk, i, q, File(c))[i])
  BY <1>1, <1>2, <1>4, <1>5, TreePut
<1>7. HostKept /\ TreeInv'
  BY <1>1, <1>2, <1>3, <1>6, EntryWritten
<1>8. OthersKeep(p) /\ RecordShows(p)' /\ iso' = iso /\ proc' = proc /\ At(p, "idle")
  BY HandlesStay DEF Write
<1>9. QED
  BY <1>7, <1>8, CallsStay

LEMMA SetDeleteHost ==
    ASSUME HostInv, MergeIsConvex, WriteInv', NEW p \in Procs, SetDelete(p)
    PROVE  HostKept /\ HostInv'
<1>1. /\ iso' = iso /\ proc' = proc /\ disk' = disk /\ handle[p].open /\ At(p, "idle")
      /\ handle' = [handle EXCEPT ![p].pending = TRUE] /\ TypeInv
  BY DEF SetDelete, Denotes, HostInv, WriteInv
<1>2. handle[p] \in OpenHandle
  BY <1>1, HandleIs
<1>3. /\ handle'[p].open /\ handle'[p].record = handle[p].record
      /\ \A q \in Procs : q # p => handle'[q] = handle[q]
  BY <1>1, <1>2 DEF TypeInv, OpenHandle
<1>4. OthersKeep(p) /\ RecordShows(p)'
  BY <1>1, <1>3 DEF OthersKeep, RecordShows, HostInv, ResultsShow, HostShown, ToHost, WritesToHost,
                    Exists
<1>5. HostKept /\ TreeInv'
  BY <1>1, DiskStays
<1>6. QED
  BY <1>1, <1>4, <1>5, CallsStay

\* A process without a handle keeps the records of the others.
LEMMA HandleGone ==
    ASSUME HostInv, NEW p \in Procs, handle' = [handle EXCEPT ![p] = NoHandle]
    PROVE  OthersKeep(p) /\ RecordShows(p)' /\ ~handle'[p].open
<1>1. handle'[p] = NoHandle /\ \A q \in Procs : q # p => handle'[q] = handle[q]
  BY DEF HostInv, WriteInv, TypeInv
<1>2. QED
  BY <1>1 DEF OthersKeep, RecordShows, NoHandle

LEMMA CloseHost ==
    ASSUME HostInv, MergeIsConvex, WriteInv', NEW p \in Procs, Close(p) PROVE HostKept /\ HostInv'
<1> DEFINE h == handle[p]
           r == [call |-> "close", path |-> h.path, disp |-> "open", edit |-> FALSE, dir |-> FALSE]
<1>1. /\ h.open /\ disk' = CloseObject(disk, h) /\ iso' = iso /\ handle' = [handle EXCEPT ![p] = NoHandle]
      /\ ((Call(p, "check", r, h.record) /\ h.record # NoRecord) \/ proc' = proc)
      /\ At(p, "idle")
  BY DEF Close
<1>2. HostKept /\ TreeInv'
  BY <1>1, ObjectClosed
<1>3. OthersKeep(p) /\ RecordShows(p)'
  BY <1>1, HandleGone
<1>4. CASE Call(p, "check", r, h.record) /\ h.record # NoRecord
  <2>1. h.record \in Results /\ HostShown(h.record)
    BY <1>1, <1>4, HandleIs DEF HostInv, WriteInv, ResultsShow
  <2> DEFINE record == h.record
  <2>2. Call(p, "check", r, record)
    BY <1>4
  <2> HIDE DEF h, r, record
  <2>3. record \in Results /\ HostShown(record)
    BY <2>1 DEF record
  <2>4. "check" \notin OpenPlaces
    BY DEF OpenPlaces
  <2>5. HostInv'
    BY <1>1, <1>2, <1>3, <2>2, <2>3, <2>4, HostBegins
  <2>6. QED
    BY <1>2, <2>5
<1>5. CASE proc' = proc
  <2>1. HostInv'
    BY <1>1, <1>2, <1>3, <1>5, CallsStay
  <2>2. QED
    BY <1>2, <2>1
<1>6. QED
  BY <1>1, <1>4, <1>5

LEMMA DeleteFileHost ==
    ASSUME HostInv, MergeIsConvex, WriteInv', NEW p \in Procs, NEW r \in Requests, DeleteFile(p, r)
    PROVE  HostKept /\ HostInv'
<1> DEFINE res == Resolve(disk, iso, r.path, FALSE, "Parent")
<1>1. res \in Results /\ HostShown(res)
  BY RequestIs, FoundShows
<1>2. Call(p, "check", r, res)
  BY DEF DeleteFile
<1>3. HostKept /\ TreeInv' /\ iso' = iso /\ OthersKeep(p) /\ RecordShows(p)'
  BY DiskStays, HandlesStay DEF DeleteFile
<1>4. "check" \notin OpenPlaces
  BY DEF OpenPlaces
<1> HIDE DEF res
<1>5. HostInv'
  BY <1>1, <1>2, <1>3, <1>4, HostBegins
<1>6. QED
  BY <1>3, <1>5

\* A call which goes on to the host has seen that nothing lies below its folder.
LEMMA DeleteChecksHost ==
    ASSUME HostInv, MergeIsConvex, WriteInv', NEW p \in Procs, DeleteChecks(p)
    PROVE  HostKept /\ HostInv'
<1>1. /\ ~At(p, "idle") /\ ProcTypes /\ iso' = iso /\ disk' = disk
      /\ Follows(proc[p].pc, "host") /\ Follows(proc[p].pc, "upper")
  BY DEF DeleteChecks, At, HostInv, WriteInv, TypeInv, ProcTypes, Follows, DeletePlaces, LastPlaces
<1>2. HostKept /\ TreeInv' /\ OthersKeep(p) /\ RecordShows(p)'
  BY DiskStays, HandlesStay DEF DeleteChecks
<1>3. \/ Return(p) \/ Goto(p, "upper")
      \/ /\ Goto(p, "host") /\ ToHost(Res(p)) /\ Exists(Res(p))
         /\ Res(p).kind = "dir" => \A i \in Res(p).hits : Below(disk, i, Res(p).path) = {}
  BY DEF DeleteChecks
<1>4. CASE Return(p)
  BY <1>1, <1>2, <1>4, HostEnds
<1>5. CASE Goto(p, "upper")
  BY <1>1, <1>2, <1>5, HostGoesOn
<1>6. CASE /\ Goto(p, "host") /\ ToHost(Res(p)) /\ Exists(Res(p))
           /\ Res(p).kind = "dir" => \A i \in Res(p).hits : Below(disk, i, Res(p).path) = {}
  <2>1. ResultsShow(p) /\ Host \in Res(p).hits
    BY <1>1, <1>6 DEF HostInv, ResultsShow, HostShown
  <2>2. /\ proc'[p] = [pc |-> "host", req |-> Req(p), res |-> Res(p)]
        /\ \A q \in Procs : q # p => proc'[q] = proc[q]
    BY <1>1, <1>6, GotoTyped DEF CopyPlaces
  <2>3. Res(p)' = Res(p) /\ proc'[p].pc = "host"
    BY <2>2 DEF Res
  <2>4. HostHolds(p)' /\ MovesFit(p)'
    BY <2>3 DEF HostHolds, MovesFit, OpenPlaces
  <2>5. ResultsShow(p)'
    BY <1>1, <1>2, <2>1, <2>3 DEF ResultsShow, RecordShows, HostShown, ToHost, WritesToHost, Exists
  <2>6. FolderFits(p)'
    BY <1>1, <1>6, <2>1, <2>3 DEF FolderFits, Below
  <2>7. QED
    BY <1>1, <1>2, <2>2, <2>4, <2>5, <2>6, HostStep
<1>7. QED
  BY <1>2, <1>3, <1>4, <1>5, <1>6

LEMMA DeleteInHostHost ==
    ASSUME HostInv, MergeIsConvex, WriteInv', NEW p \in Procs, DeleteInHost(p)
    PROVE  HostKept /\ HostInv'
<1> DEFINE q == Res(p).path
           e == DeleteEntry(disk, Host, Res(p))
<1>1. /\ ~At(p, "idle") /\ At(p, "host") /\ ProcTypes /\ disk \in Disks /\ Host \in Layers
      /\ Follows(proc[p].pc, "upper") /\ IsTree(disk[Host]) /\ FolderFits(p) /\ CallFits(p)
      /\ disk[Host].whiteout = {} /\ disk[Host].opaque = {}
  BY LayersAre DEF DeleteInHost, At, HostInv, WriteInv, TypeInv, TreeInv, ProcTypes, Follows,
                   DeletePlaces, LastPlaces
<1>2. q \in Paths /\ MayWriteHost(q)
  BY <1>1, InCallIs DEF CallFits, ToHost, WritesToHost, ModeFits, MayWriteHost
<1>3. iso' = iso /\ disk' = e /\ Goto(p, "upper")
  BY DEF DeleteInHost
<1>4. OthersKeep(p) /\ RecordShows(p)'
  BY HandlesStay DEF DeleteInHost
<1>5. HostKept /\ TreeInv'
  <2>1. CASE Res(p).kind = "dir"
    <3>1. e = RemoveAll(disk, Host, q)
      BY <2>1 DEF DeleteEntry
    <3>2. /\ OnlyIn(Host, disk, e) /\ IsTree(e[Host])
          /\ e[Host].node = [x \in Paths |-> IF IsPrefix(q, x) THEN None ELSE disk[Host].node[x]]
          /\ e[Host].whiteout = disk[Host].whiteout /\ e[Host].opaque = disk[Host].opaque
      BY <1>1, <1>2, <3>1, RemoveAllIs, TreeRemoveAll
    <3>3. ASSUME NEW x \in Paths, e[Host].node[x] # disk[Host].node[x] PROVE MayWriteHost(x)
      <4>1. IsPrefix(q, x) /\ disk[Host].node[x] # None
        BY <3>2, <3>3
      <4>2. CASE x = q
        BY <1>2, <4>2
      <4>3. CASE x # q
        BY <1>1, <2>1, <4>1, <4>3 DEF FolderFits, IsStrictPrefix
      <4>4. QED
        BY <4>2, <4>3
    <3> HIDE DEF e, q
    <3>4. QED
      BY <1>3, <3>2, <3>3, HostOnly
  <2>2. CASE Res(p).kind # "dir"
    <3>1. e = DeleteOne(disk, Host, q) /\ MayWrite(Host, q)
      BY <1>2, <2>2 DEF DeleteEntry, MayWrite
    <3> HIDE DEF e, q
    <3>2. QED
      BY <1>1, <1>2, <1>3, <3>1, EntryDeleted
  <2>3. QED
    BY <2>1, <2>2
<1>6. HostInv'
  BY <1>1, <1>3, <1>4, <1>5, HostGoesOn
<1>7. QED
  BY <1>5, <1>6

LEMMA DeleteInUpperHost ==
    ASSUME HostInv, MergeIsConvex, WriteInv', NEW p \in Procs, DeleteInUpper(p)
    PROVE  HostKept /\ HostInv'
<1>1. /\ ~At(p, "idle") /\ ProcTypes /\ disk \in Disks /\ Upper \in Layers
      /\ Follows(proc[p].pc, "mark") /\ IsTree(disk[Upper])
  BY LayersAre DEF DeleteInUpper, At, HostInv, WriteInv, TypeInv, TreeInv, ProcTypes, Follows,
                   DeletePlaces, LastPlaces
<1>2. Res(p) \in Results /\ Res(p).path \in Paths
  BY <1>1, InCallIs
<1>3. /\ iso' = iso /\ (Goto(p, "mark") \/ Return(p))
      /\ disk' \in {disk, DeleteOne(disk, Upper, Res(p).path), RemoveAll(disk, Upper, Res(p).path)}
  BY DEF DeleteInUpper, DeleteEntry
<1>4. OthersKeep(p) /\ RecordShows(p)'
  BY HandlesStay DEF DeleteInUpper
<1>5. HostKept /\ TreeInv'
  <2>1. CASE disk' = disk
    BY <2>1, DiskStays
  <2>2. CASE disk' = DeleteOne(disk, Upper, Res(p).path)
    BY <1>1, <1>2, <2>2, EntryDeleted DEF MayWrite
  <2>3. CASE disk' = RemoveAll(disk, Upper, Res(p).path)
    <3>1. /\ OnlyIn(Upper, disk, RemoveAll(disk, Upper, Res(p).path))
          /\ IsTree(RemoveAll(disk, Upper, Res(p).path)[Upper])
      BY <1>1, <1>2, RemoveAllIs, TreeRemoveAll
    <3>2. QED
      BY <2>3, <3>1, UpperOnly
  <2>4. QED
    BY <1>3, <2>1, <2>2, <2>3
<1>6. CASE Return(p)
  BY <1>3, <1>4, <1>5, <1>6, HostEnds
<1>7. CASE Goto(p, "mark")
  BY <1>1, <1>3, <1>4, <1>5, <1>7, HostGoesOn
<1>8. QED
  BY <1>3, <1>5, <1>6, <1>7

LEMMA MarkDeletedHost ==
    ASSUME HostInv, MergeIsConvex, WriteInv', NEW p \in Procs, MarkDeleted(p)
    PROVE  HostKept /\ HostInv'
<1> DEFINE q == Res(p).path
           d == Folders(disk, Upper, q)
           e == [d EXCEPT ![Upper].whiteout = d[Upper].whiteout \cup {q}]
<1>1. /\ ~At(p, "idle") /\ ProcTypes /\ disk \in Disks /\ Upper \in Layers /\ IsTree(disk[Upper])
  BY LayersAre DEF MarkDeleted, At, HostInv, WriteInv, TypeInv, TreeInv, ProcTypes
<1>2. q \in Paths
  BY <1>1, InCallIs
<1>3. OnlyIn(Upper, disk, d) /\ IsTree(d[Upper]) /\ d \in Disks
  BY <1>1, <1>2, FoldersIs, TreeFolders DEF OnlyIn
<1>4. iso' = iso /\ Return(p)
  BY DEF MarkDeleted
<1>5. disk' = d \/ (HasFolder(d, Upper, q) /\ disk' = e)
  <2>1. disk' = IF HasFolder(d, Upper, q) THEN [d EXCEPT ![Upper].whiteout = @ \cup {q}] ELSE d
    BY DEF MarkDeleted
  <2> HIDE DEF d, q
  <2>2. QED
    BY <1>1, <1>3, <2>1 DEF Disks
<1>6. OthersKeep(p) /\ RecordShows(p)'
  BY HandlesStay DEF MarkDeleted
<1>7. OnlyIn(Upper, disk, e) /\ (HasFolder(d, Upper, q) => IsTree(e[Upper]))
  <2>1. d[Upper].whiteout \cup {q} \in SUBSET Paths
    BY <1>1, <1>2, <1>3 DEF Disks, Layer
  <2> HIDE DEF d, q
  <2>2. OnlyIn(Upper, d, e)
    BY <1>1, <1>3, <2>1, MarkersAre
  <2>3. HasFolder(d, Upper, q) => IsTree(e[Upper])
    BY <1>1, <1>2, <1>3, TreeMarked
  <2> HIDE DEF e
  <2>4. QED
    BY <1>1, <1>3, <2>2, <2>3, OnlyInTransitive
<1> HIDE DEF q, d, e
<1>8. HostKept /\ TreeInv'
  BY <1>3, <1>5, <1>7, UpperOnly
<1>9. QED
  BY <1>4, <1>6, <1>8, HostEnds

LEMMA RenameHost ==
    ASSUME HostInv, MergeIsConvex, "renames folders" \notin Habits, WriteInv', NEW p \in Procs, NEW r \in Requests,
           Rename(p, r)
    PROVE  HostKept /\ HostInv'
<1> DEFINE res == Resolve(disk, iso, r.path, FALSE, "Parent")
           s == [call |-> "rename", path |-> r.path, disp |-> r.disp, edit |-> r.edit, dir |-> r.dir,
                 source |-> ViewPathOfHandle(handle[p])]
<1>1. /\ \E pc \in {"unmark", "move"} : Call(p, pc, s, res)
      /\ iso' = iso /\ handle' = handle /\ disk' = disk /\ ~handle[p].dir
  BY DEF Rename, RenameResolved
<1>2. res \in Results /\ HostShown(res)
  BY RequestIs, FoundShows
<1> HIDE DEF res, s
<1>3. PICK pc \in {"unmark", "move"} : Call(p, pc, s, res)
  BY <1>1
<1>4. HostKept /\ TreeInv' /\ OthersKeep(p) /\ RecordShows(p)' /\ pc \notin OpenPlaces
  BY <1>1, DiskStays, HandlesStay DEF OpenPlaces
<1>5. HostInv'
  BY <1>1, <1>2, <1>3, <1>4, HostBegins
<1>6. QED
  BY <1>4, <1>5

LEMMA RenameUnhidesHost ==
    ASSUME HostInv, MergeIsConvex, WriteInv', NEW p \in Procs, RenameUnhides(p)
    PROVE  HostKept /\ HostInv'
<1> DEFINE e == [disk EXCEPT ![Upper].whiteout = disk[Upper].whiteout \ {Res(p).path}]
<1>1. /\ disk \in Disks /\ disk[Upper] \in Layer /\ IsTree(disk[Upper]) /\ Upper \in Layers
      /\ ProcTypes /\ ~At(p, "idle") /\ MovesFit(p)
  BY LayersAre DEF HostInv, WriteInv, TypeInv, Disks, TreeInv, ProcTypes, RenameUnhides, At
<1>2. Res(p).path \in Paths /\ disk[Upper].whiteout \ {Res(p).path} \in SUBSET Paths
  BY <1>1, InCallIs DEF Layer
<1>3. disk' = e
  BY <1>1 DEF RenameUnhides, Disks
<1>4. OnlyIn(Upper, disk, e) /\ IsTree(e[Upper])
  BY <1>1, <1>2, MarkersAre, TreeMarked
<1> HIDE DEF e
<1>5. HostKept /\ TreeInv'
  BY <1>3, <1>4, UpperOnly
<1>6. /\ Goto(p, "move") /\ Follows(proc[p].pc, "move") /\ iso' = iso /\ ~handle'[p].dir
      /\ OthersKeep(p) /\ RecordShows(p)'
  BY <1>1, HandlesStay DEF RenameUnhides, At, Follows, MovePlaces, MovesFit
<1>7. HostInv'
  BY <1>5, <1>6, HostGoesOn
<1>8. QED
  BY <1>5, <1>7

\* An object which is no folder moves from one place which may be written to another.
LEMMA ObjectMoved ==
    ASSUME HostInv, NEW i \in Layers, NEW from \in Paths, NEW j \in Layers, NEW to \in Paths,
           MayWrite(i, from), MayWrite(j, to), disk[i].node[from] \notin {None, Dir},
           HasFolder(Folders(disk, j, to), j, to), Folders(disk, j, to)[j].node[to] # Dir,
           ~IsPrefix(from, to), disk' = Moved(Folders(disk, j, to), i, from, j, to)
    PROVE  HostKept /\ TreeInv'
<1> DEFINE d     == Folders(disk, j, to)
           n     == d[i].node[from]
           taken == Put(d, j, to, n)
           moved == Put(taken, i, from, None)
<1>1. /\ disk \in Disks /\ IsTree(disk[Upper]) /\ IsTree(disk[Host]) /\ None \in Nodes
      /\ i \in {Upper, Host} /\ j \in {Upper, Host} /\ Upper # Host /\ Host \in Layers /\ Upper \in Layers
  BY LayersAre DEF HostInv, WriteInv, TypeInv, TreeInv, MayWrite, Nodes
<1>2. /\ OnlyIn(j, disk, d) /\ d \in Disks /\ IsTree(d[j])
      /\ d[j].whiteout = disk[j].whiteout /\ d[j].opaque = disk[j].opaque
      /\ \A x \in Paths : d[j].node[x] = disk[j].node[x] \/ (disk[j].node[x] = None /\ IsStrictPrefix(x, to))
  <2>1. IsTree(disk[j])
    BY <1>1
  <2>2. IsTree(d[j])
    BY <1>1, <2>1, TreeFolders
  <2>3. /\ OnlyIn(j, disk, d) /\ d[j].whiteout = disk[j].whiteout /\ d[j].opaque = disk[j].opaque
        /\ \A x \in Paths : d[j].node[x] = disk[j].node[x] \/ (disk[j].node[x] = None /\ IsStrictPrefix(x, to))
    BY <1>1, FoldersIs
  <2> HIDE DEF d
  <2>4. QED
    BY <2>2, <2>3 DEF OnlyIn
<1>3. HasFolder(d, j, to) /\ d[j].node[to] # Dir
  OBVIOUS
<1>4. disk' = Moved(d, i, from, j, to)
  OBVIOUS
<1> HIDE DEF d
<1>5. IsTree(d[Upper]) /\ IsTree(d[Host]) /\ d[i].node[from] = disk[i].node[from] /\ n \in Nodes
  <2>1. IsTree(d[Upper]) /\ IsTree(d[Host])
    BY <1>1, <1>2 DEF OnlyIn
  <2>2. d[i].node[from] = disk[i].node[from]
    BY <1>1, <1>2 DEF OnlyIn
  <2>3. QED
    BY <1>2, <2>1, <2>2, NodeOfLayer
<1>6. n \notin {None, Dir} /\ from # to
  BY <1>5, PrefixOfItself
<1>7. disk' = moved
  BY <1>1, <1>2, <1>3, <1>4, <1>5, <1>6, MovedOne
<1> HIDE DEF n
<1>8. /\ OnlyIn(j, d, taken) /\ taken \in Disks /\ IsTree(taken[Upper]) /\ IsTree(taken[Host])
      /\ taken[j].node = [d[j].node EXCEPT ![to] = n]
      /\ taken[j].whiteout = d[j].whiteout /\ taken[j].opaque = d[j].opaque
  <2>1. IsTree(taken[j])
    BY <1>1, <1>2, <1>3, <1>5, TreePut
  <2>2. /\ OnlyIn(j, d, taken) /\ taken[j].node = [d[j].node EXCEPT ![to] = n]
        /\ taken[j].whiteout = d[j].whiteout /\ taken[j].opaque = d[j].opaque
    BY <1>2, <1>5, PutIs
  <2> HIDE DEF taken
  <2>3. QED
    BY <1>1, <1>5, <2>1, <2>2 DEF OnlyIn
<1> HIDE DEF taken
<1>9. d[i].node \in [Paths -> Nodes] /\ d[j].node \in [Paths -> Nodes] /\ taken[i].node \in [Paths -> Nodes]
  BY <1>2, <1>8 DEF Disks, Layer
<1>10. taken[i].node[from] = n
  BY <1>6, <1>8, <1>9 DEF OnlyIn, n
<1>11. /\ OnlyIn(i, taken, moved) /\ IsTree(moved[Upper]) /\ IsTree(moved[Host])
       /\ moved[i].node = [taken[i].node EXCEPT ![from] = None]
       /\ moved[i].whiteout = taken[i].whiteout /\ moved[i].opaque = taken[i].opaque
  <2>1. IsTree(moved[i])
    BY <1>1, <1>6, <1>8, <1>10, TreePut
  <2>2. /\ OnlyIn(i, taken, moved) /\ moved[i].node = [taken[i].node EXCEPT ![from] = None]
        /\ moved[i].whiteout = taken[i].whiteout /\ moved[i].opaque = taken[i].opaque
    BY <1>1, <1>8, PutIs
  <2> HIDE DEF moved
  <2>3. QED
    BY <1>1, <1>8, <2>1, <2>2 DEF OnlyIn
<1> HIDE DEF moved
<1>12. moved[Host].whiteout = disk[Host].whiteout /\ moved[Host].opaque = disk[Host].opaque
  BY <1>1, <1>2, <1>8, <1>11 DEF OnlyIn
<1>13. ASSUME NEW x \in Paths, moved[Host].node[x] # disk[Host].node[x]
       PROVE  MayWriteHost(x) \/ (disk[Host].node[x] = None /\ \E y \in Paths : IsStrictPrefix(x, y) /\ MayWriteHost(y))
  <2>1. CASE moved[Host].node[x] # taken[Host].node[x]
    BY <1>1, <1>9, <1>11, <2>1 DEF OnlyIn, MayWrite
  <2>2. CASE taken[Host].node[x] # d[Host].node[x]
    BY <1>1, <1>8, <1>9, <2>2 DEF OnlyIn, MayWrite
  <2>3. CASE d[Host].node[x] # disk[Host].node[x]
    <3>1. j = Host
      BY <1>1, <1>2, <2>3 DEF OnlyIn
    <3>2. disk[Host].node[x] = None /\ IsStrictPrefix(x, to) /\ MayWriteHost(to)
      BY <1>1, <1>2, <2>3, <3>1 DEF MayWrite
    <3>3. QED
      BY <3>2
  <2>4. QED
    BY <1>13, <2>1, <2>2, <2>3
<1>14. QED
  BY <1>7, <1>11, <1>12, <1>13 DEF HostKept, TreeInv

LEMMA RenameMovesHost ==
    ASSUME HostInv, MergeIsConvex, WriteInv', NEW p \in Procs, RenameMoves(p)
    PROVE  HostKept /\ HostInv'
<1> DEFINE to == Res(p).path
           j == IF ToHost(Res(p)) THEN Host ELSE Upper
           d == Folders(disk, j, to)
           i == handle[p].at[1]
           from == handle[p].at[2]
<1>1. /\ ~At(p, "idle") /\ ProcTypes /\ disk \in Disks /\ iso' = iso /\ Follows(proc[p].pc, "hide")
      /\ TypeInv /\ handle[p].open /\ handle[p].edit /\ ~handle[p].dir /\ ModeFits(Res(p)) /\ HandleFits(p)
  BY DEF RenameMoves, At, Follows, MovePlaces, HostInv, WriteInv, TypeInv, ProcTypes, CallFits, MovesFit
<1>2. /\ i \in Layers /\ from \in Paths /\ MayWrite(i, from) /\ to \in Paths
      /\ j \in {Upper, Host} /\ j \in Layers /\ (j = Host => MayWriteHost(to)) /\ MayWrite(j, to)
  BY <1>1, HandleIs, InCallIs, LayersAre DEF HandleFits, MayWrite, MayWriteHost, ModeFits, ToHost,
         WritesToHost
<1>3. \/ /\ CanMove(d, p, j, to) /\ disk' = Moved(d, i, from, j, to) /\ Goto(p, "hide")
         /\ handle' = [q \in Procs |-> IF handle[q].open /\ handle[q].at = handle[p].at
                                       THEN [handle[q] EXCEPT !.at = <<j, to>>] ELSE handle[q]]
      \/ disk' = d /\ Return(p) /\ handle' = handle
  BY DEF RenameMoves
<1> HIDE DEF to, j, i, from
<1>4. CASE disk' = d /\ Return(p) /\ handle' = handle
  <2>1. HostKept /\ TreeInv'
    BY <1>2, <1>4, HostFolders
  <2>2. OthersKeep(p) /\ RecordShows(p)'
    BY <1>4, HandlesStay
  <2>3. QED
    BY <1>1, <1>4, <2>1, <2>2, HostEnds
<1>5. CASE /\ CanMove(d, p, j, to) /\ disk' = Moved(d, i, from, j, to) /\ Goto(p, "hide")
           /\ handle' = [q \in Procs |-> IF handle[q].open /\ handle[q].at = handle[p].at
                                         THEN [handle[q] EXCEPT !.at = <<j, to>>] ELSE handle[q]]
  <2>1. disk[i].node[from] \notin {None, Dir}
    BY <1>1, <1>2, <1>5 DEF CanMove, Denotes, Holds, NodeAt, i, from
  <2>2. /\ HasFolder(d, j, to) /\ d[j].node[to] # Dir /\ ~IsPrefix(from, to)
    <3>1. HasFolder(d, j, to) /\ ~IsPrefix(from, to) /\ (Holds(d, j, to) => NodeAt(d, j, to).kind = "file")
      BY <1>5 DEF CanMove, from
    <3>2. d[j].node[to] # Dir
      BY <1>2, <3>1 DEF Holds, NodeAt, Dir, None
    <3>3. QED
      BY <3>1, <3>2
  <2>3. HostKept /\ TreeInv'
    BY <1>2, <1>5, <2>1, <2>2, ObjectMoved
  <2>4. <<j, to>> \in Layers \X Paths
    BY <1>2
  <2>5. \A q \in Procs :
           /\ handle'[q].open = handle[q].open
           /\ handle[q].open => handle'[q].record = handle[q].record /\ handle'[q].dir = handle[q].dir
    BY <1>1, <1>5, <2>4, MovedHandles
  <2>6. OthersKeep(p) /\ RecordShows(p)'
    BY <1>1, <2>5 DEF OthersKeep, RecordShows, HostInv, ResultsShow, HostShown, ToHost, WritesToHost,
                      Exists
  <2>7. HostInv'
    BY <1>1, <1>5, <2>3, <2>6, HostGoesOn
  <2>8. QED
    BY <2>3, <2>7
<1>6. QED
  BY <1>3, <1>4, <1>5

LEMMA HideSourceHost ==
    ASSUME HostInv, MergeIsConvex, WriteInv', NEW p \in Procs, HideSource(p)
    PROVE  HostKept /\ HostInv'
<1> DEFINE res == Resolve(disk, iso, Req(p).source, FALSE, "Parent")
<1>1. ~At(p, "idle") /\ proc[p].pc \in MovePlaces /\ ProcTypes /\ iso' = iso
  BY DEF HideSource, At, MovePlaces, HostInv, WriteInv, TypeInv, ProcTypes
<1>2. Req(p).source \in Paths
  BY <1>1, InCallIs DEF Renamings
<1>3. res \in Results /\ HostShown(res) /\ (Call(p, "upper", Req(p), res) \/ Return(p))
  BY <1>2, FoundShows DEF HideSource
<1>4. HostKept /\ TreeInv' /\ OthersKeep(p) /\ RecordShows(p)' /\ "upper" \notin OpenPlaces
  BY DiskStays, HandlesStay DEF HideSource, OpenPlaces
<1> HIDE DEF res
<1>5. CASE Return(p)
  BY <1>1, <1>4, <1>5, HostEnds
<1>6. CASE Call(p, "upper", Req(p), res)
  <2>1. HostInv'
    BY <1>1, <1>3, <1>4, <1>6, HostBegins
  <2>2. QED
    BY <1>4, <2>1
<1>7. QED
  BY <1>3, <1>4, <1>5, <1>6

LEMMA KilledHost ==
    ASSUME HostInv, MergeIsConvex, WriteInv', NEW p \in Procs, Killed(p)
    PROVE  HostKept /\ HostInv'
<1>1. /\ iso' = iso /\ Return(p) /\ handle' = [handle EXCEPT ![p] = NoHandle]
      /\ disk' = IF handle[p].open THEN CloseObject(disk, handle[p]) ELSE disk
  BY DEF Killed
<1>2. HostKept /\ TreeInv'
  BY <1>1, ObjectClosed, DiskStays
<1>3. OthersKeep(p) /\ RecordShows(p)'
  BY <1>1, HandleGone
<1>4. QED
  BY <1>1, <1>2, <1>3, HostEnds

LEMMA NextHost ==
    ASSUME HostInv, MergeIsConvex, WritersAsk, "renames folders" \notin Habits, [Next]_vars
    PROVE  HostKept /\ HostInv'
<1>1. WriteInv'
  BY NextWrites DEF HostInv
<1>2. CASE UNCHANGED vars
  <2>1. /\ disk' = disk /\ iso' = iso /\ proc' = proc /\ handle' = handle
    BY <1>2 DEF vars
  <2>2. HostKept /\ TreeInv'
    BY <2>1, DiskStays
  <2>3. \A p \in Procs : HostHolds(p)' /\ ResultsShow(p)' /\ MovesFit(p)' /\ FolderFits(p)'
    BY <2>1 DEF HostInv, HostHolds, ResultsShow, HostShown, ToHost, WritesToHost, Exists, MovesFit,
                FolderFits,
       MayWriteHost, At, Res
  <2>4. QED
    BY <1>1, <2>1, <2>2, <2>3 DEF HostInv
<1>3. CASE Next
  <2>1. PICK p \in Procs : Begins(p) \/ Goes(p) \/ Uses(p) \/ Killed(p)
    BY <1>3 DEF Next
  <2>2. CASE Begins(p)
    BY <1>1, <2>2, OpenFileHost, DeleteFileHost, RenameHost DEF Begins
  <2>3. CASE Goes(p)
    BY <1>1, <2>3, UnhideHost, ResolveAgainHost, MakeFolderAgainHost, MakeOpaqueHost, MakeFoldersHost,
       CopyStartHost, CopyFillHost, CopyBreaksHost, CopiedHost, OpensHost, RecordHandleHost,
       DeleteChecksHost, DeleteInHostHost, DeleteInUpperHost, MarkDeletedHost, RenameUnhidesHost,
       RenameMovesHost, HideSourceHost DEF Goes
  <2>4. CASE Uses(p)
    BY <1>1, <2>4, WriteHost, SetDeleteHost, CloseHost DEF Uses
  <2>5. CASE Killed(p)
    BY <1>1, <2>5, KilledHost
  <2>6. QED
    BY <2>1, <2>2, <2>3, <2>4, <2>5
<1>4. QED
  BY <1>2, <1>3

LEMMA InitHostInv == ASSUME Init PROVE HostInv
<1>1. WriteInv
  BY InitWriteInv
<1>2. PICK s \in Starts : disk = s.disk /\ iso = s.iso
  BY DEF Init
<1>3. TreeInv /\ disk[Host].whiteout = {} /\ disk[Host].opaque = {}
  BY <1>2, FilesystemAssumption DEF TreeInv
<1>4. \A p \in Procs : HostHolds(p) /\ ResultsShow(p) /\ MovesFit(p) /\ FolderFits(p)
  BY PlacesApart DEF Init, Idle, NoHandle, At, HostHolds, ResultsShow, MovesFit, FolderFits
<1>5. QED
  BY <1>1, <1>2, <1>3, <1>4 DEF HostInv

\* "The read-only layers are never written", with the host: it changes only at an entry
\* which the table lists as Merge, or where a folder above such an entry is made, and it
\* never carries a marker.  A folder between two Merge entries has to be one itself: the
\* delete of the upper one removes what is in it on the host.
THEOREM LayersAreKept ==
    ASSUME WritersAsk, MergeIsConvex, "renames folders" \notin Habits
    PROVE  Spec => LayersKept
<1>1. Init => HostInv
  BY InitHostInv
<1>2. HostInv /\ [Next]_vars => HostInv'
  BY NextHost
<1>3. HostInv /\ [Next]_vars => PackedKept /\ HostKept
  BY NextHost, NextWrites DEF HostInv
<1>4. HostInv /\ [Next]_vars =>
        [ /\ \A i \in 1..Lower : disk'[i] = disk[i]
          /\ disk'[Host].whiteout = disk[Host].whiteout /\ disk'[Host].opaque = disk[Host].opaque
          /\ \A q \in Paths : disk'[Host].node[q] # disk[Host].node[q] =>
                MayWriteHost(q)
                \/ (disk[Host].node[q] = None /\ \E r \in Paths : IsStrictPrefix(q, r) /\ MayWriteHost(r))]_vars
  BY <1>3 DEF PackedKept, HostKept
<1>5. QED
  BY <1>1, <1>2, <1>4, PTL DEF Spec, LayersKept

-----------------------------------------------------------------------------
(* The components of a path.                                               *)

LEMMA PrefixIs ==
    ASSUME NEW p \in Paths, NEW k \in 0..Len(p)
    PROVE  Prefix(p, k) \in Seq(PathNames) /\ Len(Prefix(p, k)) = k /\ \A i \in 1..k : Prefix(p, k)[i] = p[i]
<1>1. p \in Seq(PathNames) /\ Len(p) \in Nat /\ k \in Nat /\ k <= Len(p)
  BY PathSeq
<1>2. \A i \in 1..k : p[i] \in PathNames
  BY <1>1
<1>3. QED
  BY <1>1, <1>2, FirstNames DEF Prefix

\* Two sequences of names are equal when they have the same names.
LEMMA SameNames ==
    ASSUME NEW s \in Seq(PathNames), NEW t \in Seq(PathNames), Len(s) = Len(t), \A i \in 1..Len(s) : s[i] = t[i]
    PROVE  s = t
  BY SeqEqual

LEMMA PrefixFull == ASSUME NEW p \in Paths PROVE Prefix(p, Len(p)) = p
<1>1. p \in Seq(PathNames) /\ Len(p) \in Nat /\ Len(p) \in 0..Len(p)
  BY PathSeq
<1>2. Prefix(p, Len(p)) \in Seq(PathNames) /\ Len(Prefix(p, Len(p))) = Len(p)
      /\ \A i \in 1..Len(p) : Prefix(p, Len(p))[i] = p[i]
  BY <1>1, PrefixIs
<1>3. QED
  BY <1>1, <1>2, SameNames

LEMMA FrontOfPrefix ==
    ASSUME NEW p \in Paths, NEW k \in 1..Len(p)
    PROVE  Front(Prefix(p, k)) = Prefix(p, k - 1) /\ Prefix(p, k) # <<>>
<1> DEFINE q == Prefix(p, k)
<1>1. Len(p) \in Nat /\ k \in Nat /\ k \in 0..Len(p) /\ k - 1 \in 0..Len(p) /\ k - 1 \in Nat /\ k # 0
  BY PathSeq
<1>2. q \in Seq(PathNames) /\ Len(q) = k /\ \A i \in 1..k : q[i] = p[i]
  BY <1>1, PrefixIs
<1>3. \A i \in 1..(k - 1) : q[i] \in PathNames /\ i \in 1..k
  BY <1>1, <1>2
<1>4. /\ SubSeq(q, 1, k - 1) \in Seq(PathNames) /\ Len(SubSeq(q, 1, k - 1)) = k - 1
      /\ \A i \in 1..(k - 1) : SubSeq(q, 1, k - 1)[i] = q[i]
  BY <1>1, <1>3, FirstNames
<1>5. Front(q) \in Seq(PathNames) /\ Len(Front(q)) = k - 1 /\ \A i \in 1..(k - 1) : Front(q)[i] = p[i]
  BY <1>2, <1>3, <1>4 DEF Front
<1>6. /\ Prefix(p, k - 1) \in Seq(PathNames) /\ Len(Prefix(p, k - 1)) = k - 1
      /\ \A i \in 1..(k - 1) : Prefix(p, k - 1)[i] = p[i]
  BY <1>1, PrefixIs
<1>7. Front(q) = Prefix(p, k - 1)
  BY <1>5, <1>6, SameNames
<1>8. q # <<>>
  BY <1>1, <1>2
<1>9. QED
  BY <1>7, <1>8

\* The view is closed: what lies above a path of it is one, down from the longest.
LEMMA PrefixIn == ASSUME NEW p \in Paths, NEW k \in 0..Len(p) PROVE Prefix(p, k) \in Paths
<1> DEFINE S == {m \in 0..Len(p) : Prefix(p, Len(p) - m) \notin Paths}
<1>1. Len(p) \in Nat /\ k \in Nat /\ k <= Len(p)
  BY PathSeq
<1>2. ASSUME S # {} PROVE FALSE
  <2>1. PICK m \in S : \A n \in S : m <= n
    <3>1. S \subseteq Nat
      BY <1>1
    <3> HIDE DEF S
    <3>2. QED
      BY <1>2, <3>1, Minimum
  <2>2. m \in Nat /\ m <= Len(p) /\ Prefix(p, Len(p) - m) \notin Paths
    BY <1>1, <2>1
  <2>3. m # 0
    BY <1>1, <2>2, PrefixFull
  <2>4. /\ m - 1 \in 0..Len(p) /\ ~(m <= m - 1)
        /\ Len(p) - (m - 1) \in 1..Len(p) /\ Len(p) - (m - 1) - 1 = Len(p) - m
    BY <1>1, <2>2, <2>3
  <2>5. Prefix(p, Len(p) - (m - 1)) \in Paths
    BY <2>1, <2>4
  <2>6. Front(Prefix(p, Len(p) - (m - 1))) = Prefix(p, Len(p) - m) /\ Prefix(p, Len(p) - (m - 1)) # <<>>
    BY <2>4, FrontOfPrefix
  <2>7. QED
    BY <2>2, <2>5, <2>6, ResolveAssumption
<1>3. Len(p) - k \in 0..Len(p) /\ Len(p) - (Len(p) - k) = k
  BY <1>1
<1>4. QED
  BY <1>2, <1>3

LEMMA PrefixOfPrefix ==
    ASSUME NEW p \in Paths, NEW k \in 0..Len(p), NEW j \in 0..k
    PROVE  Prefix(Prefix(p, k), j) = Prefix(p, j)
<1>1. Len(p) \in Nat /\ k \in Nat /\ j \in Nat /\ j \in 0..Len(p) /\ \A i \in 1..j : i \in 1..k
  BY PathSeq
<1>2. Prefix(p, k) \in Paths /\ Len(Prefix(p, k)) = k /\ \A i \in 1..k : Prefix(p, k)[i] = p[i]
  BY PrefixIn, PrefixIs
<1>3. Prefix(Prefix(p, k), j) \in Seq(PathNames) /\ Len(Prefix(Prefix(p, k), j)) = j
      /\ \A i \in 1..j : Prefix(Prefix(p, k), j)[i] = Prefix(p, k)[i]
  BY <1>2, PrefixIs
<1>4. Prefix(p, j) \in Seq(PathNames) /\ Len(Prefix(p, j)) = j /\ \A i \in 1..j : Prefix(p, j)[i] = p[i]
  BY <1>1, PrefixIs
<1>5. QED
  BY <1>1, <1>2, <1>3, <1>4, SameNames

\* What lies above a path, by its length.
LEMMA AboveIs ==
    ASSUME NEW p \in Paths, NEW k \in 0..Len(p)
    PROVE  /\ Prefix(p, k) \in Paths /\ IsPrefix(Prefix(p, k), p)
           /\ k < Len(p) => IsStrictPrefix(Prefix(p, k), p)
<1>1. Prefix(p, k) \in Paths /\ Len(Prefix(p, k)) = k /\ Len(p) \in Nat /\ k \in Nat /\ k <= Len(p)
  BY PrefixIn, PrefixIs, PathSeq
<1>2. SubSeq(Prefix(p, k), 1, k) = SubSeq(p, 1, k)
  <2>1. Prefix(Prefix(p, k), k) = Prefix(p, k)
    BY <1>1, PrefixOfPrefix
  <2>2. QED
    BY <2>1 DEF Prefix
<1>3. IsPrefix(Prefix(p, k), p)
  BY <1>1, <1>2 DEF IsPrefix
<1>4. QED
  BY <1>1, <1>3 DEF IsStrictPrefix

\* A path which is not the root, and its folder.
LEMMA ChildIs ==
    ASSUME NEW q \in Paths, q # <<>>
    PROVE  /\ Len(q) \in Nat /\ Len(q) >= 1 /\ Len(Front(q)) = Len(q) - 1
           /\ Front(q) \in Paths /\ Front(q) = Prefix(q, Len(q) - 1)
           /\ \A k \in 0..(Len(q) - 1) : Prefix(Front(q), k) = Prefix(q, k)
<1>1. Len(q) \in Nat /\ Len(q) # 0
  BY PathSeq
<1>2. Len(q) \in 1..Len(q) /\ Len(q) - 1 \in 0..Len(q)
  BY <1>1
<1>3. Front(q) = Prefix(q, Len(q) - 1)
  BY <1>2, FrontOfPrefix, PrefixFull
<1>4. Front(q) \in Paths /\ Len(Front(q)) = Len(q) - 1
  BY <1>2, <1>3, PrefixIn, PrefixIs
<1>5. \A k \in 0..(Len(q) - 1) : Prefix(Front(q), k) = Prefix(q, k)
  BY <1>2, <1>3, PrefixOfPrefix
<1>6. QED
  BY <1>1, <1>3, <1>4, <1>5

LEMMA MountIs == ASSUME NEW i \in Layers PROVE MountOf(i) \in Paths /\ Len(MountOf(i)) \in Nat
<1>1. MountOf(i) \in Paths
  BY ResolveAssumption DEF MountOf
<1>2. QED
  BY <1>1, PathSeq

-----------------------------------------------------------------------------
(* What the view shows of a path.                                          *)

\* The layers a reader finds a path in, whether one of those it asked holds its folder,
\* and whether the view shows it.
Shows(d, x)     == HitsShown(d, x, Lookup(iso, x), Searched(d, x, TRUE))
HasParent(d, x) == \E j \in Searched(d, x, TRUE) : ParentIn(d, j, x)
Seen(d, x)      == Shows(d, x) # {} /\ (HasParent(d, x) \/ x = <<>> \/ Shows(d, Front(x)) # {})

\* Without links a resolution is the plain one.
LEMMA Unlinked ==
    ASSUME Links = {}, NEW d \in Disks, NEW x \in Paths, NEW stopFirst, NEW follow
    PROVE  Resolve(d, iso, x, stopFirst, follow) = ResolvePlain(d, iso, x, stopFirst)
<1>1. \A j \in Layers : \A q : NodeAt(d, j, q).kind # "link"
  <2>1. TAKE j \in Layers
  <2>2. TAKE q
  <2>3. NodeAt(d, j, q) \in {None, Dir} \cup {File(c) : c \in Data}
    BY NodeIs DEF Nodes
  <2>4. QED
    BY <2>3 DEF None, Dir, File
<1>2. \A j \in Searched(d, x, stopFirst) : ~LinkOnWay(d, j, x)
  BY <1>1 DEF Searched, LinkOnWay
<1>3. ~ResolvePlain(d, iso, x, stopFirst).link
  BY <1>2 DEF ResolvePlain, ResolutionOf, Resolution
<1>4. QED
  BY <1>3 DEF Resolve, ResolveFrom

LEMMA ViewIs ==
    ASSUME Links = {}, NEW d \in Disks, NEW x \in Paths
    PROVE  View(d, iso)[x] = IF Seen(d, x) THEN NodeAt(d, First(Shows(d, x)), x) ELSE None
<1> DEFINE r == ResolvePlain(d, iso, x, TRUE)
<1>1. /\ r.path = x /\ r.resolved = TRUE /\ r.hits = Shows(d, x)
      /\ r.status = "Exists" <=> Shows(d, x) # {}
      /\ r.parent <=> HasParent(d, x)
  BY DEF ResolvePlain, ResolutionOf, Resolution, Shows, HasParent
<1>2. ASSUME x # <<>> PROVE FolderThere(d, iso, x) <=> Shows(d, Front(x)) # {}
  <2>1. Front(x) \in Paths
    BY <1>2, ResolveAssumption
  <2>2. Resolve(d, iso, Front(x), TRUE, "All") = ResolvePlain(d, iso, Front(x), TRUE)
    BY <2>1, Unlinked
  <2>3. ResolvePlain(d, iso, Front(x), TRUE).status = "Exists" <=> Shows(d, Front(x)) # {}
    BY DEF ResolvePlain, ResolutionOf, Resolution, Shows
  <2>4. QED
    BY <1>2, <2>2, <2>3 DEF FolderThere
<1>3. FolderThere(d, iso, x) <=> x = <<>> \/ Shows(d, Front(x)) # {}
  <2>1. CASE x = <<>>
    BY <2>1 DEF FolderThere
  <2>2. CASE x # <<>>
    BY <1>2, <2>2
  <2>3. QED
    BY <2>1, <2>2
<1>4. View(d, iso)[x] = QueryPathFromResolve(d, iso, Resolve(d, iso, x, TRUE, "Parent"))
  BY DEF View, QueryPath
<1>5. Resolve(d, iso, x, TRUE, "Parent") = r
  BY Unlinked
<1> HIDE DEF r
<1>6. QED
  BY <1>1, <1>3, <1>4, <1>5 DEF QueryPathFromResolve, Seen

-----------------------------------------------------------------------------
(* What the view shows of a path lies in the layers at and above the path.  *)

SameIn(d, e, j, x) ==
    \A k \in 0..Len(x) :
        /\ NodeAt(d, j, Prefix(x, k)) = NodeAt(e, j, Prefix(x, k))
        /\ Prefix(x, k) \in d[j].whiteout <=> Prefix(x, k) \in e[j].whiteout
        /\ Prefix(x, k) \in d[j].opaque <=> Prefix(x, k) \in e[j].opaque
SameAlong(d, e, x) == \A j \in Layers : SameIn(d, e, j, x)

LEMMA SameReach ==
    ASSUME NEW d, NEW e, NEW x \in Paths, NEW j \in Layers, NEW k \in Nat, k <= Len(x) + 1, SameIn(d, e, j, x)
    PROVE  Reaches(d, j, x, k) <=> Reaches(e, j, x, k)
<1>1. \A l \in Len(MountOf(j)) .. (k - 1) : l \in 0..Len(x)
  BY MountIs, PathSeq
<1>2. QED
  BY <1>1 DEF Reaches, SameIn

\* The walk of a layer.
LEMMA SameWalk ==
    ASSUME NEW d, NEW e, NEW x \in Paths, NEW j \in Layers, SameIn(d, e, j, x)
    PROVE  /\ Marked(d, j, x) <=> Marked(e, j, x)
           /\ HitIn(d, j, x) <=> HitIn(e, j, x)
           /\ ParentIn(d, j, x) <=> ParentIn(e, j, x)
           /\ NodeAt(d, j, x) = NodeAt(e, j, x)
<1>1. Len(x) \in Nat /\ Len(x) \in 0..Len(x) /\ Prefix(x, Len(x)) = x /\ Len(MountOf(j)) \in Nat
  BY PathSeq, PrefixFull, MountIs
<1>2. \A k \in Walk(j, x) : k \in 0..Len(x) /\ k \in Nat /\ k + 1 \in Nat /\ k <= Len(x) + 1 /\ k + 1 <= Len(x) + 1
  BY <1>1 DEF Walk
<1>3. /\ NodeAt(d, j, x) = NodeAt(e, j, x)
      /\ x \in d[j].whiteout <=> x \in e[j].whiteout
  BY <1>1 DEF SameIn
<1>4. Reaches(d, j, x, Len(x)) <=> Reaches(e, j, x, Len(x))
  BY <1>1, SameReach
<1>5. WhiteoutFound(d, j, x) <=> WhiteoutFound(e, j, x)
  BY <1>2, SameReach DEF WhiteoutFound, SameIn
<1>6. OpaqueFound(d, j, x) <=> OpaqueFound(e, j, x)
  BY <1>2, SameReach DEF OpaqueFound, SameIn
<1>7. QED
  BY <1>3, <1>4, <1>5, <1>6 DEF Marked, HitIn, ParentIn

\* The layers a reader asks, and what it finds in them.
LEMMA SameSearch ==
    ASSUME NEW d, NEW e, NEW x \in Paths,
           \A j \in Layers : (Marked(d, j, x) <=> Marked(e, j, x)) /\ (HitIn(d, j, x) <=> HitIn(e, j, x))
    PROVE  Searched(d, x, TRUE) = Searched(e, x, TRUE) /\ Shows(d, x) = Shows(e, x)
<1>1. Searched(d, x, TRUE) = Searched(e, x, TRUE)
  BY DEF Searched
<1>2. QED
  BY <1>1 DEF Shows, HitsShown, Searched

LEMMA SameShows ==
    ASSUME NEW d, NEW e, NEW x \in Paths, SameAlong(d, e, x)
    PROVE  Shows(d, x) = Shows(e, x) /\ (HasParent(d, x) <=> HasParent(e, x))
<1>1. \A j \in Layers : /\ Marked(d, j, x) <=> Marked(e, j, x)
                        /\ HitIn(d, j, x) <=> HitIn(e, j, x)
                        /\ ParentIn(d, j, x) <=> ParentIn(e, j, x)
  BY SameWalk DEF SameAlong
<1>2. Searched(d, x, TRUE) = Searched(e, x, TRUE) /\ Shows(d, x) = Shows(e, x)
  BY <1>1, SameSearch
<1>3. Searched(d, x, TRUE) \subseteq Layers
  BY DEF Searched
<1>4. QED
  BY <1>1, <1>2, <1>3 DEF HasParent

LEMMA SameView ==
    ASSUME Links = {}, NEW d \in Disks, NEW e \in Disks, NEW x \in Paths, SameAlong(d, e, x)
    PROVE  View(d, iso)[x] = View(e, iso)[x]
<1>1. Shows(d, x) = Shows(e, x) /\ (HasParent(d, x) <=> HasParent(e, x))
  BY SameShows
<1>2. ASSUME x # <<>> PROVE Shows(d, Front(x)) = Shows(e, Front(x))
  <2>1. /\ Front(x) \in Paths /\ Len(x) \in Nat /\ Len(Front(x)) = Len(x) - 1
        /\ \A k \in 0..(Len(x) - 1) : Prefix(Front(x), k) = Prefix(x, k) /\ k \in 0..Len(x)
    BY <1>2, ChildIs
  <2>2. SameAlong(d, e, Front(x))
    BY <2>1 DEF SameAlong, SameIn
  <2>3. QED
    BY <2>1, <2>2, SameShows
<1>3. Seen(d, x) <=> Seen(e, x)
  BY <1>1, <1>2 DEF Seen
<1>4. Shows(d, x) # {} => First(Shows(d, x)) \in Layers
  <2>1. Shows(d, x) \in SUBSET Layers
    BY DEF Shows, HitsShown, Searched
  <2>2. QED
    BY <2>1, FirstIs
<1>5. \A j \in Layers : NodeAt(d, j, x) = NodeAt(e, j, x)
  BY SameWalk DEF SameAlong
<1>6. QED
  BY <1>1, <1>3, <1>4, <1>5, ViewIs DEF Seen

\* The disks differ at the paths of Y, and below them.
LocalAt(d, e, Y) ==
    \A j \in Layers, q \in Paths : (\A y \in Y : ~IsPrefix(y, q)) =>
        /\ d[j].node[q] = e[j].node[q]
        /\ q \in d[j].whiteout <=> q \in e[j].whiteout
        /\ q \in d[j].opaque <=> q \in e[j].opaque

LEMMA LocalView ==
    ASSUME Links = {}, NEW d \in Disks, NEW e \in Disks, NEW Y \in SUBSET Paths, LocalAt(d, e, Y),
           NEW x \in Paths, \A y \in Y : ~IsPrefix(y, x)
    PROVE  View(d, iso)[x] = View(e, iso)[x]
<1>1. ASSUME NEW k \in 0..Len(x) PROVE Prefix(x, k) \in Paths /\ \A y \in Y : ~IsPrefix(y, Prefix(x, k))
  BY AboveIs, PrefixTransitive
<1>2. SameAlong(d, e, x)
  BY <1>1 DEF LocalAt, SameAlong, SameIn, NodeAt
<1>3. QED
  BY <1>2, SameView

-----------------------------------------------------------------------------
(* What the folders which are made above a path show.                      *)

\* A name which lies above another, or which a layer is mounted at.
IsFolderName(z) == (\E y \in Paths : IsStrictPrefix(z, y)) \/ \E i \in 1..Lower : z = Mount[i]
KindsFit(d)     == \A j \in Layers, z \in Paths : IsFolderName(z) => d[j].node[z] \in {None, Dir}

\* The folders which are made above path y in layer i.
Made(d, i, y, z) == IsStrictPrefix(z, y) /\ d[i].node[z] = None /\ Folders(d, i, y)[i].node[z] = Dir

LEMMA MadeOrSame ==
    ASSUME NEW d \in Disks, NEW i \in {Upper, Host}, NEW y \in Paths
    PROVE  LET e == Folders(d, i, y)
           IN  /\ e \in Disks /\ \A j \in Layers : j # i => e[j] = d[j]
               /\ e[i].whiteout = d[i].whiteout /\ e[i].opaque = d[i].opaque
               /\ \A q \in Paths : e[i].node[q] = d[i].node[q] \/ Made(d, i, y, q)
<1>1. i \in Layers
  BY LayersAre
<1>2. QED
  BY <1>1, FoldersIs DEF OnlyIn, Made

\* What a tree holds, and its markers, lie in folders of the tree.
LEMMA InFolders ==
    ASSUME NEW d, NEW i, IsTree(d[i]), NEW x \in Paths, NEW k \in 0..Len(x), NEW l \in 0..Len(x)
    PROVE  /\ l < k /\ (Prefix(x, k) \in d[i].whiteout \/ d[i].node[Prefix(x, k)] # None)
                  => d[i].node[Prefix(x, l)] = Dir
           /\ l <= k /\ Prefix(x, k) \in d[i].opaque => d[i].node[Prefix(x, l)] = Dir
<1>1. Prefix(x, k) \in Paths /\ Len(Prefix(x, k)) = k /\ Prefix(x, l) \in Paths
  BY PrefixIn, PrefixIs
<1>2. CASE l < k
  <2>1. l \in 0..k /\ l \in 0..Len(Prefix(x, k)) /\ l < Len(Prefix(x, k))
    BY <1>1, <1>2
  <2>2. IsStrictPrefix(Prefix(Prefix(x, k), l), Prefix(x, k))
    BY <1>1, <2>1, AboveIs
  <2>3. IsStrictPrefix(Prefix(x, l), Prefix(x, k))
    BY <2>1, <2>2, PrefixOfPrefix
  <2>4. IsPrefix(Prefix(x, l), Prefix(x, k))
    BY <2>3 DEF IsStrictPrefix
  <2>5. QED
    BY <1>1, <2>3, <2>4 DEF IsTree
<1>3. CASE l = k
  <2>1. IsPrefix(Prefix(x, l), Prefix(x, k))
    BY <1>1, <1>3, PrefixOfItself
  <2>2. QED
    BY <1>1, <1>3, <2>1 DEF IsTree
<1>4. QED
  BY <1>2, <1>3

\* The walks of all layers find what they found before, and the folders.
LEMMA FoldersWalk ==
    ASSUME NEW d \in Disks, NEW i \in {Upper, Host}, NEW y \in Paths, IsTree(d[i]), NEW x \in Paths
    PROVE  LET e == Folders(d, i, y)
           IN  /\ \A j \in Layers : Marked(d, j, x) <=> Marked(e, j, x)
               /\ \A j \in Layers : HitIn(d, j, x) => HitIn(e, j, x)
               /\ \A j \in Layers : HitIn(e, j, x) => HitIn(d, j, x) \/ (j = i /\ Made(d, i, y, x))
               /\ \A j \in Layers : ParentIn(d, j, x) => ParentIn(e, j, x)
               /\ \A j \in Layers : ParentIn(e, j, x) => ParentIn(d, j, x) \/ (x # <<>> /\ Made(d, i, y, Front(x)))
               /\ HitIn(e, i, x) /\ x # <<>> => ParentIn(e, i, x)
<1> DEFINE e == Folders(d, i, y)
<1>1. /\ i \in Layers /\ MountOf(i) = <<>> /\ Len(MountOf(i)) = 0 /\ Len(x) \in Nat
  BY LayersAre, PathSeq DEF MountOf
<1>2. /\ \A j \in Layers : j # i => e[j] = d[j]
      /\ e[i].whiteout = d[i].whiteout /\ e[i].opaque = d[i].opaque
      /\ \A q \in Paths : e[i].node[q] = d[i].node[q] \/ Made(d, i, y, q)
  BY MadeOrSame
<1> HIDE DEF e
<1>3. ASSUME NEW j \in Layers, j # i
      PROVE  /\ Marked(d, j, x) <=> Marked(e, j, x)
             /\ HitIn(d, j, x) <=> HitIn(e, j, x)
             /\ ParentIn(d, j, x) <=> ParentIn(e, j, x)
  <2>1. SameIn(d, e, j, x)
    BY <1>2, <1>3 DEF SameIn, NodeAt
  <2>2. QED
    BY <2>1, SameWalk
<1>4. \A k \in 0..Len(x) : Prefix(x, k) \in Paths
  BY PrefixIn
<1>5. ASSUME NEW k \in 0..(Len(x) + 1), Reaches(d, i, x, k) PROVE Reaches(e, i, x, k)
  <2>1. ASSUME NEW l \in 0..(k - 1)
        PROVE  NodeAt(e, i, Prefix(x, l)) # None /\ Prefix(x, l) \notin e[i].whiteout
    <3>1. l \in 0..Len(x) /\ NodeAt(d, i, Prefix(x, l)) # None /\ Prefix(x, l) \notin d[i].whiteout
      BY <1>1, <1>5 DEF Reaches
    <3>2. QED
      BY <1>2, <1>4, <3>1 DEF NodeAt, Made
  <2>2. QED
    BY <1>1, <2>1 DEF Reaches
<1>6. ASSUME NEW k \in 0..(Len(x) + 1), Reaches(e, i, x, k), \A l \in 0..(k - 1) : d[i].node[Prefix(x, l)] # None
      PROVE  Reaches(d, i, x, k)
  <2>1. ASSUME NEW l \in 0..(k - 1)
        PROVE  NodeAt(d, i, Prefix(x, l)) # None /\ Prefix(x, l) \notin d[i].whiteout
    <3>1. l \in 0..Len(x) /\ Prefix(x, l) \notin e[i].whiteout
      BY <1>1, <1>6 DEF Reaches
    <3>2. QED
      BY <1>2, <1>4, <1>6, <3>1 DEF NodeAt
  <2>2. QED
    BY <1>1, <2>1 DEF Reaches
<1>7. \A k \in 0..Len(x) : k \in 0..(Len(x) + 1) /\ k + 1 \in 0..(Len(x) + 1) /\ k + 1 - 1 = k
  BY <1>1
<1>8. Dir # None
  BY DEF Dir, None
<1>9. WhiteoutFound(d, i, x) <=> WhiteoutFound(e, i, x)
  <2>1. ASSUME NEW k \in 0..Len(x), Reaches(e, i, x, k), Prefix(x, k) \in d[i].whiteout PROVE Reaches(d, i, x, k)
    <3>1. ASSUME NEW l \in 0..(k - 1) PROVE d[i].node[Prefix(x, l)] # None
      <4>1. l \in 0..Len(x) /\ l < k
        BY <1>1
      <4>2. QED
        BY <1>8, <2>1, <4>1, InFolders
    <3>2. QED
      BY <1>6, <1>7, <2>1, <3>1
  <2>2. QED
    BY <1>1, <1>2, <1>5, <1>7, <2>1 DEF WhiteoutFound, Walk
<1>10. OpaqueFound(d, i, x) <=> OpaqueFound(e, i, x)
  <2>1. ASSUME NEW k \in 0..Len(x), Reaches(e, i, x, k + 1), Prefix(x, k) \in d[i].opaque
        PROVE  Reaches(d, i, x, k + 1)
    <3>1. ASSUME NEW l \in 0..(k + 1 - 1) PROVE d[i].node[Prefix(x, l)] # None
      <4>1. l \in 0..Len(x) /\ l <= k
        BY <1>1
      <4>2. QED
        BY <1>8, <2>1, <4>1, InFolders
    <3>2. QED
      BY <1>6, <1>7, <2>1, <3>1
  <2>2. QED
    BY <1>1, <1>2, <1>5, <1>7, <2>1 DEF OpaqueFound, Walk
<1>11. Len(x) \in 0..Len(x) /\ Len(x) \in 0..(Len(x) + 1) /\ Prefix(x, Len(x)) = x
       /\ \A l \in 0..(Len(x) - 1) : l \in 0..Len(x) /\ l < Len(x)
  BY <1>1, PrefixFull
<1>12. HitIn(d, i, x) => HitIn(e, i, x)
  BY <1>2, <1>5, <1>11 DEF HitIn, NodeAt, Made
<1>13. HitIn(e, i, x) => HitIn(d, i, x) \/ Made(d, i, y, x)
  <2>1. SUFFICES ASSUME HitIn(e, i, x), ~Made(d, i, y, x) PROVE HitIn(d, i, x)
    OBVIOUS
  <2>2. d[i].node[x] # None /\ x \notin d[i].whiteout /\ Reaches(e, i, x, Len(x))
    BY <1>2, <2>1 DEF HitIn, NodeAt
  <2>3. \A l \in 0..(Len(x) - 1) : d[i].node[Prefix(x, l)] # None
    BY <1>8, <1>11, <2>2, InFolders
  <2>4. Reaches(d, i, x, Len(x))
    BY <1>6, <1>11, <2>2, <2>3
  <2>5. QED
    BY <2>2, <2>4 DEF HitIn, NodeAt
<1>14. ParentIn(d, i, x) => ParentIn(e, i, x)
  BY <1>5, <1>11 DEF ParentIn
<1>15. ParentIn(e, i, x) => ParentIn(d, i, x) \/ (x # <<>> /\ Made(d, i, y, Front(x)))
  <2>1. SUFFICES ASSUME ParentIn(e, i, x), ~(x # <<>> /\ Made(d, i, y, Front(x))) PROVE ParentIn(d, i, x)
    OBVIOUS
  <2>2. Len(x) > 0 /\ Reaches(e, i, x, Len(x))
    BY <1>1, <2>1 DEF ParentIn
  <2>3. x # <<>>
    BY <2>2
  <2>4. /\ Front(x) \in Paths /\ Front(x) = Prefix(x, Len(x) - 1) /\ Len(x) - 1 \in 0..Len(x)
        /\ Len(x) - 1 \in 0..(Len(x) - 1)
    BY <1>1, <2>2, <2>3, ChildIs
  <2>5. NodeAt(e, i, Prefix(x, Len(x) - 1)) # None
    BY <1>1, <2>2, <2>4 DEF Reaches
  <2>6. d[i].node[Front(x)] # None
    BY <1>2, <2>1, <2>3, <2>4, <2>5 DEF NodeAt
  <2>7. ASSUME NEW l \in 0..(Len(x) - 1) PROVE d[i].node[Prefix(x, l)] # None
    <3>1. l \in 0..Len(x) /\ (l < Len(x) - 1 \/ l = Len(x) - 1)
      BY <1>1
    <3>2. QED
      BY <1>8, <2>4, <2>6, <3>1, InFolders
  <2>8. Reaches(d, i, x, Len(x))
    BY <1>6, <1>11, <2>2, <2>7
  <2>9. QED
    BY <1>1, <2>2, <2>8 DEF ParentIn
<1>16. HitIn(e, i, x) /\ x # <<>> => ParentIn(e, i, x)
  <2>1. x # <<>> => 0 < Len(x)
    BY ChildIs
  <2>2. QED
    BY <1>1, <2>1 DEF HitIn, ParentIn
<1>17. QED
  BY <1>3, <1>9, <1>10, <1>12, <1>13, <1>14, <1>15, <1>16 DEF Marked, e

\* A layer which is asked before is asked with the folders too, unless the search ends at
\* a folder of the upper layer.
LEMMA FoldersSearch ==
    ASSUME NEW d \in Disks, NEW i \in {Upper, Host}, NEW y \in Paths, IsTree(d[i]), NEW x \in Paths,
           NEW j \in Searched(d, x, TRUE)
    PROVE  LET e == Folders(d, i, y)
           IN  \/ j \in Searched(e, x, TRUE)
               \/ i \in Searched(e, x, TRUE) /\ HitIn(e, i, x) /\ i = Upper
<1> DEFINE e == Folders(d, i, y)
<1>1. /\ \A k \in Layers : Marked(d, k, x) <=> Marked(e, k, x)
      /\ \A k \in Layers : HitIn(e, k, x) => HitIn(d, k, x) \/ k = i
  BY FoldersWalk
<1> HIDE DEF e
<1>2. /\ j \in Layers /\ Maps(j, x)
      /\ \A k \in Layers : k < j /\ Maps(k, x) => ~Marked(d, k, x) /\ ~HitIn(d, k, x)
  BY DEF Searched
<1>3. ASSUME j \notin Searched(e, x, TRUE) PROVE i \in Searched(e, x, TRUE) /\ HitIn(e, i, x) /\ i = Upper
  <2>1. PICK k \in Layers : k < j /\ Maps(k, x) /\ (Marked(e, k, x) \/ HitIn(e, k, x))
    BY <1>2, <1>3 DEF Searched
  <2>2. HitIn(e, k, x) /\ k = i
    BY <1>1, <1>2, <2>1
  <2>3. i < j /\ i = Upper
    BY <1>2, <2>1, <2>2, LayersAre
  <2>4. \A l \in Layers : l < i => l < j /\ l # i
    BY <1>2, <2>3, LayersAre
  <2>5. \A l \in Layers : l < i /\ Maps(l, x) => ~Marked(e, l, x) /\ ~HitIn(e, l, x)
    BY <1>1, <1>2, <2>4
  <2>6. QED
    BY <2>1, <2>2, <2>3, <2>5 DEF Searched
<1>4. QED
  BY <1>3 DEF e

\* What the view showed it shows with the folders too.
LEMMA FoldersShow ==
    ASSUME NEW d \in Disks, NEW i \in {Upper, Host}, NEW y \in Paths, IsTree(d[i]), NEW x \in Paths
    PROVE  /\ Shows(d, x) # {} => Shows(Folders(d, i, y), x) # {}
           /\ HasParent(d, x) /\ x # <<>> => HasParent(Folders(d, i, y), x)
<1> DEFINE e == Folders(d, i, y)
           m == Lookup(iso, x)
<1>1. /\ \A k \in Layers : HitIn(d, k, x) => HitIn(e, k, x)
      /\ \A k \in Layers : ParentIn(d, k, x) => ParentIn(e, k, x)
      /\ HitIn(e, i, x) /\ x # <<>> => ParentIn(e, i, x)
  BY FoldersWalk
<1>2. ~Masked(m, Upper)
  BY DEF Masked
<1>3. \A j \in Searched(d, x, TRUE) :
         \/ j \in Searched(e, x, TRUE)
         \/ i \in Searched(e, x, TRUE) /\ HitIn(e, i, x) /\ i = Upper
  BY FoldersSearch
<1>4. Searched(d, x, TRUE) \subseteq Layers
  BY DEF Searched
<1> HIDE DEF e, m
<1>5. ASSUME NEW j \in Searched(d, x, TRUE), HitIn(d, j, x), ~Masked(m, j)
      PROVE  \E k \in Searched(e, x, TRUE) : HitIn(e, k, x) /\ ~Masked(m, k)
  BY <1>1, <1>2, <1>3, <1>4, <1>5
<1>6. Shows(d, x) # {} => Shows(e, x) # {}
  BY <1>5 DEF Shows, HitsShown, m
<1>7. HasParent(d, x) /\ x # <<>> => HasParent(e, x)
  BY <1>1, <1>3, <1>4 DEF HasParent
<1>8. QED
  BY <1>6, <1>7 DEF e

LEMMA ShowsIs ==
    ASSUME NEW d, NEW x, Shows(d, x) # {}
    PROVE  /\ First(Shows(d, x)) \in Layers /\ First(Shows(d, x)) \in Searched(d, x, TRUE)
           /\ HitIn(d, First(Shows(d, x)), x)
<1>1. Shows(d, x) \in SUBSET Layers
  BY DEF Shows, HitsShown, Searched
<1>2. First(Shows(d, x)) \in Shows(d, x)
  BY <1>1, FirstIs
<1>3. QED
  BY <1>1, <1>2 DEF Shows, HitsShown

\* An entry which is found, while no folder of it is, is the root of a packed layer.
LEMMA AloneIsMount ==
    ASSUME NEW d, NEW x \in Paths, x # <<>>, Shows(d, x) # {}, ~HasParent(d, x)
    PROVE  First(Shows(d, x)) \in 1..Lower /\ x = Mount[First(Shows(d, x))]
<1> DEFINE f == First(Shows(d, x))
<1>1. f \in Layers /\ f \in Searched(d, x, TRUE) /\ HitIn(d, f, x)
  BY ShowsIs
<1> HIDE DEF f
<1>2. ~ParentIn(d, f, x) /\ Maps(f, x)
  BY <1>1 DEF HasParent, Searched
<1>3. Len(x) \in Nat /\ Len(MountOf(f)) \in Nat /\ MountOf(f) \in Paths
  BY <1>1, PathSeq, MountIs
<1>4. Len(MountOf(f)) = Len(x)
  BY <1>1, <1>2, <1>3 DEF HitIn, ParentIn, Maps, IsPrefix
<1>5. MountOf(f) = x
  <2>1. Prefix(MountOf(f), Len(MountOf(f))) = Prefix(x, Len(x))
    BY <1>2, <1>4 DEF Maps, IsPrefix, Prefix
  <2>2. QED
    BY <1>3, <2>1, PrefixFull
<1>6. QED
  BY <1>5 DEF MountOf, f

\* The folders change the view at folders alone, and at what is mounted in them.
LEMMA FoldersView ==
    ASSUME Links = {}, NEW d \in Disks, NEW i \in {Upper, Host}, NEW y \in Paths, IsTree(d[i]), KindsFit(d),
           NEW x \in Paths, View(Folders(d, i, y), iso)[x] # View(d, iso)[x]
    PROVE  OnTheWay(x, y) /\ View(d, iso)[x] = None /\ View(Folders(d, i, y), iso)[x] = Dir
<1> DEFINE e == Folders(d, i, y)
<1>1. /\ i \in Layers /\ e \in Disks
      /\ \A j \in Layers : j # i => e[j] = d[j]
      /\ \A q \in Paths : e[i].node[q] = d[i].node[q] \/ Made(d, i, y, q)
  BY LayersAre, MadeOrSame
<1>2. /\ View(d, iso)[x] = IF Seen(d, x) THEN NodeAt(d, First(Shows(d, x)), x) ELSE None
      /\ View(e, iso)[x] = IF Seen(e, x) THEN NodeAt(e, First(Shows(e, x)), x) ELSE None
  BY <1>1, ViewIs
<1>3. View(e, iso)[x] # View(d, iso)[x]
  OBVIOUS
<1>4. /\ Shows(d, x) # {} => Shows(e, x) # {}
      /\ HasParent(d, x) /\ x # <<>> => HasParent(e, x)
      /\ x # <<>> => (Shows(d, Front(x)) # {} => Shows(e, Front(x)) # {})
  BY FoldersShow, ResolveAssumption
<1>5. Seen(d, x) => Seen(e, x)
  BY <1>4 DEF Seen
<1>6. CASE Made(d, i, y, x)
  <2>1. IsStrictPrefix(x, y) /\ e[i].node[x] = Dir
    BY <1>6 DEF Made, e
  <2>2. IsFolderName(x)
    BY <2>1 DEF IsFolderName
  <2> HIDE DEF e
  <2>3. \A j \in Layers : NodeAt(d, j, x) \in {None, Dir} /\ NodeAt(e, j, x) \in {None, Dir}
    BY <1>1, <2>1, <2>2 DEF KindsFit, NodeAt
  <2>4. Seen(d, x) => NodeAt(d, First(Shows(d, x)), x) = Dir
    BY <2>3, ShowsIs DEF Seen, HitIn
  <2>5. Seen(e, x) => NodeAt(e, First(Shows(e, x)), x) = Dir
    BY <2>3, ShowsIs DEF Seen, HitIn
  <2>6. View(d, iso)[x] = None /\ View(e, iso)[x] = Dir
    BY <1>2, <1>3, <1>5, <2>4, <2>5
  <2>7. QED
    BY <2>1, <2>6 DEF OnTheWay, e
<1>7. CASE ~Made(d, i, y, x)
  <2>1. \A j \in Layers : (Marked(d, j, x) <=> Marked(e, j, x)) /\ (HitIn(d, j, x) <=> HitIn(e, j, x))
    BY <1>7, FoldersWalk
  <2> HIDE DEF e
  <2>2. Searched(d, x, TRUE) = Searched(e, x, TRUE) /\ Shows(d, x) = Shows(e, x)
    BY <2>1, SameSearch
  <2>3. \A j \in Layers : NodeAt(d, j, x) = NodeAt(e, j, x)
    BY <1>1, <1>7 DEF NodeAt
  <2>4. ~Seen(d, x) /\ Seen(e, x)
    <3>1. CASE Seen(d, x)
      <4>1. Seen(e, x) /\ First(Shows(d, x)) \in Layers
        BY <1>5, <3>1, ShowsIs DEF Seen
      <4>2. QED
        BY <1>2, <1>3, <2>2, <2>3, <3>1, <4>1
    <3>2. CASE ~Seen(e, x)
      BY <1>2, <1>3, <1>5, <3>2
    <3>3. QED
      BY <3>1, <3>2
  <2>5. Shows(d, x) # {} /\ x # <<>> /\ ~HasParent(d, x) /\ Shows(d, Front(x)) = {}
    BY <2>2, <2>4 DEF Seen
  <2> DEFINE f == First(Shows(d, x))
  <2>6. f \in 1..Lower /\ x = Mount[f] /\ f \in Layers
    BY <2>5, AloneIsMount, ShowsIs
  <2>7. NodeAt(d, f, x) # None
    BY <2>5, ShowsIs DEF HitIn
  <2>8. NodeAt(d, f, x) = Dir
    <3> HIDE DEF f
    <3>1. IsFolderName(x)
      BY <2>6 DEF IsFolderName
    <3>2. QED
      BY <2>6, <2>7, <3>1 DEF KindsFit, NodeAt
  <2>9. View(d, iso)[x] = None /\ View(e, iso)[x] = Dir
    <3>1. NodeAt(e, f, x) = Dir
      BY <2>3, <2>6, <2>8
    <3>2. QED
      BY <1>2, <2>2, <2>4, <3>1
  <2>10. Made(d, i, y, Front(x))
    <3>1. Front(x) \in Paths
      BY <2>5, ResolveAssumption
    <3>2. CASE HasParent(e, x)
      <4>1. PICK j \in Searched(d, x, TRUE) : ParentIn(e, j, x)
        BY <2>2, <3>2 DEF HasParent
      <4>2. ~ParentIn(d, j, x) /\ j \in Layers
        BY <2>5, <4>1 DEF HasParent, Searched
      <4>3. ParentIn(e, j, x) => ParentIn(d, j, x) \/ Made(d, i, y, Front(x))
        BY <4>2, FoldersWalk DEF e
      <4>4. QED
        BY <4>1, <4>2, <4>3
    <3>3. CASE Shows(e, Front(x)) # {}
      <4>1. SUFFICES ASSUME ~Made(d, i, y, Front(x)) PROVE FALSE
        OBVIOUS
      <4>2. \A j \in Layers : /\ Marked(d, j, Front(x)) <=> Marked(e, j, Front(x))
                              /\ HitIn(d, j, Front(x)) <=> HitIn(e, j, Front(x))
        BY <3>1, <4>1, FoldersWalk DEF e
      <4>3. Shows(d, Front(x)) = Shows(e, Front(x))
        BY <3>1, <4>2, SameSearch
      <4>4. QED
        BY <2>5, <3>3, <4>3
    <3>4. QED
      BY <2>4, <2>5, <3>2, <3>3 DEF Seen
  <2>11. OnTheWay(x, y)
    <3> HIDE DEF f
    <3>1. QED
      BY <2>5, <2>6, <2>10 DEF OnTheWay, Made
  <2>12. QED
    BY <2>9, <2>11 DEF e
<1>8. QED
  BY <1>6, <1>7

\* A step which makes the folders above one of the paths of Y, and changes what lies at
\* and below those paths.
ChangesAt(d, e, Y) ==
    \E i \in {Upper, Host}, y \in Y : \E f \in {d, Folders(d, i, y)} : IsTree(d[i]) /\ LocalAt(f, e, Y)

LEMMA ChangedView ==
    ASSUME Links = {}, NEW d \in Disks, NEW e \in Disks, KindsFit(d), NEW Y \in SUBSET Paths, ChangesAt(d, e, Y),
           NEW x \in Paths, View(e, iso)[x] # View(d, iso)[x]
    PROVE  \E y \in Y : \/ IsPrefix(y, x)
                        \/ OnTheWay(x, y) /\ View(d, iso)[x] = None /\ View(e, iso)[x] = Dir
<1>1. SUFFICES ASSUME \A y \in Y : ~IsPrefix(y, x)
               PROVE  \E y \in Y : OnTheWay(x, y) /\ View(d, iso)[x] = None /\ View(e, iso)[x] = Dir
  OBVIOUS
<1>2. PICK i \in {Upper, Host}, y \in Y : \E f \in {d, Folders(d, i, y)} : IsTree(d[i]) /\ LocalAt(f, e, Y)
  BY DEF ChangesAt
<1>3. PICK f \in {d, Folders(d, i, y)} : IsTree(d[i]) /\ LocalAt(f, e, Y)
  BY <1>2
<1>4. y \in Paths /\ f \in Disks
  <2>1. y \in Paths
    BY <1>2
  <2>2. Folders(d, i, y) \in Disks
    BY <2>1, MadeOrSame
  <2>3. QED
    BY <1>3, <2>1, <2>2
<1>5. View(f, iso)[x] = View(e, iso)[x]
  BY <1>1, <1>3, <1>4, LocalView
<1>6. f = Folders(d, i, y)
  BY <1>3, <1>5
<1>7. OnTheWay(x, y) /\ View(d, iso)[x] = None /\ View(Folders(d, i, y), iso)[x] = Dir
  BY <1>3, <1>4, <1>5, <1>6, FoldersView
<1>8. QED
  BY <1>5, <1>6, <1>7

-----------------------------------------------------------------------------
(* A step changes the layers where its process has a call or a handle.     *)

LEMMA LocalSame == ASSUME NEW d, NEW Y PROVE LocalAt(d, d, Y)
  BY DEF LocalAt

LEMMA LocalTransitive ==
    ASSUME NEW d, NEW e, NEW f, NEW Y, LocalAt(d, e, Y), LocalAt(e, f, Y)
    PROVE  LocalAt(d, f, Y)
  BY DEF LocalAt

LEMMA LocalPut ==
    ASSUME NEW d \in Disks, NEW i \in Layers, NEW Y, NEW y \in Y, y \in Paths, NEW n \in Nodes
    PROVE  LocalAt(d, Put(d, i, y, n), Y)
<1>1. /\ OnlyIn(i, d, Put(d, i, y, n))
      /\ Put(d, i, y, n)[i].node = [d[i].node EXCEPT ![y] = n]
      /\ Put(d, i, y, n)[i].whiteout = d[i].whiteout
      /\ Put(d, i, y, n)[i].opaque = d[i].opaque
  BY PutIs
<1>2. d[i].node \in [Paths -> Nodes]
  BY DEF Disks, Layer
<1>3. IsPrefix(y, y)
  BY PrefixOfItself
<1> DEFINE e == Put(d, i, y, n)
<1> HIDE DEF e
<1>4. ASSUME NEW j \in Layers, NEW q \in Paths, \A z \in Y : ~IsPrefix(z, q)
      PROVE  /\ d[j].node[q] = e[j].node[q]
             /\ q \in d[j].whiteout <=> q \in e[j].whiteout
             /\ q \in d[j].opaque <=> q \in e[j].opaque
  <2>1. q # y
    BY <1>3, <1>4
  <2>2. QED
    BY <1>1, <1>2, <2>1 DEF e, OnlyIn
<1>5. QED
  BY <1>4 DEF LocalAt, e

LEMMA LocalRemoveAll ==
    ASSUME NEW d \in Disks, NEW i \in Layers, NEW Y, NEW y \in Y, y \in Paths
    PROVE  LocalAt(d, RemoveAll(d, i, y), Y)
<1> DEFINE e == RemoveAll(d, i, y)
<1>1. /\ OnlyIn(i, d, e)
      /\ e[i].node = [q \in Paths |-> IF IsPrefix(y, q) THEN None ELSE d[i].node[q]]
      /\ e[i].whiteout = {q \in d[i].whiteout : ~IsStrictPrefix(y, q)}
      /\ e[i].opaque = {q \in d[i].opaque : ~IsPrefix(y, q)}
  BY RemoveAllIs
<1> HIDE DEF e
<1>2. ASSUME NEW j \in Layers, NEW q \in Paths, \A z \in Y : ~IsPrefix(z, q)
      PROVE  /\ d[j].node[q] = e[j].node[q]
             /\ q \in d[j].whiteout <=> q \in e[j].whiteout
             /\ q \in d[j].opaque <=> q \in e[j].opaque
  <2>1. ~IsPrefix(y, q) /\ ~IsStrictPrefix(y, q)
    BY <1>2 DEF IsStrictPrefix
  <2>2. CASE j = i
    BY <1>1, <2>1, <2>2
  <2>3. CASE j # i
    BY <1>1, <2>3 DEF OnlyIn
  <2>4. QED
    BY <2>2, <2>3
<1>3. QED
  BY <1>2 DEF LocalAt, e

LEMMA LocalDeleteOne ==
    ASSUME NEW d \in Disks, NEW i \in Layers, NEW Y, NEW y \in Y, y \in Paths
    PROVE  LocalAt(d, DeleteOne(d, i, y), Y)
<1>1. None \in Nodes
  BY DEF Nodes
<1>2. QED
  BY <1>1, LocalPut, LocalSame, DeleteOneIs

\* Markers of the upper layer which are set or taken away at one path.
LEMMA LocalMarked ==
    ASSUME NEW d \in Disks, NEW i \in Layers, NEW Y, NEW y \in Y, NEW W \in SUBSET Paths
    PROVE  /\ (\A q \in Paths : q # y => (q \in W <=> q \in d[i].whiteout))
                 => LocalAt(d, [d EXCEPT ![i].whiteout = W], Y)
           /\ (\A q \in Paths : q # y => (q \in W <=> q \in d[i].opaque))
                 => LocalAt(d, [d EXCEPT ![i].opaque = W], Y)
<1> DEFINE e == [d EXCEPT ![i].whiteout = W]
           f == [d EXCEPT ![i].opaque = W]
<1>1. OnlyIn(i, d, e) /\ OnlyIn(i, d, f)
  BY MarkersAre
<1>2. d[i] \in Layer
  BY DEF Disks
<1>3. /\ e[i].node = d[i].node /\ e[i].whiteout = W /\ e[i].opaque = d[i].opaque
      /\ f[i].node = d[i].node /\ f[i].whiteout = d[i].whiteout /\ f[i].opaque = W
  BY <1>2 DEF Disks, Layer
<1> HIDE DEF e, f
<1>4. ASSUME NEW q \in Paths, \A z \in Y : ~IsPrefix(z, q) PROVE q # y
  BY <1>4, PrefixOfItself
<1>5. ASSUME \A q \in Paths : q # y => (q \in W <=> q \in d[i].whiteout) PROVE LocalAt(d, e, Y)
  BY <1>1, <1>3, <1>4, <1>5 DEF LocalAt, OnlyIn
<1>6. ASSUME \A q \in Paths : q # y => (q \in W <=> q \in d[i].opaque) PROVE LocalAt(d, f, Y)
  BY <1>1, <1>3, <1>4, <1>6 DEF LocalAt, OnlyIn
<1>7. QED
  BY <1>5, <1>6 DEF e, f

LEMMA LocalMoved ==
    ASSUME NEW d \in Disks, NEW i \in Layers, NEW j \in Layers, NEW Y, NEW from \in Y, NEW to \in Y,
           from \in Paths, to \in Paths
    PROVE  LocalAt(d, Moved(d, i, from, j, to), Y)
<1> DEFINE e == Moved(d, i, from, j, to)
<1>1. \A k \in Layers : \A q \in Paths : ~IsPrefix(to, q) /\ ~IsPrefix(from, q) =>
          /\ e[k].node[q] = d[k].node[q]
          /\ q \in e[k].whiteout <=> q \in d[k].whiteout
          /\ q \in e[k].opaque <=> q \in d[k].opaque
  BY MovedIs
<1> HIDE DEF e
<1>2. LocalAt(d, e, Y)
  BY <1>1 DEF LocalAt
<1>3. QED
  BY <1>2 DEF e

\* Only names which no folder has are given to a file.
LEMMA KindsStay ==
    ASSUME NEW d, NEW e, KindsFit(d),
           \A j \in Layers : \A q \in Paths : IsFolderName(q) => e[j].node[q] \in {None, Dir, d[j].node[q]}
    PROVE  KindsFit(e)
  BY DEF KindsFit

LEMMA KindsPut ==
    ASSUME NEW d \in Disks, KindsFit(d), NEW i \in Layers, NEW y \in Paths, NEW n \in Nodes,
           n \in {None, Dir} \/ ~IsFolderName(y)
    PROVE  KindsFit(Put(d, i, y, n))
<1>1. OnlyIn(i, d, Put(d, i, y, n)) /\ Put(d, i, y, n)[i].node = [d[i].node EXCEPT ![y] = n]
  BY PutIs
<1>2. d[i].node \in [Paths -> Nodes]
  BY DEF Disks, Layer
<1> DEFINE e == Put(d, i, y, n)
<1> HIDE DEF e
<1>3. \A j \in Layers : \A q \in Paths : IsFolderName(q) => e[j].node[q] \in {None, Dir, d[j].node[q]}
  BY <1>1, <1>2 DEF e, OnlyIn
<1>4. QED
  BY <1>3, KindsStay DEF e

LEMMA KindsFolders ==
    ASSUME NEW d \in Disks, KindsFit(d), NEW i \in Layers, NEW y \in Paths
    PROVE  KindsFit(Folders(d, i, y))
<1> DEFINE e == Folders(d, i, y)
<1>1. OnlyIn(i, d, e) /\ \A q \in Paths : e[i].node[q] = d[i].node[q] \/ e[i].node[q] = Dir
  BY FoldersIs
<1> HIDE DEF e
<1>2. \A j \in Layers : \A q \in Paths : e[j].node[q] \in {None, Dir, d[j].node[q]}
  BY <1>1 DEF OnlyIn
<1>3. QED
  BY <1>2, KindsStay DEF e

LEMMA KindsDeleteOne ==
    ASSUME NEW d \in Disks, KindsFit(d), NEW i \in Layers, NEW y \in Paths
    PROVE  KindsFit(DeleteOne(d, i, y))
<1>1. None \in Nodes
  BY DEF Nodes
<1>2. QED
  BY <1>1, KindsPut, DeleteOneIs

LEMMA KindsRemoveAll ==
    ASSUME NEW d \in Disks, KindsFit(d), NEW i \in Layers, NEW y \in Paths
    PROVE  KindsFit(RemoveAll(d, i, y))
<1> DEFINE e == RemoveAll(d, i, y)
<1>1. OnlyIn(i, d, e) /\ e[i].node = [q \in Paths |-> IF IsPrefix(y, q) THEN None ELSE d[i].node[q]]
  BY RemoveAllIs
<1> HIDE DEF e
<1>2. \A j \in Layers : \A q \in Paths : e[j].node[q] \in {None, Dir, d[j].node[q]}
  BY <1>1 DEF OnlyIn
<1>3. QED
  BY <1>2, KindsStay DEF e

LEMMA KindsMarked ==
    ASSUME NEW d \in Disks, KindsFit(d), NEW i \in Layers, NEW W \in SUBSET Paths
    PROVE  KindsFit([d EXCEPT ![i].whiteout = W]) /\ KindsFit([d EXCEPT ![i].opaque = W])
<1> DEFINE e == [d EXCEPT ![i].whiteout = W]
           f == [d EXCEPT ![i].opaque = W]
<1>1. OnlyIn(i, d, e) /\ OnlyIn(i, d, f)
  BY MarkersAre
<1>2. d[i] \in Layer
  BY DEF Disks
<1>3. e[i].node = d[i].node /\ f[i].node = d[i].node
  BY <1>2 DEF Disks, Layer
<1> HIDE DEF e, f
<1>4. \A j \in Layers : e[j].node = d[j].node /\ f[j].node = d[j].node
  BY <1>1, <1>3 DEF OnlyIn
<1>5. KindsFit(e) /\ KindsFit(f)
  BY <1>4, KindsStay
<1>6. QED
  BY <1>5 DEF e, f

LEMMA KindsMoved ==
    ASSUME NEW d \in Disks, KindsFit(d), NEW i \in Layers, NEW from \in Paths, NEW j \in Layers,
           NEW to \in Paths, ~IsFolderName(to)
    PROVE  KindsFit(Moved(d, i, from, j, to))
<1> DEFINE e == Moved(d, i, from, j, to)
<1>1. \A k \in Layers : \A q \in Paths : ~IsPrefix(to, q) => e[k].node[q] \in {None, d[k].node[q]}
  BY MovedIs
<1>2. \A q \in Paths : IsFolderName(q) => ~IsPrefix(to, q)
  BY DEF IsFolderName, IsStrictPrefix
<1> HIDE DEF e
<1>3. QED
  BY <1>1, <1>2, KindsStay DEF e

\* The layers which the sandbox writes stay trees.
Trees(d) == IsTree(d[Upper]) /\ IsTree(d[Host])

LEMMA TreesStay ==
    ASSUME NEW d, Trees(d), NEW i \in Layers, NEW e, OnlyIn(i, d, e), i \in {Upper, Host} => IsTree(e[i])
    PROVE  Trees(e)
<1>1. Upper \in Layers /\ Host \in Layers
  BY LayersAre
<1>2. \A j \in {Upper, Host} : IsTree(e[j])
  <2>1. ASSUME NEW j \in {Upper, Host} PROVE IsTree(e[j])
    <3>1. CASE j = i
      BY <3>1
    <3>2. CASE j # i
      BY <1>1, <3>2 DEF OnlyIn, Trees
    <3>3. QED
      BY <3>1, <3>2
  <2>2. QED
    BY <2>1
<1>3. QED
  BY <1>2 DEF Trees

LEMMA SameDisk ==
    ASSUME NEW d, NEW j \in Layers, NEW e, NEW f, OnlyIn(j, d, e), OnlyIn(j, d, f),
           e[j].node = f[j].node, e[j].whiteout = f[j].whiteout, e[j].opaque = f[j].opaque
    PROVE  e = f
<1>1. \A k \in Layers : e[k] \in Layer /\ f[k] \in Layer
  BY DEF OnlyIn, Disks
<1>2. e[j] = f[j]
  BY <1>1 DEF Layer
<1>3. \A k \in Layers : e[k] = f[k]
  BY <1>2 DEF OnlyIn
<1>4. QED
  BY <1>3 DEF OnlyIn, Disks

\* A rename to a name which no folder has moves one object.
LEMMA MovedName ==
    ASSUME NEW d \in Disks, NEW i \in Layers, NEW from \in Paths, NEW j \in Layers, NEW to \in Paths,
           ~IsFolderName(to)
    PROVE  LET put == Put(d, j, to, d[i].node[from])
           IN  \/ Moved(d, i, from, j, to) = RemoveAll(put, i, from)
               \/ /\ from \in d[i].opaque
                  /\ Moved(d, i, from, j, to) = RemoveAll([put EXCEPT ![j].opaque = put[j].opaque \cup {to}], i, from)
<1> DEFINE n == d[i].node[from]
           source(q) == from \o SubSeq(q, Len(to) + 1, Len(q))
           marks(S)  == {q \in Paths : IsPrefix(to, q) /\ source(q) \in S}
           nodes     == [q \in Paths |-> IF IsPrefix(to, q) THEN NodeAt(d, i, source(q)) ELSE d[j].node[q]]
           taken     == [d EXCEPT ![j].node =
                                    [q \in Paths |-> IF IsPrefix(to, q) THEN NodeAt(d, i, source(q)) ELSE @[q]],
                                  ![j].whiteout = @ \cup (marks(d[i].whiteout) \ {to}),
                                  ![j].opaque = @ \cup marks(d[i].opaque)]
           put       == Put(d, j, to, n)
           O         == d[j].opaque \cup marks(d[i].opaque)
<1>1. d[j] \in Layer /\ d[i] \in Layer /\ d[j].node \in [Paths -> Nodes] /\ n \in Nodes
  BY DEF Disks, Layer
<1>2. \A q \in Paths : IsPrefix(to, q) <=> q = to
  BY PrefixOfItself DEF IsFolderName, IsStrictPrefix
<1>3. source(to) = from
  BY <1>2, SourceBelow
<1>4. nodes = [d[j].node EXCEPT ![to] = n]
  <2>1. NodeAt(d, i, source(to)) = n
    BY <1>3 DEF NodeAt
  <2> HIDE DEF source, n
  <2>2. QED
    BY <1>1, <1>2, <2>1
<1>5. /\ marks(d[i].whiteout) \ {to} = {}
      /\ from \in d[i].opaque => marks(d[i].opaque) = {to}
      /\ from \notin d[i].opaque => marks(d[i].opaque) = {}
  <2> HIDE DEF source
  <2>1. QED
    BY <1>2, <1>3
<1>6. O \in SUBSET Paths /\ nodes \in [Paths -> Nodes]
  <2>1. d[i].opaque \subseteq Paths /\ d[j].opaque \subseteq Paths
    BY <1>1 DEF Layer
  <2>2. O \in SUBSET Paths
    BY <2>1
  <2> HIDE DEF nodes
  <2>3. nodes \in [Paths -> Nodes]
    BY <1>1, <1>4
  <2>4. QED
    BY <2>2, <2>3
<1>7. OnlyIn(j, d, taken) /\ taken[j].node = nodes /\ taken[j].whiteout = d[j].whiteout /\ taken[j].opaque = O
  <2> DEFINE layer == [d[j] EXCEPT !.node = nodes, !.whiteout = d[j].whiteout, !.opaque = O]
  <2>1. taken = [d EXCEPT ![j].node = nodes,
                          ![j].whiteout = d[j].whiteout \cup (marks(d[i].whiteout) \ {to}),
                          ![j].opaque = O]
    <3> HIDE DEF source, marks
    <3>1. QED
      BY <1>1 DEF Disks, Layer
  <2> HIDE DEF nodes, marks, taken, O
  <2>2. taken = [d EXCEPT ![j].node = nodes, ![j].whiteout = d[j].whiteout, ![j].opaque = O]
    BY <1>5, <2>1
  <2>3. taken = [d EXCEPT ![j] = layer]
    BY <1>1, <2>2 DEF Disks, Layer
  <2>4. layer \in Layer /\ layer.node = nodes /\ layer.whiteout = d[j].whiteout /\ layer.opaque = O
    BY <1>1, <1>6 DEF Layer
  <2> HIDE DEF layer
  <2>5. QED
    BY <2>3, <2>4 DEF OnlyIn, Disks
<1>8. /\ OnlyIn(j, d, put) /\ put[j].node = nodes
      /\ put[j].whiteout = d[j].whiteout /\ put[j].opaque = d[j].opaque
  BY <1>1, <1>4, PutIs
<1>9. Moved(d, i, from, j, to) = RemoveAll(taken, i, from)
  BY DEF Moved
<1> HIDE DEF nodes, taken, source
<1>10. CASE from \notin d[i].opaque
  <2>1. O = d[j].opaque
    BY <1>5, <1>10
  <2> HIDE DEF O, marks, put
  <2>2. taken = put
    BY <1>7, <1>8, <2>1, SameDisk
  <2>3. QED
    BY <1>9, <2>2 DEF put
<1>11. CASE from \in d[i].opaque
  <2> DEFINE marked == [put EXCEPT ![j].opaque = put[j].opaque \cup {to}]
  <2>1. O = d[j].opaque \cup {to}
    BY <1>5, <1>11
  <2> HIDE DEF O, marks, put
  <2>2. put \in Disks /\ put[j].opaque \cup {to} = O
    BY <1>8, <2>1 DEF OnlyIn
  <2>3. put[j] \in Layer /\ put[j].opaque \cup {to} \in SUBSET Paths
    BY <1>6, <2>2 DEF Disks
  <2>4. OnlyIn(j, put, marked)
    BY <2>2, <2>3, MarkersAre
  <2>5. marked[j].node = put[j].node /\ marked[j].whiteout = put[j].whiteout /\ marked[j].opaque = O
    BY <2>2, <2>3 DEF Disks, Layer
  <2> HIDE DEF marked
  <2>6. OnlyIn(j, d, marked)
    BY <1>8, <2>4, OnlyInTransitive
  <2>7. taken = marked
    BY <1>7, <1>8, <2>5, <2>6, SameDisk
  <2>8. QED
    BY <1>9, <1>11, <2>7 DEF put, marked
<1>12. QED
  BY <1>10, <1>11

LEMMA TreesMoved ==
    ASSUME NEW d \in Disks, Trees(d), NEW i \in {Upper, Host}, NEW from \in Paths, NEW j \in {Upper, Host},
           NEW to \in Paths, ~IsFolderName(to), HasFolder(d, j, to), d[j].node[to] # Dir
    PROVE  Trees(Moved(d, i, from, j, to))
<1> DEFINE n   == d[i].node[from]
           put == Put(d, j, to, n)
           marked == [put EXCEPT ![j].opaque = put[j].opaque \cup {to}]
<1>1. i \in Layers /\ j \in Layers /\ IsTree(d[i]) /\ IsTree(d[j]) /\ n \in Nodes
  BY LayersAre, NodeOfLayer DEF Trees
<1>2. /\ OnlyIn(j, d, put) /\ IsTree(put[j])
      /\ put[j].node = [d[j].node EXCEPT ![to] = n] /\ d[j].node \in [Paths -> Nodes]
  <2>1. OnlyIn(j, d, put) /\ put[j].node = [d[j].node EXCEPT ![to] = n]
    BY <1>1, PutIs
  <2>2. IsTree(put[j])
    BY <1>1, TreePut
  <2>3. d[j].node \in [Paths -> Nodes]
    BY <1>1 DEF Disks, Layer
  <2>4. QED
    BY <2>1, <2>2, <2>3
<1>3. Moved(d, i, from, j, to) = RemoveAll(put, i, from)
      \/ (from \in d[i].opaque /\ Moved(d, i, from, j, to) = RemoveAll(marked, i, from))
  BY <1>1, MovedName
<1> HIDE DEF put
<1>4. put \in Disks /\ Trees(put)
  BY <1>1, <1>2, TreesStay DEF OnlyIn
<1>5. from \in d[i].opaque => marked \in Disks /\ Trees(marked)
  <2>1. from \in d[i].opaque => n = Dir
    BY <1>1, PrefixOfItself DEF IsTree
  <2>2. from \in d[i].opaque => put[j].node[to] = Dir
    BY <1>2, <2>1
  <2>3. from \in d[i].opaque => IsTree(marked[j])
    BY <1>1, <1>2, <1>4, <2>2, TreeMarked
  <2>4. put[j].opaque \cup {to} \in SUBSET Paths
    BY <1>1, <1>4 DEF Disks, Layer
  <2>5. OnlyIn(j, put, marked)
    BY <1>1, <1>4, <2>4, MarkersAre
  <2> HIDE DEF marked
  <2>6. QED
    BY <1>1, <1>4, <2>3, <2>5, TreesStay DEF OnlyIn
<1> HIDE DEF marked
<1>6. ASSUME NEW f \in Disks, Trees(f) PROVE Trees(RemoveAll(f, i, from))
  <2>1. IsTree(f[i])
    BY <1>6 DEF Trees
  <2>2. OnlyIn(i, f, RemoveAll(f, i, from)) /\ IsTree(RemoveAll(f, i, from)[i])
    BY <1>1, <2>1, RemoveAllIs, TreeRemoveAll
  <2>3. QED
    BY <1>1, <1>6, <2>2, TreesStay
<1>7. QED
  BY <1>3, <1>4, <1>5, <1>6

\* Trees with files at names of files.
Sound(d) == KindsFit(d) /\ Trees(d)

LEMMA SoundPut ==
    ASSUME NEW d \in Disks, Sound(d), NEW i \in Layers, NEW y \in Paths, NEW n \in Nodes,
           n \in {None, Dir} \/ ~IsFolderName(y),
           d[i].node[y] # Dir, HasFolder(d, i, y) \/ d[i].node[y] # None
    PROVE  Sound(Put(d, i, y, n))
<1>1. KindsFit(Put(d, i, y, n))
  BY KindsPut DEF Sound
<1>2. OnlyIn(i, d, Put(d, i, y, n))
  BY PutIs
<1>3. i \in {Upper, Host} => IsTree(Put(d, i, y, n)[i])
  BY TreePut DEF Sound, Trees
<1>4. Trees(Put(d, i, y, n))
  BY <1>2, <1>3, TreesStay DEF Sound
<1>5. QED
  BY <1>1, <1>4 DEF Sound

LEMMA SoundFolders ==
    ASSUME NEW d \in Disks, Sound(d), NEW i \in {Upper, Host}, NEW y \in Paths
    PROVE  Folders(d, i, y) \in Disks /\ Sound(Folders(d, i, y))
<1>1. i \in Layers /\ IsTree(d[i])
  BY LayersAre DEF Sound, Trees
<1>2. /\ KindsFit(Folders(d, i, y)) /\ OnlyIn(i, d, Folders(d, i, y)) /\ IsTree(Folders(d, i, y)[i])
  BY <1>1, KindsFolders, FoldersIs, TreeFolders DEF Sound
<1>3. Trees(Folders(d, i, y))
  BY <1>1, <1>2, TreesStay DEF Sound
<1>4. QED
  BY <1>2, <1>3 DEF Sound, OnlyIn

LEMMA SoundDeleteOne ==
    ASSUME NEW d \in Disks, Sound(d), NEW i \in Layers, NEW y \in Paths
    PROVE  Sound(DeleteOne(d, i, y))
<1>1. KindsFit(DeleteOne(d, i, y)) /\ OnlyIn(i, d, DeleteOne(d, i, y))
  BY KindsDeleteOne, DeleteOneIs DEF Sound
<1>2. i \in {Upper, Host} => IsTree(DeleteOne(d, i, y)[i])
  BY TreeDeleteOne DEF Sound, Trees
<1>3. QED
  BY <1>1, <1>2, TreesStay DEF Sound

LEMMA SoundRemoveAll ==
    ASSUME NEW d \in Disks, Sound(d), NEW i \in Layers, NEW y \in Paths
    PROVE  Sound(RemoveAll(d, i, y))
<1>1. KindsFit(RemoveAll(d, i, y)) /\ OnlyIn(i, d, RemoveAll(d, i, y))
  BY KindsRemoveAll, RemoveAllIs DEF Sound
<1>2. i \in {Upper, Host} => IsTree(RemoveAll(d, i, y)[i])
  BY TreeRemoveAll DEF Sound, Trees
<1>3. QED
  BY <1>1, <1>2, TreesStay DEF Sound

\* The markers of the upper layer.
LEMMA SoundMarked ==
    ASSUME NEW d \in Disks, Sound(d), NEW y \in Paths
    PROVE  /\ HasFolder(d, Upper, y) => Sound([d EXCEPT ![Upper].whiteout = d[Upper].whiteout \cup {y}])
           /\ d[Upper].node[y] = Dir => Sound([d EXCEPT ![Upper].opaque = d[Upper].opaque \cup {y}])
           /\ Sound([d EXCEPT ![Upper].whiteout = d[Upper].whiteout \ {y}])
<1> DEFINE e == [d EXCEPT ![Upper].whiteout = d[Upper].whiteout \cup {y}]
           f == [d EXCEPT ![Upper].opaque = d[Upper].opaque \cup {y}]
           g == [d EXCEPT ![Upper].whiteout = d[Upper].whiteout \ {y}]
<1>1. Upper \in Layers /\ IsTree(d[Upper])
  BY LayersAre DEF Sound, Trees
<1>2. /\ d[Upper].whiteout \cup {y} \in SUBSET Paths /\ d[Upper].opaque \cup {y} \in SUBSET Paths
      /\ d[Upper].whiteout \ {y} \in SUBSET Paths
  BY <1>1 DEF Disks, Layer
<1>3. /\ HasFolder(d, Upper, y) => IsTree(e[Upper])
      /\ d[Upper].node[y] = Dir => IsTree(f[Upper])
      /\ IsTree(g[Upper])
  BY <1>1, TreeMarked
<1>4. KindsFit(e) /\ OnlyIn(Upper, d, e)
  BY <1>1, <1>2, KindsMarked, MarkersAre DEF Sound
<1>5. KindsFit(f) /\ OnlyIn(Upper, d, f)
  BY <1>1, <1>2, KindsMarked, MarkersAre DEF Sound
<1>6. KindsFit(g) /\ OnlyIn(Upper, d, g)
  BY <1>1, <1>2, KindsMarked, MarkersAre DEF Sound
<1> HIDE DEF e, f, g
<1>7. HasFolder(d, Upper, y) => Sound(e)
  BY <1>1, <1>3, <1>4, TreesStay DEF Sound
<1>8. d[Upper].node[y] = Dir => Sound(f)
  BY <1>1, <1>3, <1>5, TreesStay DEF Sound
<1>9. Sound(g)
  BY <1>1, <1>3, <1>6, TreesStay DEF Sound
<1>10. QED
  BY <1>7, <1>8, <1>9 DEF e, f, g

-----------------------------------------------------------------------------
(* A call stays at its path, and the layers keep folders where folders are. *)

\* The hypothesis: no layer starts with a file at the name of a folder, and no call
\* makes a file there or renames one to it.
KindsFixed ==
    /\ \A s \in Starts : KindsFit(s.disk)
    /\ \A r \in Requests : (WantCreate(r) /\ ~r.dir) \/ r.call = "rename" => ~IsFolderName(r.path)

PathFits(p) ==
    /\ proc[p].pc \in OpenPlaces => Res(p).path = Req(p).path
    /\ proc[p].pc \in {"unmark", "move"} => ~IsFolderName(Res(p).path)

PathInv == WriteInv /\ Sound(disk) /\ \A p \in Procs : PathFits(p)

\* What a step of process p does to the calls and to the layers.
OwnStep(p)  == PathFits(p)' /\ \A q \in Procs : q # p => proc'[q] = proc[q]
DiskFits(p) == Sound(disk') /\ (disk' # disk => ChangesAt(disk, disk', PathsOf(p)))

LEMMA PathsAre ==
    ASSUME TypeInv, NEW p \in Procs
    PROVE  /\ PathsOf(p) \in SUBSET Paths
           /\ ~At(p, "idle") => Res(p).path \in PathsOf(p) /\ Res(p).path \in Paths
           /\ handle[p].open => handle[p].at[2] \in PathsOf(p) /\ handle[p].at[2] \in Paths
<1>1. ~At(p, "idle") => Res(p).path \in Paths
  BY InCallIs DEF TypeInv, ProcTypes
<1>2. handle[p].open => handle[p].path \in Paths /\ handle[p].at[2] \in Paths
  BY HandleIs
<1>3. QED
  BY <1>1, <1>2 DEF PathsOf

LEMMA PathInvIs ==
    ASSUME PathInv
    PROVE  TypeInv /\ ProcTypes /\ disk \in Disks /\ IsTree(disk[Upper]) /\ IsTree(disk[Host])
  BY DEF PathInv, WriteInv, TypeInv, ProcTypes, Sound, Trees

LEMMA DiskKept == ASSUME PathInv, NEW p \in Procs, disk' = disk PROVE DiskFits(p)
  BY DEF PathInv, DiskFits

LEMMA ChangeFits ==
    ASSUME PathInv, NEW p \in Procs, PathsOf(p) # {}, LocalAt(disk, disk', PathsOf(p)), Sound(disk')
    PROVE  DiskFits(p)
<1>1. PICK y \in PathsOf(p) : TRUE
  OBVIOUS
<1>2. IsTree(disk[Upper])
  BY PathInvIs
<1>3. ChangesAt(disk, disk', PathsOf(p))
  BY <1>1, <1>2 DEF ChangesAt
<1>4. QED
  BY <1>3 DEF DiskFits

LEMMA FoldersFit ==
    ASSUME PathInv, NEW p \in Procs, NEW i \in {Upper, Host}, NEW y \in PathsOf(p),
           LocalAt(Folders(disk, i, y), disk', PathsOf(p)), Sound(disk')
    PROVE  DiskFits(p)
<1>1. IsTree(disk[i])
  BY PathInvIs
<1>2. ChangesAt(disk, disk', PathsOf(p))
  BY <1>1 DEF ChangesAt
<1>3. QED
  BY <1>2 DEF DiskFits

\* A process goes on in its call, ends it, begins one or stays where it is.
LEMMA OwnGoto ==
    ASSUME PathInv, NEW p \in Procs, NEW pc, Goto(p, pc), ~At(p, "idle"),
           pc \in OpenPlaces => proc[p].pc \in OpenPlaces,
           pc \in {"unmark", "move"} => proc[p].pc \in {"unmark", "move"}
    PROVE  OwnStep(p)
<1>1. /\ proc \in [Procs -> {Idle} \cup InCall]
      /\ proc[p] = [pc |-> proc[p].pc, req |-> Req(p), res |-> Res(p)]
  BY PathInvIs, InCallIs DEF ProcTypes
<1>2. [proc[p] EXCEPT !.pc = pc] = [pc |-> pc, req |-> Req(p), res |-> Res(p)]
  BY <1>1
<1>3. /\ proc'[p] = [pc |-> pc, req |-> Req(p), res |-> Res(p)]
      /\ \A q \in Procs : q # p => proc'[q] = proc[q]
  BY <1>1, <1>2 DEF Goto
<1>4. proc'[p].pc = pc /\ Req(p)' = Req(p) /\ Res(p)' = Res(p)
  BY <1>3 DEF Req, Res
<1>5. PathFits(p)
  BY DEF PathInv
<1>6. QED
  BY <1>3, <1>4, <1>5 DEF OwnStep, PathFits

LEMMA OwnReturn == ASSUME PathInv, NEW p \in Procs, Return(p) PROVE OwnStep(p)
<1>1. proc'[p] = Idle /\ \A q \in Procs : q # p => proc'[q] = proc[q]
  BY PathInvIs, ReturnTyped
<1>2. proc'[p].pc = "idle" /\ "idle" \notin OpenPlaces
  BY <1>1 DEF Idle, OpenPlaces
<1>3. QED
  BY <1>1, <1>2 DEF OwnStep, PathFits

LEMMA OwnCall ==
    ASSUME PathInv, NEW p \in Procs, NEW pc, NEW r, NEW res, Call(p, pc, r, res),
           pc \in OpenPlaces => res.path = r.path,
           pc \in {"unmark", "move"} => ~IsFolderName(res.path)
    PROVE  OwnStep(p)
<1>1. /\ proc'[p] = [pc |-> pc, req |-> r, res |-> res]
      /\ \A q \in Procs : q # p => proc'[q] = proc[q]
  BY PathInvIs DEF Call, ProcTypes
<1>2. proc'[p].pc = pc /\ Req(p)' = r /\ Res(p)' = res
  BY <1>1 DEF Req, Res
<1>3. QED
  BY <1>1, <1>2 DEF OwnStep, PathFits

LEMMA OwnStays == ASSUME PathInv, NEW p \in Procs, proc' = proc PROVE OwnStep(p)
  BY DEF PathInv, OwnStep, PathFits, Req, Res

\* A resolution stays at the path it was asked for.
LEMMA ResolvedHere ==
    ASSUME PathInv, Links = {}, NEW q \in Paths, NEW stopFirst, NEW follow
    PROVE  Resolve(disk, iso, q, stopFirst, follow).path = q
<1>1. disk \in Disks /\ \A x \in DOMAIN iso : x \in Paths /\ iso[x] \in Entry
  BY PathInvIs DEF TypeInv, TableFits
<1>2. Resolve(disk, iso, q, stopFirst, follow) = ResolvePlain(disk, iso, q, stopFirst)
  BY <1>1, Unlinked
<1>3. QED
  BY <1>1, <1>2, PlainIs

LEMMA OpenFileOwn ==
    ASSUME PathInv, Links = {}, NEW p \in Procs, NEW r \in Requests, OpenFile(p, r)
    PROVE  OwnStep(p) /\ DiskFits(p)
<1> DEFINE res == Resolve(disk, iso, r.path, ReadsOnly(r), Follow(r))
<1>1. res.path = r.path
  BY RequestIs, ResolvedHere
<1>2. \E pc \in {"unhide", "folders", "copy", "open"} : Call(p, pc, r, res)
  BY DEF OpenFile, OpenResolved, AfterResolve
<1> HIDE DEF res
<1>3. PICK pc \in {"unhide", "folders", "copy", "open"} : Call(p, pc, r, res)
  BY <1>2
<1>4. pc \notin {"unmark", "move"}
  OBVIOUS
<1>5. OwnStep(p)
  BY <1>1, <1>3, <1>4, OwnCall
<1>6. QED
  BY <1>5, DiskKept DEF OpenFile

LEMMA UnhideOwn == ASSUME PathInv, NEW p \in Procs, Unhide(p) PROVE OwnStep(p) /\ DiskFits(p)
<1> DEFINE q == Res(p).path
           W == disk[Upper].whiteout \ {q}
<1>1. disk \in Disks /\ Upper \in Layers /\ ~At(p, "idle") /\ proc[p].pc \in OpenPlaces /\ Goto(p, "again")
  BY PathInvIs, LayersAre DEF Unhide, At, OpenPlaces
<1>2. q \in PathsOf(p) /\ q \in Paths /\ W \in SUBSET Paths
  BY <1>1, PathInvIs, PathsAre DEF Disks, Layer
<1>3. disk' = [disk EXCEPT ![Upper].whiteout = W]
  BY <1>1 DEF Unhide, Disks
<1>4. \A x \in Paths : x # q => (x \in W <=> x \in disk[Upper].whiteout)
  OBVIOUS
<1>5. LocalAt(disk, disk', PathsOf(p)) /\ Sound(disk')
  <2>1. Sound(disk')
    BY <1>1, <1>2, <1>3, SoundMarked DEF PathInv
  <2> HIDE DEF q, W
  <2>2. LocalAt(disk, disk', PathsOf(p))
    BY <1>1, <1>2, <1>3, <1>4, LocalMarked
  <2>3. QED
    BY <2>1, <2>2
<1>6. DiskFits(p)
  BY <1>2, <1>5, ChangeFits
<1>7. OwnStep(p)
  BY <1>1, OwnGoto
<1>8. QED
  BY <1>6, <1>7

LEMMA ResolveAgainOwn ==
    ASSUME PathInv, Links = {}, NEW p \in Procs, ResolveAgain(p) PROVE OwnStep(p) /\ DiskFits(p)
<1> DEFINE again == Resolve(disk, iso, Res(p).path, FALSE, Follow(Req(p)))
<1>1. ~At(p, "idle") /\ proc[p].pc \in OpenPlaces
  BY DEF ResolveAgain, At, OpenPlaces
<1>2. Res(p).path \in Paths /\ Res(p).path = Req(p).path
  BY <1>1, PathInvIs, InCallIs DEF PathInv, PathFits
<1>3. again.path = Req(p).path
  BY <1>2, ResolvedHere
<1>4. \E pc \in {"newdir", "folders"} : Call(p, pc, Req(p), Res(p)) \/ Call(p, pc, Req(p), again)
  BY DEF ResolveAgain
<1> HIDE DEF again
<1>5. PICK pc \in {"newdir", "folders"}, res \in {Res(p), again} : Call(p, pc, Req(p), res)
  BY <1>4
<1>6. res.path = Req(p).path /\ pc \notin {"unmark", "move"}
  BY <1>2, <1>3
<1>7. OwnStep(p)
  BY <1>5, <1>6, OwnCall
<1>8. QED
  BY <1>7, DiskKept DEF ResolveAgain

\* A file is opened where a file was, or made where the request may make one.
LEMMA OpenedFits ==
    ASSUME KindsFixed, NEW d \in Disks, Sound(d), NEW i \in Layers, NEW r \in Requests,
           r.call \in {"create", "open"}, CanOpen(d, i, r, r.path), NEW Y, r.path \in Y
    PROVE  Sound(Opened(d, i, r, r.path)) /\ LocalAt(d, Opened(d, i, r, r.path), Y)
<1> DEFINE q == r.path
           n == IF r.dir THEN Dir ELSE File(Empty)
<1>1. q \in Paths /\ n \in Nodes /\ r.dir \in BOOLEAN
  BY RequestIs, ResolveAssumption DEF Nodes
<1>2. CASE Holds(d, i, q) /\ r.disp \in {"open", "open_if"}
  BY <1>2, LocalSame DEF Opened
<1>3. CASE ~(Holds(d, i, q) /\ r.disp \in {"open", "open_if"})
  <2>1. Opened(d, i, r, q) = Put(d, i, q, n)
    BY <1>3 DEF Opened
  <2>2. n \in {None, Dir} \/ ~IsFolderName(q)
    <3>1. CASE r.dir
      BY <3>1
    <3>2. CASE ~r.dir /\ NodeAt(d, i, q) = None
      <4>1. r.disp \in {"create", "open_if", "overwrite_if"}
        BY <3>2 DEF CanOpen
      <4>2. r.call = "create"
        BY <4>1, RequestIs
      <4>3. WantCreate(r)
        BY <4>1, <4>2 DEF WantCreate
      <4>4. QED
        BY <3>2, <4>3 DEF KindsFixed
    <3>3. CASE ~r.dir /\ NodeAt(d, i, q) # None
      <4>1. NodeAt(d, i, q) # Dir
        BY <1>3, <3>3 DEF CanOpen, Holds
      <4>2. QED
        BY <1>1, <3>3, <4>1 DEF Sound, KindsFit, NodeAt
    <3>4. QED
      BY <3>1, <3>2, <3>3
  <2>3. d[i].node[q] # Dir /\ (HasFolder(d, i, q) \/ d[i].node[q] # None)
    <3>1. NodeAt(d, i, q) = d[i].node[q]
      BY <1>1 DEF NodeAt
    <3>2. CASE NodeAt(d, i, q) = None
      <4>1. HasFolder(d, i, q)
        BY <3>2 DEF CanOpen
      <4>2. None # Dir
        BY DEF None, Dir
      <4>3. QED
        BY <3>1, <3>2, <4>1, <4>2
    <3>3. CASE NodeAt(d, i, q) # None
      <4>1. NodeAt(d, i, q) # Dir
        BY <1>3, <3>3 DEF CanOpen, Holds
      <4>2. QED
        BY <3>1, <3>3, <4>1
    <3>4. QED
      BY <3>2, <3>3
  <2> HIDE DEF n, q
  <2>4. Sound(Put(d, i, q, n)) /\ LocalAt(d, Put(d, i, q, n), Y)
    BY <1>1, <2>2, <2>3, SoundPut, LocalPut DEF q
  <2>5. QED
    BY <2>1, <2>4 DEF q
<1>4. QED
  BY <1>2, <1>3

LEMMA MakeFolderAgainOwn ==
    ASSUME PathInv, KindsFixed, NEW p \in Procs, MakeFolderAgain(p) PROVE OwnStep(p) /\ DiskFits(p)
<1>1. disk \in Disks /\ Upper \in Layers /\ ~At(p, "idle") /\ proc[p].pc \in OpenPlaces /\ Goto(p, "opaque")
  BY PathInvIs, LayersAre DEF MakeFolderAgain, At, OpenPlaces
<1>2. /\ Res(p).path \in PathsOf(p) /\ Res(p).path = Req(p).path
      /\ Req(p) \in Requests /\ Req(p).call \in {"create", "open"}
  BY <1>1, PathInvIs, PathsAre, InCallIs DEF PathInv, PathFits
<1>3. \/ disk' = disk
      \/ CanOpen(disk, Upper, Req(p), Req(p).path) /\ disk' = Opened(disk, Upper, Req(p), Req(p).path)
  BY <1>2 DEF MakeFolderAgain
<1>4. Sound(disk') /\ LocalAt(disk, disk', PathsOf(p))
  BY <1>1, <1>2, <1>3, OpenedFits, LocalSame DEF PathInv
<1>5. DiskFits(p)
  BY <1>2, <1>4, ChangeFits
<1>6. OwnStep(p)
  BY <1>1, OwnGoto
<1>7. QED
  BY <1>5, <1>6

LEMMA MakeOpaqueOwn == ASSUME PathInv, NEW p \in Procs, MakeOpaque(p) PROVE OwnStep(p) /\ DiskFits(p)
<1> DEFINE q == Res(p).path
           W == disk[Upper].opaque \cup {q}
<1>1. disk \in Disks /\ Upper \in Layers /\ ~At(p, "idle") /\ Return(p)
  BY PathInvIs, LayersAre DEF MakeOpaque, At
<1>2. q \in PathsOf(p) /\ q \in Paths /\ W \in SUBSET Paths
  BY <1>1, PathInvIs, PathsAre DEF Disks, Layer
<1>3. disk' = disk \/ (disk[Upper].node[q] = Dir /\ disk' = [disk EXCEPT ![Upper].opaque = W])
  BY <1>1, <1>2 DEF MakeOpaque, Disks, NodeAt
<1>4. \A x \in Paths : x # q => (x \in W <=> x \in disk[Upper].opaque)
  OBVIOUS
<1>5. LocalAt(disk, disk', PathsOf(p)) /\ Sound(disk')
  <2>1. CASE disk' = disk
    BY <2>1, LocalSame DEF PathInv
  <2>2. CASE disk[Upper].node[q] = Dir /\ disk' = [disk EXCEPT ![Upper].opaque = W]
    <3>1. Sound(disk')
      BY <1>1, <1>2, <2>2, SoundMarked DEF PathInv
    <3> HIDE DEF q, W
    <3>2. LocalAt(disk, disk', PathsOf(p))
      BY <1>1, <1>2, <1>4, <2>2, LocalMarked
    <3>3. QED
      BY <3>1, <3>2
  <2>3. QED
    BY <1>3, <2>1, <2>2
<1>6. DiskFits(p)
  BY <1>2, <1>5, ChangeFits
<1>7. QED
  BY <1>1, <1>6, OwnReturn

LEMMA MakeFoldersOwn == ASSUME PathInv, NEW p \in Procs, MakeFolders(p) PROVE OwnStep(p) /\ DiskFits(p)
<1> DEFINE i == IF TargetHost(Req(p), Res(p)) THEN Host ELSE Upper
<1>1. disk \in Disks /\ i \in {Upper, Host} /\ i \in Layers /\ ~At(p, "idle") /\ proc[p].pc \in OpenPlaces
  BY PathInvIs, LayersAre DEF MakeFolders, At, OpenPlaces
<1>2. Res(p).path \in PathsOf(p) /\ Res(p).path \in Paths
  BY <1>1, PathInvIs, PathsAre
<1>3. disk' = Folders(disk, i, Res(p).path)
  BY DEF MakeFolders
<1> HIDE DEF i
<1>4. Sound(disk') /\ LocalAt(Folders(disk, i, Res(p).path), disk', PathsOf(p))
  BY <1>1, <1>2, <1>3, SoundFolders, LocalSame DEF PathInv
<1>5. DiskFits(p)
  BY <1>1, <1>2, <1>4, FoldersFit
<1>6. PICK pc \in {"copy", "open"} : Goto(p, pc)
  BY DEF MakeFolders
<1>7. OwnStep(p)
  BY <1>1, <1>6, OwnGoto
<1>8. QED
  BY <1>5, <1>7

\* What a call finds in the layers is no folder only where no folder is.
LEMMA SourceKind ==
    ASSUME PathInv, NEW p \in Procs, proc[p].pc \in CopyPlaces, NEW source,
           source = NodeAt(disk, First(Res(p).hits), Res(p).path), source.kind \in {"file", "link"}
    PROVE  source \in Nodes /\ ~IsFolderName(Res(p).path)
<1>1. ~At(p, "idle") /\ TypeInv /\ ProcTypes /\ disk \in Disks
  BY PathInvIs, PlacesApart DEF At
<1>2. Res(p).hits \in SUBSET Layers /\ Res(p).hits # {} /\ Res(p).path \in Paths
  BY <1>1, InCallIs DEF ProcTypes
<1>3. First(Res(p).hits) \in Layers
  BY <1>2, FirstIs
<1>4. source \in Nodes
  BY <1>1, SourceIs
<1>5. source \notin {None, Dir}
  BY DEF None, Dir
<1>6. source = disk[First(Res(p).hits)].node[Res(p).path]
  BY <1>2 DEF NodeAt
<1>7. QED
  BY <1>2, <1>3, <1>4, <1>5, <1>6 DEF PathInv, Sound, KindsFit

LEMMA CopyStartOwn == ASSUME PathInv, NEW p \in Procs, CopyStart(p) PROVE OwnStep(p) /\ DiskFits(p)
<1> DEFINE q == Res(p).path
           source == NodeAt(disk, First(Res(p).hits), q)
           d == Folders(disk, Upper, q)
           ok == HasFolder(d, Upper, q) /\ NodeAt(d, Upper, q) # Dir
<1>1. /\ disk \in Disks /\ Upper \in Layers /\ ~At(p, "idle") /\ proc[p].pc \in OpenPlaces
      /\ proc[p].pc \in CopyPlaces
  BY PathInvIs, LayersAre DEF CopyStart, At, OpenPlaces, CopyPlaces
<1>2. q \in PathsOf(p) /\ q \in Paths
  BY <1>1, PathInvIs, PathsAre
<1>3. /\ Goto(p, "fill") \/ Goto(p, "copied") \/ Return(p)
      /\ \/ disk' = disk
         \/ disk' = d
         \/ ok /\ source.kind = "file" /\ disk' = Put(d, Upper, q, File(Empty))
         \/ ok /\ source.kind = "link" /\ disk' = Put(d, Upper, q, source)
  BY DEF CopyStart
<1>4. source.kind \in {"file", "link"} => source \in Nodes /\ ~IsFolderName(q)
  BY <1>1, SourceKind
<1>5. File(Empty) \in Nodes
  BY ResolveAssumption DEF Nodes
<1>6. d \in Disks /\ Sound(d)
  BY <1>1, <1>2, SoundFolders DEF PathInv
<1> HIDE DEF q, source
<1>7. ASSUME NEW n \in Nodes, ~IsFolderName(q), ok, disk' = Put(d, Upper, q, n) PROVE DiskFits(p)
  <2> HIDE DEF d
  <2>1. Sound(disk') /\ LocalAt(d, disk', PathsOf(p))
    BY <1>1, <1>2, <1>6, <1>7, SoundPut, LocalPut DEF NodeAt
  <2>2. QED
    BY <1>2, <2>1, FoldersFit DEF d
<1> HIDE DEF d, ok
<1>8. DiskFits(p)
  <2>1. CASE disk' = disk
    BY <2>1, DiskKept
  <2>2. CASE disk' = d
    <3>1. Sound(disk') /\ LocalAt(d, disk', PathsOf(p))
      BY <1>6, <2>2, LocalSame
    <3>2. QED
      BY <1>2, <3>1, FoldersFit DEF d
  <2>3. CASE ok /\ source.kind = "file" /\ disk' = Put(d, Upper, q, File(Empty))
    BY <1>4, <1>5, <1>7, <2>3
  <2>4. CASE ok /\ source.kind = "link" /\ disk' = Put(d, Upper, q, source)
    BY <1>4, <1>7, <2>4
  <2>5. QED
    BY <1>3, <2>1, <2>2, <2>3, <2>4
<1>9. OwnStep(p)
  <2>1. CASE Goto(p, "fill")
    BY <1>1, <2>1, OwnGoto
  <2>2. CASE Goto(p, "copied")
    BY <1>1, <2>2, OwnGoto
  <2>3. CASE Return(p)
    BY <2>3, OwnReturn
  <2>4. QED
    BY <1>3, <2>1, <2>2, <2>3
<1>10. QED
  BY <1>8, <1>9

LEMMA CopyFillOwn == ASSUME PathInv, NEW p \in Procs, CopyFill(p) PROVE OwnStep(p) /\ DiskFits(p)
<1> DEFINE q == Res(p).path
           source == NodeAt(disk, First(Res(p).hits), q)
<1>1. /\ disk \in Disks /\ Upper \in Layers /\ ~At(p, "idle") /\ proc[p].pc \in OpenPlaces
      /\ proc[p].pc \in CopyPlaces /\ Goto(p, "copied")
  BY PathInvIs, LayersAre DEF CopyFill, At, OpenPlaces, CopyPlaces
<1>2. q \in PathsOf(p) /\ q \in Paths
  BY <1>1, PathInvIs, PathsAre
<1>3. disk' = disk \/ (/\ source.kind = "file" /\ disk[Upper].node[q].kind = "file"
                     /\ disk' = Put(disk, Upper, q, source))
  BY <1>2 DEF CopyFill, NodeAt
<1>4. source.kind = "file" => source \in Nodes /\ ~IsFolderName(q)
  BY <1>1, SourceKind
<1> HIDE DEF q, source
<1>5. DiskFits(p)
  <2>1. CASE disk' = disk
    BY <2>1, DiskKept
  <2>2. CASE /\ source.kind = "file" /\ disk[Upper].node[q].kind = "file"
             /\ disk' = Put(disk, Upper, q, source)
    <3>1. disk[Upper].node[q] # Dir /\ disk[Upper].node[q] # None
      BY <2>2 DEF Dir, None
    <3>2. Sound(disk') /\ LocalAt(disk, disk', PathsOf(p))
      BY <1>1, <1>2, <1>4, <2>2, <3>1, SoundPut, LocalPut DEF PathInv
    <3>3. QED
      BY <1>2, <3>2, ChangeFits
  <2>3. QED
    BY <1>3, <2>1, <2>2
<1>6. OwnStep(p)
  BY <1>1, OwnGoto
<1>7. QED
  BY <1>5, <1>6

LEMMA CopyBreaksOwn == ASSUME PathInv, NEW p \in Procs, CopyBreaks(p) PROVE OwnStep(p) /\ DiskFits(p)
<1>1. ~At(p, "idle") /\ proc[p].pc \in OpenPlaces /\ Goto(p, "copied")
  BY DEF CopyBreaks, At, OpenPlaces
<1>2. OwnStep(p)
  BY <1>1, OwnGoto
<1>3. QED
  BY <1>2, DiskKept DEF CopyBreaks

LEMMA CopiedOwn == ASSUME PathInv, NEW p \in Procs, Copied(p) PROVE OwnStep(p) /\ DiskFits(p)
<1> DEFINE res == [Res(p) EXCEPT !.inUpper = TRUE, !.hits = @ \cup {Upper}]
<1>1. ~At(p, "idle") /\ proc[p].pc \in OpenPlaces
  BY DEF Copied, At, OpenPlaces
<1>2. Res(p) \in Results /\ Res(p).path = Req(p).path
  BY <1>1, PathInvIs, InCallIs DEF PathInv, PathFits
<1>3. res.path = Req(p).path
  BY <1>2 DEF Results
<1>4. Call(p, "open", Req(p), res) \/ Goto(p, "open")
  BY DEF Copied
<1> HIDE DEF res
<1>5. OwnStep(p)
  <2>1. CASE Call(p, "open", Req(p), res)
    BY <1>3, <2>1, OwnCall
  <2>2. CASE Goto(p, "open")
    BY <1>1, <2>2, OwnGoto
  <2>3. QED
    BY <1>4, <2>1, <2>2
<1>6. QED
  BY <1>5, DiskKept DEF Copied

LEMMA OpensOwn == ASSUME PathInv, KindsFixed, NEW p \in Procs, Opens(p) PROVE OwnStep(p) /\ DiskFits(p)
<1> DEFINE i == OpenLayer(Req(p), Res(p))
<1>1. disk \in Disks /\ ~At(p, "idle") /\ proc[p].pc \in OpenPlaces
  BY PathInvIs DEF Opens, At, OpenPlaces
<1>2. /\ Res(p).path \in PathsOf(p) /\ Res(p).path = Req(p).path /\ Res(p) \in Results
      /\ Req(p) \in Requests /\ Req(p).call \in {"create", "open"}
  BY <1>1, PathInvIs, PathsAre, InCallIs DEF PathInv, PathFits
<1>3. i \in Layers
  BY <1>2, OpenLayerIs
<1>4. \/ disk' = disk
      \/ CanOpen(disk, i, Req(p), Req(p).path) /\ disk' = Opened(disk, i, Req(p), Req(p).path)
  BY <1>2 DEF Opens
<1>5. Goto(p, "record") \/ Return(p)
  BY DEF Opens
<1> HIDE DEF i
<1>6. Sound(disk') /\ LocalAt(disk, disk', PathsOf(p))
  BY <1>1, <1>2, <1>3, <1>4, OpenedFits, LocalSame DEF PathInv
<1>7. DiskFits(p)
  BY <1>2, <1>6, ChangeFits
<1>8. OwnStep(p)
  <2>1. CASE Goto(p, "record")
    BY <1>1, <2>1, OwnGoto
  <2>2. CASE Return(p)
    BY <2>2, OwnReturn
  <2>3. QED
    BY <1>5, <2>1, <2>2
<1>9. QED
  BY <1>7, <1>8

LEMMA RecordHandleOwn == ASSUME PathInv, NEW p \in Procs, RecordHandle(p) PROVE OwnStep(p) /\ DiskFits(p)
  BY OwnReturn, DiskKept DEF RecordHandle

LEMMA WriteOwn ==
    ASSUME PathInv, NEW p \in Procs, NEW c \in Written, Write(p, c) PROVE OwnStep(p) /\ DiskFits(p)
<1> DEFINE i == handle[p].at[1]
           q == handle[p].at[2]
<1>1. disk \in Disks /\ TypeInv /\ handle[p].open
  BY PathInvIs DEF Write, Denotes
<1>2. i \in Layers /\ q \in Paths /\ q \in PathsOf(p)
  BY <1>1, HandleIs, PathsAre
<1>3. NodeAt(disk, i, q).kind = "file" /\ disk' = Put(disk, i, q, File(c)) /\ proc' = proc
  BY DEF Write
<1> HIDE DEF i, q
<1>4. disk[i].node[q] \notin {None, Dir}
  BY <1>2, <1>3 DEF NodeAt, None, Dir
<1>5. ~IsFolderName(q)
  BY <1>2, <1>4 DEF PathInv, Sound, KindsFit
<1>6. File(c) \in Nodes
  BY FilesystemAssumption DEF Nodes
<1>7. Sound(disk') /\ LocalAt(disk, disk', PathsOf(p))
  BY <1>1, <1>2, <1>3, <1>4, <1>5, <1>6, SoundPut, LocalPut DEF PathInv
<1>8. DiskFits(p)
  BY <1>2, <1>7, ChangeFits
<1>9. QED
  BY <1>3, <1>8, OwnStays

LEMMA SetDeleteOwn == ASSUME PathInv, NEW p \in Procs, SetDelete(p) PROVE OwnStep(p) /\ DiskFits(p)
  BY OwnStays, DiskKept DEF SetDelete

\* The object of a handle which is closed.
LEMMA ClosedFits ==
    ASSUME PathInv, NEW p \in Procs, handle[p].open, disk' = CloseObject(disk, handle[p])
    PROVE  DiskFits(p)
<1> DEFINE i == handle[p].at[1]
           q == handle[p].at[2]
<1>1. i \in Layers /\ q \in Paths /\ q \in PathsOf(p) /\ disk \in Disks
  BY PathInvIs, HandleIs, PathsAre
<1>2. disk' = disk \/ disk' = DeleteOne(disk, i, q)
  BY DEF CloseObject
<1> HIDE DEF i, q
<1>3. Sound(disk') /\ LocalAt(disk, disk', PathsOf(p))
  BY <1>1, <1>2, SoundDeleteOne, LocalDeleteOne, LocalSame DEF PathInv
<1>4. QED
  BY <1>1, <1>3, ChangeFits

LEMMA CloseOwn == ASSUME PathInv, NEW p \in Procs, Close(p) PROVE OwnStep(p) /\ DiskFits(p)
<1>1. handle[p].open /\ disk' = CloseObject(disk, handle[p])
  BY DEF Close
<1>2. proc' = proc \/ \E r : Call(p, "check", r, handle[p].record)
  BY DEF Close
<1>3. OwnStep(p)
  <2>1. CASE proc' = proc
    BY <2>1, OwnStays
  <2>2. CASE \E r : Call(p, "check", r, handle[p].record)
    <3>1. PICK r : Call(p, "check", r, handle[p].record)
      BY <2>2
    <3>2. "check" \notin OpenPlaces
      BY DEF OpenPlaces
    <3>3. QED
      BY <3>1, <3>2, OwnCall
  <2>3. QED
    BY <1>2, <2>1, <2>2
<1>4. QED
  BY <1>1, <1>3, ClosedFits

LEMMA DeleteFileOwn ==
    ASSUME PathInv, NEW p \in Procs, NEW r \in Requests, DeleteFile(p, r) PROVE OwnStep(p) /\ DiskFits(p)
<1>1. PICK res : Call(p, "check", r, res)
  BY DEF DeleteFile
<1>2. "check" \notin OpenPlaces
  BY DEF OpenPlaces
<1>3. OwnStep(p)
  BY <1>1, <1>2, OwnCall
<1>4. QED
  BY <1>3, DiskKept DEF DeleteFile

LEMMA DeleteChecksOwn == ASSUME PathInv, NEW p \in Procs, DeleteChecks(p) PROVE OwnStep(p) /\ DiskFits(p)
<1>1. ~At(p, "idle") /\ (Goto(p, "host") \/ Goto(p, "upper") \/ Return(p))
  BY DEF DeleteChecks, At
<1>2. "host" \notin OpenPlaces /\ "upper" \notin OpenPlaces
  BY DEF OpenPlaces
<1>3. OwnStep(p)
  <2>1. CASE Goto(p, "host")
    BY <1>1, <1>2, <2>1, OwnGoto
  <2>2. CASE Goto(p, "upper")
    BY <1>1, <1>2, <2>2, OwnGoto
  <2>3. CASE Return(p)
    BY <2>3, OwnReturn
  <2>4. QED
    BY <1>1, <2>1, <2>2, <2>3
<1>4. QED
  BY <1>3, DiskKept DEF DeleteChecks

LEMMA EntryFits ==
    ASSUME NEW d \in Disks, Sound(d), NEW i \in Layers, NEW res \in Results, NEW Y, res.path \in Y
    PROVE  Sound(DeleteEntry(d, i, res)) /\ LocalAt(d, DeleteEntry(d, i, res), Y)
<1>1. res.path \in Paths
  BY DEF Results
<1>2. QED
  BY <1>1, SoundRemoveAll, SoundDeleteOne, LocalRemoveAll, LocalDeleteOne DEF DeleteEntry

LEMMA DeleteInHostOwn == ASSUME PathInv, NEW p \in Procs, DeleteInHost(p) PROVE OwnStep(p) /\ DiskFits(p)
<1>1. /\ disk \in Disks /\ Host \in Layers /\ ~At(p, "idle") /\ Goto(p, "upper")
      /\ disk' = DeleteEntry(disk, Host, Res(p))
  BY PathInvIs, LayersAre DEF DeleteInHost, At
<1>2. Res(p).path \in PathsOf(p) /\ Res(p) \in Results
  BY <1>1, PathInvIs, PathsAre, InCallIs
<1>3. Sound(disk') /\ LocalAt(disk, disk', PathsOf(p))
  BY <1>1, <1>2, EntryFits DEF PathInv
<1>4. DiskFits(p)
  BY <1>2, <1>3, ChangeFits
<1>5. "upper" \notin OpenPlaces
  BY DEF OpenPlaces
<1>6. OwnStep(p)
  BY <1>1, <1>5, OwnGoto
<1>7. QED
  BY <1>4, <1>6

LEMMA DeleteInUpperOwn == ASSUME PathInv, NEW p \in Procs, DeleteInUpper(p) PROVE OwnStep(p) /\ DiskFits(p)
<1>1. /\ disk \in Disks /\ Upper \in Layers /\ ~At(p, "idle") /\ (Goto(p, "mark") \/ Return(p))
      /\ disk' \in {disk, DeleteOne(disk, Upper, Res(p).path), DeleteEntry(disk, Upper, Res(p))}
  BY PathInvIs, LayersAre DEF DeleteInUpper, At
<1>2. Res(p).path \in PathsOf(p) /\ Res(p) \in Results /\ Res(p).path \in Paths
  BY <1>1, PathInvIs, PathsAre, InCallIs
<1>3. Sound(disk') /\ LocalAt(disk, disk', PathsOf(p))
  <2>1. CASE disk' = disk
    BY <2>1, LocalSame DEF PathInv
  <2>2. CASE disk' = DeleteOne(disk, Upper, Res(p).path)
    BY <1>1, <1>2, <2>2, SoundDeleteOne, LocalDeleteOne DEF PathInv
  <2>3. CASE disk' = DeleteEntry(disk, Upper, Res(p))
    BY <1>1, <1>2, <2>3, EntryFits DEF PathInv
  <2>4. QED
    BY <1>1, <2>1, <2>2, <2>3
<1>4. DiskFits(p)
  BY <1>2, <1>3, ChangeFits
<1>5. "mark" \notin OpenPlaces
  BY DEF OpenPlaces
<1>6. OwnStep(p)
  <2>1. CASE Goto(p, "mark")
    BY <1>1, <1>5, <2>1, OwnGoto
  <2>2. CASE Return(p)
    BY <2>2, OwnReturn
  <2>3. QED
    BY <1>1, <2>1, <2>2
<1>7. QED
  BY <1>4, <1>6

LEMMA MarkDeletedOwn == ASSUME PathInv, NEW p \in Procs, MarkDeleted(p) PROVE OwnStep(p) /\ DiskFits(p)
<1> DEFINE q == Res(p).path
           d == Folders(disk, Upper, q)
           W == d[Upper].whiteout \cup {q}
<1>1. disk \in Disks /\ Upper \in Layers /\ ~At(p, "idle") /\ Return(p)
  BY PathInvIs, LayersAre DEF MarkDeleted, At
<1>2. q \in PathsOf(p) /\ q \in Paths
  BY <1>1, PathInvIs, PathsAre
<1>3. d \in Disks /\ Sound(d)
  BY <1>1, <1>2, SoundFolders DEF PathInv
<1> HIDE DEF q
<1>4. disk' = d \/ (HasFolder(d, Upper, q) /\ disk' = [d EXCEPT ![Upper].whiteout = W])
  <2>1. disk' = d \/ (HasFolder(d, Upper, q) /\ disk' = [d EXCEPT ![Upper].whiteout = @ \cup {q}])
    BY DEF MarkDeleted, q
  <2> HIDE DEF d
  <2>2. QED
    BY <1>1, <1>3, <2>1 DEF Disks
<1>5. W \in SUBSET Paths /\ \A x \in Paths : x # q => (x \in W <=> x \in d[Upper].whiteout)
  <2> HIDE DEF d
  <2>1. QED
    BY <1>1, <1>2, <1>3 DEF Disks, Layer
<1>6. Sound(disk') /\ LocalAt(d, disk', PathsOf(p))
  <2> HIDE DEF d
  <2>1. CASE disk' = d
    BY <1>3, <2>1, LocalSame
  <2>2. CASE HasFolder(d, Upper, q) /\ disk' = [d EXCEPT ![Upper].whiteout = W]
    <3>1. Sound(disk')
      BY <1>2, <1>3, <2>2, SoundMarked
    <3> HIDE DEF W
    <3>2. LocalAt(d, disk', PathsOf(p))
      BY <1>1, <1>2, <1>3, <1>5, <2>2, LocalMarked
    <3>3. QED
      BY <3>1, <3>2
  <2>3. QED
    BY <1>4, <2>1, <2>2
<1>7. DiskFits(p)
  BY <1>2, <1>6, FoldersFit
<1>8. QED
  BY <1>1, <1>7, OwnReturn

LEMMA RenameOwn ==
    ASSUME PathInv, Links = {}, KindsFixed, NEW p \in Procs, NEW r \in Requests, Rename(p, r)
    PROVE  OwnStep(p) /\ DiskFits(p)
<1> DEFINE res == Resolve(disk, iso, r.path, FALSE, "Parent")
<1>1. r.call = "rename" /\ r.path \in Paths
  BY RequestIs DEF Rename
<1>2. res.path = r.path
  BY <1>1, ResolvedHere
<1>3. ~IsFolderName(r.path)
  BY <1>1 DEF KindsFixed
<1>4. \E q : Call(p, "unmark", q, res) \/ Call(p, "move", q, res)
  BY DEF Rename, RenameResolved
<1> HIDE DEF res
<1>5. PICK pc \in {"unmark", "move"} : \E q : Call(p, pc, q, res)
  BY <1>4
<1>6. PICK q : Call(p, pc, q, res)
  BY <1>5
<1>7. pc \notin OpenPlaces
  BY DEF OpenPlaces
<1>8. OwnStep(p)
  BY <1>2, <1>3, <1>6, <1>7, OwnCall
<1>9. QED
  BY <1>8, DiskKept DEF Rename

LEMMA RenameUnhidesOwn == ASSUME PathInv, NEW p \in Procs, RenameUnhides(p) PROVE OwnStep(p) /\ DiskFits(p)
<1> DEFINE q == Res(p).path
           W == disk[Upper].whiteout \ {q}
<1>1. /\ disk \in Disks /\ Upper \in Layers /\ ~At(p, "idle") /\ proc[p].pc \in {"unmark", "move"}
      /\ Goto(p, "move")
  BY PathInvIs, LayersAre DEF RenameUnhides, At
<1>2. q \in PathsOf(p) /\ q \in Paths /\ W \in SUBSET Paths
  BY <1>1, PathInvIs, PathsAre DEF Disks, Layer
<1>3. disk' = [disk EXCEPT ![Upper].whiteout = W]
  BY <1>1 DEF RenameUnhides, Disks
<1>4. \A x \in Paths : x # q => (x \in W <=> x \in disk[Upper].whiteout)
  OBVIOUS
<1>5. LocalAt(disk, disk', PathsOf(p)) /\ Sound(disk')
  <2>1. Sound(disk')
    BY <1>1, <1>2, <1>3, SoundMarked DEF PathInv
  <2> HIDE DEF q, W
  <2>2. LocalAt(disk, disk', PathsOf(p))
    BY <1>1, <1>2, <1>3, <1>4, LocalMarked
  <2>3. QED
    BY <2>1, <2>2
<1>6. DiskFits(p)
  BY <1>2, <1>5, ChangeFits
<1>7. "move" \notin OpenPlaces
  BY DEF OpenPlaces
<1>8. OwnStep(p)
  BY <1>1, <1>7, OwnGoto
<1>9. QED
  BY <1>6, <1>8

LEMMA RenameMovesOwn == ASSUME PathInv, NEW p \in Procs, RenameMoves(p) PROVE OwnStep(p) /\ DiskFits(p)
<1> DEFINE to   == Res(p).path
           j    == IF ToHost(Res(p)) THEN Host ELSE Upper
           i    == handle[p].at[1]
           from == handle[p].at[2]
           d    == Folders(disk, j, to)
<1>1. /\ disk \in Disks /\ j \in {Upper, Host} /\ j \in Layers /\ ~At(p, "idle")
      /\ proc[p].pc \in {"unmark", "move"} /\ TypeInv
  BY PathInvIs, LayersAre DEF RenameMoves, At
<1>2. to \in PathsOf(p) /\ to \in Paths /\ ~IsFolderName(to)
  BY <1>1, PathsAre DEF PathInv, PathFits
<1>3. handle[p].open /\ i \in {Upper, Host}
  <2>1. handle[p].open
    BY <1>1 DEF TypeInv
  <2>2. handle[p].edit
    BY <1>1 DEF PathInv, WriteInv, CallFits
  <2>3. QED
    BY <2>1, <2>2 DEF PathInv, WriteInv, HandleFits, MayWrite
<1>4. i \in Layers /\ from \in Paths /\ from \in PathsOf(p)
  BY <1>1, <1>3, HandleIs, PathsAre
<1>5. d \in Disks /\ Sound(d)
  BY <1>1, <1>2, SoundFolders DEF PathInv
<1>6. disk' = d \/ (CanMove(d, p, j, to) /\ disk' = Moved(d, i, from, j, to))
  BY DEF RenameMoves
<1>7. Goto(p, "hide") \/ Return(p)
  BY DEF RenameMoves
<1> HIDE DEF to, j, i, from
<1>8. Sound(disk') /\ LocalAt(d, disk', PathsOf(p))
  <2> HIDE DEF d
  <2>1. CASE disk' = d
    BY <1>5, <2>1, LocalSame
  <2>2. CASE CanMove(d, p, j, to) /\ disk' = Moved(d, i, from, j, to)
    <3>1. HasFolder(d, j, to) /\ d[j].node[to] # Dir
      BY <1>2, <2>2 DEF CanMove, Holds, NodeAt, Dir, None
    <3>2. Trees(disk')
      BY <1>1, <1>2, <1>3, <1>4, <1>5, <2>2, <3>1, TreesMoved DEF Sound
    <3>3. KindsFit(disk') /\ LocalAt(d, disk', PathsOf(p))
      BY <1>1, <1>2, <1>4, <1>5, <2>2, KindsMoved, LocalMoved DEF Sound
    <3>4. QED
      BY <3>2, <3>3 DEF Sound
  <2>3. QED
    BY <1>6, <2>1, <2>2
<1>9. DiskFits(p)
  BY <1>1, <1>2, <1>8, FoldersFit
<1>10. "hide" \notin OpenPlaces
  BY DEF OpenPlaces
<1>11. OwnStep(p)
  <2>1. CASE Goto(p, "hide")
    BY <1>1, <1>10, <2>1, OwnGoto
  <2>2. CASE Return(p)
    BY <2>2, OwnReturn
  <2>3. QED
    BY <1>7, <2>1, <2>2
<1>12. QED
  BY <1>9, <1>11

LEMMA HideSourceOwn == ASSUME PathInv, NEW p \in Procs, HideSource(p) PROVE OwnStep(p) /\ DiskFits(p)
<1>1. Return(p) \/ \E res : Call(p, "upper", Req(p), res)
  BY DEF HideSource
<1>2. "upper" \notin OpenPlaces
  BY DEF OpenPlaces
<1>3. OwnStep(p)
  <2>1. CASE Return(p)
    BY <2>1, OwnReturn
  <2>2. CASE \E res : Call(p, "upper", Req(p), res)
    <3>1. PICK res : Call(p, "upper", Req(p), res)
      BY <2>2
    <3>2. QED
      BY <1>2, <3>1, OwnCall
  <2>3. QED
    BY <1>1, <2>1, <2>2
<1>4. QED
  BY <1>3, DiskKept DEF HideSource

LEMMA KilledOwn == ASSUME PathInv, NEW p \in Procs, Killed(p) PROVE OwnStep(p) /\ DiskFits(p)
<1>1. Return(p) /\ (disk' = disk \/ (handle[p].open /\ disk' = CloseObject(disk, handle[p])))
  BY DEF Killed
<1>2. DiskFits(p)
  BY <1>1, DiskKept, ClosedFits
<1>3. QED
  BY <1>1, <1>2, OwnReturn

-----------------------------------------------------------------------------
LEMMA NextOwn ==
    ASSUME PathInv, Links = {}, KindsFixed, Next
    PROVE  iso' = iso /\ \E p \in Procs : OwnStep(p) /\ DiskFits(p)
<1>1. PICK p \in Procs : Begins(p) \/ Goes(p) \/ Uses(p) \/ Killed(p)
  BY DEF Next
<1>2. CASE Begins(p)
  <2>1. PICK r \in Requests : OpenFile(p, r) \/ DeleteFile(p, r) \/ Rename(p, r)
    BY <1>2 DEF Begins
  <2>2. OwnStep(p) /\ DiskFits(p)
    BY <2>1, OpenFileOwn, DeleteFileOwn, RenameOwn
  <2>3. iso' = iso
    BY <2>1 DEF OpenFile, DeleteFile, Rename
  <2>4. QED
    BY <2>2, <2>3
<1>3. CASE Goes(p)
  <2>1. OwnStep(p) /\ DiskFits(p)
    BY <1>3, UnhideOwn, ResolveAgainOwn, MakeFolderAgainOwn, MakeOpaqueOwn, MakeFoldersOwn, CopyStartOwn,
       CopyFillOwn, CopyBreaksOwn, CopiedOwn, OpensOwn, RecordHandleOwn, DeleteChecksOwn, DeleteInHostOwn,
       DeleteInUpperOwn, MarkDeletedOwn, RenameUnhidesOwn, RenameMovesOwn, HideSourceOwn DEF Goes
  <2>2. iso' = iso
    BY <1>3 DEF Goes, Unhide, ResolveAgain, MakeFolderAgain, MakeOpaque, MakeFolders, CopyStart, CopyFill,
       CopyBreaks, Copied, Opens, RecordHandle, DeleteChecks, DeleteInHost, DeleteInUpper, MarkDeleted,
       RenameUnhides, RenameMoves, HideSource
  <2>3. QED
    BY <2>1, <2>2
<1>4. CASE Uses(p)
  <2>1. OwnStep(p) /\ DiskFits(p)
    BY <1>4, WriteOwn, SetDeleteOwn, CloseOwn DEF Uses
  <2>2. iso' = iso
    BY <1>4 DEF Uses, Write, SetDelete, Close
  <2>3. QED
    BY <2>1, <2>2
<1>5. CASE Killed(p)
  <2>1. OwnStep(p) /\ DiskFits(p)
    BY <1>5, KilledOwn
  <2>2. QED
    BY <1>5, <2>1 DEF Killed
<1>6. QED
  BY <1>1, <1>2, <1>3, <1>4, <1>5

LEMMA NextPathInv ==
    ASSUME PathInv, WritersAsk, Links = {}, KindsFixed, [Next]_vars
    PROVE  PathInv'
<1>1. WriteInv'
  BY NextWrites DEF PathInv
<1>2. CASE UNCHANGED vars
  <2>1. disk' = disk /\ proc' = proc
    BY <1>2 DEF vars
  <2>2. Sound(disk') /\ \A p \in Procs : PathFits(p)'
    BY <2>1 DEF PathInv, PathFits, Req, Res
  <2>3. QED
    BY <1>1, <2>2 DEF PathInv
<1>3. CASE Next
  <2>1. PICK p \in Procs : OwnStep(p) /\ DiskFits(p)
    BY <1>3, NextOwn
  <2>2. ASSUME NEW q \in Procs, q # p PROVE PathFits(q)'
    <3>1. proc'[q] = proc[q] /\ PathFits(q)
      BY <2>1, <2>2 DEF OwnStep, PathInv
    <3>2. QED
      BY <3>1 DEF PathFits, Req, Res
  <2>3. Sound(disk') /\ PathFits(p)'
    BY <2>1 DEF OwnStep, DiskFits
  <2>4. QED
    BY <1>1, <2>2, <2>3 DEF PathInv
<1>4. QED
  BY <1>2, <1>3

LEMMA StepChangesOwn ==
    ASSUME PathInv, Links = {}, KindsFixed, Next, disk' \in Disks, disk' # disk
    PROVE  \E p \in Procs : /\ \A q \in Procs \ {p} : proc'[q] = proc[q]
                            /\ ChangedAtItsPath(p, View(disk, iso), View(disk', iso'))
<1>1. PICK p \in Procs : OwnStep(p) /\ DiskFits(p)
  BY NextOwn
<1>2. iso' = iso
  BY NextOwn
<1>3. /\ disk \in Disks /\ KindsFit(disk) /\ PathsOf(p) \in SUBSET Paths
      /\ ChangesAt(disk, disk', PathsOf(p))
  BY <1>1, PathInvIs, PathsAre DEF PathInv, DiskFits, Sound
<1>4. ASSUME NEW x \in Paths, View(disk', iso)[x] # View(disk, iso)[x]
      PROVE  \E y \in PathsOf(p) : \/ IsPrefix(y, x)
                                   \/ OnTheWay(x, y) /\ View(disk, iso)[x] = None /\ View(disk', iso)[x] = Dir
  BY <1>3, <1>4, ChangedView
<1>5. ChangedAtItsPath(p, View(disk, iso), View(disk', iso))
  BY <1>4 DEF ChangedAtItsPath
<1>6. QED
  BY <1>1, <1>2, <1>5 DEF OwnStep

LEMMA InitPathInv == ASSUME Init, KindsFixed PROVE PathInv
<1>1. PICK s \in Starts : disk = s.disk
  BY DEF Init
<1>2. Sound(disk)
  BY <1>1, FilesystemAssumption DEF KindsFixed, Sound, Trees
<1>3. \A p \in Procs : PathFits(p)
  BY DEF Init, PathFits, Idle, OpenPlaces
<1>4. QED
  BY <1>2, <1>3, InitWriteInv DEF PathInv

\* A step changes the view where the process which makes it has a call or a handle, and
\* nowhere else but for the folders it makes: the steps of other processes in between, a
\* copy which breaks off and a death cannot bring another entry back or lose one.  Where
\* folders are, the layers have folders and the calls make no file; links are left out,
\* since they give one object two names.
THEOREM OnlyOwnPathsChange ==
    ASSUME WritersAsk, Links = {}, KindsFixed
    PROVE  Spec => OnlyItsOwnPath
<1>1. Init => PathInv
  BY InitPathInv
<1>2. PathInv /\ [Next]_vars => PathInv'
  BY NextPathInv
<1>3. PathInv /\ PathInv' /\ [Next]_vars =>
        [disk' # disk => \E p \in Procs : /\ \A q \in Procs \ {p} : proc'[q] = proc[q]
                                          /\ ChangedAtItsPath(p, View(disk, iso), View(disk', iso'))]_vars
  <2>1. PathInv' => disk' \in Disks
    BY DEF PathInv, WriteInv, TypeInv
  <2>2. QED
    BY <2>1, StepChangesOwn DEF vars
<1>4. QED
  BY <1>1, <1>2, <1>3, PTL DEF Spec, OnlyItsOwnPath
=============================================================================
