----------------------------- MODULE LayeredDisk -----------------------------
(***************************************************************************)
(* Every disk a resolution may meet, built one object at a time: the host  *)
(* and the packed layers by whoever made them, the upper layer by earlier  *)
(* runs of the sandbox, the isolation table by the workspace.  The module   *)
(* checks the walk of ResolveCore against a definition which does not walk *)
(* layers one after the other: the stack of folders of a union mount.      *)
(***************************************************************************)
EXTENDS ResolveCore, TLC

CONSTANTS MaxObjects  \* bound: objects and markers a disk carries

VARIABLES disk, iso

vars == <<disk, iso>>

BareLayer(i) == [node |-> [p \in Paths |-> IF p = MountOf(i) THEN Dir ELSE None], whiteout |-> {}, opaque |-> {}]

Objects(d) ==
    LET of(i) == Cardinality({p \in Paths \ {MountOf(i)} : d[i].node[p] # None})
                 + Cardinality(d[i].whiteout) + Cardinality(d[i].opaque)
        sum[i \in 0..Host] == of(i) + (IF i = 0 THEN 0 ELSE sum[i - 1])
    IN  sum[Host]

Init == disk = [i \in Layers |-> BareLayer(i)] /\ iso = <<>>

\* A name of a layer: the folders above it are there, and a layer which is
\* mounted somewhere holds nothing outside.
Room(i, p) == /\ p # <<>> /\ MountOf(i) # p /\ IsPrefix(MountOf(i), p)
              /\ disk[i].node[Front(p)] = Dir

PutNode(i, p) ==
    /\ Objects(disk) < MaxObjects /\ Room(i, p)
    /\ disk[i].node[p] = None
    /\ \E n \in Nodes \ {None} : disk' = [disk EXCEPT ![i].node[p] = n]
    /\ UNCHANGED iso

\* The markers of the upper layer are the records of deletes of earlier runs, the
\* markers of a packed layer are part of the package; the host carries none.
PutWhiteout(i, p) ==
    /\ Objects(disk) < MaxObjects /\ i # Host /\ Room(i, p)
    /\ disk[i].node[p] = None
    /\ disk' = [disk EXCEPT ![i].whiteout = @ \cup {p}]
    /\ UNCHANGED iso

PutOpaque(i, p) ==
    /\ Objects(disk) < MaxObjects /\ i # Host
    /\ p # <<>> /\ disk[i].node[p] = Dir
    /\ disk' = [disk EXCEPT ![i].opaque = @ \cup {p}]
    /\ UNCHANGED iso

\* The workspace lists one path, before anything else is there.
List(p) ==
    /\ iso = <<>> /\ Objects(disk) = 0
    /\ \E e \in Entry : iso' = (p :> e)
    /\ UNCHANGED disk

Next == \/ \E i \in Layers, p \in Paths : PutNode(i, p) \/ PutWhiteout(i, p) \/ PutOpaque(i, p)
        \/ \E p \in Paths : List(p)

Spec == Init /\ [][Next]_vars

-----------------------------------------------------------------------------
\* A union mount, folder by folder: the layers which take part in a folder are those
\* of the folder above which hold it, and the ones mounted there.  Below a layer whose
\* folder above is opaque or which carries a whiteout none takes part from then on,
\* the ones mounted further down included.
Drive == [layers |-> {}, open |-> Layers]
Folder(p, k, over) ==
    LET q     == Prefix(p, k)
        ended == {j \in over.layers : Prefix(p, k - 1) \in disk[j].opaque \/ q \in disk[j].whiteout}
        open  == {i \in over.open : \A j \in ended : i <= j}
    IN  [open   |-> open,
         layers |-> {i \in open : /\ i \in over.layers \/ MountOf(i) = q
                                 /\ disk[i].node[q] # None /\ q \notin disk[i].whiteout}]
Stack(p) ==
    LET at[k \in 0..Len(p)] == Folder(p, k, IF k = 0 THEN Drive ELSE at[k - 1])
    IN  at[Len(p)].layers

\* Some layers hold a folder and others something else under one name on the way:
\* a union mount has no answer there.
Mixed(p) == \E i, j \in Layers, k \in 0..Len(p) :
                /\ NodeAt(disk, i, Prefix(p, k)) = Dir
                /\ NodeAt(disk, j, Prefix(p, k)) \notin {None, Dir}

\* A layer is mounted below a name which another layer holds as a link: the search
\* of a path in it goes past the link.
Bypassed(p) == \E i, j \in Layers, k \in 0..Len(p) :
                   /\ IsStrictPrefix(Prefix(p, k), MountOf(i))
                   /\ NodeAt(disk, j, Prefix(p, k)).kind = "link"

\* The walk finds an entry in exactly the layers of a union mount which the
\* isolation leaves visible: a marker hides what lies below it, at any depth, and
\* nothing else.
WalkIsUnion ==
    \A p \in Paths :
        ResolvePlain(disk, iso, p, FALSE).hits = {i \in Stack(p) : ~Masked(Lookup(iso, p), i)}

\* A reader, whose search stops at the first hit, and a writer, whose search
\* asks every layer, agree on whether a path exists and on the object it names.
\* Why a path does not exist they may tell apart, when the table masks it.
SameAnswer(p, follow) ==
    LET r == Resolve(disk, iso, p, TRUE, follow)
        w == Resolve(disk, iso, p, FALSE, follow)
    IN  /\ r.status = w.status \/ (r.masked /\ ~(r.status = "Exists" \/ w.status = "Exists"))
        /\ r.path = w.path /\ r.kind = w.kind
        /\ r.hits # {} => First(r.hits) = First(w.hits)
ReadersAndWritersAgree ==
    \A p \in Paths, follow \in {"All", "Parent"} : ~Mixed(p) /\ ~Bypassed(p) => SameAnswer(p, follow)

\* Violated where a layer is mounted below a link: the reader stops in that layer and
\* never meets the link, the writer meets it in a later layer and follows it.
AgreePastLinks ==
    \A p \in Paths, follow \in {"All", "Parent"} : ~Mixed(p) => SameAnswer(p, follow)

\* An enumeration of a folder reports exactly the names a query of the view finds
\* in it, apart from links which lead nowhere.  (An entry which is listed with a
\* mode of its own, and the root of a layer, are found by name only.)
Found(p)    == QueryPath(disk, iso, p) # None
FoundAll(p) == Found(p) /\ Resolve(disk, iso, p, TRUE, "All").status = "Exists"
ByNameOnly(p) == p \in DOMAIN iso \/ \E i \in Layers : MountOf(i) = p
ListingIsView ==
    \A p \in Paths :
        LET r       == Resolve(disk, iso, p, FALSE, "All")
            listing == Listing(disk, iso, r)
        IN  r.resolved /\ r.kind = "dir" /\ ~Mixed(r.path) /\ ~Bypassed(r.path) =>
                \A q \in Paths \ {<<>>} :
                    Front(q) = r.path /\ ~ByNameOnly(q) => (Last(q) \in listing <=> FoundAll(q))

=============================================================================
