------------------------------ MODULE FileTree ------------------------------
(***************************************************************************)
(* What the view promises a process: one plain file system.  A call which   *)
(* succeeds does to the tree what the same call does to a file system      *)
(* without layers, at one instant; a call which fails leaves it alone.      *)
(***************************************************************************)
EXTENDS Naturals, Sequences
LOCAL INSTANCE SequencesExt

CONSTANTS Paths, Data, Empty, Requests, Written

VARIABLES
    tree,  \* what the view holds
    done   \* the last call and whether it succeeded

None    == [kind |-> "none"]
Dir     == [kind |-> "dir"]
File(c) == [kind |-> "file", data |-> c]

IsFile(p) == tree[p].kind = "file"
Leaf(p)   == tree[p] # None /\ \A q \in Paths : IsStrictPrefix(p, q) => tree[q] = None

\* An entry is made together with the folders above it: a folder the view hides
\* still lets an entry be made below it.
Room(p) == p # <<>> /\ tree[p] = None /\ \A q \in Paths : IsStrictPrefix(q, p) => tree[q] \in {None, Dir}
Grown(p, n) == [q \in Paths |-> IF q = p THEN n
                                ELSE IF IsStrictPrefix(q, p) THEN Dir ELSE tree[q]]

Open(r)     == /\ r.call \in {"open", "create"} /\ r.disp \in {"open", "open_if"}
               /\ tree[r.path] # None /\ UNCHANGED tree
Create(r)   == /\ r.call = "create" /\ r.disp \in {"create", "open_if", "overwrite_if"}
               /\ Room(r.path) /\ tree' = Grown(r.path, IF r.dir THEN Dir ELSE File(Empty))
Truncate(r) == /\ r.call = "create" /\ r.disp \in {"overwrite", "overwrite_if"}
               /\ IsFile(r.path) /\ tree' = [tree EXCEPT ![r.path] = File(Empty)]
Delete(r)   == /\ r.call = "delete"
               /\ Leaf(r.path) /\ tree' = [tree EXCEPT ![r.path] = None]
Rename(r)   == /\ r.call = "rename"
               /\ Room(r.path) \/ (r.disp = "overwrite_if" /\ IsFile(r.path))
               /\ \E p \in Paths \ {r.path} :
                      /\ IsFile(p)
                      /\ tree' = [Grown(r.path, tree[p]) EXCEPT ![p] = None]

Succeeds(r) == /\ Open(r) \/ Create(r) \/ Truncate(r) \/ Delete(r) \/ Rename(r)
               /\ done' = [req |-> r, ok |-> TRUE]
Fails(r)    == UNCHANGED tree /\ done' = [req |-> r, ok |-> FALSE]

\* A write through a handle.
Write(p, c) == IsFile(p) /\ tree' = [tree EXCEPT ![p] = File(c)] /\ UNCHANGED done

\* A handle which was set to delete is closed.  A folder which some layer holds an
\* entry in stays, and nobody is told.
Close(p) == /\ \/ tree[p] \in {None, Dir} /\ UNCHANGED tree
               \/ Leaf(p) /\ tree' = [tree EXCEPT ![p] = None]
            /\ done' = [closed |-> p]

Next == \/ \E r \in Requests : Succeeds(r) \/ Fails(r)
        \/ \E p \in Paths : Close(p) \/ \E c \in Written : Write(p, c)

Init == tree[<<>>] = Dir /\ \A p \in Paths \ {<<>>} : tree[p] # None => tree[Front(p)] = Dir

Spec == Init /\ [][Next]_<<tree, done>>
=============================================================================
