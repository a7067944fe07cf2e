---------------------------- MODULE MCFilesystem ----------------------------
(* A folder with one file in it and a file beside it; one packed layer. *)
EXTENDS FilesystemIsolation

CONSTANTS docs, note, memo, blank, packed, hosted, typed, a, b

D == <<docs>>
X == <<docs, note>>
F == <<memo>>
MCPaths == {<<>>, D, X, F}
MCMount == <<<<>>>>

Holding(n) == [node |-> [p \in MCPaths |-> IF p = <<>> THEN Dir ELSE IF p \in DOMAIN n THEN n[p] ELSE None],
               whiteout |-> {}, opaque |-> {}]
Whole(c) == (D :> Dir) @@ (X :> File(c)) @@ (F :> File(c))
Trees(c) == {<<>>, D :> Dir, F :> File(c), (D :> Dir) @@ (X :> File(c)), Whole(c)}
Disk(u, lo, ho) == [i \in 0..2 |-> IF i = 0 THEN Holding(u) ELSE IF i = 1 THEN Holding(lo) ELSE Holding(ho)]

At_(p, mode, kind) == p :> [mode |-> mode, kind |-> kind]
Everywhere(mode) == At_(<<>>, mode, "dir")

Calls(paths, disps, edits, dirs) ==
    [call : {"create"}, path : paths, disp : disps, edit : edits, dir : dirs]
Opens_(paths)   == [call : {"open"}, path : paths, disp : {"open"}, edit : BOOLEAN, dir : {FALSE}]
Deletes(paths)  == [call : {"delete"}, path : paths, disp : {"open"}, edit : {FALSE}, dir : {FALSE}]
Renames(paths)  == [call : {"rename"}, path : paths, disp : {"create", "overwrite_if"}, edit : {FALSE}, dir : {FALSE}]
Folder(paths)   == Calls(paths, {"create", "open_if", "open"}, {FALSE}, {TRUE})

\* One process, nothing outside the sandbox.
SeqRequests == Calls({X, F}, {"create", "open_if", "open"}, BOOLEAN, {FALSE})
               \cup Calls({X, F}, {"overwrite", "overwrite_if"}, {TRUE}, {FALSE})
               \cup Folder({D}) \cup Opens_({D, X, F}) \cup Deletes({D, X, F}) \cup Renames({X, F})
SeqStarts ==
    {[disk |-> Disk(<<>>, lo, ho), iso |-> t] :
        lo \in {<<>>, Whole(packed)}, ho \in {<<>>, D :> Dir, Whole(hosted)},
        t \in {Everywhere("WriteCopy"), Everywhere("WriteCopy") @@ At_(D, "Full", "dir"),
               Everywhere("WriteCopy") @@ At_(X, "Whiteout", "file")}}
MergeStarts ==
    {[disk |-> Disk(u, lo, ho), iso |-> Everywhere("Merge")] :
        u \in {<<>>, F :> File(typed)}, lo \in {<<>>, D :> Dir}, ho \in Trees(hosted)}

\* Two processes and their faults, in the folder.  Beside it lies a packed file
\* which an earlier run deleted; the file of the folder is moved there.
RaceRequests == Calls({X}, {"open_if", "overwrite_if"}, {TRUE}, {FALSE}) \cup Calls({X}, {"create"}, {FALSE}, {FALSE})
                \cup Calls({D}, {"create"}, {FALSE}, {TRUE}) \cup Opens_({X}) \cup Deletes({D, X})
                \cup Renames({F})
RaceStarts ==
    {[disk |-> [Disk(<<>>, lo, ho) EXCEPT ![Upper].whiteout = {F}], iso |-> Everywhere(m)] :
        lo \in {F :> File(packed), Whole(packed)}, ho \in {D :> Dir, (D :> Dir) @@ (X :> File(hosted))},
        m \in {"WriteCopy", "Merge"}}
\* A file where a folder was, and an overwrite which asks for no access to write.
FileRequests == Calls({D}, {"create"}, {TRUE}, {FALSE}) \cup Deletes({D, X})
FileStarts == {[disk |-> [Disk(<<>>, Whole(packed), <<>>) EXCEPT ![Upper].whiteout = {D}], iso |-> Everywhere("WriteCopy")]}
OverwriteRequests == Calls({F}, {"overwrite"}, {FALSE}, {FALSE})
RaceSymmetry == Permutations({a, b})
=============================================================================
