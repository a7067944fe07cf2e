---------------------------- MODULE MCLayeredDisk ----------------------------
(* A folder in a folder with one name in it, and one packed layer mounted at *)
(* the inner folder, below a name which a marker of another layer may hide.  *)
EXTENDS LayeredDisk

CONSTANTS docs, note, page, blank

MCPaths == {<<>>, <<docs>>, <<docs, note>>, <<docs, note, page>>}
MCLinks == {[rel |-> FALSE, to |-> <<docs>>]}
MCBelow == <<<<docs, note>>>>

\* A link of the host which leads past the folder to another name.
BesidePaths == {<<>>, <<docs>>, <<docs, note>>, <<note>>}
RootLinks   == {[rel |-> FALSE, to |-> <<>>]}
=============================================================================
