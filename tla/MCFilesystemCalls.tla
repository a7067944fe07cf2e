-------------------------- MODULE MCFilesystemCalls --------------------------
(* The instance of MCFilesystem with the history of the calls. *)
EXTENDS MCFilesystem, FilesystemCalls
=============================================================================
