----------------------------- MODULE MCFolders ------------------------------
(***************************************************************************)
(* Small instances of FolderCounts.                                        *)
(***************************************************************************)
EXTENDS FolderCounts, TLC

CONSTANTS outer, inner, deep, near, top

\* A directory with a file and a directory, which has a file.
Nested == (outer :> top) @@ (inner :> outer) @@ (deep :> inner) @@ (near :> outer)
=============================================================================
