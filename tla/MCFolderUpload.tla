--------------------------- MODULE MCFolderUpload ---------------------------
(***************************************************************************)
(* Instances of FolderUpload for TLC: a directory "root" holding folders   *)
(* "a" and "b" and their files.                                            *)
(***************************************************************************)
EXTENDS FolderUpload

CONSTANTS root, a, b, fa, fb

MCParent == [i \in Items |-> CASE i = root -> Top
                               [] i = fa -> a
                               [] i = fb -> b
                               [] OTHER -> root]
MCDepth == [f \in Folders |-> IF f = root THEN 1 ELSE 2]
=============================================================================
