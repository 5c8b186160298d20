----------------------------- MODULE MCBatchTree -----------------------------
(***************************************************************************)
(* An instance of BatchTree for TLC: a folder with a file and a folder     *)
(* with a file, where the outer folder's path may be announced as a file   *)
(* too.                                                                    *)
(***************************************************************************)
EXTENDS BatchTree

MCPaths == {<<"d">>, <<"d", "x">>, <<"d", "e", "y">>}
=============================================================================
