---------------------------- MODULE MCDirectory ----------------------------
(***************************************************************************)
(* Instances of Directory for TLC: two rows, one to a page, that say one   *)
(* of two things, and a term that matches one of the two.  At first both   *)
(* rows are there, or one that the term matches.                           *)
(***************************************************************************)
EXTENDS Directory

MCMatches == [t \in Terms |-> IF t = All THEN Texts ELSE {"match"}]
MCStarts == {[i \in Items |-> IF i = 1 THEN "other" ELSE "match"],
             [i \in Items |-> IF i = 1 THEN None ELSE "match"]}
=============================================================================
