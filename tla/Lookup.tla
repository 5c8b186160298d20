------------------------------- MODULE Lookup -------------------------------
(***************************************************************************)
(* What a panel of the web client promises: it is asked for one thing      *)
(* after another, shows nothing while an answer is under way, and then the *)
(* thing it was asked for last, or that it could not be had; never what it *)
(* was asked for before, in whatever order the answers come.               *)
(***************************************************************************)
CONSTANTS Things, Nothing

VARIABLES
    asked,     \* the thing the panel should show
    shown,     \* the thing whose answer it shows
    waiting

lvars == <<asked, shown, waiting>>

Init ==
    /\ asked \in Things \cup {Nothing}
    /\ shown = Nothing
    /\ waiting \in BOOLEAN

Ask ==
    /\ asked' \in Things
    /\ shown' = Nothing
    /\ waiting' = TRUE

Settle ==
    /\ waiting /\ waiting' = FALSE
    /\ asked' = asked
    /\ shown' \in {asked, Nothing}

\* There is nothing to show any more.
Close ==
    /\ asked' \in Things \cup {Nothing}
    /\ shown' = Nothing
    /\ waiting' = FALSE

Next == Ask \/ Settle \/ Close

\* Every wait ends, with an answer or without.
Spec == Init /\ [][Next]_lvars /\ (waiting ~> ~waiting)
=============================================================================
