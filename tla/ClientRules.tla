----------------------------- MODULE ClientRules -----------------------------
(***************************************************************************)
(* The rules the web client's pages share: which actions an account is     *)
(* offered on a node (shared/authz), how a page of children is cut, the    *)
(* name an upload takes when its own is taken, and how an answer of the    *)
(* API becomes an error.  The pages' modules use them; they hold no state. *)
(***************************************************************************)
EXTENDS Access, Integers, FiniteSets

\* What role() gives before a session is known, and access_level when the
\* answer has none.
NoRole == "no role"
NoLevel == "no level"

-----------------------------------------------------------------------------
(***************************************************************************)
(* What is offered                                                         *)
(***************************************************************************)

RoleCeilingRank(role) == CASE role = "limited"            -> 1
                           [] role \in {"normal", "super"} -> 4
                           [] OTHER                        -> 0

hasKnownAccess(level) == level \in AccessLevels

\* Mutant: the level alone decides.
EffectiveRank_NoCeiling(role, level) ==
    IF role = NoRole \/ ~hasKnownAccess(level) THEN 0 ELSE Rank(level)

EffectiveRank(role, level) ==
    IF role = NoRole \/ ~hasKnownAccess(level) THEN 0
    ELSE IF Rank(level) < RoleCeilingRank(role) THEN Rank(level) ELSE RoleCeilingRank(role)

canReadNode(role, level) == EffectiveRank(role, level) >= 1

canCommentOnNode(role, level) == role # "limited" /\ canReadNode(role, level)

\* canCreateFolder, canUploadDoc, canEditNode and canDeleteNode.
canChangeNode(role, level) == EffectiveRank(role, level) >= 2

\* canAssignGroupUsr, and the two canManageGroup... that are the same.
canManageGroups(role) == role \in {"super", "normal"}

isValidAccessForRole(level, target) ==
    \/ target = "limited" /\ level = "read_only"
    \/ target = "normal" /\ hasKnownAccess(level)

canManageUsrs(role) == role = "super"

-----------------------------------------------------------------------------
(***************************************************************************)
(* Pages of a list of children                                             *)
(***************************************************************************)

TotalPages(total, size) == IF total = 0 THEN 1 ELSE (total + size - 1) \div size

\* The page a request for any page number gets.
PageFor(requested, pages) ==
    IF requested < 1 THEN 1 ELSE IF requested > pages THEN pages ELSE requested

-----------------------------------------------------------------------------
(***************************************************************************)
(* Names.  A file name is its base with its extension, and the suffixes    *)
(* " (n)" put after the base, oldest first: "a (1) (2).txt" is             *)
(* [base |-> "a.txt", marks |-> <<1, 2>>].                                 *)
(***************************************************************************)

Renamed(name, k) == [name EXCEPT !.marks = Append(@, k)]

FreeSuffixes(name, taken) ==
    {k \in 1 .. Cardinality(taken) + 1 : Renamed(name, k) \notin taken}

\* The first free name: the code's loop throws when no suffix is free.
uniqueFileName(name, taken) ==
    IF name \notin taken THEN name
    ELSE Renamed(name, CHOOSE k \in FreeSuffixes(name, taken) :
                           \A j \in FreeSuffixes(name, taken) : k <= j)

-----------------------------------------------------------------------------
(***************************************************************************)
(* Answers of the API                                                      *)
(***************************************************************************)

\* The class of error of a request that was not answered with a 2xx; fetch
\* itself rejects when there is no answer (status 0).
ErrorClass(status) ==
    CASE status = 0   -> "TypeError"
      [] status = 401 -> "ApiUnauthenticatedError"
      [] status = 403 -> "ApiForbiddenError"
      [] status = 404 -> "ApiNotFoundError"
      [] status = 409 -> "ApiConflictError"
      [] status = 429 -> "ApiRateLimitError"
      [] status = 500 -> "ApiInternalServerError"
      [] OTHER        -> "ApiError"

IsApiError(class) == class # "TypeError"

\* The heading ErrView puts over an error.
ErrorType(class) ==
    CASE class = "ApiUnauthenticatedError" -> "Session Expired"
      [] class = "ApiForbiddenError"       -> "Access Denied"
      [] class = "ApiNotFoundError"        -> "Not Found"
      [] class = "ApiConflictError"        -> "Conflict"
      [] class = "ApiRateLimitError"       -> "Rate Limit Exceeded"
      [] class = "ApiInternalServerError"  -> "Server Error"
      [] class = "ApiError"                -> "Invalid Request"
      [] OTHER                             -> "Something Went Wrong"
=============================================================================
