------------------------------- MODULE Session -------------------------------
(***************************************************************************)
(* The session of one tab of the web client: the session check, the login  *)
(* form, the logout button and the gate in front of every page.            *)
(*                                                                         *)
(* The session is a cookie the server sets and clears in its answers; what *)
(* the client knows of it is AuthProvider's state.  An answer changes the  *)
(* cookie when it arrives, and the state when the code awaiting it runs.   *)
(***************************************************************************)
EXTENDS ClientRules

CONSTANTS
    Usrs, RoleOf,   \* the accounts
    Pages,          \* the paths behind ProtectedRoute
    Failures,       \* the statuses of a call that fails; 0 is no answer at all
    MaxCalls,       \* bound on the calls of the API
    None

ASSUME UsrsAssumption == RoleOf \in [Usrs -> Roles] /\ None \notin Usrs
ASSUME PagesAssumption == {"nodes", "usrs"} \subseteq Pages /\ "login" \notin Pages
ASSUME FailuresAssumption == Failures \subseteq Nat \ {200, 401} /\ None \notin Nat
ASSUME BoundAssumption == MaxCalls \in Nat \ {0}

VARIABLES
    cookie,    \* whose session the browser holds
    state,     \* AuthProvider's
    path,      \* the route on display
    form,      \* the fields and flags of the login form, when it is mounted
    calls,     \* the calls of the API whose answer has not been taken
    sent,      \* how many calls there have been
    crossed    \* history: since the page was loaded, a login and another call
               \* were under way at once

vars == <<cookie, state, path, form, calls, sent, crossed>>

\* What is typed: an account's credentials, wrong ones, or none the DTO takes.
Credentials == Usrs \cup {"wrong", "invalid"}

State == [usr : Usrs \cup {None}, checked : BOOLEAN, checking : BOOLEAN,
          error : {None} \cup {ErrorClass(s) : s \in Failures}]
Form == [creds : Credentials, loading : BOOLEAN, issue : BOOLEAN]
Call == [op : {"me", "login", "logout"}, who : Usrs \cup {None}, mounted : BOOLEAN,
         answer : {None, 200, 401} \cup Failures, n : 1 .. MaxCalls]

ASSUME NoneAssumption == None \notin Form

TypeOK ==
    /\ cookie \in Usrs \cup {None}
    /\ state \in State
    /\ path \in Pages \cup {"login"}
    /\ form \in Form \cup {None}
    /\ form = None <=> path # "login"
    /\ calls \subseteq Call
    /\ sent \in 0 .. MaxCalls
    /\ crossed \in BOOLEAN

EmptyForm == [creds |-> "invalid", loading |-> FALSE, issue |-> FALSE]

role(s) == IF s.usr = None THEN NoRole ELSE RoleOf[s.usr]

\* What ProtectedRoute shows at a path: only the login form is in front of it.
Screen(p, s) ==
    IF p = "login" THEN "form"
    ELSE IF ~s.checked \/ s.checking THEN "spinner"
    ELSE IF s.error # None THEN ErrorType(s.error)
    ELSE IF s.usr = None THEN "redirect" ELSE "page"

(***************************************************************************)
(* The client is at path p with state s and awaits the calls cs: a page    *)
(* nobody is signed in for gives way to the login form, and a form that is *)
(* left behind takes the calls it made with it.                            *)
(***************************************************************************)
Display(p, s, cs, f) ==
    LET stays == p = "login" /\ path = "login"
        q == IF Screen(p, s) = "redirect" THEN "login" ELSE p
    IN  /\ state' = s
        /\ path' = q
        /\ form' = IF q # "login" THEN None ELSE IF stays THEN f ELSE EmptyForm
        /\ calls' = IF stays THEN cs ELSE {[c EXCEPT !.mounted = FALSE] : c \in cs}

\* Calls alike in all else are told apart by n.
Fresh == CHOOSE n \in 1 .. MaxCalls : \A c \in calls : c.n # n

CallOf(op, who) == [op |-> op, who |-> who, mounted |-> TRUE, answer |-> None, n |-> Fresh]

Count == sent < MaxCalls /\ sent' = sent + 1

\* One more call, next to those still under way.
Send(op) ==
    /\ Count
    /\ crossed' = (crossed \/ (calls # {} /\ "login" \in {op} \cup {c.op : c \in calls}))

Loading == [usr |-> None, checked |-> FALSE, checking |-> TRUE, error |-> None]
SignedInAs(u) == [usr |-> u, checked |-> TRUE, checking |-> FALSE, error |-> None]

Init ==
    /\ cookie \in Usrs \cup {None}
    /\ sent = 1 /\ crossed = FALSE
    /\ state = Loading
    /\ path \in Pages \cup {"login"}
    /\ form = IF path = "login" THEN EmptyForm ELSE None
    /\ calls = {[op |-> "me", who |-> cookie, mounted |-> FALSE, answer |-> None, n |-> 1]}

-----------------------------------------------------------------------------
(***************************************************************************)
(* The user                                                                *)
(***************************************************************************)

\* The tab is loaded anew at p; the provider mounts and checks the session.
Open(p) ==
    /\ Count /\ crossed' = FALSE
    /\ state' = Loading
    /\ path' = p /\ form' = IF p = "login" THEN EmptyForm ELSE None
    /\ calls' = {[CallOf("me", cookie) EXCEPT !.mounted = FALSE, !.n = 1]}
    /\ UNCHANGED cookie

\* Mutant: the session is checked again from any page.
Retry_Anywhere ==
    /\ path # "login" /\ ~state.checking
    /\ Send("me")
    /\ state' = [state EXCEPT !.checking = TRUE]
    /\ calls' = calls \cup {[CallOf("me", cookie) EXCEPT !.mounted = FALSE]}
    /\ UNCHANGED <<cookie, path, form>>

\* retrySessionCheck, from the error view.
Retry ==
    /\ path # "login" /\ state.error # None /\ ~state.checking
    /\ Send("me")
    /\ state' = [state EXCEPT !.checking = TRUE]
    /\ calls' = calls \cup {[CallOf("me", cookie) EXCEPT !.mounted = FALSE]}
    /\ UNCHANGED <<cookie, path, form>>

\* A link of the Navbar; Users is there for those who manage them.
Link(p) ==
    /\ Screen(path, state) = "page"
    /\ p = "usrs" => canManageUsrs(role(state))
    /\ Display(p, state, calls, form)
    /\ UNCHANGED <<cookie, sent, crossed>>

\* The browser's back and forward, without a load.
History(p) ==
    /\ p # path
    /\ Display(p, state, calls, form)
    /\ UNCHANGED <<cookie, sent, crossed>>

Type(creds) ==
    /\ form # None
    /\ form' = [form EXCEPT !.creds = creds]
    /\ UNCHANGED <<cookie, state, path, calls, sent, crossed>>

\* The form refuses what was typed: the flag set before the check stays up.
SubmitInvalid ==
    /\ form # None /\ ~form.loading /\ form.creds = "invalid"
    /\ form' = [form EXCEPT !.loading = TRUE, !.issue = TRUE]
    /\ UNCHANGED <<cookie, state, path, calls, sent, crossed>>

Submit ==
    /\ form # None /\ ~form.loading /\ form.creds # "invalid"
    /\ Send("login")
    /\ form' = [form EXCEPT !.loading = TRUE, !.issue = FALSE]
    /\ calls' = calls \cup {CallOf("login", IF form.creds = "wrong" THEN None ELSE form.creds)}
    /\ UNCHANGED <<cookie, state, path>>

Logout ==
    /\ Screen(path, state) = "page"
    /\ Send("logout")
    /\ calls' = calls \cup {[CallOf("logout", None) EXCEPT !.mounted = FALSE]}
    /\ UNCHANGED <<cookie, state, path, form>>

-----------------------------------------------------------------------------
(***************************************************************************)
(* The network                                                             *)
(***************************************************************************)

\* What the server makes of a call: who it is from was in its cookie.
Answers(c) == IF c.op \in {"me", "login"} /\ c.who = None THEN {401} ELSE {200}

\* Mutant: the answer to a logout leaves the cookie.
CookieAfter_Kept(c) == IF c.op = "login" THEN c.who ELSE cookie

CookieAfter(c) == CASE c.op = "login"  -> c.who
                    [] c.op = "logout" -> None
                    [] OTHER           -> cookie

\* The answer arrives; the browser applies its cookie at once.
Arrive(c) ==
    /\ c.answer = None
    /\ \E a \in Answers(c) :
          /\ calls' = (calls \ {c}) \cup {[c EXCEPT !.answer = a]}
          /\ cookie' = IF a = 200 THEN CookieAfter(c) ELSE cookie
    /\ UNCHANGED <<state, path, form, sent, crossed>>

\* No answer, or one that refuses.
Fail(c) ==
    /\ c.answer = None
    /\ \E a \in Failures : calls' = (calls \ {c}) \cup {[c EXCEPT !.answer = a]}
    /\ UNCHANGED <<cookie, state, path, form, sent, crossed>>

\* The cookie's hour is over.
Expire ==
    /\ cookie # None
    /\ cookie' = None
    /\ UNCHANGED <<state, path, form, calls, sent, crossed>>

-----------------------------------------------------------------------------
(***************************************************************************)
(* The code that awaits an answer                                          *)
(***************************************************************************)

\* Mutant: a failed check does not end.
Checked_StillChecking(c) ==
    IF c.answer \in {200, 401} THEN SignedInAs(c.who)
    ELSE [SignedInAs(None) EXCEPT !.error = ErrorClass(c.answer), !.checking = TRUE]

\* The state a check leaves: apiGetMe takes a 401 for an answer, nobody.
Checked(c) ==
    IF c.answer \in {200, 401} THEN SignedInAs(c.who)
    ELSE [SignedInAs(None) EXCEPT !.error = ErrorClass(c.answer)]

CheckDone(c) ==
    /\ c.op = "me" /\ c.answer # None
    /\ Display(path, Checked(c), calls \ {c}, form)
    /\ UNCHANGED <<cookie, sent, crossed>>

\* Mutant: a user who is there already stays.
LoggedIn_First(c) == IF state.usr # None THEN state ELSE SignedInAs(c.who)

LoggedIn(c) == SignedInAs(c.who)

LoginDone(c) ==
    /\ c.op = "login" /\ c.answer = 200
    /\ Display("nodes", LoggedIn(c), calls \ {c}, form)
    /\ UNCHANGED <<cookie, sent, crossed>>

\* An error of the API is put on the form that asked; any other is thrown on.
LoginRefused(c) ==
    /\ c.op = "login" /\ c.answer \notin {None, 200}
    /\ calls' = calls \ {c}
    /\ form' = IF c.mounted
               THEN [form EXCEPT !.loading = FALSE, !.issue = IsApiError(ErrorClass(c.answer))]
               ELSE form
    /\ UNCHANGED <<cookie, state, path, sent, crossed>>

\* Whatever became of the call.
LogoutDone(c) ==
    /\ c.op = "logout" /\ c.answer # None
    /\ Display("login", SignedInAs(None), calls \ {c}, form)
    /\ UNCHANGED <<cookie, sent, crossed>>

-----------------------------------------------------------------------------
User ==
    \/ \E p \in Pages \cup {"login"} : Open(p) \/ History(p)
    \/ \E p \in Pages : Link(p)
    \/ \E creds \in Credentials : Type(creds)
    \/ SubmitInvalid \/ Submit \/ Retry \/ Logout

Network == Expire \/ \E c \in calls : Arrive(c) \/ Fail(c)

Script == \E c \in calls : CheckDone(c) \/ LoginDone(c) \/ LoginRefused(c) \/ LogoutDone(c)

Next == User \/ Network \/ Script

\* A call is answered or fails in the end, and what awaits it is run.
Fairness ==
    /\ WF_vars(\E c \in calls : Arrive(c) \/ Fail(c))
    /\ WF_vars(Script)

Spec == Init /\ [][Next]_vars /\ Fairness

-----------------------------------------------------------------------------
\* While logins are the only session call under way, the user the pages show is
\* the one the browser's session is of, or that session has run out: whatever
\* fails, and however logouts, retried checks and navigation follow each other.
ShownUserHoldsSession ==
    calls = {} /\ ~crossed /\ state.usr # None => cookie \in {state.usr, None}

\* Nobody is shown, the browser holds no session, and no call under way had one.
SignedOut == state.usr = None /\ cookie = None /\ \A c \in calls : c.who = None

(***************************************************************************)
(* A logout the server has carried out is final: once the client has taken *)
(* its answer nobody is signed in, and nobody is until credentials are     *)
(* submitted, whatever is loaded again, retried or navigated to.  A logout *)
(* that failed promises less, see HiddenUntilAsked.                       *)
(***************************************************************************)
LogoutIsFinal ==
    [][/\ \A c \in calls \ calls' : c.op = "logout" /\ c.answer = 200 /\ ~crossed => SignedOut'
       /\ SignedOut /\ ~SignedOut' => \E c \in calls' : c.op = "login" /\ c.who # None]_vars

(***************************************************************************)
(* Whatever became of a logout, the tab shows nobody until credentials are *)
(* submitted or the session is checked again.  A check may well find the   *)
(* session of somebody whose logout failed: AuthProvider clears its state  *)
(* then, too, and the cookie stays, so that a reload shows the user again. *)
(***************************************************************************)
HiddenUntilAsked ==
    [][~crossed /\ state.usr = None /\ state.checked /\ ~state.checking /\ state'.usr # None =>
          \E c \in calls : c.op = "login" /\ c.who = state'.usr]_vars

\* The session check never leaves the application loading for ever.
SpinnerEnds == Screen(path, state) = "spinner" ~> Screen(path, state) # "spinner"
=============================================================================
