---------------------------- MODULE SessionProofs ----------------------------
(***************************************************************************)
(* The session of a tab: for any accounts, pages, failures and number of   *)
(* calls, the user on display is the one the cookie is of and a logout the *)
(* server has carried out is final, as long as no login crosses another    *)
(* call.                                                                   *)
(***************************************************************************)
EXTENDS Session, FiniteSetTheorems, TLAPS

Answered200(c) == c.op = "login" /\ c.answer = 200

\* What holds of the calls cs, the state st and the cookie ck while logins come
\* alone: a login is under way alone; a check is under way alone or with none but
\* itself, and while the state says so; and whom an answer will show holds the
\* session, or it has run out.
Held(cs, st, ck) ==
    /\ \A c, d \in cs : c.op = "login" => d = c
    /\ \A c, d \in cs : c.op = "me" => d = c
    /\ \A c \in cs : c.op = "me" => st.checking
    /\ \A c \in cs : c.op = "logout" => st.error = None
    /\ \A c \in cs : Answered200(c) => c.who # None /\ ck \in {c.who, None}
    /\ \A c \in cs : c.op = "me" /\ c.who # None => ck \in {c.who, None}
    /\ st.usr # None => ck \in {st.usr, None} \/ \E c \in cs : Answered200(c)

Counted == IsFiniteSet(calls) /\ Cardinality(calls) <= sent

\* A form that waits for its login is still there.
Mounted == \A c \in calls : c.mounted => path = "login"

IInv == TypeOK /\ Counted /\ Mounted /\ (~crossed => Held(calls, state, cookie))

-----------------------------------------------------------------------------
LEMMA ImageIsFinite ==
    ASSUME NEW S, IsFiniteSet(S), NEW f, f = [x \in S |-> f[x]]
    PROVE  /\ IsFiniteSet({f[x] : x \in S})
           /\ Cardinality({f[x] : x \in S}) <= Cardinality(S)
<1> DEFINE T == {f[x] : x \in S}
<1>1. f \in Surjection(S, T)
  BY DEF Surjection
<1> QED
  BY <1>1, FS_Surjection

\* There is a number for every call the bound allows.
LEMMA FreshIsNumber ==
    ASSUME TypeOK, Counted, sent < MaxCalls
    PROVE  Fresh \in 1 .. MaxCalls
<1> DEFINE used == {c.n : c \in calls}
<1>1. IsFiniteSet(used) /\ Cardinality(used) <= Cardinality(calls)
  <2> DEFINE f == [c \in calls |-> c.n]
  <2>1. f = [c \in calls |-> f[c]] /\ used = {f[c] : c \in calls}
    OBVIOUS
  <2> HIDE DEF f
  <2> QED
    BY <2>1, ImageIsFinite DEF Counted
<1>2. IsFiniteSet(1 .. MaxCalls) /\ Cardinality(1 .. MaxCalls) = MaxCalls
  <2>1. 1 \in Int /\ MaxCalls \in Int /\ ~(1 > MaxCalls) /\ MaxCalls - 1 + 1 = MaxCalls
    BY BoundAssumption
  <2> QED
    BY <2>1, FS_Interval
<1>3. Cardinality(used) < MaxCalls
  <2>1. Cardinality(used) \in Nat /\ Cardinality(calls) \in Nat /\ sent \in Nat /\ MaxCalls \in Nat
    BY <1>1, FS_CardinalityType, BoundAssumption DEF Counted, TypeOK
  <2> HIDE DEF used
  <2> QED
    BY <1>1, <2>1 DEF Counted
<1>4. ~(1 .. MaxCalls \subseteq used)
  <2>1. Cardinality(used) \in Nat
    BY <1>1, FS_CardinalityType
  <2> HIDE DEF used
  <2> QED
    BY <1>1, <1>2, <1>3, <2>1, BoundAssumption, FS_Subset
<1>5. \E n \in 1 .. MaxCalls : \A c \in calls : c.n # n
  BY <1>4
<1> QED
  BY <1>5 DEF Fresh

\* A call that is sent is one more, and the bound is kept.
LEMMA SendCounts ==
    ASSUME IInv, Count, NEW c, calls' = calls \cup {c}
    PROVE  Counted' /\ sent' \in 0 .. MaxCalls
<1>1. IsFiniteSet(calls') /\ Cardinality(calls') <= Cardinality(calls) + 1
  <2>1. Cardinality(calls) \in Nat
    BY FS_CardinalityType DEF IInv, Counted
  <2>2. IsFiniteSet(calls)
    BY DEF IInv, Counted
  <2>3. PICK more : more = calls \cup {c}
    OBVIOUS
  <2>4. IsFiniteSet(more) /\ Cardinality(more) \in {Cardinality(calls), Cardinality(calls) + 1}
    BY <2>2, <2>3, FS_AddElement
  <2> QED
    BY <2>1, <2>3, <2>4
<1>2. Cardinality(calls) \in Nat /\ Cardinality(calls') \in Nat
  BY <1>1, FS_CardinalityType DEF IInv, Counted
<1>3. sent \in Nat /\ sent \in 0 .. MaxCalls /\ MaxCalls \in Nat
  BY BoundAssumption DEF IInv, TypeOK
<1>4. sent' = sent + 1 /\ sent < MaxCalls
  BY DEF Count
<1>5. Cardinality(calls) <= sent
  BY DEF IInv, Counted
<1>6. Cardinality(calls') <= sent'
  BY <1>1, <1>2, <1>3, <1>4, <1>5
<1> QED
  BY <1>1, <1>3, <1>4, <1>6 DEF Counted

LEMMA TakeCounts ==
    ASSUME IInv, NEW c \in calls, UNCHANGED sent, calls' = calls \ {c}
    PROVE  Counted'
<1>1. IsFiniteSet(calls') /\ Cardinality(calls') <= Cardinality(calls)
  <2>1. Cardinality(calls) \in Nat
    BY FS_CardinalityType DEF IInv, Counted
  <2>2. IsFiniteSet(calls)
    BY DEF IInv, Counted
  <2>3. PICK less : less = calls \ {c}
    OBVIOUS
  <2>4. IsFiniteSet(less) /\ Cardinality(less) \in {Cardinality(calls), Cardinality(calls) - 1}
    BY <2>2, <2>3, FS_RemoveElement
  <2> QED
    BY <2>1, <2>3, <2>4
<1>2. Cardinality(calls) \in Nat /\ Cardinality(calls') \in Nat
  BY <1>1, FS_CardinalityType DEF IInv, Counted
<1> QED
  BY <1>1, <1>2 DEF IInv, TypeOK, Counted

LEMMA ReplaceCounts ==
    ASSUME IInv, NEW c \in calls, NEW d, UNCHANGED sent, calls' = (calls \ {c}) \cup {d}
    PROVE  Counted'
<1>1. IsFiniteSet(calls \ {c}) /\ Cardinality(calls \ {c}) = Cardinality(calls) - 1
  BY FS_RemoveElement DEF IInv, Counted
<1>2. Cardinality(calls) \in Nat /\ Cardinality(calls \ {c}) \in Nat
  BY <1>1, FS_CardinalityType DEF IInv, Counted
<1>3. IsFiniteSet(calls') /\ Cardinality(calls') <= Cardinality(calls)
  <2> DEFINE rest == calls \ {c}
  <2>1. calls' = rest \cup {d}
    OBVIOUS
  <2> HIDE DEF rest
  <2>2. IsFiniteSet(rest) /\ Cardinality(rest) \in Nat /\ Cardinality(rest) = Cardinality(calls) - 1
    BY <1>1, <1>2 DEF rest
  <2> QED
    BY <1>2, <2>1, <2>2, FS_AddElement
<1>4. Cardinality(calls') \in Nat
  BY <1>3, FS_CardinalityType
<1> QED
  BY <1>2, <1>3, <1>4 DEF IInv, TypeOK, Counted

-----------------------------------------------------------------------------
(***************************************************************************)
(* What Display does to the calls, and to all that the invariant says.     *)
(***************************************************************************)
LEMMA MountedField ==
    ASSUME NEW Ops, NEW Whos, NEW Answering, NEW Ns,
           NEW c \in [op : Ops, who : Whos, mounted : BOOLEAN, answer : Answering, n : Ns],
           NEW d, d = [c EXCEPT !.mounted = FALSE]
    PROVE  d \in [op : Ops, who : Whos, mounted : BOOLEAN, answer : Answering, n : Ns]
OBVIOUS

LEMMA UnmountedIsCall ==
    ASSUME NEW c \in Call, NEW d, d = [c EXCEPT !.mounted = FALSE]
    PROVE  d \in Call
<1>1. PICK Ops, Whos, Answering, Ns :
          Call = [op : Ops, who : Whos, mounted : BOOLEAN, answer : Answering, n : Ns]
  BY Zenon DEF Call
<1>2. c \in [op : Ops, who : Whos, mounted : BOOLEAN, answer : Answering, n : Ns]
  BY <1>1
<1>3. d \in [op : Ops, who : Whos, mounted : BOOLEAN, answer : Answering, n : Ns]
  BY <1>2, MountedField
<1> QED
  BY <1>1, <1>3, Zenon

Unmounted(cs) == {[c EXCEPT !.mounted = FALSE] : c \in cs}

LEMMA UnmountedHeld ==
    ASSUME NEW cs \in SUBSET Call, NEW st, NEW ck, Held(cs, st, ck)
    PROVE  Held(Unmounted(cs), st, ck)
<1>1. \A d \in Unmounted(cs) : \E c \in cs :
         d = [c EXCEPT !.mounted = FALSE] /\ d.op = c.op /\ d.who = c.who /\ d.answer = c.answer
  BY DEF Unmounted, Call
<1>2. \A c \in cs : \E d \in Unmounted(cs) : d.op = c.op /\ d.who = c.who /\ d.answer = c.answer
  <2> TAKE c \in cs
  <2> DEFINE d == [c EXCEPT !.mounted = FALSE]
  <2>1. d \in Unmounted(cs)
    BY DEF Unmounted
  <2>2. d.op = c.op /\ d.who = c.who /\ d.answer = c.answer
    BY DEF Call
  <2> QED
    BY <2>1, <2>2
<1>3. ASSUME NEW d \in Unmounted(cs), NEW e \in Unmounted(cs), d.op \in {"login", "me"}
      PROVE  e = d
  <2>1. PICK c \in cs, b \in cs :
            /\ d = [c EXCEPT !.mounted = FALSE] /\ d.op = c.op
            /\ e = [b EXCEPT !.mounted = FALSE]
    BY <1>1
  <2>2. b = c
    BY <1>3, <2>1 DEF Held
  <2> QED
    BY <2>1, <2>2
<1>4. st.usr # None => ck \in {st.usr, None} \/ \E c \in Unmounted(cs) : Answered200(c)
  BY <1>2 DEF Held, Answered200
<1> QED
  BY <1>1, <1>3, <1>4 DEF Held, Answered200

LEMMA UnmountedCounts ==
    ASSUME NEW cs, IsFiniteSet(cs)
    PROVE  IsFiniteSet(Unmounted(cs)) /\ Cardinality(Unmounted(cs)) <= Cardinality(cs)
<1> DEFINE f == [c \in cs |-> [c EXCEPT !.mounted = FALSE]]
<1>1. f = [c \in cs |-> f[c]] /\ Unmounted(cs) = {f[c] : c \in cs}
  BY DEF Unmounted
<1> HIDE DEF f
<1> QED
  BY <1>1, ImageIsFinite

LEMMA DisplayKeeps ==
    ASSUME IInv, NEW p \in Pages \cup {"login"}, NEW s \in State, NEW cs \in SUBSET calls,
           Display(p, s, cs, form), UNCHANGED <<cookie, sent, crossed>>,
           ~crossed => Held(cs, s, cookie)
    PROVE  IInv'
<1>1. path' \in Pages \cup {"login"} /\ (form' = None <=> path' # "login")
      /\ form' \in Form \cup {None}
  <2>1. EmptyForm \in Form
    BY DEF EmptyForm, Form, Credentials
  <2> QED
    BY <2>1, NoneAssumption DEF Display, IInv, TypeOK
<1>2. calls' = cs \/ calls' = Unmounted(cs)
  BY DEF Display, Unmounted
<1>3. cs \in SUBSET Call /\ Unmounted(cs) \in SUBSET Call
  <2>1. \A c \in Call : [c EXCEPT !.mounted = FALSE] \in Call
    BY UnmountedIsCall, Zenon
  <2> QED
    BY <2>1 DEF IInv, TypeOK, Unmounted
<1>4. Counted'
  <2>1. IsFiniteSet(cs) /\ Cardinality(cs) <= Cardinality(calls)
    BY FS_Subset DEF IInv, Counted
  <2>2. IsFiniteSet(calls') /\ Cardinality(calls') <= Cardinality(calls)
    <3>1. IsFiniteSet(Unmounted(cs)) /\ Cardinality(Unmounted(cs)) <= Cardinality(cs)
      BY <2>1, UnmountedCounts
    <3>2. Cardinality(cs) \in Nat /\ Cardinality(calls) \in Nat /\ Cardinality(Unmounted(cs)) \in Nat
      BY <2>1, <3>1, FS_CardinalityType DEF IInv, Counted
    <3> QED
      BY <1>2, <2>1, <3>1, <3>2
  <2>3. Cardinality(calls) \in Nat /\ Cardinality(calls') \in Nat
    BY <2>2, FS_CardinalityType DEF IInv, Counted
  <2> QED
    BY <2>2, <2>3 DEF IInv, Counted, TypeOK
<1>5. ~crossed' => Held(calls', state', cookie')
  BY <1>2, <1>3, UnmountedHeld DEF Display
<1>6. TypeOK'
  BY <1>1, <1>2, <1>3 DEF IInv, TypeOK, Display
<1>7. Mounted'
  <2>1. CASE p = "login" /\ path = "login"
    BY <2>1 DEF Mounted, IInv, Display, Screen
  <2>2. CASE ~(p = "login" /\ path = "login")
    <3>1. calls' = Unmounted(cs)
      BY <2>2 DEF Display, Unmounted
    <3>2. \A c \in Unmounted(cs) : ~c.mounted
      BY <1>3 DEF Unmounted, Call
    <3> QED
      BY <3>1, <3>2 DEF Mounted
  <2> QED
    BY <2>1, <2>2
<1> QED
  BY <1>4, <1>5, <1>6, <1>7 DEF IInv

-----------------------------------------------------------------------------
LEMMA InitIInv == Init => IInv
<1> SUFFICES ASSUME Init PROVE IInv
  OBVIOUS
<1> DEFINE c == [op |-> "me", who |-> cookie, mounted |-> FALSE, answer |-> None, n |-> 1]
<1>1. c \in Call /\ calls = {c}
  BY BoundAssumption DEF Init, Call
<1>2. state \in State /\ EmptyForm \in Form
  BY DEF Init, Loading, State, EmptyForm, Form, Credentials
<1>3. c.op = "me" /\ c.who = cookie /\ ~c.mounted
  OBVIOUS
<1> HIDE DEF c
<1>4. TypeOK
  <2>1. sent \in 0 .. MaxCalls
    BY BoundAssumption DEF Init
  <2>2. form \in Form \cup {None} /\ (form = None <=> path # "login")
    BY <1>2, NoneAssumption DEF Init
  <2> QED
    BY <1>1, <1>2, <2>1, <2>2 DEF Init, TypeOK
<1>5. Counted
  <2>1. IsFiniteSet({c}) /\ Cardinality({c}) = 1
    BY FS_Singleton
  <2> QED
    BY <1>1, <2>1 DEF Init, Counted
<1>6. Held(calls, state, cookie) /\ Mounted
  BY <1>1, <1>3 DEF Init, Held, Answered200, Loading, Mounted
<1> QED
  BY <1>4, <1>5, <1>6 DEF IInv

-----------------------------------------------------------------------------
(***************************************************************************)
(* The user's steps                                                        *)
(***************************************************************************)
LEMMA CallIsTyped ==
    ASSUME IInv, Count, NEW op \in {"me", "login", "logout"}, NEW who \in Usrs \cup {None}
    PROVE  CallOf(op, who) \in Call
<1>1. Fresh \in 1 .. MaxCalls
  BY FreshIsNumber DEF IInv, Count
<1> QED
  BY <1>1 DEF CallOf, Call

LEMMA OpenKeeps == ASSUME IInv, NEW p \in Pages \cup {"login"}, Open(p) PROVE IInv'
<1> DEFINE c == [CallOf("me", cookie) EXCEPT !.mounted = FALSE, !.n = 1]
<1>1. c.op = "me" /\ c.who = cookie /\ ~c.mounted
  BY DEF CallOf
<1>2. c \in Call /\ calls' = {c}
  <2>1. CallOf("me", cookie) \in Call
    BY CallIsTyped DEF Open, IInv, TypeOK
  <2>2. 1 \in 1 .. MaxCalls
    BY BoundAssumption
  <2>3. \A b \in Call, n \in 1 .. MaxCalls : [b EXCEPT !.mounted = FALSE, !.n = n] \in Call
    BY DEF Call
  <2> QED
    BY <2>1, <2>2, <2>3 DEF Open
<1> HIDE DEF c
<1>3. state' \in State /\ EmptyForm \in Form
  BY DEF Open, Loading, State, EmptyForm, Form, Credentials
<1>4. sent' \in 1 .. MaxCalls
  BY BoundAssumption DEF Open, Count, IInv, TypeOK
<1>5. TypeOK'
  <2>1. form' \in Form \cup {None} /\ (form' = None <=> path' # "login")
    BY <1>3, NoneAssumption DEF Open
  <2>2. sent' \in 0 .. MaxCalls
    BY <1>4, BoundAssumption
  <2>4. crossed' \in BOOLEAN /\ path' \in Pages \cup {"login"}
    BY DEF Open
  <2>3. cookie' \in Usrs \cup {None}
    BY DEF Open, IInv, TypeOK
  <2> QED
    BY <1>2, <1>3, <2>1, <2>2, <2>3, <2>4 DEF TypeOK
<1>6. Counted'
  <2>1. IsFiniteSet({c}) /\ Cardinality({c}) = 1
    BY FS_Singleton
  <2> QED
    BY <1>2, <1>4, <2>1 DEF Counted
<1>7. Held(calls', state', cookie') /\ Mounted'
  BY <1>1, <1>2 DEF Open, Held, Answered200, Loading, Mounted
<1> QED
  BY <1>5, <1>6, <1>7 DEF IInv

LEMMA RetryKeeps == IInv /\ Retry => IInv'
<1> SUFFICES ASSUME IInv, Retry PROVE IInv'
  OBVIOUS
<1> DEFINE c == [CallOf("me", cookie) EXCEPT !.mounted = FALSE]
<1>0. ~c.mounted
  BY DEF CallOf
<1>1. c.op = "me" /\ c.who = cookie /\ c.answer = None
  BY DEF CallOf
<1>2. c \in Call /\ Count /\ calls' = calls \cup {c}
  <2>1. CallOf("me", cookie) \in Call
    BY CallIsTyped DEF Retry, Send, IInv, TypeOK
  <2>2. c \in Call
    BY <2>1, UnmountedIsCall, Zenon
  <2> QED
    BY <2>2, Zenon DEF Retry, Send
<1>3. Counted' /\ sent' \in 0 .. MaxCalls
  BY <1>2, SendCounts
<1>4. state' \in State /\ state'.checking /\ state'.usr = state.usr
  BY DEF Retry, IInv, TypeOK, State
<1>5. TypeOK'
  BY <1>2, <1>3, <1>4 DEF Retry, Send, IInv, TypeOK
<1>6. ASSUME ~crossed' PROVE Held(calls', state', cookie')
  <2>1. ~crossed /\ \A d \in calls : d.op # "login"
    BY <1>6 DEF Retry, Send
  <2>2. \A d \in calls : d.op # "me" /\ d.op # "logout"
    BY <2>1 DEF IInv, Held, Retry
  <2>3. calls = {}
    BY <2>1, <2>2 DEF IInv, TypeOK, Call
  <2> HIDE DEF c
  <2>4. calls' = {c} /\ cookie' = cookie
    BY <1>2, <2>3 DEF Retry
  <2> QED
    BY <1>1, <1>4, <2>1, <2>3, <2>4 DEF IInv, Held, Answered200
<1>7. Mounted'
  <2> HIDE DEF c
  <2> QED
    BY <1>0, <1>2 DEF Mounted, IInv, Retry
<1> QED
  BY <1>3, <1>5, <1>6, <1>7 DEF IInv

LEMMA SubmitKeeps == IInv /\ Submit => IInv'
<1> SUFFICES ASSUME IInv, Submit PROVE IInv'
  OBVIOUS
<1> DEFINE who == IF form.creds = "wrong" THEN None ELSE form.creds
           c == CallOf("login", who)
<1>0. form \in Form /\ who \in Usrs \cup {None}
  BY DEF Submit, IInv, TypeOK, Form, Credentials
<1>1. c.op = "login" /\ c.answer = None
  BY DEF CallOf
<1>2. c \in Call /\ Count /\ calls' = calls \cup {c}
  BY <1>0, CallIsTyped DEF Submit, Send
<1>3. Counted' /\ sent' \in 0 .. MaxCalls
  BY <1>2, SendCounts
<1>4. form' \in Form /\ form' # None
  BY <1>0, NoneAssumption DEF Submit, Form
<1>5. TypeOK'
  BY <1>2, <1>3, <1>4 DEF Submit, Send, IInv, TypeOK
<1>6. ASSUME ~crossed' PROVE Held(calls', state', cookie')
  <2>1. ~crossed /\ calls = {}
    BY <1>6 DEF Submit, Send
  <2> HIDE DEF c
  <2>2. calls' = {c} /\ cookie' = cookie /\ state' = state
    BY <1>2, <2>1 DEF Submit
  <2>3. None # 200
    BY FailuresAssumption
  <2> QED
    BY <1>1, <2>1, <2>2, <2>3 DEF IInv, Held, Answered200
<1>7. Mounted'
  BY DEF Mounted, Submit, IInv, TypeOK
<1> QED
  BY <1>3, <1>5, <1>6, <1>7 DEF IInv

LEMMA LogoutKeeps == IInv /\ Logout => IInv'
<1> SUFFICES ASSUME IInv, Logout PROVE IInv'
  OBVIOUS
<1> DEFINE c == [CallOf("logout", None) EXCEPT !.mounted = FALSE]
<1>0. ~c.mounted
  BY DEF CallOf
<1>1. c.op = "logout" /\ c.answer = None
  BY DEF CallOf
<1>2. c \in Call /\ Count /\ calls' = calls \cup {c}
  <2>1. CallOf("logout", None) \in Call
    BY CallIsTyped DEF Logout, Send
  <2>2. c \in Call
    BY <2>1, UnmountedIsCall, Zenon
  <2> QED
    BY <2>2, Zenon DEF Logout, Send
<1>3. Counted' /\ sent' \in 0 .. MaxCalls
  BY <1>2, SendCounts
<1>4. TypeOK'
  BY <1>2, <1>3 DEF Logout, Send, IInv, TypeOK
<1>5. ~state.checking /\ state.error = None
  BY DEF Logout, Screen, ErrorType, IInv, TypeOK, State
<1>6. ASSUME ~crossed' PROVE Held(calls', state', cookie')
  <2>1. ~crossed /\ \A d \in calls : d.op # "login"
    BY <1>6 DEF Logout, Send
  <2>2. \A d \in calls : d.op # "me"
    BY <1>5, <2>1 DEF IInv, Held
  <2> HIDE DEF c
  <2>3. UNCHANGED <<state, cookie>>
    BY DEF Logout
  <2> QED
    BY <1>1, <1>2, <1>5, <2>1, <2>2, <2>3 DEF IInv, Held, Answered200
<1>7. Mounted'
  <2> HIDE DEF c
  <2> QED
    BY <1>0, <1>2 DEF Mounted, IInv, Logout
<1> QED
  BY <1>3, <1>4, <1>6, <1>7 DEF IInv

LEMMA GoKeeps ==
    ASSUME IInv, NEW p \in Pages \cup {"login"}, Link(p) \/ History(p)
    PROVE  IInv'
<1>1. Display(p, state, calls, form) /\ UNCHANGED <<cookie, sent, crossed>>
  BY DEF Link, History
<1> QED
  BY <1>1, DisplayKeeps DEF IInv, TypeOK

LEMMA TypingKeeps ==
    ASSUME IInv, SubmitInvalid \/ \E creds \in Credentials : Type(creds)
    PROVE  IInv'
<1>1. form \in Form /\ form # None /\ UNCHANGED <<cookie, state, path, calls, sent, crossed>>
  BY DEF SubmitInvalid, Type, IInv, TypeOK
<1>2. form' \in Form
  BY <1>1 DEF SubmitInvalid, Type, Form
<1> QED
  BY <1>1, <1>2, NoneAssumption DEF IInv, TypeOK, Counted, Mounted

-----------------------------------------------------------------------------
(***************************************************************************)
(* The network's steps                                                     *)
(***************************************************************************)
LEMMA AnswerKeeps ==
    ASSUME IInv, NEW c \in calls, Arrive(c) \/ Fail(c)
    PROVE  IInv'
<1>1. PICK a \in {200, 401} \cup Failures :
          /\ calls' = (calls \ {c}) \cup {[c EXCEPT !.answer = a]}
          /\ a = 200 => Arrive(c) /\ a \in Answers(c)
          /\ cookie' = IF a = 200 THEN CookieAfter(c) ELSE cookie
  BY FailuresAssumption DEF Arrive, Fail, Answers
<1>2. /\ c \in Call /\ c.answer = None
      /\ UNCHANGED <<state, path, form, sent, crossed>>
  BY DEF Arrive, Fail, IInv, TypeOK
<1> DEFINE d == [c EXCEPT !.answer = a]
<1>3. d \in Call /\ d.op = c.op /\ d.who = c.who /\ d.answer = a
  BY <1>2 DEF Call
<1> HIDE DEF d
<1>4. cookie' \in Usrs \cup {None}
  BY <1>1, <1>2 DEF CookieAfter, Call, IInv, TypeOK
<1>5. TypeOK'
  BY <1>1, <1>2, <1>3, <1>4 DEF IInv, TypeOK, d
<1>6. Counted'
  BY <1>1, <1>2, ReplaceCounts
<1>7. ASSUME ~crossed PROVE Held(calls', state', cookie')
  <2>1. calls' = (calls \ {c}) \cup {d} /\ Held(calls, state, cookie) /\ state' = state
    BY <1>1, <1>2, <1>7 DEF d, IInv
  <2>2. ~Answered200(c)
    BY <1>2, FailuresAssumption DEF Answered200
  <2>3. CASE c.op = "login"
    <3>1. calls' = {d}
      BY <2>1, <2>3 DEF Held
    <3>2. CASE a = 200
      <4>1. c.who # None /\ cookie' = c.who
        BY <1>1, <2>3, <3>2 DEF Answers, CookieAfter
      <4> QED
        BY <1>3, <2>1, <2>3, <3>1, <3>2, <4>1 DEF Held, Answered200
    <3>3. CASE a # 200
      <4>1. cookie' = cookie /\ \A b \in calls : ~Answered200(b)
        BY <1>1, <2>1, <2>2, <2>3, <3>3 DEF Held
      <4> QED
        BY <1>3, <2>1, <2>3, <3>1, <3>3, <4>1 DEF Held, Answered200
    <3> QED
      BY <3>2, <3>3
  <2>4. CASE c.op = "logout"
    <3>1. \A b \in calls' : b = d \/ b \in calls
      BY <2>1
    <3>2. cookie' \in {cookie, None}
      BY <1>1, <2>4 DEF CookieAfter
    <3>3. \A b \in calls : b.op # "login" /\ ~Answered200(b)
      BY <2>1, <2>4 DEF Held, Answered200
    <3> QED
      BY <1>3, <2>1, <2>4, <3>1, <3>2, <3>3 DEF Held, Answered200
  <2>5. CASE c.op = "me"
    <3>1. calls = {c} /\ calls' = {d}
      BY <2>1, <2>5 DEF Held
    <3>2. cookie' = cookie
      BY <1>1, <2>5 DEF CookieAfter
    <3> QED
      BY <1>3, <2>1, <2>2, <2>5, <3>1, <3>2 DEF Held, Answered200
  <2> QED
    BY <1>2, <2>3, <2>4, <2>5 DEF Call
<1>8. Mounted'
  <2>1. d.mounted = c.mounted
    BY <1>2 DEF d, Call
  <2> QED
    BY <1>1, <1>2, <2>1 DEF Mounted, IInv, d
<1> QED
  BY <1>2, <1>5, <1>6, <1>7, <1>8 DEF IInv

LEMMA ExpireKeeps == IInv /\ Expire => IInv'
BY DEF Expire, IInv, TypeOK, Counted, Mounted, Held, Answered200

-----------------------------------------------------------------------------
(***************************************************************************)
(* The steps of the code that awaits an answer                             *)
(***************************************************************************)
LEMMA CheckDoneKeeps == ASSUME IInv, NEW c \in calls, CheckDone(c) PROVE IInv'
<1>1. c \in Call /\ c.op = "me" /\ c.answer # None
  BY DEF IInv, TypeOK, CheckDone
<1>2. Checked(c) \in State /\ Checked(c).usr \in {c.who, None}
  <2>1. CASE c.answer \in {200, 401}
    BY <1>1, <2>1 DEF Checked, SignedInAs, State, Call
  <2>2. CASE c.answer \notin {200, 401}
    <3>1. c.answer \in Failures
      BY <1>1, <2>2 DEF Call
    <3>2. ErrorClass(c.answer) \in {None} \cup {ErrorClass(s) : s \in Failures}
      BY <3>1
    <3> QED
      BY <2>2, <3>2 DEF Checked, SignedInAs, State
  <2> QED
    BY <2>1, <2>2
<1>3. ASSUME ~crossed PROVE Held(calls \ {c}, Checked(c), cookie)
  <2>1. calls = {c}
    BY <1>1, <1>3 DEF IInv, Held
  <2>2. calls \ {c} = {}
    BY <2>1
  <2>3. Checked(c).usr # None => cookie \in {Checked(c).usr, None}
    BY <1>1, <1>2, <1>3 DEF IInv, Held
  <2> QED
    BY <2>2, <2>3 DEF Held
<1>4. path \in Pages \cup {"login"} /\ calls \ {c} \in SUBSET calls
  BY DEF IInv, TypeOK
<1> QED
  BY <1>2, <1>3, <1>4, DisplayKeeps DEF CheckDone

LEMMA LoginDoneKeeps == ASSUME IInv, NEW c \in calls, LoginDone(c) PROVE IInv'
<1>1. c \in Call /\ Answered200(c)
  BY DEF IInv, TypeOK, LoginDone, Answered200
<1>2. LoggedIn(c) \in State /\ LoggedIn(c).usr = c.who
  BY <1>1 DEF LoggedIn, SignedInAs, State, Call
<1>3. ASSUME ~crossed PROVE Held(calls \ {c}, LoggedIn(c), cookie)
  <2>1. calls \ {c} = {} /\ cookie \in {c.who, None}
    BY <1>1, <1>3 DEF IInv, Held, Answered200
  <2> QED
    BY <1>2, <2>1 DEF Held
<1>4. "nodes" \in Pages \cup {"login"} /\ calls \ {c} \in SUBSET calls
  BY PagesAssumption
<1> QED
  BY <1>2, <1>3, <1>4, DisplayKeeps DEF LoginDone

LEMMA LogoutDoneKeeps == ASSUME IInv, NEW c \in calls, LogoutDone(c) PROVE IInv'
<1>1. SignedInAs(None) \in State /\ SignedInAs(None).usr = None /\ SignedInAs(None).error = None
  BY DEF SignedInAs, State
<1>2. ASSUME ~crossed PROVE Held(calls \ {c}, SignedInAs(None), cookie)
  <2>1. c.op = "logout" /\ Held(calls, state, cookie)
    BY <1>2 DEF LogoutDone, IInv
  <2>2. \A d \in calls : d.op # "me" /\ d.op # "login"
    BY <2>1 DEF Held
  <2> QED
    BY <1>1, <2>2 DEF Held, Answered200
<1>3. calls \ {c} \in SUBSET calls
  OBVIOUS
<1> QED
  BY <1>1, <1>2, <1>3, DisplayKeeps DEF LogoutDone

LEMMA LoginRefusedKeeps == ASSUME IInv, NEW c \in calls, LoginRefused(c) PROVE IInv'
<1>1. calls' = calls \ {c} /\ UNCHANGED <<cookie, state, path, sent, crossed>>
  BY DEF LoginRefused
<1>2. Counted'
  BY <1>1, TakeCounts
<1>3. ASSUME ~crossed PROVE Held(calls', state', cookie')
  <2>1. ~Answered200(c)
    BY DEF LoginRefused, Answered200
  <2> QED
    BY <1>1, <1>3, <2>1 DEF IInv, Held
<1>4. form' \in Form \cup {None} /\ (form' = None <=> form = None)
  <2>1. CASE c.mounted
    <3>1. form \in Form
      BY <2>1 DEF IInv, Mounted, TypeOK
    <3>2. form' = [form EXCEPT !.loading = FALSE, !.issue = IsApiError(ErrorClass(c.answer))]
      BY <2>1 DEF LoginRefused
    <3>3. form' \in Form
      BY <3>1, <3>2 DEF Form, IsApiError
    <3> QED
      BY <3>1, <3>3, NoneAssumption
  <2>2. CASE ~c.mounted
    BY <2>2 DEF LoginRefused, IInv, TypeOK
  <2> QED
    BY <2>1, <2>2
<1>5. TypeOK'
  BY <1>1, <1>4 DEF IInv, TypeOK
<1> QED
  BY <1>1, <1>2, <1>3, <1>5 DEF IInv, Mounted

-----------------------------------------------------------------------------
LEMMA StepKeepsIInv == IInv /\ [Next]_vars => IInv'
<1> SUFFICES ASSUME IInv, [Next]_vars PROVE IInv'
  OBVIOUS
<1>1. CASE User
  BY <1>1, OpenKeeps, GoKeeps, TypingKeeps, SubmitKeeps, RetryKeeps, LogoutKeeps DEF User
<1>2. CASE Network
  BY <1>2, AnswerKeeps, ExpireKeeps DEF Network
<1>3. CASE Script
  BY <1>3, CheckDoneKeeps, LoginDoneKeeps, LoginRefusedKeeps, LogoutDoneKeeps DEF Script
<1>4. CASE UNCHANGED vars
  BY <1>4 DEF vars, IInv, TypeOK, Counted, Mounted
<1> QED
  BY <1>1, <1>2, <1>3, <1>4 DEF Next

\* The types of the session, the numbers of the calls and what the answers under
\* way will show (AuthProvider.jsx, usePwdLogin.js).
THEOREM IInvHolds == Spec => []IInv
<1>1. Init => IInv
  BY InitIInv
<1>2. IInv /\ [Next]_vars => IInv'
  BY StepKeepsIInv
<1> QED
  BY <1>1, <1>2, PTL DEF Spec

\* The user on display holds the browser's session, or it has run out.
THEOREM ShownUserHoldsSessionHolds == Spec => []ShownUserHoldsSession
<1>1. IInv => ShownUserHoldsSession
  BY DEF IInv, Held, ShownUserHoldsSession
<1> QED
  BY <1>1, IInvHolds, PTL

\* Whatever became of a logout (AuthProvider.jsx), the tab shows nobody until
\* credentials are submitted or the session is checked again.
THEOREM HiddenUntilAskedHolds == Spec => HiddenUntilAsked
<1>1. IInv /\ [Next]_vars =>
        [~crossed /\ state.usr = None /\ state.checked /\ ~state.checking /\ state'.usr # None =>
            \E c \in calls : c.op = "login" /\ c.who = state'.usr]_vars
  <2> SUFFICES ASSUME IInv, Next, ~crossed, state.usr = None, ~state.checking, state'.usr # None
               PROVE  \E c \in calls : c.op = "login" /\ c.who = state'.usr
    BY DEF vars
  <2>1. ~User
    BY DEF User, Open, History, Link, Type, SubmitInvalid, Submit, Retry, Logout, Loading, Display,
           IInv, TypeOK, State
  <2>2. ~Network
    BY DEF Network, Expire, Arrive, Fail
  <2>3. PICK c \in calls : CheckDone(c) \/ LoginDone(c) \/ LoginRefused(c) \/ LogoutDone(c)
    BY <2>1, <2>2 DEF Next, Script
  <2>4. ~CheckDone(c)
    BY DEF CheckDone, IInv, Held
  <2>5. ~LoginRefused(c) /\ ~LogoutDone(c)
    BY DEF LoginRefused, LogoutDone, Display, SignedInAs
  <2> QED
    BY <2>3, <2>4, <2>5 DEF LoginDone, Display, LoggedIn, SignedInAs
<1> QED
  BY <1>1, IInvHolds, PTL DEF Spec, HiddenUntilAsked

-----------------------------------------------------------------------------
(***************************************************************************)
(* A logout that the server has carried out.  Its answer takes the cookie  *)
(* with it, and only the answer to a login brings one back.                *)
(***************************************************************************)
Leaving ==
    \A c \in calls : c.op = "logout" =>
        c.who = None /\ ~c.mounted /\ (c.answer = 200 /\ ~crossed => cookie = None)

LEMMA LeavingStays ==
    ASSUME Leaving, cookie' \in {cookie, None}, crossed => crossed',
           \A d \in calls' : d.op = "logout" =>
               \/ d.who = None /\ ~d.mounted /\ d.answer # 200
               \/ \E c \in calls : /\ c.op = "logout" /\ d.who = c.who /\ d.answer = c.answer
                                  /\ (~c.mounted => ~d.mounted)
    PROVE  Leaving'
<1> SUFFICES ASSUME NEW d \in calls', d.op = "logout"
             PROVE  d.who = None /\ ~d.mounted /\ (d.answer = 200 /\ ~crossed' => cookie' = None)
  BY DEF Leaving
<1>1. ASSUME NEW c \in calls, c.op = "logout", d.who = c.who, d.answer = c.answer,
             ~c.mounted => ~d.mounted
      PROVE  d.who = None /\ ~d.mounted /\ (d.answer = 200 /\ ~crossed' => cookie' = None)
  BY <1>1 DEF Leaving
<1> QED
  BY <1>1

LEMMA DisplayedCalls ==
    ASSUME IInv, NEW p, NEW s, NEW cs \in SUBSET calls, Display(p, s, cs, form)
    PROVE  \A d \in calls' : \E c \in cs : /\ d.op = c.op /\ d.who = c.who /\ d.answer = c.answer
                                          /\ (~c.mounted => ~d.mounted)
<1>1. cs \subseteq Call
  BY DEF IInv, TypeOK
<1>2. CASE calls' = cs
  BY <1>2
<1>3. \A d \in Unmounted(cs) : \E c \in cs :
         /\ d = [c EXCEPT !.mounted = FALSE]
         /\ d.op = c.op /\ d.who = c.who /\ d.answer = c.answer /\ d.mounted = FALSE
  BY <1>1 DEF Unmounted, Call
<1>4. CASE calls' = Unmounted(cs)
  BY <1>3, <1>4
<1> QED
  BY <1>2, <1>4 DEF Display, Unmounted

LEMMA DisplayLeaving ==
    ASSUME IInv, Leaving, NEW p, NEW s, NEW cs \in SUBSET calls, Display(p, s, cs, form),
           UNCHANGED <<cookie, crossed>>
    PROVE  Leaving'
BY DisplayedCalls, LeavingStays

LEMMA UserLeaving == IInv /\ Leaving /\ User => Leaving'
<1> SUFFICES ASSUME IInv, Leaving, User PROVE Leaving'
  OBVIOUS
<1>0. None # 200
  BY FailuresAssumption
<1>1. ASSUME NEW p \in Pages \cup {"login"}, Open(p) PROVE Leaving'
  <2>1. \A c \in calls' : c.op = "me"
    BY <1>1 DEF Open, CallOf
  <2> QED
    BY <2>1 DEF Leaving
<1>2. ASSUME NEW p, Link(p) \/ History(p) PROVE Leaving'
  BY <1>2, DisplayLeaving DEF Link, History
<1>3. ASSUME SubmitInvalid \/ \E creds \in Credentials : Type(creds) PROVE Leaving'
  BY <1>3 DEF SubmitInvalid, Type, Leaving
<1>4. ASSUME Submit PROVE Leaving'
  <2>1. PICK who, c : c = CallOf("login", who) /\ calls' = calls \cup {c}
    BY <1>4 DEF Submit
  <2>2. c.op = "login"
    BY <2>1 DEF CallOf
  <2> QED
    BY <1>4, <2>1, <2>2, LeavingStays DEF Submit, Send
<1>5. ASSUME Retry PROVE Leaving'
  <2>1. PICK c : c.op = "me" /\ calls' = calls \cup {c}
    BY <1>5 DEF Retry, CallOf
  <2>2. UNCHANGED cookie /\ (crossed => crossed')
    BY <1>5 DEF Retry, Send
  <2> QED
    BY <2>1, <2>2, LeavingStays
<1>6. ASSUME Logout PROVE Leaving'
  <2>1. PICK c : c.who = None /\ ~c.mounted /\ c.answer = None /\ calls' = calls \cup {c}
    BY <1>6 DEF Logout, CallOf
  <2>2. UNCHANGED cookie /\ (crossed => crossed')
    BY <1>6 DEF Logout, Send
  <2> QED
    BY <1>0, <2>1, <2>2, LeavingStays
<1> QED
  BY <1>1, <1>2, <1>3, <1>4, <1>5, <1>6 DEF User

\* While no login comes in between, the cookie an answer sets is none where a logout
\* has been answered: a login is under way alone.
LEMMA NetworkLeaving == IInv /\ Leaving /\ Network => Leaving'
<1> SUFFICES ASSUME IInv, Leaving, Network PROVE Leaving'
  OBVIOUS
<1>1. ASSUME Expire PROVE Leaving'
  BY <1>1 DEF Expire, Leaving
<1>2. ASSUME NEW c \in calls, Arrive(c) \/ Fail(c) PROVE Leaving'
  <2>1. PICK a, d : /\ d = [c EXCEPT !.answer = a] /\ calls' = (calls \ {c}) \cup {d}
                    /\ a = 200 => cookie' = CookieAfter(c)
                    /\ a # 200 => cookie' = cookie
    <3>1. PICK a : /\ calls' = (calls \ {c}) \cup {[c EXCEPT !.answer = a]}
                   /\ a = 200 => cookie' = CookieAfter(c)
                   /\ a # 200 => cookie' = cookie
      BY <1>2, FailuresAssumption DEF Arrive, Fail
    <3> QED
      BY <3>1
  <2>2. c \in Call /\ crossed' = crossed
    BY <1>2 DEF Arrive, Fail, IInv, TypeOK
  <2>3. d.op = c.op /\ d.who = c.who /\ d.mounted = c.mounted /\ d.answer = a
    BY <2>1, <2>2 DEF Call
  <2>4. CASE c.op = "login"
    <3>1. ASSUME ~crossed PROVE \A b \in calls' : b.op # "logout"
      BY <2>1, <2>3, <2>4, <3>1 DEF IInv, Held
    <3>2. \A b \in calls' : b.op = "logout" => b \in calls
      BY <2>1, <2>3, <2>4
    <3> QED
      BY <2>2, <3>1, <3>2 DEF Leaving
  <2>5. CASE c.op = "me"
    <3>1. cookie' = cookie /\ \A b \in calls' : b.op = "logout" => b \in calls
      BY <2>1, <2>3, <2>5 DEF CookieAfter
    <3> QED
      BY <2>2, <3>1 DEF Leaving
  <2>6. CASE c.op = "logout"
    <3>1. a = 200 => cookie' = None
      BY <2>1, <2>6 DEF CookieAfter
    <3>2. \A b \in calls' : b = d \/ b \in calls
      BY <2>1
    <3>3. c.who = None /\ ~c.mounted
      BY <2>6 DEF Leaving
    <3>4. a # 200 => cookie' = cookie
      BY <2>1
    <3> QED
      BY <2>2, <2>3, <3>1, <3>2, <3>3, <3>4 DEF Leaving
  <2> QED
    BY <2>2, <2>4, <2>5, <2>6 DEF Call
<1> QED
  BY <1>1, <1>2 DEF Network

LEMMA ScriptLeaving == IInv /\ Leaving /\ Script => Leaving'
<1> SUFFICES ASSUME IInv, Leaving, NEW c \in calls,
                    CheckDone(c) \/ LoginDone(c) \/ LoginRefused(c) \/ LogoutDone(c)
             PROVE  Leaving'
  BY DEF Script
<1>1. CASE LoginRefused(c)
  BY <1>1 DEF LoginRefused, Leaving
<1>2. CASE CheckDone(c) \/ LoginDone(c) \/ LogoutDone(c)
  BY <1>2, DisplayLeaving DEF CheckDone, LoginDone, LogoutDone
<1> QED
  BY <1>1, <1>2

\* The answer to a logout is taken by the code that awaits it or lost with the page,
\* and then there is nothing left that could show somebody.
LEMMA LeftIsSignedOut ==
    ASSUME IInv, Leaving, [Next]_vars, NEW c \in calls \ calls', c.op = "logout", c.answer = 200,
           ~crossed
    PROVE  SignedOut'
<1>1. cookie = None /\ c.who = None /\ ~c.mounted /\ c \in Call
  BY DEF Leaving, IInv, TypeOK
<1>2. \A d \in calls : d.op = "logout" /\ d.who = None
  BY DEF IInv, Held, TypeOK, Call, Leaving
<1>3. CASE \E p \in Pages \cup {"login"} : Open(p)
  <2>1. cookie' = None /\ state'.usr = None /\ \A d \in calls' : d.who = None
    BY <1>1, <1>3 DEF Open, Loading, CallOf
  <2> QED
    BY <2>1 DEF SignedOut
<1>4. CASE \E d \in calls : LogoutDone(d)
  <2>1. PICK cs \in SUBSET calls : Display("login", SignedInAs(None), cs, form) /\ UNCHANGED cookie
    BY <1>4 DEF LogoutDone
  <2>2. state'.usr = None
    BY <2>1 DEF Display, SignedInAs
  <2>3. \A d \in calls' : d.who = None
    BY <1>2, <2>1, DisplayedCalls
  <2> QED
    BY <1>1, <2>1, <2>2, <2>3 DEF SignedOut
<1>5. CASE \E p : Link(p) \/ History(p)
  <2>1. PICK p : Display(p, state, calls, form)
    BY <1>5 DEF Link, History
  <2>2. [c EXCEPT !.mounted = FALSE] = c
    BY <1>1 DEF Call
  <2>3. c \in calls'
    BY <2>1, <2>2 DEF Display
  <2> QED
    BY <2>3
<1>6. CASE SubmitInvalid \/ Submit \/ Retry \/ Logout \/ \E creds \in Credentials : Type(creds)
  BY <1>6 DEF SubmitInvalid, Submit, Retry, Logout, Type
<1>7. CASE Network
  BY <1>7, FailuresAssumption DEF Network, Expire, Arrive, Fail
<1>8. ~\E d \in calls : CheckDone(d) \/ LoginDone(d) \/ LoginRefused(d)
  BY <1>2 DEF CheckDone, LoginDone, LoginRefused
<1> QED
  BY <1>3, <1>4, <1>5, <1>6, <1>7, <1>8 DEF Next, User, Script, vars

\* Where nobody is signed in only a login can bring somebody.
LEMMA SignedOutStays ==
    ASSUME IInv, SignedOut, [Next]_vars
    PROVE  SignedOut' \/ \E c \in calls' : c.op = "login" /\ c.who # None
<1>0. calls \subseteq Call /\ state \in State
  BY DEF IInv, TypeOK
<1>1. ASSUME NEW p, NEW s, NEW cs \in SUBSET calls, Display(p, s, cs, form), s.usr = None,
             UNCHANGED cookie
      PROVE  SignedOut'
  <2>1. \A d \in calls' : d.who = None
    BY <1>1, DisplayedCalls DEF SignedOut
  <2> QED
    BY <1>1, <2>1 DEF Display, SignedOut
<1>2. ASSUME NEW p \in Pages \cup {"login"}, Open(p) PROVE SignedOut'
  BY <1>2 DEF Open, Loading, CallOf, SignedOut
<1>3. ASSUME NEW p, Link(p) \/ History(p) PROVE SignedOut'
  BY <1>1, <1>3 DEF Link, History, SignedOut
<1>4. ASSUME SubmitInvalid \/ \E creds \in Credentials : Type(creds) PROVE SignedOut'
  BY <1>4 DEF SubmitInvalid, Type, SignedOut
<1>5. ASSUME Submit PROVE SignedOut' \/ \E c \in calls' : c.op = "login" /\ c.who # None
  <2>1. PICK who, c : c = CallOf("login", who) /\ calls' = calls \cup {c}
    BY <1>5 DEF Submit
  <2>2. c.op = "login"
    BY <2>1 DEF CallOf
  <2> QED
    BY <1>5, <2>1, <2>2 DEF Submit, SignedOut
<1>6. ASSUME Retry \/ Logout PROVE SignedOut'
  <2>1. PICK c : c.who = None /\ calls' = calls \cup {c}
    BY <1>6 DEF Retry, Logout, CallOf, SignedOut
  <2>2. state'.usr = state.usr
    BY <1>0, <1>6 DEF Retry, Logout, State
  <2> QED
    BY <1>6, <2>1, <2>2 DEF Retry, Logout, SignedOut
<1>7. ASSUME Expire PROVE SignedOut'
  BY <1>7 DEF Expire, SignedOut
<1>8. ASSUME NEW c \in calls, Arrive(c) \/ Fail(c) PROVE SignedOut'
  <2>1. c.who = None /\ c \in Call
    BY <1>0 DEF SignedOut
  <2>2. PICK a, d : d = [c EXCEPT !.answer = a] /\ calls' = (calls \ {c}) \cup {d}
    BY <1>8 DEF Arrive, Fail
  <2>3. d.who = None
    BY <2>1, <2>2 DEF Call
  <2>4. cookie' = None
    BY <1>8, <2>1 DEF Arrive, Fail, Answers, CookieAfter, Call, SignedOut
  <2> QED
    BY <1>8, <2>2, <2>3, <2>4 DEF Arrive, Fail, SignedOut
<1>9. ASSUME NEW c \in calls, CheckDone(c) \/ LoginDone(c) \/ LoginRefused(c) \/ LogoutDone(c)
      PROVE  SignedOut'
  <2>1. c.who = None
    BY DEF SignedOut
  <2>2. Checked(c).usr = None /\ LoggedIn(c).usr = None /\ SignedInAs(None).usr = None
    BY <2>1 DEF Checked, LoggedIn, SignedInAs
  <2>3. CASE LoginRefused(c)
    BY <2>3 DEF LoginRefused, SignedOut
  <2>4. CASE CheckDone(c) \/ LoginDone(c) \/ LogoutDone(c)
    BY <1>1, <2>2, <2>4 DEF CheckDone, LoginDone, LogoutDone
  <2> QED
    BY <1>9, <2>3, <2>4
<1>10. CASE UNCHANGED vars
  BY <1>10 DEF vars, SignedOut
<1> QED
  BY <1>2, <1>3, <1>4, <1>5, <1>6, <1>7, <1>8, <1>9, <1>10 DEF Next, User, Network, Script

\* Once the client has taken the answer of a logout the server has carried out,
\* nobody is shown before credentials are submitted, not even after a reload
\* (AuthProvider.jsx, the cookie the logout clears).
THEOREM LogoutIsFinalHolds == Spec => LogoutIsFinal
<1>1. Init => Leaving
  BY DEF Init, Leaving
<1>2. IInv /\ Leaving /\ [Next]_vars => Leaving'
  <2>1. Leaving /\ UNCHANGED vars => Leaving'
    BY DEF vars, Leaving
  <2> QED
    BY <2>1, UserLeaving, NetworkLeaving, ScriptLeaving DEF Next
<1>3. IInv /\ Leaving /\ [Next]_vars =>
        [/\ \A c \in calls \ calls' : c.op = "logout" /\ c.answer = 200 /\ ~crossed => SignedOut'
         /\ SignedOut /\ ~SignedOut' => \E c \in calls' : c.op = "login" /\ c.who # None]_vars
  BY LeftIsSignedOut, SignedOutStays
<1> QED
  BY <1>1, <1>2, <1>3, IInvHolds, PTL DEF Spec, LogoutIsFinal
=============================================================================
