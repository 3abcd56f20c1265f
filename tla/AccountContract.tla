--------------------------- MODULE AccountContract --------------------------
(***************************************************************************)
(* What the sign-in promises, as the comments of the code and ADR-056,     *)
(* ADR-062 and ADR-063 state it.  A purpose has one usable code, replaced  *)
(* by the next one; a code is answered once, and the request that answers  *)
(* it may open one session of a verified account.  A reset closes every    *)
(* session before it opens its own.  A session is a family of tokens, one  *)
(* of them fresh: a rotation takes it away and puts the next in its place. *)
(* A session that was closed while its rotation was under way stays so.    *)
(***************************************************************************)
CONSTANTS Users, Purposes, Codes, Tokens, Requests

VARIABLES verified,   \* the verified accounts
          password,   \* [Users -> the code that set the password]
          usable,     \* the codes that can be answered, with user and purpose
          live,       \* the fresh tokens, with user and family
          grant       \* [Requests -> what the request may still do]

vars == <<verified, password, usable, live, grant>>

Nothing == [may |-> "nothing"]

Init == /\ verified = {}
        /\ password = [u \in Users |-> 0]
        /\ usable = {}
        /\ live = {}
        /\ grant = [s \in Requests |-> Nothing]

Entitlement(may, u, f) == [may |-> may, user |-> u, family |-> f]

CodeOf(u, p, c)  == [user |-> u, purpose |-> p, code |-> c]
TokenOf(u, f, t) == [user |-> u, family |-> f, token |-> t]

Family(u, f) == {x \in live : x.user = u /\ x.family = f}

\* Requests in S lose what they were entitled to.
Without(S) == [s \in Requests |-> IF s \in S THEN Nothing ELSE grant[s]]

\* The requests renewing a session of u that is one of the families F.
Renewing(u, F) ==
    {s \in Requests : grant[s].may = "renew" /\ grant[s].user = u /\ grant[s].family \in F}

\* Codes expire, are replaced, or were guessed at too often.
Withdraw ==
    /\ usable' \subseteq usable
    /\ UNCHANGED <<verified, password, live, grant>>

Issue(u, p, c) ==
    /\ usable' = {x \in usable : ~ (x.user = u /\ x.purpose = p)} \cup {CodeOf(u, p, c)}
    /\ UNCHANGED <<verified, password, live, grant>>

\* A usable code is presented ...
Present(s, u, p) ==
    /\ \E x \in usable : x.user = u /\ x.purpose = p
    /\ grant' = [grant EXCEPT ![s] = Entitlement("answer", u, 0)]
    /\ UNCHANGED <<verified, password, usable, live>>

\* ... and burnt, which is what makes it an answer.
Answer(s, u, p, c) ==
    /\ grant[s] = Entitlement("answer", u, 0)
    /\ CodeOf(u, p, c) \in usable
    /\ usable' = usable \ {CodeOf(u, p, c)}
    /\ grant' = [grant EXCEPT ![s] =
                   Entitlement(IF p = "reset" THEN "reset" ELSE "open", u, 0)]
    /\ UNCHANGED <<verified, password, live>>

SetPassword(s, u, c) ==
    /\ grant[s] = Entitlement("reset", u, 0)
    /\ password' = [password EXCEPT ![u] = c]
    /\ UNCHANGED <<verified, usable, live, grant>>

Verify(s, u) ==
    /\ grant[s] \in {Entitlement("open", u, 0), Entitlement("reset", u, 0)}
    /\ verified' = verified \cup {u}
    /\ UNCHANGED <<password, usable, live, grant>>

\* A session ends, and the requests renewing it find it gone.
Close(u, f) ==
    /\ live' = live \ Family(u, f)
    /\ grant' = Without(Renewing(u, {f}))
    /\ UNCHANGED <<verified, password, usable>>

CloseAll(s, u) ==
    /\ grant[s] = Entitlement("reset", u, 0)
    /\ live' = {x \in live : x.user # u}
    /\ grant' = [Without(Renewing(u, Tokens)) EXCEPT ![s] = Entitlement("open", u, 0)]
    /\ UNCHANGED <<verified, password, usable>>

Open(s, u, t) ==
    /\ grant[s] = Entitlement("open", u, 0)
    /\ u \in verified
    /\ Family(u, t) = {}
    /\ live' = live \cup {TokenOf(u, t, t)}
    /\ grant' = Without({s})
    /\ UNCHANGED <<verified, password, usable>>

\* A fresh token is presented ...
Refresh(s, u, f) ==
    /\ Family(u, f) # {}
    /\ grant' = [grant EXCEPT ![s] = Entitlement("turn", u, f)]
    /\ UNCHANGED <<verified, password, usable, live>>

\* ... and taken away, before the next one takes its place.
Turn(s, u, f, t) ==
    /\ grant[s] = Entitlement("turn", u, f)
    /\ TokenOf(u, f, t) \in live
    /\ live' = live \ {TokenOf(u, f, t)}
    /\ grant' = [grant EXCEPT ![s] = Entitlement("renew", u, f)]
    /\ UNCHANGED <<verified, password, usable>>

Renew(s, u, f, t) ==
    /\ grant[s] = Entitlement("renew", u, f)
    /\ Family(u, f) = {}
    /\ live' = live \cup {TokenOf(u, f, t)}
    /\ grant' = Without({s})
    /\ UNCHANGED <<verified, password, usable>>

\* A fresh token expires.
Lapse(x) ==
    /\ x \in live
    /\ live' = live \ {x}
    /\ UNCHANGED <<verified, password, usable, grant>>

\* Requests end without using their entitlement.
Drop(S) ==
    /\ grant' = Without(S)
    /\ UNCHANGED <<verified, password, usable, live>>

Next ==
    \/ Withdraw
    \/ \E S \in SUBSET Requests : Drop(S)
    \/ \E x \in live : Lapse(x)
    \/ \E u \in Users, p \in Purposes, c \in Codes : Issue(u, p, c)
    \/ \E u \in Users, f \in Tokens : Close(u, f)
    \/ \E s \in Requests, u \in Users :
          \/ \E p \in Purposes : Present(s, u, p)
          \/ \E p \in Purposes, c \in Codes : Answer(s, u, p, c)
          \/ \E c \in Codes : SetPassword(s, u, c)
          \/ Verify(s, u) \/ CloseAll(s, u)
          \/ \E t \in Tokens : Open(s, u, t)
          \/ \E f \in Tokens : Refresh(s, u, f)
          \/ \E f, t \in Tokens : Turn(s, u, f, t) \/ Renew(s, u, f, t)

Spec == Init /\ [][Next]_vars
=============================================================================
