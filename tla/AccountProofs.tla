--------------------------- MODULE AccountProofs ---------------------------
(***************************************************************************)
(* The safety properties of sign-ins, password resets and sessions, and    *)
(* that their steps are those of the contract, for every number of         *)
(* accounts, codes, tokens, guesses and requests in progress.              *)
(***************************************************************************)
EXTENDS Accounts, FiniteSetTheorems, TLAPS

-----------------------------------------------------------------------------
(***************************************************************************)
(* The records of requests.                                                *)
(***************************************************************************)
Ops == {"register", "resend", "login", "forgot", "verify", "reset", "refresh", "logout"}

Accesses == {"insert", "lookup", "supersede", "commit", "send", "compare", "attempt",
             "consume", "revoke", "discard", "rotate", "renew", "password", "verified",
             "close", "open"}

LEMMA IdleFields == Idle.pc = "idle" /\ Idle.op = "none"
  BY DEF Idle

LEMMA ArrivedFields ==
    ASSUME NEW op \in Ops, NEW u \in Users, NEW p \in Purposes, NEW pc \in Accesses
    PROVE  /\ Arrived(op, u, p, pc) \in Request
           /\ Arrived(op, u, p, pc).op = op /\ Arrived(op, u, p, pc).pc = pc
           /\ Arrived(op, u, p, pc).user = u /\ Arrived(op, u, p, pc).code = 0
           /\ Arrived(op, u, p, pc).parent = 0 /\ Arrived(op, u, p, pc).token = 0
           /\ Arrived(op, u, p, pc).family = 0
  <1>1. 0 \in Codes \cup {0} /\ {} \in SUBSET Codes /\ 0 \in Tokens \cup {0}
    OBVIOUS
  <1>2. Arrived(op, u, p, pc) \in Request
    BY <1>1, Zenon DEF Arrived, Request, Ops, Accesses, Granted
  <1> QED BY <1>2 DEF Arrived

LEMMA BusyFields ==
    ASSUME TypeOK, NEW s \in Requests, requests[s].pc # "idle"
    PROVE  /\ requests[s] \in Request
           /\ requests[s].op \in Ops /\ requests[s].pc \in Accesses
           /\ requests[s].user \in Users /\ requests[s].purpose \in Purposes
           /\ requests[s].code \in Codes \cup {0}
           /\ requests[s].parent \in Tokens \cup {0}
           /\ requests[s].token \in Tokens \cup {0}
           /\ requests[s].family \in Tokens \cup {0}
  <1>1. requests[s] \in Request
    BY DEF TypeOK, Idle
  <1> QED BY <1>1 DEF Request, Ops, Accesses, Granted

\* The records a step makes are requests.
LEMMA AtPc ==
    ASSUME NEW l \in Request, NEW pc \in Accesses
    PROVE  [l EXCEPT !.pc = pc] \in Request
  BY Zenon DEF Request, Accesses, Granted

LEMMA WithCode ==
    ASSUME NEW l \in Request, NEW pc \in Accesses, NEW c \in Codes \cup {0}
    PROVE  [l EXCEPT !.pc = pc, !.code = c] \in Request
  BY Zenon DEF Request, Accesses, Granted

LEMMA WithGuess ==
    ASSUME NEW l \in Request, NEW guess \in Codes \cup {0}, NEW c \in Codes \cup {0}
    PROVE  [l EXCEPT !.guess = guess, !.code = c] \in Request
  BY Zenon DEF Request

LEMMA AfterGuess ==
    ASSUME NEW l \in Request, NEW pc \in Accesses, NEW guess \in Codes \cup {0}
    PROVE  /\ [l EXCEPT !.pc = pc, !.guess = guess] \in Request
           /\ [l EXCEPT !.guess = guess, !.pc = pc] \in Request
  <1>1. [l EXCEPT !.pc = pc, !.guess = guess] \in Request
    BY Zenon DEF Request, Accesses, Granted
  <1>2. [l EXCEPT !.guess = guess, !.pc = pc] \in Request
    BY Zenon DEF Request, Accesses, Granted
  <1> QED BY <1>1, <1>2

LEMMA WithSuperseded ==
    ASSUME NEW l \in Request, NEW pc \in Accesses, NEW S \in SUBSET Codes
    PROVE  [l EXCEPT !.pc = pc, !.superseded = S] \in Request
  BY Zenon DEF Request, Accesses, Granted

LEMMA WithToken ==
    ASSUME NEW l \in Request, NEW pc \in Accesses, NEW t \in Tokens \cup {0},
           NEW f \in Tokens \cup {0}
    PROVE  [l EXCEPT !.pc = pc, !.token = t, !.family = f] \in Request
  BY Zenon DEF Request, Accesses, Granted

LEMMA WithParent ==
    ASSUME NEW l \in Request, NEW t \in Tokens \cup {0}, NEW f \in Tokens \cup {0}
    PROVE  [l EXCEPT !.parent = t, !.family = f] \in Request
  BY Zenon DEF Request

LEMMA WithoutCode ==
    ASSUME NEW l \in Request
    PROVE  [l EXCEPT !.code = 0] \in Request
  BY Zenon DEF Request

\* Request s goes on, as the record that has these fields.
Hops(s, op, pc, u, code, parent, token, family) ==
    \E l \in Request :
        /\ requests' = [requests EXCEPT ![s] = l]
        /\ l.op = op /\ l.pc = pc /\ l.user = u /\ l.code = code
        /\ l.parent = parent /\ l.token = token /\ l.family = family

\* Only its access changes.
HopsTo(s, pc) ==
    Hops(s, requests[s].op, pc, requests[s].user, requests[s].code, requests[s].parent,
         requests[s].token, requests[s].family)

LEMMA ArriveHops ==
    ASSUME NEW s \in Requests, NEW op \in Ops, NEW u \in Users, NEW p \in Purposes,
           NEW pc \in Accesses, Becomes(s, Arrived(op, u, p, pc))
    PROVE  Hops(s, op, pc, u, 0, 0, 0, 0)
  <1> DEFINE l == Arrived(op, u, p, pc)
  <1>1. /\ l \in Request /\ l.op = op /\ l.pc = pc /\ l.user = u /\ l.code = 0
        /\ l.parent = 0 /\ l.token = 0 /\ l.family = 0
    BY ArrivedFields
  <1>2. requests' = [requests EXCEPT ![s] = l]
    BY DEF Becomes
  <1> QED BY ONLY <1>1, <1>2 DEF Hops

LEMMA GoHops ==
    ASSUME TypeOK, NEW s \in Requests, requests[s].pc # "idle", NEW pc \in Accesses,
           Goes(s, pc)
    PROVE  HopsTo(s, pc)
  <1> DEFINE l == [requests[s] EXCEPT !.pc = pc]
  <1>1. l \in Request
    BY BusyFields, AtPc
  <1>2. /\ l.op = requests[s].op /\ l.pc = pc /\ l.user = requests[s].user
        /\ l.code = requests[s].code /\ l.parent = requests[s].parent
        /\ l.token = requests[s].token /\ l.family = requests[s].family
    BY BusyFields DEF Request
  <1>3. requests' = [requests EXCEPT ![s] = l]
    BY DEF Goes, Becomes
  <1> QED BY ONLY <1>1, <1>2, <1>3 DEF HopsTo, Hops

LEMMA IssueHops ==
    ASSUME TypeOK, NEW s \in Requests, NEW r \in Request, IssuesCode(s, r)
    PROVE  /\ Hops(s, r.op, "supersede", r.user, issuedCodes', r.parent, r.token, r.family)
           /\ issuedCodes' \in Codes /\ issuedCodes' = issuedCodes + 1
  <1>1. issuedCodes + 1 \in Codes /\ issuedCodes' = issuedCodes + 1
    BY CodesAssumption DEF IssuesCode, TypeOK, Codes
  <1> DEFINE l == [r EXCEPT !.pc = "supersede", !.code = issuedCodes + 1]
  <1>2. l \in Request
    BY <1>1, WithCode DEF Accesses
  <1>3. /\ l.op = r.op /\ l.pc = "supersede" /\ l.user = r.user
        /\ l.code = issuedCodes' /\ l.parent = r.parent
        /\ l.token = r.token /\ l.family = r.family
    BY <1>1 DEF Request
  <1>4. requests' = [requests EXCEPT ![s] = l]
    BY DEF IssuesCode, Becomes
  <1>5. Hops(s, r.op, "supersede", r.user, issuedCodes', r.parent, r.token, r.family)
    BY ONLY <1>2, <1>3, <1>4 DEF Hops
  <1> QED BY <1>1, <1>5

LEMMA SupersedeHops ==
    ASSUME TypeOK, NEW s \in Requests, SupersedeCodes(s)
    PROVE  HopsTo(s, "commit")
  <1> DEFINE S == Outstanding(codes, requests[s].user, requests[s].purpose)
             l == [requests[s] EXCEPT !.pc = "commit", !.superseded = S]
  <1>1. requests[s].pc # "idle" /\ S \in SUBSET Codes
    BY DEF SupersedeCodes, At, Outstanding
  <1>2. l \in Request
    BY <1>1, BusyFields, WithSuperseded DEF Accesses
  <1>3. /\ l.op = requests[s].op /\ l.pc = "commit" /\ l.user = requests[s].user
        /\ l.code = requests[s].code /\ l.parent = requests[s].parent
        /\ l.token = requests[s].token /\ l.family = requests[s].family
    BY <1>1, BusyFields DEF Request
  <1>4. requests' = [requests EXCEPT ![s] = l]
    BY DEF SupersedeCodes, Becomes
  <1> QED BY ONLY <1>2, <1>3, <1>4 DEF HopsTo, Hops

LEMMA CommitHops ==
    ASSUME TypeOK, NEW s \in Requests, CommitCode(s)
    PROVE  HopsTo(s, "send")
  <1> DEFINE l == [requests[s] EXCEPT !.pc = "send", !.superseded = {}]
  <1>1. requests[s].pc # "idle" /\ {} \in SUBSET Codes
    BY DEF CommitCode, At
  <1>2. l \in Request
    BY <1>1, BusyFields, WithSuperseded DEF Accesses
  <1>3. /\ l.op = requests[s].op /\ l.pc = "send" /\ l.user = requests[s].user
        /\ l.code = requests[s].code /\ l.parent = requests[s].parent
        /\ l.token = requests[s].token /\ l.family = requests[s].family
    BY <1>1, BusyFields DEF Request
  <1>4. requests' = [requests EXCEPT ![s] = l]
    BY DEF CommitCode, Becomes
  <1> QED BY ONLY <1>2, <1>3, <1>4 DEF HopsTo, Hops

\* A guess that was checked: c is the code it was checked against.
LEMMA ConfirmHops ==
    ASSUME TypeOK, NEW s \in Requests, NEW u \in Users, NEW op \in Purposes,
           NEW guess \in Codes \cup {0}, Confirm(s, u, op, guess)
    PROVE  \E c \in Codes, pc \in {"consume", "compare"} :
              /\ Answerable(u, op, c)
              /\ Hops(s, op, pc, u, c, 0, 0, 0)
  <1>1. PICK c \in Codes :
           /\ Answerable(u, op, c)
           /\ Becomes(s, [Arrived(op, u, op, IF guess = c THEN "consume" ELSE "compare")
                            EXCEPT !.guess = guess, !.code = c])
    BY DEF Confirm
  <1>2. PICK pc \in {"consume", "compare"} :
           Becomes(s, [Arrived(op, u, op, pc) EXCEPT !.guess = guess, !.code = c])
    BY <1>1
  <1> DEFINE a == Arrived(op, u, op, pc)
             l == [a EXCEPT !.guess = guess, !.code = c]
  <1>3. op \in Ops /\ pc \in Accesses
    BY DEF Purposes, Ops, Accesses
  <1>4. /\ a \in Request /\ a.op = op /\ a.pc = pc /\ a.user = u
        /\ a.parent = 0 /\ a.token = 0 /\ a.family = 0
    BY <1>3, ArrivedFields
  <1>5. requests' = [requests EXCEPT ![s] = l]
    BY <1>2 DEF Becomes
  <1> HIDE DEF a
  <1>6. l \in Request
    BY <1>4, WithGuess
  <1>7. /\ l.op = op /\ l.pc = pc /\ l.user = u /\ l.code = c
        /\ l.parent = 0 /\ l.token = 0 /\ l.family = 0
    BY <1>4 DEF Request
  <1>8. Hops(s, op, pc, u, c, 0, 0, 0)
    BY ONLY <1>5, <1>6, <1>7 DEF Hops
  <1> QED BY <1>1, <1>8

LEMMA CompareHops ==
    ASSUME TypeOK, NEW s \in Requests, CompareStale(s)
    PROVE  Ends(s) \/ HopsTo(s, "attempt")
  <1> DEFINE l == [requests[s] EXCEPT !.pc = "attempt", !.guess = 0]
  <1>1. requests[s].pc # "idle"
    BY DEF CompareStale, At
  <1>2. l \in Request
    BY <1>1, BusyFields, AfterGuess DEF Accesses
  <1>3. /\ l.op = requests[s].op /\ l.pc = "attempt" /\ l.user = requests[s].user
        /\ l.code = requests[s].code /\ l.parent = requests[s].parent
        /\ l.token = requests[s].token /\ l.family = requests[s].family
    BY <1>1, BusyFields DEF Request
  <1>4. Ends(s) \/ requests' = [requests EXCEPT ![s] = l]
    BY DEF CompareStale, Becomes
  <1> QED BY <1>2, <1>3, <1>4 DEF HopsTo, Hops

LEMMA ConsumeHops ==
    ASSUME TypeOK, NEW s \in Requests, ConsumeCode(s)
    PROVE  HopsTo(s, IF requests[s].op = "reset" THEN "password" ELSE "verified")
  <1> DEFINE pc == IF requests[s].op = "reset" THEN "password" ELSE "verified"
             l == [requests[s] EXCEPT !.guess = 0, !.pc = pc]
  <1>1. requests[s].pc # "idle" /\ pc \in Accesses
    BY DEF ConsumeCode, At, Accesses
  <1>5. requests' = [requests EXCEPT ![s] = l]
    BY DEF ConsumeCode, Becomes
  <1> HIDE DEF pc
  <1>2. l \in Request
    BY <1>1, BusyFields, AfterGuess
  <1>3. /\ l.op = requests[s].op /\ l.pc = pc /\ l.user = requests[s].user
        /\ l.code = requests[s].code /\ l.parent = requests[s].parent
        /\ l.token = requests[s].token /\ l.family = requests[s].family
    BY <1>1, BusyFields DEF Request
  <1>4. HopsTo(s, pc)
    BY ONLY <1>2, <1>3, <1>5 DEF HopsTo, Hops
  <1> QED BY <1>4 DEF pc

LEMMA TokenHops ==
    ASSUME TypeOK, NEW s \in Requests, NEW r \in Request, NEW f \in Tokens \cup {0},
           NEW pc \in Accesses, IssuesToken(s, r, f, pc)
    PROVE  /\ Hops(s, r.op, pc, r.user, r.code, r.parent, issuedTokens',
                   IF f = 0 THEN issuedTokens' ELSE f)
           /\ issuedTokens' \in Tokens /\ issuedTokens' = issuedTokens + 1
  <1>1. issuedTokens + 1 \in Tokens /\ issuedTokens' = issuedTokens + 1
    BY TokensAssumption DEF IssuesToken, TypeOK, Tokens
  <1> DEFINE g == IF f = 0 THEN issuedTokens + 1 ELSE f
             l == [r EXCEPT !.pc = pc, !.token = issuedTokens + 1, !.family = g]
  <1>2. requests' = [requests EXCEPT ![s] = l]
    BY DEF IssuesToken, Becomes
  <1>3. g \in Tokens \cup {0}
    BY <1>1
  <1> HIDE DEF g
  <1>4. l \in Request
    BY <1>1, <1>3, WithToken
  <1>5. /\ l.op = r.op /\ l.pc = pc /\ l.user = r.user /\ l.code = r.code
        /\ l.parent = r.parent /\ l.token = issuedTokens' /\ l.family = g
    BY <1>1 DEF Request
  <1>6. Hops(s, r.op, pc, r.user, r.code, r.parent, issuedTokens', g)
    BY ONLY <1>2, <1>4, <1>5 DEF Hops
  <1> QED BY <1>1, <1>6 DEF g

LEMMA MarkVerifiedHops ==
    ASSUME TypeOK, NEW s \in Requests, MarkVerified(s)
    PROVE  \/ /\ Hops(s, requests[s].op, "close", requests[s].user, 0, requests[s].parent,
                      requests[s].token, requests[s].family)
              /\ UNCHANGED issuedTokens /\ requests[s].op = "reset"
           \/ /\ Hops(s, requests[s].op, "open", requests[s].user, 0, requests[s].parent,
                      issuedTokens', issuedTokens')
              /\ issuedTokens' \in Tokens /\ issuedTokens' = issuedTokens + 1
              /\ requests[s].op # "reset"
  <1> DEFINE r == [requests[s] EXCEPT !.code = 0]
             l == [r EXCEPT !.pc = "close"]
  <1>1. requests[s].pc # "idle"
    BY DEF MarkVerified, At
  <1>2. r \in Request
    BY <1>1, BusyFields, WithoutCode
  <1>3. /\ r.op = requests[s].op /\ r.user = requests[s].user
        /\ r.code = 0 /\ r.parent = requests[s].parent
        /\ r.token = requests[s].token /\ r.family = requests[s].family
    BY <1>1, BusyFields DEF Request
  <1>4. \/ requests' = [requests EXCEPT ![s] = l] /\ UNCHANGED issuedTokens /\ r.op = "reset"
        \/ IssuesToken(s, r, 0, "open") /\ r.op # "reset"
    BY DEF MarkVerified, Becomes
  <1> HIDE DEF r
  <1>5. CASE requests' = [requests EXCEPT ![s] = l] /\ UNCHANGED issuedTokens /\ r.op = "reset"
    <2>1. l \in Request
      BY <1>2, AtPc DEF Accesses
    <2>2. /\ l.op = r.op /\ l.pc = "close" /\ l.user = r.user /\ l.code = r.code
          /\ l.parent = r.parent /\ l.token = r.token /\ l.family = r.family
      BY <1>2 DEF Request
    <2> QED BY <1>3, <1>5, <2>1, <2>2 DEF Hops
  <1>6. CASE IssuesToken(s, r, 0, "open") /\ r.op # "reset"
    <2>1. "open" \in Accesses
      BY DEF Accesses
    <2>2. /\ Hops(s, r.op, "open", r.user, r.code, r.parent, issuedTokens', issuedTokens')
          /\ issuedTokens' \in Tokens /\ issuedTokens' = issuedTokens + 1
      BY <1>2, <1>6, <2>1, TokenHops
    <2> QED BY <1>3, <1>6, <2>2
  <1> QED BY <1>4, <1>5, <1>6

LEMMA PresentHops ==
    ASSUME TypeOK, NEW s \in Requests, NEW op \in {"refresh", "logout"}, NEW t \in Tokens,
           NEW pc \in Accesses, Present(s, op, t, pc)
    PROVE  /\ Hops(s, op, pc, tokens[t].user, 0, t, 0, tokens[t].family)
           /\ tokens[t] # NoToken /\ tokens[t] \in TokenRows(Users)
  <1>1. tokens[t] # NoToken /\ tokens[t] \in TokenRows(Users)
    BY DEF Present, TypeOK
  <1>2. tokens[t].user \in Users /\ tokens[t].family \in Tokens
    BY <1>1 DEF TokenRows
  <1> DEFINE a == Arrived(op, tokens[t].user, "verify", pc)
             l == [a EXCEPT !.parent = t, !.family = tokens[t].family]
  <1>3. requests' = [requests EXCEPT ![s] = l]
    BY DEF Present, Presented, Becomes
  <1>4. /\ a \in Request /\ a.op = op /\ a.pc = pc /\ a.user = tokens[t].user
        /\ a.code = 0 /\ a.token = 0
    BY <1>2, ArrivedFields DEF Ops, Purposes
  <1> HIDE DEF a
  <1>5. l \in Request
    BY <1>2, <1>4, WithParent
  <1>6. /\ l.op = op /\ l.pc = pc /\ l.user = tokens[t].user /\ l.code = 0
        /\ l.parent = t /\ l.token = 0 /\ l.family = tokens[t].family
    BY <1>4 DEF Request
  <1>7. Hops(s, op, pc, tokens[t].user, 0, t, 0, tokens[t].family)
    BY ONLY <1>3, <1>5, <1>6 DEF Hops
  <1> QED BY <1>1, <1>7

LEMMA HopPlaces ==
    ASSUME TypeOK, NEW s \in Requests, NEW op, NEW pc, NEW u, NEW code, NEW parent,
           NEW token, NEW family, Hops(s, op, pc, u, code, parent, token, family)
    PROVE  /\ requests' \in [Requests -> Request \cup {Idle}]
           /\ requests'[s].op = op /\ requests'[s].pc = pc /\ requests'[s].user = u
           /\ requests'[s].code = code /\ requests'[s].parent = parent
           /\ requests'[s].token = token /\ requests'[s].family = family
           /\ \A t \in Requests : t # s => requests'[t] = requests[t]
  BY DEF Hops, TypeOK

LEMMA EndPlaces ==
    ASSUME TypeOK, NEW s \in Requests, Ends(s)
    PROVE  /\ requests' \in [Requests -> Request \cup {Idle}]
           /\ requests'[s].pc = "idle"
           /\ \A t \in Requests : t # s => requests'[t] = requests[t]
  BY IdleFields DEF Ends, Becomes, TypeOK

-----------------------------------------------------------------------------
(***************************************************************************)
(* Types.                                                                  *)
(***************************************************************************)
\* What a request has in hand at an access.
Holds(pc, code, parent, token, family, lastCode, lastToken) ==
    /\ pc \in {"supersede", "commit", "send"} => code \in 1..lastCode
    /\ pc \in {"compare", "attempt", "consume", "password", "verified"} => code \in 1..lastCode
    /\ pc \in {"discard", "rotate"} => parent \in Tokens /\ family \in Tokens
    /\ pc \in {"open", "renew"} => token \in 1..lastToken /\ family \in Tokens

Shaped ==
    \A s \in Requests : requests[s].pc # "idle" =>
        Holds(requests[s].pc, requests[s].code, requests[s].parent, requests[s].token,
              requests[s].family, issuedCodes, issuedTokens)

\* A row of the table is of an issued code.
CodesIssued == \A c \in Codes : codes[c] # NoCode => c <= issuedCodes

Types == TypeOK /\ Shaped /\ CodesIssued

LEMMA Ranges ==
    ASSUME TypeOK
    PROVE  /\ 1..issuedCodes \subseteq Codes /\ 1..issuedTokens \subseteq Tokens
           /\ issuedCodes \in Nat /\ issuedTokens \in Nat
  BY CodesAssumption, TokensAssumption DEF TypeOK, Codes, Tokens

\* No more is issued than is counted.
Counted == 1..issuedCodes \subseteq 1..issuedCodes' /\ 1..issuedTokens \subseteq 1..issuedTokens'

LEMMA HopShapes ==
    ASSUME TypeOK, Shaped, NEW s \in Requests, NEW op, NEW pc, NEW u, NEW code, NEW parent,
           NEW token, NEW family, Hops(s, op, pc, u, code, parent, token, family),
           Counted, Holds(pc, code, parent, token, family, issuedCodes', issuedTokens')
    PROVE  Shaped' /\ requests' \in [Requests -> Request \cup {Idle}]
  <1>1. /\ requests' \in [Requests -> Request \cup {Idle}]
        /\ requests'[s].pc = pc
        /\ requests'[s].code = code /\ requests'[s].parent = parent
        /\ requests'[s].token = token /\ requests'[s].family = family
        /\ \A t \in Requests : t # s => requests'[t] = requests[t]
    BY HopPlaces
  <1>2. ASSUME NEW t \in Requests, requests'[t].pc # "idle"
        PROVE  Holds(requests'[t].pc, requests'[t].code, requests'[t].parent,
                     requests'[t].token, requests'[t].family, issuedCodes', issuedTokens')
    <2>1. CASE t = s
      BY <1>1, <2>1
    <2>2. CASE t # s
      BY <1>1, <1>2, <2>2 DEF Shaped, Holds, Counted
    <2> QED BY <2>1, <2>2
  <1> QED BY <1>1, <1>2 DEF Shaped

LEMMA EndShapes ==
    ASSUME TypeOK, Shaped, NEW s \in Requests, Ends(s), Counted
    PROVE  Shaped' /\ requests' \in [Requests -> Request \cup {Idle}]
  <1>1. /\ requests' \in [Requests -> Request \cup {Idle}]
        /\ requests'[s].pc = "idle"
        /\ \A t \in Requests : t # s => requests'[t] = requests[t]
    BY EndPlaces
  <1>2. ASSUME NEW t \in Requests, requests'[t].pc # "idle"
        PROVE  Holds(requests'[t].pc, requests'[t].code, requests'[t].parent,
                     requests'[t].token, requests'[t].family, issuedCodes', issuedTokens')
    BY <1>1, <1>2 DEF Shaped, Holds, Counted
  <1> QED BY <1>1, <1>2 DEF Shaped

LEMMA CountedSame ==
    ASSUME UNCHANGED <<issuedCodes, issuedTokens>>
    PROVE  Counted
  BY DEF Counted

\* Where only the access changes.
LEMMA HopToShapes ==
    ASSUME Types, NEW s \in Requests, requests[s].pc # "idle", NEW pc, HopsTo(s, pc),
           UNCHANGED <<issuedCodes, issuedTokens>>,
           pc \notin {"discard", "rotate", "open", "renew"},
           pc \in {"supersede", "commit", "send", "compare", "attempt", "consume", "password",
                  "verified"}
              => requests[s].code \in 1..issuedCodes
    PROVE  Shaped' /\ requests' \in [Requests -> Request \cup {Idle}]
  <1>1. Holds(pc, requests[s].code, requests[s].parent, requests[s].token,
              requests[s].family, issuedCodes', issuedTokens')
    BY DEF Holds
  <1>2. Counted
    BY CountedSame
  <1> QED BY <1>1, <1>2, HopShapes DEF HopsTo, Types

\* What the operators of the table of codes make of it.
LEMMA CodeTables ==
    ASSUME TypeOK, NEW c \in Codes
    PROVE  /\ Attempted(codes, c) \in [Codes -> CodeRows(Users) \cup {NoCode}]
           /\ Burnt(codes, c) \in [Codes -> CodeRows(Users) \cup {NoCode}]
           /\ \A d \in Codes :
                 /\ Attempted(codes, c)[d] # NoCode <=> codes[d] # NoCode
                 /\ Burnt(codes, c)[d] # NoCode <=> codes[d] # NoCode
                 /\ codes[d] # NoCode =>
                      /\ Attempted(codes, c)[d].user = codes[d].user
                      /\ Attempted(codes, c)[d].purpose = codes[d].purpose
                      /\ Attempted(codes, c)[d].consumed = codes[d].consumed
                      /\ Attempted(codes, c)[d].attempts =
                            IF d = c THEN codes[d].attempts + 1 ELSE codes[d].attempts
                      /\ Burnt(codes, c)[d].user = codes[d].user
                      /\ Burnt(codes, c)[d].purpose = codes[d].purpose
                      /\ codes[d].consumed \/ d = c => Burnt(codes, c)[d].consumed
                      /\ Burnt(codes, c)[d].attempts = codes[d].attempts
  <1>1. codes \in [Codes -> CodeRows(Users) \cup {NoCode}]
    BY DEF TypeOK
  <1>2. CASE codes[c] = NoCode
    BY <1>1, <1>2 DEF Attempted, Burnt
  <1>3. CASE codes[c] # NoCode
    <2> DEFINE a == [codes[c] EXCEPT !.attempts = codes[c].attempts + 1]
               b == [codes[c] EXCEPT !.consumed = TRUE]
    <2>1. codes[c] \in CodeRows(Users)
      BY <1>1, <1>3
    <2>2. /\ codes[c].attempts + 1 \in Nat /\ codes[c].user \in Users
          /\ codes[c].consumed \in BOOLEAN /\ codes[c].purpose \in Purposes
      BY <2>1 DEF CodeRows
    <2>3. a \in CodeRows(Users) /\ b \in CodeRows(Users)
      <3>1. a \in CodeRows(Users)
        BY <2>1, <2>2 DEF CodeRows
      <3>2. b \in CodeRows(Users)
        <4>1. TRUE \in BOOLEAN
          OBVIOUS
        <4> QED BY <2>1, <4>1, Zenon DEF CodeRows
      <3> QED BY <3>1, <3>2
    <2>4. /\ a.user = codes[c].user /\ a.purpose = codes[c].purpose
          /\ a.consumed = codes[c].consumed /\ a.attempts = codes[c].attempts + 1
          /\ b.user = codes[c].user /\ b.purpose = codes[c].purpose
          /\ b.consumed = TRUE /\ b.attempts = codes[c].attempts
      BY <2>1 DEF CodeRows
    <2>5. a # NoCode /\ b # NoCode
      BY <2>2, <2>4, UsersAssumption DEF NoCode
    <2>6. /\ Attempted(codes, c) = [codes EXCEPT ![c] = a]
          /\ Burnt(codes, c) = [codes EXCEPT ![c] = b]
      BY <1>1, <1>3 DEF Attempted, Burnt
    <2> HIDE DEF a, b
    <2> QED BY <1>1, <1>3, <2>3, <2>4, <2>5, <2>6
  <1> QED BY <1>2, <1>3

LEMMA InsertedTable ==
    ASSUME TypeOK, NEW c \in Codes, NEW u \in Users, NEW p \in Purposes,
           NEW S \in SUBSET Codes
    PROVE  LET table == Inserted(codes, c, NewCode(u, p), S)
           IN  /\ table \in [Codes -> CodeRows(Users) \cup {NoCode}]
               /\ table[c] # NoCode /\ table[c].user = u /\ table[c].purpose = p
               /\ table[c].attempts = 0
               /\ \A d \in Codes : d # c =>
                     /\ table[d] # NoCode <=> codes[d] # NoCode
                     /\ table[d].user = codes[d].user /\ table[d].purpose = codes[d].purpose
                     /\ table[d].attempts = codes[d].attempts
                     /\ codes[d].consumed => table[d].consumed
  <1> DEFINE table == Inserted(codes, c, NewCode(u, p), S)
  <1>1. codes \in [Codes -> CodeRows(Users) \cup {NoCode}]
    BY DEF TypeOK
  <1>2. /\ NewCode(u, p) \in CodeRows(Users) /\ NewCode(u, p) # NoCode
        /\ NewCode(u, p).user = u /\ NewCode(u, p).purpose = p
        /\ NewCode(u, p).attempts = 0
    BY UsersAssumption DEF NewCode, CodeRows, NoCode
  <1>3. table[c] = NewCode(u, p) /\ table = [d \in Codes |-> table[d]]
    BY DEF Inserted
  <1>4. ASSUME NEW d \in Codes, d # c
        PROVE  /\ table[d] \in CodeRows(Users) \cup {NoCode}
               /\ table[d] # NoCode <=> codes[d] # NoCode
               /\ table[d].user = codes[d].user /\ table[d].purpose = codes[d].purpose
               /\ table[d].attempts = codes[d].attempts
               /\ codes[d].consumed => table[d].consumed
    <2> DEFINE b == [codes[d] EXCEPT !.consumed = TRUE]
    <2>1. table[d] = IF d \in S /\ codes[d] # NoCode THEN b ELSE codes[d]
      BY <1>4 DEF Inserted
    <2>2. CASE codes[d] # NoCode /\ d \in S
      <3>1. codes[d] \in CodeRows(Users)
        BY <1>1, <2>2
      <3>2. TRUE \in BOOLEAN
        OBVIOUS
      <3>3. b \in CodeRows(Users)
        BY <3>1, <3>2, Zenon DEF CodeRows
      <3>4. /\ b.user = codes[d].user /\ b.purpose = codes[d].purpose
            /\ b.attempts = codes[d].attempts /\ b.consumed = TRUE
            /\ codes[d].user \in Users
        BY <3>1 DEF CodeRows
      <3>5. b # NoCode
        BY <3>4, UsersAssumption DEF NoCode
      <3>6. table[d] = b
        BY <2>1, <2>2
      <3> HIDE DEF b
      <3> QED BY <2>2, <3>3, <3>4, <3>5, <3>6
    <2>3. CASE ~ (codes[d] # NoCode /\ d \in S)
      <3>1. table[d] = codes[d]
        BY <2>1, <2>3
      <3> HIDE DEF table
      <3> QED BY <1>1, <3>1
    <2> QED BY <2>2, <2>3
  <1>5. table \in [Codes -> CodeRows(Users) \cup {NoCode}]
    BY <1>2, <1>3, <1>4
  <1> HIDE DEF table
  <1> QED BY <1>2, <1>3, <1>4, <1>5 DEF table

\* The rows that are left in a table of tokens are those of before.
Shrunk(table) ==
    /\ table \in [Tokens -> TokenRows(Users) \cup {NoToken}]
    /\ \A t \in Tokens : table[t] # NoToken =>
          tokens[t] # NoToken /\ table[t].user = tokens[t].user
                              /\ table[t].family = tokens[t].family

LEMMA TokenTables ==
    ASSUME TypeOK
    PROVE  /\ Shrunk(tokens)
           /\ Shrunk(TokensPurged(tokens, lateTokens))
           /\ \A t \in Tokens : Shrunk(Consumed(tokens, t)) /\ Shrunk(Deleted(tokens, t))
           /\ \A f : Shrunk(FamilyDeleted(tokens, f))
           /\ \A u : Shrunk(AllDeleted(tokens, u))
  <1>1. tokens \in [Tokens -> TokenRows(Users) \cup {NoToken}]
    BY DEF TypeOK
  <1>2. ASSUME NEW t \in Tokens
        PROVE  Shrunk(Consumed(tokens, t))
    <2>1. CASE tokens[t] = NoToken
      BY <1>1, <2>1 DEF Consumed, Shrunk
    <2>2. CASE tokens[t] # NoToken
      <3> DEFINE row == [tokens[t] EXCEPT !.consumed = TRUE]
      <3>1. tokens[t] \in TokenRows(Users)
        BY <1>1, <2>2
      <3>2. TRUE \in BOOLEAN
        OBVIOUS
      <3>3. row \in TokenRows(Users)
        BY <3>1, <3>2, Zenon DEF TokenRows
      <3>4. row.user = tokens[t].user /\ row.family = tokens[t].family
        BY <3>1 DEF TokenRows
      <3>5. Consumed(tokens, t) = [tokens EXCEPT ![t] = row]
        BY <1>1, <2>2 DEF Consumed
      <3> HIDE DEF row
      <3> QED BY <1>1, <2>2, <3>3, <3>4, <3>5 DEF Shrunk
    <2> QED BY <2>1, <2>2
  <1>3. ASSUME NEW t \in Tokens
        PROVE  Shrunk(Deleted(tokens, t))
    BY <1>1 DEF Deleted, Shrunk
  <1>4. ASSUME NEW f
        PROVE  Shrunk(FamilyDeleted(tokens, f))
    BY <1>1 DEF FamilyDeleted, Shrunk
  <1>5. ASSUME NEW u
        PROVE  Shrunk(AllDeleted(tokens, u))
    BY <1>1 DEF AllDeleted, Shrunk
  <1>6. Shrunk(tokens) /\ Shrunk(TokensPurged(tokens, lateTokens))
    BY <1>1 DEF TokensPurged, Shrunk
  <1> QED BY <1>2, <1>3, <1>4, <1>5, <1>6

\* What remains to be shown of a step whose requests are well formed.
LEMMA TypesStep ==
    ASSUME Types, Shaped', requests' \in [Requests -> Request \cup {Idle}],
           account' \in [Users -> AccountRows],
           codes' \in [Codes -> CodeRows(Users) \cup {NoCode}], CodesIssued',
           issuedCodes' \in 0..MaxCodes, lateCodes' \in 0..issuedCodes',
           mailed' \subseteq 1..issuedCodes',
           tokens' \in [Tokens -> TokenRows(Users) \cup {NoToken}],
           issuedTokens' \in 0..MaxTokens, lateTokens' \in 0..issuedTokens',
           handed' \subseteq 1..issuedTokens'
    PROVE  Types'
  BY DEF Types, TypeOK

\* A step that leaves the tables alone.
LEMMA TypesKept ==
    ASSUME Types, Shaped', requests' \in [Requests -> Request \cup {Idle}],
           UNCHANGED <<account, codeVars, sessionVars>>
    PROVE  Types'
  BY DEF Types, TypeOK, CodesIssued, codeVars, sessionVars

LEMMA EndTypes ==
    ASSUME Types, NEW s \in Requests, Ends(s), UNCHANGED <<account, codeVars, sessionVars>>
    PROVE  Types'
  <1>1. Counted
    BY CountedSame DEF codeVars, sessionVars
  <1>2. Shaped' /\ requests' \in [Requests -> Request \cup {Idle}]
    BY <1>1, EndShapes DEF Types
  <1> QED BY <1>2, TypesKept

LEMMA IssueTypes ==
    ASSUME Types, NEW s \in Requests, NEW r \in Request, IssuesCode(s, r)
    PROVE  Types'
  <1>1. /\ Hops(s, r.op, "supersede", r.user, issuedCodes', r.parent, r.token, r.family)
        /\ issuedCodes' \in Codes /\ issuedCodes' = issuedCodes + 1
    BY IssueHops DEF Types
  <1>2. /\ UNCHANGED <<account, codes, lateCodes, mailed, tokens, issuedTokens, lateTokens, handed>>
        /\ issuedCodes \in Nat /\ issuedCodes' \in 0..MaxCodes
    BY <1>1, Ranges DEF IssuesCode, sessionVars, Types, Codes
  <1>3. Counted /\ issuedCodes' \in 1..issuedCodes'
    BY <1>1, <1>2 DEF Counted
  <1>4. Holds("supersede", issuedCodes', r.parent, r.token, r.family, issuedCodes', issuedTokens')
    BY <1>3 DEF Holds
  <1>5. Shaped' /\ requests' \in [Requests -> Request \cup {Idle}]
    BY <1>1, <1>3, <1>4, HopShapes DEF Types
  <1>6. CodesIssued' /\ lateCodes' \in 0..issuedCodes' /\ mailed' \subseteq 1..issuedCodes'
    BY <1>1, <1>2, CodesAssumption DEF Types, TypeOK, CodesIssued, Codes
  <1> QED BY <1>2, <1>5, <1>6, TypesStep DEF Types, TypeOK

\* A request arrives.
LEMMA ArriveTypes ==
    ASSUME Types, NEW s \in Requests, Arrive(s)
    PROVE  Types'
  <1>1. ASSUME NEW u \in Users, Register(s, u)
        PROVE  Types'
    <2>1. /\ Becomes(s, Arrived("register", u, "verify", "insert"))
          /\ UNCHANGED <<account, codeVars, sessionVars>>
      BY <1>1 DEF Register
    <2>2. Hops(s, "register", "insert", u, 0, 0, 0, 0)
      BY <2>1, ArriveHops DEF Ops, Purposes, Accesses
    <2>3. Counted
      BY <2>1, CountedSame DEF codeVars, sessionVars
    <2>4. Holds("insert", 0, 0, 0, 0, issuedCodes', issuedTokens')
      BY DEF Holds
    <2>5. Shaped' /\ requests' \in [Requests -> Request \cup {Idle}]
      BY <2>2, <2>3, <2>4, HopShapes DEF Types
    <2> QED BY <2>1, <2>5, TypesKept
  <1>2. ASSUME NEW u \in Users, Resend(s, u) \/ Login(s, u) \/ Forgot(s, u)
        PROVE  Types'
    <2>1. PICK op \in {"resend", "login", "forgot"}, p \in Purposes :
             IssuesCode(s, Arrived(op, u, p, "supersede"))
      BY <1>2 DEF Resend, Login, Forgot, Purposes
    <2>2. Arrived(op, u, p, "supersede") \in Request
      BY ArrivedFields DEF Ops, Accesses
    <2> QED BY <2>1, <2>2, IssueTypes
  <1>3. ASSUME NEW u \in Users, NEW guess \in Codes \cup {0}, NEW op \in Purposes,
               Confirm(s, u, op, guess)
        PROVE  Types'
    <2>1. PICK c \in Codes, pc \in {"consume", "compare"} :
             Answerable(u, op, c) /\ Hops(s, op, pc, u, c, 0, 0, 0)
      BY <1>3, ConfirmHops DEF Types
    <2>2. UNCHANGED <<account, codeVars, sessionVars>>
      BY <1>3 DEF Confirm
    <2>3. Counted
      BY <2>2, CountedSame DEF codeVars, sessionVars
    <2>4. codes[c] # NoCode
      BY <2>1, UsersAssumption DEF Answerable, IsActive, Outstanding, NoCode
    <2>5. c \in 1..issuedCodes'
      BY <2>2, <2>4, Ranges, CodesAssumption DEF Types, CodesIssued, codeVars, Codes
    <2>6. Holds(pc, c, 0, 0, 0, issuedCodes', issuedTokens')
      BY <2>5 DEF Holds
    <2>7. Shaped' /\ requests' \in [Requests -> Request \cup {Idle}]
      BY <2>1, <2>3, <2>6, HopShapes DEF Types
    <2> QED BY <2>2, <2>7, TypesKept
  <1>4. ASSUME NEW t \in Tokens, Refresh(s, t) \/ Logout(s, t)
        PROVE  Types'
    <2>1. PICK op \in {"refresh", "logout"}, pc \in {"revoke", "discard", "rotate"} :
             Present(s, op, t, pc)
      BY <1>4 DEF Refresh, Logout, Rotation
    <2>2. pc \in Accesses
      BY DEF Accesses
    <2>3. /\ Hops(s, op, pc, tokens[t].user, 0, t, 0, tokens[t].family)
          /\ tokens[t] \in TokenRows(Users)
      BY <2>1, <2>2, PresentHops DEF Types
    <2>4. UNCHANGED <<account, codeVars, sessionVars>>
      BY <2>1 DEF Present
    <2>5. Counted
      BY <2>4, CountedSame DEF codeVars, sessionVars
    <2>6. tokens[t].family \in Tokens
      BY <2>3 DEF TokenRows
    <2>7. Holds(pc, 0, t, 0, tokens[t].family, issuedCodes', issuedTokens')
      BY <2>6 DEF Holds
    <2>8. Shaped' /\ requests' \in [Requests -> Request \cup {Idle}]
      BY <2>3, <2>5, <2>7, HopShapes DEF Types
    <2> QED BY <2>4, <2>8, TypesKept
  <1> QED
    BY <1>1, <1>2, <1>3, <1>4 DEF Arrive, VerifyEmail, ResetPassword, Purposes

\* A code is issued and mailed.
LEMMA MailingTypes ==
    ASSUME Types, NEW s \in Requests,
           InsertAccount(s) \/ RegistrationCode(s) \/ SupersedeCodes(s) \/ CommitCode(s)
              \/ SendCode(s)
    PROVE  Types'
  <1> DEFINE u == requests[s].user
             c == requests[s].code
  <1>0. requests[s].pc # "idle"
    BY DEF InsertAccount, RegistrationCode, SupersedeCodes, CommitCode, SendCode, At
  <1>1. u \in Users /\ requests[s] \in Request /\ requests[s].purpose \in Purposes
    BY <1>0, BusyFields DEF Types
  <1>2. requests[s].pc \in {"supersede", "commit", "send"} => c \in 1..issuedCodes /\ c \in Codes
    BY <1>0, Ranges DEF Types, Shaped, Holds
  <1>3. CASE InsertAccount(s)
    <2>1. UNCHANGED <<codeVars, sessionVars>>
      BY <1>3 DEF InsertAccount
    <2>2. CASE Ends(s) /\ UNCHANGED account
      BY <2>1, <2>2, EndTypes
    <2>3. CASE account' = [account EXCEPT ![u] = NewAccount] /\ Goes(s, "lookup")
      <3>1. HopsTo(s, "lookup")
        BY <1>0, <2>3, GoHops DEF Types, Accesses
      <3>2. Shaped' /\ requests' \in [Requests -> Request \cup {Idle}]
        BY <1>0, <2>1, <3>1, HopToShapes DEF codeVars, sessionVars
      <3>3. NewAccount \in AccountRows
        BY DEF NewAccount, AccountRows
      <3>4. account' \in [Users -> AccountRows]
        BY <2>3, <3>3 DEF Types, TypeOK
      <3> QED BY <2>1, <3>2, <3>4, TypesStep DEF codeVars, sessionVars, Types, TypeOK, CodesIssued
    <2> QED BY <1>3, <2>2, <2>3 DEF InsertAccount
  <1>4. CASE RegistrationCode(s)
    <2>1. CASE IssuesCode(s, requests[s])
      BY <1>1, <2>1, IssueTypes
    <2>2. CASE Ends(s) /\ UNCHANGED <<account, codeVars, sessionVars>>
      BY <2>2, EndTypes
    <2> QED BY <1>4, <2>1, <2>2 DEF RegistrationCode
  <1>5. CASE SupersedeCodes(s)
    <2>1. HopsTo(s, "commit") /\ UNCHANGED <<account, codeVars, sessionVars>>
      BY <1>5, SupersedeHops DEF SupersedeCodes, Types
    <2>2. c \in 1..issuedCodes
      BY <1>2, <1>5 DEF SupersedeCodes, At
    <2>3. Shaped' /\ requests' \in [Requests -> Request \cup {Idle}]
      BY <1>0, <2>1, <2>2, HopToShapes DEF codeVars, sessionVars
    <2> QED BY <2>1, <2>3, TypesKept
  <1>6. CASE CommitCode(s)
    <2>1. /\ HopsTo(s, "send")
          /\ UNCHANGED <<account, issuedCodes, lateCodes, mailed, sessionVars>>
      BY <1>6, CommitHops DEF CommitCode, Types
    <2>2. c \in 1..issuedCodes /\ c \in Codes
      BY <1>2, <1>6 DEF CommitCode, At
    <2>3. Shaped' /\ requests' \in [Requests -> Request \cup {Idle}]
      BY <1>0, <2>1, <2>2, HopToShapes DEF sessionVars
    <2>4. requests[s].superseded \in SUBSET Codes
      BY <1>1 DEF Request
    <2>5. codes' = Inserted(codes, c, NewCode(u, requests[s].purpose), requests[s].superseded)
      BY <1>6 DEF CommitCode
    <2>6. /\ codes' \in [Codes -> CodeRows(Users) \cup {NoCode}]
          /\ \A d \in Codes : d # c => (codes'[d] # NoCode <=> codes[d] # NoCode)
      BY <1>1, <2>2, <2>4, <2>5, InsertedTable DEF Types
    <2>7. CodesIssued'
      BY <2>1, <2>2, <2>6, Ranges DEF Types, CodesIssued
    <2> QED BY <2>1, <2>3, <2>6, <2>7, TypesStep DEF sessionVars, Types, TypeOK
  <1>7. CASE SendCode(s)
    <2>1. /\ Ends(s) /\ mailed' = mailed \cup {c}
          /\ UNCHANGED <<account, codes, issuedCodes, lateCodes, sessionVars>>
      BY <1>7 DEF SendCode
    <2>2. Counted
      BY <2>1, CountedSame DEF sessionVars
    <2>3. Shaped' /\ requests' \in [Requests -> Request \cup {Idle}]
      BY <2>1, <2>2, EndShapes DEF Types
    <2>4. c \in 1..issuedCodes
      BY <1>2, <1>7 DEF SendCode, At
    <2> QED BY <2>1, <2>3, <2>4, TypesStep DEF sessionVars, Types, TypeOK, CodesIssued
  <1> QED BY <1>3, <1>4, <1>5, <1>6, <1>7

\* A code is answered.
LEMMA AnswerTypes ==
    ASSUME Types, NEW s \in Requests,
           CompareStale(s) \/ RecordAttempt(s) \/ ConsumeCode(s) \/ ChangePassword(s)
    PROVE  Types'
  <1> DEFINE u == requests[s].user
             c == requests[s].code
  <1>0. /\ requests[s].pc # "idle"
        /\ requests[s].pc \in {"compare", "attempt", "consume", "password", "verified"}
    BY DEF CompareStale, RecordAttempt, ConsumeCode, ChangePassword, At
  <1>1. u \in Users /\ c \in 1..issuedCodes /\ c \in Codes
    BY <1>0, BusyFields, Ranges DEF Types, Shaped, Holds
  <1>2. CASE CompareStale(s)
    <2>1. UNCHANGED <<account, codeVars, sessionVars>> /\ (Ends(s) \/ HopsTo(s, "attempt"))
      BY <1>2, CompareHops DEF CompareStale, Types
    <2>2. CASE Ends(s)
      BY <2>1, <2>2, EndTypes
    <2>3. CASE HopsTo(s, "attempt")
      <3>1. Shaped' /\ requests' \in [Requests -> Request \cup {Idle}]
        BY <1>0, <1>1, <2>1, <2>3, HopToShapes DEF codeVars, sessionVars
      <3> QED BY <2>1, <3>1, TypesKept
    <2> QED BY <2>1, <2>2, <2>3
  <1>3. CASE RecordAttempt(s)
    <2>1. /\ Ends(s) /\ codes' = Attempted(codes, c)
          /\ UNCHANGED <<account, issuedCodes, lateCodes, mailed, sessionVars>>
      BY <1>3 DEF RecordAttempt
    <2>2. Counted
      BY <2>1, CountedSame DEF sessionVars
    <2>3. Shaped' /\ requests' \in [Requests -> Request \cup {Idle}]
      BY <2>1, <2>2, EndShapes DEF Types
    <2>4. /\ codes' \in [Codes -> CodeRows(Users) \cup {NoCode}]
          /\ \A d \in Codes : codes'[d] # NoCode <=> codes[d] # NoCode
      BY <1>1, <2>1, CodeTables DEF Types
    <2>5. CodesIssued'
      BY <2>1, <2>4 DEF Types, CodesIssued
    <2> QED BY <2>1, <2>3, <2>4, <2>5, TypesStep DEF sessionVars, Types, TypeOK
  <1>4. CASE ConsumeCode(s)
    <2> DEFINE pc == IF requests[s].op = "reset" THEN "password" ELSE "verified"
    <2>1. /\ HopsTo(s, pc) /\ codes' = Burnt(codes, c)
          /\ UNCHANGED <<account, issuedCodes, lateCodes, mailed, sessionVars>>
      BY <1>4, ConsumeHops DEF ConsumeCode, Types
    <2>2. pc \notin {"discard", "rotate", "open", "renew"}
      OBVIOUS
    <2>3. Shaped' /\ requests' \in [Requests -> Request \cup {Idle}]
      <3> HIDE DEF pc
      <3> QED BY <1>0, <1>1, <2>1, <2>2, HopToShapes DEF sessionVars
    <2>4. /\ codes' \in [Codes -> CodeRows(Users) \cup {NoCode}]
          /\ \A d \in Codes : codes'[d] # NoCode <=> codes[d] # NoCode
      BY <1>1, <2>1, CodeTables DEF Types
    <2>5. CodesIssued'
      BY <2>1, <2>4 DEF Types, CodesIssued
    <2> QED BY <2>1, <2>3, <2>4, <2>5, TypesStep DEF sessionVars, Types, TypeOK
  <1>5. CASE ChangePassword(s)
    <2>1. /\ Goes(s, "verified") /\ account' = [account EXCEPT ![u].password = c]
          /\ UNCHANGED <<codeVars, sessionVars>>
      BY <1>5 DEF ChangePassword
    <2>2. HopsTo(s, "verified")
      BY <1>0, <2>1, GoHops DEF Types, Accesses
    <2>3. Shaped' /\ requests' \in [Requests -> Request \cup {Idle}]
      BY <1>0, <1>1, <2>1, <2>2, HopToShapes DEF codeVars, sessionVars
    <2>4. account[u] \in AccountRows
      BY <1>1 DEF Types, TypeOK
    <2>5. [account[u] EXCEPT !.password = c] \in AccountRows
      BY <1>1, <2>4, Zenon DEF AccountRows
    <2>6. account' \in [Users -> AccountRows]
      BY <2>1, <2>5 DEF Types, TypeOK
    <2> QED BY <2>1, <2>3, <2>6, TypesStep DEF codeVars, sessionVars, Types, TypeOK, CodesIssued
  <1> QED BY <1>2, <1>3, <1>4, <1>5

\* A session is opened, renewed or closed.
LEMMA SessionTypes ==
    ASSUME Types, NEW s \in Requests,
           MarkVerified(s) \/ CloseSessions(s) \/ OpenSession(s) \/ RevokeFamily(s)
              \/ DiscardToken(s) \/ RotateToken(s) \/ RenewSession(s)
    PROVE  Types'
  <1> DEFINE u == requests[s].user
  <1>0. requests[s].pc # "idle"
    BY DEF MarkVerified, CloseSessions, OpenSession, RevokeFamily, DiscardToken, RotateToken,
           RenewSession, At
  <1>1. /\ u \in Users /\ requests[s] \in Request
        /\ requests[s].parent \in Tokens \cup {0} /\ requests[s].token \in Tokens \cup {0}
        /\ requests[s].family \in Tokens \cup {0}
    BY <1>0, BusyFields DEF Types
  <1>2. CASE MarkVerified(s)
    <2>1. /\ account' = [account EXCEPT ![u].verified = TRUE]
          /\ UNCHANGED <<codeVars, tokens, lateTokens, handed>>
      <3> DEFINE r == [requests[s] EXCEPT !.code = 0]
      <3>1. r.user = u
        BY <1>1 DEF Request
      <3>2. account' = [account EXCEPT ![r.user].verified = TRUE]
        BY <1>2 DEF MarkVerified
      <3> HIDE DEF r
      <3>3. account' = [account EXCEPT ![u].verified = TRUE]
        BY <3>1, <3>2
      <3> QED BY <1>2, <3>3 DEF MarkVerified
    <2>2. account[u] \in AccountRows /\ TRUE \in BOOLEAN
      BY <1>1 DEF Types, TypeOK
    <2>3. [account[u] EXCEPT !.verified = TRUE] \in AccountRows
      BY <2>2, Zenon DEF AccountRows
    <2>4. account' \in [Users -> AccountRows]
      BY <2>1, <2>3 DEF Types, TypeOK
    <2>5. CASE /\ Hops(s, requests[s].op, "close", u, 0, requests[s].parent,
                       requests[s].token, requests[s].family)
               /\ UNCHANGED issuedTokens
      <3>1. Holds("close", 0, requests[s].parent, requests[s].token, requests[s].family,
                  issuedCodes', issuedTokens')
        BY DEF Holds
      <3>2. Counted
        BY <2>1, <2>5, CountedSame DEF codeVars
      <3>3. Shaped' /\ requests' \in [Requests -> Request \cup {Idle}]
        BY <2>5, <3>1, <3>2, HopShapes DEF Types
      <3> QED BY <2>1, <2>4, <2>5, <3>3, TypesStep DEF codeVars, Types, TypeOK, CodesIssued
    <2>6. CASE /\ Hops(s, requests[s].op, "open", u, 0, requests[s].parent,
                       issuedTokens', issuedTokens')
               /\ issuedTokens' \in Tokens /\ issuedTokens' = issuedTokens + 1
      <3>1. /\ issuedTokens' \in 1..issuedTokens' /\ issuedTokens' \in 0..MaxTokens
            /\ Counted /\ lateTokens' \in 0..issuedTokens' /\ handed' \subseteq 1..issuedTokens'
        BY <2>1, <2>6, TokensAssumption DEF Types, TypeOK, Tokens, codeVars, Counted
      <3>2. Holds("open", 0, requests[s].parent, issuedTokens', issuedTokens',
                  issuedCodes', issuedTokens')
        BY <2>6, <3>1 DEF Holds
      <3>3. Shaped' /\ requests' \in [Requests -> Request \cup {Idle}]
        BY <2>6, <3>1, <3>2, HopShapes DEF Types
      <3> QED BY <2>1, <2>4, <3>1, <3>3, TypesStep DEF codeVars, Types, TypeOK, CodesIssued
    <2> QED BY <1>2, <2>5, <2>6, MarkVerifiedHops DEF Types
  <1>3. ASSUME NEW f \in Tokens \cup {0}, NEW pc \in {"open", "renew"},
               IssuesToken(s, requests[s], f, pc), Shrunk(tokens'),
               UNCHANGED <<account, codeVars, lateTokens, handed>>
        PROVE  Types'
    <2> DEFINE g == IF f = 0 THEN issuedTokens' ELSE f
    <2>1. /\ Hops(s, requests[s].op, pc, u, requests[s].code, requests[s].parent,
                  issuedTokens', g)
          /\ issuedTokens' \in Tokens /\ issuedTokens' = issuedTokens + 1
      BY <1>1, <1>3, TokenHops DEF Types, Accesses
    <2>2. g \in Tokens
      BY <2>1
    <2> HIDE DEF g
    <2>3. /\ issuedTokens' \in 1..issuedTokens' /\ issuedTokens' \in 0..MaxTokens
          /\ Counted /\ lateTokens' \in 0..issuedTokens' /\ handed' \subseteq 1..issuedTokens'
      BY <1>3, <2>1, TokensAssumption DEF Types, TypeOK, Tokens, codeVars, Counted
    <2>4. Holds(pc, requests[s].code, requests[s].parent, issuedTokens', g,
                issuedCodes', issuedTokens')
      BY <2>2, <2>3 DEF Holds
    <2>5. Shaped' /\ requests' \in [Requests -> Request \cup {Idle}]
      BY <2>1, <2>3, <2>4, HopShapes DEF Types
    <2> QED BY <1>3, <2>3, <2>5, TypesStep DEF codeVars, Types, TypeOK, CodesIssued, Shrunk
  <1>4. CASE CloseSessions(s)
    <2>1. 0 \in Tokens \cup {0} /\ Shrunk(tokens')
      BY <1>4, TokenTables DEF CloseSessions, Types
    <2> QED BY <1>3, <1>4, <2>1 DEF CloseSessions
  <1>5. CASE RotateToken(s)
    <2>1. requests[s].parent \in Tokens
      BY <1>0, <1>5 DEF RotateToken, At, Types, Shaped, Holds
    <2>2. Shrunk(tokens')
      BY <1>5, <2>1, TokenTables DEF RotateToken, Types
    <2> QED BY <1>1, <1>3, <1>5, <2>2 DEF RotateToken
  <1>6. CASE OpenSession(s) \/ RenewSession(s)
    <2> DEFINE t == requests[s].token
               f == requests[s].family
    <2>1. InsertToken(s) /\ requests[s].pc \in {"open", "renew"}
      BY <1>6 DEF OpenSession, RenewSession, At
    <2>2. t \in 1..issuedTokens /\ f \in Tokens /\ t \in Tokens
      BY <1>0, <2>1, Ranges DEF Types, Shaped, Holds
    <2>3. /\ Ends(s) /\ tokens' = [tokens EXCEPT ![t] = NewToken(u, f)]
          /\ handed' = handed \cup {t}
          /\ UNCHANGED <<account, codeVars, issuedTokens, lateTokens>>
      BY <2>1 DEF InsertToken
    <2>4. NewToken(u, f) \in TokenRows(Users)
      <3>1. FALSE \in BOOLEAN
        OBVIOUS
      <3> QED BY <1>1, <2>2, <3>1, Zenon DEF NewToken, TokenRows
    <2>5. tokens' \in [Tokens -> TokenRows(Users) \cup {NoToken}]
      BY <2>3, <2>4 DEF Types, TypeOK
    <2>6. Counted
      BY <2>3, CountedSame DEF codeVars
    <2>7. Shaped' /\ requests' \in [Requests -> Request \cup {Idle}]
      BY <2>3, <2>6, EndShapes DEF Types
    <2> QED BY <2>2, <2>3, <2>5, <2>7, TypesStep DEF codeVars, Types, TypeOK, CodesIssued
  <1>7. CASE RevokeFamily(s) \/ DiscardToken(s)
    <2>1. Ends(s) /\ UNCHANGED <<account, codeVars, issuedTokens, lateTokens, handed>>
      BY <1>7 DEF RevokeFamily, DiscardToken
    <2>2. Shrunk(tokens')
      <3>1. requests[s].pc = "discard" => requests[s].parent \in Tokens
        BY <1>0 DEF Types, Shaped, Holds
      <3> QED BY <1>7, <3>1, TokenTables DEF RevokeFamily, DiscardToken, At, Types
    <2>3. Counted
      BY <2>1, CountedSame DEF codeVars
    <2>4. Shaped' /\ requests' \in [Requests -> Request \cup {Idle}]
      BY <2>1, <2>3, EndShapes DEF Types
    <2> QED BY <2>1, <2>2, <2>4, TypesStep DEF codeVars, Types, TypeOK, CodesIssued, Shrunk
  <1> QED BY <1>2, <1>4, <1>5, <1>6, <1>7

\* Time passes, rows are purged, requests are cut short.
LEMMA BackgroundTypes ==
    ASSUME Types,
           \/ ExpireCode \/ ExpireToken \/ PurgeCodes \/ PurgeTokens
           \/ \E s \in Requests : Abort(s)
           \/ UNCHANGED vars
    PROVE  Types'
  <1>1. ASSUME UNCHANGED <<issuedCodes, issuedTokens, requests>>
        PROVE  Shaped' /\ requests' \in [Requests -> Request \cup {Idle}]
    BY <1>1 DEF Types, TypeOK, Shaped
  <1>2. CASE ExpireCode
    BY <1>1, <1>2, TypesStep DEF ExpireCode, sessionVars, Types, TypeOK, CodesIssued
  <1>3. CASE ExpireToken
    BY <1>1, <1>3, TypesStep DEF ExpireToken, codeVars, Types, TypeOK, CodesIssued
  <1>4. CASE PurgeCodes
    <2>1. /\ codes' \in [Codes -> CodeRows(Users) \cup {NoCode}]
          /\ \A c \in Codes : codes'[c] # NoCode => codes[c] # NoCode
      BY <1>4 DEF PurgeCodes, CodesPurged, Types, TypeOK
    <2>2. CodesIssued'
      BY <1>4, <2>1 DEF PurgeCodes, Types, CodesIssued
    <2> QED BY <1>1, <1>4, <2>1, <2>2, TypesStep DEF PurgeCodes, sessionVars, Types, TypeOK
  <1>5. CASE PurgeTokens
    <2>1. Shrunk(tokens')
      BY <1>5, TokenTables DEF PurgeTokens, Types
    <2> QED
      BY <1>1, <1>5, <2>1, TypesStep
      DEF PurgeTokens, codeVars, Types, TypeOK, CodesIssued, Shrunk
  <1>6. CASE \E s \in Requests : Abort(s)
    BY <1>6, EndTypes DEF Abort
  <1>7. CASE UNCHANGED vars
    BY <1>1, <1>7, TypesKept DEF vars, codeVars, sessionVars
  <1> QED BY <1>2, <1>3, <1>4, <1>5, <1>6, <1>7

LEMMA TypesInductive ==
    ASSUME Types, [Next]_vars
    PROVE  Types'
  <1>1. CASE \E s \in Requests : Arrive(s)
    BY <1>1, ArriveTypes
  <1>2. CASE \E s \in Requests : Proceed(s)
    BY <1>2, MailingTypes, AnswerTypes, SessionTypes DEF Proceed
  <1>3. CASE \/ ExpireCode \/ ExpireToken \/ PurgeCodes \/ PurgeTokens
             \/ \E s \in Requests : Abort(s)
             \/ UNCHANGED vars
    BY <1>3, BackgroundTypes
  <1> QED BY <1>1, <1>2, <1>3 DEF Next

LEMMA TypesInit == Init => Types
  <1> SUFFICES ASSUME Init PROVE Types
    OBVIOUS
  <1>1. NoAccount \in AccountRows
    BY DEF NoAccount, AccountRows
  <1>2. TypeOK
    BY <1>1, CodesAssumption, TokensAssumption DEF Init, TypeOK
  <1>3. Shaped
    BY IdleFields DEF Init, Shaped
  <1>4. CodesIssued
    BY DEF Init, CodesIssued
  <1> QED BY <1>2, <1>3, <1>4 DEF Types

-----------------------------------------------------------------------------
(***************************************************************************)
(* A session exists only for a verified account.                           *)
(***************************************************************************)
Sessions == {"close", "open", "revoke", "discard", "rotate", "renew"}

\* What a request found its account to be, whatever has happened since.
Settled(pc, row) ==
    /\ pc # "insert" => row.registered
    /\ pc \in Sessions => row.verified

VerifiedFirst ==
    \A s \in Requests : requests[s].pc # "idle" =>
        Settled(requests[s].pc, account[requests[s].user])

OnlyRegistered == \A u \in Users : account[u].verified => account[u].registered

VerifiedInv == SessionsVerified /\ VerifiedFirst /\ OnlyRegistered

\* No account goes back.
Advances ==
    \A u \in Users : /\ account[u].verified => account'[u].verified
                     /\ account[u].registered => account'[u].registered
                     /\ account'[u].verified => account'[u].registered

LEMMA VerifiedRows ==
    ASSUME Types, VerifiedInv, Advances, Shrunk(tokens')
    PROVE  SessionsVerified' /\ OnlyRegistered'
  <1>1. ASSUME NEW t \in Tokens, tokens'[t] # NoToken
        PROVE  account'[tokens'[t].user].verified
    <2>1. tokens[t] # NoToken /\ tokens'[t].user = tokens[t].user
      BY <1>1 DEF Shrunk
    <2>2. tokens[t].user \in Users
      BY <2>1 DEF Types, TypeOK, TokenRows
    <2> QED BY <2>1, <2>2 DEF VerifiedInv, SessionsVerified, Advances
  <1> QED BY <1>1 DEF SessionsVerified, Advances, OnlyRegistered

LEMMA SettledStays ==
    ASSUME Types, VerifiedInv, Advances, NEW t \in Requests, requests[t].pc # "idle"
    PROVE  Settled(requests[t].pc, account'[requests[t].user])
  <1>1. requests[t].user \in Users
    BY BusyFields DEF Types
  <1> QED BY <1>1 DEF VerifiedInv, VerifiedFirst, Settled, Advances

LEMMA VerifiedHop ==
    ASSUME Types, VerifiedInv, NEW s \in Requests, NEW op, NEW pc, NEW u, NEW code, NEW parent,
           NEW token, NEW family, Hops(s, op, pc, u, code, parent, token, family),
           Settled(pc, account'[u]), Advances, Shrunk(tokens')
    PROVE  VerifiedInv'
  <1>1. SessionsVerified' /\ OnlyRegistered'
    BY VerifiedRows
  <1>2. /\ requests'[s].pc = pc /\ requests'[s].user = u
        /\ \A t \in Requests : t # s => requests'[t] = requests[t]
    BY HopPlaces DEF Types
  <1>3. ASSUME NEW t \in Requests, requests'[t].pc # "idle"
        PROVE  Settled(requests'[t].pc, account'[requests'[t].user])
    <2>1. CASE t = s
      BY <1>2, <2>1
    <2>2. CASE t # s
      BY <1>2, <1>3, <2>2, SettledStays
    <2> QED BY <2>1, <2>2
  <1>4. VerifiedFirst'
    BY <1>3 DEF VerifiedFirst
  <1> QED BY <1>1, <1>4 DEF VerifiedInv

LEMMA VerifiedHopTo ==
    ASSUME Types, VerifiedInv, NEW s \in Requests, NEW pc, HopsTo(s, pc),
           Settled(pc, account'[requests[s].user]), Advances, Shrunk(tokens')
    PROVE  VerifiedInv'
  BY VerifiedHop DEF HopsTo

LEMMA VerifiedEnd ==
    ASSUME Types, VerifiedInv, NEW s \in Requests, Ends(s), Advances, Shrunk(tokens')
    PROVE  VerifiedInv'
  <1>1. SessionsVerified' /\ OnlyRegistered'
    BY VerifiedRows
  <1>2. /\ requests'[s].pc = "idle"
        /\ \A t \in Requests : t # s => requests'[t] = requests[t]
    BY EndPlaces DEF Types
  <1>3. ASSUME NEW t \in Requests, requests'[t].pc # "idle"
        PROVE  Settled(requests'[t].pc, account'[requests'[t].user])
    BY <1>2, <1>3, SettledStays
  <1>4. VerifiedFirst'
    BY <1>3 DEF VerifiedFirst
  <1> QED BY <1>1, <1>4 DEF VerifiedInv

\* Where neither accounts nor tokens change.
LEMMA VerifiedSame ==
    ASSUME Types, VerifiedInv, UNCHANGED <<account, tokens>>
    PROVE  Advances /\ Shrunk(tokens')
  BY TokenTables DEF Types, Advances, VerifiedInv, OnlyRegistered

LEMMA VerifiedArrive ==
    ASSUME Types, VerifiedInv, NEW s \in Requests, Arrive(s)
    PROVE  VerifiedInv'
  <1>1. ASSUME NEW u \in Users, Register(s, u)
        PROVE  VerifiedInv'
    <2>1. Hops(s, "register", "insert", u, 0, 0, 0, 0)
      BY <1>1, ArriveHops DEF Register, Ops, Purposes, Accesses
    <2>2. UNCHANGED <<account, tokens>> /\ Settled("insert", account'[u])
      BY <1>1 DEF Register, sessionVars, Settled, Sessions
    <2> QED BY <2>1, <2>2, VerifiedSame, VerifiedHop
  <1>2. ASSUME NEW u \in Users, Resend(s, u) \/ Login(s, u) \/ Forgot(s, u)
        PROVE  VerifiedInv'
    <2>1. PICK op \in {"resend", "login", "forgot"}, p \in Purposes :
             IssuesCode(s, Arrived(op, u, p, "supersede"))
      BY <1>2 DEF Resend, Login, Forgot, Purposes
    <2> DEFINE r == Arrived(op, u, p, "supersede")
    <2>2. r \in Request /\ r.user = u
      BY ArrivedFields DEF Ops, Accesses
    <2> HIDE DEF r
    <2>3. Hops(s, r.op, "supersede", u, issuedCodes', r.parent, r.token, r.family)
      BY <2>1, <2>2, IssueHops DEF r, Types
    <2>4. UNCHANGED <<account, tokens>>
      BY <2>1 DEF IssuesCode, sessionVars
    <2>5. Settled("supersede", account'[u])
      BY <1>2, <2>4
      DEF Resend, Login, Forgot, Unverified, PasswordAccepted, AccountFound, Settled, Sessions
    <2> QED BY <2>3, <2>4, <2>5, VerifiedSame, VerifiedHop
  <1>3. ASSUME NEW u \in Users, NEW guess \in Codes \cup {0}, NEW op \in Purposes,
               Confirm(s, u, op, guess)
        PROVE  VerifiedInv'
    <2>1. PICK c \in Codes, pc \in {"consume", "compare"} : Hops(s, op, pc, u, c, 0, 0, 0)
      BY <1>3, ConfirmHops DEF Types
    <2>2. UNCHANGED <<account, tokens>> /\ Settled(pc, account'[u])
      BY <1>3 DEF Confirm, sessionVars, AccountFound, Settled, Sessions
    <2> QED BY <2>1, <2>2, VerifiedSame, VerifiedHop
  <1>4. ASSUME NEW t \in Tokens, Refresh(s, t) \/ Logout(s, t)
        PROVE  VerifiedInv'
    <2>1. PICK op \in {"refresh", "logout"}, pc \in {"revoke", "discard", "rotate"} :
             Present(s, op, t, pc)
      BY <1>4 DEF Refresh, Logout, Rotation
    <2>2. pc \in Accesses
      BY DEF Accesses
    <2>3. /\ Hops(s, op, pc, tokens[t].user, 0, t, 0, tokens[t].family)
          /\ tokens[t] # NoToken /\ tokens[t].user \in Users
      BY <2>1, <2>2, PresentHops DEF Types, TokenRows
    <2>4. UNCHANGED <<account, tokens>>
      BY <2>1 DEF Present, sessionVars
    <2>5. Settled(pc, account'[tokens[t].user])
      BY <2>3, <2>4 DEF VerifiedInv, SessionsVerified, OnlyRegistered, Settled
    <2> QED BY <2>3, <2>4, <2>5, VerifiedSame, VerifiedHop
  <1> QED
    BY <1>1, <1>2, <1>3, <1>4 DEF Arrive, VerifyEmail, ResetPassword, Purposes

LEMMA VerifiedMailing ==
    ASSUME Types, VerifiedInv, NEW s \in Requests,
           InsertAccount(s) \/ RegistrationCode(s) \/ SupersedeCodes(s) \/ CommitCode(s)
              \/ SendCode(s)
    PROVE  VerifiedInv'
  <1> DEFINE u == requests[s].user
  <1>0. requests[s].pc # "idle"
    BY DEF InsertAccount, RegistrationCode, SupersedeCodes, CommitCode, SendCode, At
  <1>1. u \in Users /\ requests[s] \in Request
    BY <1>0, BusyFields DEF Types
  <1>2. CASE InsertAccount(s)
    <2>1. UNCHANGED tokens
      BY <1>2 DEF InsertAccount, sessionVars
    <2>2. CASE Ends(s) /\ UNCHANGED account
      BY <2>1, <2>2, VerifiedSame, VerifiedEnd
    <2>3. CASE /\ account' = [account EXCEPT ![u] = NewAccount]
               /\ Goes(s, "lookup") /\ ~ account[u].registered
      <3>1. HopsTo(s, "lookup") /\ Shrunk(tokens')
        BY <1>0, <2>1, <2>3, GoHops, TokenTables DEF Types, Accesses
      <3>2. Advances
        BY <1>1, <2>3 DEF Advances, Types, TypeOK, VerifiedInv, OnlyRegistered, NewAccount
      <3>3. Settled("lookup", account'[u])
        BY <1>1, <2>3 DEF Types, TypeOK, NewAccount, Settled, Sessions
      <3> QED BY <3>1, <3>2, <3>3, VerifiedHopTo
    <2> QED BY <1>2, <2>2, <2>3 DEF InsertAccount, AddressFree
  <1>3. CASE RegistrationCode(s)
    <2>1. CASE IssuesCode(s, requests[s]) /\ Unverified(u)
      <3>1. Hops(s, requests[s].op, "supersede", u, issuedCodes', requests[s].parent,
                 requests[s].token, requests[s].family)
        BY <1>1, <2>1, IssueHops DEF Types
      <3>2. UNCHANGED <<account, tokens>> /\ Settled("supersede", account'[u])
        BY <2>1 DEF IssuesCode, sessionVars, Unverified, Settled, Sessions
      <3> QED BY <3>1, <3>2, VerifiedSame, VerifiedHop
    <2>2. CASE Ends(s) /\ UNCHANGED <<account, codeVars, sessionVars>>
      BY <2>2, VerifiedSame, VerifiedEnd DEF sessionVars
    <2> QED BY <1>3, <2>1, <2>2 DEF RegistrationCode
  <1>4. ASSUME NEW pc \in {"commit", "send"}, HopsTo(s, pc), UNCHANGED <<account, tokens>>,
               requests[s].pc \in {"supersede", "commit"}
        PROVE  VerifiedInv'
    <2>1. Settled(pc, account'[u])
      BY <1>0, <1>4 DEF VerifiedInv, VerifiedFirst, Settled, Sessions
    <2> QED BY <1>4, <2>1, VerifiedSame, VerifiedHopTo
  <1>5. CASE SupersedeCodes(s)
    BY <1>4, <1>5, SupersedeHops DEF SupersedeCodes, At, sessionVars, Types
  <1>6. CASE CommitCode(s)
    BY <1>4, <1>6, CommitHops DEF CommitCode, At, sessionVars, Types
  <1>7. CASE SendCode(s)
    BY <1>7, VerifiedSame, VerifiedEnd DEF SendCode, sessionVars
  <1> QED BY <1>2, <1>3, <1>5, <1>6, <1>7

LEMMA VerifiedAnswer ==
    ASSUME Types, VerifiedInv, NEW s \in Requests,
           CompareStale(s) \/ RecordAttempt(s) \/ ConsumeCode(s) \/ ChangePassword(s)
    PROVE  VerifiedInv'
  <1> DEFINE u == requests[s].user
             c == requests[s].code
  <1>0. requests[s].pc # "idle" /\ requests[s].pc # "insert"
    BY DEF CompareStale, RecordAttempt, ConsumeCode, ChangePassword, At
  <1>1. u \in Users /\ account[u] \in AccountRows /\ account[u].registered
    BY <1>0, BusyFields DEF Types, TypeOK, VerifiedInv, VerifiedFirst, Settled
  <1>2. ASSUME NEW pc \in {"attempt", "password", "verified"}, HopsTo(s, pc),
               UNCHANGED <<account, tokens>>
        PROVE  VerifiedInv'
    <2>1. Settled(pc, account'[u])
      BY <1>1, <1>2 DEF Settled, Sessions
    <2> QED BY <1>2, <2>1, VerifiedSame, VerifiedHopTo
  <1>3. CASE CompareStale(s)
    <2>1. UNCHANGED <<account, tokens>> /\ (Ends(s) \/ HopsTo(s, "attempt"))
      BY <1>3, CompareHops DEF CompareStale, sessionVars, Types
    <2> QED BY <1>2, <2>1, VerifiedSame, VerifiedEnd
  <1>4. CASE RecordAttempt(s)
    BY <1>4, VerifiedSame, VerifiedEnd DEF RecordAttempt, sessionVars
  <1>5. CASE ConsumeCode(s)
    <2>1. UNCHANGED <<account, tokens>>
      BY <1>5 DEF ConsumeCode, sessionVars
    <2> QED BY <1>2, <1>5, <2>1, ConsumeHops DEF Types
  <1>6. CASE ChangePassword(s)
    <2>1. /\ account' = [account EXCEPT ![u].password = c] /\ Goes(s, "verified")
          /\ UNCHANGED tokens
      BY <1>6 DEF ChangePassword, sessionVars
    <2>2. HopsTo(s, "verified") /\ Shrunk(tokens')
      BY <1>0, <2>1, GoHops, TokenTables DEF Types, Accesses
    <2>3. \A v \in Users : /\ account'[v].verified = account[v].verified
                           /\ account'[v].registered = account[v].registered
      BY <1>1, <2>1 DEF Types, TypeOK, AccountRows
    <2>4. Advances /\ Settled("verified", account'[u])
      BY <1>1, <2>3 DEF Advances, Settled, Sessions, VerifiedInv, OnlyRegistered
    <2> QED BY <2>2, <2>4, VerifiedHopTo
  <1> QED BY <1>3, <1>4, <1>5, <1>6

LEMMA VerifiedSessions ==
    ASSUME Types, VerifiedInv, NEW s \in Requests,
           MarkVerified(s) \/ CloseSessions(s) \/ OpenSession(s) \/ RevokeFamily(s)
              \/ DiscardToken(s) \/ RotateToken(s) \/ RenewSession(s)
    PROVE  VerifiedInv'
  <1> DEFINE u == requests[s].user
  <1>0. requests[s].pc # "idle" /\ requests[s].pc # "insert"
    BY DEF MarkVerified, CloseSessions, OpenSession, RevokeFamily, DiscardToken, RotateToken,
           RenewSession, At
  <1>1. /\ u \in Users /\ requests[s] \in Request /\ account[u] \in AccountRows
        /\ account[u].registered
        /\ requests[s].pc \in Sessions => account[u].verified
        /\ requests[s].family \in Tokens \cup {0}
    BY <1>0, BusyFields DEF Types, TypeOK, VerifiedInv, VerifiedFirst, Settled
  <1>2. CASE MarkVerified(s)
    <2>1. account' = [account EXCEPT ![u].verified = TRUE] /\ UNCHANGED tokens
      <3> DEFINE r == [requests[s] EXCEPT !.code = 0]
      <3>1. r.user = u
        BY <1>1 DEF Request
      <3>2. account' = [account EXCEPT ![r.user].verified = TRUE]
        BY <1>2 DEF MarkVerified
      <3> HIDE DEF r
      <3> QED BY <1>2, <3>1, <3>2 DEF MarkVerified
    <2>2. /\ account'[u].verified /\ account'[u].registered
          /\ \A v \in Users \ {u} : account'[v] = account[v]
      BY <1>1, <2>1 DEF Types, TypeOK, AccountRows
    <2>3. Advances /\ Shrunk(tokens')
      BY <1>1, <2>1, <2>2, TokenTables DEF Advances, Types, VerifiedInv, OnlyRegistered
    <2>4. Settled("close", account'[u]) /\ Settled("open", account'[u])
      BY <2>2 DEF Settled
    <2> QED BY <1>2, <2>3, <2>4, MarkVerifiedHops, VerifiedHop DEF Types
  <1>3. ASSUME NEW f \in Tokens \cup {0}, NEW pc \in {"open", "renew"},
               IssuesToken(s, requests[s], f, pc), Shrunk(tokens'), UNCHANGED account,
               requests[s].pc \in Sessions
        PROVE  VerifiedInv'
    <2> DEFINE g == IF f = 0 THEN issuedTokens' ELSE f
    <2>1. Hops(s, requests[s].op, pc, u, requests[s].code, requests[s].parent,
               issuedTokens', g)
      BY <1>1, <1>3, TokenHops DEF Types, Accesses
    <2> HIDE DEF g
    <2>2. Settled(pc, account'[u]) /\ Advances
      BY <1>1, <1>3 DEF Settled, Advances, VerifiedInv, OnlyRegistered
    <2> QED BY <1>3, <2>1, <2>2, VerifiedHop
  <1>4. CASE CloseSessions(s)
    <2>1. 0 \in Tokens \cup {0} /\ Shrunk(tokens')
      BY <1>4, TokenTables DEF CloseSessions, Types
    <2> QED BY <1>3, <1>4, <2>1 DEF CloseSessions, At, Sessions
  <1>5. CASE RotateToken(s)
    <2>1. requests[s].parent \in Tokens
      BY <1>0, <1>5 DEF RotateToken, At, Types, Shaped, Holds
    <2>2. Shrunk(tokens')
      BY <1>5, <2>1, TokenTables DEF RotateToken, Types
    <2> QED BY <1>1, <1>3, <1>5, <2>2 DEF RotateToken, At, Sessions
  <1>6. CASE OpenSession(s) \/ RenewSession(s)
    <2> DEFINE t == requests[s].token
               f == requests[s].family
    <2>1. InsertToken(s) /\ requests[s].pc \in {"open", "renew"}
      BY <1>6 DEF OpenSession, RenewSession, At
    <2>2. t \in Tokens /\ account[u].verified
      BY <1>0, <1>1, <2>1, Ranges DEF Types, Shaped, Holds, Sessions
    <2>3. /\ Ends(s) /\ tokens' = [tokens EXCEPT ![t] = NewToken(u, f)] /\ UNCHANGED account
      BY <2>1 DEF InsertToken
    <2>4. tokens'[t].user = u /\ \A d \in Tokens \ {t} : tokens'[d] = tokens[d]
      BY <2>2, <2>3 DEF Types, TypeOK, NewToken
    <2>5. SessionsVerified'
      BY <2>2, <2>3, <2>4 DEF VerifiedInv, SessionsVerified
    <2>6. /\ requests'[s].pc = "idle"
          /\ \A q \in Requests : q # s => requests'[q] = requests[q]
      BY <2>3, EndPlaces DEF Types
    <2>7. VerifiedFirst'
      BY <2>3, <2>6 DEF VerifiedInv, VerifiedFirst
    <2> QED BY <2>3, <2>5, <2>7 DEF VerifiedInv, OnlyRegistered
  <1>7. CASE RevokeFamily(s) \/ DiscardToken(s)
    <2>1. Ends(s) /\ UNCHANGED account
      BY <1>7 DEF RevokeFamily, DiscardToken
    <2>2. Shrunk(tokens')
      <3>1. requests[s].pc = "discard" => requests[s].parent \in Tokens
        BY <1>0 DEF Types, Shaped, Holds
      <3> QED BY <1>7, <3>1, TokenTables DEF RevokeFamily, DiscardToken, At, Types
    <2>3. Advances
      BY <2>1 DEF Advances, VerifiedInv, OnlyRegistered
    <2> QED BY <2>1, <2>2, <2>3, VerifiedEnd
  <1> QED BY <1>2, <1>4, <1>5, <1>6, <1>7

LEMMA VerifiedBackground ==
    ASSUME Types, VerifiedInv,
           \/ ExpireCode \/ ExpireToken \/ PurgeCodes \/ PurgeTokens
           \/ \E s \in Requests : Abort(s)
           \/ UNCHANGED vars
    PROVE  VerifiedInv'
  <1>1. Shrunk(tokens') /\ UNCHANGED account
    BY TokenTables
    DEF ExpireCode, ExpireToken, PurgeCodes, PurgeTokens, Abort, vars, sessionVars, Types
  <1>2. Advances
    BY <1>1 DEF Advances, VerifiedInv, OnlyRegistered
  <1>3. CASE \E s \in Requests : Abort(s)
    BY <1>1, <1>2, <1>3, VerifiedEnd DEF Abort
  <1>4. CASE UNCHANGED requests
    <2>1. VerifiedFirst'
      BY <1>1, <1>4 DEF VerifiedInv, VerifiedFirst
    <2> QED BY <1>1, <1>2, <2>1, VerifiedRows DEF VerifiedInv
  <1> QED
    BY <1>3, <1>4 DEF ExpireCode, ExpireToken, PurgeCodes, PurgeTokens, vars

LEMMA VerifiedInductive ==
    ASSUME Types, VerifiedInv, [Next]_vars
    PROVE  VerifiedInv'
  <1>1. CASE \E s \in Requests : Arrive(s)
    BY <1>1, VerifiedArrive
  <1>2. CASE \E s \in Requests : Proceed(s)
    BY <1>2, VerifiedMailing, VerifiedAnswer, VerifiedSessions DEF Proceed
  <1>3. CASE \/ ExpireCode \/ ExpireToken \/ PurgeCodes \/ PurgeTokens
             \/ \E s \in Requests : Abort(s)
             \/ UNCHANGED vars
    BY <1>3, VerifiedBackground
  <1> QED BY <1>1, <1>2, <1>3 DEF Next

LEMMA VerifiedInit == Init => VerifiedInv
  BY IdleFields
  DEF Init, VerifiedInv, SessionsVerified, VerifiedFirst, OnlyRegistered, NoAccount

-----------------------------------------------------------------------------
(***************************************************************************)
(* A mailed code is stored, and only a reset code sets a password.         *)
(***************************************************************************)
Holding == {"supersede", "commit", "send", "compare", "attempt", "consume", "password",
            "verified"}

Pending == {"supersede", "commit"}

\* The row of a reset code of u, if it is still there.
ResetRow(row, u) == row # NoCode => row.user = u /\ row.purpose = "reset"

\* What a request relies on about the code it has in hand: the one it is about
\* to store is known to nobody, the one it is about to mail is stored, and the
\* one that sets a password is a reset code of the account.
Fits(pc, op, u, code, table, accounts, late) ==
    /\ pc \in Pending => /\ table[code] = NoCode
                         /\ \A v \in Users : accounts[v].password # code
    /\ (pc = "send" /\ code > late) => table[code] # NoCode
    /\ (pc = "consume" /\ op = "reset") => ResetRow(table[code], u)
    /\ pc = "password" => /\ ResetRow(table[code], u)
                          /\ table[code] # NoCode => table[code].consumed

AllFit ==
    \A s \in Requests : requests[s].pc # "idle" =>
        Fits(requests[s].pc, requests[s].op, requests[s].user, requests[s].code, codes,
             account, lateCodes)

\* Nobody else has a code in hand that is not stored yet.
Apart ==
    \A s, t \in Requests :
        (s # t /\ requests[s].pc \in Pending /\ requests[t].pc \in Holding)
            => requests[s].code # requests[t].code

PasswordsIssued == \A u \in Users : account[u].password \in 0..issuedCodes

CodesInv == AllFit /\ Apart /\ PasswordsIssued /\ PasswordsByResetCode /\ MailedIsStored

\* But for x, a row is what it was or was purged when it expired.
AgesBut(x) ==
    /\ lateCodes' \in Nat /\ lateCodes <= lateCodes'
    /\ \A d \in Codes \ {x} :
          /\ (codes[d] # NoCode /\ d > lateCodes') => codes'[d] # NoCode
          /\ codes'[d] # NoCode => /\ codes[d] # NoCode
                                   /\ codes'[d].user = codes[d].user
                                   /\ codes'[d].purpose = codes[d].purpose
                                   /\ codes[d].consumed => codes'[d].consumed

\* A step stores x, which set no password; 0 is no code.
Unknown(x) ==
    /\ x \in Codes \cup {0}
    /\ x \in Codes => codes'[x] # NoCode /\ \A u \in Users : account[u].password # x

\* Nobody but s has x in hand.
Unheld(s, x) ==
    \A t \in Requests \ {s} : requests[t].pc \in Holding => requests[t].code # x

PasswordsKept ==
    /\ issuedCodes' \in Nat /\ issuedCodes <= issuedCodes'
    /\ \A u \in Users : account'[u].password \in {account[u].password, 0}

MailedKept ==
    \A c \in mailed' : c \in mailed \/ (c > lateCodes' => codes'[c] # NoCode)

LEMMA HeldCode ==
    ASSUME Types, NEW t \in Requests, requests[t].pc \in Holding
    PROVE  /\ requests[t].code \in Codes /\ requests[t].code \in 1..issuedCodes
           /\ requests[t].code \in Nat \ {0} /\ requests[t].pc # "idle"
  <1>1. requests[t].pc # "idle"
    BY DEF Holding
  <1>2. requests[t].code \in 1..issuedCodes
    BY <1>1 DEF Types, Shaped, Holds, Holding
  <1> QED BY <1>1, <1>2, Ranges, CodesAssumption DEF Types, Codes

LEMMA NoneUnknown ==
    ASSUME Types, NEW s \in Requests
    PROVE  Unknown(0) /\ Unheld(s, 0)
  BY HeldCode, CodesAssumption DEF Unknown, Unheld, Codes

LEMMA TablesKept ==
    ASSUME Types, CodesInv, NEW x, AgesBut(x), Unknown(x), PasswordsKept, MailedKept
    PROVE  PasswordsIssued' /\ PasswordsByResetCode' /\ MailedIsStored'
  <1>0. lateCodes \in Nat /\ issuedCodes \in Nat /\ mailed \subseteq Codes
    BY Ranges DEF Types, TypeOK
  <1>1. PasswordsIssued'
    BY <1>0 DEF CodesInv, PasswordsIssued, PasswordsKept
  <1>2. PasswordsByResetCode'
    <2> SUFFICES ASSUME NEW u \in Users, NEW c \in Codes, account'[u].password = c,
                        codes'[c] # NoCode
                 PROVE  codes'[c].user = u /\ codes'[c].purpose = "reset" /\ codes'[c].consumed
      BY DEF PasswordsByResetCode
    <2>1. account[u].password = c /\ c # x
      BY CodesAssumption DEF PasswordsKept, Unknown, Codes
    <2> QED BY <2>1 DEF AgesBut, CodesInv, PasswordsByResetCode
  <1>3. ASSUME NEW c \in mailed', c > lateCodes'
        PROVE  codes'[c] # NoCode
    <2>1. CASE c \in mailed
      <3>1. c \in Codes /\ c \in Nat
        BY <1>0, <2>1, CodesAssumption DEF Codes
      <3>2. c > lateCodes
        BY <1>0, <1>3, <3>1 DEF AgesBut
      <3>3. codes[c] # NoCode
        BY <2>1, <3>2 DEF CodesInv, MailedIsStored
      <3> QED BY <1>3, <3>1, <3>3 DEF AgesBut, Unknown
    <2>2. CASE c \notin mailed
      BY <1>3, <2>2 DEF MailedKept
    <2> QED BY <2>1, <2>2
  <1> QED BY <1>1, <1>2, <1>3 DEF MailedIsStored

LEMMA FitStays ==
    ASSUME Types, CodesInv, NEW x, AgesBut(x), PasswordsKept,
           NEW t \in Requests, requests[t].pc # "idle",
           requests[t].pc \in Holding => requests[t].code # x
    PROVE  Fits(requests[t].pc, requests[t].op, requests[t].user, requests[t].code, codes',
                account', lateCodes')
  <1> DEFINE c == requests[t].code
             u == requests[t].user
  <1>0. lateCodes \in Nat /\ lateCodes' \in Nat /\ lateCodes <= lateCodes'
    BY DEF Types, TypeOK, AgesBut
  <1>1. Fits(requests[t].pc, requests[t].op, u, c, codes, account, lateCodes)
    BY DEF CodesInv, AllFit
  <1>2. CASE requests[t].pc \notin Holding
    BY <1>2 DEF Fits, Holding, Pending
  <1>3. CASE requests[t].pc \in Holding
    <2>1. c \in Codes /\ c \in Nat \ {0} /\ c # x
      BY <1>3, HeldCode
    <2>2. /\ (codes[c] # NoCode /\ c > lateCodes') => codes'[c] # NoCode
          /\ codes'[c] # NoCode => /\ codes[c] # NoCode
                                   /\ codes'[c].user = codes[c].user
                                   /\ codes'[c].purpose = codes[c].purpose
                                   /\ codes[c].consumed => codes'[c].consumed
      BY <2>1 DEF AgesBut
    <2>3. (\A v \in Users : account[v].password # c) => \A v \in Users : account'[v].password # c
      BY <2>1 DEF PasswordsKept
    <2>4. c > lateCodes' => c > lateCodes
      BY <1>0, <2>1
    <2> HIDE DEF c, u
    <2>5. requests[t].pc \in Pending => codes'[c] = NoCode
                                        /\ \A v \in Users : account'[v].password # c
      BY <1>1, <2>2, <2>3 DEF Fits
    <2>6. requests[t].pc = "send" /\ c > lateCodes' => codes'[c] # NoCode
      BY <1>1, <2>2, <2>4 DEF Fits
    <2>7. requests[t].pc = "consume" /\ requests[t].op = "reset" => ResetRow(codes'[c], u)
      BY <1>1, <2>2 DEF Fits, ResetRow
    <2>8. requests[t].pc = "password" => ResetRow(codes'[c], u)
      BY <1>1, <2>2 DEF Fits, ResetRow
    <2>9. requests[t].pc = "password" => (codes'[c] # NoCode => codes'[c].consumed)
      BY <1>1, <2>2, Zenon DEF Fits
    <2>10. Fits(requests[t].pc, requests[t].op, u, c, codes', account', lateCodes')
      BY <2>5, <2>6, <2>7, <2>8, <2>9 DEF Fits
    <2> QED BY <2>10 DEF c, u
  <1> QED BY <1>2, <1>3

LEMMA CodesHop ==
    ASSUME Types, CodesInv, NEW s \in Requests, NEW op, NEW pc, NEW u, NEW code, NEW parent,
           NEW token, NEW family, Hops(s, op, pc, u, code, parent, token, family),
           NEW x, AgesBut(x), Unknown(x), Unheld(s, x), PasswordsKept, MailedKept,
           Fits(pc, op, u, code, codes', account', lateCodes'),
           \A t \in Requests \ {s} :
              /\ (pc \in Pending /\ requests[t].pc \in Holding) => code # requests[t].code
              /\ (pc \in Holding /\ requests[t].pc \in Pending) => code # requests[t].code
    PROVE  CodesInv'
  <1>1. /\ requests'[s].pc = pc /\ requests'[s].op = op /\ requests'[s].user = u
        /\ requests'[s].code = code
        /\ \A t \in Requests : t # s => requests'[t] = requests[t]
    BY HopPlaces DEF Types
  <1>2. PasswordsIssued' /\ PasswordsByResetCode' /\ MailedIsStored'
    BY TablesKept
  <1>3. ASSUME NEW t \in Requests, requests'[t].pc # "idle"
        PROVE  Fits(requests'[t].pc, requests'[t].op, requests'[t].user, requests'[t].code,
                    codes', account', lateCodes')
    <2>1. CASE t = s
      BY <1>1, <2>1
    <2>2. CASE t # s
      BY <1>1, <1>3, <2>2, FitStays DEF Unheld
    <2> QED BY <2>1, <2>2
  <1>4. AllFit'
    BY <1>3 DEF AllFit
  <1>5. Apart'
    <2> SUFFICES ASSUME NEW q \in Requests, NEW t \in Requests, q # t,
                        requests'[q].pc \in Pending, requests'[t].pc \in Holding
                 PROVE  requests'[q].code # requests'[t].code
      BY DEF Apart
    <2>1. CASE q = s
      BY <1>1, <2>1
    <2>2. CASE t = s
      BY <1>1, <2>2
    <2>3. CASE q # s /\ t # s
      BY <1>1, <2>3 DEF CodesInv, Apart
    <2> QED BY <2>1, <2>2, <2>3
  <1> QED BY <1>2, <1>4, <1>5 DEF CodesInv

LEMMA CodesEnd ==
    ASSUME Types, CodesInv, NEW s \in Requests, Ends(s), AgesBut(0), PasswordsKept, MailedKept
    PROVE  CodesInv'
  <1>0. Unknown(0) /\ Unheld(s, 0)
    BY NoneUnknown
  <1>1. /\ requests'[s].pc = "idle"
        /\ \A t \in Requests : t # s => requests'[t] = requests[t]
    BY EndPlaces DEF Types
  <1>2. PasswordsIssued' /\ PasswordsByResetCode' /\ MailedIsStored'
    BY <1>0, TablesKept
  <1>3. ASSUME NEW t \in Requests, requests'[t].pc # "idle"
        PROVE  Fits(requests'[t].pc, requests'[t].op, requests'[t].user, requests'[t].code,
                    codes', account', lateCodes')
    BY <1>0, <1>1, <1>3, FitStays DEF Unheld
  <1>4. AllFit'
    BY <1>3 DEF AllFit
  <1>5. Apart'
    BY <1>1 DEF CodesInv, Apart, Pending, Holding
  <1> QED BY <1>2, <1>4, <1>5 DEF CodesInv

\* A request that goes on to an access that makes no use of its code.
LEMMA CodesPass ==
    ASSUME Types, CodesInv, NEW s \in Requests, NEW op, NEW pc, NEW u, NEW code, NEW parent,
           NEW token, NEW family, Hops(s, op, pc, u, code, parent, token, family),
           AgesBut(0), PasswordsKept, MailedKept,
           \/ pc \notin Holding
           \/ pc \in {"attempt", "verified"} /\ requests[s].pc \in Holding
                 /\ code = requests[s].code
    PROVE  CodesInv'
  <1>1. Unknown(0) /\ Unheld(s, 0)
    BY NoneUnknown
  <1>2. Fits(pc, op, u, code, codes', account', lateCodes')
    BY DEF Fits, Pending, Holding
  <1>3. \A t \in Requests \ {s} :
           /\ (pc \in Pending /\ requests[t].pc \in Holding) => code # requests[t].code
           /\ (pc \in Holding /\ requests[t].pc \in Pending) => code # requests[t].code
    BY DEF CodesInv, Apart, Pending, Holding
  <1> QED BY <1>1, <1>2, <1>3, CodesHop

LEMMA CodesSame ==
    ASSUME Types, UNCHANGED <<account, codes, issuedCodes, lateCodes, mailed>>
    PROVE  AgesBut(0) /\ PasswordsKept /\ MailedKept
  <1>1. lateCodes \in Nat /\ issuedCodes \in Nat
    BY DEF Types, TypeOK
  <1> QED BY <1>1 DEF AgesBut, PasswordsKept, MailedKept

LEMMA CodesIssue ==
    ASSUME Types, CodesInv, NEW s \in Requests, NEW r \in Request, IssuesCode(s, r)
    PROVE  CodesInv'
  <1>1. /\ Hops(s, r.op, "supersede", r.user, issuedCodes', r.parent, r.token, r.family)
        /\ issuedCodes' \in Codes /\ issuedCodes' = issuedCodes + 1
    BY IssueHops DEF Types
  <1>2. /\ UNCHANGED <<account, codes, lateCodes, mailed>>
        /\ issuedCodes \in Nat /\ lateCodes \in Nat
    BY Ranges DEF IssuesCode, Types, TypeOK
  <1>3. AgesBut(0) /\ PasswordsKept /\ MailedKept
    BY <1>1, <1>2 DEF AgesBut, PasswordsKept, MailedKept
  <1>4. Unknown(0) /\ Unheld(s, 0)
    BY NoneUnknown
  <1>5. codes'[issuedCodes'] = NoCode
    BY <1>1, <1>2 DEF Types, CodesIssued
  <1>6. \A v \in Users : account'[v].password # issuedCodes'
    BY <1>1, <1>2 DEF CodesInv, PasswordsIssued
  <1>7. Fits("supersede", r.op, r.user, issuedCodes', codes', account', lateCodes')
    BY <1>5, <1>6 DEF Fits, Pending
  <1>8. \A t \in Requests : requests[t].pc \in Holding => issuedCodes' # requests[t].code
    BY <1>1, <1>2, HeldCode
  <1>9. \A t \in Requests \ {s} :
           /\ ("supersede" \in Pending /\ requests[t].pc \in Holding)
                 => issuedCodes' # requests[t].code
           /\ ("supersede" \in Holding /\ requests[t].pc \in Pending)
                 => issuedCodes' # requests[t].code
    BY <1>8 DEF Pending, Holding
  <1> QED BY <1>1, <1>3, <1>4, <1>7, <1>9, CodesHop

LEMMA CodesArrive ==
    ASSUME Types, CodesInv, NEW s \in Requests, Arrive(s)
    PROVE  CodesInv'
  <1>1. ASSUME NEW u \in Users, Register(s, u)
        PROVE  CodesInv'
    <2>1. Hops(s, "register", "insert", u, 0, 0, 0, 0)
      BY <1>1, ArriveHops DEF Register, Ops, Purposes, Accesses
    <2>2. AgesBut(0) /\ PasswordsKept /\ MailedKept
      BY <1>1, CodesSame DEF Register, codeVars
    <2> QED BY <2>1, <2>2, CodesPass DEF Holding
  <1>2. ASSUME NEW u \in Users, Resend(s, u) \/ Login(s, u) \/ Forgot(s, u)
        PROVE  CodesInv'
    <2>1. PICK op \in {"resend", "login", "forgot"}, p \in Purposes :
             IssuesCode(s, Arrived(op, u, p, "supersede"))
      BY <1>2 DEF Resend, Login, Forgot, Purposes
    <2>2. Arrived(op, u, p, "supersede") \in Request
      BY ArrivedFields DEF Ops, Accesses
    <2> QED BY <2>1, <2>2, CodesIssue
  <1>3. ASSUME NEW u \in Users, NEW guess \in Codes \cup {0}, NEW op \in Purposes,
               Confirm(s, u, op, guess)
        PROVE  CodesInv'
    <2>1. PICK c \in Codes, pc \in {"consume", "compare"} :
             Answerable(u, op, c) /\ Hops(s, op, pc, u, c, 0, 0, 0)
      BY <1>3, ConfirmHops DEF Types
    <2>2. UNCHANGED <<account, codes, issuedCodes, lateCodes, mailed>>
      BY <1>3 DEF Confirm, codeVars
    <2>3. AgesBut(0) /\ PasswordsKept /\ MailedKept
      BY <2>2, CodesSame
    <2>4. codes[c] # NoCode /\ codes[c].user = u /\ codes[c].purpose = op
      BY <2>1, UsersAssumption DEF Answerable, IsActive, Outstanding, NoCode
    <2>5. Fits(pc, op, u, c, codes', account', lateCodes')
      BY <2>2, <2>4 DEF Fits, Pending, ResetRow
    <2>6. ASSUME NEW t \in Requests, requests[t].pc \in Pending
          PROVE  c # requests[t].code
      <3>1. codes[requests[t].code] = NoCode
        BY <2>6 DEF CodesInv, AllFit, Fits, Pending
      <3> QED BY <2>4, <3>1
    <2>7. Unknown(0) /\ Unheld(s, 0) /\ pc \notin Pending
      BY NoneUnknown DEF Pending
    <2> QED BY <2>1, <2>3, <2>5, <2>6, <2>7, CodesHop
  <1>4. ASSUME NEW t \in Tokens, Refresh(s, t) \/ Logout(s, t)
        PROVE  CodesInv'
    <2>1. PICK op \in {"refresh", "logout"}, pc \in {"revoke", "discard", "rotate"} :
             Present(s, op, t, pc)
      BY <1>4 DEF Refresh, Logout, Rotation
    <2>2. pc \in Accesses /\ pc \notin Holding
      BY DEF Accesses, Holding
    <2>3. Hops(s, op, pc, tokens[t].user, 0, t, 0, tokens[t].family)
      BY <2>1, <2>2, PresentHops DEF Types
    <2>4. AgesBut(0) /\ PasswordsKept /\ MailedKept
      BY <2>1, CodesSame DEF Present, codeVars
    <2> QED BY <2>2, <2>3, <2>4, CodesPass
  <1> QED
    BY <1>1, <1>2, <1>3, <1>4 DEF Arrive, VerifyEmail, ResetPassword, Purposes

LEMMA CodesMailing ==
    ASSUME Types, CodesInv, NEW s \in Requests,
           InsertAccount(s) \/ RegistrationCode(s) \/ SupersedeCodes(s) \/ CommitCode(s)
              \/ SendCode(s)
    PROVE  CodesInv'
  <1> DEFINE u == requests[s].user
             c == requests[s].code
  <1>0. requests[s].pc # "idle"
    BY DEF InsertAccount, RegistrationCode, SupersedeCodes, CommitCode, SendCode, At
  <1>1. u \in Users /\ requests[s] \in Request /\ requests[s].purpose \in Purposes
    BY <1>0, BusyFields DEF Types
  <1>2. lateCodes \in Nat /\ issuedCodes \in Nat
    BY DEF Types, TypeOK
  <1>3. CASE InsertAccount(s)
    <2>1. UNCHANGED codeVars
      BY <1>3 DEF InsertAccount
    <2>2. CASE Ends(s) /\ UNCHANGED account
      BY <2>1, <2>2, CodesSame, CodesEnd DEF codeVars
    <2>3. CASE account' = [account EXCEPT ![u] = NewAccount] /\ Goes(s, "lookup")
      <3>1. HopsTo(s, "lookup")
        BY <1>0, <2>3, GoHops DEF Types, Accesses
      <3>2. \A v \in Users : account'[v].password \in {account[v].password, 0}
        BY <1>1, <2>3 DEF Types, TypeOK, NewAccount
      <3>3. AgesBut(0) /\ PasswordsKept /\ MailedKept
        BY <1>2, <2>1, <3>2 DEF AgesBut, PasswordsKept, MailedKept, codeVars
      <3>4. "lookup" \notin Holding
        BY DEF Holding
      <3> QED BY <3>1, <3>3, <3>4, CodesPass DEF HopsTo
    <2> QED BY <1>3, <2>2, <2>3 DEF InsertAccount
  <1>4. CASE RegistrationCode(s)
    <2>1. CASE IssuesCode(s, requests[s])
      BY <1>1, <2>1, CodesIssue
    <2>2. CASE Ends(s) /\ UNCHANGED <<account, codeVars, sessionVars>>
      BY <2>2, CodesSame, CodesEnd DEF codeVars
    <2> QED BY <1>4, <2>1, <2>2 DEF RegistrationCode
  <1>5. CASE SupersedeCodes(s)
    <2>1. HopsTo(s, "commit") /\ UNCHANGED <<account, codeVars, sessionVars>>
      BY <1>5, SupersedeHops DEF SupersedeCodes, Types
    <2>2. AgesBut(0) /\ PasswordsKept /\ MailedKept
      BY <2>1, CodesSame DEF codeVars
    <2>3. requests[s].pc = "supersede"
      BY <1>5 DEF SupersedeCodes, At
    <2>4. Fits("supersede", requests[s].op, u, c, codes, account, lateCodes)
      BY <1>0, <2>3 DEF CodesInv, AllFit
    <2>5. Fits("commit", requests[s].op, u, c, codes', account', lateCodes')
      BY <2>1, <2>4 DEF Fits, Pending, codeVars
    <2>6. Unknown(0) /\ Unheld(s, 0)
      BY NoneUnknown
    <2>7. \A t \in Requests \ {s} :
             /\ ("commit" \in Pending /\ requests[t].pc \in Holding) => c # requests[t].code
             /\ ("commit" \in Holding /\ requests[t].pc \in Pending) => c # requests[t].code
      BY <2>3 DEF CodesInv, Apart, Pending, Holding
    <2> HIDE DEF c, u
    <2>8. Hops(s, requests[s].op, "commit", u, c, requests[s].parent, requests[s].token,
               requests[s].family)
      BY <2>1 DEF HopsTo, c, u
    <2> QED BY <2>2, <2>5, <2>6, <2>7, <2>8, CodesHop
  <1>6. CASE CommitCode(s)
    <2>1. HopsTo(s, "send") /\ UNCHANGED <<account, issuedCodes, lateCodes, mailed>>
      BY <1>6, CommitHops DEF CommitCode, Types
    <2>2. requests[s].pc = "commit" /\ c \in Codes
      BY <1>6, HeldCode DEF CommitCode, At, Holding
    <2>3. requests[s].superseded \in SUBSET Codes
      BY <1>1 DEF Request
    <2>4. codes' = Inserted(codes, c, NewCode(u, requests[s].purpose), requests[s].superseded)
      BY <1>6 DEF CommitCode
    <2>5. /\ codes'[c] # NoCode
          /\ \A d \in Codes : d # c =>
                /\ codes'[d] # NoCode <=> codes[d] # NoCode
                /\ codes'[d].user = codes[d].user /\ codes'[d].purpose = codes[d].purpose
                /\ codes[d].consumed => codes'[d].consumed
      BY <1>1, <2>2, <2>3, <2>4, InsertedTable DEF Types
    <2> HIDE DEF c, u
    <2>6. AgesBut(c)
      BY <1>2, <2>1, <2>5 DEF AgesBut
    <2>7. PasswordsKept /\ MailedKept
      BY <1>2, <2>1 DEF PasswordsKept, MailedKept
    <2>8. \A v \in Users : account[v].password # c
      BY <2>2 DEF CodesInv, AllFit, Fits, Pending, c
    <2>9. \A t \in Requests \ {s} : requests[t].pc \in Holding => requests[t].code # c
      BY <2>2 DEF CodesInv, Apart, Pending, c
    <2>10. Unknown(c) /\ Unheld(s, c)
      BY <2>2, <2>5, <2>8, <2>9 DEF Unknown, Unheld
    <2>11. Fits("send", requests[s].op, u, c, codes', account', lateCodes')
      BY <2>5 DEF Fits, Pending
    <2>12. \A t \in Requests \ {s} :
             /\ ("send" \in Pending /\ requests[t].pc \in Holding) => c # requests[t].code
             /\ ("send" \in Holding /\ requests[t].pc \in Pending) => c # requests[t].code
      BY <2>9 DEF Pending, Holding
    <2>13. Hops(s, requests[s].op, "send", u, c, requests[s].parent, requests[s].token,
                requests[s].family)
      BY <2>1 DEF HopsTo, c, u
    <2> QED BY <2>6, <2>7, <2>10, <2>11, <2>12, <2>13, CodesHop
  <1>7. CASE SendCode(s)
    <2>1. /\ Ends(s) /\ mailed' = mailed \cup {c}
          /\ UNCHANGED <<account, codes, issuedCodes, lateCodes>>
      BY <1>7 DEF SendCode
    <2>2. c > lateCodes => codes[c] # NoCode
      BY <1>7 DEF SendCode, At, CodesInv, AllFit, Fits
    <2>3. AgesBut(0) /\ PasswordsKept /\ MailedKept
      BY <1>2, <2>1, <2>2 DEF AgesBut, PasswordsKept, MailedKept
    <2> QED BY <2>1, <2>3, CodesEnd
  <1> QED BY <1>3, <1>4, <1>5, <1>6, <1>7

LEMMA CodesAnswer ==
    ASSUME Types, CodesInv, NEW s \in Requests,
           CompareStale(s) \/ RecordAttempt(s) \/ ConsumeCode(s) \/ ChangePassword(s)
    PROVE  CodesInv'
  <1> DEFINE u == requests[s].user
             c == requests[s].code
  <1>0. /\ requests[s].pc # "idle"
        /\ requests[s].pc \in {"compare", "attempt", "consume", "password"}
    BY DEF CompareStale, RecordAttempt, ConsumeCode, ChangePassword, At
  <1>1. u \in Users /\ c \in Codes /\ c \in 1..issuedCodes
    BY <1>0, BusyFields, HeldCode DEF Types, Holding
  <1>2. lateCodes \in Nat /\ issuedCodes \in Nat
    BY DEF Types, TypeOK
  <1>3. CASE CompareStale(s)
    <2>1. UNCHANGED <<account, codes, issuedCodes, lateCodes, mailed>>
      BY <1>3 DEF CompareStale, codeVars
    <2>2. AgesBut(0) /\ PasswordsKept /\ MailedKept
      BY <2>1, CodesSame
    <2>3. CASE Ends(s)
      BY <2>2, <2>3, CodesEnd
    <2>4. CASE HopsTo(s, "attempt")
      BY <1>0, <2>2, <2>4, CodesPass DEF HopsTo, Holding
    <2> QED BY <1>3, <2>3, <2>4, CompareHops DEF Types
  <1>4. CASE RecordAttempt(s)
    <2>1. /\ Ends(s) /\ codes' = Attempted(codes, c)
          /\ UNCHANGED <<account, issuedCodes, lateCodes, mailed>>
      BY <1>4 DEF RecordAttempt
    <2>2. AgesBut(0)
      BY <1>1, <1>2, <2>1, CodeTables DEF AgesBut, Types
    <2>3. PasswordsKept /\ MailedKept
      BY <1>2, <2>1 DEF PasswordsKept, MailedKept
    <2> QED BY <2>1, <2>2, <2>3, CodesEnd
  <1>5. CASE ConsumeCode(s)
    <2>1. requests[s].pc = "consume" /\ codes' = Burnt(codes, c)
          /\ UNCHANGED <<account, issuedCodes, lateCodes, mailed>>
      BY <1>5 DEF ConsumeCode, At
    <2>2. /\ \A d \in Codes :
                /\ codes'[d] # NoCode <=> codes[d] # NoCode
                /\ codes[d] # NoCode => /\ codes'[d].user = codes[d].user
                                        /\ codes'[d].purpose = codes[d].purpose
                                        /\ codes[d].consumed \/ d = c => codes'[d].consumed
      BY <1>1, <2>1, CodeTables DEF Types
    <2>3. AgesBut(0)
      BY <1>2, <2>1, <2>2 DEF AgesBut
    <2>4. PasswordsKept /\ MailedKept
      BY <1>2, <2>1 DEF PasswordsKept, MailedKept
    <2>5. CASE requests[s].op = "reset"
      <3>1. Hops(s, requests[s].op, "password", u, c, requests[s].parent, requests[s].token,
                 requests[s].family)
        BY <1>5, <2>5, ConsumeHops DEF Types, HopsTo
      <3>2. ResetRow(codes[c], u)
        BY <1>0, <2>1, <2>5 DEF CodesInv, AllFit, Fits
      <3> HIDE DEF c, u
      <3>3. ResetRow(codes'[c], u)
        BY <1>1, <2>2, <3>2 DEF ResetRow
      <3>4. codes'[c] # NoCode => codes'[c].consumed
        BY <1>1, <2>2, Zenon
      <3>5. Fits("password", requests[s].op, u, c, codes', account', lateCodes')
        <4>1. "password" \notin Pending /\ "password" # "send" /\ "password" # "consume"
          BY DEF Pending
        <4> QED BY <3>3, <3>4, <4>1, Zenon DEF Fits
      <3>6. Unknown(0) /\ Unheld(s, 0)
        BY NoneUnknown
      <3>7. \A t \in Requests \ {s} :
               /\ ("password" \in Pending /\ requests[t].pc \in Holding) => c # requests[t].code
               /\ ("password" \in Holding /\ requests[t].pc \in Pending) => c # requests[t].code
        BY <1>0 DEF CodesInv, Apart, Pending, Holding, c
      <3> QED BY <2>3, <2>4, <3>1, <3>5, <3>6, <3>7, CodesHop
    <2>6. CASE requests[s].op # "reset"
      <3>1. Hops(s, requests[s].op, "verified", u, c, requests[s].parent, requests[s].token,
                 requests[s].family)
        BY <1>5, <2>6, ConsumeHops DEF Types, HopsTo
      <3> QED BY <1>0, <2>3, <2>4, <3>1, CodesPass DEF Holding
    <2> QED BY <2>5, <2>6
  <1>6. CASE ChangePassword(s)
    <2>1. /\ requests[s].pc = "password" /\ Goes(s, "verified")
          /\ account' = [account EXCEPT ![u].password = c]
          /\ UNCHANGED <<codes, issuedCodes, lateCodes, mailed>>
      BY <1>6 DEF ChangePassword, At, codeVars
    <2>2. HopsTo(s, "verified")
      BY <1>0, <2>1, GoHops DEF Types, Accesses
    <2>3. /\ requests'[s].pc = "verified" /\ requests'[s].code = c
          /\ \A t \in Requests : t # s => requests'[t] = requests[t]
      BY <2>2, HopPlaces DEF Types, HopsTo
    <2>4. /\ account'[u].password = c
          /\ \A v \in Users \ {u} : account'[v] = account[v]
      BY <1>1, <2>1 DEF Types, TypeOK, AccountRows
    <2>5. ResetRow(codes[c], u) /\ (codes[c] # NoCode => codes[c].consumed)
      <3>1. Fits("password", requests[s].op, u, c, codes, account, lateCodes)
        BY <1>0, <2>1 DEF CodesInv, AllFit
      <3> QED BY <3>1, Zenon DEF Fits
    <2> HIDE DEF c, u
    <2>6. PasswordsIssued'
      BY <1>1, <1>2, <2>1, <2>4 DEF CodesInv, PasswordsIssued
    <2>7. PasswordsByResetCode'
      <3> SUFFICES ASSUME NEW v \in Users, NEW d \in Codes, account'[v].password = d,
                          codes'[d] # NoCode
                   PROVE  codes'[d].user = v /\ codes'[d].purpose = "reset" /\ codes'[d].consumed
        BY DEF PasswordsByResetCode
      <3>1. CASE v = u
        BY <2>1, <2>4, <2>5, <3>1, Zenon DEF ResetRow
      <3>2. CASE v # u
        BY <2>1, <2>4, <3>2 DEF CodesInv, PasswordsByResetCode
      <3> QED BY <3>1, <3>2
    <2>8. MailedIsStored'
      BY <2>1 DEF CodesInv, MailedIsStored
    <2>9. ASSUME NEW t \in Requests, requests'[t].pc # "idle"
          PROVE  Fits(requests'[t].pc, requests'[t].op, requests'[t].user, requests'[t].code,
                      codes', account', lateCodes')
      <3>1. CASE t = s
        BY <2>3, <3>1 DEF Fits, Pending
      <3>2. CASE t # s
        <4>1. /\ requests'[t] = requests[t]
              /\ Fits(requests[t].pc, requests[t].op, requests[t].user, requests[t].code, codes,
                      account, lateCodes)
          BY <2>3, <2>9, <3>2 DEF CodesInv, AllFit
        <4>2. requests[t].pc \in Pending => requests[t].code # c
          BY <2>1, <3>2 DEF CodesInv, Apart, Holding, c
        <4>3. requests[t].pc \in Pending => \A v \in Users : account'[v].password # requests[t].code
          BY <2>4, <4>1, <4>2 DEF Fits
        <4> QED BY <2>1, <4>1, <4>3 DEF Fits
      <3> QED BY <3>1, <3>2
    <2>10. AllFit'
      BY <2>9 DEF AllFit
    <2>11. Apart'
      BY <2>1, <2>3 DEF CodesInv, Apart, Pending, Holding, c
    <2> QED BY <2>6, <2>7, <2>8, <2>10, <2>11 DEF CodesInv
  <1> QED BY <1>3, <1>4, <1>5, <1>6

LEMMA CodesSessions ==
    ASSUME Types, CodesInv, NEW s \in Requests,
           MarkVerified(s) \/ CloseSessions(s) \/ OpenSession(s) \/ RevokeFamily(s)
              \/ DiscardToken(s) \/ RotateToken(s) \/ RenewSession(s)
    PROVE  CodesInv'
  <1> DEFINE u == requests[s].user
  <1>0. requests[s].pc # "idle"
    BY DEF MarkVerified, CloseSessions, OpenSession, RevokeFamily, DiscardToken, RotateToken,
           RenewSession, At
  <1>1. /\ u \in Users /\ requests[s] \in Request /\ requests[s].family \in Tokens \cup {0}
        /\ account[u] \in AccountRows /\ lateCodes \in Nat /\ issuedCodes \in Nat
        /\ "open" \notin Holding /\ "close" \notin Holding /\ "renew" \notin Holding
    BY <1>0, BusyFields DEF Types, TypeOK, Holding
  <1>2. CASE MarkVerified(s)
    <2>1. account' = [account EXCEPT ![u].verified = TRUE] /\ UNCHANGED codeVars
      <3> DEFINE r == [requests[s] EXCEPT !.code = 0]
      <3>1. r.user = u
        BY <1>1 DEF Request
      <3>2. account' = [account EXCEPT ![r.user].verified = TRUE]
        BY <1>2 DEF MarkVerified
      <3> HIDE DEF r
      <3> QED BY <1>2, <3>1, <3>2 DEF MarkVerified
    <2>2. \A v \in Users : account'[v].password = account[v].password
      BY <1>1, <2>1 DEF Types, TypeOK, AccountRows
    <2>3. AgesBut(0) /\ PasswordsKept /\ MailedKept
      BY <1>1, <2>1, <2>2 DEF AgesBut, PasswordsKept, MailedKept, codeVars
    <2> QED BY <1>1, <1>2, <2>3, MarkVerifiedHops, CodesPass DEF Types
  <1>3. ASSUME UNCHANGED <<account, codeVars>>
        PROVE  AgesBut(0) /\ PasswordsKept /\ MailedKept
    BY <1>3, CodesSame DEF codeVars
  <1>4. ASSUME NEW f \in Tokens \cup {0}, NEW pc \in {"open", "renew"},
               IssuesToken(s, requests[s], f, pc), UNCHANGED <<account, codeVars>>
        PROVE  CodesInv'
    <2> DEFINE g == IF f = 0 THEN issuedTokens' ELSE f
    <2>1. Hops(s, requests[s].op, pc, u, requests[s].code, requests[s].parent,
               issuedTokens', g)
      BY <1>1, <1>4, TokenHops DEF Types, Accesses
    <2> HIDE DEF g
    <2> QED BY <1>1, <1>3, <1>4, <2>1, CodesPass
  <1>5. CASE CloseSessions(s) \/ RotateToken(s)
    <2>1. 0 \in Tokens \cup {0}
      OBVIOUS
    <2> QED BY <1>1, <1>4, <1>5, <2>1 DEF CloseSessions, RotateToken
  <1>6. CASE OpenSession(s) \/ RenewSession(s) \/ RevokeFamily(s) \/ DiscardToken(s)
    <2>1. Ends(s) /\ UNCHANGED <<account, codeVars>>
      BY <1>6 DEF OpenSession, RenewSession, InsertToken, RevokeFamily, DiscardToken
    <2> QED BY <1>3, <2>1, CodesEnd
  <1> QED BY <1>2, <1>5, <1>6

LEMMA CodesBackground ==
    ASSUME Types, CodesInv,
           \/ ExpireCode \/ ExpireToken \/ PurgeCodes \/ PurgeTokens
           \/ \E s \in Requests : Abort(s)
           \/ UNCHANGED vars
    PROVE  CodesInv'
  <1>0. lateCodes \in Nat /\ issuedCodes \in Nat
    BY DEF Types, TypeOK
  <1>1. CASE \E s \in Requests : Abort(s)
    BY <1>1, CodesSame, CodesEnd DEF Abort, codeVars
  <1>2. CASE UNCHANGED <<account, codes, issuedCodes, lateCodes, mailed, requests>>
    BY <1>2
    DEF CodesInv, AllFit, Apart, PasswordsIssued, PasswordsByResetCode, MailedIsStored
  <1>3. CASE ExpireCode \/ PurgeCodes
    <2>1. UNCHANGED <<account, issuedCodes, mailed, requests>>
      BY <1>3 DEF ExpireCode, PurgeCodes
    <2>2. lateCodes' \in Nat /\ lateCodes <= lateCodes'
      BY <1>0, <1>3 DEF ExpireCode, PurgeCodes
    <2>3. \A d \in Codes : /\ codes'[d] \in {codes[d], NoCode}
                           /\ d > lateCodes' => codes'[d] = codes[d]
      BY <1>0, <1>3, CodesAssumption DEF ExpireCode, PurgeCodes, CodesPurged, Codes
    <2>4. AgesBut(0) /\ PasswordsKept /\ MailedKept
      BY <1>0, <2>1, <2>2, <2>3 DEF AgesBut, PasswordsKept, MailedKept
    <2>5. Unknown(0)
      BY CodesAssumption DEF Unknown, Codes
    <2>6. PasswordsIssued' /\ PasswordsByResetCode' /\ MailedIsStored'
      BY <2>4, <2>5, TablesKept
    <2>7. ASSUME NEW t \in Requests, requests'[t].pc # "idle"
          PROVE  Fits(requests'[t].pc, requests'[t].op, requests'[t].user, requests'[t].code,
                      codes', account', lateCodes')
      BY <2>1, <2>4, <2>7, HeldCode, FitStays
    <2>8. AllFit' /\ Apart'
      BY <2>1, <2>7 DEF AllFit, Apart, CodesInv
    <2> QED BY <2>6, <2>8 DEF CodesInv
  <1> QED
    BY <1>1, <1>2, <1>3
    DEF ExpireCode, ExpireToken, PurgeCodes, PurgeTokens, vars, codeVars

LEMMA CodesInductive ==
    ASSUME Types, CodesInv, [Next]_vars
    PROVE  CodesInv'
  <1>1. CASE \E s \in Requests : Arrive(s)
    BY <1>1, CodesArrive
  <1>2. CASE \E s \in Requests : Proceed(s)
    BY <1>2, CodesMailing, CodesAnswer, CodesSessions DEF Proceed
  <1>3. CASE \/ ExpireCode \/ ExpireToken \/ PurgeCodes \/ PurgeTokens
             \/ \E s \in Requests : Abort(s)
             \/ UNCHANGED vars
    BY <1>3, CodesBackground
  <1> QED BY <1>1, <1>2, <1>3 DEF Next

LEMMA CodesInit == Init => CodesInv
  <1> SUFFICES ASSUME Init PROVE CodesInv
    OBVIOUS
  <1>1. AllFit /\ Apart
    BY IdleFields DEF Init, AllFit, Apart, Pending
  <1>2. PasswordsIssued /\ PasswordsByResetCode /\ MailedIsStored
    BY DEF Init, PasswordsIssued, PasswordsByResetCode, MailedIsStored, NoAccount
  <1> QED BY <1>1, <1>2 DEF CodesInv

-----------------------------------------------------------------------------
(***************************************************************************)
(* The attempts at a code are bounded.                                     *)
(***************************************************************************)
\* The requests whose guess at c was checked and may yet be counted.
Guessing(c) ==
    {s \in Requests : requests[s].pc \in {"compare", "attempt"} /\ requests[s].code = c}

AttemptsInv ==
    \A c \in Codes :
        codes[c].attempts + Cardinality(Guessing(c)) < MaxAttempts + Cardinality(Requests)

LEMMA GuessingCounts ==
    ASSUME Types
    PROVE  /\ \A c \in Codes : codes[c].attempts \in Nat
           /\ \A c : /\ IsFiniteSet(Guessing(c)) /\ Cardinality(Guessing(c)) \in Nat
                     /\ Cardinality(Guessing(c)) <= Cardinality(Requests)
           /\ Cardinality(Requests) \in Nat
  <1>1. Cardinality(Requests) \in Nat
    BY RequestsAssumption, FS_CardinalityType
  <1>2. ASSUME NEW c
        PROVE  /\ IsFiniteSet(Guessing(c)) /\ Cardinality(Guessing(c)) \in Nat
               /\ Cardinality(Guessing(c)) <= Cardinality(Requests)
    <2>1. Guessing(c) \subseteq Requests
      BY DEF Guessing
    <2>2. IsFiniteSet(Guessing(c)) /\ Cardinality(Guessing(c)) <= Cardinality(Requests)
      BY <2>1, RequestsAssumption, FS_Subset
    <2> QED BY <2>2, FS_CardinalityType
  <1>3. \A c \in Codes : codes[c].attempts \in Nat
    BY DEF Types, TypeOK, CodeRows, NoCode
  <1> QED BY <1>1, <1>2, <1>3

\* No attempt is counted, and no guess comes in.
NoMoreGuesses ==
    \A c \in Codes : /\ codes'[c].attempts \in Nat
                     /\ codes'[c].attempts <= codes[c].attempts
                     /\ Guessing(c)' \subseteq Guessing(c)

LEMMA AttemptsKept ==
    ASSUME Types, AttemptsInv, NoMoreGuesses
    PROVE  AttemptsInv'
  <1> SUFFICES ASSUME NEW c \in Codes
               PROVE  codes'[c].attempts + Cardinality(Guessing(c)')
                         < MaxAttempts + Cardinality(Requests)
    BY DEF AttemptsInv
  <1>1. IsFiniteSet(Guessing(c)) /\ Guessing(c)' \subseteq Guessing(c)
    BY GuessingCounts DEF NoMoreGuesses
  <1>2. /\ IsFiniteSet(Guessing(c)')
        /\ Cardinality(Guessing(c)') <= Cardinality(Guessing(c))
    BY <1>1, FS_Subset
  <1>3. Cardinality(Guessing(c)') \in Nat
    BY <1>2, FS_CardinalityType
  <1>4. codes[c].attempts + Cardinality(Guessing(c)) < MaxAttempts + Cardinality(Requests)
    BY DEF AttemptsInv
  <1> QED BY <1>2, <1>3, <1>4, GuessingCounts, CodesAssumption DEF NoMoreGuesses

LEMMA GuessesHop ==
    ASSUME Types, NEW s \in Requests, NEW op, NEW pc, NEW u, NEW code, NEW parent, NEW token,
           NEW family, Hops(s, op, pc, u, code, parent, token, family),
           \/ pc \notin {"compare", "attempt"}
           \/ requests[s].pc \in {"compare", "attempt"} /\ code = requests[s].code
    PROVE  \A c \in Codes : Guessing(c)' \subseteq Guessing(c)
  <1>1. /\ requests'[s].pc = pc /\ requests'[s].code = code
        /\ \A t \in Requests : t # s => requests'[t] = requests[t]
    BY HopPlaces DEF Types
  <1> QED BY <1>1 DEF Guessing

LEMMA GuessesEnd ==
    ASSUME Types, NEW s \in Requests, Ends(s)
    PROVE  \A c : Guessing(c)' \subseteq Guessing(c) \ {s}
  <1>1. /\ requests'[s].pc = "idle"
        /\ \A t \in Requests : t # s => requests'[t] = requests[t]
    BY EndPlaces DEF Types
  <1> QED BY <1>1 DEF Guessing

LEMMA AttemptsHop ==
    ASSUME Types, AttemptsInv, NEW s \in Requests, NEW op, NEW pc, NEW u, NEW code, NEW parent,
           NEW token, NEW family, Hops(s, op, pc, u, code, parent, token, family),
           \/ pc \notin {"compare", "attempt"}
           \/ requests[s].pc \in {"compare", "attempt"} /\ code = requests[s].code,
           UNCHANGED codes
    PROVE  AttemptsInv'
  <1>1. \A c \in Codes : Guessing(c)' \subseteq Guessing(c)
    BY GuessesHop
  <1>2. NoMoreGuesses
    BY <1>1, GuessingCounts DEF NoMoreGuesses
  <1> QED BY <1>2, AttemptsKept

LEMMA AttemptsEnd ==
    ASSUME Types, AttemptsInv, NEW s \in Requests, Ends(s), UNCHANGED codes
    PROVE  AttemptsInv'
  <1>1. \A c : Guessing(c)' \subseteq Guessing(c) \ {s}
    BY GuessesEnd
  <1>2. NoMoreGuesses
    BY <1>1, GuessingCounts DEF NoMoreGuesses
  <1> QED BY <1>2, AttemptsKept

LEMMA AttemptsArrive ==
    ASSUME Types, Types', AttemptsInv, NEW s \in Requests, Arrive(s)
    PROVE  AttemptsInv'
  <1>1. ASSUME NEW u \in Users, Register(s, u)
        PROVE  AttemptsInv'
    <2>1. Hops(s, "register", "insert", u, 0, 0, 0, 0) /\ UNCHANGED codes
      BY <1>1, ArriveHops DEF Register, Ops, Purposes, Accesses, codeVars
    <2> QED BY <2>1, AttemptsHop
  <1>2. ASSUME NEW u \in Users, Resend(s, u) \/ Login(s, u) \/ Forgot(s, u)
        PROVE  AttemptsInv'
    <2>1. PICK op \in {"resend", "login", "forgot"}, p \in Purposes :
             IssuesCode(s, Arrived(op, u, p, "supersede"))
      BY <1>2 DEF Resend, Login, Forgot, Purposes
    <2> DEFINE r == Arrived(op, u, p, "supersede")
    <2>2. r \in Request
      BY ArrivedFields DEF Ops, Accesses
    <2> HIDE DEF r
    <2>3. /\ Hops(s, r.op, "supersede", r.user, issuedCodes', r.parent, r.token, r.family)
          /\ UNCHANGED codes
      BY <2>1, <2>2, IssueHops DEF r, Types, IssuesCode
    <2> QED BY <2>3, AttemptsHop
  <1>3. ASSUME NEW u \in Users, NEW guess \in Codes \cup {0}, NEW op \in Purposes,
               Confirm(s, u, op, guess)
        PROVE  AttemptsInv'
    <2>1. PICK c \in Codes, pc \in {"consume", "compare"} :
             Answerable(u, op, c) /\ Hops(s, op, pc, u, c, 0, 0, 0)
      BY <1>3, ConfirmHops DEF Types
    <2>2. /\ requests'[s].code = c
          /\ \A t \in Requests : t # s => requests'[t] = requests[t]
      BY <2>1, HopPlaces DEF Types
    <2>3. UNCHANGED codes /\ requests[s].pc = "idle"
      BY <1>3 DEF Confirm, codeVars, At
    <2>4. ASSUME NEW d \in Codes
          PROVE  codes'[d].attempts + Cardinality(Guessing(d)')
                    < MaxAttempts + Cardinality(Requests)
      <3>1. CASE d = c
        <4>1. codes[c].attempts < MaxAttempts
          BY <2>1, GuessingCounts, CodesAssumption DEF Answerable, Exhausted
        <4>2. /\ Cardinality(Guessing(d)') \in Nat
              /\ Cardinality(Guessing(d)') <= Cardinality(Requests)
          <5>1. Guessing(d)' \subseteq Requests
            BY DEF Guessing
          <5>2. IsFiniteSet(Guessing(d)') /\ Cardinality(Guessing(d)') <= Cardinality(Requests)
            BY <5>1, RequestsAssumption, FS_Subset
          <5> QED BY <5>2, FS_CardinalityType
        <4> QED BY <2>3, <3>1, <4>1, <4>2, GuessingCounts, CodesAssumption
      <3>2. CASE d # c
        <4>1. Guessing(d)' = Guessing(d)
          BY <2>2, <2>3, <3>2 DEF Guessing
        <4> QED BY <2>3, <4>1 DEF AttemptsInv
      <3> QED BY <3>1, <3>2
    <2> QED BY <2>4 DEF AttemptsInv
  <1>4. ASSUME NEW t \in Tokens, Refresh(s, t) \/ Logout(s, t)
        PROVE  AttemptsInv'
    <2>1. PICK op \in {"refresh", "logout"}, pc \in {"revoke", "discard", "rotate"} :
             Present(s, op, t, pc)
      BY <1>4 DEF Refresh, Logout, Rotation
    <2>2. pc \in Accesses
      BY DEF Accesses
    <2>3. Hops(s, op, pc, tokens[t].user, 0, t, 0, tokens[t].family) /\ UNCHANGED codes
      BY <2>1, <2>2, PresentHops DEF Types, Present, codeVars
    <2> QED BY <2>3, AttemptsHop
  <1> QED
    BY <1>1, <1>2, <1>3, <1>4 DEF Arrive, VerifyEmail, ResetPassword, Purposes

LEMMA AttemptsMailing ==
    ASSUME Types, Types', AttemptsInv, NEW s \in Requests,
           InsertAccount(s) \/ RegistrationCode(s) \/ SupersedeCodes(s) \/ CommitCode(s)
              \/ SendCode(s)
    PROVE  AttemptsInv'
  <1> DEFINE u == requests[s].user
             c == requests[s].code
  <1>0. requests[s].pc # "idle"
    BY DEF InsertAccount, RegistrationCode, SupersedeCodes, CommitCode, SendCode, At
  <1>1. u \in Users /\ requests[s] \in Request /\ requests[s].purpose \in Purposes
    BY <1>0, BusyFields DEF Types
  <1>2. ASSUME NEW pc \in {"lookup", "commit"}, HopsTo(s, pc), UNCHANGED codes
        PROVE  AttemptsInv'
    BY <1>2, AttemptsHop DEF HopsTo
  <1>3. CASE InsertAccount(s)
    <2>1. UNCHANGED codes
      BY <1>3 DEF InsertAccount, codeVars
    <2>2. CASE Goes(s, "lookup")
      BY <1>0, <1>2, <2>1, <2>2, GoHops DEF Types, Accesses
    <2> QED BY <1>3, <2>1, <2>2, AttemptsEnd DEF InsertAccount
  <1>4. CASE RegistrationCode(s)
    <2>1. UNCHANGED codes
      BY <1>4 DEF RegistrationCode, IssuesCode, codeVars
    <2>2. CASE IssuesCode(s, requests[s])
      <3>1. Hops(s, requests[s].op, "supersede", u, issuedCodes', requests[s].parent,
                 requests[s].token, requests[s].family)
        BY <1>1, <2>2, IssueHops DEF Types
      <3> QED BY <2>1, <3>1, AttemptsHop
    <2> QED BY <1>4, <2>1, <2>2, AttemptsEnd DEF RegistrationCode
  <1>5. CASE SupersedeCodes(s)
    BY <1>2, <1>5, SupersedeHops DEF SupersedeCodes, codeVars, Types
  <1>6. CASE CommitCode(s)
    <2>1. requests[s].pc = "commit" /\ c \in Codes
      BY <1>6, HeldCode DEF CommitCode, At, Holding
    <2>2. requests[s].superseded \in SUBSET Codes
      BY <1>1 DEF Request
    <2>3. codes' = Inserted(codes, c, NewCode(u, requests[s].purpose), requests[s].superseded)
      BY <1>6 DEF CommitCode
    <2>4. /\ codes'[c].attempts = 0
          /\ \A d \in Codes : d # c => codes'[d].attempts = codes[d].attempts
      BY <1>1, <2>1, <2>2, <2>3, InsertedTable DEF Types
    <2>5. \A d \in Codes : Guessing(d)' \subseteq Guessing(d)
      BY <1>6, CommitHops, GuessesHop DEF HopsTo, Types
    <2>6. NoMoreGuesses
      BY <2>4, <2>5, GuessingCounts DEF NoMoreGuesses
    <2> QED BY <2>6, AttemptsKept
  <1>7. CASE SendCode(s)
    BY <1>7, AttemptsEnd DEF SendCode
  <1> QED BY <1>3, <1>4, <1>5, <1>6, <1>7

LEMMA AttemptsAnswer ==
    ASSUME Types, AttemptsInv, NEW s \in Requests,
           CompareStale(s) \/ RecordAttempt(s) \/ ConsumeCode(s) \/ ChangePassword(s)
    PROVE  AttemptsInv'
  <1> DEFINE c == requests[s].code
  <1>0. /\ requests[s].pc # "idle"
        /\ requests[s].pc \in {"compare", "attempt", "consume", "password"}
    BY DEF CompareStale, RecordAttempt, ConsumeCode, ChangePassword, At
  <1>1. c \in Codes
    BY <1>0, HeldCode DEF Holding
  <1>2. CASE CompareStale(s)
    <2>1. UNCHANGED codes /\ requests[s].pc = "compare"
      BY <1>2 DEF CompareStale, codeVars, At
    <2>2. CASE HopsTo(s, "attempt")
      BY <2>1, <2>2, AttemptsHop DEF HopsTo
    <2> QED BY <1>2, <2>1, <2>2, CompareHops, AttemptsEnd DEF Types
  <1>3. CASE RecordAttempt(s)
    <2>1. requests[s].pc = "attempt" /\ Ends(s) /\ codes' = Attempted(codes, c)
      BY <1>3 DEF RecordAttempt, At
    <2>2. \A d : Guessing(d)' \subseteq Guessing(d) \ {s}
      BY <2>1, GuessesEnd
    <2>3. /\ \A d \in Codes \ {c} : codes'[d].attempts = codes[d].attempts
          /\ codes'[c].attempts \in {codes[c].attempts, codes[c].attempts + 1}
      <3>1. ASSUME NEW d \in Codes, codes[d] = NoCode
            PROVE  codes'[d] = codes[d]
        BY <1>1, <2>1, <3>1, CodeTables DEF Types
      <3>2. ASSUME NEW d \in Codes, codes[d] # NoCode
            PROVE  codes'[d].attempts
                      = IF d = c THEN codes[d].attempts + 1 ELSE codes[d].attempts
        BY <1>1, <2>1, <3>2, CodeTables DEF Types
      <3> QED BY <1>1, <3>1, <3>2
    <2>4. ASSUME NEW d \in Codes
          PROVE  codes'[d].attempts + Cardinality(Guessing(d)')
                    < MaxAttempts + Cardinality(Requests)
      <3>1. /\ IsFiniteSet(Guessing(d)') /\ Cardinality(Guessing(d)') \in Nat
            /\ Cardinality(Guessing(d)') <= Cardinality(Guessing(d))
            /\ d = c => Cardinality(Guessing(d)') <= Cardinality(Guessing(d)) - 1
        <4>1. IsFiniteSet(Guessing(d))
          BY GuessingCounts
        <4>2. /\ IsFiniteSet(Guessing(d)')
              /\ Cardinality(Guessing(d)') <= Cardinality(Guessing(d))
          BY <2>2, <4>1, FS_Subset
        <4>3. CASE d = c
          <5>1. s \in Guessing(d)
            BY <2>1, <4>3 DEF Guessing
          <5>2. /\ IsFiniteSet(Guessing(d) \ {s})
                /\ Cardinality(Guessing(d) \ {s}) = Cardinality(Guessing(d)) - 1
            BY <4>1, <5>1, FS_RemoveElement
          <5>3. Cardinality(Guessing(d)') <= Cardinality(Guessing(d) \ {s})
            BY <2>2, <5>2, FS_Subset
          <5> QED BY <4>2, <5>2, <5>3, FS_CardinalityType
        <4> QED BY <4>2, <4>3, FS_CardinalityType
      <3>2. codes[d].attempts + Cardinality(Guessing(d)) < MaxAttempts + Cardinality(Requests)
        BY DEF AttemptsInv
      <3> QED BY <2>3, <3>1, <3>2, GuessingCounts, CodesAssumption
    <2> QED BY <2>4 DEF AttemptsInv
  <1>4. CASE ConsumeCode(s)
    <2> DEFINE pc == IF requests[s].op = "reset" THEN "password" ELSE "verified"
    <2>1. HopsTo(s, pc) /\ pc \notin {"compare", "attempt"}
      BY <1>4, ConsumeHops DEF Types
    <2>2. codes' = Burnt(codes, c)
      BY <1>4 DEF ConsumeCode
    <2>3. \A d \in Codes : codes'[d].attempts = codes[d].attempts
      <3>1. ASSUME NEW d \in Codes, codes[d] = NoCode
            PROVE  codes'[d] = codes[d]
        BY <1>1, <2>2, <3>1, CodeTables DEF Types
      <3>2. ASSUME NEW d \in Codes, codes[d] # NoCode
            PROVE  codes'[d].attempts = codes[d].attempts
        BY <1>1, <2>2, <3>2, CodeTables DEF Types
      <3> QED BY <3>1, <3>2
    <2> HIDE DEF pc
    <2>4. \A d \in Codes : Guessing(d)' \subseteq Guessing(d)
      BY <2>1, GuessesHop DEF HopsTo
    <2>5. NoMoreGuesses
      BY <2>3, <2>4, GuessingCounts DEF NoMoreGuesses
    <2> QED BY <2>5, AttemptsKept
  <1>5. CASE ChangePassword(s)
    <2>1. Goes(s, "verified") /\ UNCHANGED codes
      BY <1>5 DEF ChangePassword, codeVars
    <2>2. HopsTo(s, "verified")
      BY <1>0, <2>1, GoHops DEF Types, Accesses
    <2> QED BY <2>1, <2>2, AttemptsHop DEF HopsTo
  <1> QED BY <1>2, <1>3, <1>4, <1>5

LEMMA AttemptsSessions ==
    ASSUME Types, AttemptsInv, NEW s \in Requests,
           MarkVerified(s) \/ CloseSessions(s) \/ OpenSession(s) \/ RevokeFamily(s)
              \/ DiscardToken(s) \/ RotateToken(s) \/ RenewSession(s)
    PROVE  AttemptsInv'
  <1> DEFINE u == requests[s].user
  <1>0. requests[s].pc # "idle" /\ UNCHANGED codes
    BY DEF MarkVerified, CloseSessions, OpenSession, RevokeFamily, DiscardToken, RotateToken,
           RenewSession, InsertToken, At, codeVars
  <1>1. u \in Users /\ requests[s] \in Request /\ requests[s].family \in Tokens \cup {0}
    BY <1>0, BusyFields DEF Types
  <1>2. CASE MarkVerified(s)
    <2>1. CASE Hops(s, requests[s].op, "close", u, 0, requests[s].parent, requests[s].token,
                    requests[s].family)
      BY <1>0, <2>1, AttemptsHop
    <2>2. CASE Hops(s, requests[s].op, "open", u, 0, requests[s].parent, issuedTokens',
                    issuedTokens')
      BY <1>0, <2>2, AttemptsHop
    <2> QED BY <1>2, <2>1, <2>2, MarkVerifiedHops DEF Types
  <1>3. ASSUME NEW f \in Tokens \cup {0}, NEW pc \in {"open", "renew"},
               IssuesToken(s, requests[s], f, pc)
        PROVE  AttemptsInv'
    <2> DEFINE g == IF f = 0 THEN issuedTokens' ELSE f
    <2>1. Hops(s, requests[s].op, pc, u, requests[s].code, requests[s].parent,
               issuedTokens', g)
      BY <1>1, <1>3, TokenHops DEF Types, Accesses
    <2> HIDE DEF g
    <2> QED BY <1>0, <2>1, AttemptsHop
  <1>4. CASE CloseSessions(s) \/ RotateToken(s)
    <2>1. 0 \in Tokens \cup {0}
      OBVIOUS
    <2> QED BY <1>1, <1>3, <1>4, <2>1 DEF CloseSessions, RotateToken
  <1>5. CASE OpenSession(s) \/ RenewSession(s) \/ RevokeFamily(s) \/ DiscardToken(s)
    BY <1>0, <1>5, AttemptsEnd
    DEF OpenSession, RenewSession, InsertToken, RevokeFamily, DiscardToken
  <1> QED BY <1>2, <1>4, <1>5

LEMMA AttemptsBackground ==
    ASSUME Types, AttemptsInv,
           \/ ExpireCode \/ ExpireToken \/ PurgeCodes \/ PurgeTokens
           \/ \E s \in Requests : Abort(s)
           \/ UNCHANGED vars
    PROVE  AttemptsInv'
  <1>1. CASE \E s \in Requests : Abort(s)
    BY <1>1, AttemptsEnd DEF Abort, codeVars
  <1>2. CASE ~ \E s \in Requests : Abort(s)
    <2>1. UNCHANGED requests /\ \A c \in Codes : codes'[c] \in {codes[c], NoCode}
      BY <1>2 DEF ExpireCode, ExpireToken, PurgeCodes, CodesPurged, PurgeTokens, vars, codeVars
    <2>2. \A c \in Codes : Guessing(c)' = Guessing(c)
      BY <2>1 DEF Guessing
    <2>3. NoMoreGuesses
      BY <2>1, <2>2, GuessingCounts DEF NoMoreGuesses, NoCode
    <2> QED BY <2>3, AttemptsKept
  <1> QED BY <1>1, <1>2

LEMMA AttemptsInductive ==
    ASSUME Types, AttemptsInv, [Next]_vars
    PROVE  AttemptsInv'
  <1>0. Types'
    BY TypesInductive
  <1>1. CASE \E s \in Requests : Arrive(s)
    BY <1>0, <1>1, AttemptsArrive
  <1>2. CASE \E s \in Requests : Proceed(s)
    BY <1>0, <1>2, AttemptsMailing, AttemptsAnswer, AttemptsSessions DEF Proceed
  <1>3. CASE \/ ExpireCode \/ ExpireToken \/ PurgeCodes \/ PurgeTokens
             \/ \E s \in Requests : Abort(s)
             \/ UNCHANGED vars
    BY <1>3, AttemptsBackground
  <1> QED BY <1>1, <1>2, <1>3 DEF Next

LEMMA AttemptsInit == Init => AttemptsInv
  <1> SUFFICES ASSUME Init, NEW c \in Codes
               PROVE  codes[c].attempts + Cardinality(Guessing(c))
                         < MaxAttempts + Cardinality(Requests)
    BY DEF AttemptsInv
  <1>1. Guessing(c) = {} /\ codes[c].attempts = 0
    BY IdleFields DEF Init, Guessing, NoCode
  <1>2. Cardinality(Guessing(c)) = 0
    BY <1>1, FS_EmptySet
  <1> QED BY <1>1, <1>2, RequestsAssumption, FS_CardinalityType, CodesAssumption

-----------------------------------------------------------------------------
(***************************************************************************)
(* What a request has in hand belongs together.                            *)
(***************************************************************************)
Answering == {"compare", "attempt", "consume", "password", "verified", "close", "open"}

\* A request that answers a code has one of its account and purpose, and only a
\* reset sets the password and closes the sessions.
AnswerFits(pc, op, u, code, table) ==
    /\ pc \in Answering => op \in Purposes
    /\ pc \in {"password", "close"} => op = "reset"
    /\ (pc = "consume" /\ table[code] # NoCode)
          => table[code].user = u /\ table[code].purpose = op

AnswersFit ==
    \A s \in Requests : requests[s].pc # "idle" =>
        AnswerFits(requests[s].pc, requests[s].op, requests[s].user, requests[s].code, codes)

\* What a code supersedes are stored codes of its account and purpose, as far as
\* they are still there.
Replaces(r) ==
    r.pc = "commit" => \A d \in r.superseded :
        /\ d \in 1..issuedCodes
        /\ codes[d] # NoCode => codes[d].user = r.user /\ codes[d].purpose = r.purpose
        /\ \A t \in Requests : requests[t].pc \in Pending => requests[t].code # d

PasswordsRegistered == \A u \in Users : account[u].registered \/ account[u].password = 0

AnswersInv ==
    /\ AnswersFit
    /\ \A s \in Requests : Replaces(requests[s])
    /\ PasswordsRegistered

\* No row but the one that s stores is new.
NewRowOf(s) ==
    \A d \in Codes : codes'[d] # NoCode =>
        \/ /\ codes[d] # NoCode
           /\ codes'[d].user = codes[d].user /\ codes'[d].purpose = codes[d].purpose
        \/ requests[s].pc = "commit" /\ requests[s].code = d

\* The other requests keep what they have in hand.
LEMMA AnswerStays ==
    ASSUME Types, CodesInv, AnswersInv, NEW s \in Requests, NewRowOf(s),
           NEW t \in Requests \ {s}, requests[t].pc # "idle"
    PROVE  AnswerFits(requests[t].pc, requests[t].op, requests[t].user, requests[t].code, codes')
  <1>1. AnswerFits(requests[t].pc, requests[t].op, requests[t].user, requests[t].code, codes)
    BY DEF AnswersInv, AnswersFit
  <1>2. CASE requests[t].pc = "consume" /\ codes'[requests[t].code] # NoCode
    <2>1. requests[t].code \in Codes
      BY <1>2, HeldCode DEF Holding
    <2>2. ~ (requests[s].pc = "commit" /\ requests[s].code = requests[t].code)
      BY <1>2 DEF CodesInv, Apart, Pending, Holding
    <2> QED BY <1>1, <1>2, <2>1, <2>2 DEF NewRowOf, AnswerFits
  <1> QED BY <1>1, <1>2 DEF AnswerFits

\* No request becomes pending but with a code that is new.
PendingAsBefore ==
    \A t \in Requests : requests'[t].pc \in Pending =>
        \/ requests[t].pc \in Pending /\ requests'[t].code = requests[t].code
        \/ requests'[t].code \in Nat /\ requests'[t].code > issuedCodes

LEMMA ReplacesStays ==
    ASSUME Types, AnswersInv, NEW s \in Requests, NewRowOf(s), PendingAsBefore,
           issuedCodes' \in Nat, issuedCodes <= issuedCodes', NEW t \in Requests
    PROVE  Replaces(requests[t])'  \/ requests'[t] # requests[t]
  <1> SUFFICES ASSUME requests'[t] = requests[t], requests[t].pc = "commit",
                      NEW d \in requests[t].superseded
               PROVE  /\ d \in 1..issuedCodes'
                      /\ codes'[d] # NoCode => /\ codes'[d].user = requests[t].user
                                               /\ codes'[d].purpose = requests[t].purpose
                      /\ \A q \in Requests : requests'[q].pc \in Pending => requests'[q].code # d
    BY DEF Replaces
  <1>1. /\ d \in 1..issuedCodes
        /\ codes[d] # NoCode => /\ codes[d].user = requests[t].user
                                /\ codes[d].purpose = requests[t].purpose
        /\ \A q \in Requests : requests[q].pc \in Pending => requests[q].code # d
    BY DEF AnswersInv, Replaces
  <1>2. d \in Codes /\ issuedCodes \in Nat /\ d \in Nat
    BY <1>1, Ranges, CodesAssumption DEF Types, Codes
  <1>3. ~ (requests[s].pc = "commit" /\ requests[s].code = d)
    BY <1>1 DEF Pending
  <1>4. codes'[d] # NoCode => /\ codes'[d].user = requests[t].user
                              /\ codes'[d].purpose = requests[t].purpose
    BY <1>1, <1>2, <1>3 DEF NewRowOf
  <1>5. \A q \in Requests : requests'[q].pc \in Pending => requests'[q].code # d
    BY <1>1, <1>2 DEF PendingAsBefore
  <1> QED BY <1>1, <1>2, <1>4, <1>5

LEMMA AnswersHop ==
    ASSUME Types, CodesInv, AnswersInv, NEW s \in Requests, NEW op, NEW pc, NEW u, NEW code,
           NEW parent, NEW token, NEW family, Hops(s, op, pc, u, code, parent, token, family),
           AnswerFits(pc, op, u, code, codes'),
           pc = "supersede" => code \in Nat /\ code > issuedCodes,
           pc # "commit", NewRowOf(s),
           issuedCodes' \in Nat, issuedCodes <= issuedCodes', PasswordsRegistered'
    PROVE  AnswersInv'
  <1>1. /\ requests'[s].op = op /\ requests'[s].pc = pc /\ requests'[s].user = u
        /\ requests'[s].code = code
        /\ \A t \in Requests : t # s => requests'[t] = requests[t]
    BY HopPlaces DEF Types
  <1>2. ASSUME NEW t \in Requests, requests'[t].pc # "idle"
        PROVE  AnswerFits(requests'[t].pc, requests'[t].op, requests'[t].user,
                          requests'[t].code, codes')
    <2>1. CASE t = s
      BY <1>1, <2>1
    <2>2. CASE t # s
      BY <1>1, <1>2, <2>2, AnswerStays
    <2> QED BY <2>1, <2>2
  <1>3. PendingAsBefore
    BY <1>1 DEF PendingAsBefore, Pending
  <1>4. ASSUME NEW t \in Requests
        PROVE  Replaces(requests[t])'
    <2>1. CASE t = s
      BY <1>1, <2>1 DEF Replaces
    <2>2. CASE t # s
      BY <1>1, <1>3, <2>2, ReplacesStays
    <2> QED BY <2>1, <2>2
  <1> QED BY <1>2, <1>4 DEF AnswersInv, AnswersFit

LEMMA AnswersEnd ==
    ASSUME Types, CodesInv, AnswersInv, NEW s \in Requests, Ends(s), NewRowOf(s),
           UNCHANGED issuedCodes, PasswordsRegistered'
    PROVE  AnswersInv'
  <1>1. /\ requests'[s].pc = "idle"
        /\ \A t \in Requests : t # s => requests'[t] = requests[t]
    BY EndPlaces DEF Types
  <1>2. ASSUME NEW t \in Requests, requests'[t].pc # "idle"
        PROVE  AnswerFits(requests'[t].pc, requests'[t].op, requests'[t].user,
                          requests'[t].code, codes')
    BY <1>1, <1>2, AnswerStays
  <1>3. PendingAsBefore
    BY <1>1 DEF PendingAsBefore, Pending
  <1>4. issuedCodes' \in Nat /\ issuedCodes <= issuedCodes'
    BY DEF Types, TypeOK
  <1>5. ASSUME NEW t \in Requests
        PROVE  Replaces(requests[t])'
    <2>1. CASE t = s
      BY <1>1, <2>1 DEF Replaces
    <2>2. CASE t # s
      BY <1>1, <1>3, <1>4, <2>2, ReplacesStays
    <2> QED BY <2>1, <2>2
  <1> QED BY <1>2, <1>5 DEF AnswersInv, AnswersFit

\* Where no code is stored.
LEMMA NoNewRow ==
    ASSUME NEW s \in Requests, UNCHANGED codes
    PROVE  NewRowOf(s)
  BY DEF NewRowOf

LEMMA AnswersIssue ==
    ASSUME Types, CodesInv, AnswersInv, NEW s \in Requests, NEW r \in Request, IssuesCode(s, r)
    PROVE  AnswersInv'
  <1>1. /\ Hops(s, r.op, "supersede", r.user, issuedCodes', r.parent, r.token, r.family)
        /\ issuedCodes' = issuedCodes + 1
    BY IssueHops DEF Types
  <1>2. UNCHANGED <<account, codes>> /\ issuedCodes \in Nat
    BY DEF IssuesCode, Types, TypeOK
  <1>3. NewRowOf(s) /\ PasswordsRegistered'
    BY <1>2, NoNewRow DEF AnswersInv, PasswordsRegistered
  <1>4. AnswerFits("supersede", r.op, r.user, issuedCodes', codes')
    BY DEF AnswerFits, Answering
  <1>5. issuedCodes' \in Nat /\ issuedCodes' > issuedCodes /\ issuedCodes <= issuedCodes'
    BY <1>1, <1>2
  <1> HIDE DEF NewRowOf
  <1> QED BY <1>1, <1>3, <1>4, <1>5, AnswersHop

LEMMA AnswersArrive ==
    ASSUME Types, CodesInv, AnswersInv, NEW s \in Requests, Arrive(s)
    PROVE  AnswersInv'
  <1>0. issuedCodes \in Nat
    BY DEF Types, TypeOK
  <1>1. ASSUME NEW u \in Users, Register(s, u)
        PROVE  AnswersInv'
    <2>1. /\ Becomes(s, Arrived("register", u, "verify", "insert"))
          /\ UNCHANGED <<account, codes, issuedCodes>>
      BY <1>1 DEF Register, codeVars
    <2>2. Hops(s, "register", "insert", u, 0, 0, 0, 0)
      BY <2>1, ArriveHops DEF Ops, Purposes, Accesses
    <2>3. AnswerFits("insert", "register", u, 0, codes')
      BY DEF AnswerFits, Answering
    <2>4. NewRowOf(s) /\ PasswordsRegistered'
      BY <2>1, NoNewRow DEF AnswersInv, PasswordsRegistered
    <2> QED BY <1>0, <2>1, <2>2, <2>3, <2>4, AnswersHop
  <1>2. ASSUME NEW u \in Users, Resend(s, u) \/ Login(s, u) \/ Forgot(s, u)
        PROVE  AnswersInv'
    <2>1. PICK op \in {"resend", "login", "forgot"}, p \in Purposes :
             IssuesCode(s, Arrived(op, u, p, "supersede"))
      BY <1>2 DEF Resend, Login, Forgot, Purposes
    <2>2. Arrived(op, u, p, "supersede") \in Request
      BY ArrivedFields DEF Ops, Accesses
    <2> QED BY <2>1, <2>2, AnswersIssue
  <1>3. ASSUME NEW u \in Users, NEW guess \in Codes \cup {0}, NEW op \in Purposes,
               Confirm(s, u, op, guess)
        PROVE  AnswersInv'
    <2>1. PICK c \in Codes, pc \in {"consume", "compare"} :
             Answerable(u, op, c) /\ Hops(s, op, pc, u, c, 0, 0, 0)
      BY <1>3, ConfirmHops DEF Types
    <2>2. UNCHANGED <<account, codes, issuedCodes>>
      BY <1>3 DEF Confirm, codeVars
    <2>3. codes[c].user = u /\ codes[c].purpose = op
      BY <2>1 DEF Answerable, IsActive, Outstanding
    <2>4. AnswerFits(pc, op, u, c, codes')
      BY <2>2, <2>3 DEF AnswerFits
    <2>5. NewRowOf(s) /\ PasswordsRegistered'
      BY <2>2, NoNewRow DEF AnswersInv, PasswordsRegistered
    <2> QED BY <1>0, <2>1, <2>2, <2>4, <2>5, AnswersHop
  <1>4. ASSUME NEW t \in Tokens, Refresh(s, t) \/ Logout(s, t)
        PROVE  AnswersInv'
    <2>1. PICK op \in {"refresh", "logout"}, pc \in {"revoke", "discard", "rotate"} :
             Present(s, op, t, pc)
      BY <1>4 DEF Refresh, Logout, Rotation
    <2>2. pc \in Accesses
      BY DEF Accesses
    <2>3. Hops(s, op, pc, tokens[t].user, 0, t, 0, tokens[t].family)
      BY <2>1, <2>2, PresentHops DEF Types
    <2>4. UNCHANGED <<account, codes, issuedCodes>>
      BY <2>1 DEF Present, codeVars
    <2>5. AnswerFits(pc, op, tokens[t].user, 0, codes')
      BY DEF AnswerFits, Answering
    <2>6. NewRowOf(s) /\ PasswordsRegistered'
      BY <2>4, NoNewRow DEF AnswersInv, PasswordsRegistered
    <2> QED BY <1>0, <2>3, <2>4, <2>5, <2>6, AnswersHop
  <1> QED
    BY <1>1, <1>2, <1>3, <1>4 DEF Arrive, VerifyEmail, ResetPassword, Purposes

\* The UPDATE of an insert finds stored codes of the account and purpose.
LEMMA AnswersSupersede ==
    ASSUME Types, CodesInv, AnswersInv, NEW s \in Requests, SupersedeCodes(s)
    PROVE  AnswersInv'
  <1> DEFINE r == requests[s]
             S == Outstanding(codes, r.user, r.purpose)
             l == [r EXCEPT !.pc = "commit", !.superseded = S]
  <1>1. r.pc = "supersede" /\ r \in Request /\ r.user \in Users
    BY BusyFields DEF SupersedeCodes, At, Types
  <1>2. /\ requests' = [requests EXCEPT ![s] = l]
        /\ UNCHANGED <<account, codes, issuedCodes>>
    BY DEF SupersedeCodes, Becomes, codeVars
  <1>3. /\ l.pc = "commit" /\ l.superseded = S /\ l.user = r.user /\ l.purpose = r.purpose
        /\ l.code = r.code
    BY <1>1 DEF Request
  <1> HIDE DEF l
  <1>4. requests'[s] = l /\ \A t \in Requests \ {s} : requests'[t] = requests[t]
    BY <1>2 DEF Types, TypeOK
  <1>5. NewRowOf(s)
    BY <1>2, NoNewRow
  <1>6. PendingAsBefore
    BY <1>1, <1>3, <1>4 DEF PendingAsBefore, Pending
  <1>7. issuedCodes' \in Nat /\ issuedCodes <= issuedCodes'
    BY <1>2 DEF Types, TypeOK
  <1>8. ASSUME NEW t \in Requests
        PROVE  Replaces(requests[t])'
    <2>1. CASE t = s
      <3>1. ASSUME NEW d \in S
            PROVE  /\ d \in 1..issuedCodes
                   /\ codes[d].user = r.user /\ codes[d].purpose = r.purpose
                   /\ \A q \in Requests : requests[q].pc \in Pending => requests[q].code # d
        <4>1. d \in Codes /\ codes[d].user = r.user /\ codes[d].purpose = r.purpose
          BY DEF Outstanding
        <4>2. codes[d] # NoCode
          BY <1>1, <4>1, UsersAssumption DEF NoCode
        <4>3. d \in 1..issuedCodes
          BY <4>1, <4>2, Ranges, CodesAssumption DEF Types, CodesIssued, Codes
        <4>4. ASSUME NEW q \in Requests, requests[q].pc \in Pending
              PROVE  codes[requests[q].code] = NoCode
          BY <4>4 DEF CodesInv, AllFit, Fits, Pending
        <4> QED BY <4>1, <4>2, <4>3, <4>4
      <3>2. \A q \in Requests : requests'[q].pc \in Pending =>
               requests[q].pc \in Pending /\ requests'[q].code = requests[q].code
        BY <1>1, <1>3, <1>4 DEF Pending
      <3> HIDE DEF S, r
      <3> QED BY <1>2, <1>3, <1>4, <2>1, <3>1, <3>2 DEF Replaces
    <2>2. CASE t # s
      BY <1>4, <1>5, <1>6, <1>7, <2>2, ReplacesStays
    <2> QED BY <2>1, <2>2
  <1>9. ASSUME NEW t \in Requests, requests'[t].pc # "idle"
        PROVE  AnswerFits(requests'[t].pc, requests'[t].op, requests'[t].user,
                          requests'[t].code, codes')
    <2>1. CASE t = s
      BY <1>3, <1>4, <2>1 DEF AnswerFits, Answering
    <2>2. CASE t # s
      BY <1>4, <1>5, <1>9, <2>2, AnswerStays
    <2> QED BY <2>1, <2>2
  <1> QED BY <1>2, <1>8, <1>9 DEF AnswersInv, AnswersFit, PasswordsRegistered

LEMMA AnswersMailing ==
    ASSUME Types, CodesInv, AnswersInv, NEW s \in Requests,
           InsertAccount(s) \/ RegistrationCode(s) \/ SupersedeCodes(s) \/ CommitCode(s)
              \/ SendCode(s)
    PROVE  AnswersInv'
  <1> DEFINE u == requests[s].user
             c == requests[s].code
  <1>0. requests[s].pc # "idle" /\ issuedCodes \in Nat
    BY DEF InsertAccount, RegistrationCode, SupersedeCodes, CommitCode, SendCode, At, Types, TypeOK
  <1>1. u \in Users /\ requests[s] \in Request /\ requests[s].purpose \in Purposes
    BY <1>0, BusyFields DEF Types
  <1>2. \A pc \in {"lookup", "send"} : AnswerFits(pc, requests[s].op, u, c, codes')
    BY DEF AnswerFits, Answering
  <1>3. CASE InsertAccount(s)
    <2>1. UNCHANGED <<codes, issuedCodes>> /\ NewRowOf(s)
      BY <1>3, NoNewRow DEF InsertAccount, codeVars
    <2>2. PasswordsRegistered'
      <3>1. account' = account \/ account' = [account EXCEPT ![u] = NewAccount]
        BY <1>3 DEF InsertAccount
      <3> QED BY <1>1, <3>1 DEF AnswersInv, PasswordsRegistered, NewAccount, Types, TypeOK
    <2>3. CASE Goes(s, "lookup")
      <3>1. HopsTo(s, "lookup")
        BY <1>0, <2>3, GoHops DEF Types, Accesses
      <3> QED BY <1>0, <1>2, <2>1, <2>2, <3>1, AnswersHop DEF HopsTo
    <2> QED BY <1>3, <2>1, <2>2, <2>3, AnswersEnd DEF InsertAccount
  <1>4. CASE RegistrationCode(s)
    <2>1. CASE IssuesCode(s, requests[s])
      BY <1>1, <2>1, AnswersIssue
    <2>2. CASE Ends(s) /\ UNCHANGED <<account, codeVars, sessionVars>>
      BY <2>2, NoNewRow, AnswersEnd DEF codeVars, AnswersInv, PasswordsRegistered
    <2> QED BY <1>4, <2>1, <2>2 DEF RegistrationCode
  <1>5. CASE SupersedeCodes(s)
    BY <1>5, AnswersSupersede
  <1>6. CASE CommitCode(s)
    <2>1. HopsTo(s, "send") /\ UNCHANGED <<account, issuedCodes>>
      BY <1>6, CommitHops DEF CommitCode, Types
    <2>2. requests[s].pc = "commit" /\ c \in Codes
      BY <1>6, HeldCode DEF CommitCode, At, Holding
    <2>3. requests[s].superseded \in SUBSET Codes
      BY <1>1 DEF Request
    <2>4. codes' = Inserted(codes, c, NewCode(u, requests[s].purpose), requests[s].superseded)
      BY <1>6 DEF CommitCode
    <2>5. \A d \in Codes : d # c =>
                /\ codes'[d] # NoCode <=> codes[d] # NoCode
                /\ codes'[d].user = codes[d].user /\ codes'[d].purpose = codes[d].purpose
      BY <1>1, <2>2, <2>3, <2>4, InsertedTable DEF Types
    <2>6. NewRowOf(s)
      BY <2>2, <2>5 DEF NewRowOf
    <2>7. PasswordsRegistered'
      BY <2>1 DEF AnswersInv, PasswordsRegistered
    <2> QED BY <1>0, <1>2, <2>1, <2>6, <2>7, AnswersHop DEF HopsTo
  <1>7. CASE SendCode(s)
    <2>1. Ends(s) /\ UNCHANGED <<account, codes, issuedCodes>>
      BY <1>7 DEF SendCode
    <2> QED BY <2>1, NoNewRow, AnswersEnd DEF AnswersInv, PasswordsRegistered
  <1> QED BY <1>3, <1>4, <1>5, <1>6, <1>7

LEMMA AnswersAnswer ==
    ASSUME Types, VerifiedInv, CodesInv, AnswersInv, NEW s \in Requests,
           CompareStale(s) \/ RecordAttempt(s) \/ ConsumeCode(s) \/ ChangePassword(s)
    PROVE  AnswersInv'
  <1> DEFINE u == requests[s].user
             c == requests[s].code
  <1>0. /\ requests[s].pc \in {"compare", "attempt", "consume", "password"}
        /\ requests[s].pc # "idle" /\ issuedCodes \in Nat /\ UNCHANGED issuedCodes
    BY DEF CompareStale, RecordAttempt, ConsumeCode, ChangePassword, At, Types, TypeOK, codeVars
  <1>1. /\ u \in Users /\ c \in Codes /\ requests[s].op \in Purposes
        /\ requests[s].pc = "password" => requests[s].op = "reset"
    BY <1>0, HeldCode, BusyFields
    DEF Types, AnswersInv, AnswersFit, AnswerFits, Answering, Holding
  <1>2. NewRowOf(s)
    <2>1. \/ UNCHANGED codes
          \/ codes' = Attempted(codes, c)
          \/ codes' = Burnt(codes, c)
      BY DEF CompareStale, RecordAttempt, ConsumeCode, ChangePassword, codeVars
    <2> QED BY <1>1, <2>1, CodeTables DEF NewRowOf, Types
  <1>3. PasswordsRegistered'
    <2>1. CASE UNCHANGED account
      BY <2>1 DEF AnswersInv, PasswordsRegistered
    <2>2. CASE account' = [account EXCEPT ![u].password = c]
      <3>1. account[u].registered /\ account[u] \in AccountRows
        BY <1>0, <1>1 DEF VerifiedInv, VerifiedFirst, Settled, Types, TypeOK
      <3>2. account'[u].registered /\ \A v \in Users \ {u} : account'[v] = account[v]
        BY <1>1, <2>2, <3>1 DEF AccountRows, Types, TypeOK
      <3> QED BY <3>2 DEF AnswersInv, PasswordsRegistered
    <2> QED BY <2>1, <2>2 DEF CompareStale, RecordAttempt, ConsumeCode, ChangePassword
  <1>4. CASE CompareStale(s)
    <2>1. AnswerFits("attempt", requests[s].op, u, c, codes')
      BY <1>1 DEF AnswerFits
    <2>2. CASE HopsTo(s, "attempt")
      BY <1>0, <1>2, <1>3, <2>1, <2>2, AnswersHop DEF HopsTo
    <2> QED BY <1>0, <1>2, <1>3, <1>4, <2>2, CompareHops, AnswersEnd DEF Types
  <1>5. CASE RecordAttempt(s)
    BY <1>0, <1>2, <1>3, <1>5, AnswersEnd DEF RecordAttempt
  <1>6. CASE ConsumeCode(s)
    <2> DEFINE pc == IF requests[s].op = "reset" THEN "password" ELSE "verified"
    <2>1. HopsTo(s, pc)
      BY <1>6, ConsumeHops DEF Types
    <2>2. AnswerFits(pc, requests[s].op, u, c, codes') /\ pc \in {"password", "verified"}
      BY <1>1 DEF AnswerFits
    <2> HIDE DEF pc
    <2> QED BY <1>0, <1>2, <1>3, <2>1, <2>2, AnswersHop DEF HopsTo
  <1>7. CASE ChangePassword(s)
    <2>1. HopsTo(s, "verified")
      BY <1>0, <1>7, GoHops DEF Types, Accesses, ChangePassword
    <2>2. AnswerFits("verified", requests[s].op, u, c, codes')
      BY <1>1 DEF AnswerFits
    <2> QED BY <1>0, <1>2, <1>3, <2>1, <2>2, AnswersHop DEF HopsTo
  <1> QED BY <1>4, <1>5, <1>6, <1>7

LEMMA AnswersSessions ==
    ASSUME Types, CodesInv, AnswersInv, NEW s \in Requests,
           MarkVerified(s) \/ CloseSessions(s) \/ OpenSession(s) \/ RevokeFamily(s)
              \/ DiscardToken(s) \/ RotateToken(s) \/ RenewSession(s)
    PROVE  AnswersInv'
  <1> DEFINE u == requests[s].user
  <1>0. /\ requests[s].pc # "idle" /\ UNCHANGED <<codes, issuedCodes>> /\ issuedCodes \in Nat
        /\ NewRowOf(s)
    BY NoNewRow
    DEF MarkVerified, CloseSessions, OpenSession, RevokeFamily, DiscardToken, RotateToken,
        RenewSession, InsertToken, At, codeVars, Types, TypeOK
  <1>1. /\ u \in Users /\ requests[s] \in Request /\ requests[s].family \in Tokens \cup {0}
        /\ requests[s].pc \in Answering => requests[s].op \in Purposes
    BY <1>0, BusyFields DEF Types, AnswersInv, AnswersFit, AnswerFits
  <1>2. CASE MarkVerified(s)
    <2>1. PasswordsRegistered'
      <3> DEFINE r == [requests[s] EXCEPT !.code = 0]
      <3>1. r.user = u
        BY <1>1 DEF Request
      <3>2. account' = [account EXCEPT ![r.user].verified = TRUE]
        BY <1>2 DEF MarkVerified
      <3> HIDE DEF r
      <3>3. account'[u] = [account[u] EXCEPT !.verified = TRUE] /\ account[u] \in AccountRows
        BY <1>1, <3>1, <3>2 DEF Types, TypeOK
      <3>4. /\ account'[u].registered = account[u].registered
            /\ account'[u].password = account[u].password
        BY <3>3 DEF AccountRows
      <3> QED BY <1>1, <3>1, <3>2, <3>4 DEF AnswersInv, PasswordsRegistered, Types, TypeOK
    <2>2. requests[s].op \in Purposes
      BY <1>1, <1>2 DEF MarkVerified, At, Answering
    <2>3. CASE Hops(s, requests[s].op, "close", u, 0, requests[s].parent, requests[s].token,
                    requests[s].family) /\ requests[s].op = "reset"
      <3>1. AnswerFits("close", requests[s].op, u, 0, codes')
        BY <2>2, <2>3 DEF AnswerFits
      <3> QED BY <1>0, <2>1, <2>3, <3>1, AnswersHop
    <2>4. CASE Hops(s, requests[s].op, "open", u, 0, requests[s].parent, issuedTokens',
                    issuedTokens')
      <3>1. AnswerFits("open", requests[s].op, u, 0, codes')
        BY <2>2 DEF AnswerFits
      <3> QED BY <1>0, <2>1, <2>4, <3>1, AnswersHop
    <2> QED BY <1>2, <2>3, <2>4, MarkVerifiedHops DEF Types
  <1>3. CASE ~ MarkVerified(s)
    <2>0. PasswordsRegistered'
      BY <1>3 DEF CloseSessions, OpenSession, RevokeFamily, DiscardToken, RotateToken,
                  RenewSession, InsertToken, AnswersInv, PasswordsRegistered
    <2>1. ASSUME NEW f \in Tokens \cup {0}, NEW pc \in {"open", "renew"},
                 IssuesToken(s, requests[s], f, pc), pc = "open" => requests[s].pc = "close"
          PROVE  AnswersInv'
      <3> DEFINE g == IF f = 0 THEN issuedTokens' ELSE f
      <3>1. Hops(s, requests[s].op, pc, u, requests[s].code, requests[s].parent,
                 issuedTokens', g)
        BY <1>1, <2>1, TokenHops DEF Types, Accesses
      <3>2. AnswerFits(pc, requests[s].op, u, requests[s].code, codes')
        BY <1>1, <2>1 DEF AnswerFits, Answering
      <3> HIDE DEF g
      <3> QED BY <1>0, <2>0, <3>1, <3>2, AnswersHop
    <2>2. CASE CloseSessions(s) \/ RotateToken(s)
      <3>1. 0 \in Tokens \cup {0}
        OBVIOUS
      <3> QED BY <1>1, <2>1, <2>2, <3>1 DEF CloseSessions, RotateToken, At
    <2>3. CASE OpenSession(s) \/ RenewSession(s) \/ RevokeFamily(s) \/ DiscardToken(s)
      BY <1>0, <2>0, <2>3, AnswersEnd
      DEF OpenSession, RenewSession, InsertToken, RevokeFamily, DiscardToken
    <2> QED BY <1>3, <2>2, <2>3
  <1> QED BY <1>2, <1>3

LEMMA AnswersBackground ==
    ASSUME Types, CodesInv, AnswersInv,
           \/ ExpireCode \/ ExpireToken \/ PurgeCodes \/ PurgeTokens
           \/ \E s \in Requests : Abort(s)
           \/ UNCHANGED vars
    PROVE  AnswersInv'
  <1>1. ASSUME NEW s \in Requests, Abort(s)
        PROVE  AnswersInv'
    BY <1>1, NoNewRow, AnswersEnd DEF Abort, codeVars, AnswersInv, PasswordsRegistered
  <1>2. CASE ~ \E s \in Requests : Abort(s)
    <2>1. /\ UNCHANGED <<requests, account, issuedCodes>>
          /\ \A c \in Codes : codes'[c] \in {codes[c], NoCode}
      BY <1>2 DEF ExpireCode, ExpireToken, PurgeCodes, CodesPurged, PurgeTokens, vars, codeVars
    <2>2. ASSUME NEW t \in Requests, requests[t].pc # "idle"
          PROVE  AnswerFits(requests[t].pc, requests[t].op, requests[t].user,
                            requests[t].code, codes')
      <3>1. requests[t].pc = "consume" => requests[t].code \in Codes
        BY HeldCode DEF Holding
      <3> QED BY <2>1, <2>2, <3>1 DEF AnswersInv, AnswersFit, AnswerFits
    <2>3. ASSUME NEW t \in Requests
          PROVE  Replaces(requests[t])'
      <3>1. 1..issuedCodes \subseteq Codes
        BY Ranges DEF Types
      <3> QED BY <2>1, <3>1 DEF AnswersInv, Replaces
    <2> QED BY <2>1, <2>2, <2>3 DEF AnswersInv, AnswersFit, PasswordsRegistered
  <1> QED BY <1>1, <1>2

LEMMA AnswersInductive ==
    ASSUME Types, VerifiedInv, CodesInv, AnswersInv, [Next]_vars
    PROVE  AnswersInv'
  <1>1. CASE \E s \in Requests : Arrive(s)
    BY <1>1, AnswersArrive
  <1>2. CASE \E s \in Requests : Proceed(s)
    BY <1>2, AnswersMailing, AnswersAnswer, AnswersSessions DEF Proceed
  <1>3. CASE \/ ExpireCode \/ ExpireToken \/ PurgeCodes \/ PurgeTokens
             \/ \E s \in Requests : Abort(s)
             \/ UNCHANGED vars
    BY <1>3, AnswersBackground
  <1> QED BY <1>1, <1>2, <1>3 DEF Next

LEMMA AnswersInit == Init => AnswersInv
  BY IdleFields DEF Init, AnswersInv, AnswersFit, Replaces, PasswordsRegistered, NoAccount

-----------------------------------------------------------------------------
(***************************************************************************)
(* Families.                                                               *)
(***************************************************************************)
Bringing == {"open", "renew"}

Carrying == {"revoke", "discard", "rotate", "renew"}

\* A token that is not stored yet is known to nobody; the one that was presented
\* is, and its row, if it is still there, is as it was found.
TokenFits(pc, u, parent, token, family, table, known) ==
    /\ pc \in Bringing => token \notin known
    /\ pc = "open" => family = token
    /\ pc \in Carrying => /\ parent \in known /\ family \in known
                          /\ table[parent] # NoToken =>
                                table[parent].user = u /\ table[parent].family = family

TokensFit ==
    \A s \in Requests : requests[s].pc # "idle" =>
        TokenFits(requests[s].pc, requests[s].user, requests[s].parent, requests[s].token,
                  requests[s].family, tokens, handed)

TokensApart ==
    \A s, t \in Requests :
        (s # t /\ requests[s].pc \in Bringing /\ requests[t].pc \in Bringing)
            => requests[s].token # requests[t].token

TokensKnown ==
    \A t \in Tokens : tokens[t] # NoToken => t \in handed /\ tokens[t].family \in handed

\* A family, whatever is left of it, is of one account.
Owned(owner) ==
    /\ \A t \in Tokens : tokens[t] # NoToken => owner[tokens[t].family] = tokens[t].user
    /\ \A s \in Requests :
          requests[s].pc \in Carrying => owner[requests[s].family] = requests[s].user

FamiliesOwned == \E owner \in [Tokens -> Users \cup {"none"}] : Owned(owner)

TokensInv == TokensFit /\ TokensApart /\ TokensKnown /\ FamiliesOwned

\* A request carries on what it carried, or what is in a row.
CarriedBefore(s, pc, u, family) ==
    pc \in Carrying =>
        \/ requests[s].pc \in Carrying /\ requests[s].user = u /\ requests[s].family = family
        \/ \E t \in Tokens : /\ tokens[t] # NoToken
                             /\ tokens[t].user = u /\ tokens[t].family = family

\* Where no token is stored, the others keep what they have in hand.
LEMMA TokenStays ==
    ASSUME Types, TokensInv, Shrunk(tokens'), UNCHANGED handed,
           NEW t \in Requests, requests[t].pc # "idle"
    PROVE  TokenFits(requests[t].pc, requests[t].user, requests[t].parent, requests[t].token,
                     requests[t].family, tokens', handed')
  <1>1. TokenFits(requests[t].pc, requests[t].user, requests[t].parent, requests[t].token,
                  requests[t].family, tokens, handed)
    BY DEF TokensInv, TokensFit
  <1>2. handed \subseteq Tokens
    BY Ranges DEF Types, TypeOK
  <1> QED BY <1>1, <1>2 DEF TokenFits, Shrunk

LEMMA KnownStays ==
    ASSUME TokensInv, Shrunk(tokens'), UNCHANGED handed
    PROVE  TokensKnown'
  BY DEF TokensInv, TokensKnown, Shrunk

LEMMA TokensHop ==
    ASSUME Types, TokensInv, NEW s \in Requests, NEW op, NEW pc, NEW u, NEW code,
           NEW parent, NEW token, NEW family, Hops(s, op, pc, u, code, parent, token, family),
           TokenFits(pc, u, parent, token, family, tokens', handed'),
           pc \in Bringing => token \in Nat /\ token > issuedTokens,
           CarriedBefore(s, pc, u, family), Shrunk(tokens'), UNCHANGED handed
    PROVE  TokensInv'
  <1>1. /\ requests'[s].op = op /\ requests'[s].pc = pc /\ requests'[s].user = u
        /\ requests'[s].parent = parent /\ requests'[s].token = token
        /\ requests'[s].family = family
        /\ \A t \in Requests : t # s => requests'[t] = requests[t]
    BY HopPlaces DEF Types
  <1>2. ASSUME NEW t \in Requests, requests'[t].pc # "idle"
        PROVE  TokenFits(requests'[t].pc, requests'[t].user, requests'[t].parent,
                         requests'[t].token, requests'[t].family, tokens', handed')
    <2>1. CASE t = s
      BY <1>1, <2>1
    <2>2. CASE t # s
      BY <1>1, <1>2, <2>2, TokenStays
    <2> QED BY <2>1, <2>2
  <1>3. \A t \in Requests : requests[t].pc \in Bringing =>
           requests[t].token \in Nat /\ requests[t].token <= issuedTokens
    BY Ranges DEF Types, Shaped, Holds, Bringing
  <1>4. TokensApart'
    BY <1>1, <1>3, Ranges DEF TokensInv, TokensApart, Types
  <1>5. FamiliesOwned'
    <2>1. PICK owner \in [Tokens -> Users \cup {"none"}] : Owned(owner)
      BY DEF TokensInv, FamiliesOwned
    <2>2. \A t \in Tokens : tokens'[t] # NoToken => owner[tokens'[t].family] = tokens'[t].user
      BY <2>1 DEF Owned, Shrunk
    <2>3. pc \in Carrying => owner[family] = u
      BY <2>1 DEF Owned, CarriedBefore
    <2>4. \A t \in Requests :
             requests'[t].pc \in Carrying => owner[requests'[t].family] = requests'[t].user
      BY <1>1, <2>1, <2>3 DEF Owned
    <2> QED BY <2>2, <2>4 DEF FamiliesOwned, Owned
  <1> QED BY <1>2, <1>4, <1>5, KnownStays DEF TokensInv, TokensFit

\* Where s or nobody ends.
LEMMA TokensEnd ==
    ASSUME Types, TokensInv, NEW s \in Requests, Ends(s) \/ UNCHANGED requests,
           Shrunk(tokens'), UNCHANGED handed
    PROVE  TokensInv'
  <1>1. \A t \in Requests : requests'[t].pc = "idle" \/ requests'[t] = requests[t]
    BY EndPlaces DEF Types
  <1>2. \A t \in Requests : requests'[t].pc # "idle" =>
           TokenFits(requests'[t].pc, requests'[t].user, requests'[t].parent,
                     requests'[t].token, requests'[t].family, tokens', handed')
    BY <1>1, TokenStays
  <1>3. TokensApart'
    BY <1>1 DEF TokensInv, TokensApart, Bringing
  <1>4. FamiliesOwned'
    <2>1. PICK owner \in [Tokens -> Users \cup {"none"}] : Owned(owner)
      BY DEF TokensInv, FamiliesOwned
    <2>2. Owned(owner)'
      BY <1>1, <2>1 DEF Owned, Shrunk, Carrying
    <2> QED BY <2>2 DEF FamiliesOwned
  <1> QED BY <1>2, <1>3, <1>4, KnownStays DEF TokensInv, TokensFit

\* A request that has nothing to do with tokens.
LEMMA TokensPass ==
    ASSUME Types, TokensInv, NEW s \in Requests, NEW op, NEW pc, NEW u, NEW code,
           NEW parent, NEW token, NEW family, Hops(s, op, pc, u, code, parent, token, family),
           pc \notin Bringing \cup Carrying, UNCHANGED sessionVars
    PROVE  TokensInv'
  <1>1. TokenFits(pc, u, parent, token, family, tokens', handed')
    BY DEF TokenFits, Bringing
  <1>2. CarriedBefore(s, pc, u, family)
    BY DEF CarriedBefore
  <1>3. Shrunk(tokens') /\ UNCHANGED handed
    BY TokenTables DEF sessionVars, Types
  <1> QED BY <1>1, <1>2, <1>3, TokensHop

LEMMA TokensIssue ==
    ASSUME Types, TokensInv, NEW s \in Requests, NEW r \in Request, IssuesCode(s, r)
    PROVE  TokensInv'
  <1>1. Hops(s, r.op, "supersede", r.user, issuedCodes', r.parent, r.token, r.family)
    BY IssueHops DEF Types
  <1>2. UNCHANGED sessionVars
    BY DEF IssuesCode
  <1> QED BY <1>1, <1>2, TokensPass DEF Bringing, Carrying

LEMMA TokensArrive ==
    ASSUME Types, TokensInv, NEW s \in Requests, Arrive(s)
    PROVE  TokensInv'
  <1>1. ASSUME NEW u \in Users, Register(s, u)
        PROVE  TokensInv'
    <2>1. Becomes(s, Arrived("register", u, "verify", "insert")) /\ UNCHANGED sessionVars
      BY <1>1 DEF Register
    <2>2. Hops(s, "register", "insert", u, 0, 0, 0, 0)
      BY <2>1, ArriveHops DEF Ops, Purposes, Accesses
    <2> QED BY <2>1, <2>2, TokensPass DEF Bringing, Carrying
  <1>2. ASSUME NEW u \in Users, Resend(s, u) \/ Login(s, u) \/ Forgot(s, u)
        PROVE  TokensInv'
    <2>1. PICK op \in {"resend", "login", "forgot"}, p \in Purposes :
             IssuesCode(s, Arrived(op, u, p, "supersede"))
      BY <1>2 DEF Resend, Login, Forgot, Purposes
    <2>2. Arrived(op, u, p, "supersede") \in Request
      BY ArrivedFields DEF Ops, Accesses
    <2> QED BY <2>1, <2>2, TokensIssue
  <1>3. ASSUME NEW u \in Users, NEW guess \in Codes \cup {0}, NEW op \in Purposes,
               Confirm(s, u, op, guess)
        PROVE  TokensInv'
    <2>1. PICK c \in Codes, pc \in {"consume", "compare"} :
             Answerable(u, op, c) /\ Hops(s, op, pc, u, c, 0, 0, 0)
      BY <1>3, ConfirmHops DEF Types
    <2>2. UNCHANGED sessionVars
      BY <1>3 DEF Confirm
    <2> QED BY <2>1, <2>2, TokensPass DEF Bringing, Carrying
  <1>4. ASSUME NEW t \in Tokens, Refresh(s, t) \/ Logout(s, t)
        PROVE  TokensInv'
    <2>1. PICK op \in {"refresh", "logout"}, pc \in {"revoke", "discard", "rotate"} :
             Present(s, op, t, pc)
      BY <1>4 DEF Refresh, Logout, Rotation
    <2>2. pc \in Accesses
      BY DEF Accesses
    <2>3. Hops(s, op, pc, tokens[t].user, 0, t, 0, tokens[t].family) /\ tokens[t] # NoToken
      BY <2>1, <2>2, PresentHops DEF Types
    <2>4. UNCHANGED sessionVars
      BY <2>1 DEF Present
    <2>5. UNCHANGED <<tokens, handed>> /\ Shrunk(tokens')
      BY <2>4, TokenTables DEF sessionVars, Types
    <2>6. TokenFits(pc, tokens[t].user, t, 0, tokens[t].family, tokens', handed')
      BY <2>3, <2>5 DEF TokenFits, Bringing, TokensInv, TokensKnown
    <2>7. CarriedBefore(s, pc, tokens[t].user, tokens[t].family)
      BY <2>3 DEF CarriedBefore
    <2>8. pc \notin Bringing
      BY DEF Bringing
    <2> QED BY <2>3, <2>5, <2>6, <2>7, <2>8, TokensHop
  <1> QED
    BY <1>1, <1>2, <1>3, <1>4 DEF Arrive, VerifyEmail, ResetPassword, Purposes

LEMMA TokensCodes ==
    ASSUME Types, TokensInv, NEW s \in Requests,
           \/ InsertAccount(s) \/ RegistrationCode(s) \/ SupersedeCodes(s) \/ CommitCode(s)
           \/ SendCode(s)
           \/ CompareStale(s) \/ RecordAttempt(s) \/ ConsumeCode(s) \/ ChangePassword(s)
    PROVE  TokensInv'
  <1>0. requests[s].pc # "idle" /\ requests[s] \in Request
    BY BusyFields
    DEF InsertAccount, RegistrationCode, SupersedeCodes, CommitCode, SendCode,
        CompareStale, RecordAttempt, ConsumeCode, ChangePassword, At, Types
  <1>1. UNCHANGED sessionVars
    BY DEF InsertAccount, RegistrationCode, SupersedeCodes, CommitCode, SendCode, IssuesCode,
           CompareStale, RecordAttempt, ConsumeCode, ChangePassword
  <1>2. Shrunk(tokens') /\ UNCHANGED handed
    BY <1>1, TokenTables DEF sessionVars, Types
  <1>3. ASSUME NEW pc \in {"lookup", "commit", "send", "attempt", "password", "verified"},
               HopsTo(s, pc)
        PROVE  TokensInv'
    BY <1>1, <1>3, TokensPass DEF HopsTo, Bringing, Carrying
  <1>4. CASE Ends(s)
    BY <1>2, <1>4, TokensEnd
  <1>5. CASE InsertAccount(s)
    <2>1. Goes(s, "lookup") => HopsTo(s, "lookup")
      BY <1>0, GoHops DEF Types, Accesses
    <2> QED BY <1>3, <1>4, <1>5, <2>1 DEF InsertAccount
  <1>6. CASE RegistrationCode(s)
    BY <1>0, <1>4, <1>6, TokensIssue DEF RegistrationCode
  <1>7. CASE SupersedeCodes(s)
    BY <1>3, <1>7, SupersedeHops DEF Types
  <1>8. CASE CommitCode(s)
    BY <1>3, <1>8, CommitHops DEF Types
  <1>9. CASE CompareStale(s)
    BY <1>3, <1>4, <1>9, CompareHops DEF Types
  <1>10. CASE ConsumeCode(s)
    BY <1>3, <1>10, ConsumeHops DEF Types
  <1>11. CASE ChangePassword(s)
    <2>1. HopsTo(s, "verified")
      BY <1>0, <1>11, GoHops DEF Types, Accesses, ChangePassword
    <2> QED BY <1>3, <2>1
  <1> QED
    BY <1>4, <1>5, <1>6, <1>7, <1>8, <1>9, <1>10, <1>11 DEF SendCode, RecordAttempt

\* A token is issued: nobody has seen its number.
LEMMA TokensBring ==
    ASSUME Types, TokensInv, NEW s \in Requests, NEW r \in Request, NEW f \in Tokens \cup {0},
           NEW pc \in Bringing, IssuesToken(s, r, f, pc), Shrunk(tokens'), UNCHANGED handed,
           pc = "open" => f = 0,
           pc = "renew" => /\ requests[s].pc = "rotate" /\ f = requests[s].family
                           /\ r = requests[s]
    PROVE  TokensInv'
  <1> DEFINE g == IF f = 0 THEN issuedTokens' ELSE f
  <1>1. /\ Hops(s, r.op, pc, r.user, r.code, r.parent, issuedTokens', g)
        /\ issuedTokens' \in Tokens /\ issuedTokens' = issuedTokens + 1
    BY TokenHops DEF Types, Accesses, Bringing
  <1>2. issuedTokens \in Nat /\ handed \subseteq 1..issuedTokens
    BY DEF Types, TypeOK
  <1>3. issuedTokens' \in Nat /\ issuedTokens' > issuedTokens /\ issuedTokens' \notin handed
    BY <1>1, <1>2
  <1>4. pc = "renew" => /\ g = requests[s].family
                        /\ TokenFits("rotate", r.user, r.parent, r.token, g, tokens', handed')
    <2>1. requests[s].pc = "rotate" => requests[s].family \in Tokens /\ requests[s].family # 0
      BY TokensAssumption DEF Types, Shaped, Holds, Tokens
    <2>2. pc = "renew" =>
             TokenFits("rotate", r.user, r.parent, r.token, requests[s].family, tokens', handed')
      BY TokenStays
    <2> QED BY <2>1, <2>2
  <1>5. pc = "open" => g = issuedTokens'
    OBVIOUS
  <1>6. TokenFits(pc, r.user, r.parent, issuedTokens', g, tokens', handed')
    BY <1>3, <1>4, <1>5 DEF TokenFits, Bringing, Carrying
  <1>7. CarriedBefore(s, pc, r.user, g)
    BY <1>4 DEF CarriedBefore, Carrying, Bringing
  <1> HIDE DEF g
  <1> QED BY <1>1, <1>3, <1>6, <1>7, TokensHop

\* A token is stored: it begins a family or goes on with one of its account.
LEMMA TokensInsert ==
    ASSUME Types, TokensInv, NEW s \in Requests, OpenSession(s) \/ RenewSession(s)
    PROVE  TokensInv'
  <1> DEFINE u == requests[s].user
             t == requests[s].token
             f == requests[s].family
             pc == requests[s].pc
  <1>1. InsertToken(s) /\ pc \in Bringing /\ pc # "idle"
    BY DEF OpenSession, RenewSession, At, Bringing
  <1>2. t \in Tokens /\ f \in Tokens /\ u \in Users
    BY <1>1, Ranges, BusyFields DEF Types, Shaped, Holds, Bringing
  <1>3. Ends(s) /\ tokens' = [tokens EXCEPT ![t] = NewToken(u, f)] /\ handed' = handed \cup {t}
    BY <1>1 DEF InsertToken
  <1>4. /\ tokens'[t].user = u /\ tokens'[t].family = f
        /\ \A d \in Tokens \ {t} : tokens'[d] = tokens[d]
    BY <1>2, <1>3 DEF Types, TypeOK, NewToken
  <1>5. t \notin handed /\ f \in handed \cup {t} /\ (f # t => pc \in Carrying)
    BY <1>1 DEF TokensInv, TokensFit, TokenFits, Bringing, Carrying
  <1>6. \A q \in Requests : requests'[q].pc = "idle" \/ (q # s /\ requests'[q] = requests[q])
    BY <1>3, EndPlaces DEF Types
  <1>7. TokensKnown'
    BY <1>3, <1>4, <1>5 DEF TokensInv, TokensKnown
  <1>8. ASSUME NEW q \in Requests, q # s, requests[q].pc # "idle"
        PROVE  TokenFits(requests[q].pc, requests[q].user, requests[q].parent,
                         requests[q].token, requests[q].family, tokens', handed')
    <2>1. TokenFits(requests[q].pc, requests[q].user, requests[q].parent, requests[q].token,
                    requests[q].family, tokens, handed)
      BY <1>8 DEF TokensInv, TokensFit
    <2>2. requests[q].pc \in Bringing => requests[q].token # t
      BY <1>1, <1>8 DEF TokensInv, TokensApart
    <2>3. requests[q].pc \in Carrying =>
             requests[q].parent \in Tokens \ {t} /\ tokens'[requests[q].parent]
                = tokens[requests[q].parent]
      BY <1>4, <1>5, <2>1, Ranges DEF TokenFits, Types, TypeOK
    <2> HIDE DEF t
    <2> QED BY <1>3, <2>1, <2>2, <2>3 DEF TokenFits
  <1>9. TokensApart'
    BY <1>6 DEF TokensInv, TokensApart, Bringing
  <1>10. FamiliesOwned'
    <2>1. PICK owner \in [Tokens -> Users \cup {"none"}] : Owned(owner)
      BY DEF TokensInv, FamiliesOwned
    <2>2. CASE f = t
      <3> DEFINE after == [owner EXCEPT ![t] = u]
      <3>1. after \in [Tokens -> Users \cup {"none"}]
        BY <1>2
      <3>2. after[t] = u /\ \A g \in handed : after[g] = owner[g]
        BY <1>2, <1>5, Ranges DEF Types, TypeOK
      <3> HIDE DEF after
      <3>3. \A d \in Tokens : tokens'[d] # NoToken => after[tokens'[d].family] = tokens'[d].user
        BY <1>4, <2>1, <2>2, <3>2 DEF TokensInv, TokensKnown, Owned
      <3>4. \A q \in Requests :
               requests[q].pc \in Carrying => requests[q].family \in handed
        BY DEF TokensInv, TokensFit, TokenFits, Carrying
      <3>5. \A q \in Requests :
               requests'[q].pc \in Carrying => after[requests'[q].family] = requests'[q].user
        BY <1>6, <2>1, <3>2, <3>4 DEF Owned, Carrying
      <3> QED BY <3>1, <3>3, <3>5 DEF FamiliesOwned, Owned
    <2>3. CASE f # t
      <3>1. owner[f] = u
        BY <1>5, <2>1, <2>3 DEF Owned
      <3>2. Owned(owner)'
        BY <1>4, <1>6, <2>1, <3>1 DEF Owned, Carrying
      <3> QED BY <3>2 DEF FamiliesOwned
    <2> QED BY <2>2, <2>3
  <1> QED BY <1>6, <1>7, <1>8, <1>9, <1>10 DEF TokensInv, TokensFit

LEMMA TokensSessions ==
    ASSUME Types, TokensInv, NEW s \in Requests,
           MarkVerified(s) \/ CloseSessions(s) \/ OpenSession(s) \/ RevokeFamily(s)
              \/ DiscardToken(s) \/ RotateToken(s) \/ RenewSession(s)
    PROVE  TokensInv'
  <1>0. requests[s].pc # "idle"
    BY DEF MarkVerified, CloseSessions, OpenSession, RevokeFamily, DiscardToken, RotateToken,
           RenewSession, At
  <1>1. /\ requests[s] \in Request /\ requests[s].family \in Tokens \cup {0}
        /\ requests[s].pc \in {"discard", "rotate"} => requests[s].parent \in Tokens
        /\ 0 \in Tokens \cup {0}
    BY <1>0, BusyFields DEF Types, Shaped, Holds
  <1>2. CASE MarkVerified(s)
    <2> DEFINE r == [requests[s] EXCEPT !.code = 0]
    <2>1. r \in Request
      BY <1>1, WithoutCode
    <2>2. Shrunk(tokens') /\ UNCHANGED <<tokens, handed>>
      BY <1>2, TokenTables DEF MarkVerified, Types
    <2>3. \/ IssuesToken(s, r, 0, "open")
          \/ Becomes(s, [r EXCEPT !.pc = "close"])
      BY <1>2 DEF MarkVerified
    <2> HIDE DEF r
    <2>4. CASE IssuesToken(s, r, 0, "open")
      BY <1>1, <2>1, <2>2, <2>4, TokensBring DEF Bringing
    <2>5. CASE Becomes(s, [r EXCEPT !.pc = "close"])
      <3> DEFINE l == [r EXCEPT !.pc = "close"]
      <3>1. l \in Request /\ l.pc = "close"
        BY <2>1, AtPc DEF Request, Accesses
      <3> HIDE DEF l
      <3>2. requests' = [requests EXCEPT ![s] = l]
        BY <2>5 DEF Becomes, l
      <3>3. Hops(s, l.op, "close", l.user, l.code, l.parent, l.token, l.family)
        BY <3>1, <3>2 DEF Hops
      <3>4. TokenFits("close", l.user, l.parent, l.token, l.family, tokens', handed')
        BY DEF TokenFits, Bringing, Carrying
      <3>5. CarriedBefore(s, "close", l.user, l.family)
        BY DEF CarriedBefore, Carrying
      <3> QED BY <2>2, <3>3, <3>4, <3>5, TokensHop DEF Bringing
    <2> QED BY <2>3, <2>4, <2>5
  <1>3. CASE CloseSessions(s)
    <2>1. Shrunk(tokens') /\ UNCHANGED handed /\ IssuesToken(s, requests[s], 0, "open")
      BY <1>3, TokenTables DEF CloseSessions, Types
    <2> QED BY <1>1, <2>1, TokensBring DEF Bringing
  <1>4. CASE RotateToken(s)
    <2>1. /\ requests[s].pc = "rotate" /\ UNCHANGED handed
          /\ IssuesToken(s, requests[s], requests[s].family, "renew")
      BY <1>4 DEF RotateToken, At
    <2>2. Shrunk(tokens')
      BY <1>1, <1>4, <2>1, TokenTables DEF RotateToken, Types
    <2> QED BY <1>1, <2>1, <2>2, TokensBring DEF Bringing
  <1>5. CASE OpenSession(s) \/ RenewSession(s)
    BY <1>5, TokensInsert
  <1>6. CASE RevokeFamily(s) \/ DiscardToken(s)
    <2>1. Ends(s) /\ UNCHANGED handed
      BY <1>6 DEF RevokeFamily, DiscardToken
    <2>2. Shrunk(tokens')
      BY <1>1, <1>6, TokenTables DEF RevokeFamily, DiscardToken, At, Types
    <2> QED BY <2>1, <2>2, TokensEnd
  <1> QED BY <1>2, <1>3, <1>4, <1>5, <1>6

LEMMA TokensBackground ==
    ASSUME Types, TokensInv,
           \/ ExpireCode \/ ExpireToken \/ PurgeCodes \/ PurgeTokens
           \/ \E s \in Requests : Abort(s)
           \/ UNCHANGED vars
    PROVE  TokensInv'
  <1>1. Shrunk(tokens') /\ UNCHANGED handed
    BY TokenTables
    DEF ExpireCode, ExpireToken, PurgeCodes, PurgeTokens, Abort, vars, sessionVars, Types
  <1>2. CASE \E s \in Requests : Abort(s)
    BY <1>1, <1>2, TokensEnd DEF Abort
  <1>3. CASE UNCHANGED requests
    <2>1. TokensFit'
      BY <1>1, <1>3, TokenStays DEF TokensFit
    <2>2. TokensApart'
      BY <1>3 DEF TokensInv, TokensApart
    <2>3. PICK owner \in [Tokens -> Users \cup {"none"}] : Owned(owner)
      BY DEF TokensInv, FamiliesOwned
    <2>4. Owned(owner)'
      BY <1>1, <1>3, <2>3 DEF Owned, Shrunk
    <2> QED BY <1>1, <2>1, <2>2, <2>4, KnownStays DEF TokensInv, FamiliesOwned
  <1> QED
    BY <1>2, <1>3 DEF ExpireCode, ExpireToken, PurgeCodes, PurgeTokens, vars

LEMMA TokensInductive ==
    ASSUME Types, TokensInv, [Next]_vars
    PROVE  TokensInv'
  <1>1. CASE \E s \in Requests : Arrive(s)
    BY <1>1, TokensArrive
  <1>2. CASE \E s \in Requests : Proceed(s)
    BY <1>2, TokensCodes, TokensSessions DEF Proceed
  <1>3. CASE \/ ExpireCode \/ ExpireToken \/ PurgeCodes \/ PurgeTokens
             \/ \E s \in Requests : Abort(s)
             \/ UNCHANGED vars
    BY <1>3, TokensBackground
  <1> QED BY <1>1, <1>2, <1>3 DEF Next

LEMMA TokensInit == Init => TokensInv
  <1> SUFFICES ASSUME Init PROVE TokensInv
    OBVIOUS
  <1>1. TokensFit /\ TokensApart /\ TokensKnown
    BY IdleFields DEF Init, TokensFit, TokensApart, TokensKnown, Bringing
  <1> DEFINE owner == [t \in Tokens |-> "none"]
  <1>2. owner \in [Tokens -> Users \cup {"none"}]
    OBVIOUS
  <1>3. Owned(owner)
    BY IdleFields DEF Init, Owned, Carrying
  <1> QED BY <1>1, <1>2, <1>3 DEF TokensInv, FamiliesOwned

-----------------------------------------------------------------------------
(***************************************************************************)
(* Expired tokens stay so.                                                 *)
(***************************************************************************)
\* How a request goes on, or ends.
Only(s) == \A t \in Requests \ {s} : requests'[t] = requests[t]

LEMMA HopOnly ==
    ASSUME Types, NEW s \in Requests, NEW op, NEW pc, NEW u, NEW code, NEW parent,
           NEW token, NEW family, Hops(s, op, pc, u, code, parent, token, family)
    PROVE  /\ Only(s)
           /\ requests'[s].op = op /\ requests'[s].pc = pc /\ requests'[s].user = u
           /\ requests'[s].code = code /\ requests'[s].parent = parent
           /\ requests'[s].token = token /\ requests'[s].family = family
  BY HopPlaces DEF Only, Types

LEMMA HopToOnly ==
    ASSUME Types, NEW s \in Requests, NEW pc, HopsTo(s, pc)
    PROVE  /\ Only(s) /\ requests'[s].pc = pc /\ requests'[s].op = requests[s].op
           /\ requests'[s].user = requests[s].user /\ requests'[s].code = requests[s].code
  BY HopOnly DEF HopsTo

LEMMA EndOnly ==
    ASSUME Types, NEW s \in Requests, Ends(s)
    PROVE  Only(s) /\ requests'[s].pc = "idle"
  BY EndPlaces DEF Only, Types

\* A token that is about to be deleted as expired is so.
DiscardsLate ==
    \A s \in Requests : requests[s].pc = "discard" => requests[s].parent <= lateTokens

LEMMA DiscardsStay ==
    ASSUME DiscardsLate, NEW s \in Requests, Only(s), requests'[s].pc # "discard",
           UNCHANGED lateTokens
    PROVE  DiscardsLate'
  BY DEF DiscardsLate, Only

LEMMA DiscardsArrive ==
    ASSUME Types, DiscardsLate, NEW s \in Requests, Arrive(s)
    PROVE  DiscardsLate'
  <1>1. UNCHANGED lateTokens
    BY DEF Arrive, Register, Resend, Login, Forgot, VerifyEmail, ResetPassword, Confirm,
           Refresh, Logout, Present, IssuesCode, sessionVars
  <1>2. ASSUME NEW op, NEW pc \in Accesses \ {"discard"}, NEW u, NEW code, NEW parent, NEW token,
               NEW family, Hops(s, op, pc, u, code, parent, token, family)
        PROVE  DiscardsLate'
    BY <1>1, <1>2, HopOnly, DiscardsStay
  <1>3. ASSUME NEW u \in Users, Register(s, u)
        PROVE  DiscardsLate'
    <2>1. Hops(s, "register", "insert", u, 0, 0, 0, 0)
      BY <1>3, ArriveHops DEF Ops, Purposes, Accesses, Register, Types
    <2> QED BY <1>2, <2>1 DEF Accesses
  <1>4. ASSUME NEW u \in Users, Resend(s, u) \/ Login(s, u) \/ Forgot(s, u)
        PROVE  DiscardsLate'
    <2>1. PICK op \in {"resend", "login", "forgot"}, p \in Purposes :
             IssuesCode(s, Arrived(op, u, p, "supersede"))
      BY <1>4 DEF Resend, Login, Forgot, Purposes
    <2> DEFINE r == Arrived(op, u, p, "supersede")
    <2>2. r \in Request
      BY ArrivedFields DEF Ops, Accesses
    <2>3. Hops(s, r.op, "supersede", r.user, issuedCodes', r.parent, r.token, r.family)
      BY <2>1, <2>2, IssueHops DEF Types
    <2> QED BY <1>2, <2>3 DEF Accesses
  <1>5. ASSUME NEW u \in Users, NEW guess \in Codes \cup {0}, NEW op \in Purposes,
               Confirm(s, u, op, guess)
        PROVE  DiscardsLate'
    <2>1. PICK c \in Codes, pc \in {"consume", "compare"} :
             Answerable(u, op, c) /\ Hops(s, op, pc, u, c, 0, 0, 0)
      BY <1>5, ConfirmHops DEF Types
    <2> QED BY <1>2, <2>1 DEF Accesses
  <1>6. ASSUME NEW t \in Tokens, Refresh(s, t) \/ Logout(s, t)
        PROVE  DiscardsLate'
    <2>1. PICK op \in {"refresh", "logout"}, pc \in {"revoke", "discard", "rotate"} :
             Present(s, op, t, pc) /\ (pc = "discard" => t <= lateTokens)
      BY <1>6 DEF Refresh, Logout, Rotation
    <2>2. Hops(s, op, pc, tokens[t].user, 0, t, 0, tokens[t].family)
      BY <2>1, PresentHops DEF Types, Accesses
    <2>3. Only(s) /\ requests'[s].pc = pc /\ requests'[s].parent = t
      BY <2>2, HopOnly
    <2> QED BY <1>1, <2>1, <2>3 DEF DiscardsLate, Only
  <1> QED
    BY <1>3, <1>4, <1>5, <1>6 DEF Arrive, VerifyEmail, ResetPassword, Purposes

LEMMA DiscardsProceed ==
    ASSUME Types, DiscardsLate, NEW s \in Requests, Proceed(s) \/ Abort(s)
    PROVE  DiscardsLate'
  <1>0. requests[s].pc # "idle" /\ UNCHANGED lateTokens
    BY DEF Proceed, InsertAccount, RegistrationCode, SupersedeCodes, CommitCode, SendCode,
           CompareStale, RecordAttempt, ConsumeCode, ChangePassword, MarkVerified,
           CloseSessions, OpenSession, RevokeFamily, DiscardToken, RotateToken, RenewSession,
           InsertToken, IssuesCode, Abort, At, sessionVars
  <1>1. /\ requests[s] \in Request
        /\ requests[s].pc = "rotate" => requests[s].family \in Tokens
    BY <1>0, BusyFields DEF Types, Shaped, Holds
  <1>2. ASSUME NEW op, NEW pc \in Accesses \ {"discard"}, NEW u, NEW code, NEW parent, NEW token,
               NEW family, Hops(s, op, pc, u, code, parent, token, family)
        PROVE  DiscardsLate'
    BY <1>0, <1>2, HopOnly, DiscardsStay
  <1>3. ASSUME NEW pc \in Accesses \ {"discard"}, HopsTo(s, pc)
        PROVE  DiscardsLate'
    BY <1>2, <1>3 DEF HopsTo
  <1>4. CASE Ends(s)
    BY <1>0, <1>4, EndOnly, DiscardsStay
  <1>5. CASE IssuesCode(s, requests[s])
    <2>1. Hops(s, requests[s].op, "supersede", requests[s].user, issuedCodes',
               requests[s].parent, requests[s].token, requests[s].family)
      BY <1>1, <1>5, IssueHops DEF Types
    <2> QED BY <1>2, <2>1 DEF Accesses
  <1>6. ASSUME NEW f \in Tokens \cup {0}, NEW pc \in {"open", "renew"},
               IssuesToken(s, requests[s], f, pc)
        PROVE  DiscardsLate'
    <2>1. pc \in Accesses
      BY DEF Accesses
    <2>2. Hops(s, requests[s].op, pc, requests[s].user, requests[s].code, requests[s].parent,
               issuedTokens', IF f = 0 THEN issuedTokens' ELSE f)
      BY <1>1, <1>6, <2>1, TokenHops DEF Types
    <2> QED BY <1>2, <2>1, <2>2
  <1>7. CASE InsertAccount(s)
    <2>1. Goes(s, "lookup") => HopsTo(s, "lookup")
      BY <1>0, GoHops DEF Types, Accesses
    <2> QED BY <1>3, <1>4, <1>7, <2>1 DEF InsertAccount, Accesses
  <1>8. CASE RegistrationCode(s) \/ SendCode(s) \/ RecordAttempt(s) \/ Abort(s)
    BY <1>4, <1>5, <1>8 DEF RegistrationCode, SendCode, RecordAttempt, Abort
  <1>9. CASE SupersedeCodes(s) \/ CommitCode(s) \/ CompareStale(s)
    <2>1. \/ Ends(s) \/ HopsTo(s, "commit") \/ HopsTo(s, "send") \/ HopsTo(s, "attempt")
      BY <1>9, SupersedeHops, CommitHops, CompareHops DEF Types
    <2> QED BY <1>3, <1>4, <2>1 DEF Accesses
  <1>10. CASE ConsumeCode(s) \/ ChangePassword(s)
    <2>1. HopsTo(s, "password") \/ HopsTo(s, "verified")
      BY <1>0, <1>10, ConsumeHops, GoHops DEF Types, Accesses, ChangePassword
    <2> QED BY <1>3, <2>1 DEF Accesses
  <1>11. CASE MarkVerified(s)
    BY <1>2, <1>11, MarkVerifiedHops DEF Types, Accesses
  <1>12. CASE CloseSessions(s) \/ RotateToken(s)
    BY <1>1, <1>6, <1>12 DEF CloseSessions, RotateToken, At
  <1>13. CASE OpenSession(s) \/ RevokeFamily(s) \/ DiscardToken(s) \/ RenewSession(s)
    BY <1>4, <1>13 DEF OpenSession, RevokeFamily, DiscardToken, RenewSession, InsertToken
  <1> QED
    BY <1>7, <1>8, <1>9, <1>10, <1>11, <1>12, <1>13 DEF Proceed

LEMMA DiscardsInductive ==
    ASSUME Types, DiscardsLate, [Next]_vars
    PROVE  DiscardsLate'
  <1>1. CASE ExpireToken
    <2>1. \A s \in Requests : requests[s].pc = "discard" => requests[s].parent \in Tokens
      BY DEF Types, Shaped, Holds
    <2>2. lateTokens \in Nat /\ lateTokens' = lateTokens + 1 /\ UNCHANGED requests
      BY <1>1 DEF ExpireToken, Types, TypeOK
    <2> QED BY <2>1, <2>2, TokensAssumption DEF DiscardsLate, Tokens
  <1>2. CASE ExpireCode \/ PurgeCodes \/ PurgeTokens \/ UNCHANGED vars
    BY <1>2 DEF ExpireCode, PurgeCodes, PurgeTokens, vars, sessionVars, DiscardsLate
  <1> QED BY <1>1, <1>2, DiscardsArrive, DiscardsProceed DEF Next

LEMMA DiscardsInit == Init => DiscardsLate
  BY IdleFields DEF Init, DiscardsLate

-----------------------------------------------------------------------------
(***************************************************************************)
(* Every step but four races is one of the contract.                       *)
(***************************************************************************)
ContractStep == [Contract!Next]_(Contract!vars)

\* The state of the contract.
VerifiedUsers == {u \in Users : account[u].verified}

Passwords == [u \in Users |-> account[u].password]

UsableCodes ==
    {[user |-> codes[c].user, purpose |-> codes[c].purpose, code |-> c] :
        c \in {d \in Codes : Usable(codes, d, lateCodes)}}

LiveTokens ==
    {[user |-> tokens[t].user, family |-> tokens[t].family, token |-> t] :
        t \in {d \in Tokens : Fresh(tokens, d, lateTokens)}}

Grants == [s \in Requests |-> Entitled(requests[s])]

\* The operations of the contract as its state sees them.
LEMMA StutterStep ==
    ASSUME UNCHANGED <<VerifiedUsers, Passwords, UsableCodes, LiveTokens, Grants>>
    PROVE  ContractStep
  BY DEF ContractStep, Contract!vars, VerifiedUsers, Passwords, UsableCodes, LiveTokens, Grants

LEMMA WithdrawStep ==
    ASSUME UsableCodes' \subseteq UsableCodes,
           UNCHANGED <<VerifiedUsers, Passwords, LiveTokens, Grants>>
    PROVE  ContractStep
  BY DEF ContractStep, Contract!Next, Contract!Withdraw, VerifiedUsers, Passwords, UsableCodes,
         LiveTokens, Grants

LEMMA IssueStep ==
    ASSUME NEW u \in Users, NEW p \in Purposes, NEW c \in Codes,
           UsableCodes' = {x \in UsableCodes : ~ (x.user = u /\ x.purpose = p)}
                             \cup {Contract!CodeOf(u, p, c)},
           UNCHANGED <<VerifiedUsers, Passwords, LiveTokens, Grants>>
    PROVE  ContractStep
  <1>1. Contract!Issue(u, p, c)
    BY DEF Contract!Issue, VerifiedUsers, Passwords, UsableCodes, LiveTokens, Grants
  <1> QED BY <1>1 DEF ContractStep, Contract!Next

LEMMA PresentStep ==
    ASSUME NEW s \in Requests, NEW u \in Users, NEW p \in Purposes,
           \E x \in UsableCodes : x.user = u /\ x.purpose = p,
           Grants' = [Grants EXCEPT ![s] = Contract!Entitlement("answer", u, 0)],
           UNCHANGED <<VerifiedUsers, Passwords, UsableCodes, LiveTokens>>
    PROVE  ContractStep
  <1>1. Contract!Present(s, u, p)
    BY DEF Contract!Present, VerifiedUsers, Passwords, UsableCodes, LiveTokens, Grants
  <1> QED BY <1>1 DEF ContractStep, Contract!Next

LEMMA AnswerStep ==
    ASSUME NEW s \in Requests, NEW u \in Users, NEW p \in Purposes, NEW c \in Codes,
           Grants[s] = Contract!Entitlement("answer", u, 0),
           Contract!CodeOf(u, p, c) \in UsableCodes,
           UsableCodes' = UsableCodes \ {Contract!CodeOf(u, p, c)},
           Grants' = [Grants EXCEPT ![s] =
                        Contract!Entitlement(IF p = "reset" THEN "reset" ELSE "open", u, 0)],
           UNCHANGED <<VerifiedUsers, Passwords, LiveTokens>>
    PROVE  ContractStep
  <1>1. Contract!Answer(s, u, p, c)
    BY DEF Contract!Answer, VerifiedUsers, Passwords, UsableCodes, LiveTokens, Grants
  <1> QED BY <1>1 DEF ContractStep, Contract!Next

LEMMA SetPasswordStep ==
    ASSUME NEW s \in Requests, NEW u \in Users, NEW c \in Codes,
           Grants[s] = Contract!Entitlement("reset", u, 0),
           Passwords' = [Passwords EXCEPT ![u] = c],
           UNCHANGED <<VerifiedUsers, UsableCodes, LiveTokens, Grants>>
    PROVE  ContractStep
  <1>1. Contract!SetPassword(s, u, c)
    BY DEF Contract!SetPassword, VerifiedUsers, Passwords, UsableCodes, LiveTokens, Grants
  <1> QED BY <1>1 DEF ContractStep, Contract!Next

LEMMA VerifyStep ==
    ASSUME NEW s \in Requests, NEW u \in Users,
           Grants[s] \in {Contract!Entitlement("open", u, 0), Contract!Entitlement("reset", u, 0)},
           VerifiedUsers' = VerifiedUsers \cup {u},
           UNCHANGED <<Passwords, UsableCodes, LiveTokens, Grants>>
    PROVE  ContractStep
  <1>1. Contract!Verify(s, u)
    BY DEF Contract!Verify, VerifiedUsers, Passwords, UsableCodes, LiveTokens, Grants
  <1> QED BY <1>1 DEF ContractStep, Contract!Next

LEMMA CloseStep ==
    ASSUME NEW u \in Users, NEW f \in Tokens,
           LiveTokens' = LiveTokens \ Contract!Family(u, f),
           Grants' = Contract!Without(Contract!Renewing(u, {f})),
           UNCHANGED <<VerifiedUsers, Passwords, UsableCodes>>
    PROVE  ContractStep
  <1>1. Contract!Close(u, f)
    BY DEF Contract!Close, VerifiedUsers, Passwords, UsableCodes, LiveTokens, Grants
  <1> QED BY <1>1 DEF ContractStep, Contract!Next

LEMMA CloseAllStep ==
    ASSUME NEW s \in Requests, NEW u \in Users,
           Grants[s] = Contract!Entitlement("reset", u, 0),
           LiveTokens' = {x \in LiveTokens : x.user # u},
           Grants' = [Contract!Without(Contract!Renewing(u, Tokens)) EXCEPT ![s] =
                        Contract!Entitlement("open", u, 0)],
           UNCHANGED <<VerifiedUsers, Passwords, UsableCodes>>
    PROVE  ContractStep
  <1>1. Contract!CloseAll(s, u)
    BY DEF Contract!CloseAll, VerifiedUsers, Passwords, UsableCodes, LiveTokens, Grants
  <1> QED BY <1>1 DEF ContractStep, Contract!Next

LEMMA OpenStep ==
    ASSUME NEW s \in Requests, NEW u \in Users, NEW t \in Tokens,
           Grants[s] = Contract!Entitlement("open", u, 0), u \in VerifiedUsers,
           Contract!Family(u, t) = {},
           LiveTokens' = LiveTokens \cup {Contract!TokenOf(u, t, t)},
           Grants' = Contract!Without({s}),
           UNCHANGED <<VerifiedUsers, Passwords, UsableCodes>>
    PROVE  ContractStep
  <1>1. Contract!Open(s, u, t)
    BY DEF Contract!Open, VerifiedUsers, Passwords, UsableCodes, LiveTokens, Grants
  <1> QED BY <1>1 DEF ContractStep, Contract!Next

LEMMA RefreshStep ==
    ASSUME NEW s \in Requests, NEW u \in Users, NEW f \in Tokens,
           Contract!Family(u, f) # {},
           Grants' = [Grants EXCEPT ![s] = Contract!Entitlement("turn", u, f)],
           UNCHANGED <<VerifiedUsers, Passwords, UsableCodes, LiveTokens>>
    PROVE  ContractStep
  <1>1. Contract!Refresh(s, u, f)
    BY DEF Contract!Refresh, VerifiedUsers, Passwords, UsableCodes, LiveTokens, Grants
  <1> QED BY <1>1 DEF ContractStep, Contract!Next

LEMMA TurnStep ==
    ASSUME NEW s \in Requests, NEW u \in Users, NEW f \in Tokens, NEW t \in Tokens,
           Grants[s] = Contract!Entitlement("turn", u, f),
           Contract!TokenOf(u, f, t) \in LiveTokens,
           LiveTokens' = LiveTokens \ {Contract!TokenOf(u, f, t)},
           Grants' = [Grants EXCEPT ![s] = Contract!Entitlement("renew", u, f)],
           UNCHANGED <<VerifiedUsers, Passwords, UsableCodes>>
    PROVE  ContractStep
  <1>1. Contract!Turn(s, u, f, t)
    BY DEF Contract!Turn, VerifiedUsers, Passwords, UsableCodes, LiveTokens, Grants
  <1> QED BY <1>1 DEF ContractStep, Contract!Next

LEMMA RenewStep ==
    ASSUME NEW s \in Requests, NEW u \in Users, NEW f \in Tokens, NEW t \in Tokens,
           Grants[s] = Contract!Entitlement("renew", u, f), Contract!Family(u, f) = {},
           LiveTokens' = LiveTokens \cup {Contract!TokenOf(u, f, t)},
           Grants' = Contract!Without({s}),
           UNCHANGED <<VerifiedUsers, Passwords, UsableCodes>>
    PROVE  ContractStep
  <1>1. Contract!Renew(s, u, f, t)
    BY DEF Contract!Renew, VerifiedUsers, Passwords, UsableCodes, LiveTokens, Grants
  <1> QED BY <1>1 DEF ContractStep, Contract!Next

LEMMA LapseStep ==
    ASSUME NEW x \in LiveTokens, LiveTokens' = LiveTokens \ {x},
           UNCHANGED <<VerifiedUsers, Passwords, UsableCodes, Grants>>
    PROVE  ContractStep
  <1>1. Contract!Lapse(x)
    BY DEF Contract!Lapse, VerifiedUsers, Passwords, UsableCodes, LiveTokens, Grants
  <1> QED BY <1>1 DEF ContractStep, Contract!Next, LiveTokens

\* Some requests may lose what they were entitled to.
LEMMA DropStep ==
    ASSUME \A t \in Requests : Grants'[t] \in {Grants[t], Contract!Nothing},
           UNCHANGED <<VerifiedUsers, Passwords, UsableCodes, LiveTokens>>
    PROVE  ContractStep
  <1> DEFINE S == {t \in Requests : Grants'[t] = Contract!Nothing}
  <1>1. Contract!Without(S) = [t \in Requests |-> IF t \in S THEN Contract!Nothing ELSE Grants[t]]
    BY DEF Contract!Without, Grants
  <1>2. Grants' = [t \in Requests |-> Grants'[t]]
    BY DEF Grants
  <1>3. Grants' = Contract!Without(S)
    BY <1>1, <1>2
  <1> HIDE DEF S
  <1>4. Contract!Drop(S)
    BY <1>3 DEF Contract!Drop, VerifiedUsers, Passwords, UsableCodes, LiveTokens, Grants
  <1>5. S \in SUBSET Requests
    BY DEF S
  <1> QED BY <1>4, <1>5 DEF ContractStep, Contract!Next
-----------------------------------------------------------------------------
\* What request r may do, by a table of tokens.
EntitledIn(r, table) ==
    CASE r.pc = "consume" ->
            [may |-> "answer", user |-> r.user, family |-> 0]
      [] r.pc = "rotate" ->
            [may |-> "turn", user |-> r.user, family |-> r.family]
      [] r.pc \in Granted ->
            [may |-> IF r.op = "reset" /\ r.pc # "open" THEN "reset" ELSE "open",
             user |-> r.user, family |-> 0]
      [] r.pc = "renew" /\ table[r.parent] # NoToken ->
            [may |-> "renew", user |-> r.user, family |-> r.family]
      [] OTHER -> [may |-> "nothing"]

LEMMA GrantOf ==
    ASSUME NEW t \in Requests
    PROVE  /\ Grants[t] = EntitledIn(requests[t], tokens)
           /\ Grants'[t] = EntitledIn(requests'[t], tokens')
  BY DEF Grants, Entitled, EntitledIn

Entitling == Granted \cup {"consume", "rotate", "renew"}

LEMMA EntitledCases ==
    ASSUME NEW r, NEW table
    PROVE  /\ r.pc = "consume" =>
                EntitledIn(r, table) = Contract!Entitlement("answer", r.user, 0)
           /\ r.pc = "rotate" =>
                EntitledIn(r, table) = Contract!Entitlement("turn", r.user, r.family)
           /\ (r.pc \in {"password", "verified", "close"} /\ r.op = "reset") =>
                EntitledIn(r, table) = Contract!Entitlement("reset", r.user, 0)
           /\ (r.pc = "open" \/ (r.pc = "verified" /\ r.op # "reset")) =>
                EntitledIn(r, table) = Contract!Entitlement("open", r.user, 0)
           /\ (r.pc = "renew" /\ table[r.parent] # NoToken) =>
                EntitledIn(r, table) = Contract!Entitlement("renew", r.user, r.family)
           /\ (r.pc = "renew" /\ table[r.parent] = NoToken) =>
                EntitledIn(r, table) = Contract!Nothing
           /\ r.pc \notin Entitling => EntitledIn(r, table) = Contract!Nothing
  BY DEF EntitledIn, Granted, Entitling, Contract!Entitlement, Contract!Nothing

LEMMA EntitledStays ==
    ASSUME NEW r, NEW table, NEW after,
           r.pc = "renew" => (table[r.parent] = NoToken <=> after[r.parent] = NoToken)
    PROVE  EntitledIn(r, after) = EntitledIn(r, table)
  BY DEF EntitledIn

\* Who may renew.
LEMMA RenewingIs ==
    ASSUME NEW t \in Requests, NEW u, NEW F
    PROVE  t \in Contract!Renewing(u, F) <=>
             /\ requests[t].pc = "renew" /\ tokens[requests[t].parent] # NoToken
             /\ requests[t].user = u /\ requests[t].family \in F
  BY DEF Contract!Renewing, Entitled, Granted

LEMMA WithoutIs ==
    ASSUME NEW S, \A t \in Requests :
                     Grants'[t] = IF t \in S THEN Contract!Nothing ELSE Grants[t]
    PROVE  Grants' = Contract!Without(S)
  <1>1. Contract!Without(S) = [t \in Requests |-> IF t \in S THEN Contract!Nothing ELSE Grants[t]]
    BY DEF Contract!Without, Grants
  <1>2. Grants' = [t \in Requests |-> Grants'[t]]
    BY DEF Grants
  <1> QED BY <1>1, <1>2

LEMMA SetIs ==
    ASSUME NEW s \in Requests, \A t \in Requests \ {s} : Grants'[t] = Grants[t]
    PROVE  Grants' = [Grants EXCEPT ![s] = Grants'[s]]
  <1>1. Grants' = [t \in Requests |-> Grants'[t]] /\ Grants = [t \in Requests |-> Grants[t]]
    BY DEF Grants
  <1> QED BY <1>1

LEMMA SameIs ==
    ASSUME \A t \in Requests : Grants'[t] = Grants[t]
    PROVE  UNCHANGED Grants
  <1>1. Grants' = [t \in Requests |-> Grants'[t]] /\ Grants = [t \in Requests |-> Grants[t]]
    BY DEF Grants
  <1> QED BY <1>1

\* The rows of the tables as the contract sees them.
TokenIn(table, t) == Contract!TokenOf(table[t].user, table[t].family, t)

CodeIn(table, c) == Contract!CodeOf(table[c].user, table[c].purpose, c)

LEMMA LiveIs ==
    /\ \A x : x \in LiveTokens <=>
          \E t \in Tokens : Fresh(tokens, t, lateTokens) /\ x = TokenIn(tokens, t)
    /\ \A x : x \in LiveTokens' <=>
          \E t \in Tokens : Fresh(tokens', t, lateTokens') /\ x = TokenIn(tokens', t)
  BY DEF LiveTokens, TokenIn, Contract!TokenOf

LEMMA UsableIs ==
    /\ \A x : x \in UsableCodes <=>
          \E c \in Codes : Usable(codes, c, lateCodes) /\ x = CodeIn(codes, c)
    /\ \A x : x \in UsableCodes' <=>
          \E c \in Codes : Usable(codes', c, lateCodes') /\ x = CodeIn(codes', c)
  BY DEF UsableCodes, CodeIn, Contract!CodeOf

LEMMA TokenInFields ==
    ASSUME NEW table, NEW t
    PROVE  /\ TokenIn(table, t).user = table[t].user
           /\ TokenIn(table, t).family = table[t].family
           /\ TokenIn(table, t).token = t
  BY DEF TokenIn, Contract!TokenOf

LEMMA CodeInFields ==
    ASSUME NEW table, NEW c
    PROVE  /\ CodeIn(table, c).user = table[c].user
           /\ CodeIn(table, c).purpose = table[c].purpose
           /\ CodeIn(table, c).code = c
  BY DEF CodeIn, Contract!CodeOf

\* The tokens of L stop being fresh.
LEMMA LiveWithout ==
    ASSUME NEW L,
           \A t \in Tokens :
              /\ Fresh(tokens', t, lateTokens') <=>
                    Fresh(tokens, t, lateTokens) /\ TokenIn(tokens, t) \notin L
              /\ Fresh(tokens', t, lateTokens') =>
                    tokens'[t].user = tokens[t].user /\ tokens'[t].family = tokens[t].family
    PROVE  LiveTokens' = LiveTokens \ L
  <1>1. \A t \in Tokens : Fresh(tokens', t, lateTokens') => TokenIn(tokens', t) = TokenIn(tokens, t)
    BY DEF TokenIn
  <1>2. ASSUME NEW x
        PROVE  x \in LiveTokens' <=> x \in LiveTokens \ L
    BY <1>1, LiveIs
  <1> QED BY <1>2

LEMMA LiveSame ==
    ASSUME \A t \in Tokens :
              /\ Fresh(tokens', t, lateTokens') <=> Fresh(tokens, t, lateTokens)
              /\ Fresh(tokens', t, lateTokens') =>
                    tokens'[t].user = tokens[t].user /\ tokens'[t].family = tokens[t].family
    PROVE  UNCHANGED LiveTokens
  <1>1. LiveTokens' = LiveTokens \ {}
    BY LiveWithout
  <1> QED BY <1>1

\* Token t becomes fresh.
LEMMA LiveWith ==
    ASSUME NEW t \in Tokens, Fresh(tokens', t, lateTokens'), ~ Fresh(tokens, t, lateTokens),
           UNCHANGED lateTokens, \A d \in Tokens \ {t} : tokens'[d] = tokens[d]
    PROVE  LiveTokens' = LiveTokens \cup {TokenIn(tokens', t)}
  <1>1. \A d \in Tokens \ {t} : /\ Fresh(tokens', d, lateTokens') <=> Fresh(tokens, d, lateTokens)
                                /\ TokenIn(tokens', d) = TokenIn(tokens, d)
    BY DEF Fresh, TokenIn
  <1>2. ASSUME NEW x
        PROVE  x \in LiveTokens' <=> x \in LiveTokens \cup {TokenIn(tokens', t)}
    BY <1>1, LiveIs
  <1> QED BY <1>2

LEMMA UsableWithout ==
    ASSUME NEW L,
           \A c \in Codes :
              /\ Usable(codes', c, lateCodes') <=>
                    Usable(codes, c, lateCodes) /\ CodeIn(codes, c) \notin L
              /\ Usable(codes', c, lateCodes') =>
                    codes'[c].user = codes[c].user /\ codes'[c].purpose = codes[c].purpose
    PROVE  UsableCodes' = UsableCodes \ L
  <1>1. \A c \in Codes : Usable(codes', c, lateCodes') => CodeIn(codes', c) = CodeIn(codes, c)
    BY DEF CodeIn
  <1>2. ASSUME NEW x
        PROVE  x \in UsableCodes' <=> x \in UsableCodes \ L
    BY <1>1, UsableIs
  <1> QED BY <1>2

LEMMA UsableLess ==
    ASSUME \A c \in Codes :
              Usable(codes', c, lateCodes') =>
                 /\ Usable(codes, c, lateCodes)
                 /\ codes'[c].user = codes[c].user /\ codes'[c].purpose = codes[c].purpose
    PROVE  UsableCodes' \subseteq UsableCodes
  <1>1. \A c \in Codes : Usable(codes', c, lateCodes') => CodeIn(codes', c) = CodeIn(codes, c)
    BY DEF CodeIn
  <1>2. ASSUME NEW x, x \in UsableCodes'
        PROVE  x \in UsableCodes
    BY <1>1, <1>2, UsableIs
  <1> QED BY <1>2

\* Where a table is left alone.
LEMMA AccountsAlone ==
    ASSUME UNCHANGED account
    PROVE  UNCHANGED <<VerifiedUsers, Passwords>>
  BY DEF VerifiedUsers, Passwords

LEMMA CodesAlone ==
    ASSUME UNCHANGED <<codes, lateCodes>>
    PROVE  UNCHANGED UsableCodes
  BY DEF UsableCodes

LEMMA TokensAlone ==
    ASSUME UNCHANGED <<tokens, lateTokens>>
    PROVE  UNCHANGED LiveTokens
  BY DEF LiveTokens

\* A request that may do nothing goes on so, and the others go on.
LEMMA QuietGrants ==
    ASSUME NEW s \in Requests, \A t \in Requests \ {s} : requests'[t] = requests[t],
           requests[s].pc \notin Entitling, requests'[s].pc \notin Entitling, UNCHANGED tokens
    PROVE  UNCHANGED Grants
  <1>1. ASSUME NEW t \in Requests
        PROVE  Grants'[t] = Grants[t]
    BY GrantOf, EntitledCases
  <1> QED BY <1>1, SameIs

\* What s may do changes, and nothing else.
LEMMA OwnGrant ==
    ASSUME NEW s \in Requests, \A t \in Requests \ {s} : requests'[t] = requests[t],
           UNCHANGED tokens
    PROVE  Grants' = [Grants EXCEPT ![s] = EntitledIn(requests'[s], tokens')]
  <1>1. ASSUME NEW t \in Requests \ {s}
        PROVE  Grants'[t] = Grants[t]
    BY GrantOf
  <1>2. Grants'[s] = EntitledIn(requests'[s], tokens')
    BY GrantOf
  <1> QED BY <1>1, <1>2, SetIs

\* What the steps are judged by.
ContractInv == Types /\ VerifiedInv /\ CodesInv /\ AnswersInv /\ TokensInv

\* Where no table but that of accounts changes, and nobody may do more.
LEMMA QuietStep ==
    ASSUME NEW s \in Requests, Only(s), requests[s].pc \notin Entitling,
           requests'[s].pc \notin Entitling, UNCHANGED <<VerifiedUsers, Passwords>>,
           UNCHANGED <<codes, lateCodes, tokens, lateTokens>>
    PROVE  ContractStep
  <1>1. UNCHANGED <<UsableCodes, LiveTokens, Grants>>
    BY CodesAlone, TokensAlone, QuietGrants DEF Only
  <1> QED BY <1>1, StutterStep

LEMMA ArriveStep ==
    ASSUME ContractInv, NEW s \in Requests, Arrive(s)
    PROVE  ContractStep
  <1>0. /\ requests[s].pc = "idle" /\ requests[s].pc \notin Entitling /\ UNCHANGED account
        /\ UNCHANGED <<codes, lateCodes, tokens, lateTokens>> /\ Types
    BY DEF Arrive, Register, Resend, Login, Forgot, VerifyEmail, ResetPassword, Confirm,
           Refresh, Logout, Present, IssuesCode, codeVars, sessionVars, At, Entitling, Granted,
           ContractInv
  <1>1. UNCHANGED <<VerifiedUsers, Passwords, UsableCodes, LiveTokens>>
    BY <1>0, AccountsAlone, CodesAlone, TokensAlone
  <1>2. ASSUME Only(s), requests'[s].pc \notin Entitling
        PROVE  ContractStep
    BY <1>0, <1>1, <1>2, QuietStep
  <1>3. ASSUME NEW u \in Users, Register(s, u)
        PROVE  ContractStep
    <2>1. Hops(s, "register", "insert", u, 0, 0, 0, 0)
      BY <1>3, ArriveHops DEF Ops, Purposes, Accesses, Register
    <2> QED BY <1>0, <1>2, <2>1, HopOnly DEF Entitling, Granted
  <1>4. ASSUME NEW u \in Users, Resend(s, u) \/ Login(s, u) \/ Forgot(s, u)
        PROVE  ContractStep
    <2>1. PICK op \in {"resend", "login", "forgot"}, p \in Purposes :
             IssuesCode(s, Arrived(op, u, p, "supersede"))
      BY <1>4 DEF Resend, Login, Forgot, Purposes
    <2>2. Arrived(op, u, p, "supersede") \in Request
      BY ArrivedFields DEF Ops, Accesses
    <2> DEFINE r == Arrived(op, u, p, "supersede")
    <2>3. Hops(s, r.op, "supersede", r.user, issuedCodes', r.parent, r.token, r.family)
      BY <1>0, <2>1, <2>2, IssueHops DEF Types
    <2> QED BY <1>0, <1>2, <2>3, HopOnly DEF Entitling, Granted
  <1>5. ASSUME NEW u \in Users, NEW guess \in Codes \cup {0}, NEW op \in Purposes,
               Confirm(s, u, op, guess)
        PROVE  ContractStep
    <2>1. PICK c \in Codes, pc \in {"consume", "compare"} :
             Answerable(u, op, c) /\ Hops(s, op, pc, u, c, 0, 0, 0)
      BY <1>0, <1>5, ConfirmHops DEF Types
    <2>2. Only(s) /\ requests'[s].pc = pc /\ requests'[s].user = u
      BY <1>0, <2>1, HopOnly
    <2>3. CASE pc = "compare"
      BY <1>2, <2>2, <2>3 DEF Entitling, Granted
    <2>4. CASE pc = "consume"
      <3>1. codes[c].user = u /\ codes[c].purpose = op /\ Usable(codes, c, lateCodes)
        BY <2>1, UsersAssumption DEF Answerable, IsActive, Outstanding, Usable, NoCode
      <3>2. \E x \in UsableCodes : x.user = u /\ x.purpose = op
        BY <3>1, UsableIs, CodeInFields
      <3>3. Grants' = [Grants EXCEPT ![s] = Contract!Entitlement("answer", u, 0)]
        BY <1>0, <2>2, <2>4, OwnGrant, EntitledCases DEF Only
      <3> QED BY <1>1, <3>2, <3>3, PresentStep
    <2> QED BY <2>3, <2>4
  <1>6. ASSUME NEW t \in Tokens, Refresh(s, t) \/ Logout(s, t)
        PROVE  ContractStep
    <2>1. PICK op \in {"refresh", "logout"}, pc \in {"revoke", "discard", "rotate"} :
             /\ Present(s, op, t, pc)
             /\ pc = "rotate" => ~ tokens[t].consumed /\ t > lateTokens
      <3>1. CASE Refresh(s, t)
        <4>1. /\ Rotation(t) \in {"revoke", "discard", "rotate"}
              /\ Rotation(t) = "rotate" => ~ tokens[t].consumed /\ ~ (t <= lateTokens)
          BY DEF Rotation
        <4>2. Rotation(t) = "rotate" => ~ tokens[t].consumed /\ t > lateTokens
          BY <1>0, <4>1, TokensAssumption DEF Types, TypeOK, Tokens
        <4> HIDE DEF Rotation
        <4> QED BY <3>1, <4>1, <4>2 DEF Refresh
      <3>2. CASE Logout(s, t)
        BY <3>2 DEF Logout
      <3> QED BY <1>6, <3>1, <3>2
    <2>2. pc \in Accesses
      BY DEF Accesses
    <2>3. /\ Hops(s, op, pc, tokens[t].user, 0, t, 0, tokens[t].family)
          /\ tokens[t] # NoToken /\ tokens[t] \in TokenRows(Users)
      BY <1>0, <2>1, <2>2, PresentHops DEF Types
    <2>4. /\ Only(s) /\ requests'[s].pc = pc /\ requests'[s].user = tokens[t].user
          /\ requests'[s].family = tokens[t].family
      BY <1>0, <2>3, HopOnly
    <2>5. CASE pc # "rotate"
      BY <1>2, <2>4, <2>5 DEF Entitling, Granted
    <2>6. CASE pc = "rotate"
      <3> DEFINE u == tokens[t].user
                 f == tokens[t].family
      <3>1. u \in Users /\ f \in Tokens
        BY <2>3 DEF TokenRows
      <3>2. Fresh(tokens, t, lateTokens)
        BY <2>1, <2>3, <2>6 DEF Fresh
      <3>3. TokenIn(tokens, t) \in LiveTokens
        BY <3>2, LiveIs
      <3>4. Contract!Family(u, f) # {}
        <4>1. TokenIn(tokens, t) \in {x \in LiveTokens : x.user = u /\ x.family = f}
          BY <3>3, TokenInFields
        <4> QED BY <4>1 DEF Contract!Family, LiveTokens
      <3>5. Grants' = [Grants EXCEPT ![s] = Contract!Entitlement("turn", u, f)]
        BY <1>0, <2>4, <2>6, OwnGrant, EntitledCases DEF Only
      <3> HIDE DEF u, f
      <3> QED BY <1>1, <3>1, <3>4, <3>5, RefreshStep
    <2> QED BY <2>5, <2>6
  <1> QED
    BY <1>3, <1>4, <1>5, <1>6 DEF Arrive, VerifyEmail, ResetPassword, Purposes

-----------------------------------------------------------------------------
(***************************************************************************)
(* The steps, one action at a time.                                        *)
(***************************************************************************)
\* What is said of a step by a request s: it follows the contract unless s acts on what it
\* read earlier.
Follows(s) == ContractStep \/ ActsOnStale(s)

\* A code is stored.
LEMMA CommitStep ==
    ASSUME ContractInv, NEW s \in Requests, CommitCode(s)
    PROVE  Follows(s)
  <1> DEFINE r == requests[s]
             u == r.user
             p == r.purpose
             c == r.code
             S == r.superseded
  <1>0. Types /\ r.pc = "commit" /\ r.pc # "idle"
    BY DEF ContractInv, CommitCode, At
  <1>1. r \in Request /\ u \in Users /\ p \in Purposes /\ c \in Codes /\ S \in SUBSET Codes
    BY <1>0, BusyFields, HeldCode DEF Types, Holding, Request
  <1>2. /\ codes' = Inserted(codes, c, NewCode(u, p), S)
        /\ UNCHANGED <<account, lateCodes, tokens, lateTokens>>
    BY DEF CommitCode, sessionVars
  <1>3. HopsTo(s, "send")
    BY <1>0, CommitHops DEF Types
  <1>4. Only(s) /\ requests'[s].pc = "send"
    BY <1>0, <1>3, HopToOnly
  <1>5. UNCHANGED <<VerifiedUsers, Passwords, LiveTokens, Grants>>
    <2>1. UNCHANGED Grants
      BY <1>0, <1>2, <1>4, QuietGrants DEF Only, Entitling, Granted
    <2> QED BY <1>2, <2>1, AccountsAlone, TokensAlone
  <1>6. codes[c] = NoCode
    BY <1>0 DEF ContractInv, CodesInv, AllFit, Fits, Pending
  <1>7. \A d \in S : codes[d] # NoCode => codes[d].user = u /\ codes[d].purpose = p
    BY <1>0 DEF ContractInv, AnswersInv, Replaces
  <1>8. SUFFICES ASSUME ~ ActsOnStale(s)
                 PROVE  ContractStep
    BY DEF Follows
  <1>9. \A d \in Outstanding(codes, u, p) \ S : ~ Usable(codes, d, lateCodes)
    <2>1. requests'[s] # r
      BY <1>0, <1>4
    <2> QED BY <1>0, <1>8, <2>1 DEF ActsOnStale
  <1>10. /\ codes'[c] = NewCode(u, p)
         /\ \A d \in Codes \ {c} :
               codes'[d] = IF d \in S /\ codes[d] # NoCode
                           THEN [codes[d] EXCEPT !.consumed = TRUE] ELSE codes[d]
    BY <1>1, <1>2 DEF Inserted
  <1>11. ASSUME NEW d \in Codes \ {c}
         PROVE  /\ Usable(codes', d, lateCodes') <=>
                      /\ Usable(codes, d, lateCodes)
                      /\ ~ (codes[d].user = u /\ codes[d].purpose = p)
                /\ Usable(codes', d, lateCodes') => codes'[d] = codes[d]
    <2>1. CASE codes[d] = NoCode
      BY <1>2, <1>10, <2>1 DEF Usable
    <2>2. CASE codes[d] # NoCode /\ d \in S
      <3>1. codes[d] \in CodeRows(Users)
        BY <1>0, <2>2 DEF Types, TypeOK
      <3>2. [codes[d] EXCEPT !.consumed = TRUE].consumed = TRUE
        BY <3>1 DEF CodeRows
      <3>3. ~ Usable(codes', d, lateCodes')
        BY <1>10, <2>2, <3>2 DEF Usable
      <3> QED BY <1>7, <2>2, <3>3
    <2>3. CASE codes[d] # NoCode /\ d \notin S
      <3>1. codes'[d] = codes[d]
        BY <1>10, <2>3
      <3>2. Usable(codes', d, lateCodes') <=> Usable(codes, d, lateCodes)
        BY <1>2, <3>1 DEF Usable
      <3>3. (codes[d].user = u /\ codes[d].purpose = p) => ~ Usable(codes, d, lateCodes)
        BY <1>9, <2>3 DEF Outstanding, Usable
      <3> QED BY <3>1, <3>2, <3>3
    <2> QED BY <2>1, <2>2, <2>3
  <1>12. ~ Usable(codes, c, lateCodes) /\ CodeIn(codes', c) = Contract!CodeOf(u, p, c)
    BY <1>6, <1>10 DEF Usable, CodeIn, NewCode
  <1>13. CASE Usable(codes', c, lateCodes')
    <2> HIDE DEF u, p, c, S
    <2>1. ASSUME NEW x
          PROVE  x \in UsableCodes' <=>
                    x \in {y \in UsableCodes : ~ (y.user = u /\ y.purpose = p)}
                             \cup {Contract!CodeOf(u, p, c)}
      <3>1. \A d \in Codes \ {c} :
               Usable(codes', d, lateCodes') => CodeIn(codes', d) = CodeIn(codes, d)
        BY <1>11 DEF CodeIn
      <3>2. x \in UsableCodes' <=>
               \/ x = Contract!CodeOf(u, p, c)
               \/ \E d \in Codes \ {c} :
                     /\ Usable(codes, d, lateCodes)
                     /\ ~ (codes[d].user = u /\ codes[d].purpose = p)
                     /\ x = CodeIn(codes, d)
        BY <1>1, <1>11, <1>12, <1>13, <3>1, UsableIs
      <3>3. (x \in UsableCodes /\ ~ (x.user = u /\ x.purpose = p)) <=>
               \E d \in Codes \ {c} :
                     /\ Usable(codes, d, lateCodes)
                     /\ ~ (codes[d].user = u /\ codes[d].purpose = p)
                     /\ x = CodeIn(codes, d)
        BY <1>12, UsableIs, CodeInFields
      <3> QED BY <3>2, <3>3
    <2>2. UsableCodes' = {y \in UsableCodes : ~ (y.user = u /\ y.purpose = p)}
                             \cup {Contract!CodeOf(u, p, c)}
      BY <2>1
    <2> QED BY <1>1, <1>5, <2>2, IssueStep
  <1>14. CASE ~ Usable(codes', c, lateCodes')
    <2>1. UsableCodes' \subseteq UsableCodes
      BY <1>11, <1>14, UsableLess
    <2> QED BY <1>5, <2>1, WithdrawStep
  <1> QED BY <1>13, <1>14

LEMMA MailingStep ==
    ASSUME ContractInv, NEW s \in Requests,
           InsertAccount(s) \/ RegistrationCode(s) \/ SupersedeCodes(s) \/ SendCode(s)
    PROVE  ContractStep
  <1>0. /\ requests[s].pc # "idle" /\ requests[s].pc \notin Entitling /\ Types
        /\ UNCHANGED <<codes, lateCodes, tokens, lateTokens>>
    BY DEF InsertAccount, RegistrationCode, SupersedeCodes, SendCode, IssuesCode, At,
           codeVars, sessionVars, Entitling, Granted, ContractInv
  <1>1. requests[s] \in Request /\ requests[s].user \in Users
    BY <1>0, BusyFields DEF Types
  <1>2. Only(s) /\ requests'[s].pc \notin Entitling
    <2>1. \/ Ends(s) \/ \E pc \in {"lookup", "commit"} : HopsTo(s, pc)
          \/ IssuesCode(s, requests[s])
      <3>1. Goes(s, "lookup") => HopsTo(s, "lookup")
        BY <1>0, GoHops DEF Types, Accesses
      <3> QED BY <1>0, <3>1, SupersedeHops
              DEF InsertAccount, RegistrationCode, SendCode, Types
    <2>2. CASE IssuesCode(s, requests[s])
      <3>1. Hops(s, requests[s].op, "supersede", requests[s].user, issuedCodes',
                 requests[s].parent, requests[s].token, requests[s].family)
        BY <1>0, <1>1, <2>2, IssueHops DEF Types
      <3> QED BY <1>0, <3>1, HopOnly DEF Entitling, Granted
    <2>3. ASSUME NEW pc \in {"lookup", "commit"}, HopsTo(s, pc)
          PROVE  Only(s) /\ requests'[s].pc \notin Entitling
      BY <1>0, <2>3, HopToOnly DEF Entitling, Granted
    <2>4. CASE Ends(s)
      BY <1>0, <2>4, EndOnly DEF Entitling, Granted
    <2> QED BY <2>1, <2>2, <2>3, <2>4
  <1>3. UNCHANGED <<VerifiedUsers, Passwords>>
    <2>1. CASE UNCHANGED account
      BY <2>1, AccountsAlone
    <2>2. CASE /\ InsertAccount(s) /\ AddressFree(requests[s].user)
               /\ account' = [account EXCEPT ![requests[s].user] = NewAccount]
      <3> DEFINE u == requests[s].user
      <3>1. ~ account[u].verified /\ account[u].password = 0
        BY <1>1, <2>2
        DEF AddressFree, ContractInv, VerifiedInv, OnlyRegistered, AnswersInv,
            PasswordsRegistered
      <3>2. /\ ~ account'[u].verified /\ account'[u].password = 0
            /\ \A v \in Users \ {u} : account'[v] = account[v]
        BY <1>0, <1>1, <2>2 DEF NewAccount, Types, TypeOK
      <3> QED BY <3>1, <3>2 DEF VerifiedUsers, Passwords
    <2> QED BY <2>1, <2>2 DEF InsertAccount, RegistrationCode, SupersedeCodes, SendCode, IssuesCode
  <1> QED BY <1>0, <1>2, <1>3, QuietStep

\* A code is answered.
LEMMA ConsumeStep ==
    ASSUME ContractInv, NEW s \in Requests, ConsumeCode(s)
    PROVE  Follows(s)
  <1> DEFINE r == requests[s]
             u == r.user
             p == r.op
             c == r.code
             pc == IF r.op = "reset" THEN "password" ELSE "verified"
  <1>0. Types /\ r.pc = "consume" /\ r.pc # "idle"
    BY DEF ContractInv, ConsumeCode, At
  <1>1. u \in Users /\ c \in Codes /\ p \in Purposes
    BY <1>0, BusyFields, HeldCode
    DEF Types, Holding, ContractInv, AnswersInv, AnswersFit, AnswerFits, Answering
  <1>2. codes' = Burnt(codes, c) /\ UNCHANGED <<account, lateCodes, tokens, lateTokens>>
    BY DEF ConsumeCode, sessionVars
  <1>3. HopsTo(s, pc)
    BY <1>0, ConsumeHops DEF Types
  <1>4. /\ Only(s) /\ requests'[s].pc = pc /\ requests'[s].op = r.op /\ requests'[s].user = u
    BY <1>0, <1>3, HopToOnly
  <1>5. SUFFICES ASSUME ~ ActsOnStale(s)
                 PROVE  ContractStep
    BY DEF Follows
  <1>6. Usable(codes, c, lateCodes)
    <2>1. requests'[s] # r
      BY <1>0, <1>4
    <2> QED BY <1>0, <1>5, <2>1 DEF ActsOnStale
  <1>7. codes[c] # NoCode /\ codes[c].user = u /\ codes[c].purpose = p
    BY <1>0, <1>6 DEF Usable, ContractInv, AnswersInv, AnswersFit, AnswerFits
  <1>8. CodeIn(codes, c) = Contract!CodeOf(u, p, c)
    BY <1>7 DEF CodeIn
  <1>9. ASSUME NEW d \in Codes
        PROVE  /\ Usable(codes', d, lateCodes') <=>
                    Usable(codes, d, lateCodes) /\ CodeIn(codes, d) \notin {CodeIn(codes, c)}
               /\ Usable(codes', d, lateCodes') =>
                    codes'[d].user = codes[d].user /\ codes'[d].purpose = codes[d].purpose
    <2>1. codes' = [codes EXCEPT ![c].consumed = TRUE]
      BY <1>2, <1>7 DEF Burnt
    <2>2. CASE d = c
      <3>1. codes'[c].consumed
        BY <1>0, <1>1, <1>2, <1>7, CodeTables DEF Types
      <3> QED BY <2>2, <3>1 DEF Usable
    <2>3. CASE d # c
      <3>1. codes'[d] = codes[d]
        BY <1>0, <1>1, <2>1, <2>3 DEF Types, TypeOK
      <3>2. CodeIn(codes, d) # CodeIn(codes, c)
        BY <2>3, CodeInFields
      <3> QED BY <1>2, <3>1, <3>2 DEF Usable
    <2> QED BY <2>2, <2>3
  <1>10. UsableCodes' = UsableCodes \ {Contract!CodeOf(u, p, c)}
    BY <1>8, <1>9, UsableWithout
  <1>11. Contract!CodeOf(u, p, c) \in UsableCodes
    BY <1>1, <1>6, <1>8, UsableIs
  <1>12. Grants[s] = Contract!Entitlement("answer", u, 0)
    BY <1>0, GrantOf, EntitledCases
  <1>13. Grants' = [Grants EXCEPT ![s] =
                      Contract!Entitlement(IF p = "reset" THEN "reset" ELSE "open", u, 0)]
    <2>1. EntitledIn(requests'[s], tokens')
             = Contract!Entitlement(IF p = "reset" THEN "reset" ELSE "open", u, 0)
      BY <1>4, EntitledCases
    <2> QED BY <1>2, <1>4, <2>1, OwnGrant DEF Only
  <1>14. UNCHANGED <<VerifiedUsers, Passwords, LiveTokens>>
    BY <1>2, AccountsAlone, TokensAlone
  <1> HIDE DEF u, p, c
  <1> QED BY <1>1, <1>10, <1>11, <1>12, <1>13, <1>14, AnswerStep

LEMMA GuessStep ==
    ASSUME ContractInv, NEW s \in Requests, CompareStale(s) \/ RecordAttempt(s)
    PROVE  ContractStep
  <1>0. /\ requests[s].pc \in {"compare", "attempt"} /\ requests[s].pc \notin Entitling /\ Types
        /\ UNCHANGED <<account, lateCodes, tokens, lateTokens>>
    BY DEF CompareStale, RecordAttempt, At, codeVars, sessionVars, Entitling, Granted,
           ContractInv
  <1>1. Only(s) /\ requests'[s].pc \notin Entitling
    BY <1>0, CompareHops, EndOnly, HopToOnly DEF RecordAttempt, Types, Entitling, Granted
  <1>2. requests[s].code \in Codes
    BY <1>0, HeldCode DEF Holding
  <1>3. CASE CompareStale(s)
    <2>1. UNCHANGED codes
      BY <1>3 DEF CompareStale, codeVars
    <2> QED BY <1>0, <1>1, <2>1, AccountsAlone, QuietStep
  <1>4. CASE RecordAttempt(s)
    <2>1. codes' = Attempted(codes, requests[s].code)
      BY <1>4 DEF RecordAttempt
    <2>2. ASSUME NEW c \in Codes, Usable(codes', c, lateCodes')
          PROVE  /\ Usable(codes, c, lateCodes)
                 /\ codes'[c].user = codes[c].user /\ codes'[c].purpose = codes[c].purpose
      <3>1. codes[c] # NoCode
        BY <1>0, <1>2, <2>1, <2>2, CodeTables DEF Usable, Types
      <3>2. /\ codes'[c].user = codes[c].user /\ codes'[c].purpose = codes[c].purpose
            /\ codes'[c].consumed = codes[c].consumed
            /\ codes'[c].attempts \in {codes[c].attempts, codes[c].attempts + 1}
        BY <1>0, <1>2, <2>1, <3>1, CodeTables DEF Types
      <3>3. codes[c].attempts \in Nat
        BY <1>0, <3>1 DEF Types, TypeOK, CodeRows
      <3> QED BY <1>0, <2>2, <3>1, <3>2, <3>3, CodesAssumption DEF Usable, Exhausted
    <2>3. UsableCodes' \subseteq UsableCodes
      BY <2>2, UsableLess
    <2>4. UNCHANGED <<VerifiedUsers, Passwords, LiveTokens, Grants>>
      BY <1>0, <1>1, AccountsAlone, TokensAlone, QuietGrants DEF Only
    <2> QED BY <2>3, <2>4, WithdrawStep
  <1> QED BY <1>3, <1>4

LEMMA PasswordStep ==
    ASSUME ContractInv, NEW s \in Requests, ChangePassword(s)
    PROVE  ContractStep
  <1> DEFINE r == requests[s]
             u == r.user
             c == r.code
  <1>0. Types /\ r.pc = "password" /\ r.pc # "idle"
    BY DEF ContractInv, ChangePassword, At
  <1>1. u \in Users /\ c \in Codes /\ r.op = "reset"
    BY <1>0, BusyFields, HeldCode
    DEF Types, Holding, ContractInv, AnswersInv, AnswersFit, AnswerFits
  <1>2. /\ account' = [account EXCEPT ![u].password = c]
        /\ UNCHANGED <<codes, lateCodes, tokens, lateTokens>>
    BY DEF ChangePassword, codeVars, sessionVars
  <1>3. HopsTo(s, "verified")
    BY <1>0, GoHops DEF Types, Accesses, ChangePassword
  <1>4. Only(s) /\ requests'[s].pc = "verified" /\ requests'[s].op = r.op /\ requests'[s].user = u
    BY <1>0, <1>3, HopToOnly
  <1>5. Grants[s] = Contract!Entitlement("reset", u, 0)
    BY <1>0, <1>1, GrantOf, EntitledCases
  <1>6. Grants'[s] = Contract!Entitlement("reset", u, 0)
    BY <1>1, <1>4, GrantOf, EntitledCases
  <1>7. UNCHANGED Grants
    <2>1. \A t \in Requests : Grants'[t] = Grants[t]
      BY <1>2, <1>4, <1>5, <1>6, GrantOf DEF Only
    <2> QED BY <2>1, SameIs
  <1>8. /\ account'[u].verified = account[u].verified /\ account'[u].password = c
        /\ \A v \in Users \ {u} : account'[v] = account[v]
    <2>1. account[u] \in AccountRows
      BY <1>0, <1>1 DEF Types, TypeOK
    <2> QED BY <1>0, <1>1, <1>2, <2>1 DEF Types, TypeOK, AccountRows
  <1> HIDE DEF u, c
  <1>9. UNCHANGED VerifiedUsers /\ Passwords' = [Passwords EXCEPT ![u] = c]
    BY <1>8 DEF VerifiedUsers, Passwords
  <1> QED BY <1>1, <1>2, <1>5, <1>7, <1>9, CodesAlone, TokensAlone, SetPasswordStep

\* As WithoutIs, but for what s may do.
LEMMA WithoutSetIs ==
    ASSUME NEW s \in Requests, NEW S,
           \A t \in Requests \ {s} :
              Grants'[t] = IF t \in S THEN Contract!Nothing ELSE Grants[t]
    PROVE  Grants' = [Contract!Without(S) EXCEPT ![s] = Grants'[s]]
  <1>1. Contract!Without(S) = [t \in Requests |-> IF t \in S THEN Contract!Nothing ELSE Grants[t]]
    BY DEF Contract!Without, Grants
  <1>2. Grants' = [t \in Requests |-> Grants'[t]]
    BY DEF Grants
  <1> QED BY <1>1, <1>2

\* The token a request was presented, or goes on from, was issued.
LEMMA ParentIs ==
    ASSUME Types, TokensInv, NEW s \in Requests, requests[s].pc \in Carrying
    PROVE  /\ requests[s].parent \in handed /\ requests[s].parent \in Tokens
           /\ requests[s].family \in handed /\ requests[s].family \in Tokens
           /\ tokens[requests[s].parent] # NoToken =>
                 /\ tokens[requests[s].parent].user = requests[s].user
                 /\ tokens[requests[s].parent].family = requests[s].family
  <1>1. TokenFits(requests[s].pc, requests[s].user, requests[s].parent, requests[s].token,
                  requests[s].family, tokens, handed)
    BY DEF TokensInv, TokensFit, Carrying
  <1>2. handed \subseteq Tokens
    BY Ranges DEF Types, TypeOK
  <1> QED BY <1>1, <1>2 DEF TokenFits

\* Where some rows are deleted and nobody goes on, requests only lose.
LEMMA GrantsShrink ==
    ASSUME Types, TokensInv, Shrunk(tokens'),
           \A t \in Requests : requests'[t] = requests[t] \/ requests'[t].pc \notin Entitling
    PROVE  \A t \in Requests : Grants'[t] \in {Grants[t], Contract!Nothing}
  <1> SUFFICES ASSUME NEW t \in Requests
               PROVE  Grants'[t] \in {Grants[t], Contract!Nothing}
    OBVIOUS
  <1>1. CASE requests'[t].pc \notin Entitling
    BY <1>1, GrantOf, EntitledCases
  <1>2. CASE requests'[t] = requests[t] /\ requests[t].pc # "renew"
    BY <1>2, GrantOf, EntitledStays
  <1>3. CASE requests'[t] = requests[t] /\ requests[t].pc = "renew"
    <2>1. tokens'[requests[t].parent] # NoToken => tokens[requests[t].parent] # NoToken
      BY <1>3, ParentIs DEF Shrunk, Carrying
    <2>2. tokens'[requests[t].parent] = NoToken => Grants'[t] = Contract!Nothing
      BY <1>3, GrantOf, EntitledCases
    <2>3. tokens'[requests[t].parent] # NoToken => Grants'[t] = Grants[t]
      BY <1>3, <2>1, GrantOf, EntitledStays
    <2> QED BY <2>2, <2>3
  <1> QED BY <1>1, <1>2, <1>3

\* The account turns out to be whose mail it says.
LEMMA MarkVerifiedStep ==
    ASSUME ContractInv, NEW s \in Requests, MarkVerified(s)
    PROVE  ContractStep
  <1> DEFINE r == requests[s]
             u == r.user
  <1>0. Types /\ r.pc = "verified" /\ r.pc # "idle"
    BY DEF ContractInv, MarkVerified, At
  <1>1. r \in Request /\ u \in Users
    BY <1>0, BusyFields DEF Types
  <1>2. /\ account' = [account EXCEPT ![u].verified = TRUE]
        /\ UNCHANGED <<codes, lateCodes, tokens, lateTokens>>
    BY <1>1 DEF MarkVerified, codeVars, Request
  <1>3. /\ Only(s) /\ requests'[s].user = u /\ requests'[s].op = r.op
        /\ requests'[s].pc = IF r.op = "reset" THEN "close" ELSE "open"
    BY <1>0, MarkVerifiedHops, HopOnly DEF Types
  <1>4. /\ Grants[s] \in {Contract!Entitlement("open", u, 0), Contract!Entitlement("reset", u, 0)}
        /\ Grants'[s] = Grants[s]
    <2>1. CASE r.op = "reset"
      BY <1>0, <1>3, <2>1, GrantOf, EntitledCases
    <2>2. CASE r.op # "reset"
      BY <1>0, <1>3, <2>2, GrantOf, EntitledCases
    <2> QED BY <2>1, <2>2
  <1>5. UNCHANGED Grants
    <2>1. \A t \in Requests : Grants'[t] = Grants[t]
      BY <1>2, <1>3, <1>4, GrantOf DEF Only
    <2> QED BY <2>1, SameIs
  <1>6. /\ account'[u].verified /\ account'[u].password = account[u].password
        /\ \A v \in Users \ {u} : account'[v] = account[v]
    <2>1. account[u] \in AccountRows
      BY <1>0, <1>1 DEF Types, TypeOK
    <2> QED BY <1>0, <1>1, <1>2, <2>1 DEF Types, TypeOK, AccountRows
  <1> HIDE DEF u
  <1>7. VerifiedUsers' = VerifiedUsers \cup {u} /\ UNCHANGED Passwords
    BY <1>1, <1>6 DEF VerifiedUsers, Passwords
  <1> QED BY <1>1, <1>2, <1>4, <1>5, <1>7, CodesAlone, TokensAlone, VerifyStep

\* A reset closes the sessions of its account.
LEMMA CloseSessionsStep ==
    ASSUME ContractInv, NEW s \in Requests, CloseSessions(s)
    PROVE  ContractStep
  <1> DEFINE r == requests[s]
             u == r.user
             S == Contract!Renewing(u, Tokens)
             L == {x \in LiveTokens : x.user = u}
  <1>0. Types /\ TokensInv /\ r.pc = "close" /\ r.pc # "idle"
    BY DEF ContractInv, CloseSessions, At
  <1>1. r \in Request /\ u \in Users /\ r.op = "reset"
    BY <1>0, BusyFields DEF Types, ContractInv, AnswersInv, AnswersFit, AnswerFits
  <1>2. /\ tokens' = AllDeleted(tokens, u) /\ IssuesToken(s, r, 0, "open")
        /\ UNCHANGED <<account, codes, lateCodes, lateTokens>>
    BY DEF CloseSessions, codeVars
  <1>3. Only(s) /\ requests'[s].pc = "open" /\ requests'[s].user = u
    <2>1. Hops(s, r.op, "open", u, r.code, r.parent, issuedTokens', issuedTokens')
      BY <1>0, <1>1, <1>2, TokenHops DEF Types, Accesses
    <2> QED BY <1>0, <2>1, HopOnly
  <1>4. /\ Grants[s] = Contract!Entitlement("reset", u, 0)
        /\ Grants'[s] = Contract!Entitlement("open", u, 0)
    BY <1>0, <1>1, <1>3, GrantOf, EntitledCases
  <1>5. \A t \in Tokens : tokens'[t] = IF tokens[t].user = u THEN NoToken ELSE tokens[t]
    BY <1>2 DEF AllDeleted
  <1>6. LiveTokens' = {x \in LiveTokens : x.user # u}
    <2>1. ASSUME NEW t \in Tokens
          PROVE  /\ Fresh(tokens', t, lateTokens') <=>
                       Fresh(tokens, t, lateTokens) /\ TokenIn(tokens, t) \notin L
                 /\ Fresh(tokens', t, lateTokens') =>
                       tokens'[t].user = tokens[t].user /\ tokens'[t].family = tokens[t].family
      <3>1. Fresh(tokens, t, lateTokens) =>
               (TokenIn(tokens, t) \in L <=> tokens[t].user = u)
        BY LiveIs, TokenInFields
      <3>2. Fresh(tokens', t, lateTokens') <=>
               Fresh(tokens, t, lateTokens) /\ tokens[t].user # u
        BY <1>2, <1>5 DEF Fresh
      <3>3. Fresh(tokens', t, lateTokens') => tokens'[t] = tokens[t]
        BY <1>5 DEF Fresh
      <3> QED BY <3>1, <3>2, <3>3
    <2>2. LiveTokens' = LiveTokens \ L
      BY <2>1, LiveWithout
    <2> QED BY <2>2
  <1>7. Grants' = [Contract!Without(S) EXCEPT ![s] = Contract!Entitlement("open", u, 0)]
    <2>1. ASSUME NEW t \in Requests \ {s}
          PROVE  Grants'[t] = IF t \in S THEN Contract!Nothing ELSE Grants[t]
      <3>1. requests'[t] = requests[t]
        BY <1>3 DEF Only
      <3>2. CASE requests[t].pc # "renew"
        BY <3>1, <3>2, GrantOf, EntitledStays, RenewingIs
      <3>3. CASE requests[t].pc = "renew"
        <4>1. /\ requests[t].parent \in Tokens /\ requests[t].family \in Tokens
              /\ tokens[requests[t].parent] # NoToken =>
                    tokens[requests[t].parent].user = requests[t].user
          BY <1>0, <3>3, ParentIs DEF Carrying
        <4>2. CASE t \in S
          <5>1. tokens'[requests[t].parent] = NoToken
            BY <1>5, <4>1, <4>2, RenewingIs
          <5> QED BY <3>1, <3>3, <4>2, <5>1, GrantOf, EntitledCases
        <4>3. CASE t \notin S
          <5>1. tokens'[requests[t].parent] = NoToken <=> tokens[requests[t].parent] = NoToken
            BY <1>5, <3>3, <4>1, <4>3, RenewingIs
          <5> QED BY <3>1, <3>3, <4>3, <5>1, GrantOf, EntitledStays
        <4> QED BY <4>2, <4>3
      <3> QED BY <3>2, <3>3
    <2> HIDE DEF S
    <2> QED BY <1>4, <2>1, WithoutSetIs
  <1> HIDE DEF u
  <1> QED BY <1>1, <1>2, <1>4, <1>6, <1>7, AccountsAlone, CodesAlone, CloseAllStep

\* A session is ended by a replayed token or a logout.
LEMMA RevokeStep ==
    ASSUME ContractInv, NEW s \in Requests, RevokeFamily(s)
    PROVE  ContractStep
  <1> DEFINE r == requests[s]
             u == r.user
             f == r.family
             S == Contract!Renewing(u, {f})
             L == Contract!Family(u, f)
  <1>0. Types /\ TokensInv /\ r.pc = "revoke" /\ r.pc # "idle"
    BY DEF ContractInv, RevokeFamily, At
  <1>1. u \in Users /\ f \in Tokens
    BY <1>0, BusyFields, ParentIs DEF Types, Carrying
  <1>2. /\ tokens' = FamilyDeleted(tokens, f) /\ Ends(s)
        /\ UNCHANGED <<account, codes, lateCodes, lateTokens>>
    BY DEF RevokeFamily, codeVars
  <1>3. Only(s) /\ requests'[s].pc = "idle"
    BY <1>0, <1>2, EndOnly
  <1>4. PICK owner \in [Tokens -> Users \cup {"none"}] : Owned(owner)
    BY <1>0 DEF TokensInv, FamiliesOwned
  <1>5. \A t \in Tokens : tokens'[t] = IF tokens[t].family = f THEN NoToken ELSE tokens[t]
    BY <1>2 DEF FamilyDeleted
  <1>6. \A t \in Tokens : (tokens[t] # NoToken /\ tokens[t].family = f) => tokens[t].user = u
    BY <1>0, <1>4 DEF Owned, Carrying
  <1>7. LiveTokens' = LiveTokens \ L
    <2>1. ASSUME NEW t \in Tokens
          PROVE  /\ Fresh(tokens', t, lateTokens') <=>
                       Fresh(tokens, t, lateTokens) /\ TokenIn(tokens, t) \notin L
                 /\ Fresh(tokens', t, lateTokens') =>
                       tokens'[t].user = tokens[t].user /\ tokens'[t].family = tokens[t].family
      <3>1. L = {x \in LiveTokens : x.user = u /\ x.family = f}
        BY DEF Contract!Family, LiveTokens
      <3>2. Fresh(tokens, t, lateTokens) =>
               (TokenIn(tokens, t) \in L <=> tokens[t].user = u /\ tokens[t].family = f)
        BY <3>1, LiveIs, TokenInFields
      <3>3. Fresh(tokens, t, lateTokens) => (tokens[t].family = f => tokens[t].user = u)
        BY <1>6 DEF Fresh
      <3>4. Fresh(tokens', t, lateTokens') <=>
               Fresh(tokens, t, lateTokens) /\ tokens[t].family # f
        BY <1>2, <1>5 DEF Fresh
      <3>5. Fresh(tokens', t, lateTokens') => tokens'[t] = tokens[t]
        BY <1>5 DEF Fresh
      <3> QED BY <3>2, <3>3, <3>4, <3>5
    <2> HIDE DEF L
    <2> QED BY <2>1, LiveWithout
  <1>8. Grants' = Contract!Without(S)
    <2>1. ASSUME NEW t \in Requests
          PROVE  Grants'[t] = IF t \in S THEN Contract!Nothing ELSE Grants[t]
      <3>1. CASE t = s
        BY <1>0, <1>3, <3>1, GrantOf, EntitledCases DEF Entitling, Granted
      <3>2. CASE t # s /\ requests[t].pc # "renew"
        BY <1>3, <3>2, GrantOf, EntitledStays, RenewingIs DEF Only
      <3>3. CASE t # s /\ requests[t].pc = "renew"
        <4>0. requests'[t] = requests[t]
          BY <1>3, <3>3 DEF Only
        <4>1. /\ requests[t].parent \in Tokens /\ requests[t].family \in Tokens
              /\ tokens[requests[t].parent] # NoToken =>
                    /\ tokens[requests[t].parent].user = requests[t].user
                    /\ tokens[requests[t].parent].family = requests[t].family
          BY <1>0, <3>3, ParentIs DEF Carrying
        <4>2. CASE t \in S
          <5>1. tokens'[requests[t].parent] = NoToken
            BY <1>5, <4>1, <4>2, RenewingIs
          <5> QED BY <3>3, <4>0, <4>2, <5>1, GrantOf, EntitledCases
        <4>3. CASE t \notin S
          <5>1. tokens'[requests[t].parent] = NoToken <=> tokens[requests[t].parent] = NoToken
            BY <1>5, <1>6, <3>3, <4>1, <4>3, RenewingIs
          <5> QED BY <3>3, <4>0, <4>3, <5>1, GrantOf, EntitledStays
        <4> QED BY <4>2, <4>3
      <3> QED BY <3>1, <3>2, <3>3
    <2> HIDE DEF S
    <2> QED BY <2>1, WithoutIs
  <1> HIDE DEF u, f
  <1> QED BY <1>1, <1>2, <1>7, <1>8, AccountsAlone, CodesAlone, CloseStep

\* A session is opened.
LEMMA OpenSessionStep ==
    ASSUME ContractInv, NEW s \in Requests, OpenSession(s)
    PROVE  ContractStep
  <1> DEFINE r == requests[s]
             u == r.user
             t == r.token
  <1>0. Types /\ TokensInv /\ r.pc = "open" /\ r.pc # "idle"
    BY DEF ContractInv, OpenSession, At
  <1>1. u \in Users /\ t \in Tokens /\ t \notin handed /\ r.family = t
    BY <1>0, Ranges, BusyFields
    DEF Types, Shaped, Holds, TokensInv, TokensFit, TokenFits, Bringing
  <1>2. /\ tokens' = [tokens EXCEPT ![t] = NewToken(u, t)] /\ Ends(s)
        /\ UNCHANGED <<account, codes, lateCodes, lateTokens>>
    BY <1>1 DEF OpenSession, InsertToken, codeVars
  <1>3. Only(s) /\ requests'[s].pc = "idle"
    BY <1>0, <1>2, EndOnly
  <1>4. tokens[t] = NoToken /\ ~ Fresh(tokens, t, lateTokens)
    BY <1>0, <1>1 DEF TokensInv, TokensKnown, Fresh
  <1>5. /\ tokens'[t] = NewToken(u, t)
        /\ \A d \in Tokens \ {t} : tokens'[d] = tokens[d]
    BY <1>0, <1>1, <1>2 DEF Types, TypeOK
  <1>6. Grants[s] = Contract!Entitlement("open", u, 0) /\ Grants'[s] = Contract!Nothing
    BY <1>0, <1>3, GrantOf, EntitledCases DEF Entitling, Granted
  <1>7. ASSUME NEW q \in Requests \ {s}
        PROVE  Grants'[q] = Grants[q]
    <2>1. requests'[q] = requests[q]
      BY <1>3 DEF Only
    <2>2. requests[q].pc = "renew" => tokens'[requests[q].parent] = tokens[requests[q].parent]
      BY <1>0, <1>1, <1>5, ParentIs DEF Carrying
    <2> QED BY <2>1, <2>2, GrantOf, EntitledStays
  <1>8. u \in VerifiedUsers
    BY <1>0, <1>1
    DEF VerifiedUsers, ContractInv, VerifiedInv, VerifiedFirst, Settled, Sessions
  <1>9. CASE Fresh(tokens', t, lateTokens')
    <2>1. Contract!Family(u, t) = {}
      <3>1. Contract!Family(u, t) = {x \in LiveTokens : x.user = u /\ x.family = t}
        BY DEF Contract!Family, LiveTokens
      <3>2. \A d \in Tokens : Fresh(tokens, d, lateTokens) => tokens[d].family # t
        BY <1>0, <1>1 DEF Fresh, TokensInv, TokensKnown
      <3> HIDE DEF u, t
      <3> QED BY <3>1, <3>2, LiveIs, TokenInFields
    <2>2. TokenIn(tokens', t) = Contract!TokenOf(u, t, t)
      BY <1>5 DEF TokenIn, NewToken
    <2>3. LiveTokens' = LiveTokens \cup {Contract!TokenOf(u, t, t)}
      <3> HIDE DEF t, u
      <3> QED BY <1>1, <1>2, <1>4, <1>5, <1>9, <2>2, LiveWith
    <2>4. Grants' = Contract!Without({s})
      BY <1>6, <1>7, WithoutIs
    <2> HIDE DEF t, u
    <2> QED BY <1>1, <1>2, <1>6, <1>8, <2>1, <2>3, <2>4, AccountsAlone, CodesAlone, OpenStep
  <1>10. CASE ~ Fresh(tokens', t, lateTokens')
    <2>1. UNCHANGED LiveTokens
      BY <1>2, <1>4, <1>5, <1>10, LiveSame DEF Fresh
    <2> QED BY <1>2, <1>6, <1>7, <2>1, AccountsAlone, CodesAlone, DropStep
  <1> QED BY <1>9, <1>10

\* A session is renewed.
LEMMA RenewSessionStep ==
    ASSUME ContractInv, NEW s \in Requests, RenewSession(s)
    PROVE  Follows(s)
  <1> DEFINE r == requests[s]
             u == r.user
             t == r.token
             f == r.family
  <1>0. Types /\ TokensInv /\ r.pc = "renew" /\ r.pc # "idle"
    BY DEF ContractInv, RenewSession, At
  <1>1. u \in Users /\ t \in Tokens /\ f \in Tokens /\ t \notin handed
    BY <1>0, Ranges, BusyFields
    DEF Types, Shaped, Holds, TokensInv, TokensFit, TokenFits, Bringing
  <1>2. /\ tokens' = [tokens EXCEPT ![t] = NewToken(u, f)] /\ Ends(s)
        /\ UNCHANGED <<account, codes, lateCodes, lateTokens>>
    BY DEF RenewSession, InsertToken, codeVars
  <1>3. Only(s) /\ requests'[s].pc = "idle"
    BY <1>0, <1>2, EndOnly
  <1>4. SUFFICES ASSUME ~ ActsOnStale(s)
                 PROVE  ContractStep
    BY DEF Follows
  <1>5. /\ tokens[r.parent] # NoToken
        /\ \A d \in Tokens : Fresh(tokens, d, lateTokens) => tokens[d].family # f
    <2>1. requests'[s] # r
      BY <1>0, <1>3
    <2> QED BY <1>0, <1>4, <2>1 DEF ActsOnStale
  <1>6. tokens[t] = NoToken /\ ~ Fresh(tokens, t, lateTokens)
    BY <1>0, <1>1 DEF TokensInv, TokensKnown, Fresh
  <1>7. /\ tokens'[t] = NewToken(u, f)
        /\ \A d \in Tokens \ {t} : tokens'[d] = tokens[d]
    BY <1>0, <1>1, <1>2 DEF Types, TypeOK
  <1>8. Grants[s] = Contract!Entitlement("renew", u, f) /\ Grants'[s] = Contract!Nothing
    BY <1>0, <1>3, <1>5, GrantOf, EntitledCases DEF Entitling, Granted
  <1>9. ASSUME NEW q \in Requests \ {s}
        PROVE  Grants'[q] = Grants[q]
    <2>1. requests'[q] = requests[q]
      BY <1>3 DEF Only
    <2>2. requests[q].pc = "renew" => tokens'[requests[q].parent] = tokens[requests[q].parent]
      BY <1>0, <1>1, <1>7, ParentIs DEF Carrying
    <2> QED BY <2>1, <2>2, GrantOf, EntitledStays
  <1>10. CASE Fresh(tokens', t, lateTokens')
    <2>1. Contract!Family(u, f) = {}
      <3>1. Contract!Family(u, f) = {x \in LiveTokens : x.user = u /\ x.family = f}
        BY DEF Contract!Family, LiveTokens
      <3> HIDE DEF u, f
      <3> QED BY <1>5, <3>1, LiveIs, TokenInFields
    <2>2. TokenIn(tokens', t) = Contract!TokenOf(u, f, t)
      BY <1>7 DEF TokenIn, NewToken
    <2>3. LiveTokens' = LiveTokens \cup {Contract!TokenOf(u, f, t)}
      <3> HIDE DEF t, u, f
      <3> QED BY <1>1, <1>2, <1>6, <1>7, <1>10, <2>2, LiveWith
    <2>4. Grants' = Contract!Without({s})
      BY <1>8, <1>9, WithoutIs
    <2> HIDE DEF t, u, f
    <2> QED BY <1>1, <1>2, <1>8, <2>1, <2>3, <2>4, AccountsAlone, CodesAlone, RenewStep
  <1>11. CASE ~ Fresh(tokens', t, lateTokens')
    <2>1. UNCHANGED LiveTokens
      BY <1>2, <1>6, <1>7, <1>11, LiveSame DEF Fresh
    <2> QED BY <1>2, <1>8, <1>9, <2>1, AccountsAlone, CodesAlone, DropStep
  <1> QED BY <1>10, <1>11

\* A token is rotated.
LEMMA RotateStep ==
    ASSUME ContractInv, NEW s \in Requests, RotateToken(s)
    PROVE  Follows(s)
  <1> DEFINE r == requests[s]
             u == r.user
             f == r.family
             d == r.parent
  <1>0. Types /\ TokensInv /\ r.pc = "rotate" /\ r.pc # "idle"
    BY DEF ContractInv, RotateToken, At
  <1>1. /\ r \in Request /\ u \in Users /\ d \in Tokens /\ f \in Tokens /\ f # 0
        /\ tokens[d] # NoToken => tokens[d].user = u /\ tokens[d].family = f
    BY <1>0, BusyFields, ParentIs, TokensAssumption DEF Types, Carrying, Tokens
  <1>2. /\ tokens' = Consumed(tokens, d) /\ IssuesToken(s, r, f, "renew")
        /\ UNCHANGED <<account, codes, lateCodes, lateTokens>>
    BY DEF RotateToken, codeVars
  <1>3. /\ Only(s) /\ requests'[s].pc = "renew" /\ requests'[s].user = u
        /\ requests'[s].parent = d /\ requests'[s].family = f
    <2>1. Hops(s, r.op, "renew", u, r.code, d, issuedTokens', f)
      <3>1. "renew" \in Accesses
        BY DEF Accesses
      <3>2. Hops(s, r.op, "renew", u, r.code, d, issuedTokens', IF f = 0 THEN issuedTokens' ELSE f)
        BY <1>0, <1>1, <1>2, <3>1, TokenHops DEF Types
      <3> QED BY <1>1, <3>2
    <2> QED BY <1>0, <2>1, HopOnly
  <1>4. SUFFICES ASSUME ~ ActsOnStale(s)
                 PROVE  ContractStep
    BY DEF Follows
  <1>5. Fresh(tokens, d, lateTokens)
    <2>1. requests'[s] # r
      BY <1>0, <1>3
    <2> QED BY <1>0, <1>4, <2>1 DEF ActsOnStale
  <1>6. /\ tokens'[d].consumed /\ tokens'[d] # NoToken
        /\ \A x \in Tokens \ {d} : tokens'[x] = tokens[x]
    <2>1. tokens[d] \in TokenRows(Users)
      BY <1>0, <1>1, <1>5 DEF Fresh, Types, TypeOK
    <2>2. tokens' = [tokens EXCEPT ![d].consumed = TRUE]
      BY <1>2, <1>5 DEF Consumed, Fresh
    <2> QED BY <1>0, <1>1, <2>1, <2>2 DEF Types, TypeOK, TokenRows, NoToken
  <1>7. TokenIn(tokens, d) = Contract!TokenOf(u, f, d)
    BY <1>1, <1>5 DEF TokenIn, Fresh
  <1>8. Contract!TokenOf(u, f, d) \in LiveTokens
    BY <1>1, <1>5, <1>7, LiveIs
  <1>9. LiveTokens' = LiveTokens \ {Contract!TokenOf(u, f, d)}
    <2>1. ASSUME NEW x \in Tokens
          PROVE  /\ Fresh(tokens', x, lateTokens') <=>
                       /\ Fresh(tokens, x, lateTokens)
                       /\ TokenIn(tokens, x) \notin {Contract!TokenOf(u, f, d)}
                 /\ Fresh(tokens', x, lateTokens') =>
                       tokens'[x].user = tokens[x].user /\ tokens'[x].family = tokens[x].family
      <3>1. CASE x = d
        BY <1>6, <1>7, <3>1 DEF Fresh
      <3>2. CASE x # d
        <4>1. tokens'[x] = tokens[x] /\ TokenIn(tokens, x) # Contract!TokenOf(u, f, d)
          BY <1>6, <1>7, <3>2, TokenInFields
        <4> QED BY <1>2, <4>1 DEF Fresh
      <3> QED BY <3>1, <3>2
    <2> HIDE DEF u, f, d
    <2> QED BY <2>1, LiveWithout
  <1>10. /\ Grants[s] = Contract!Entitlement("turn", u, f)
         /\ Grants'[s] = Contract!Entitlement("renew", u, f)
    BY <1>0, <1>3, <1>6, GrantOf, EntitledCases
  <1>11. Grants' = [Grants EXCEPT ![s] = Contract!Entitlement("renew", u, f)]
    <2>1. ASSUME NEW q \in Requests \ {s}
          PROVE  Grants'[q] = Grants[q]
      <3>1. requests'[q] = requests[q]
        BY <1>3 DEF Only
      <3>2. requests[q].pc = "renew" =>
               (tokens[requests[q].parent] = NoToken <=> tokens'[requests[q].parent] = NoToken)
        BY <1>0, <1>5, <1>6, ParentIs DEF Carrying, Fresh
      <3> QED BY <3>1, <3>2, GrantOf, EntitledStays
    <2> QED BY <1>10, <2>1, SetIs
  <1> HIDE DEF u, f, d
  <1> QED BY <1>1, <1>2, <1>8, <1>9, <1>10, <1>11, AccountsAlone, CodesAlone, TurnStep

\* An expired token is deleted: it was fresh to nobody.
LEMMA DiscardStep ==
    ASSUME ContractInv, DiscardsLate, NEW s \in Requests, DiscardToken(s)
    PROVE  ContractStep
  <1> DEFINE d == requests[s].parent
  <1>0. Types /\ TokensInv /\ requests[s].pc = "discard"
    BY DEF ContractInv, DiscardToken, At
  <1>1. d \in Tokens /\ d <= lateTokens /\ lateTokens \in Nat
    BY <1>0, ParentIs DEF DiscardsLate, Carrying, Types, TypeOK
  <1>2. /\ tokens' = Deleted(tokens, d) /\ Ends(s)
        /\ UNCHANGED <<account, codes, lateCodes, lateTokens>>
    BY DEF DiscardToken, codeVars
  <1>3. Only(s) /\ requests'[s].pc = "idle"
    BY <1>0, <1>2, EndOnly
  <1>4. Shrunk(tokens')
    BY <1>0, <1>1, <1>2, TokenTables DEF Types
  <1>5. UNCHANGED LiveTokens
    <2>1. ASSUME NEW t \in Tokens
          PROVE  /\ Fresh(tokens', t, lateTokens') <=> Fresh(tokens, t, lateTokens)
                 /\ Fresh(tokens', t, lateTokens') => tokens'[t] = tokens[t]
      <3>1. CASE t = d
        BY <1>1, <1>2, <3>1, TokensAssumption DEF Fresh, Tokens
      <3>2. CASE t # d
        BY <1>0, <1>2, <3>2 DEF Fresh, Deleted, Types, TypeOK
      <3> QED BY <3>1, <3>2
    <2> QED BY <2>1, LiveSame
  <1>6. \A t \in Requests : Grants'[t] \in {Grants[t], Contract!Nothing}
    BY <1>0, <1>3, <1>4, GrantsShrink DEF Only, Entitling, Granted
  <1> QED BY <1>2, <1>5, <1>6, AccountsAlone, CodesAlone, DropStep

\* Time, purges, failures.
LEMMA BackgroundStep ==
    ASSUME ContractInv,
           \/ ExpireCode \/ ExpireToken \/ PurgeCodes \/ PurgeTokens
           \/ \E s \in Requests : Abort(s)
           \/ UNCHANGED vars
    PROVE  ContractStep
  <1>0. Types /\ TokensInv
    BY DEF ContractInv
  <1>1. /\ lateCodes \in Nat /\ lateTokens \in Nat
        /\ \A c \in Codes : c \in Nat
        /\ \A t \in Tokens : t \in Nat
    BY <1>0, CodesAssumption, TokensAssumption DEF Types, TypeOK, Codes, Tokens
  <1>2. CASE ExpireCode \/ PurgeCodes
    <2>1. UNCHANGED <<account, tokens, lateTokens, requests>>
      BY <1>2 DEF ExpireCode, PurgeCodes, sessionVars
    <2>2. UNCHANGED <<VerifiedUsers, Passwords, LiveTokens, Grants>>
      <3>1. UNCHANGED Grants
        BY <2>1, GrantOf, SameIs
      <3> QED BY <2>1, <3>1, AccountsAlone, TokensAlone
    <2>3. ASSUME NEW c \in Codes, Usable(codes', c, lateCodes')
          PROVE  Usable(codes, c, lateCodes) /\ codes'[c] = codes[c]
      <3>1. CASE ExpireCode
        BY <1>1, <2>3, <3>1 DEF ExpireCode, Usable
      <3>2. CASE PurgeCodes
        BY <2>3, <3>2 DEF PurgeCodes, CodesPurged, Usable
      <3> QED BY <1>2, <3>1, <3>2
    <2>4. UsableCodes' \subseteq UsableCodes
      BY <2>3, UsableLess
    <2> QED BY <2>2, <2>4, WithdrawStep
  <1>3. CASE ExpireToken
    <2> DEFINE d == lateTokens + 1
    <2>1. UNCHANGED <<account, codes, lateCodes, tokens, requests>> /\ lateTokens' = d
      BY <1>3 DEF ExpireToken, codeVars
    <2>2. UNCHANGED <<VerifiedUsers, Passwords, UsableCodes, Grants>>
      <3>1. UNCHANGED Grants
        BY <2>1, GrantOf, SameIs
      <3> QED BY <2>1, <3>1, AccountsAlone, CodesAlone
    <2>3. \A t \in Tokens : Fresh(tokens', t, lateTokens') <=>
                               Fresh(tokens, t, lateTokens) /\ t # d
      BY <1>1, <2>1 DEF Fresh
    <2>4. CASE d \in Tokens /\ Fresh(tokens, d, lateTokens)
      <3>1. TokenIn(tokens, d) \in LiveTokens
        BY <2>4, LiveIs
      <3>2. \A t \in Tokens : TokenIn(tokens, t) \in {TokenIn(tokens, d)} <=> t = d
        BY TokenInFields
      <3> HIDE DEF d
      <3>3. LiveTokens' = LiveTokens \ {TokenIn(tokens, d)}
        BY <2>1, <2>3, <3>2, LiveWithout
      <3> QED BY <2>2, <3>1, <3>3, LapseStep
    <2>5. CASE ~ (d \in Tokens /\ Fresh(tokens, d, lateTokens))
      <3>1. UNCHANGED LiveTokens
        BY <2>1, <2>3, <2>5, LiveSame
      <3> QED BY <2>2, <3>1, StutterStep
    <2> QED BY <2>4, <2>5
  <1>4. CASE PurgeTokens
    <2>1. /\ UNCHANGED <<account, codes, lateCodes, lateTokens, requests>>
          /\ tokens' = TokensPurged(tokens, lateTokens)
      BY <1>4 DEF PurgeTokens, codeVars
    <2>2. \A t \in Tokens : tokens'[t] = IF t <= lateTokens THEN NoToken ELSE tokens[t]
      BY <2>1 DEF TokensPurged
    <2>3. UNCHANGED LiveTokens
      <3>1. \A t \in Tokens : /\ Fresh(tokens', t, lateTokens') <=> Fresh(tokens, t, lateTokens)
                              /\ Fresh(tokens', t, lateTokens') => tokens'[t] = tokens[t]
        BY <1>1, <2>1, <2>2 DEF Fresh
      <3> QED BY <3>1, LiveSame
    <2>4. Shrunk(tokens')
      BY <1>0, <2>1, TokenTables DEF Types
    <2>5. \A t \in Requests : Grants'[t] \in {Grants[t], Contract!Nothing}
      BY <1>0, <2>1, <2>4, GrantsShrink
    <2> QED BY <2>1, <2>3, <2>5, AccountsAlone, CodesAlone, DropStep
  <1>5. ASSUME NEW s \in Requests, Abort(s)
        PROVE  ContractStep
    <2>1. UNCHANGED <<account, codes, lateCodes, tokens, lateTokens>> /\ Ends(s)
      BY <1>5 DEF Abort, codeVars, sessionVars
    <2>2. Only(s) /\ requests'[s].pc = "idle"
      BY <1>0, <2>1, EndOnly
    <2>3. Shrunk(tokens')
      BY <1>0, <2>1, TokenTables DEF Types
    <2>4. \A t \in Requests : Grants'[t] \in {Grants[t], Contract!Nothing}
      BY <1>0, <2>2, <2>3, GrantsShrink DEF Only, Entitling, Granted
    <2> QED BY <2>1, <2>4, AccountsAlone, CodesAlone, TokensAlone, DropStep
  <1>6. CASE UNCHANGED vars
    <2>1. UNCHANGED <<account, codes, lateCodes, tokens, lateTokens, requests>>
      BY <1>6 DEF vars, codeVars, sessionVars
    <2>2. UNCHANGED Grants
      BY <2>1, GrantOf, SameIs
    <2> QED BY <2>1, <2>2, AccountsAlone, CodesAlone, TokensAlone, StutterStep
  <1> QED BY <1>2, <1>3, <1>4, <1>5, <1>6

\* Whatever the step, it is one of the contract or acts on something stale.
LEMMA StepFollows ==
    ASSUME ContractInv, DiscardsLate, [Next]_vars
    PROVE  (\E s \in Requests : ActsOnStale(s)) \/ ContractStep
  <1>1. ASSUME NEW s \in Requests, Proceed(s)
        PROVE  Follows(s)
    BY <1>1, MailingStep, CommitStep, GuessStep, ConsumeStep, PasswordStep, MarkVerifiedStep,
       CloseSessionsStep, OpenSessionStep, RevokeStep, DiscardStep, RotateStep, RenewSessionStep
    DEF Proceed, Follows
  <1>2. ASSUME NEW s \in Requests, Arrive(s)
        PROVE  ContractStep
    BY <1>2, ArriveStep
  <1>3. CASE \/ ExpireCode \/ ExpireToken \/ PurgeCodes \/ PurgeTokens
             \/ \E s \in Requests : Abort(s)
             \/ UNCHANGED vars
    BY <1>3, BackgroundStep
  <1> QED BY <1>1, <1>2, <1>3 DEF Next, Follows
-----------------------------------------------------------------------------
(***************************************************************************)
(* The theorems.                                                           *)
(***************************************************************************)
AccountInv == ContractInv /\ AttemptsInv /\ DiscardsLate

LEMMA AccountInvHolds == Spec => []AccountInv
  <1>1. Init => AccountInv
    BY TypesInit, VerifiedInit, CodesInit, AnswersInit, TokensInit, AttemptsInit, DiscardsInit
    DEF AccountInv, ContractInv
  <1>2. AccountInv /\ [Next]_vars => AccountInv'
    BY TypesInductive, VerifiedInductive, CodesInductive, AnswersInductive, TokensInductive,
       AttemptsInductive, DiscardsInductive
    DEF AccountInv, ContractInv
  <1> QED BY <1>1, <1>2, PTL DEF Spec

\* Every variable keeps its type: requests carry only codes and tokens that
\* were issued, and the rows are rows.
THEOREM AccountTypes == Spec => []TypeOK
  <1>1. AccountInv => TypeOK
    BY DEF AccountInv, ContractInv, Types
  <1> QED BY <1>1, AccountInvHolds, PTL

\* No interleaving of requests opens or renews a session before the account
\* is verified.
THEOREM AccountSessionsVerified == Spec => []SessionsVerified
  <1>1. AccountInv => SessionsVerified
    BY DEF AccountInv, ContractInv, VerifiedInv
  <1> QED BY <1>1, AccountInvHolds, PTL

\* A code that was mailed is in the table until it expires.
THEOREM AccountMailsStored == Spec => []MailedIsStored
  <1>1. AccountInv => MailedIsStored
    BY DEF AccountInv, ContractInv, CodesInv
  <1> QED BY <1>1, AccountInvHolds, PTL

\* Only the answer to a reset code of the account sets its password.
THEOREM AccountPasswords == Spec => []PasswordsByResetCode
  <1>1. AccountInv => PasswordsByResetCode
    BY DEF AccountInv, ContractInv, CodesInv
  <1> QED BY <1>1, AccountInvHolds, PTL

\* The guesses at a code exceed the limit by less than the number of requests
\* in progress.
THEOREM AccountAttempts == Spec => []AttemptsBounded
  <1>1. AccountInv => AttemptsBounded
    <2> SUFFICES ASSUME AccountInv, NEW c \in Codes
                 PROVE  codes[c].attempts < MaxAttempts + Cardinality(Requests)
      BY DEF AttemptsBounded
    <2>1. codes[c].attempts + Cardinality(Guessing(c)) < MaxAttempts + Cardinality(Requests)
      BY DEF AccountInv, AttemptsInv
    <2> QED BY <2>1, GuessingCounts, CodesAssumption DEF AccountInv, ContractInv
  <1> QED BY <1>1, AccountInvHolds, PTL

\* Whatever sign-ins, resets, renewals, purges, expiries and failures do to
\* each other, every step is one of the contract - a code answered once, a
\* session opened only by such an answer and for a verified account, closed
\* sessions not renewed - or one of the four accesses of ActsOnStale.
THEOREM AccountStepsKeepContract == Spec => StepsKeepContract
  <1>1. AccountInv /\ [Next]_vars => [(\E s \in Requests : ActsOnStale(s)) \/ ContractStep]_vars
    BY StepFollows DEF AccountInv
  <1>2. Spec => [][(\E s \in Requests : ActsOnStale(s)) \/ ContractStep]_vars
    BY <1>1, AccountInvHolds, PTL DEF Spec
  <1> QED BY <1>2 DEF StepsKeepContract, ContractStep
-----------------------------------------------------------------------------
(***************************************************************************)
(* What the contract promises, and the races alone take away.              *)
(***************************************************************************)
\* A session has one token that can be rotated, a purpose one code that can be
\* answered.
OneLive ==
    \A x, y \in LiveTokens : (x.user = y.user /\ x.family = y.family) => x = y

OneUsable ==
    \A x, y \in UsableCodes : (x.user = y.user /\ x.purpose = y.purpose) => x = y

LEMMA LiveLess ==
    ASSUME OneLive, LiveTokens' \subseteq LiveTokens
    PROVE  OneLive'
  BY DEF OneLive

LEMMA UsableFewer ==
    ASSUME OneUsable, UsableCodes' \subseteq UsableCodes
    PROVE  OneUsable'
  BY DEF OneUsable

LEMMA LiveMore ==
    ASSUME OneLive, NEW u, NEW f, NEW t, {x \in LiveTokens : x.user = u /\ x.family = f} = {},
           LiveTokens' = LiveTokens \cup {Contract!TokenOf(u, f, t)}
    PROVE  OneLive'
  <1>1. /\ Contract!TokenOf(u, f, t).user = u /\ Contract!TokenOf(u, f, t).family = f
        /\ \A x \in LiveTokens : ~ (x.user = u /\ x.family = f)
    BY DEF Contract!TokenOf
  <1> DEFINE z == Contract!TokenOf(u, f, t)
  <1> HIDE DEF z
  <1> QED BY <1>1 DEF OneLive, z

LEMMA UsableNext ==
    ASSUME OneUsable, NEW u, NEW p, NEW c,
           UsableCodes' = {x \in UsableCodes : ~ (x.user = u /\ x.purpose = p)}
                             \cup {Contract!CodeOf(u, p, c)}
    PROVE  OneUsable'
  <1>1. Contract!CodeOf(u, p, c).user = u /\ Contract!CodeOf(u, p, c).purpose = p
    BY DEF Contract!CodeOf
  <1> DEFINE z == Contract!CodeOf(u, p, c)
  <1> HIDE DEF z
  <1> QED BY <1>1 DEF OneUsable, z

LEMMA ContractKeepsOne ==
    ASSUME OneLive, OneUsable, ContractStep
    PROVE  OneLive' /\ OneUsable'
  <1>1. ASSUME NEW u \in Users, NEW p \in Purposes, NEW c \in Codes, Contract!Issue(u, p, c)
        PROVE  OneLive' /\ OneUsable'
    <2>1. /\ UsableCodes' = {x \in UsableCodes : ~ (x.user = u /\ x.purpose = p)}
                               \cup {Contract!CodeOf(u, p, c)}
          /\ UNCHANGED LiveTokens
      BY <1>1 DEF Contract!Issue, UsableCodes, LiveTokens
    <2> QED BY <2>1, LiveLess, UsableNext
  <1>2. ASSUME NEW s \in Requests, NEW u \in Users, NEW f \in Tokens, NEW t \in Tokens,
               \/ Contract!Open(s, u, t) /\ f = t
               \/ Contract!Renew(s, u, f, t)
        PROVE  OneLive' /\ OneUsable'
    <2>1. /\ {x \in LiveTokens : x.user = u /\ x.family = f} = {}
          /\ LiveTokens' = LiveTokens \cup {Contract!TokenOf(u, f, t)}
          /\ UNCHANGED UsableCodes
      BY <1>2 DEF Contract!Open, Contract!Renew, Contract!Family, UsableCodes, LiveTokens
    <2> QED BY <2>1, LiveMore, UsableFewer
  <1>3. CASE LiveTokens' \subseteq LiveTokens /\ UsableCodes' \subseteq UsableCodes
    BY <1>3, LiveLess, UsableFewer
  <1>4. CASE UNCHANGED Contract!vars \/ Contract!Withdraw
             \/ \E S \in SUBSET Requests : Contract!Drop(S)
             \/ \E x \in LiveTokens : Contract!Lapse(x)
    BY <1>3, <1>4
    DEF Contract!vars, Contract!Withdraw, Contract!Drop, Contract!Lapse, UsableCodes, LiveTokens
  <1>5. ASSUME NEW u \in Users, NEW f \in Tokens, Contract!Close(u, f)
        PROVE  OneLive' /\ OneUsable'
    BY <1>3, <1>5 DEF Contract!Close, UsableCodes, LiveTokens
  <1>6. ASSUME NEW s \in Requests, NEW u \in Users,
               \/ \E p \in Purposes : Contract!Present(s, u, p)
               \/ \E p \in Purposes, c \in Codes : Contract!Answer(s, u, p, c)
               \/ \E c \in Codes : Contract!SetPassword(s, u, c)
               \/ Contract!Verify(s, u) \/ Contract!CloseAll(s, u)
               \/ \E f \in Tokens : Contract!Refresh(s, u, f)
               \/ \E f, t \in Tokens : Contract!Turn(s, u, f, t)
        PROVE  OneLive' /\ OneUsable'
    BY <1>3, <1>6
    DEF Contract!Present, Contract!Answer, Contract!SetPassword, Contract!Verify,
        Contract!CloseAll, Contract!Refresh, Contract!Turn, UsableCodes, LiveTokens
  <1> QED
    BY <1>1, <1>2, <1>4, <1>5, <1>6 DEF ContractStep, Contract!Next, LiveTokens

\* No access acts on what is no longer so.
InTime == \A s \in Requests : ~ ActsOnStale(s)

LEMMA InTimeOne == Spec /\ [][InTime]_vars => [](AccountInv /\ OneLive /\ OneUsable)
  <1>1. Init => OneLive /\ OneUsable
    BY DEF Init, OneLive, OneUsable, LiveTokens, UsableCodes, Fresh, Usable
  <1>2. ASSUME AccountInv, OneLive, OneUsable, [Next]_vars, [InTime]_vars
        PROVE  OneLive' /\ OneUsable'
    <2>1. CASE InTime
      BY <1>2, <2>1, StepFollows, ContractKeepsOne DEF AccountInv, InTime
    <2>2. CASE UNCHANGED vars
      BY <1>2, <2>2, BackgroundStep, ContractKeepsOne DEF AccountInv
    <2> QED BY <1>2, <2>1, <2>2
  <1> QED BY <1>1, <1>2, AccountInvHolds, PTL DEF Spec

\* "the next token of its family is issued": as long as no access acts on what
\* another one changed since it was read, a family never has two tokens that
\* can be rotated.  The races of ActsOnStale are all that refutes OneFreshToken.
THEOREM AccountOneFreshToken == Spec /\ [][InTime]_vars => []OneFreshToken
  <1>1. AccountInv /\ OneLive => OneFreshToken
    <2> SUFFICES ASSUME AccountInv, OneLive, NEW t1 \in Tokens, NEW t2 \in Tokens,
                        Fresh(tokens, t1, lateTokens), Fresh(tokens, t2, lateTokens),
                        tokens[t1].family = tokens[t2].family
                 PROVE  t1 = t2
      BY DEF OneFreshToken
    <2>1. tokens[t1].user = tokens[t2].user
      <3>1. PICK owner \in [Tokens -> Users \cup {"none"}] : Owned(owner)
        BY DEF AccountInv, ContractInv, TokensInv, FamiliesOwned
      <3> QED BY <3>1 DEF Owned, Fresh
    <2>2. TokenIn(tokens, t1) \in LiveTokens /\ TokenIn(tokens, t2) \in LiveTokens
      BY LiveIs
    <2> QED BY <2>1, <2>2, TokenInFields DEF OneLive
  <1> QED BY <1>1, InTimeOne, PTL

\* "a reader must never see two live codes for one account": under the same
\* condition an account has one code of a purpose that can be answered.
THEOREM AccountOneUsableCode ==
    Spec /\ [][InTime]_vars =>
        [](\A c1, c2 \in Codes :
              (/\ Usable(codes, c1, lateCodes) /\ Usable(codes, c2, lateCodes)
               /\ codes[c1].user = codes[c2].user
               /\ codes[c1].purpose = codes[c2].purpose) => c1 = c2)
  <1>1. OneUsable => \A c1, c2 \in Codes :
              (/\ Usable(codes, c1, lateCodes) /\ Usable(codes, c2, lateCodes)
               /\ codes[c1].user = codes[c2].user
               /\ codes[c1].purpose = codes[c2].purpose) => c1 = c2
    BY UsableIs, CodeInFields DEF OneUsable
  <1> QED BY <1>1, InTimeOne, PTL

\* And they implement the contract, from its first state on.
THEOREM AccountsImplementContract == Spec /\ [][InTime]_vars => Contract!Spec
  <1>1. Init => Contract!Init
    <2> SUFFICES ASSUME Init PROVE Contract!Init
      OBVIOUS
    <2>1. VerifiedUsers = {} /\ Passwords = [u \in Users |-> 0]
      BY DEF Init, VerifiedUsers, Passwords, NoAccount
    <2>2. UsableCodes = {} /\ LiveTokens = {}
      BY DEF Init, UsableCodes, LiveTokens, Usable, Fresh
    <2>3. Grants = [s \in Requests |-> Contract!Nothing]
      BY IdleFields DEF Init, Grants, Entitled, Granted, Contract!Nothing
    <2> QED BY <2>1, <2>2, <2>3
            DEF Contract!Init, VerifiedUsers, Passwords, UsableCodes, LiveTokens, Grants
  <1>2. AccountInv /\ [Next]_vars /\ [InTime]_vars => [Contract!Next]_(Contract!vars)
    <2> SUFFICES ASSUME AccountInv, [Next]_vars, [InTime]_vars
                 PROVE  ContractStep
      BY DEF ContractStep
    <2>1. CASE InTime
      BY <2>1, StepFollows DEF AccountInv, InTime
    <2>2. CASE UNCHANGED vars
      BY <2>2, BackgroundStep DEF AccountInv
    <2> QED BY <2>1, <2>2
  <1> QED BY <1>1, <1>2, AccountInvHolds, PTL DEF Spec, Contract!Spec
=============================================================================
