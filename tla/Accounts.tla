------------------------------ MODULE Accounts ------------------------------
(***************************************************************************)
(* Registration, sign-in by e-mailed code, password reset and refresh      *)
(* sessions: the handlers under /api/auth (adapters/http/mod.rs) with the  *)
(* use cases they call.                                                    *)
(*                                                                         *)
(* A request in progress occupies a slot; its pc is its next access to the *)
(* database or the mail provider, and nothing is locked in between.  A     *)
(* request's first access is part of its arrival, and a request its first  *)
(* access or a throttle refuses leaves no trace: it is no action.  Two     *)
(* reads are one with the access that follows: the account of an address,  *)
(* which is never deleted nor moved, and the throttle's.                   *)
(*                                                                         *)
(* Time passes by one code or one token expiring.  Any request may end at  *)
(* any access: a database error, a client that hangs up, a crash.          *)
(***************************************************************************)
EXTENDS EmailCodes, RefreshTokens

CONSTANTS Users,      \* the accounts there may be, by address
          Requests    \* the slots of the requests in progress at a time

ASSUME UsersAssumption == "none" \notin Users
ASSUME RequestsAssumption == IsFiniteSet(Requests)

VARIABLES account,      \* [Users -> row of users, NoAccount before it]
          codes,        \* [Codes -> row of email_verifications, NoCode if none]
          issuedCodes,  \* how many codes were issued
          lateCodes,    \* how many codes expired
          mailed,       \* the codes handed to the mail provider
          tokens,       \* [Tokens -> row of refresh_tokens, NoToken if none]
          issuedTokens, \* how many refresh tokens were issued
          lateTokens,   \* how many refresh tokens expired
          handed,       \* the tokens that reached a client's cookie
          requests      \* [Requests -> request, Idle if none]

codeVars    == <<codes, issuedCodes, lateCodes, mailed>>
sessionVars == <<tokens, issuedTokens, lateTokens, handed>>
vars        == <<account, codeVars, sessionVars, requests>>

\* password names the reset code that set it, 0 for the one of registration.
AccountRows == [registered: BOOLEAN, verified: BOOLEAN, password: Codes \cup {0}]

NoAccount  == [registered |-> FALSE, verified |-> FALSE, password |-> 0]
NewAccount == [registered |-> TRUE,  verified |-> FALSE, password |-> 0]

\* What is left to do for a request that answered its code.
Granted == {"password", "verified", "close", "open"}

\* guess: the code presented, 0 for one that never was; code: the row found,
\* or the code issued; superseded: the codes it replaces; token: the token
\* presented, later the one issued; family: the family it belongs to.
Request == [op: {"register", "resend", "login", "forgot", "verify", "reset",
              "refresh", "logout"},
            pc: {"insert", "lookup", "supersede", "commit", "send",
                 "compare", "attempt", "consume",
                 "revoke", "discard", "rotate", "renew"} \cup Granted,
            user: Users,
            purpose: Purposes,
            guess: Codes \cup {0},
            code: Codes \cup {0},
            superseded: SUBSET Codes,
            parent: Tokens \cup {0},
            token: Tokens \cup {0},
            family: Tokens \cup {0}]

Idle == [op |-> "none", pc |-> "idle"]

Init == /\ account = [u \in Users |-> NoAccount]
        /\ codes = [c \in Codes |-> NoCode]
        /\ issuedCodes = 0
        /\ lateCodes = 0
        /\ mailed = {}
        /\ tokens = [t \in Tokens |-> NoToken]
        /\ issuedTokens = 0
        /\ lateTokens = 0
        /\ handed = {}
        /\ requests = [s \in Requests |-> Idle]

(***************************************************************************)
(* Requests.                                                               *)
(***************************************************************************)
At(s, pc) == requests[s].pc = pc

Becomes(s, r) == requests' = [requests EXCEPT ![s] = r]

Goes(s, pc) == Becomes(s, [requests[s] EXCEPT !.pc = pc])

Ends(s) == Becomes(s, Idle)

\* A request of op, for the account u, whose next access is pc.
Arrived(op, u, p, pc) ==
    [op |-> op, pc |-> pc, user |-> u, purpose |-> p, guess |-> 0, code |-> 0,
     superseded |-> {}, parent |-> 0, token |-> 0, family |-> 0]

\* EmailVerification::issue for the request r: it is created, not yet stored.
IssuesCode(s, r) ==
    /\ issuedCodes < MaxCodes
    /\ issuedCodes' = issuedCodes + 1
    /\ Becomes(s, [r EXCEPT !.pc = "supersede", !.code = issuedCodes + 1])
    /\ UNCHANGED <<account, codes, lateCodes, mailed, sessionVars>>

(***************************************************************************)
(* Codes are issued: register, resend, login, forgot.                      *)
(***************************************************************************)
\* RegisterUser::execute goes on with an address nobody registered,
\* RequestEmailVerification::execute with an account not verified yet,
\* LoginUser::execute with the right password of an account, and
\* RequestPasswordReset::execute with any account.
AddressFree(u)      == ~ account[u].registered
Unverified(u)       == account[u].registered /\ ~ account[u].verified
PasswordAccepted(u) == account[u].registered
AccountFound(u)     == account[u].registered

\* A registration finds the address free...
Register(s, u) ==
    /\ At(s, "idle")
    /\ AddressFree(u)
    /\ Becomes(s, Arrived("register", u, "verify", "insert"))
    /\ UNCHANGED <<account, codeVars, sessionVars>>

\* Mutant of InsertAccount: a second registration replaces the first.
UpsertAccount(s) ==
    /\ At(s, "insert")
    /\ account' = [account EXCEPT ![requests[s].user] = NewAccount]
    /\ Goes(s, "lookup")
    /\ UNCHANGED <<codeVars, sessionVars>>

\* ... and inserts the account; the column is UNIQUE, so the second of two
\* registrations fails there.
InsertAccount(s) ==
    /\ At(s, "insert")
    /\ LET u == requests[s].user
       IN  IF AddressFree(u)
           THEN /\ account' = [account EXCEPT ![u] = NewAccount]
                /\ Goes(s, "lookup")
           ELSE Ends(s) /\ UNCHANGED account
    /\ UNCHANGED <<codeVars, sessionVars>>

\* ... and looks it up again to mail it a code, which it does not do if the
\* account was verified meanwhile.
RegistrationCode(s) ==
    /\ At(s, "lookup")
    /\ IF Unverified(requests[s].user)
       THEN IssuesCode(s, requests[s])
       ELSE Ends(s) /\ UNCHANGED <<account, codeVars, sessionVars>>

\* "Send it again": answered alike whether or not a code is mailed.
Resend(s, u) ==
    /\ At(s, "idle")
    /\ Unverified(u)
    /\ IssuesCode(s, Arrived("resend", u, "verify", "supersede"))

\* The second factor of a sign-in whose password was accepted.
Login(s, u) ==
    /\ At(s, "idle")
    /\ PasswordAccepted(u)
    /\ IssuesCode(s, Arrived("login", u, "verify", "supersede"))

Forgot(s, u) ==
    /\ At(s, "idle")
    /\ AccountFound(u)
    /\ IssuesCode(s, Arrived("forgot", u, "reset", "supersede"))

\* Mutant of SupersedeCodes: the mail goes out before the code is stored.
SendThenSupersede(s) ==
    /\ At(s, "supersede")
    /\ LET r == requests[s]
       IN  /\ mailed' = mailed \cup {r.code}
           /\ Becomes(s, [r EXCEPT !.pc = "commit",
                         !.superseded = Outstanding(codes, r.user, r.purpose)])
    /\ UNCHANGED <<account, codes, issuedCodes, lateCodes, sessionVars>>

\* insert, the UPDATE: it sees the codes committed so far.
SupersedeCodes(s) ==
    /\ At(s, "supersede")
    /\ LET r == requests[s]
       IN  Becomes(s, [r EXCEPT !.pc = "commit",
                         !.superseded = Outstanding(codes, r.user, r.purpose)])
    /\ UNCHANGED <<account, codeVars, sessionVars>>

\* insert, the INSERT and the COMMIT.
CommitCode(s) ==
    /\ At(s, "commit")
    /\ LET r == requests[s]
       IN  /\ codes' = Inserted(codes, r.code, NewCode(r.user, r.purpose),
                                r.superseded)
           /\ Becomes(s, [r EXCEPT !.pc = "send", !.superseded = {}])
    /\ UNCHANGED <<account, issuedCodes, lateCodes, mailed, sessionVars>>

\* EmailSender::send_code: the provider takes the mail, whatever it answers...
SendCode(s) ==
    /\ At(s, "send")
    /\ mailed' = mailed \cup {requests[s].code}
    /\ Ends(s)
    /\ UNCHANGED <<account, codes, issuedCodes, lateCodes, sessionVars>>

(***************************************************************************)
(* A code is answered: verify, reset.                                      *)
(***************************************************************************)
\* The active code of the account, if it passes the checks: a request that
\* finds none, or one exhausted or expired, only looks up what to answer.
Answerable(u, p, c) ==
    /\ IsActive(codes, u, p, c)
    /\ ~ Exhausted(codes[c])
    /\ c > lateCodes

\* A guess at it, right or wrong.
Confirm(s, u, op, guess) ==
    /\ At(s, "idle")
    /\ AccountFound(u)
    /\ guess \in mailed \cup {0}
    /\ \E c \in Codes :
          /\ Answerable(u, op, c)
          /\ Becomes(s, [Arrived(op, u, op, IF guess = c THEN "consume" ELSE "compare")
                            EXCEPT !.guess = guess, !.code = c])
    /\ UNCHANGED <<account, codeVars, sessionVars>>

VerifyEmail(s, u, guess)   == Confirm(s, u, "verify", guess)
ResetPassword(s, u, guess) == Confirm(s, u, "reset", guess)

\* stale_or_invalid: a code of this account that was replaced is no guess.
CompareStale(s) ==
    /\ At(s, "compare")
    /\ LET r == requests[s]
       IN  IF WasIssued(codes, r.user, r.purpose, r.guess)
           THEN Ends(s)
           ELSE Becomes(s, [r EXCEPT !.pc = "attempt", !.guess = 0])
    /\ UNCHANGED <<account, codeVars, sessionVars>>

RecordAttempt(s) ==
    /\ At(s, "attempt")
    /\ codes' = Attempted(codes, requests[s].code)
    /\ Ends(s)
    /\ UNCHANGED <<account, issuedCodes, lateCodes, mailed, sessionVars>>

\* codes.mark_consumed
ConsumeCode(s) ==
    /\ At(s, "consume")
    /\ codes' = Burnt(codes, requests[s].code)
    /\ LET r == requests[s]
       IN  Becomes(s, [r EXCEPT !.guess = 0,
                         !.pc = IF r.op = "reset" THEN "password" ELSE "verified"])
    /\ UNCHANGED <<account, issuedCodes, lateCodes, mailed, sessionVars>>

\* update_password_hash
ChangePassword(s) ==
    /\ At(s, "password")
    /\ account' = [account EXCEPT ![requests[s].user].password = requests[s].code]
    /\ Goes(s, "verified")
    /\ UNCHANGED <<codeVars, sessionVars>>

(***************************************************************************)
(* Sessions.                                                               *)
(***************************************************************************)
\* RefreshToken::issue for the request r, in family f, 0 for a new one.
IssuesToken(s, r, f, pc) ==
    /\ issuedTokens < MaxTokens
    /\ issuedTokens' = issuedTokens + 1
    /\ Becomes(s, [r EXCEPT !.pc = pc, !.token = issuedTokens + 1,
                     !.family = IF f = 0 THEN issuedTokens + 1 ELSE f])

\* mark_email_verified; a reset still has sessions to close.
MarkVerified(s) ==
    /\ At(s, "verified")
    /\ LET r == [requests[s] EXCEPT !.code = 0]
       IN  /\ account' = [account EXCEPT ![r.user].verified = TRUE]
           /\ IF r.op = "reset"
              THEN /\ Becomes(s, [r EXCEPT !.pc = "close"])
                   /\ UNCHANGED issuedTokens
              ELSE IssuesToken(s, r, 0, "open")
    /\ UNCHANGED <<codeVars, tokens, lateTokens, handed>>

\* delete_for_user
CloseSessions(s) ==
    /\ At(s, "close")
    /\ tokens' = AllDeleted(tokens, requests[s].user)
    /\ IssuesToken(s, requests[s], 0, "open")
    /\ UNCHANGED <<account, codeVars, lateTokens, handed>>

\* refresh_tokens.insert of the request's new token, and the reply.
InsertToken(s) ==
    LET r == requests[s]
    IN  /\ tokens' = [tokens EXCEPT ![r.token] = NewToken(r.user, r.family)]
        /\ handed' = handed \cup {r.token}
        /\ Ends(s)
        /\ UNCHANGED <<account, codeVars, issuedTokens, lateTokens>>

\* SessionIssuer::issue
OpenSession(s) == At(s, "open") /\ InsertToken(s)

\* A request of a client whose cookie t is still in the table.
Presented(op, t, pc) ==
    [Arrived(op, tokens[t].user, "verify", pc) EXCEPT
       !.parent = t, !.family = tokens[t].family]

\* Mutant of Rotation: a consumed token is rotated again.
RotationWithoutReuseDetection(t) ==
    IF t <= lateTokens THEN "discard" ELSE "rotate"

\* A consumed token is a replay and costs the family, an expired one is
\* garbage, any other is rotated.
Rotation(t) ==
    IF tokens[t].consumed THEN "revoke"
    ELSE IF t <= lateTokens THEN "discard" ELSE "rotate"

Present(s, op, t, pc) ==
    /\ At(s, "idle")
    /\ t \in handed
    /\ tokens[t] # NoToken
    /\ Becomes(s, Presented(op, t, pc))
    /\ UNCHANGED <<account, codeVars, sessionVars>>

Refresh(s, t) == Present(s, "refresh", t, Rotation(t))
Logout(s, t)  == Present(s, "logout", t, "revoke")

\* delete_family, of a replayed token or on logout.
RevokeFamily(s) ==
    /\ At(s, "revoke")
    /\ tokens' = FamilyDeleted(tokens, requests[s].family)
    /\ Ends(s)
    /\ UNCHANGED <<account, codeVars, issuedTokens, lateTokens, handed>>

\* An expired token is deleted, its family is left alone.
DiscardToken(s) ==
    /\ At(s, "discard")
    /\ tokens' = Deleted(tokens, requests[s].parent)
    /\ Ends(s)
    /\ UNCHANGED <<account, codeVars, issuedTokens, lateTokens, handed>>

\* Mutant of RotateToken: the family is read again after the check.
RotateTokenRereading(s) ==
    /\ At(s, "rotate")
    /\ tokens' = Consumed(tokens, requests[s].parent)
    /\ issuedTokens < MaxTokens
    /\ issuedTokens' = issuedTokens + 1
    /\ Becomes(s, [requests[s] EXCEPT !.pc = "renew", !.token = issuedTokens + 1,
                     !.family = tokens[requests[s].parent].family])
    /\ UNCHANGED <<account, codeVars, lateTokens, handed>>

\* refresh_tokens.mark_consumed, whatever the row has become.
RotateToken(s) ==
    /\ At(s, "rotate")
    /\ tokens' = Consumed(tokens, requests[s].parent)
    /\ IssuesToken(s, requests[s], requests[s].family, "renew")
    /\ UNCHANGED <<account, codeVars, lateTokens, handed>>

RenewSession(s) == At(s, "renew") /\ InsertToken(s)

(***************************************************************************)
(* Time, the purges of the background loop, and failures.                  *)
(***************************************************************************)
ExpireCode ==
    /\ lateCodes < issuedCodes
    /\ lateCodes' = lateCodes + 1
    /\ UNCHANGED <<account, codes, issuedCodes, mailed, sessionVars, requests>>

ExpireToken ==
    /\ lateTokens < issuedTokens
    /\ lateTokens' = lateTokens + 1
    /\ UNCHANGED <<account, codeVars, tokens, issuedTokens, handed, requests>>

PurgeCodes ==
    /\ codes' = CodesPurged(codes, lateCodes)
    /\ UNCHANGED <<account, issuedCodes, lateCodes, mailed, sessionVars, requests>>

PurgeTokens ==
    /\ tokens' = TokensPurged(tokens, lateTokens)
    /\ UNCHANGED <<account, codeVars, issuedTokens, lateTokens, handed, requests>>

\* The request ends before its next access; what it already did stays.
Abort(s) ==
    /\ ~ At(s, "idle")
    /\ Ends(s)
    /\ UNCHANGED <<account, codeVars, sessionVars>>

(***************************************************************************)
(* The specification.                                                      *)
(***************************************************************************)
\* A request of a client, by its first access.
Arrive(s) ==
    \/ \E u \in Users : Register(s, u) \/ Resend(s, u) \/ Login(s, u) \/ Forgot(s, u)
    \/ \E u \in Users, guess \in Codes \cup {0} :
          VerifyEmail(s, u, guess) \/ ResetPassword(s, u, guess)
    \/ \E t \in Tokens : Refresh(s, t) \/ Logout(s, t)

\* The next access of a request in progress.
Proceed(s) ==
    \/ InsertAccount(s) \/ RegistrationCode(s)
    \/ SupersedeCodes(s) \/ CommitCode(s) \/ SendCode(s)
    \/ CompareStale(s) \/ RecordAttempt(s)
    \/ ConsumeCode(s) \/ ChangePassword(s) \/ MarkVerified(s) \/ CloseSessions(s)
    \/ OpenSession(s)
    \/ RevokeFamily(s) \/ DiscardToken(s) \/ RotateToken(s) \/ RenewSession(s)

Next == \/ \E s \in Requests : Arrive(s) \/ Proceed(s) \/ Abort(s)
        \/ ExpireCode \/ ExpireToken \/ PurgeCodes \/ PurgeTokens

Spec == Init /\ [][Next]_vars

\* Every variable is of its kind.
TypeOK ==
    /\ account \in [Users -> AccountRows]
    /\ codes \in [Codes -> CodeRows(Users) \cup {NoCode}]
    /\ issuedCodes \in 0..MaxCodes
    /\ lateCodes \in 0..issuedCodes
    /\ mailed \subseteq 1..issuedCodes
    /\ tokens \in [Tokens -> TokenRows(Users) \cup {NoToken}]
    /\ issuedTokens \in 0..MaxTokens
    /\ lateTokens \in 0..issuedTokens
    /\ handed \subseteq 1..issuedTokens
    /\ requests \in [Requests -> Request \cup {Idle}]

\* A session exists only for a verified account (ADR-062): whichever of the
\* concurrent requests opened or renewed it, mark_email_verified came first.
SessionsVerified ==
    \A t \in Tokens :
        tokens[t] # NoToken => account[tokens[t].user].verified

\* A code that was not yet exhausted when a guess was checked takes that guess
\* late: the attempts exceed MAX_ATTEMPTS by no more than the other requests
\* that were in progress.
AttemptsBounded ==
    \A c \in Codes : codes[c].attempts < MaxAttempts + Cardinality(Requests)

\* The password of an account is the one of its registration, or was set by
\* the answer to a reset code of that account, which is burnt by then: no
\* sign-in code and no code of somebody else changes it (ADR-063).
PasswordsByResetCode ==
    \A u \in Users, c \in Codes :
        (account[u].password = c /\ codes[c] # NoCode) =>
            codes[c].user = u /\ codes[c].purpose = "reset" /\ codes[c].consumed

\* A mailed code can be answered until it expires: "persist before sending",
\* and nothing deletes a code but the purge of the expired ones.
MailedIsStored ==
    \A c \in mailed : c > lateCodes => codes[c] # NoCode

(***************************************************************************)
(* The contract.                                                           *)
(***************************************************************************)
\* What the request r may still do: burn the code it answered, open a session,
\* close the others first, turn the token it presented, or put the next one
\* in the place of a parent that is still there.
Entitled(r) ==
    CASE r.pc = "consume" ->
            [may |-> "answer", user |-> r.user, family |-> 0]
      [] r.pc = "rotate" ->
            [may |-> "turn", user |-> r.user, family |-> r.family]
      [] r.pc \in Granted ->
            [may |-> IF r.op = "reset" /\ r.pc # "open" THEN "reset" ELSE "open",
             user |-> r.user, family |-> 0]
      [] r.pc = "renew" /\ tokens[r.parent] # NoToken ->
            [may |-> "renew", user |-> r.user, family |-> r.family]
      [] OTHER -> [may |-> "nothing"]

Contract == INSTANCE AccountContract WITH
    verified <- {u \in Users : account[u].verified},
    password <- [u \in Users |-> account[u].password],
    usable   <- {[user |-> codes[c].user, purpose |-> codes[c].purpose, code |-> c] :
                   c \in {d \in Codes : Usable(codes, d, lateCodes)}},
    live     <- {[user |-> tokens[t].user, family |-> tokens[t].family, token |-> t] :
                   t \in {d \in Tokens : Fresh(tokens, d, lateTokens)}},
    grant    <- [s \in Requests |-> Entitled(requests[s])]

\* The accesses of s that act on what it read earlier and is no longer so:
\* it stores a code beside another one that was committed since its UPDATE,
\* burns a code that was used, exhausted or expired since its check, rotates
\* a token that was rotated or expired since it was found, or puts a token in
\* a family that was deleted, or has another token, since it was turned.
ActsOnStale(s) ==
    LET r == requests[s]
    IN  /\ requests'[s] # r
        /\ \/ /\ r.pc = "commit"
              /\ \E d \in Outstanding(codes, r.user, r.purpose) \ r.superseded :
                    Usable(codes, d, lateCodes)
           \/ r.pc = "consume" /\ ~ Usable(codes, r.code, lateCodes)
           \/ r.pc = "rotate" /\ ~ Fresh(tokens, r.parent, lateTokens)
           \/ /\ r.pc = "renew"
              /\ \/ tokens[r.parent] = NoToken
                 \/ \E t \in Tokens : /\ Fresh(tokens, t, lateTokens)
                                      /\ tokens[t].family = r.family

\* Every step is one of the contract, but for the four races above.  No
\* other interleaving of sign-ins, resets, renewals, purges, expiries and
\* failures answers a code twice, opens a session without an answered code
\* or before the account is verified, lets a session outlive a reset or a
\* revocation, or leaves a family with two fresh tokens.
StepsKeepContract ==
    [][(\E s \in Requests : ActsOnStale(s)) \/ [Contract!Next]_(Contract!vars)]_vars

(***************************************************************************)
(* Sentences of the sources that the races refute.                         *)
(***************************************************************************)
\* "marked consumed (single use) and the next token of its family is issued"
\* (refresh_session.rs:41-42): a family has one token that can be rotated.
OneFreshToken ==
    \A t1, t2 \in Tokens :
        (/\ Fresh(tokens, t1, lateTokens) /\ Fresh(tokens, t2, lateTokens)
         /\ tokens[t1].family = tokens[t2].family) => t1 = t2

\* "a reader must never see two live codes for one account" (postgres.rs:416)
OneUsableCode ==
    \A u \in Users, p \in Purposes : \A c1, c2 \in Outstanding(codes, u, p) : c1 = c2

\* "Every existing session dies with the old password"
\* (password_reset.rs:194): a reset that goes on to open its own session left
\* no older one.
ResetClosesSessions ==
    \A s \in Requests :
        (requests[s].op = "reset" /\ At(s, "open")) =>
            \A t \in Tokens : (/\ Fresh(tokens, t, lateTokens)
                               /\ tokens[t].user = requests[s].user)
                                   => tokens[t].family >= requests[s].token
=============================================================================
