----------------------------- MODULE EmailCodes -----------------------------
(***************************************************************************)
(* The table email_verifications and the entity it stores                  *)
(* (src/backend/src/domain/email_verification.rs, postgres.rs).  A code is *)
(* known by its number, in the order of created_at: the plaintext, its     *)
(* hash and the row's id are one thing, and two codes never coincide.      *)
(* All codes live equally long, so they expire in the order of issue and   *)
(* the expired ones are those up to a number, late.                        *)
(*                                                                         *)
(* Every operator maps the table before a statement to its answer or to    *)
(* the table after it.                                                     *)
(***************************************************************************)
EXTENDS Naturals, FiniteSets

CONSTANTS MaxCodes,     \* bound: codes issued in a run
          MaxAttempts   \* MAX_ATTEMPTS: wrong guesses that burn a code

ASSUME CodesAssumption ==
    /\ MaxCodes \in Nat
    /\ MaxAttempts \in Nat \ {0}

Codes    == 1..MaxCodes
Purposes == {"verify", "reset"}

\* The row is not in the table.
NoCode == [user |-> "none", purpose |-> "none", attempts |-> 0,
           consumed |-> FALSE]

CodeRows(Owners) ==
    [user: Owners, purpose: Purposes, attempts: Nat, consumed: BOOLEAN]

\* EmailVerification::issue
NewCode(u, p) ==
    [user |-> u, purpose |-> p, attempts |-> 0, consumed |-> FALSE]

\* Mutant of Exhausted: one guess too many.
ExhaustedLate(code) == code.attempts > MaxAttempts

Exhausted(code) == code.attempts >= MaxAttempts

\* EmailVerification::is_usable, for row c of the table.
Usable(table, c, late) ==
    /\ table[c] # NoCode
    /\ ~ table[c].consumed
    /\ c > late
    /\ ~ Exhausted(table[c])

\* Mutant of Outstanding: any code will do.
OutstandingOfUser(table, u, p) ==
    {c \in Codes : table[c].user = u /\ ~ table[c].consumed}

\* WHERE user_id = $1 AND purpose = $2 AND consumed_at IS NULL
Outstanding(table, u, p) ==
    {c \in Codes : /\ table[c].user = u
                   /\ table[c].purpose = p
                   /\ ~ table[c].consumed}

\* active_for_user: c is the newest of them.
IsActive(table, u, p, c) ==
    /\ c \in Outstanding(table, u, p)
    /\ \A d \in Outstanding(table, u, p) : d <= c

\* find_by_hash: the guess was once a code of this account and purpose.
WasIssued(table, u, p, guess) ==
    \E c \in Codes : /\ c = guess
                     /\ table[c].user = u
                     /\ table[c].purpose = p

\* insert, at its commit: code c replaces the superseded ones that are left.
Inserted(table, c, row, superseded) ==
    [d \in Codes |->
        CASE d = c -> row
          [] d \in superseded \ {c} /\ table[d] # NoCode
               -> [table[d] EXCEPT !.consumed = TRUE]
          [] OTHER -> table[d]]

\* record_attempt; nothing when the row was purged.
Attempted(table, c) ==
    IF table[c] = NoCode THEN table
    ELSE [table EXCEPT ![c].attempts = @ + 1]

\* mark_consumed; nothing when the row was purged.
Burnt(table, c) ==
    IF table[c] = NoCode THEN table
    ELSE [table EXCEPT ![c].consumed = TRUE]

\* delete_expired
CodesPurged(table, late) ==
    [c \in Codes |-> IF c <= late THEN NoCode ELSE table[c]]
=============================================================================
