--------------------------- MODULE RefreshTokens ----------------------------
(***************************************************************************)
(* The table refresh_tokens and the entity it stores                       *)
(* (src/backend/src/domain/refresh_token.rs, postgres.rs).  A token is     *)
(* known by its number, in the order of created_at; a family is known by   *)
(* the first token of its lineage.  All tokens live equally long: the      *)
(* expired ones are those up to a number, late.                            *)
(***************************************************************************)
EXTENDS Naturals

CONSTANT MaxTokens    \* bound: refresh tokens issued in a run

ASSUME TokensAssumption == MaxTokens \in Nat

Tokens == 1..MaxTokens

\* The row is not in the table.
NoToken == [user |-> "none", family |-> 0, consumed |-> FALSE]

TokenRows(Owners) == [user: Owners, family: Tokens, consumed: BOOLEAN]

\* RefreshToken::issue_in_family; issue starts a family of its own.
NewToken(u, f) == [user |-> u, family |-> f, consumed |-> FALSE]

\* The token can still be rotated.
Fresh(table, t, late) ==
    table[t] # NoToken /\ ~ table[t].consumed /\ t > late

\* mark_consumed; nothing when the row is gone.
Consumed(table, t) ==
    IF table[t] = NoToken THEN table
    ELSE [table EXCEPT ![t].consumed = TRUE]

\* delete, by id
Deleted(table, t) == [table EXCEPT ![t] = NoToken]

\* delete_family
FamilyDeleted(table, f) ==
    [t \in Tokens |-> IF table[t].family = f THEN NoToken ELSE table[t]]

\* delete_for_user
AllDeleted(table, u) ==
    [t \in Tokens |-> IF table[t].user = u THEN NoToken ELSE table[t]]

\* delete_expired
TokensPurged(table, late) ==
    [t \in Tokens |-> IF t <= late THEN NoToken ELSE table[t]]
=============================================================================
