----------------------------- MODULE LeaderLock -----------------------------
(***************************************************************************)
(* The session advisory lock of PostgreSQL that gates the background loop, *)
(* as PostgresLeaderLock (adapters/persistence/postgres.rs) uses it.  The  *)
(* lock belongs to a database session, not to the replica that took it: it *)
(* stays with the session when that goes back to the pool, the session may *)
(* take it again, and it is free once it was unlocked as often as taken or *)
(* the session ended.                                                      *)
(***************************************************************************)
EXTENDS Integers

\* Nobody holds it.  Sessions are pairs of a replica and a number.
Unlocked == [holder |-> <<>>, times |-> 0]

\* pg_try_advisory_lock answers true.
Lockable(lock, session) == lock.holder \in {<<>>, session}

Locked(lock, session) == [holder |-> session, times |-> lock.times + 1]

\* Mutant of Released: the session that unlocks is not looked at.
ReleasedAnyway(lock, session) ==
    IF lock.times = 1 THEN Unlocked ELSE [lock EXCEPT !.times = lock.times - 1]

\* pg_advisory_unlock; it warns and does nothing on another session.
Released(lock, session) ==
    IF lock.holder # session THEN lock
    ELSE IF lock.times = 1 THEN Unlocked
    ELSE [lock EXCEPT !.times = lock.times - 1]

\* The sessions end.
Freed(lock, sessions) == IF lock.holder \in sessions THEN Unlocked ELSE lock
=============================================================================
