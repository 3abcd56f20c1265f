--------------------------- MODULE InMemoryProofs ---------------------------
(***************************************************************************)
(* What a test on the in-memory repositories says of PostgreSQL.  Each     *)
(* theorem has, as its assumptions, the condition under which the double   *)
(* and the statement do the same; what is left out of them is where a test *)
(* that passes on the double shows nothing:                                *)
(*                                                                         *)
(*   - an address that is registered twice;                                *)
(*   - two codes outstanding at once, which the double never has;          *)
(*   - a job whose search was deleted before the insert, as by the owner   *)
(*     during a tick, or any other row that refers to one that is gone:    *)
(*     PostgreSQL refuses it, the double knows no other table;             *)
(*   - a copy written back to a job that is gone or was unlinked;          *)
(*   - a memory of more keys than the limit;                               *)
(*   - a search deleted after its runs;                                    *)
(*   - events recorded in another order than they were created.            *)
(***************************************************************************)
EXTENDS InMemory, FiniteSetTheorems, TLAPS

\* A part of a finite set has fewer elements.
LEMMA PartIsSmaller ==
    ASSUME NEW W, IsFiniteSet(W), NEW T, T \subseteq W, T # W
    PROVE  /\ IsFiniteSet(T) /\ Cardinality(T) \in Nat
           /\ Cardinality(W) \in Nat /\ Cardinality(T) < Cardinality(W)
  <1>1. T \in SUBSET W
    OBVIOUS
  <1>2. /\ IsFiniteSet(T) /\ Cardinality(T) <= Cardinality(W)
        /\ Cardinality(W) # Cardinality(T)
    BY <1>1, FS_Subset
  <1>3. Cardinality(T) \in Nat /\ Cardinality(W) \in Nat
    BY <1>2, FS_CardinalityType
  <1> QED BY <1>2, <1>3

(***************************************************************************)
(* Verification codes.                                                     *)
(***************************************************************************)
\* insert: the double does in one step what the transaction of PostgreSQL does
\* when no other is between its two statements.
THEOREM CodesInsertedAlike ==
    ASSUME NEW table \in [Codes -> CodeRows(STRING) \cup {NoCode}], NEW c \in Codes,
           NEW row \in CodeRows(STRING), row.user # "none"
    PROVE  MemCodeInserted(table, c, row)
             = Inserted(table, c, row, Outstanding(table, row.user, row.purpose))
  <1>1. ASSUME NEW d \in Outstanding(table, row.user, row.purpose)
        PROVE  table[d] # NoCode
    BY <1>1 DEF Outstanding, NoCode
  <1>2. ASSUME NEW d \in Codes
        PROVE  MemCodeInserted(table, c, row)[d]
                 = Inserted(table, c, row, Outstanding(table, row.user, row.purpose))[d]
    <2>1. CASE d = c
      BY <2>1 DEF MemCodeInserted, Inserted
    <2>2. CASE d # c /\ d \in Outstanding(table, row.user, row.purpose)
      BY <1>1, <2>2 DEF MemCodeInserted, Inserted
    <2>3. CASE d # c /\ d \notin Outstanding(table, row.user, row.purpose)
      BY <2>3 DEF MemCodeInserted, Inserted
    <2> QED BY <2>1, <2>2, <2>3
  <1> QED BY <1>2 DEF MemCodeInserted, Inserted

\* An account has at most one code outstanding of a purpose.
OneOutstanding(table) ==
    \A u \in STRING, p \in Purposes :
        \A c1, c2 \in Outstanding(table, u, p) : c1 = c2

\* "A reader must never see two live codes for one account": no sequence of the
\* double's methods shows two, so no test on it meets the race of two inserts
\* that PostgreSQL lets through.
THEOREM DoubleHasOneCode ==
    ASSUME NEW table \in [Codes -> CodeRows(STRING) \cup {NoCode}], OneOutstanding(table),
           NEW c \in Codes, NEW row \in CodeRows(STRING), NEW late \in Nat
    PROVE  /\ OneOutstanding([d \in Codes |-> NoCode])
           /\ OneOutstanding(MemCodeInserted(table, c, row))
           /\ OneOutstanding(MemCodeAttempted(table, c))
           /\ OneOutstanding(MemCodeBurnt(table, c))
           /\ OneOutstanding(MemCodesPurged(table, late))
  <1>n. \A p \in Purposes : NoCode.purpose # p
    BY DEF NoCode, Purposes
  <1>k. ASSUME NEW after, \A d \in Codes : after[d] = NoCode
                             \/ /\ after[d].user = table[d].user
                                /\ after[d].purpose = table[d].purpose
                                /\ table[d].consumed => after[d].consumed
        PROVE  OneOutstanding(after)
    <2> SUFFICES ASSUME NEW u \in STRING, NEW p \in Purposes
                 PROVE  Outstanding(after, u, p) \subseteq Outstanding(table, u, p)
      BY DEF OneOutstanding
    <2> QED BY <1>k, <1>n DEF Outstanding
  <1>1. OneOutstanding([d \in Codes |-> NoCode])
    BY <1>n DEF OneOutstanding, Outstanding
  <1>2. OneOutstanding(MemCodeInserted(table, c, row))
    <2> DEFINE after == MemCodeInserted(table, c, row)
    <2>1. after[c] = row
      BY DEF MemCodeInserted
    <2>2. ASSUME NEW d \in Codes, d # c
          PROVE  IF d \in Outstanding(table, row.user, row.purpose)
                 THEN after[d] = [table[d] EXCEPT !.consumed = TRUE]
                 ELSE after[d] = table[d]
      BY <2>2 DEF MemCodeInserted
    <2> HIDE DEF after
    <2> SUFFICES ASSUME NEW u \in STRING, NEW p \in Purposes,
                        NEW c1 \in Outstanding(after, u, p), NEW c2 \in Outstanding(after, u, p)
                 PROVE  c1 = c2
      BY DEF OneOutstanding, after
    <2>3. ASSUME NEW d \in Outstanding(after, u, p), d # c
          PROVE  d \in Outstanding(table, u, p) /\ ~ (u = row.user /\ p = row.purpose)
      <3>1. d \in Codes /\ after[d].user = u /\ after[d].purpose = p /\ ~ after[d].consumed
        BY DEF Outstanding
      <3>2. CASE d \in Outstanding(table, row.user, row.purpose)
        <4>1. after[d] = [table[d] EXCEPT !.consumed = TRUE]
          BY <2>2, <2>3, <3>1, <3>2
        <4>2. table[d] \in CodeRows(STRING)
          BY <3>1, <3>2, <1>n DEF Outstanding, NoCode, CodeRows
        <4>3. after[d].consumed
          BY <4>1, <4>2 DEF CodeRows
        <4> QED BY <3>1, <4>3
      <3>3. CASE d \notin Outstanding(table, row.user, row.purpose)
        <4>1. after[d] = table[d]
          BY <2>2, <2>3, <3>1, <3>3
        <4>2. d \in Outstanding(table, u, p)
          BY <3>1, <4>1 DEF Outstanding
        <4> QED BY <3>3, <4>2
      <3> QED BY <3>2, <3>3
    <2>4. c \in Outstanding(after, u, p) => u = row.user /\ p = row.purpose
      BY <2>1 DEF Outstanding
    <2> QED BY <2>3, <2>4 DEF OneOutstanding
  <1>3. OneOutstanding(MemCodeAttempted(table, c))
    <2>1. \A d \in Codes : /\ MemCodeAttempted(table, c)[d].user = table[d].user
                           /\ MemCodeAttempted(table, c)[d].purpose = table[d].purpose
                           /\ MemCodeAttempted(table, c)[d].consumed = table[d].consumed
      BY DEF MemCodeAttempted, CodeRows, NoCode
    <2> QED BY <2>1, <1>k
  <1>4. OneOutstanding(MemCodeBurnt(table, c))
    <2>1. \A d \in Codes : /\ MemCodeBurnt(table, c)[d].user = table[d].user
                           /\ MemCodeBurnt(table, c)[d].purpose = table[d].purpose
                           /\ table[d].consumed => MemCodeBurnt(table, c)[d].consumed
      BY DEF MemCodeBurnt, CodeRows, NoCode
    <2> QED BY <2>1, <1>k
  <1>5. OneOutstanding(MemCodesPurged(table, late))
    <2>1. \A d \in Codes : MemCodesPurged(table, late)[d] \in {NoCode, table[d]}
      BY DEF MemCodesPurged
    <2> QED BY <2>1, <1>k
  <1> QED BY <1>1, <1>2, <1>3, <1>4, <1>5

\* With one code outstanding, the double finds the code that PostgreSQL finds;
\* what is attempted, burnt and purged is the same in any case.
THEOREM CodesFoundAlike ==
    ASSUME NEW table \in [Codes -> CodeRows(STRING) \cup {NoCode}], OneOutstanding(table),
           NEW u \in STRING, NEW p \in Purposes, NEW c \in Codes, NEW late \in Nat
    PROVE  /\ MemCodeActive(table, u, p, c) <=> IsActive(table, u, p, c)
           /\ MemCodeIssued(table, u, p, c) <=> WasIssued(table, u, p, c)
           /\ MemCodeAttempted(table, c) = Attempted(table, c)
           /\ MemCodeBurnt(table, c) = Burnt(table, c)
           /\ MemCodesPurged(table, late) = CodesPurged(table, late)
  <1>1. MemCodeActive(table, u, p, c) <=> IsActive(table, u, p, c)
    BY DEF MemCodeActive, IsActive, OneOutstanding, Outstanding, Codes
  <1>2. MemCodeIssued(table, u, p, c) <=> WasIssued(table, u, p, c)
    BY DEF MemCodeIssued, WasIssued
  <1>3. MemCodeAttempted(table, c) = Attempted(table, c)
    BY DEF MemCodeAttempted, Attempted
  <1>4. MemCodeBurnt(table, c) = Burnt(table, c)
    BY DEF MemCodeBurnt, Burnt
  <1>5. MemCodesPurged(table, late) = CodesPurged(table, late)
    BY DEF MemCodesPurged, CodesPurged, Codes
  <1> QED BY <1>1, <1>2, <1>3, <1>4, <1>5

(***************************************************************************)
(* Refresh tokens.                                                         *)
(***************************************************************************)
\* The two token stores do the same: what the tests of refresh_session.rs say
\* of rotation and reuse detection, without a second request in between, holds
\* on PostgreSQL.
THEOREM TokensAlike ==
    ASSUME NEW table \in [Tokens -> TokenRows(STRING) \cup {NoToken}], NEW t \in Tokens,
           NEW u \in STRING, NEW f \in Tokens, NEW late \in Nat
    PROVE  /\ MemTokenConsumed(table, t) = Consumed(table, t)
           /\ MemTokenDeleted(table, t) = Deleted(table, t)
           /\ MemTokensClosed(table, u) = AllDeleted(table, u)
           /\ MemFamilyDeleted(table, f) = FamilyDeleted(table, f)
           /\ MemTokensPurged(table, late) = TokensPurged(table, late)
  <1>1. MemTokenConsumed(table, t) = Consumed(table, t)
    BY DEF MemTokenConsumed, Consumed
  <1>2. MemTokenDeleted(table, t) = Deleted(table, t)
    BY DEF MemTokenDeleted, Deleted
  <1>3. MemTokensClosed(table, u) = AllDeleted(table, u)
    BY DEF MemTokensClosed, AllDeleted
  <1>4. MemFamilyDeleted(table, f) = FamilyDeleted(table, f)
    BY DEF MemFamilyDeleted, FamilyDeleted
  <1>5. MemTokensPurged(table, late) = TokensPurged(table, late)
    BY DEF MemTokensPurged, TokensPurged, Tokens
  <1> QED BY <1>1, <1>2, <1>3, <1>4, <1>5

(***************************************************************************)
(* Accounts and KeeperHub keys.                                            *)
(***************************************************************************)
UniqueAddresses(users) ==
    \A u, v \in DOMAIN users : users[u].email = users[v].email => u = v

\* PostgreSQL keeps addresses unique, and the double does the same as long as
\* nobody registers one twice.
THEOREM UsersAlike ==
    ASSUME NEW S \in SUBSET Ids, NEW users \in [S -> UserRow], UniqueAddresses(users),
           NEW id \in Ids, NEW user \in UserRow, NEW at \in Nat, NEW hash \in Texts
    PROVE  /\ UniqueAddresses(UserInserted(users, id, user))
           /\ (id \notin S /\ UsersOf(users, user.email) = {})
                => MemUserInserted(users, id, user) = UserInserted(users, id, user)
           /\ MemUserFound(users, user.email, id) <=> id \in UsersOf(users, user.email)
           /\ MemUserVerified(users, id, at) = UserVerified(users, id, at)
           /\ MemPasswordUpdated(users, id, hash) = PasswordUpdated(users, id, hash)
  <1>1. UniqueAddresses(UserInserted(users, id, user))
    <2>1. CASE id \in S \/ UsersOf(users, user.email) # {}
      BY <2>1 DEF UserInserted
    <2>2. CASE id \notin S /\ UsersOf(users, user.email) = {}
      <3>1. UserInserted(users, id, user) = With(users, id, user)
        BY <2>2 DEF UserInserted
      <3>2. \A u \in S : users[u].email # user.email
        BY <2>2 DEF UsersOf
      <3> QED BY <2>2, <3>1, <3>2 DEF UniqueAddresses, With
    <2> QED BY <2>1, <2>2
  <1>2. (id \notin S /\ UsersOf(users, user.email) = {})
          => MemUserInserted(users, id, user) = UserInserted(users, id, user)
    BY DEF MemUserInserted, UserInserted
  <1>3. MemUserVerified(users, id, at) = UserVerified(users, id, at)
    BY DEF MemUserVerified, UserVerified
  <1>4. MemPasswordUpdated(users, id, hash) = PasswordUpdated(users, id, hash)
    BY DEF MemPasswordUpdated, PasswordUpdated
  <1>5. MemUserFound(users, user.email, id) <=> id \in UsersOf(users, user.email)
    BY DEF MemUserFound, UsersOf
  <1> QED BY <1>1, <1>2, <1>3, <1>4, <1>5

\* A key of an account that exists takes the place of another alike if the row
\* carries on its date, which KeeperHubKeys::connect reads just before.
THEOREM CredentialsAlike ==
    ASSUME NEW S \in SUBSET Ids, NEW credentials \in [S -> CredentialRow], NEW users,
           NEW u \in Ids, u \in DOMAIN users, NEW row \in CredentialRow,
           u \in S => row.created = credentials[u].created
    PROVE  /\ MemCredentialUpserted(credentials, u, row)
                = CredentialUpserted(credentials, users, u, row)
           /\ MemCredentialDeleted(credentials, u) = CredentialDeleted(credentials, u)
  <1>1. u \in S => [row EXCEPT !.created = credentials[u].created] = row
    BY DEF CredentialRow
  <1>2. MemCredentialUpserted(credentials, u, row) = CredentialUpserted(credentials, users, u, row)
    BY <1>1 DEF MemCredentialUpserted, CredentialUpserted
  <1>3. MemCredentialDeleted(credentials, u) = CredentialDeleted(credentials, u)
    BY DEF MemCredentialDeleted, CredentialDeleted, Restrict
  <1> QED BY <1>2, <1>3

(***************************************************************************)
(* Jobs.                                                                   *)
(***************************************************************************)
\* A new job is taken alike if its account and its search are there.  A tick
\* that has read a search launches it without asking again: if the owner deletes
\* it meanwhile, PostgreSQL refuses the job and the double has it all the same.
\* A job that was found, changed and written back is written alike: what the
\* copy may not have is another owner, search or date than its row.  A search
\* deleted in between is what takes the row's away.
THEOREM JobsAlike ==
    ASSUME NEW S \in SUBSET Ids, NEW jobs \in [S -> JobRow], NEW users, NEW searches,
           NEW id \in Ids, NEW job \in JobRow
    PROVE  /\ (id \notin S /\ JobRefers(users, searches, job) /\ job.usage = NoUsage)
                => MemJobInserted(jobs, id, job) = JobInserted(jobs, users, searches, id, job)
           /\ (id \notin S /\ job.search \notin DOMAIN searches \cup {"none"})
                => /\ JobInserted(jobs, users, searches, id, job) = jobs
                   /\ id \in RunsOf(MemJobInserted(jobs, id, job), job.search)
           /\ (/\ id \in S /\ job.owner = jobs[id].owner
               /\ job.search = jobs[id].search /\ job.created = jobs[id].created)
                => MemJobUpdated(jobs, id, job) = JobUpdated(jobs, id, job)
  <1>1. (id \notin S /\ JobRefers(users, searches, job) /\ job.usage = NoUsage)
          => MemJobInserted(jobs, id, job) = JobInserted(jobs, users, searches, id, job)
    <2>1. job.usage = NoUsage => [job EXCEPT !.usage = NoUsage] = job
      BY DEF JobRow
    <2> QED BY <2>1 DEF MemJobInserted, JobInserted
  <1>2. ASSUME id \in S, job.owner = jobs[id].owner,
               job.search = jobs[id].search, job.created = jobs[id].created
        PROVE  MemJobUpdated(jobs, id, job) = JobUpdated(jobs, id, job)
    <2>1. [job EXCEPT !.usage = jobs[id].usage]
            = [jobs[id] EXCEPT !.status = job.status, !.answered = job.answered,
                               !.finished = job.finished]
      BY <1>2 DEF JobRow
    <2> QED BY <1>2, <2>1 DEF MemJobUpdated, JobUpdated, With
  <1>3. ASSUME id \notin S, job.search \notin DOMAIN searches \cup {"none"}
        PROVE  /\ JobInserted(jobs, users, searches, id, job) = jobs
               /\ id \in RunsOf(MemJobInserted(jobs, id, job), job.search)
    <2>1. JobInserted(jobs, users, searches, id, job) = jobs
      BY <1>3 DEF JobInserted, JobRefers
    <2>2. id \in RunsOf(MemJobInserted(jobs, id, job), job.search)
      BY DEF MemJobInserted, With, RunsOf
    <2> QED BY <2>1, <2>2
  <1> QED BY <1>1, <1>2, <1>3

\* "A lifecycle update must not clobber the accumulated spend": in both stores
\* a copy that was read before some usage was added and is written after it
\* leaves the same row as if it had been written first.
THEOREM SpendSurvivesUpdates ==
    ASSUME NEW S \in SUBSET Ids, NEW jobs \in [S -> JobRow], NEW id \in S,
           NEW job \in JobRow, NEW usage \in Usage
    PROVE  /\ JobUpdated(UsageAdded(jobs, id, usage), id, job)
                = UsageAdded(JobUpdated(jobs, id, job), id, usage)
           /\ MemJobUpdated(MemUsageAdded(jobs, id, usage), id, job)
                = MemUsageAdded(MemJobUpdated(jobs, id, job), id, usage)
  <1> DEFINE sum == Sum(jobs[id].usage, usage)
  <1>1. JobUpdated(UsageAdded(jobs, id, usage), id, job)
          = UsageAdded(JobUpdated(jobs, id, job), id, usage)
    <2>1. UsageAdded(jobs, id, usage)
            = [jobs EXCEPT ![id] = [jobs[id] EXCEPT !.usage = sum]]
      BY DEF UsageAdded
    <2>2. JobUpdated(jobs, id, job)
            = [jobs EXCEPT ![id] = [jobs[id] EXCEPT !.status = job.status,
                                !.answered = job.answered, !.finished = job.finished]]
      BY DEF JobUpdated
    <2> HIDE DEF sum
    <2>3. [[jobs[id] EXCEPT !.usage = sum] EXCEPT !.status = job.status,
                                !.answered = job.answered, !.finished = job.finished]
            = [[jobs[id] EXCEPT !.status = job.status, !.answered = job.answered,
                                !.finished = job.finished] EXCEPT !.usage = sum]
      BY DEF JobRow
    <2>4. [jobs[id] EXCEPT !.status = job.status, !.answered = job.answered,
                           !.finished = job.finished].usage = jobs[id].usage
      BY DEF JobRow
    <2> QED BY <2>1, <2>2, <2>3, <2>4 DEF JobUpdated, UsageAdded, sum
  <1>2. MemJobUpdated(MemUsageAdded(jobs, id, usage), id, job)
          = MemUsageAdded(MemJobUpdated(jobs, id, job), id, usage)
    <2>1. \A j \in S : MemUsageAdded(jobs, id, usage)[j]
                         = IF j = id THEN [jobs[id] EXCEPT !.usage = sum] ELSE jobs[j]
      BY DEF MemUsageAdded
    <2>2. \A j \in S : MemJobUpdated(jobs, id, job)[j]
                         = IF j = id THEN [job EXCEPT !.usage = jobs[id].usage] ELSE jobs[j]
      BY DEF MemJobUpdated, With
    <2> HIDE DEF sum
    <2>3. MemUsageAdded(jobs, id, usage)[id].usage = sum
      BY <2>1 DEF JobRow
    <2>4. MemJobUpdated(MemUsageAdded(jobs, id, usage), id, job)
            = [j \in S |-> IF j = id THEN [job EXCEPT !.usage = sum] ELSE jobs[j]]
      <3> DEFINE added == MemUsageAdded(jobs, id, usage)
      <3>1. DOMAIN added = S /\ \A j \in S : j # id => added[j] = jobs[j]
        BY <2>1 DEF MemUsageAdded
      <3>2. added[id].usage = sum
        BY <2>3
      <3> HIDE DEF added
      <3>3. MemJobUpdated(added, id, job)
              = [j \in S |-> IF j = id THEN [job EXCEPT !.usage = added[id].usage] ELSE added[j]]
        <4>1. S \cup {id} = S
          OBVIOUS
        <4> QED BY <3>1, <4>1 DEF MemJobUpdated, With
      <3>4. MemJobUpdated(added, id, job)
              = [j \in S |-> IF j = id THEN [job EXCEPT !.usage = sum] ELSE jobs[j]]
        BY <3>1, <3>2, <3>3
      <3> QED BY <3>4 DEF added
    <2>5. /\ [job EXCEPT !.usage = jobs[id].usage].usage = jobs[id].usage
          /\ [[job EXCEPT !.usage = jobs[id].usage] EXCEPT !.usage = sum]
               = [job EXCEPT !.usage = sum]
      BY DEF JobRow
    <2>6. MemUsageAdded(MemJobUpdated(jobs, id, job), id, usage)
            = [j \in S |-> IF j = id THEN [job EXCEPT !.usage = sum] ELSE jobs[j]]
      BY <2>2, <2>5 DEF MemJobUpdated, MemUsageAdded, With, sum
    <2> QED BY <2>4, <2>6
  <1> QED BY <1>1, <1>2

\* What is read of the jobs is read alike, but for the limit of the history;
\* spend is added alike.
THEOREM JobsReadAlike ==
    ASSUME NEW S \in SUBSET Ids, NEW jobs \in [S -> JobRow], NEW u \in Ids, NEW id \in Ids,
           NEW since \in Nat, NEW usage \in Usage
    PROVE  /\ MemCreatedSince(jobs, u, since) = CreatedSince(jobs, u, since)
           /\ MemUnfinishedBefore(jobs, since) = UnfinishedBefore(jobs, since)
           /\ MemUsageAdded(jobs, id, usage) = UsageAdded(jobs, id, usage)
           /\ History(jobs, u) \subseteq MemHistory(jobs, u)
           /\ (/\ IsFiniteSet(S) /\ FetchLimit \in Nat
               /\ Cardinality(MemHistory(jobs, u)) <= FetchLimit)
                 => MemHistory(jobs, u) = History(jobs, u)
  <1>1. MemCreatedSince(jobs, u, since) = CreatedSince(jobs, u, since)
    <2>1. {j \in DOMAIN jobs : jobs[j].owner = u /\ jobs[j].created >= since}
            = {j \in JobsOf(jobs, u) : jobs[j].created >= since}
      BY DEF JobsOf
    <2> QED BY <2>1 DEF MemCreatedSince, CreatedSince
  <1>2. MemUnfinishedBefore(jobs, since) = UnfinishedBefore(jobs, since)
    BY DEF MemUnfinishedBefore, UnfinishedBefore
  <1>3. MemUsageAdded(jobs, id, usage) = UsageAdded(jobs, id, usage)
    BY DEF MemUsageAdded, UsageAdded
  <1>4. MemHistory(jobs, u) = JobsOf(jobs, u)
    BY DEF MemHistory, JobsOf
  <1>5. ASSUME IsFiniteSet(S), FetchLimit \in Nat,
               Cardinality(MemHistory(jobs, u)) <= FetchLimit, NEW j \in JobsOf(jobs, u)
        PROVE  j \in History(jobs, u)
    <2> DEFINE newer == {k \in JobsOf(jobs, u) : jobs[k].created > jobs[j].created}
    <2>1. IsFiniteSet(JobsOf(jobs, u))
      <3>1. JobsOf(jobs, u) \subseteq S
        BY DEF JobsOf
      <3> QED BY <1>5, <3>1, FS_Subset
    <2>2. newer \subseteq JobsOf(jobs, u) /\ newer # JobsOf(jobs, u)
      <3>1. jobs[j].created \in Nat
        BY <1>5 DEF JobsOf, JobRow
      <3> QED BY <1>5, <3>1
    <2>3. Cardinality(newer) < Cardinality(JobsOf(jobs, u))
      BY <2>1, <2>2, PartIsSmaller
    <2>4. Cardinality(newer) \in Nat /\ Cardinality(JobsOf(jobs, u)) \in Nat
      BY <2>1, <2>2, PartIsSmaller
    <2>5. Cardinality(newer) < FetchLimit
      BY <1>4, <1>5, <2>3, <2>4
    <2> QED BY <1>5, <2>5 DEF History
  <1> QED BY <1>1, <1>2, <1>3, <1>4, <1>5 DEF History

\* "The use case decides what the console is served, and this only stops the
\* database reading an unbounded number of rows": the console is shown the same
\* jobs from both stores, however many the account has, as long as the limit of
\* the fetch is not the lower one.
THEOREM ConsoleAlike ==
    ASSUME NEW S, IsFiniteSet(S), NEW jobs \in [S -> JobRow], NEW u,
           FetchLimit \in Nat, HistoryLimit \in Nat, HistoryLimit <= FetchLimit
    PROVE  Shown(jobs, History(jobs, u)) = Shown(jobs, MemHistory(jobs, u))
  <1> DEFINE Newer(j) == {k \in JobsOf(jobs, u) : jobs[k].created > jobs[j].created}
  <1>1. MemHistory(jobs, u) = JobsOf(jobs, u)
    BY DEF MemHistory, JobsOf
  <1>2. JobsOf(jobs, u) \subseteq S /\ History(jobs, u) \subseteq JobsOf(jobs, u)
    BY DEF JobsOf, History
  <1>3. \A j \in JobsOf(jobs, u) : jobs[j].created \in Nat
    BY DEF JobsOf, JobRow
  <1>4. \A j \in JobsOf(jobs, u) : Cardinality(Newer(j)) \in Nat
    <2>1. \A j \in JobsOf(jobs, u) : Newer(j) \subseteq S
      BY <1>2
    <2> QED BY <2>1, FS_Subset, FS_CardinalityType
  <1>5. ASSUME NEW j \in History(jobs, u), NEW k \in Newer(j)
        PROVE  k \in History(jobs, u)
    <2>1. k \in JobsOf(jobs, u) /\ j \in JobsOf(jobs, u) /\ jobs[k].created > jobs[j].created
      BY <1>2
    <2>2. Newer(k) \subseteq Newer(j) /\ Newer(k) # Newer(j)
      BY <1>3, <2>1
    <2>3. IsFiniteSet(Newer(j))
      <3>1. Newer(j) \subseteq S
        BY <1>2
      <3> QED BY <3>1, FS_Subset
    <2>4. Cardinality(Newer(k)) < Cardinality(Newer(j))
      <3> HIDE DEF Newer
      <3> QED BY <2>2, <2>3, PartIsSmaller
    <2>5. Cardinality(Newer(j)) < FetchLimit
      BY DEF History
    <2>6. Cardinality(Newer(k)) < FetchLimit
      <3> HIDE DEF Newer
      <3> QED BY <1>4, <2>1, <2>4, <2>5
    <2> QED BY <2>1, <2>6 DEF History
  <1>6. ASSUME NEW j \in History(jobs, u)
        PROVE  {k \in History(jobs, u) : jobs[k].created > jobs[j].created} = Newer(j)
    BY <1>2, <1>5
  <1>7. ASSUME NEW j \in JobsOf(jobs, u), Cardinality(Newer(j)) < HistoryLimit
        PROVE  j \in History(jobs, u)
    <2>1. Cardinality(Newer(j)) < FetchLimit
      <3> HIDE DEF Newer
      <3> QED BY <1>4, <1>7
    <2> QED BY <2>1 DEF History
  <1> QED BY <1>1, <1>2, <1>6, <1>7 DEF Shown

\* Each step of a journal has its own number, as the primary key has it.
OneStepPerNumber(steps) ==
    \A s, t \in steps : s.job = t.job /\ s.seq = t.seq => s = t

\* The two journals of a job do the same, and a step that is sent again, by a
\* retry or with other words by another run, never shows beside the first.
THEOREM JournalsAlike ==
    ASSUME NEW steps \in SUBSET StepRow, OneStepPerNumber(steps), NEW jobs,
           NEW step \in StepRow, step.job \in DOMAIN jobs
    PROVE  /\ MemStepAppended(steps, step) = StepAppended(steps, jobs, step)
           /\ MemStepsCleared(steps, step.job) = StepsCleared(steps, step.job)
           /\ MemStepsOf(steps, step.job) = StepsOf(steps, step.job)
           /\ OneStepPerNumber(StepAppended(steps, jobs, step))
           /\ OneStepPerNumber(StepsCleared(steps, step.job))
           /\ StepsOf(StepsCleared(steps, step.job), step.job) = {}
  <1>1. MemStepAppended(steps, step) = StepAppended(steps, jobs, step)
    <2>1. (step.seq \notin {s.seq : s \in {t \in steps : t.job = step.job}})
            <=> \A s \in steps : s.job = step.job => s.seq # step.seq
      OBVIOUS
    <2>2. (steps \ {s \in steps : s.job = step.job})
            \cup ({s \in steps : s.job = step.job} \cup {step}) = steps \cup {step}
      OBVIOUS
    <2> QED BY <2>1, <2>2 DEF MemStepAppended, StepAppended
  <1>2. MemStepsCleared(steps, step.job) = StepsCleared(steps, step.job)
    BY DEF MemStepsCleared, StepsCleared
  <1>3. OneStepPerNumber(StepAppended(steps, jobs, step))
    BY DEF OneStepPerNumber, StepAppended
  <1>4. OneStepPerNumber(StepsCleared(steps, step.job))
    BY DEF OneStepPerNumber, StepsCleared
  <1>5. StepsOf(StepsCleared(steps, step.job), step.job) = {}
    BY DEF StepsOf, StepsCleared
  <1>6. MemStepsOf(steps, step.job) = StepsOf(steps, step.job)
    BY DEF MemStepsOf, StepsOf
  <1> QED BY <1>1, <1>2, <1>3, <1>4, <1>5, <1>6

\* "Re-delivery by the worker must not duplicate findings": of two deliveries, one
\* after the other, the last is what both stores have of the job, and no other
\* job's findings change.
THEOREM FindingsAlike ==
    ASSUME NEW findings, NEW jobs, NEW j \in DOMAIN jobs, NEW a, NEW b, NEW other, other # j
    PROVE  LET twice == FindingsStored(FindingsStored(findings, jobs, j, a), jobs, j, b)
               mem   == MemFindingsStored(MemFindingsStored(findings, j, a), j, b)
           IN  /\ FindingsOf(twice, j) = b /\ MemFindingsOf(mem, j) = b
               /\ FindingsOf(twice, other) = FindingsOf(findings, other)
               /\ MemFindingsOf(mem, other) = FindingsOf(findings, other)
  <1> DEFINE once == With(findings, j, a)
  <1>1. /\ DOMAIN once = DOMAIN findings \cup {j}
        /\ \A x \in DOMAIN findings : x # j => once[x] = findings[x]
    BY DEF With
  <1> HIDE DEF once
  <1>2. /\ DOMAIN With(once, j, b) = DOMAIN findings \cup {j}
        /\ With(once, j, b)[j] = b
        /\ \A x \in DOMAIN findings : x # j => With(once, j, b)[x] = findings[x]
    BY <1>1 DEF With
  <1> QED BY <1>2 DEF once, FindingsStored, MemFindingsStored, FindingsOf, MemFindingsOf

(***************************************************************************)
(* Recurring scans.                                                        *)
(***************************************************************************)
\* The memory of a recurring scan is the same as long as the limit holds all of
\* it; the double then has one answer, whatever order it goes through a run in.
THEOREM MemoriesAlike ==
    ASSUME NEW jobs, NEW findings, NEW search, NEW limit \in Nat \ {0}, NEW keys,
           IsFiniteSet(FoundBy(jobs, findings, search)),
           Cardinality(FoundBy(jobs, findings, search)) <= limit,
           \A k \in FoundBy(jobs, findings, search) : Rank[k] \in Nat
    PROVE  MemRecentKeys(jobs, findings, search, limit, keys)
             <=> keys = RecentKeys(jobs, findings, search, limit)
  <1> DEFINE found == FoundBy(jobs, findings, search)
  <1>1. Cardinality(found) \in Nat
    BY FS_CardinalityType
  <1>2. RecentKeys(jobs, findings, search, limit) = found
    <2>1. ASSUME NEW k \in found
          PROVE  Cardinality({l \in found : Rank[l] < Rank[k]}) < limit
      <3> DEFINE before == {l \in found : Rank[l] < Rank[k]}
      <3> HIDE DEF found
      <3>1. before \subseteq found /\ before # found
        BY <2>1 DEF found
      <3>2. IsFiniteSet(found)
        BY DEF found
      <3>3. Cardinality(before) \in Nat /\ Cardinality(before) < Cardinality(found)
        BY <3>1, <3>2, PartIsSmaller
      <3>4. Cardinality(found) <= limit
        BY DEF found
      <3> QED BY <1>1, <3>3, <3>4
    <2> QED BY <2>1 DEF RecentKeys
  <1>3. ASSUME keys \subseteq found, Cardinality(keys) = limit
        PROVE  keys = found
    <2> HIDE DEF found
    <2>1. IsFiniteSet(found) /\ Cardinality(found) <= limit
      BY DEF found
    <2>2. keys # found => Cardinality(keys) < Cardinality(found)
      BY <1>3, <2>1, PartIsSmaller
    <2>3. Cardinality(found) \in Nat
      BY <1>1 DEF found
    <2> QED BY <1>3, <2>1, <2>2, <2>3
  <1>4. MemRecentKeys(jobs, findings, search, limit, keys) => keys = found
    BY <1>3 DEF MemRecentKeys
  <1>5. MemRecentKeys(jobs, findings, search, limit, found)
    BY DEF MemRecentKeys
  <1> QED BY <1>2, <1>4, <1>5

\* A search that is deleted has no memory left, no job of another search loses
\* its own, and no launch that is still under way gives it a new one: in
\* PostgreSQL, where the deletion unlinks the jobs and an insert is refused.
THEOREM MemoryEndsWithSearch ==
    ASSUME NEW S \in SUBSET Ids, NEW jobs \in [S -> JobRow], NEW findings, NEW id \in Ids,
           id # "none", NEW other \in Ids, other # id, other # "none",
           NEW users, NEW searches, NEW u, id \in SearchesOf(searches, u),
           NEW run \in Ids, NEW job \in JobRow
    PROVE  LET left  == SearchDeleted(searches, u, id)
               after == JobsUnlinked(jobs, id)
           IN  /\ FoundBy(after, findings, id) = {}
               /\ FoundBy(after, findings, other) = FoundBy(jobs, findings, other)
               /\ FoundBy(JobInserted(after, users, left, run, job), findings, id) = {}
  <1>1. DOMAIN JobsUnlinked(jobs, id) = S
    BY DEF JobsUnlinked
  <1>2. \A j \in S : JobsUnlinked(jobs, id)[j].search
                       = IF jobs[j].search = id THEN "none" ELSE jobs[j].search
    BY DEF JobsUnlinked, JobRow
  <1>3. RunsOf(JobsUnlinked(jobs, id), id) = {}
    BY <1>1, <1>2 DEF RunsOf
  <1>4. RunsOf(JobsUnlinked(jobs, id), other) = RunsOf(jobs, other)
    BY <1>1, <1>2 DEF RunsOf
  <1>5. RunsOf(JobInserted(JobsUnlinked(jobs, id), users, SearchDeleted(searches, u, id), run, job),
               id) = {}
    <2> DEFINE after == JobsUnlinked(jobs, id)
               left  == SearchDeleted(searches, u, id)
               new   == [job EXCEPT !.usage = NoUsage]
    <2>1. id \notin DOMAIN left
      BY DEF SearchDeleted, SearchesOf, Restrict
    <2>2. CASE run \notin DOMAIN after /\ JobRefers(users, left, job)
      <3>1. new.search # id
        BY <2>1, <2>2 DEF JobRefers, JobRow
      <3>2. JobInserted(after, users, left, run, job)
              = [x \in DOMAIN after \cup {run} |-> IF x = run THEN new ELSE after[x]]
        BY <2>2 DEF JobInserted, With
      <3> HIDE DEF after, left, new
      <3> QED BY <1>3, <3>1, <3>2 DEF RunsOf, after, left
    <2>3. CASE ~ (run \notin DOMAIN after /\ JobRefers(users, left, job))
      BY <1>3, <2>3 DEF JobInserted
    <2> QED BY <2>2, <2>3
  <1> QED BY <1>3, <1>4, <1>5 DEF FoundBy

\* The two stores take a new search, list an account's and the due ones, delete
\* and mark them alike; a search that is deleted is never due again, and one an
\* account does not own stays.
THEOREM SearchesAlike ==
    ASSUME NEW S \in SUBSET Ids, NEW searches \in [S -> SearchRow], NEW u \in Ids,
           NEW id \in Ids, NEW now \in Nat, NEW search \in SearchRow, NEW users
    PROVE  /\ (id \notin S /\ search.owner \in DOMAIN users)
                => MemSearchInserted(searches, id, search)
                     = SearchInserted(searches, users, id, search)
           /\ MemSearchesOf(searches, u) = SearchesOf(searches, u)
           /\ id \in SearchesOf(searches, u)
                => id \notin DueAt(SearchDeleted(searches, u, id), now)
           /\ id \notin SearchesOf(searches, u) => SearchDeleted(searches, u, id) = searches
           /\ MemDueAt(searches, now) = DueAt(searches, now)
           /\ MemSearchDeleted(searches, u, id) = SearchDeleted(searches, u, id)
           /\ MemSearchRan(searches, id, now) = SearchRan(searches, id, now)
  <1>1. MemDueAt(searches, now) = DueAt(searches, now)
    BY DEF MemDueAt, DueAt
  <1>2. MemSearchDeleted(searches, u, id) = SearchDeleted(searches, u, id)
    BY DEF MemSearchDeleted, SearchDeleted, Restrict
  <1>3. MemSearchRan(searches, id, now) = SearchRan(searches, id, now)
    BY DEF MemSearchRan, SearchRan
  <1>4. (id \notin S /\ search.owner \in DOMAIN users)
          => MemSearchInserted(searches, id, search)
               = SearchInserted(searches, users, id, search)
    BY DEF MemSearchInserted, SearchInserted
  <1>5. MemSearchesOf(searches, u) = SearchesOf(searches, u)
    BY DEF MemSearchesOf, SearchesOf
  <1>6. ASSUME id \in SearchesOf(searches, u)
        PROVE  id \notin DueAt(SearchDeleted(searches, u, id), now)
    <2>1. DOMAIN SearchDeleted(searches, u, id) = S \ {id}
      BY <1>6 DEF SearchesOf, SearchDeleted, Restrict
    <2> QED BY <2>1 DEF DueAt
  <1>7. id \notin SearchesOf(searches, u) => SearchDeleted(searches, u, id) = searches
    BY DEF SearchesOf, SearchDeleted
  <1> QED BY <1>1, <1>2, <1>3, <1>4, <1>5, <1>6, <1>7

(***************************************************************************)
(* Security events and columns.                                            *)
(***************************************************************************)
\* The recent events are the same if they were recorded in the order they were
\* created in, which requests that overlap do not see to.
THEOREM EventsAlike ==
    ASSUME NEW events \in SUBSET EventRow, NEW limit \in Nat,
           \A e, f \in events : e.nr > f.nr <=> e.created > f.created, NEW cutoff \in Nat
    PROVE  /\ MemRecentEvents(events, limit) = RecentEvents(events, limit)
           /\ MemEventsPurged(events, cutoff) = EventsPurged(events, cutoff)
  <1>1. ASSUME NEW e \in events
        PROVE  {f \in events : f.nr > e.nr} = {f \in events : f.created > e.created}
    BY <1>1
  <1> QED BY <1>1 DEF MemRecentEvents, RecentEvents, MemEventsPurged, EventsPurged

\* The event that was created last is listed, however many there are.
THEOREM NewestEventListed ==
    ASSUME NEW events \in SUBSET EventRow, NEW event \in EventRow, NEW limit \in Nat \ {0},
           \A e \in events : e.created < event.created
    PROVE  event \in RecentEvents(Recorded(events, event), limit)
  <1>1. {f \in Recorded(events, event) : f.created > event.created} = {}
    BY DEF Recorded, EventRow
  <1>2. Cardinality({}) = 0
    BY FS_EmptySet
  <1> QED BY <1>1, <1>2 DEF RecentEvents, Recorded

\* Every value this version writes to an enum column is read as it was written,
\* and one of a newer version never reads as a revocation that was carried out
\* or as the mode that revokes.
THEOREM ColumnsReadBack ==
    /\ \A m \in Modes : ModeRead(m) = m
    /\ \A s \in RevocationStatuses : RevocationRead(s) = s
    /\ \A text : text \notin RevocationStatuses => RevocationRead(text) = "not_attempted"
    /\ \A text : text \notin Modes => ModeRead(text) = "workflow"
    /\ \A job \in JobRow : Readable(job)
    /\ \A finding \in [tier: Tiers] : FindingReadable(finding)
  BY DEF JobRow, Readable, FindingReadable, Modes, ModeRead, RevocationStatuses, RevocationRead
=============================================================================
