----------------------------- MODULE AuditChain -----------------------------
(***************************************************************************)
(* The append to the audit log of store/audit.go: every entry is chained   *)
(* to the one before it by a hash, in a serializable transaction that is   *)
(* tried again when PostgreSQL finds a conflict.                           *)
(*                                                                         *)
(* An appender is one call of AppendAuditEvent, for one entry. What        *)
(* PostgreSQL does is modelled as the code relies on it: a transaction     *)
(* reads one snapshot, taken by its first statement; identifiers come from *)
(* a sequence that no rollback takes back; and of transactions that read   *)
(* the last row and insert another at the same time the first to commit    *)
(* wins, the others fail with SQLSTATE 40001 at a later statement or at    *)
(* their commit.                                                           *)
(***************************************************************************)
EXTENDS Naturals, Sequences, FiniteSets

CONSTANTS
  Appenders,   \* calls of AppendAuditEvent; each stands for its entry as well
  MaxAttempts  \* attempts of one call, 5 in the code

ASSUME AttemptsAssumption == MaxAttempts \in Nat \ {0}

VARIABLES
  log,     \* the committed rows of audit_events
  nextId,  \* the next value of the table's id sequence
  app,     \* what each appender is doing
  begun    \* history: the rows that were there when the appender was called

vars == <<log, nextId, app, begun>>

-----------------------------------------------------------------------------
(* Rows and their hashes *)

\* SHA-256 over the previous hash and the entry's fields, as a free constructor: two
\* hashes are equal only if they cover the same entries in the same order.
Hash(prev, entry) == Append(prev, entry)

Genesis == <<>>

Hashes == Seq(Appenders)

Rows == [id : Nat \ {0}, entry : Appenders, prev : Hashes, hash : Hashes]

\* Faulty variant: the rows are ordered the other way round.
LastHashOldest(rows) ==
  IF rows = {} THEN Genesis
  ELSE (CHOOSE r \in rows : \A q \in rows : r.id <= q.id).hash

\* SELECT hash FROM audit_events ORDER BY id DESC LIMIT 1
LastHash(rows) ==
  IF rows = {} THEN Genesis
  ELSE (CHOOSE r \in rows : \A q \in rows : q.id <= r.id).hash

-----------------------------------------------------------------------------
(* Appenders *)

Steps == {"idle", "fetch", "insert", "commit", "backoff", "ok", "failed", "exhausted"}

\* "seen" is the snapshot of the open transaction, "row" the row it has inserted.
App == [at : Steps, attempt : 0 .. MaxAttempts - 1, seen : SUBSET Rows, row : SUBSET Rows]

Idle == [at |-> "idle", attempt |-> 0, seen |-> {}, row |-> {}]

At(a, step) == app[a].at = step

\* Faulty variant: the transaction is not serializable.
ConflictIgnored(a) == FALSE

\* Another append committed after the snapshot was taken.
Conflict(a) == log # app[a].seen

\* The transaction is rolled back and the call returns an error.
Fail(a) == app' = [app EXCEPT ![a].at = "failed", ![a].row = {}]

\* Faulty variant: one attempt fewer.
LastAttemptEarly(a) == app[a].attempt + 2 >= MaxAttempts

LastAttempt(a) == app[a].attempt = MaxAttempts - 1

\* isSerializationError: the transaction is rolled back; the call backs off, or returns
\* the error after its last attempt.
RollBack(a) ==
  IF LastAttempt(a)
  THEN app' = [app EXCEPT ![a].at = "exhausted", ![a].row = {}]
  ELSE app' = [app EXCEPT ![a].at = "backoff", ![a].row = {}, ![a].attempt = @ + 1]

AppendAuditEvent(a) ==
  /\ At(a, "idle")
  /\ app' = [app EXCEPT ![a].at = "fetch"]
  /\ begun' = [begun EXCEPT ![a] = log]
  /\ UNCHANGED <<log, nextId>>

\* The transaction begins and its first statement takes the snapshot.
FetchPrevHash(a) ==
  /\ At(a, "fetch")
  /\ \/ app' = [app EXCEPT ![a].at = "insert", ![a].seen = log]
     \/ Fail(a)
  /\ UNCHANGED <<log, nextId, begun>>

\* The row is visible to nobody else before the commit; its id is spent either way.
InsertRow(a) ==
  LET prev == LastHash(app[a].seen)
      row == [id |-> nextId, entry |-> a, prev |-> prev, hash |-> Hash(prev, a)]
  IN /\ At(a, "insert")
     /\ nextId' = nextId + 1
     /\ \/ app' = [app EXCEPT ![a].at = "commit", ![a].row = {row}]
        \/ Conflict(a) /\ RollBack(a)
        \/ Fail(a)
     /\ UNCHANGED <<log, begun>>

\* Faulty variant: an error whose cause is unknown is tried again.
LostReplyRetried(a) == RollBack(a)

\* The commit took effect and its reply is lost; the error is not a serialization failure.
LostReply(a) == Fail(a)

Commit(a) ==
  /\ At(a, "commit")
  /\ \/ /\ ~Conflict(a)
        /\ log' = log \cup app[a].row
        /\ \/ app' = [app EXCEPT ![a].at = "ok"]
           \/ LostReply(a)
     \/ Conflict(a) /\ RollBack(a) /\ UNCHANGED log
     \/ Fail(a) /\ UNCHANGED log
  /\ UNCHANGED <<nextId, begun>>

\* The timer fires, or the caller's context is cancelled first.
Backoff(a) ==
  /\ At(a, "backoff")
  /\ app' = [app EXCEPT ![a].at = "fetch"] \/ Fail(a)
  /\ UNCHANGED <<log, nextId, begun>>

Init ==
  /\ log = {}
  /\ nextId = 1
  /\ app = [a \in Appenders |-> Idle]
  /\ begun = [a \in Appenders |-> {}]

Next ==
  \E a \in Appenders :
    \/ AppendAuditEvent(a) \/ FetchPrevHash(a) \/ InsertRow(a) \/ Commit(a) \/ Backoff(a)

Spec == Init /\ [][Next]_vars

-----------------------------------------------------------------------------
(* Properties *)

\* Every variable keeps its type.
TypeOK ==
  /\ log \subseteq Rows
  /\ nextId \in Nat \ {0}
  /\ app \in [Appenders -> App]
  /\ begun \in [Appenders -> SUBSET Rows]

Before(r) == {q \in log : q.id < r.id}

\* However appends overlap, fail and are tried again, the rows in the order of their
\* ids form one chain: each names the hash of the row just before it, no two rows
\* share an id or a predecessor, and a gap in the ids is no gap in the chain.
ChainUnbroken ==
  \A r \in log :
    /\ r.prev = LastHash(Before(r))
    /\ r.hash = Hash(r.prev, r.entry)
    /\ \A q \in log \ {r} : q.id # r.id /\ q.prev # r.prev

\* An append takes effect at one instant, after every row that is already there: an
\* auditor who has read the log up to some id never finds a new row below it.
AppendsAtTheEnd ==
  [][/\ log \subseteq log'
     /\ \A r \in log' \ log :
          /\ log' = log \cup {r}
          /\ \A q \in log : q.id < r.id]_vars

\* Retries never write an entry twice, a call that returns a row has written that row,
\* and one that gives up after its last attempt has written none.
WrittenOnce ==
  /\ \A r, q \in log : r.entry = q.entry => r = q
  /\ \A a \in Appenders :
       /\ At(a, "ok") => app[a].row # {} /\ app[a].row \subseteq log
       /\ At(a, "exhausted") => \A r \in log : r.entry # a

\* An entry is given up for contention only if at least MaxAttempts other entries were
\* committed while its call lasted: up to that many concurrent writers lose nothing.
GivenUpWhenOvertaken ==
  \A a \in Appenders :
    At(a, "exhausted") => Cardinality(log \ begun[a]) >= MaxAttempts

StatusOf(step) ==
  CASE step \in {"fetch", "insert", "commit", "backoff"} -> "running"
    [] step \in {"failed", "exhausted"} -> "failed"
    [] OTHER -> step

\* The last hash covers every entry before it, so it is the list that an auditor reads.
Audit == INSTANCE AuditLog WITH
  entries <- LastHash(log),
  status <- [a \in Appenders |-> StatusOf(app[a].at)]

\* Attempts, snapshots and conflicts are one atomic append to what the last hash covers:
\* an append that returns a row is the next link, one that fails is a link or nothing,
\* and a retry adds none.
ImplementsAuditLog == Audit!Spec
=============================================================================
