-------------------------- MODULE AuditChainProofs --------------------------
(***************************************************************************)
(* Proofs about AuditChain, for any number of appenders and attempts.      *)
(*                                                                         *)
(* A row is committed only by a transaction whose snapshot is the whole    *)
(* log. So its id, taken after the snapshot, is above every id in the log  *)
(* and the hash it read is the last one: the invariant says of an open     *)
(* transaction what it knows of its snapshot, and the commit turns that    *)
(* into a fact about the log.                                              *)
(***************************************************************************)
EXTENDS AuditChain, FiniteSetTheorems, TLAPS

\* A set of rows has a last one.
HasTop(rows) == rows = {} \/ \E r \in rows : \A q \in rows : q.id <= r.id

\* The log is finite and its rows form a chain that grows with the ids.
LogOK ==
  /\ IsFiniteSet(log)
  /\ HasTop(log)
  /\ \A r \in log : r.id < nextId
  /\ \A r, q \in log : r.id = q.id => r = q
  /\ \A r \in log : r.prev = LastHash(Before(r)) /\ r.hash = Hash(r.prev, r.entry)
  /\ \A r, q \in log : r.id < q.id => Len(r.hash) <= Len(q.prev)

InTransaction(a) == app[a].at \in {"insert", "commit"}

\* The row that a transaction has inserted continues its snapshot.
InsertedOK(a) ==
  \E row \in Rows :
    /\ app[a].row = {row}
    /\ row.entry = a
    /\ row.prev = LastHash(app[a].seen)
    /\ row.hash = Hash(row.prev, a)
    /\ row.id < nextId
    /\ \A q \in app[a].seen : q.id < row.id

SnapshotOK ==
  \A a \in Appenders :
    /\ InTransaction(a) => app[a].seen \subseteq log /\ HasTop(app[a].seen)
    /\ At(a, "commit") => InsertedOK(a)

\* An entry is in the log only if its call has ended, with its row or an error that
\* does not come from a conflict.
OnceOK ==
  /\ \A r \in log : app[r.entry].at \in {"ok", "failed"}
  /\ \A r, q \in log : r.entry = q.entry => r = q
  /\ \A a \in Appenders : At(a, "ok") => app[a].row # {} /\ app[a].row \subseteq log

\* Each attempt that met a conflict saw one more commit of somebody else.
Overtaken(a) ==
  /\ begun[a] \subseteq log
  /\ At(a, "idle") => app[a].attempt = 0
  /\ app[a].at \in {"fetch", "backoff"} => Cardinality(log \ begun[a]) >= app[a].attempt
  /\ InTransaction(a) => /\ begun[a] \subseteq app[a].seen
                         /\ Cardinality(app[a].seen \ begun[a]) >= app[a].attempt
  /\ At(a, "exhausted") => Cardinality(log \ begun[a]) >= MaxAttempts

OvertakenOK == \A a \in Appenders : Overtaken(a)

ChainInv == TypeOK /\ LogOK /\ SnapshotOK /\ OnceOK /\ OvertakenOK

-----------------------------------------------------------------------------
(* Rows *)

\* The last hash of a set of rows that has a last one.
LEMMA TopHash ==
  ASSUME NEW rows \in SUBSET Rows, HasTop(rows)
  PROVE  /\ LastHash(rows) \in Hashes
         /\ rows = {} => LastHash(rows) = Genesis
         /\ rows # {} => \E r \in rows : /\ \A q \in rows : q.id <= r.id
                                        /\ LastHash(rows) = r.hash
<1>1. CASE rows = {}
  BY <1>1 DEF LastHash, Genesis, Hashes
<1>2. CASE rows # {}
  <2>1. \E r \in rows : \A q \in rows : q.id <= r.id
    BY <1>2 DEF HasTop
  <2>2. LastHash(rows) = (CHOOSE r \in rows : \A q \in rows : q.id <= r.id).hash
    BY <1>2 DEF LastHash
  <2>3. PICK r \in rows : /\ \A q \in rows : q.id <= r.id
                         /\ LastHash(rows) = r.hash
    BY <2>1, <2>2
  <2>4. r.hash \in Hashes
    BY DEF Rows
  <2>5. QED
    BY <1>2, <2>3, <2>4
<1>3. QED
  BY <1>1, <1>2

\* A hash covers one entry more than the hash it was made from.
LEMMA HashGrows ==
  ASSUME NEW prev \in Hashes, NEW entry \in Appenders
  PROVE  /\ Hash(prev, entry) \in Hashes
         /\ Len(Hash(prev, entry)) = Len(prev) + 1
  BY DEF Hash, Hashes

-----------------------------------------------------------------------------
(* Each part of the invariant is kept *)

\* Steps of one appender; "InsertRow" alone spends an id and "Commit" alone adds a row.
LEMMA AppenderStep ==
  ASSUME ChainInv, NEW a \in Appenders,
         AppendAuditEvent(a) \/ FetchPrevHash(a) \/ InsertRow(a) \/ Commit(a) \/ Backoff(a)
  PROVE  /\ \A b \in Appenders \ {a} : app'[b] = app[b]
         /\ nextId' \in Nat \ {0} /\ nextId' >= nextId
         /\ log' = log \/ (At(a, "commit") /\ log = app[a].seen /\ log' = log \cup app[a].row)
         /\ begun' = begun \/ (At(a, "idle") /\ begun' = [begun EXCEPT ![a] = log] /\ log' = log)
<1>1. app \in [Appenders -> App] /\ nextId \in Nat \ {0}
  BY DEF ChainInv, TypeOK
<1>2. CASE AppendAuditEvent(a)
  BY <1>1, <1>2 DEF AppendAuditEvent
<1>3. CASE FetchPrevHash(a)
  BY <1>1, <1>3 DEF FetchPrevHash, Fail
<1>4. CASE InsertRow(a)
  BY <1>1, <1>4 DEF InsertRow, Fail, RollBack
<1>5. CASE Commit(a)
  BY <1>1, <1>5 DEF Commit, Fail, RollBack, LostReply, Conflict
<1>6. CASE Backoff(a)
  BY <1>1, <1>6 DEF Backoff, Fail
<1>7. QED
  BY <1>2, <1>3, <1>4, <1>5, <1>6

LEMMA TypeStep ==
  ASSUME ChainInv, NEW a \in Appenders,
         AppendAuditEvent(a) \/ FetchPrevHash(a) \/ InsertRow(a) \/ Commit(a) \/ Backoff(a)
  PROVE  TypeOK'
<1> USE AttemptsAssumption
<1>1. TypeOK /\ app[a] \in App
  BY DEF ChainInv, TypeOK
<1>2. SUFFICES /\ app'[a] \in App
               /\ log' \subseteq Rows
               /\ app' = [app EXCEPT ![a] = app'[a]]
  BY <1>1, AppenderStep DEF TypeOK
<1>3. CASE AppendAuditEvent(a)
  BY <1>1, <1>3 DEF AppendAuditEvent, TypeOK, App, Steps
<1>4. CASE FetchPrevHash(a)
  BY <1>1, <1>4 DEF FetchPrevHash, Fail, TypeOK, App, Steps
<1>5. CASE InsertRow(a)
  <2> DEFINE prev == LastHash(app[a].seen)
             row == [id |-> nextId, entry |-> a, prev |-> prev, hash |-> Hash(prev, a)]
  <2>1. At(a, "insert") /\ HasTop(app[a].seen) /\ app[a].seen \in SUBSET Rows
    BY <1>1, <1>5 DEF InsertRow, ChainInv, SnapshotOK, InTransaction, At, App
  <2>2. prev \in Hashes
    BY <2>1, TopHash
  <2>3. row \in Rows
    BY <1>1, <2>2, HashGrows DEF Rows, TypeOK
  <2> HIDE DEF prev, row
  <2>4. \/ app' = [app EXCEPT ![a].at = "commit", ![a].row = {row}]
        \/ RollBack(a) \/ Fail(a)
    BY <1>5 DEF InsertRow, prev, row
  <2>5. log' = log
    BY <1>5 DEF InsertRow
  <2>6. QED
    BY <1>1, <2>3, <2>4, <2>5 DEF RollBack, Fail, LastAttempt, TypeOK, App, Steps
<1>6. CASE Commit(a)
  BY <1>1, <1>6 DEF Commit, RollBack, Fail, LostReply, LastAttempt, TypeOK, App, Steps
<1>7. CASE Backoff(a)
  BY <1>1, <1>7 DEF Backoff, Fail, TypeOK, App, Steps
<1>8. QED
  BY <1>3, <1>4, <1>5, <1>6, <1>7

\* The row that a commit adds is the new end of the chain.
LEMMA LogStep ==
  ASSUME ChainInv, NEW a \in Appenders,
         AppendAuditEvent(a) \/ FetchPrevHash(a) \/ InsertRow(a) \/ Commit(a) \/ Backoff(a)
  PROVE  LogOK'
<1>1. LogOK /\ log \in SUBSET Rows /\ nextId \in Nat
  BY DEF ChainInv, TypeOK
<1>2. nextId' \in Nat /\ nextId' >= nextId
  BY AppenderStep
<1>3. CASE log' = log
  BY <1>1, <1>2, <1>3 DEF LogOK, Rows, Before
<1>4. CASE At(a, "commit") /\ log = app[a].seen /\ log' = log \cup app[a].row
  <2>1. PICK row \in Rows : /\ app[a].row = {row}
                            /\ row.entry = a
                            /\ row.prev = LastHash(log)
                            /\ row.hash = Hash(row.prev, a)
                            /\ row.id < nextId
                            /\ \A q \in log : q.id < row.id
    BY <1>4 DEF ChainInv, SnapshotOK, InsertedOK
  <2>2. log' = log \cup {row}
    BY <1>4, <2>1
  <2>3. IsFiniteSet(log')
    BY <1>1, <2>2, FS_AddElement DEF LogOK
  <2>4. \A q \in log' : q.id \in Nat /\ q.id <= row.id
    BY <1>1, <2>1, <2>2 DEF Rows
  <2>5. HasTop(log')
    BY <2>2, <2>4 DEF HasTop
  <2>6. \A r \in log' : r.id < nextId'
    BY <1>1, <1>2, <2>1, <2>2 DEF LogOK, Rows
  <2>7. \A r, q \in log' : r.id = q.id => r = q
    BY <1>1, <2>1, <2>2 DEF LogOK, Rows
  <2>8. ASSUME NEW r \in log'
        PROVE  r.prev = LastHash(Before(r))' /\ r.hash = Hash(r.prev, r.entry)
    <3>1. CASE r = row
      <4>1. Before(r)' = log
        BY <2>1, <2>2, <3>1 DEF Before, Rows
      <4>2. QED
        BY <2>1, <3>1, <4>1 DEF LastHash
    <3>2. CASE r \in log
      <4>1. Before(r)' = Before(r)
        BY <1>1, <2>1, <2>2, <3>2 DEF Before, Rows
      <4>2. QED
        BY <1>1, <3>2, <4>1 DEF LogOK, LastHash
    <3>3. QED
      BY <2>2, <3>1, <3>2
  <2>9. ASSUME NEW r \in log, NEW q \in log'
        PROVE  r.id < q.id => Len(r.hash) <= Len(q.prev)
    <3>1. CASE q \in log
      BY <1>1, <3>1 DEF LogOK
    <3>2. CASE q = row
      <4>1. PICK top \in log : /\ \A p \in log : p.id <= top.id
                               /\ LastHash(log) = top.hash
        BY <1>1, TopHash DEF LogOK
      <4>2. /\ Len(top.hash) = Len(top.prev) + 1
            /\ Len(top.prev) \in Nat
        <5>1. /\ top.prev \in Hashes /\ top.entry \in Appenders
              /\ top.hash = Hash(top.prev, top.entry)
          BY <1>1 DEF LogOK, Rows
        <5>2. Len(Hash(top.prev, top.entry)) = Len(top.prev) + 1
          BY <5>1, HashGrows
        <5>3. Len(top.prev) \in Nat
          BY <5>1 DEF Hashes
        <5>4. QED
          BY <5>1, <5>2, <5>3
      <4>3. r = top \/ r.id < top.id
        BY <1>1, <4>1 DEF LogOK, Rows
      <4>4. Len(r.hash) \in Nat
        BY <1>1 DEF Rows, Hashes
      <4>5. Len(r.hash) <= Len(top.hash)
        BY <1>1, <4>2, <4>3, <4>4 DEF LogOK
      <4>6. QED
        BY <2>1, <3>2, <4>1, <4>5
    <3>3. QED
      BY <2>2, <3>1, <3>2
  <2>10. \A r, q \in log' : r.id < q.id => Len(r.hash) <= Len(q.prev)
    <3>1. \A q \in log' : ~(row.id < q.id)
      BY <2>1, <2>4 DEF Rows
    <3>2. QED
      BY <2>2, <2>9, <3>1
  <2>11. QED
    BY <2>3, <2>5, <2>6, <2>7, <2>8, <2>10 DEF LogOK
<1>5. QED
  BY <1>3, <1>4, AppenderStep

\* The rows of a snapshot stay in the log, and an inserted row continues its snapshot.
LEMMA SnapshotStep ==
  ASSUME ChainInv, NEW a \in Appenders,
         AppendAuditEvent(a) \/ FetchPrevHash(a) \/ InsertRow(a) \/ Commit(a) \/ Backoff(a)
  PROVE  SnapshotOK'
<1>1. /\ TypeOK /\ LogOK /\ SnapshotOK
      /\ app[a] \in App
  BY DEF ChainInv, TypeOK
<1>2. log \subseteq log'
  BY AppenderStep
<1>3. nextId' \in Nat /\ nextId' >= nextId /\ nextId \in Nat
  BY <1>1, AppenderStep DEF TypeOK
<1>4. ASSUME NEW b \in Appenders, app'[b] = app[b]
      PROVE  /\ InTransaction(b)' => app'[b].seen \subseteq log' /\ HasTop(app'[b].seen)
             /\ At(b, "commit")' => InsertedOK(b)'
  <2>1. InTransaction(b)' => app'[b].seen \subseteq log' /\ HasTop(app'[b].seen)
    BY <1>1, <1>2, <1>4 DEF SnapshotOK, InTransaction
  <2>2. ASSUME At(b, "commit")'
        PROVE  InsertedOK(b)'
    <3>1. InsertedOK(b)
      BY <1>1, <1>4, <2>2 DEF SnapshotOK, At
    <3>2. \A n \in Nat : n < nextId => n < nextId'
      BY <1>3
    <3>3. QED
      BY <1>4, <3>1, <3>2 DEF InsertedOK, LastHash, Rows
  <2>3. QED
    BY <2>1, <2>2
<1>5. /\ InTransaction(a)' => app'[a].seen \subseteq log' /\ HasTop(app'[a].seen)
      /\ At(a, "commit")' => InsertedOK(a)'
  <2>1. CASE AppendAuditEvent(a)
    BY <1>1, <2>1 DEF AppendAuditEvent, InTransaction, At, TypeOK
  <2>2. CASE FetchPrevHash(a)
    <3>1. HasTop(log) /\ log' = log
      BY <1>1, <2>2 DEF LogOK, FetchPrevHash
    <3>2. CASE Fail(a)
      BY <1>1, <3>2 DEF Fail, InTransaction, At, TypeOK, App
    <3>3. CASE app' = [app EXCEPT ![a].at = "insert", ![a].seen = log]
      BY <1>1, <3>1, <3>3 DEF InTransaction, At, TypeOK, App
    <3>4. QED
      BY <2>2, <3>2, <3>3 DEF FetchPrevHash
  <2>3. CASE InsertRow(a)
    <3> DEFINE prev == LastHash(app[a].seen)
               row == [id |-> nextId, entry |-> a, prev |-> prev, hash |-> Hash(prev, a)]
    <3>1. /\ InTransaction(a)
          /\ app[a].seen \subseteq log
          /\ HasTop(app[a].seen)
          /\ app[a].seen \in SUBSET Rows
          /\ log' = log
          /\ nextId' = nextId + 1
      BY <1>1, <2>3 DEF InsertRow, SnapshotOK, InTransaction, At, App
    <3>2. row \in Rows
      BY <1>1, <3>1, TopHash, HashGrows DEF Rows, TypeOK
    <3>3. \A q \in app[a].seen : q.id < row.id
      BY <1>1, <3>1 DEF LogOK
    <3>4. /\ row.entry = a
          /\ row.prev = LastHash(app[a].seen)
          /\ row.hash = Hash(row.prev, a)
          /\ row.id < nextId'
      BY <1>3, <3>1
    <3>5. \/ app' = [app EXCEPT ![a].at = "commit", ![a].row = {row}]
          \/ RollBack(a) \/ Fail(a)
      BY <2>3 DEF InsertRow
    <3> HIDE DEF prev, row
    <3>6. CASE RollBack(a) \/ Fail(a)
      BY <1>1, <3>6 DEF RollBack, Fail, InTransaction, At, TypeOK, App
    <3>7. CASE app' = [app EXCEPT ![a].at = "commit", ![a].row = {row}]
      <4>1. app'[a].row = {row} /\ app'[a].seen = app[a].seen
        BY <1>1, <3>7 DEF TypeOK, App
      <4>2. InsertedOK(a)'
        BY <3>2, <3>3, <3>4, <4>1 DEF InsertedOK, LastHash
      <4>3. QED
        BY <3>1, <4>1, <4>2
    <3>8. QED
      BY <3>5, <3>6, <3>7
  <2>4. CASE Commit(a)
    BY <1>1, <2>4 DEF Commit, LostReply, RollBack, Fail, InTransaction, At, TypeOK, App
  <2>5. CASE Backoff(a)
    BY <1>1, <2>5 DEF Backoff, Fail, InTransaction, At, TypeOK, App
  <2>6. QED
    BY <2>1, <2>2, <2>3, <2>4, <2>5
<1>6. QED
  BY <1>4, <1>5, AppenderStep DEF SnapshotOK

\* Only the commit writes, and it is the last step of its call.
LEMMA OnceStep ==
  ASSUME ChainInv, NEW a \in Appenders,
         AppendAuditEvent(a) \/ FetchPrevHash(a) \/ InsertRow(a) \/ Commit(a) \/ Backoff(a)
  PROVE  OnceOK'
<1>1. /\ TypeOK /\ SnapshotOK /\ OnceOK
      /\ app[a] \in App
  BY DEF ChainInv, TypeOK
<1>2. \A b \in Appenders \ {a} : app'[b] = app[b]
  BY AppenderStep
<1>3. \A r \in log : r.entry \in Appenders
  BY <1>1 DEF TypeOK, Rows
<1>4. CASE /\ log' = log
           /\ app[a].at \notin {"ok", "failed"}
           /\ app'[a].at # "ok"
  BY <1>1, <1>2, <1>3, <1>4 DEF OnceOK, At
<1>5. CASE /\ At(a, "commit")
           /\ log' = log \cup app[a].row
           /\ app'[a].at \in {"ok", "failed"}
           /\ At(a, "ok")' => app'[a].row = app[a].row
  <2>1. PICK row \in Rows : app[a].row = {row} /\ row.entry = a
    BY <1>1, <1>5 DEF SnapshotOK, InsertedOK
  <2>2. \A r \in log : r.entry # a
    BY <1>1, <1>5 DEF OnceOK, At
  <2>3. log' = log \cup {row}
    BY <1>5, <2>1
  <2>4. \A r \in log' : app'[r.entry].at \in {"ok", "failed"}
    BY <1>1, <1>2, <1>3, <1>5, <2>1, <2>2, <2>3 DEF OnceOK
  <2>5. \A r, q \in log' : r.entry = q.entry => r = q
    BY <1>1, <2>1, <2>2, <2>3 DEF OnceOK
  <2>6. \A b \in Appenders : At(b, "ok")' => app'[b].row # {} /\ app'[b].row \subseteq log'
    BY <1>1, <1>2, <1>5, <2>1, <2>3 DEF OnceOK, At
  <2>7. QED
    BY <2>4, <2>5, <2>6 DEF OnceOK
<1>6. CASE AppendAuditEvent(a)
  BY <1>1, <1>4, <1>6 DEF AppendAuditEvent, At, TypeOK, App
<1>7. CASE FetchPrevHash(a)
  BY <1>1, <1>4, <1>7 DEF FetchPrevHash, Fail, At, TypeOK, App
<1>8. CASE InsertRow(a)
  BY <1>1, <1>4, <1>8 DEF InsertRow, RollBack, Fail, At, TypeOK, App
<1>9. CASE Commit(a)
  BY <1>1, <1>4, <1>5, <1>9 DEF Commit, LostReply, RollBack, Fail, At, TypeOK, App
<1>10. CASE Backoff(a)
  BY <1>1, <1>4, <1>10 DEF Backoff, Fail, At, TypeOK, App
<1>11. QED
  BY <1>6, <1>7, <1>8, <1>9, <1>10

\* Counting what was added since a set B: it only grows, and by one at least.
LEMMA AddedGrows ==
  ASSUME NEW S, IsFiniteSet(S), NEW T \in SUBSET S, NEW B \in SUBSET T
  PROVE  /\ Cardinality(T \ B) \in Nat /\ Cardinality(S \ B) \in Nat
         /\ Cardinality(T \ B) <= Cardinality(S \ B)
         /\ T # S => Cardinality(T \ B) + 1 <= Cardinality(S \ B)
<1>1. IsFiniteSet(S \ B) /\ (T \ B) \subseteq (S \ B)
  <2>1. (S \ B) \subseteq S
    OBVIOUS
  <2>2. QED
    BY <2>1, FS_Subset
<1>2. IsFiniteSet(T \ B) /\ Cardinality(T \ B) <= Cardinality(S \ B)
  BY <1>1, FS_Subset
<1>3. Cardinality(T \ B) \in Nat /\ Cardinality(S \ B) \in Nat
  BY <1>1, <1>2, FS_CardinalityType
<1>4. ASSUME T # S
      PROVE  Cardinality(T \ B) # Cardinality(S \ B)
  <2>1. T \ B # S \ B
    BY <1>4
  <2>2. QED
    BY <1>1, <2>1, FS_Subset
<1>5. QED
  BY <1>2, <1>3, <1>4

\* Each attempt that ends in a conflict has seen one commit more than the last.
LEMMA OvertakenStep ==
  ASSUME ChainInv, NEW a \in Appenders,
         AppendAuditEvent(a) \/ FetchPrevHash(a) \/ InsertRow(a) \/ Commit(a) \/ Backoff(a)
  PROVE  OvertakenOK'
<1>1. /\ TypeOK /\ LogOK /\ SnapshotOK /\ OvertakenOK
      /\ app[a] \in App /\ app \in [Appenders -> App] /\ MaxAttempts \in Nat \ {0}
  BY AttemptsAssumption DEF ChainInv, TypeOK
<1>2. log \subseteq log' /\ IsFiniteSet(log) /\ IsFiniteSet(log')
  BY <1>1, AppenderStep, LogStep DEF LogOK
<1>3. ASSUME NEW b \in Appenders, app'[b] = app[b], begun'[b] = begun[b]
      PROVE  Overtaken(b)'
  <2>1. begun[b] \in SUBSET log
    BY <1>1 DEF OvertakenOK, Overtaken
  <2>2. /\ Cardinality(log \ begun[b]) \in Nat /\ Cardinality(log' \ begun[b]) \in Nat
        /\ Cardinality(log \ begun[b]) <= Cardinality(log' \ begun[b])
    BY <1>2, <2>1, AddedGrows
  <2>3. app[b].attempt \in Nat
    BY <1>1 DEF App
  <2>4. Overtaken(b)
    BY <1>1 DEF OvertakenOK
  <2>5. QED
    BY <1>1, <1>2, <1>3, <2>2, <2>3, <2>4 DEF Overtaken, At, InTransaction
<1>4. ASSUME log' = log, begun' = begun, InTransaction(a), Conflict(a), RollBack(a)
      PROVE  Overtaken(a)'
  <2>1. /\ begun[a] \in SUBSET app[a].seen /\ app[a].seen \in SUBSET log
        /\ Cardinality(app[a].seen \ begun[a]) >= app[a].attempt
        /\ app[a].attempt \in Nat
    <3>1. Overtaken(a) /\ app[a].seen \in SUBSET log
      BY <1>1, <1>4 DEF OvertakenOK, SnapshotOK
    <3>2. app[a].attempt \in Nat
      BY <1>1 DEF App
    <3>3. QED
      BY <1>4, <3>1, <3>2 DEF Overtaken
  <2>2. /\ Cardinality(app[a].seen \ begun[a]) \in Nat /\ Cardinality(log \ begun[a]) \in Nat
        /\ Cardinality(app[a].seen \ begun[a]) + 1 <= Cardinality(log \ begun[a])
    BY <1>2, <1>4, <2>1, AddedGrows DEF Conflict
  <2>3. Cardinality(log \ begun[a]) >= app[a].attempt + 1
    BY <2>1, <2>2
  <2>4. CASE LastAttempt(a)
    <3>1. app'[a].at = "exhausted" /\ app[a].attempt + 1 = MaxAttempts
      BY <1>1, <1>4, <2>4 DEF RollBack, LastAttempt, App
    <3>2. QED
      BY <1>4, <2>1, <2>3, <3>1 DEF Overtaken, At, InTransaction
  <2>5. CASE ~LastAttempt(a)
    <3>1. app'[a].at = "backoff" /\ app'[a].attempt = app[a].attempt + 1
      BY <1>1, <1>4, <2>5 DEF RollBack, App
    <3>2. QED
      BY <1>4, <2>1, <2>3, <3>1 DEF Overtaken, At, InTransaction
  <2>6. QED
    BY <2>4, <2>5
<1>5. ASSUME begun' = begun, app'[a].at \in {"ok", "failed"}
      PROVE  Overtaken(a)'
  BY <1>1, <1>2, <1>5 DEF OvertakenOK, Overtaken, At, InTransaction
<1>6. Overtaken(a)'
  <2>1. CASE AppendAuditEvent(a)
    <3>1. /\ log' = log /\ begun'[a] = log /\ app'[a].at = "fetch"
          /\ app'[a].attempt = 0
      BY <1>1, <2>1 DEF AppendAuditEvent, OvertakenOK, Overtaken, TypeOK, App
    <3>2. Cardinality(log \ log) >= 0
      BY <1>2, AddedGrows
    <3>3. QED
      BY <3>1, <3>2 DEF Overtaken, At, InTransaction
  <2>2. CASE FetchPrevHash(a)
    <3>1. CASE Fail(a)
      BY <1>1, <1>5, <2>2, <3>1 DEF FetchPrevHash, Fail, App
    <3>2. CASE app' = [app EXCEPT ![a].at = "insert", ![a].seen = log]
      <4>1. /\ app[a].at = "fetch" /\ log' = log /\ begun' = begun
            /\ app'[a].at = "insert" /\ app'[a].seen = log /\ app'[a].attempt = app[a].attempt
        BY <1>1, <2>2, <3>2 DEF FetchPrevHash, At, App
      <4>2. QED
        BY <1>1, <4>1 DEF OvertakenOK, Overtaken, At, InTransaction
    <3>3. QED
      BY <2>2, <3>1, <3>2 DEF FetchPrevHash
  <2>3. CASE InsertRow(a)
    <3>1. InTransaction(a) /\ log' = log /\ begun' = begun
      BY <2>3 DEF InsertRow, InTransaction, At
    <3>2. CASE Fail(a)
      BY <1>1, <1>5, <3>1, <3>2 DEF Fail, App
    <3>3. CASE \E row : app' = [app EXCEPT ![a].at = "commit", ![a].row = {row}]
      <4>1. /\ app'[a].at = "commit" /\ app'[a].seen = app[a].seen
            /\ app'[a].attempt = app[a].attempt
        BY <1>1, <3>3 DEF App
      <4>2. QED
        BY <1>1, <3>1, <4>1 DEF OvertakenOK, Overtaken, At, InTransaction
    <3>4. QED
      BY <1>4, <2>3, <3>1, <3>2, <3>3 DEF InsertRow
  <2>4. CASE Commit(a)
    <3>1. InTransaction(a) /\ begun' = begun
      BY <2>4 DEF Commit, InTransaction, At
    <3>2. CASE Fail(a) \/ app' = [app EXCEPT ![a].at = "ok"]
      BY <1>1, <1>5, <3>1, <3>2 DEF Fail, App
    <3>3. QED
      BY <1>4, <2>4, <3>1, <3>2 DEF Commit, LostReply
  <2>5. CASE Backoff(a)
    <3>1. CASE Fail(a)
      BY <1>1, <1>5, <2>5, <3>1 DEF Backoff, Fail, App
    <3>2. CASE app' = [app EXCEPT ![a].at = "fetch"]
      <4>1. /\ app[a].at = "backoff" /\ log' = log /\ begun' = begun
            /\ app'[a].at = "fetch" /\ app'[a].attempt = app[a].attempt
        BY <1>1, <2>5, <3>2 DEF Backoff, At, App
      <4>2. QED
        BY <1>1, <4>1 DEF OvertakenOK, Overtaken, At, InTransaction
    <3>3. QED
      BY <2>5, <3>1, <3>2 DEF Backoff
  <2>6. QED
    BY <2>1, <2>2, <2>3, <2>4, <2>5
<1>7. ASSUME NEW b \in Appenders \ {a}
      PROVE  app'[b] = app[b] /\ begun'[b] = begun[b]
  BY <1>1, AppenderStep DEF TypeOK
<1>8. QED
  BY <1>3, <1>6, <1>7 DEF OvertakenOK

-----------------------------------------------------------------------------
(* Theorems *)

LEMMA ChainInit == Init => ChainInv
<1> SUFFICES ASSUME Init
             PROVE  ChainInv
  OBVIOUS
<1>1. TypeOK
  BY AttemptsAssumption DEF Init, TypeOK, Idle, App, Steps
<1>2. IsFiniteSet(log)
  BY FS_EmptySet DEF Init
<1>3. LogOK
  BY <1>2 DEF Init, LogOK, HasTop
<1>4. SnapshotOK /\ OnceOK
  BY DEF Init, Idle, SnapshotOK, InTransaction, OnceOK, At
<1>5. OvertakenOK
  BY DEF Init, Idle, OvertakenOK, Overtaken, InTransaction, At
<1>6. QED
  BY <1>1, <1>3, <1>4, <1>5 DEF ChainInv

LEMMA ChainStep == ChainInv /\ [Next]_vars => ChainInv'
<1> SUFFICES ASSUME ChainInv, [Next]_vars
             PROVE  ChainInv'
  OBVIOUS
<1>1. CASE Next
  <2>1. PICK a \in Appenders :
          AppendAuditEvent(a) \/ FetchPrevHash(a) \/ InsertRow(a) \/ Commit(a) \/ Backoff(a)
    BY <1>1 DEF Next
  <2>2. QED
    BY <2>1, TypeStep, LogStep, SnapshotStep, OnceStep, OvertakenStep DEF ChainInv
<1>2. CASE UNCHANGED vars
  <2>1. log' = log /\ nextId' = nextId /\ app' = app /\ begun' = begun
    BY <1>2 DEF vars
  <2>2. TypeOK' /\ LogOK'
    BY <2>1 DEF ChainInv, TypeOK, LogOK, Before, LastHash
  <2>3. SnapshotOK' /\ OnceOK'
    <3>1. \A a \in Appenders : InsertedOK(a) => InsertedOK(a)'
      BY <2>1 DEF InsertedOK
    <3>2. QED
      BY <2>1, <3>1 DEF ChainInv, SnapshotOK, InTransaction, OnceOK, At
  <2>4. OvertakenOK'
    BY <2>1 DEF ChainInv, OvertakenOK, Overtaken, InTransaction, At
  <2>5. QED
    BY <2>2, <2>3, <2>4 DEF ChainInv
<1>3. QED
  BY <1>1, <1>2

\* The invariant holds in every reachable state.
LEMMA ChainAlways == Spec => []ChainInv
<1>1. QED
  BY ChainInit, ChainStep, PTL DEF Spec

\* Rows in order of their hashes' lengths cannot share a predecessor.
LEMMA UnbrokenFromInv == ChainInv => ChainUnbroken
<1> SUFFICES ASSUME ChainInv, NEW r \in log
             PROVE  /\ r.prev = LastHash(Before(r))
                    /\ r.hash = Hash(r.prev, r.entry)
                    /\ \A q \in log \ {r} : q.id # r.id /\ q.prev # r.prev
  BY DEF ChainUnbroken
<1>1. LogOK /\ log \in SUBSET Rows
  BY DEF ChainInv, TypeOK
<1>2. ASSUME NEW p \in log
      PROVE  /\ Len(p.prev) \in Nat /\ p.id \in Nat
             /\ Len(p.hash) = Len(p.prev) + 1
  <2>1. p.prev \in Hashes /\ p.entry \in Appenders /\ p.id \in Nat
    BY <1>1 DEF Rows
  <2>2. p.hash = Hash(p.prev, p.entry)
    BY <1>1 DEF LogOK
  <2>3. Len(p.prev) \in Nat
    BY <2>1 DEF Hashes
  <2>4. Len(Hash(p.prev, p.entry)) = Len(p.prev) + 1
    BY <2>1, HashGrows
  <2>5. QED
    BY <2>1, <2>2, <2>3, <2>4
<1>3. ASSUME NEW q \in log \ {r}
      PROVE  q.id # r.id /\ q.prev # r.prev
  <2>1. q.id # r.id
    BY <1>1 DEF LogOK
  <2>2. CASE q.id < r.id
    <3>1. Len(q.hash) <= Len(r.prev)
      BY <1>1, <2>2 DEF LogOK
    <3>2. QED
      BY <1>2, <2>1, <3>1
  <2>3. CASE r.id < q.id
    <3>1. Len(r.hash) <= Len(q.prev)
      BY <1>1, <2>3 DEF LogOK
    <3>2. QED
      BY <1>2, <2>1, <3>1
  <2>4. QED
    BY <1>2, <2>1, <2>2, <2>3
<1>4. QED
  BY <1>1, <1>3 DEF LogOK

\* Every variable of the audit chain keeps its type.
THEOREM TypesAlways == Spec => []TypeOK
<1>1. ChainInv => TypeOK
  BY DEF ChainInv
<1>2. QED
  BY <1>1, ChainAlways, PTL

\* However many appends of AppendAuditEvent overlap, fail and retry, the rows of
\* audit_events form a single hash chain in the order of their ids.
THEOREM ChainAlwaysUnbroken == Spec => []ChainUnbroken
  BY UnbrokenFromInv, ChainAlways, PTL

\* Retries write no entry twice, and a call gives up without a row of its own.
THEOREM AlwaysWrittenOnce == Spec => []WrittenOnce
<1>1. ChainInv => WrittenOnce
  BY DEF ChainInv, OnceOK, WrittenOnce, At
<1>2. QED
  BY <1>1, ChainAlways, PTL

\* A call gives up only after MaxAttempts commits of others during its own lifetime.
THEOREM OnlyGivenUpWhenOvertaken == Spec => []GivenUpWhenOvertaken
<1>1. ChainInv => GivenUpWhenOvertaken
  BY DEF ChainInv, OvertakenOK, Overtaken, GivenUpWhenOvertaken
<1>2. QED
  BY <1>1, ChainAlways, PTL

\* The log only grows, by one row at a time and at its end.
THEOREM AlwaysAppendsAtTheEnd == Spec => AppendsAtTheEnd
<1> DEFINE Append1 == /\ log \subseteq log'
                      /\ \A r \in log' \ log :
                           /\ log' = log \cup {r}
                           /\ \A q \in log : q.id < r.id
<1>1. ChainInv /\ [Next]_vars => [Append1]_vars
  <2> SUFFICES ASSUME ChainInv, Next
               PROVE  Append1
    OBVIOUS
  <2>1. PICK a \in Appenders :
          AppendAuditEvent(a) \/ FetchPrevHash(a) \/ InsertRow(a) \/ Commit(a) \/ Backoff(a)
    BY DEF Next
  <2>2. CASE log' = log
    BY <2>2
  <2>3. CASE At(a, "commit") /\ log = app[a].seen /\ log' = log \cup app[a].row
    BY <2>3 DEF ChainInv, SnapshotOK, InsertedOK
  <2>4. QED
    BY <2>1, <2>2, <2>3, AppenderStep
<1>2. QED
  BY <1>1, ChainAlways, PTL DEF Spec, AppendsAtTheEnd

-----------------------------------------------------------------------------
(* The abstract log *)

\* A commit makes its entry the next link after the last hash.
LEMMA CommitHash ==
  ASSUME ChainInv, NEW a \in Appenders, At(a, "commit"), ~Conflict(a),
         Commit(a), log' = log \cup app[a].row
  PROVE  LastHash(log)' = Append(LastHash(log), a)
<1>1. LogOK /\ log \in SUBSET Rows
  BY DEF ChainInv, TypeOK
<1>2. PICK row \in Rows : /\ app[a].row = {row}
                          /\ row.prev = LastHash(log)
                          /\ row.hash = Hash(row.prev, a)
                          /\ \A q \in log : q.id < row.id
  BY DEF ChainInv, SnapshotOK, InsertedOK, Conflict
<1>3. log' = log \cup {row} /\ log' \in SUBSET Rows
  BY <1>1, <1>2
<1>4. LogOK'
  BY LogStep
<1>5. PICK top \in log' : (\A q \in log' : q.id <= top.id) /\ LastHash(log') = top.hash
  <2>1. HasTop(log') /\ log' # {}
    BY <1>3, <1>4 DEF LogOK, HasTop
  <2>2. QED
    BY <1>3, <2>1, TopHash
<1>6. top = row
  BY <1>1, <1>2, <1>3, <1>5 DEF Rows
<1>7. LastHash(log)' = LastHash(log')
  BY DEF LastHash
<1>8. QED
  BY <1>2, <1>5, <1>6, <1>7 DEF Hash

\* A call moves from one abstract status to another, and nobody else moves.
LEMMA StatusMoves ==
  ASSUME TypeOK, NEW a \in Appenders, NEW from, NEW to,
         StatusOf(app[a].at) = from, StatusOf(app'[a].at) = to,
         \A b \in Appenders \ {a} : app'[b] = app[b]
  PROVE  Audit!Moves(a, from, to)
BY DEF Audit!Moves

\* A step that leaves the log and every abstract status is not seen.
LEMMA NotSeen ==
  ASSUME log' = log, \A b \in Appenders : StatusOf(app'[b].at) = StatusOf(app[b].at)
  PROVE  UNCHANGED Audit!vars
BY DEF Audit!vars, LastHash

\* An append of AppendAuditEvent, with its attempts and conflicts, is one atomic append to
\* the log that the workflow engine sees, or none if it returns an error.
THEOREM ChainImplementsAuditLog == Spec => ImplementsAuditLog
<1>1. Init => Audit!Init
  BY DEF Init, Audit!Init, Idle, StatusOf, LastHash, Genesis
<1>2. ChainInv /\ [Next]_vars => [Audit!Next]_(Audit!vars)
  <2> SUFFICES ASSUME ChainInv, [Next]_vars
               PROVE  [Audit!Next]_(Audit!vars)
    OBVIOUS
  <2>1. CASE UNCHANGED vars
    BY <2>1, NotSeen DEF vars
  <2>2. ASSUME NEW a \in Appenders,
               AppendAuditEvent(a) \/ FetchPrevHash(a) \/ InsertRow(a) \/ Commit(a) \/ Backoff(a)
        PROVE  [Audit!Next]_(Audit!vars)
    <3>1. TypeOK /\ app \in [Appenders -> App] /\ app[a] \in App
      BY DEF ChainInv, TypeOK
    <3>2. \A b \in Appenders \ {a} : app'[b] = app[b]
      BY <2>2, AppenderStep
    <3>3. ASSUME log' = log, StatusOf(app'[a].at) = StatusOf(app[a].at)
          PROVE  [Audit!Next]_(Audit!vars)
      BY <3>2, <3>3, NotSeen
    <3>4. ASSUME log' = log, StatusOf(app[a].at) = "running", StatusOf(app'[a].at) = "failed"
          PROVE  Audit!Next
      <4>1. Audit!Moves(a, "running", "failed")
        BY <3>1, <3>2, <3>4, StatusMoves
      <4>2. LastHash(log)' = LastHash(log)
        BY <3>4 DEF LastHash
      <4>3. QED
        BY <4>1, <4>2 DEF Audit!Next, Audit!Fail
    <3>5. CASE AppendAuditEvent(a)
      <4>1. StatusOf(app[a].at) = "idle" /\ StatusOf(app'[a].at) = "running" /\ log' = log
        BY <3>1, <3>5 DEF AppendAuditEvent, At, StatusOf, App
      <4>2. Audit!Moves(a, "idle", "running")
        BY <3>1, <3>2, <4>1, StatusMoves
      <4>3. LastHash(log)' = LastHash(log)
        BY <4>1 DEF LastHash
      <4>4. QED
        BY <4>2, <4>3 DEF Audit!Next, Audit!Begin
    <3>6. CASE FetchPrevHash(a) \/ Backoff(a)
      BY <3>1, <3>3, <3>4, <3>6 DEF FetchPrevHash, Backoff, Fail, At, StatusOf, App
    <3>7. ASSUME log' = log, InTransaction(a), RollBack(a) \/ Fail(a)
          PROVE  [Audit!Next]_(Audit!vars)
      BY <3>1, <3>3, <3>4, <3>7 DEF RollBack, Fail, InTransaction, StatusOf, App
    <3>8. CASE InsertRow(a)
      <4>1. log' = log /\ InTransaction(a) /\ app[a].at = "insert"
        BY <3>8 DEF InsertRow, At, InTransaction
      <4>2. ASSUME NEW row, app' = [app EXCEPT ![a].at = "commit", ![a].row = {row}]
            PROVE  [Audit!Next]_(Audit!vars)
        BY <3>1, <3>3, <4>1, <4>2 DEF StatusOf, App
      <4>3. QED
        BY <3>7, <3>8, <4>1, <4>2 DEF InsertRow
    <3>9. CASE Commit(a)
      <4>1. At(a, "commit") /\ InTransaction(a) /\ StatusOf(app[a].at) = "running"
        BY <3>9 DEF Commit, At, InTransaction, StatusOf
      <4>2. ASSUME ~Conflict(a), log' = log \cup app[a].row,
                   app' = [app EXCEPT ![a].at = "ok"] \/ Fail(a)
            PROVE  Audit!Next
        <5>1. Audit!Record(a)
          BY <3>9, <4>1, <4>2, CommitHash DEF Audit!Record
        <5>2. StatusOf(app'[a].at) \in {"ok", "failed"}
          BY <3>1, <4>2 DEF Fail, StatusOf, App
        <5>3. Audit!Moves(a, "running", "ok") \/ Audit!Moves(a, "running", "failed")
          BY <3>1, <3>2, <4>1, <5>2, StatusMoves
        <5>4. QED
          BY <5>1, <5>3 DEF Audit!Next, Audit!Succeed, Audit!Fail
      <4>3. QED
        BY <3>7, <3>9, <4>1, <4>2 DEF Commit, LostReply
    <3>10. QED
      BY <2>2, <3>5, <3>6, <3>8, <3>9
  <2>3. QED
    BY <2>1, <2>2 DEF Next
<1>3. QED
  BY <1>1, <1>2, ChainAlways, PTL DEF Spec, ImplementsAuditLog, Audit!Spec
=============================================================================
