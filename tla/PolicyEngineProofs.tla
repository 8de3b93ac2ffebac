------------------------- MODULE PolicyEngineProofs -------------------------
(***************************************************************************)
(* Proofs about PolicyEngine, for any number of replicas, calls, policies  *)
(* and failures, and whatever sets of modules do not compile.              *)
(*                                                                         *)
(* Every write takes a new version of the table. What a thread knows of    *)
(* the table is tied to a version: the queries that its reload has built,  *)
(* which are of versions in the order of its reads, and the check that a   *)
(* call has made, which still holds as long as the version is the one it   *)
(* was made at.                                                            *)
(***************************************************************************)
EXTENDS PolicyEngine, TLAPS

\* Rows have ids of their own, and only a call that has written can be one.
IdsOK ==
  /\ \A p, q \in policies : p.id = q.id => p = q
  /\ \A p \in policies : p.id \in Calls => at[p.id] \notin {"idle", "check", "write"}

\* The modules that a call's write leaves in the type of its row.
Remaining(c, p) ==
  IF call[c].op = "apply" THEN CheckedModules(p)
  ELSE ModulesOf({q \in Enabled(p.type) : q.id # p.id})

\* What a call has checked holds as long as nobody writes.
Checked(c) ==
  /\ call[c].checked <= version
  /\ at[c] = "check" => call[c].op = "delete"
  /\ at[c] \in {"check", "write"} =>
       /\ call[c].op \in {"apply", "delete"}
       /\ \E p \in Policies : call[c].row = {p}
  /\ at[c] = "write" /\ call[c].op = "apply" => \A p \in call[c].row : p.id = c
  /\ at[c] \in {"check", "write"} /\ call[c].op = "delete" /\ call[c].checked = version =>
       call[c].row \subseteq policies
  /\ at[c] = "write" /\ call[c].checked = version =>
       \A p \in call[c].row : Compiles(Remaining(c, p))

CheckedOK == \A c \in Calls : Checked(c)

\* A list of queries that compile, of versions up to v in the order of the list.
Ordered(queries, v) ==
  /\ \A i \in 1 .. Len(queries) : Compiles(queries[i].modules) /\ queries[i].version <= v
  /\ \A i, j \in 1 .. Len(queries) : i < j => queries[i].version <= queries[j].version

\* What the reload of a call has built is no older than what the call read and wrote.
Fresh(c) ==
  /\ call[c].wrote <= version
  /\ \A i \in 1 .. Len(built[c]) :
       built[c][i].version >= call[c].wrote /\ built[c][i].version >= call[c].checked

BuiltOK ==
  /\ \A t \in Threads : Ordered(built[t], version) /\ (at[t] # "reload" => built[t] = <<>>)
  /\ \A r \in Replicas : Ordered(engine[r], version)
  /\ \A c \in Calls : Fresh(c)

\* Queries of versions from v on.
NotOlder(queries, v) == \A i \in 1 .. Len(queries) : queries[i].version >= v

\* A call that has written or, with ReloadPolicies, only has to load. When no reload was
\* reading at that moment, every reload of its replica reads what it asked for.
Alone(c) == at[c] \in {"readback", "reload", "return"} /\ ~call[c].overlapped

NoneOlder(c) ==
  Alone(c) => \A t \in Threads : Home(t) = Home(c) => NotOlder(built[t], Asked(c))

InEffect(c) ==
  Alone(c) /\ at[c] = "return" =>
    Loaded(Home(c)) /\ NotOlder(engine[Home(c)], Asked(c))

EffectOK == \A c \in Calls : NoneOlder(c) /\ InEffect(c)

PolicyInv == TypeOK /\ IdsOK /\ CheckedOK /\ BuiltOK /\ EffectOK

-----------------------------------------------------------------------------
(* What a step changes *)

\* What a call keeps of its write.
KeepsWrite(c) ==
  call' = [call EXCEPT ![c].wrote = version + 1, ![c].overlapped = Reading(Home(c))]

\* The one write of a call.
WriteStep(c) ==
  /\ at[c] = "write" /\ at'[c] \in {"readback", "reload", "failed"}
  /\ version' = version + 1
  /\ KeepsWrite(c)
  /\ engine' = engine /\ built' = built
  /\ \E p \in call[c].row :
       \/ call[c].op = "apply" /\ policies' = Upserted(p)
       \/ call[c].op = "delete" /\ policies' = Deleted(p)

\* A step of a call writes the table as its write or not at all, and leaves the other
\* threads alone.
LEMMA CallFrame ==
  ASSUME TypeOK, NEW c \in Calls, CallStep(c)
  PROVE  /\ \A t \in Threads \ {c} : at'[t] = at[t] /\ built'[t] = built[t]
         /\ \A d \in Calls \ {c} : call'[d] = call[d]
         /\ (policies' = policies /\ version' = version) \/ WriteStep(c)
<1>1. /\ at \in [Threads -> Steps] /\ built \in [Threads -> Seq(Queries)]
      /\ call \in [Calls -> Call] /\ c \in Threads
  BY DEF TypeOK, Threads
<1>2. CASE ApplyPolicy(c)
  BY <1>1, <1>2 DEF ApplyPolicy, Begin, Goto
<1>3. CASE UpsertPolicy(c)
  BY <1>1, <1>3 DEF UpsertPolicy, Write, NotWritten, AfterWrite, Goto, WriteStep, KeepsWrite
<1>4. CASE ReadBack(c)
  BY <1>1, <1>4 DEF ReadBack, Goto
<1>5. CASE DeletePolicy(c)
  BY <1>1, <1>5 DEF DeletePolicy, Begin, Goto
<1>6. CASE CompileCheckWithout(c)
  BY <1>1, <1>6 DEF CompileCheckWithout, Goto
<1>7. CASE DeleteRow(c)
  BY <1>1, <1>7 DEF DeleteRow, Write, NotWritten, AfterWrite, Goto, WriteStep, KeepsWrite
<1>8. CASE ReloadPolicies(c)
  BY <1>1, <1>8 DEF ReloadPolicies, Begin, Goto
<1>9. CASE BuildQuery(c)
  BY <1>1, <1>9 DEF BuildQuery, Goto
<1>10. CASE Install(c)
  BY <1>1, <1>10 DEF Install, Goto
<1>11. CASE Return(c)
  BY <1>1, <1>11 DEF Return, Goto
<1>12. QED
  BY <1>2, <1>3, <1>4, <1>5, <1>6, <1>7, <1>8, <1>9, <1>10, <1>11 DEF CallStep

LEMMA ModulesType ==
  ASSUME NEW rows \in SUBSET Policies
  PROVE  ModulesOf(rows) \in SUBSET Modules
  BY DEF ModulesOf, Policies, Modules

\* An upsert leaves one row per name.
LEMMA UpsertedType ==
  ASSUME TypeOK, NEW p \in Policies
  PROVE  /\ Upserted(p) \subseteq Policies
         /\ \A q, s \in Upserted(p) : q.name = s.name => q = s
<1>1. policies \subseteq Policies /\ \A q, s \in policies : q.name = s.name => q = s
  BY DEF TypeOK
<1>2. CASE \A q \in policies : q.name # p.name
  <2>1. Upserted(p) = policies \cup {p}
    BY <1>2 DEF Upserted
  <2>2. QED
    BY <1>1, <1>2, <2>1
<1>3. CASE \E q \in policies : q.name = p.name
  <2>1. PICK q \in policies : q.name = p.name
    BY <1>3
  <2> DEFINE new == [p EXCEPT !.id = q.id]
  <2>2. new \in Policies /\ new.name = p.name
    BY <1>1 DEF Policies
  <2>3. {s \in policies : s.name = p.name} = {q}
    BY <1>1, <2>1
  <2>4. Upserted(p) = (policies \ {q}) \cup {new}
    BY <2>3 DEF Upserted
  <2> HIDE DEF new
  <2>5. \A s \in policies \ {q} : s.name # p.name
    BY <2>3
  <2>6. QED
    BY <1>1, <2>2, <2>4, <2>5
<1>4. QED
  BY <1>2, <1>3

LEMMA WroteCall ==
  ASSUME TypeOK, NEW c \in Calls, WriteStep(c)
  PROVE  /\ call' \in [Calls -> Call]
         /\ \A d \in Calls \ {c} : call'[d] = call[d]
         /\ call'[c].wrote = version + 1
         /\ call'[c].overlapped = Reading(Home(c))
         /\ call'[c].op = call[c].op /\ call'[c].replica = call[c].replica
         /\ call'[c].row = call[c].row /\ call'[c].checked = call[c].checked
<1> DEFINE reading == Reading(Home(c))
           new == [call[c] EXCEPT !.wrote = version + 1, !.overlapped = reading]
<1>1. call[c] \in Call /\ call \in [Calls -> Call] /\ version + 1 \in Nat
  BY DEF TypeOK
<1>2. reading \in BOOLEAN
  BY DEF Reading
<1>3. call' = [call EXCEPT ![c].wrote = version + 1, ![c].overlapped = reading]
  BY DEF WriteStep, KeepsWrite
<1> HIDE DEF reading
<1>4. call' = [call EXCEPT ![c] = new]
  BY <1>1, <1>3
<1>5. new \in Call
  BY <1>1, <1>2 DEF Call
<1>6. new.wrote = version + 1 /\ new.overlapped = reading
  BY <1>1 DEF Call
<1>7. /\ new.op = call[c].op /\ new.replica = call[c].replica
      /\ new.row = call[c].row /\ new.checked = call[c].checked
  BY <1>1 DEF Call
<1> HIDE DEF new
<1>8. QED
  BY <1>1, <1>4, <1>5, <1>6, <1>7 DEF reading

LEMMA WriteType ==
  ASSUME TypeOK, NEW c \in Calls, WriteStep(c)
  PROVE  /\ policies' \subseteq Policies
         /\ \A p, q \in policies' : p.name = q.name => p = q
         /\ version' \in Nat
         /\ call' \in [Calls -> Call]
<1>1. policies \subseteq Policies /\ \A q, s \in policies : q.name = s.name => q = s
  BY DEF TypeOK
<1>2. call[c] \in Call /\ call \in [Calls -> Call] /\ version \in Nat
  BY DEF TypeOK
<1>3. PICK p \in call[c].row : policies' = Upserted(p) \/ policies' = Deleted(p)
  BY DEF WriteStep
<1>4. p \in Policies
  BY <1>2, <1>3 DEF Call
<1>5. policies' \subseteq Policies /\ \A q, s \in policies' : q.name = s.name => q = s
  <2>1. CASE policies' = Upserted(p)
    BY <1>4, <2>1, UpsertedType
  <2>2. CASE policies' = Deleted(p)
    BY <1>1, <2>2 DEF Deleted
  <2>3. QED
    BY <1>3, <2>1, <2>2
<1>6. version' \in Nat /\ call' \in [Calls -> Call]
  BY <1>2, WroteCall DEF WriteStep
<1>7. QED
  BY <1>5, <1>6

\* Beginning a call keeps the types.
LEMMA BeginType ==
  ASSUME TypeOK, NEW c \in Calls, NEW r \in Replicas, NEW op \in Ops, NEW row \in SUBSET Policies,
         Begin(c, op, r, row)
  PROVE  call' \in [Calls -> Call]
  BY DEF Begin, TypeOK, Call, Reading

LEMMA ReloadType ==
  ASSUME TypeOK, NEW t \in Threads, BuildQuery(t) \/ Install(t)
  PROVE  TypeOK'
<1>1. /\ at \in [Threads -> Steps] /\ built \in [Threads -> Seq(Queries)]
      /\ built[t] \in Seq(Queries)
      /\ engine \in [Replicas -> Seq(Queries)]
      /\ \A r \in Replicas : Loaded(r) => Len(engine[r]) = Len(QueryTypes)
      /\ \A u \in Threads : Len(built[u]) <= Len(QueryTypes)
      /\ failures \in 0 .. MaxFailures /\ version \in Nat /\ MaxFailures \in Nat
      /\ policies \in SUBSET Policies
  BY ConstantsAssumption DEF TypeOK
<1>2. Home(t) \in Replicas
  BY DEF Home, Threads, TypeOK, Call
<1>3. CASE BuildQuery(t)
  <2> DEFINE modules == ModulesOf(Enabled(QueryTypes[Len(built[t]) + 1]))
             query == [modules |-> modules, version |-> version]
  <2>1. modules \in SUBSET Modules
    <3>1. Enabled(QueryTypes[Len(built[t]) + 1]) \in SUBSET Policies
      BY <1>1 DEF Enabled
    <3>2. QED
      BY <3>1, ModulesType
  <2>2. query \in Queries
    BY <1>1, <2>1 DEF Queries
  <2>3. /\ Len(built[t]) < Len(QueryTypes)
        /\ \/ /\ built' = [built EXCEPT ![t] = Append(built[t], query)]
              /\ UNCHANGED <<at, failures>>
           \/ /\ UNCHANGED failures \/ StoreFails
              /\ Goto(t, ReloadError(t))
              /\ built' = [built EXCEPT ![t] = <<>>]
        /\ UNCHANGED <<policies, version, engine, call>>
    BY <1>3 DEF BuildQuery
  <2> HIDE DEF query
  <2>4. built' \in [Threads -> Seq(Queries)] /\ \A u \in Threads : Len(built'[u]) <= Len(QueryTypes)
    <3>1. /\ Append(built[t], query) \in Seq(Queries)
          /\ Len(Append(built[t], query)) = Len(built[t]) + 1
      BY <1>1, <2>2
    <3>2. Len(QueryTypes) = 3 /\ Len(built[t]) \in Nat
      BY <1>1 DEF QueryTypes
    <3>3. Len(Append(built[t], query)) <= Len(QueryTypes)
      BY <2>3, <3>1, <3>2
    <3> HIDE DEF QueryTypes
    <3>4. Len(<<>>) <= Len(QueryTypes) /\ <<>> \in Seq(Queries)
      BY <3>2
    <3>5. QED
      BY <1>1, <2>3, <3>1, <3>3, <3>4
  <2>5. at' \in [Threads -> Steps]
    BY <1>1, <2>3 DEF Goto, ReloadError, Steps
  <2>6. failures' \in 0 .. MaxFailures
    BY <1>1, <2>3 DEF StoreFails
  <2>7. QED
    BY <2>3, <2>4, <2>5, <2>6 DEF TypeOK, Loaded
<1>4. CASE Install(t)
  <2>1. /\ Len(built[t]) = Len(QueryTypes)
        /\ engine' = [engine EXCEPT ![Home(t)] = built[t]]
        /\ built' = [built EXCEPT ![t] = <<>>]
        /\ at' \in [Threads -> Steps]
        /\ UNCHANGED <<policies, version, call, failures>>
    BY <1>1, <1>4 DEF Install, Swapped, Goto, Steps
  <2>2. /\ engine' \in [Replicas -> Seq(Queries)]
        /\ \A r \in Replicas : engine'[r] # <<>> => Len(engine'[r]) = Len(QueryTypes)
    BY <1>1, <1>2, <2>1 DEF Loaded
  <2>3. built' \in [Threads -> Seq(Queries)] /\ \A u \in Threads : Len(built'[u]) <= Len(QueryTypes)
    BY <1>1, <2>1 DEF QueryTypes
  <2>4. QED
    BY <2>1, <2>2, <2>3 DEF TypeOK, Loaded
<1>5. QED
  BY <1>3, <1>4

LEMMA TypeStep == TypeOK /\ [Next]_vars => TypeOK'
<1> SUFFICES ASSUME TypeOK, [Next]_vars
             PROVE  TypeOK'
  OBVIOUS
<1>1. /\ at \in [Threads -> Steps] /\ call \in [Calls -> Call]
      /\ failures \in 0 .. MaxFailures /\ version \in Nat /\ MaxFailures \in Nat
      /\ policies \in SUBSET Policies
      /\ Calls \subseteq Threads /\ Replicas \subseteq Threads
  BY ConstantsAssumption DEF TypeOK, Threads
<1>2. StoreFails => failures' \in 0 .. MaxFailures
  BY <1>1 DEF StoreFails
<1>3. ASSUME NEW c \in Calls, CallStep(c)
      PROVE  TypeOK'
  <2>1. CASE ApplyPolicy(c)
    <3>1. PICK r \in Replicas, p \in {[input EXCEPT !.id = c] : input \in Inputs} :
            Begin(c, "apply", r, {p})
      BY <2>1 DEF ApplyPolicy
    <3>2. p \in Policies
      BY ConstantsAssumption DEF Policies
    <3>3. call' \in [Calls -> Call]
      BY <3>1, <3>2, BeginType DEF Ops
    <3>4. /\ at' \in [Threads -> Steps] /\ failures' \in 0 .. MaxFailures
          /\ UNCHANGED <<policies, version, engine, built>>
      BY <1>1, <1>2, <2>1 DEF ApplyPolicy, Goto, Steps
    <3>5. QED
      BY <3>3, <3>4 DEF TypeOK, Loaded
  <2>2. CASE UpsertPolicy(c)
    <3>1. /\ at' \in [Threads -> Steps] /\ failures' \in 0 .. MaxFailures
          /\ UNCHANGED <<engine, built>>
          /\ WriteStep(c) \/ UNCHANGED <<policies, version, call>>
      BY <1>1, <1>2, <2>2
      DEF UpsertPolicy, Write, NotWritten, AfterWrite, Goto, Steps, WriteStep, KeepsWrite
    <3>2. QED
      BY <3>1, WriteType DEF TypeOK, Loaded
  <2>3. CASE ReadBack(c)
    BY <1>1, <1>2, <2>3 DEF ReadBack, Goto, Steps, TypeOK, Loaded
  <2>4. CASE DeletePolicy(c)
    <3>1. PICK r \in Replicas, p \in policies : Begin(c, "delete", r, {p})
      BY <2>4 DEF DeletePolicy
    <3>2. call' \in [Calls -> Call]
      BY <1>1, <3>1, BeginType DEF Ops
    <3>3. QED
      BY <1>1, <2>4, <3>2 DEF DeletePolicy, Goto, Steps, TypeOK, Loaded
  <2>5. CASE CompileCheckWithout(c)
    <3>1. /\ at' \in [Threads -> Steps] /\ failures' \in 0 .. MaxFailures
          /\ UNCHANGED <<policies, version, engine, built, call>>
      BY <1>1, <1>2, <2>5 DEF CompileCheckWithout, Goto, Steps
    <3>2. QED
      BY <3>1 DEF TypeOK, Loaded
  <2>6. CASE DeleteRow(c)
    <3>1. /\ at' \in [Threads -> Steps] /\ failures' \in 0 .. MaxFailures
          /\ UNCHANGED <<engine, built>>
          /\ WriteStep(c) \/ UNCHANGED <<policies, version, call>>
      BY <1>1, <1>2, <2>6
      DEF DeleteRow, Write, NotWritten, AfterWrite, Goto, Steps, WriteStep, KeepsWrite
    <3>2. QED
      BY <3>1, WriteType DEF TypeOK, Loaded
  <2>7. CASE ReloadPolicies(c)
    <3>1. call' \in [Calls -> Call]
      BY <2>7, BeginType DEF ReloadPolicies, Ops
    <3>2. QED
      BY <1>1, <2>7, <3>1 DEF ReloadPolicies, Goto, Steps, TypeOK, Loaded
  <2>8. CASE BuildQuery(c) \/ Install(c)
    BY <1>1, <2>8, ReloadType
  <2>9. CASE Return(c)
    <3>1. /\ at' \in [Threads -> Steps] /\ failures' \in 0 .. MaxFailures
          /\ UNCHANGED <<policies, version, engine, built, call>>
      BY <1>1, <1>2, <2>9 DEF Return, Goto, Steps
    <3>2. QED
      BY <3>1 DEF TypeOK, Loaded
  <2>10. QED
    BY <1>3, <2>1, <2>2, <2>3, <2>4, <2>5, <2>6, <2>7, <2>8, <2>9 DEF CallStep
<1>4. ASSUME NEW r \in Replicas, ReplicaStep(r)
      PROVE  TypeOK'
  <2>1. CASE Start(r) \/ Sync(r)
    <3>1. at' \in [Threads -> Steps] /\ UNCHANGED <<policies, version, engine, built, call, failures>>
      BY <1>1, <2>1 DEF Start, Sync, Goto, Steps
    <3>2. QED
      BY <3>1 DEF TypeOK, Loaded
  <2>2. QED
    BY <1>1, <1>4, <2>1, ReloadType DEF ReplicaStep
<1>5. ASSUME NEW r \in Replicas, Crash(r)
      PROVE  TypeOK'
  <2>1. at' \in [Threads -> Steps]
    BY <1>1, <1>5 DEF Crash, Steps
  <2>2. built' \in [Threads -> Seq(Queries)] /\ \A u \in Threads : Len(built'[u]) <= Len(QueryTypes)
    BY <1>5 DEF Crash, TypeOK, QueryTypes
  <2>3. /\ engine' \in [Replicas -> Seq(Queries)]
        /\ \A s \in Replicas : engine'[s] # <<>> => Len(engine'[s]) = Len(QueryTypes)
    BY <1>5 DEF Crash, TypeOK, Loaded
  <2>4. failures' \in 0 .. MaxFailures /\ UNCHANGED <<policies, version, call>>
    BY <1>2, <1>5 DEF Crash
  <2>5. QED
    BY <2>1, <2>2, <2>3, <2>4 DEF TypeOK, Loaded
<1>6. CASE UNCHANGED vars
  BY <1>6 DEF vars, TypeOK, Loaded
<1>7. QED
  BY <1>3, <1>4, <1>5, <1>6 DEF Next

-----------------------------------------------------------------------------
(* Rows and checks *)

\* The rows after an upsert: those of other names, and the new one with the id of the
\* row it replaces or with its own.
LEMMA UpsertedRows ==
  ASSUME TypeOK, NEW p \in Policies
  PROVE  \E id \in Names \cup Calls :
           /\ Upserted(p) = {q \in policies : q.name # p.name} \cup {[p EXCEPT !.id = id]}
           /\ \/ id = p.id /\ \A q \in policies : q.name # p.name
              \/ \E q \in policies : q.name = p.name /\ q.id = id
<1>1. policies \subseteq Policies /\ \A q, s \in policies : q.name = s.name => q = s
  BY DEF TypeOK
<1>2. CASE \A q \in policies : q.name # p.name
  <2>1. Upserted(p) = policies \cup {p}
    BY <1>2 DEF Upserted
  <2>2. p = [p EXCEPT !.id = p.id] /\ p.id \in Names \cup Calls
    BY DEF Policies
  <2>3. QED
    BY <1>2, <2>1, <2>2
<1>3. CASE \E q \in policies : q.name = p.name
  <2>1. PICK q \in policies : q.name = p.name
    BY <1>3
  <2>2. {s \in policies : s.name = p.name} = {q}
    BY <1>1, <2>1
  <2>3. Upserted(p) = (policies \ {q}) \cup {[p EXCEPT !.id = q.id]}
    BY <2>2 DEF Upserted
  <2>4. q.id \in Names \cup Calls
    BY <1>1 DEF Policies
  <2>5. policies \ {q} = {s \in policies : s.name # p.name}
    BY <2>2
  <2>6. QED
    BY <2>1, <2>3, <2>4, <2>5
<1>4. QED
  BY <1>2, <1>3

\* The rows of a write keep ids of their own.
LEMMA IdsWrite ==
  ASSUME PolicyInv, NEW c \in Calls, WriteStep(c),
         \A t \in Threads \ {c} : at'[t] = at[t]
  PROVE  IdsOK'
<1>1. /\ TypeOK /\ IdsOK /\ policies \subseteq Policies
      /\ \A p, q \in policies : p.name = q.name => p = q
      /\ Calls \subseteq Threads
      /\ at[c] = "write" /\ at'[c] \notin {"idle", "check", "write"}
  BY DEF PolicyInv, TypeOK, Threads, WriteStep
<1>2. PICK p \in Policies : call[c].row = {p}
  BY <1>1 DEF PolicyInv, CheckedOK, Checked
<1>3. CASE policies' = Deleted(p)
  BY <1>1, <1>3 DEF Deleted, IdsOK
<1>4. CASE call[c].op = "apply" /\ policies' = Upserted(p)
  <2>1. p.id = c
    BY <1>1, <1>2, <1>4 DEF PolicyInv, CheckedOK, Checked
  <2>2. PICK id \in Names \cup Calls :
          /\ policies' = {q \in policies : q.name # p.name} \cup {[p EXCEPT !.id = id]}
          /\ \/ id = p.id /\ \A q \in policies : q.name # p.name
             \/ \E q \in policies : q.name = p.name /\ q.id = id
    BY <1>1, <1>4, UpsertedRows
  <2> DEFINE new == [p EXCEPT !.id = id]
  <2>3. new.id = id
    BY DEF Policies
  <2>4. \A q \in policies : q.name # p.name => q.id # id
    BY <1>1, <2>1, <2>2 DEF IdsOK
  <2>5. id \in Calls => at'[id] \notin {"idle", "check", "write"}
    BY <1>1, <2>1, <2>2 DEF IdsOK
  <2>6. policies' = {q \in policies : q.name # p.name} \cup {new}
    BY <2>2
  <2> HIDE DEF new
  <2>7. \A q, s \in policies' : q.id = s.id => q = s
    BY <1>1, <2>3, <2>4, <2>6 DEF IdsOK
  <2>8. \A q \in policies : q.id \in Calls => at'[q.id] \notin {"idle", "check", "write"}
    BY <1>1 DEF IdsOK
  <2>9. QED
    BY <2>3, <2>5, <2>6, <2>7, <2>8 DEF IdsOK
<1>5. QED
  BY <1>2, <1>3, <1>4 DEF WriteStep

\* A call begins, checks, goes on, or writes.
LEMMA CallProgress ==
  ASSUME PolicyInv, NEW c \in Calls, CallStep(c)
  PROVE  \/ /\ at[c] = "idle" /\ policies' = policies /\ version' = version
            /\ call'[c].checked = version /\ call'[c].wrote = 0
            /\ \/ at'[c] \in {"refused", "reload"}
               \/ /\ at'[c] = "write" /\ call'[c].op = "apply"
                  /\ \E p \in Policies : /\ call'[c].row = {p} /\ p.id = c
                                         /\ Compiles(CheckedModules(p))
               \/ /\ at'[c] = "check" /\ call'[c].op = "delete"
                  /\ \E p \in policies : call'[c].row = {p}
         \/ /\ at[c] = "check" /\ policies' = policies /\ version' = version /\ call' = call
            /\ \/ at'[c] = "refused"
               \/ /\ at'[c] = "write"
                  /\ \A p \in call[c].row :
                       Compiles(ModulesOf({q \in Enabled(p.type) : q.id # p.id}))
         \/ /\ at[c] \notin {"idle", "check"} /\ at'[c] \notin {"idle", "check", "write"}
            /\ policies' = policies /\ version' = version /\ call' = call
         \/ WriteStep(c)
<1>1. /\ at \in [Threads -> Steps] /\ call \in [Calls -> Call] /\ c \in Threads /\ c \notin Replicas
      /\ policies \subseteq Policies
  BY ConstantsAssumption DEF PolicyInv, TypeOK, Threads
<1>2. CASE ApplyPolicy(c)
  <2>1. PICK r \in Replicas, p \in {[input EXCEPT !.id = c] : input \in Inputs} :
          /\ Begin(c, "apply", r, {p})
          /\ \/ IF Compiles(CheckedModules(p)) THEN Goto(c, "write") ELSE Goto(c, "refused")
             \/ Goto(c, "refused")
          /\ UNCHANGED <<policies, version>>
    BY <1>2 DEF ApplyPolicy
  <2>2. p \in Policies /\ p.id = c
    BY ConstantsAssumption DEF Policies
  <2>3. /\ at[c] = "idle" /\ call'[c].checked = version /\ call'[c].wrote = 0
        /\ call'[c].op = "apply" /\ call'[c].row = {p}
    BY <1>1, <2>1 DEF Begin
  <2>4. CASE Goto(c, "refused")
    BY <1>1, <2>1, <2>3, <2>4 DEF Goto
  <2>5. CASE Compiles(CheckedModules(p)) /\ Goto(c, "write")
    BY <1>1, <2>1, <2>2, <2>3, <2>5 DEF Goto
  <2>6. QED
    BY <2>1, <2>4, <2>5
<1>3. CASE DeletePolicy(c)
  BY <1>1, <1>3 DEF DeletePolicy, Begin, Goto
<1>4. CASE ReloadPolicies(c)
  BY <1>1, <1>4 DEF ReloadPolicies, Begin, Goto
<1>5. CASE CompileCheckWithout(c)
  <2>1. PICK p \in Policies : call[c].row = {p}
    BY <1>5 DEF CompileCheckWithout, PolicyInv, CheckedOK, Checked
  <2>2. QED
    BY <1>1, <1>5, <2>1 DEF CompileCheckWithout, Goto
<1>6. CASE UpsertPolicy(c)
  BY <1>1, <1>6 DEF UpsertPolicy, Write, NotWritten, AfterWrite, Goto, WriteStep, KeepsWrite
<1>7. CASE DeleteRow(c)
  BY <1>1, <1>7 DEF DeleteRow, Write, NotWritten, AfterWrite, Goto, WriteStep, KeepsWrite
<1>8. CASE ReadBack(c)
  BY <1>1, <1>8 DEF ReadBack, Goto
<1>9. CASE BuildQuery(c)
  BY <1>1, <1>9 DEF BuildQuery, Goto, ReloadError
<1>10. CASE Install(c)
  BY <1>1, <1>10 DEF Install, Goto
<1>11. CASE Return(c)
  BY <1>1, <1>11 DEF Return, Goto
<1>12. QED
  BY <1>2, <1>3, <1>4, <1>5, <1>6, <1>7, <1>8, <1>9, <1>10, <1>11 DEF CallStep

\* Steps of replicas begin no call and write nothing.
LEMMA ReplicaFrame ==
  ASSUME TypeOK, NEW r \in Replicas, ReplicaStep(r) \/ Crash(r)
  PROVE  /\ UNCHANGED <<policies, version, call>>
         /\ \A c \in Calls : at'[c] = at[c] \/ (at[c] # "idle" /\ at'[c] = "failed")
<1>1. at \in [Threads -> Steps] /\ Calls \subseteq Threads /\ r \notin Calls
  BY ConstantsAssumption DEF TypeOK, Threads
<1>2. CASE Start(r) \/ Sync(r)
  BY <1>1, <1>2 DEF Start, Sync, Goto
<1>3. CASE BuildQuery(r) \/ Install(r)
  BY <1>1, <1>3 DEF BuildQuery, Install, Goto
<1>4. CASE Crash(r)
  BY <1>1, <1>4 DEF Crash
<1>5. QED
  BY <1>2, <1>3, <1>4 DEF ReplicaStep

LEMMA IdsStep == PolicyInv /\ [Next]_vars => IdsOK'
<1> SUFFICES ASSUME PolicyInv, [Next]_vars
             PROVE  IdsOK'
  OBVIOUS
<1>1. TypeOK /\ IdsOK /\ policies \subseteq Policies /\ Calls \subseteq Threads
  BY DEF PolicyInv, TypeOK, Threads
<1>2. ASSUME NEW c \in Calls, CallStep(c)
      PROVE  IdsOK'
  <2>1. \A t \in Threads \ {c} : at'[t] = at[t]
    BY <1>1, <1>2, CallFrame
  <2>2. CASE WriteStep(c)
    BY <2>1, <2>2, IdsWrite
  <2>3. CASE /\ policies' = policies
             /\ at[c] \in {"idle", "check"} \/ at'[c] \notin {"idle", "check", "write"}
    BY <1>1, <2>1, <2>3 DEF IdsOK
  <2>4. QED
    BY <1>2, <2>2, <2>3, CallProgress
<1>3. ASSUME NEW r \in Replicas, ReplicaStep(r) \/ Crash(r)
      PROVE  IdsOK'
  BY <1>1, <1>3, ReplicaFrame DEF IdsOK
<1>4. CASE UNCHANGED vars
  BY <1>1, <1>4 DEF vars, IdsOK
<1>5. QED
  BY <1>2, <1>3, <1>4 DEF Next

\* What a call knows is not disturbed by a step that leaves it and the table alone.
LEMMA CheckedStays ==
  ASSUME NEW c \in Calls, Checked(c), UNCHANGED <<policies, version>>,
         call'[c] = call[c], at'[c] = at[c] \/ at'[c] \notin {"check", "write"}
  PROVE  Checked(c)'
<1>1. \A p : Remaining(c, p)' = Remaining(c, p)
  BY DEF Remaining, CheckedModules, Enabled
<1>2. QED
  BY <1>1 DEF Checked

LEMMA CheckedStep == PolicyInv /\ [Next]_vars => CheckedOK'
<1> SUFFICES ASSUME PolicyInv, [Next]_vars
             PROVE  CheckedOK'
  OBVIOUS
<1>1. /\ TypeOK /\ CheckedOK /\ policies \subseteq Policies /\ Calls \subseteq Threads
      /\ version \in Nat /\ call \in [Calls -> Call]
  BY DEF PolicyInv, TypeOK, Threads
<1>2. ASSUME NEW c \in Calls, CallStep(c)
      PROVE  CheckedOK'
  <2>1. \A d \in Calls \ {c} : call'[d] = call[d] /\ at'[d] = at[d]
    BY <1>1, <1>2, CallFrame
  <2>2. CASE WriteStep(c)
    <3>1. version' = version + 1 /\ at'[c] \notin {"check", "write"}
      BY <2>2 DEF WriteStep
    <3>2. call'[c].checked = call[c].checked
      BY <1>1, <2>2, WroteCall
    <3>3. \A d \in Calls : call'[d].checked = call[d].checked /\ call[d].checked \in Nat
      BY <1>1, <2>1, <3>2 DEF Call
    <3>4. \A d \in Calls : call'[d].checked < version'
      BY <1>1, <3>1, <3>3 DEF CheckedOK, Checked
    <3>5. ASSUME NEW d \in Calls
          PROVE  Checked(d)'
      <4>1. CASE d = c
        BY <1>1, <3>1, <3>3, <3>4, <4>1 DEF Checked
      <4>2. CASE d # c
        BY <1>1, <2>1, <3>1, <3>3, <3>4, <4>2 DEF CheckedOK, Checked
      <4>3. QED
        BY <4>1, <4>2
    <3>6. QED
      BY <3>5 DEF CheckedOK
  <2>3. CASE ~WriteStep(c)
    <3>1. UNCHANGED <<policies, version>>
      BY <1>2, <2>3, CallProgress
    <3>2. \A d \in Calls \ {c} : Checked(d)'
      BY <1>1, <2>1, <3>1, CheckedStays DEF CheckedOK
    <3>3. ASSUME call'[c].checked = version,
                 \/ at'[c] \in {"refused", "reload"}
                 \/ /\ at'[c] = "write" /\ call'[c].op = "apply"
                    /\ \E p \in Policies : /\ call'[c].row = {p} /\ p.id = c
                                           /\ Compiles(CheckedModules(p))
                 \/ /\ at'[c] = "check" /\ call'[c].op = "delete"
                    /\ \E p \in policies : call'[c].row = {p}
          PROVE  Checked(c)'
      <4>1. \A p : CheckedModules(p)' = CheckedModules(p)
        BY <3>1 DEF CheckedModules, Enabled
      <4>2. call'[c].op = "apply" => \A p : Remaining(c, p)' = CheckedModules(p)
        BY <4>1 DEF Remaining
      <4>3. QED
        BY <1>1, <3>1, <3>3, <4>2 DEF Checked
    <3>4. ASSUME at[c] = "check", call' = call,
                 \/ at'[c] = "refused"
                 \/ /\ at'[c] = "write"
                    /\ \A p \in call[c].row :
                         Compiles(ModulesOf({q \in Enabled(p.type) : q.id # p.id}))
          PROVE  Checked(c)'
      <4>1. Checked(c) /\ call[c].op = "delete"
        BY <1>1, <3>4 DEF CheckedOK, Checked
      <4>2. \A p : Remaining(c, p)' = ModulesOf({q \in Enabled(p.type) : q.id # p.id})
        BY <3>1, <3>4, <4>1 DEF Remaining, Enabled
      <4>3. QED
        BY <3>1, <3>4, <4>1, <4>2 DEF Checked
    <3>5. ASSUME at'[c] \notin {"idle", "check", "write"}, call' = call
          PROVE  Checked(c)'
      BY <1>1, <3>1, <3>5, CheckedStays DEF CheckedOK
    <3>6. Checked(c)'
      BY <1>2, <2>3, <3>3, <3>4, <3>5, CallProgress
    <3>7. QED
      BY <3>2, <3>6 DEF CheckedOK
  <2>4. QED
    BY <2>2, <2>3
<1>3. ASSUME NEW r \in Replicas, ReplicaStep(r) \/ Crash(r)
      PROVE  CheckedOK'
  <2>1. UNCHANGED <<policies, version, call>> /\ \A c \in Calls : at'[c] = at[c] \/ at'[c] = "failed"
    BY <1>1, <1>3, ReplicaFrame
  <2>2. QED
    BY <1>1, <2>1, CheckedStays DEF CheckedOK
<1>4. CASE UNCHANGED vars
  BY <1>1, <1>4, CheckedStays DEF vars, CheckedOK
<1>5. QED
  BY <1>2, <1>3, <1>4 DEF Next

-----------------------------------------------------------------------------
(* Reloads *)

LEMMA OrderedStays ==
  ASSUME NEW queries \in Seq(Queries), NEW v \in Nat, NEW w \in Nat, w >= v, Ordered(queries, v)
  PROVE  Ordered(queries, w)
<1>1. \A i \in 1 .. Len(queries) : queries[i].version \in Nat
  <2>1. \A i \in 1 .. Len(queries) : queries[i] \in Queries
    OBVIOUS
  <2>2. QED
    BY <2>1 DEF Queries
<1>2. QED
  BY <1>1 DEF Ordered

LEMMA OrderedNone == \A v : Ordered(<<>>, v)
  BY DEF Ordered

\* A query that is built from the table as it is ends the list.
LEMMA OrderedAppend ==
  ASSUME NEW queries \in Seq(Queries), NEW v \in Nat, Ordered(queries, v),
         NEW modules \in SUBSET Modules, Compiles(modules)
  PROVE  Ordered(Append(queries, [modules |-> modules, version |-> v]), v)
<1> DEFINE query == [modules |-> modules, version |-> v]
           longer == Append(queries, query)
<1>1. query \in Queries /\ query.modules = modules /\ query.version = v
  BY DEF Queries
<1> HIDE DEF query
<1>2. /\ Len(longer) = Len(queries) + 1 /\ Len(queries) \in Nat
      /\ \A i \in 1 .. Len(queries) : longer[i] = queries[i]
      /\ longer[Len(queries) + 1] = query
  BY <1>1
<1> HIDE DEF longer
<1>3. \A i \in 1 .. Len(queries) : queries[i].version \in Nat
  <2>1. \A i \in 1 .. Len(queries) : queries[i] \in Queries
    OBVIOUS
  <2>2. QED
    BY <2>1 DEF Queries
<1>4. \A i \in 1 .. Len(longer) : Compiles(longer[i].modules) /\ longer[i].version <= v
  BY <1>1, <1>2 DEF Ordered
<1>5. \A i, j \in 1 .. Len(longer) : i < j => longer[i].version <= longer[j].version
  <2> SUFFICES ASSUME NEW i \in 1 .. Len(longer), NEW j \in 1 .. Len(longer), i < j
               PROVE  longer[i].version <= longer[j].version
    OBVIOUS
  <2>1. i \in 1 .. Len(queries)
    BY <1>2
  <2>2. CASE j \in 1 .. Len(queries)
    BY <1>2, <2>1, <2>2 DEF Ordered
  <2>3. CASE j = Len(queries) + 1
    BY <1>1, <1>2, <2>1, <2>3 DEF Ordered
  <2>4. QED
    BY <1>2, <2>2, <2>3
<1>6. QED
  BY <1>4, <1>5 DEF Ordered, longer, query

\* A reload builds the next query, gives up, or ends by replacing the replica's queries.
LEMMA ReloadStep ==
  ASSUME PolicyInv, NEW t \in Threads, BuildQuery(t) \/ Install(t)
  PROVE  BuiltOK'
<1>1. /\ TypeOK /\ BuiltOK /\ CheckedOK /\ version \in Nat
      /\ at \in [Threads -> Steps] /\ built \in [Threads -> Seq(Queries)]
      /\ call \in [Calls -> Call] /\ engine \in [Replicas -> Seq(Queries)]
      /\ Calls \subseteq Threads /\ policies \in SUBSET Policies
      /\ at[t] = "reload"
  BY DEF PolicyInv, TypeOK, Threads, BuildQuery, Install
<1>2. Home(t) \in Replicas
  BY <1>1 DEF Home, Threads, Call
<1>3. UNCHANGED <<version, call>>
  BY DEF BuildQuery, Install
<1>4. \A r \in Replicas : Ordered(engine[r], version')
  BY <1>1, <1>3 DEF BuiltOK
<1>5. ASSUME built' = [built EXCEPT ![t] = <<>>],
             \A u \in Threads \ {t} : at'[u] = at[u],
             \A r \in Replicas : engine'[r] = engine[r] \/ engine'[r] = built[t]
      PROVE  BuiltOK'
  <2>1. \A u \in Threads : built'[u] = IF u = t THEN <<>> ELSE built[u]
    BY <1>1, <1>5
  <2>2. \A u \in Threads : Ordered(built'[u], version') /\ (at'[u] # "reload" => built'[u] = <<>>)
    BY <1>1, <1>3, <1>5, <2>1, OrderedNone DEF BuiltOK
  <2>3. \A r \in Replicas : Ordered(engine'[r], version')
    BY <1>1, <1>3, <1>4, <1>5 DEF BuiltOK
  <2>4. \A c \in Calls : Fresh(c)'
    BY <1>1, <1>3, <2>1 DEF BuiltOK, Fresh
  <2>5. QED
    BY <2>2, <2>3, <2>4 DEF BuiltOK
<1>6. CASE Install(t)
  BY <1>1, <1>2, <1>5, <1>6 DEF Install, Swapped, Goto
<1>7. CASE BuildQuery(t)
  <2> DEFINE modules == ModulesOf(Enabled(QueryTypes[Len(built[t]) + 1]))
             query == [modules |-> modules, version |-> version]
  <2>1. modules \in SUBSET Modules
    <3>1. Enabled(QueryTypes[Len(built[t]) + 1]) \in SUBSET Policies
      BY <1>1 DEF Enabled
    <3>2. QED
      BY <3>1, ModulesType
  <2>2. query \in Queries /\ query.version = version
    BY <1>1, <2>1 DEF Queries
  <2>3. engine' = engine
    BY <1>7 DEF BuildQuery
  <2>4. CASE built' = [built EXCEPT ![t] = <<>>] /\ Goto(t, ReloadError(t))
    BY <1>1, <1>5, <2>3, <2>4 DEF Goto
  <2>5. CASE Compiles(modules) /\ built' = [built EXCEPT ![t] = Append(built[t], query)] /\ at' = at
    <3>1. \A u \in Threads : built'[u] = IF u = t THEN Append(built[t], query) ELSE built[u]
      BY <1>1, <2>5
    <3>2. Ordered(Append(built[t], query), version')
      BY <1>1, <1>3, <2>1, <2>5, OrderedAppend DEF BuiltOK
    <3> HIDE DEF query
    <3>3. \A u \in Threads : Ordered(built'[u], version') /\ (at'[u] # "reload" => built'[u] = <<>>)
      BY <1>1, <1>3, <2>5, <3>1, <3>2 DEF BuiltOK
    <3>4. \A r \in Replicas : Ordered(engine'[r], version')
      BY <1>4, <2>3
    <3>5. \A c \in Calls \ {t} : Fresh(c)'
      BY <1>1, <1>3, <3>1 DEF BuiltOK, Fresh
    <3>6. ASSUME t \in Calls
          PROVE  Fresh(t)'
      <4>1. /\ call[t].wrote <= version /\ call[t].checked <= version
            /\ call[t].wrote \in Nat /\ call[t].checked \in Nat
        BY <1>1, <3>6 DEF BuiltOK, Fresh, CheckedOK, Checked, Call
      <4>2. /\ built'[t] = Append(built[t], query) /\ Len(built'[t]) = Len(built[t]) + 1
            /\ \A i \in 1 .. Len(built[t]) : built'[t][i] = built[t][i]
            /\ built'[t][Len(built[t]) + 1] = query
            /\ Len(built[t]) \in Nat
        <5>1. built[t] \in Seq(Queries) /\ built'[t] = Append(built[t], query) /\ query \in Queries
          BY <1>1, <2>2, <3>1
        <5>2. QED
          BY <5>1
      <4>3. ASSUME NEW i \in 1 .. Len(built'[t])
            PROVE  built'[t][i].version >= call[t].wrote /\ built'[t][i].version >= call[t].checked
        <5>1. CASE i \in 1 .. Len(built[t])
          BY <1>1, <3>6, <4>2, <5>1 DEF BuiltOK, Fresh
        <5>2. CASE i = Len(built[t]) + 1
          BY <2>2, <4>1, <4>2, <5>2
        <5>3. QED
          BY <4>2, <5>1, <5>2
      <4>4. QED
        BY <1>3, <4>1, <4>3 DEF Fresh
    <3>7. QED
      BY <3>3, <3>4, <3>5, <3>6 DEF BuiltOK
  <2>6. QED
    BY <1>7, <2>4, <2>5 DEF BuildQuery
<1>8. QED
  BY <1>6, <1>7

\* Steps that do not reload.
LEMMA BuiltStays ==
  ASSUME PolicyInv, version' \in Nat, version' >= version,
         \A t \in Threads :
           \/ built'[t] = <<>>
           \/ built'[t] = built[t] /\ (at'[t] = at[t] \/ at'[t] = "reload"),
         \A r \in Replicas : engine'[r] = engine[r] \/ engine'[r] = <<>>,
         \A c \in Calls :
           \/ call'[c] = call[c]
           \/ built'[c] = <<>> /\ call'[c].wrote <= version'
  PROVE  BuiltOK'
<1>1. /\ TypeOK /\ BuiltOK /\ version \in Nat /\ Calls \subseteq Threads
      /\ built \in [Threads -> Seq(Queries)] /\ engine \in [Replicas -> Seq(Queries)]
      /\ call \in [Calls -> Call]
  BY DEF PolicyInv, TypeOK, Threads
<1>2. Ordered(<<>>, version')
  BY OrderedNone
<1>3. \A t \in Threads : Ordered(built'[t], version') /\ (at'[t] # "reload" => built'[t] = <<>>)
  BY <1>1, <1>2, OrderedStays DEF BuiltOK
<1>4. \A r \in Replicas : Ordered(engine'[r], version')
  BY <1>1, <1>2, OrderedStays DEF BuiltOK
<1>5. ASSUME NEW c \in Calls
      PROVE  Fresh(c)'
  <2>1. CASE built'[c] = <<>> /\ call'[c].wrote <= version'
    BY <2>1 DEF Fresh
  <2>2. CASE call'[c] = call[c]
    <3>1. Fresh(c) /\ call[c].wrote \in Nat
      BY <1>1 DEF BuiltOK, Call
    <3>2. call'[c].wrote <= version'
      BY <1>1, <2>2, <3>1 DEF Fresh
    <3>3. built'[c] = <<>> \/ built'[c] = built[c]
      BY <1>1
    <3>4. QED
      BY <2>2, <3>1, <3>2, <3>3 DEF Fresh
  <2>3. QED
    BY <2>1, <2>2
<1>6. QED
  BY <1>3, <1>4, <1>5 DEF BuiltOK

LEMMA BuiltStep == PolicyInv /\ [Next]_vars => BuiltOK'
<1> SUFFICES ASSUME PolicyInv, [Next]_vars
             PROVE  BuiltOK'
  OBVIOUS
<1>1. /\ TypeOK /\ BuiltOK /\ version \in Nat
      /\ Calls \subseteq Threads /\ Replicas \subseteq Threads
      /\ call \in [Calls -> Call] /\ built \in [Threads -> Seq(Queries)]
      /\ at \in [Threads -> Steps] /\ engine \in [Replicas -> Seq(Queries)]
  BY DEF PolicyInv, TypeOK, Threads
<1>2. ASSUME NEW c \in Calls, CallStep(c), ~(BuildQuery(c) \/ Install(c))
      PROVE  BuiltOK'
  <2>1. built' = built /\ engine' = engine
    BY <1>2 DEF CallStep, ApplyPolicy, UpsertPolicy, ReadBack, DeletePolicy, CompileCheckWithout,
      DeleteRow, ReloadPolicies, Return
  <2>2. /\ \A t \in Threads \ {c} : at'[t] = at[t]
        /\ \A d \in Calls \ {c} : call'[d] = call[d]
    BY <1>1, <1>2, CallFrame
  <2>3. at[c] # "reload"
    BY <1>2 DEF CallStep, ApplyPolicy, UpsertPolicy, ReadBack, DeletePolicy, CompileCheckWithout,
      DeleteRow, ReloadPolicies, Return, Begin
  <2>4. built'[c] = <<>>
    BY <1>1, <2>1, <2>3 DEF BuiltOK
  <2>5. version' \in Nat /\ version' >= version
    <3>1. version' = version \/ version' = version + 1
      BY <1>1, <1>2, CallFrame DEF WriteStep
    <3>2. QED
      BY <1>1, <3>1
  <2>6. call'[c].wrote <= version'
    <3>1. call[c].wrote <= version
      BY <1>1 DEF BuiltOK, Fresh
    <3>2. CASE WriteStep(c)
      BY <1>1, <3>2, WroteCall DEF WriteStep
    <3>3. CASE call'[c].wrote = 0 \/ call' = call
      BY <1>1, <2>5, <3>1, <3>3 DEF Call
    <3>4. QED
      BY <1>2, <3>2, <3>3, CallProgress
  <2>7. QED
    BY <1>1, <2>1, <2>2, <2>4, <2>5, <2>6, BuiltStays
<1>3. ASSUME NEW r \in Replicas, Start(r) \/ Sync(r)
      PROVE  BuiltOK'
  <2>1. /\ UNCHANGED <<version, call, built, engine>>
        /\ \A t \in Threads : at'[t] = at[t] \/ at'[t] = "reload"
    BY <1>1, <1>3 DEF Start, Sync, Goto
  <2>2. QED
    BY <1>1, <2>1, BuiltStays
<1>4. ASSUME NEW r \in Replicas, Crash(r)
      PROVE  BuiltOK'
  <2>1. /\ UNCHANGED <<version, call>>
        /\ \A s \in Replicas : engine'[s] = engine[s] \/ engine'[s] = <<>>
    BY <1>1, <1>4 DEF Crash
  <2>2. ASSUME NEW t \in Threads
        PROVE  \/ built'[t] = <<>>
               \/ built'[t] = built[t] /\ at'[t] = at[t]
    <3>1. CASE t = r
      <4>1. Home(t) = r
        BY <3>1 DEF Home
      <4>2. CASE at[t] \in {"idle", "ok", "refused", "failed"}
        BY <1>1, <1>4, <4>2 DEF Crash, BuiltOK
      <4>3. CASE at[t] \notin {"idle", "ok", "refused", "failed"}
        BY <1>4, <4>1, <4>3 DEF Crash
      <4>4. QED
        BY <4>2, <4>3
    <3>2. CASE t # r
      BY <1>4, <3>2 DEF Crash
    <3>3. QED
      BY <3>1, <3>2
  <2>3. QED
    BY <1>1, <2>1, <2>2, BuiltStays
<1>5. CASE UNCHANGED vars
  BY <1>1, <1>5, BuiltStays DEF vars
<1>6. ASSUME NEW t \in Threads, BuildQuery(t) \/ Install(t)
      PROVE  BuiltOK'
  BY <1>6, ReloadStep
<1>7. QED
  BY <1>1, <1>2, <1>3, <1>4, <1>5, <1>6 DEF Next, ReplicaStep

-----------------------------------------------------------------------------
(* What is in effect when a call returns *)

LEMMA AskedBound ==
  ASSUME PolicyInv, NEW c \in Calls
  PROVE  Asked(c) \in Nat /\ Asked(c) <= version
<1>1. call[c].checked \in Nat /\ call[c].wrote \in Nat
  BY DEF PolicyInv, TypeOK, Call
<1>2. call[c].checked <= version /\ call[c].wrote <= version
  BY DEF PolicyInv, CheckedOK, Checked, BuiltOK, Fresh
<1>3. QED
  BY <1>1, <1>2 DEF Asked

LEMMA NotOlderNone == \A v : NotOlder(<<>>, v)
  BY DEF NotOlder

\* A query that is built now is as new as anything asked for.
LEMMA NotOlderAppend ==
  ASSUME NEW queries \in Seq(Queries), NEW query \in Queries, NEW v \in Nat,
         NotOlder(queries, v), query.version >= v
  PROVE  NotOlder(Append(queries, query), v)
<1> DEFINE longer == Append(queries, query)
<1>1. /\ Len(longer) = Len(queries) + 1 /\ Len(queries) \in Nat
      /\ \A i \in 1 .. Len(queries) : longer[i] = queries[i]
      /\ longer[Len(queries) + 1] = query
  OBVIOUS
<1> HIDE DEF longer
<1>2. \A i \in 1 .. Len(longer) : i \in 1 .. Len(queries) \/ i = Len(queries) + 1
  BY <1>1
<1>3. \A i \in 1 .. Len(longer) : longer[i].version >= v
  BY <1>1, <1>2 DEF NotOlder
<1>4. QED
  BY <1>3 DEF NotOlder, longer

\* A step that leaves a call alone, ends reloads at most, and keeps its replica's queries.
LEMMA EffectStays ==
  ASSUME PolicyInv, NEW c \in Calls, call'[c] = call[c],
         Alone(c)' => Alone(c) /\ engine'[Home(c)] = engine[Home(c)],
         Alone(c)' /\ at'[c] = "return" => at[c] = "return",
         \A t \in Threads : built'[t] = <<>> \/ (built'[t] = built[t] /\ Home(t)' = Home(t))
  PROVE  NoneOlder(c)' /\ InEffect(c)'
<1>1. Home(c)' = Home(c) /\ Asked(c)' = Asked(c)
  BY DEF Home, Asked
<1>2. NoneOlder(c) /\ InEffect(c)
  BY DEF PolicyInv, EffectOK
<1>3. NoneOlder(c)'
  BY <1>1, <1>2, NotOlderNone DEF NoneOlder
<1>4. InEffect(c)'
  BY <1>1, <1>2 DEF InEffect, Loaded
<1>5. QED
  BY <1>3, <1>4

\* No reload of the replica has read yet: whatever it will read is new enough.
LEMMA EffectBegins ==
  ASSUME PolicyInv, NEW c \in Calls, at[c] # "reload",
         built' = built, at'[c] # "return",
         Alone(c)' => \A t \in Threads : Home(t) = Home(c)' => built[t] = <<>>,
         \A t \in Threads \ {c} : Home(t)' = Home(t)
  PROVE  NoneOlder(c)' /\ InEffect(c)'
<1>1. built[c] = <<>>
  BY DEF PolicyInv, BuiltOK, Threads
<1>2. Alone(c)' => \A t \in Threads : Home(t)' = Home(c)' => built'[t] = <<>>
  BY <1>1
<1>3. QED
  BY <1>2, NotOlderNone DEF NoneOlder, InEffect

\* A reload of an RPC or of a replica reads on, ends with an error, or installs.
LEMMA EffectReload ==
  ASSUME PolicyInv, NEW t \in Threads, BuildQuery(t) \/ Install(t), NEW c \in Calls
  PROVE  NoneOlder(c)' /\ InEffect(c)'
<1>1. /\ TypeOK /\ version \in Nat /\ Calls \subseteq Threads
      /\ at \in [Threads -> Steps] /\ built \in [Threads -> Seq(Queries)]
      /\ call \in [Calls -> Call] /\ engine \in [Replicas -> Seq(Queries)]
      /\ policies \in SUBSET Policies /\ at[t] = "reload" /\ call' = call
  BY DEF PolicyInv, TypeOK, Threads, BuildQuery, Install
<1>2. /\ Home(t) \in Replicas /\ Home(c) \in Replicas
      /\ \A u : Home(u)' = Home(u)
      /\ Asked(c)' = Asked(c)
  BY <1>1, ConstantsAssumption DEF Home, Threads, Call, Asked
<1>3. NoneOlder(c) /\ InEffect(c) /\ Asked(c) \in Nat /\ Asked(c) <= version
  BY AskedBound DEF PolicyInv, EffectOK
<1>4. CASE Install(t)
  <2>1. /\ Len(built[t]) = Len(QueryTypes)
        /\ engine' = [engine EXCEPT ![Home(t)] = built[t]]
        /\ built' = [built EXCEPT ![t] = <<>>]
        /\ \A u \in Threads \ {t} : at'[u] = at[u]
        /\ at'[t] \in {"return", "wait"}
    BY <1>1, <1>4 DEF Install, Swapped, Goto
  <2>2. Alone(c)' => Alone(c)
    BY <1>1, <2>1 DEF Alone
  <2>3. \A u \in Threads : built'[u] = <<>> \/ built'[u] = built[u]
    BY <1>1, <2>1
  <2>4. NoneOlder(c)'
    BY <1>2, <1>3, <2>2, <2>3, NotOlderNone DEF NoneOlder
  <2>5. built[t] # <<>>
    BY <2>1 DEF QueryTypes
  <2>6. InEffect(c)'
    <3>1. CASE Home(t) = Home(c)
      <4>1. engine'[Home(c)] = built[t]
        BY <1>1, <1>2, <2>1, <3>1
      <4>2. Alone(c) => NotOlder(built[t], Asked(c))
        BY <1>3, <3>1 DEF NoneOlder
      <4>3. QED
        BY <1>2, <2>2, <2>5, <4>1, <4>2 DEF InEffect, Loaded
    <3>2. CASE Home(t) # Home(c)
      <4>1. engine'[Home(c)] = engine[Home(c)] /\ at'[c] = at[c]
        BY <1>1, <1>2, <2>1, <3>2
      <4>2. QED
        BY <1>2, <1>3, <2>2, <4>1 DEF InEffect, Loaded
    <3>3. QED
      BY <3>1, <3>2
  <2>7. QED
    BY <2>4, <2>6
<1>5. CASE BuildQuery(t)
  <2> DEFINE modules == ModulesOf(Enabled(QueryTypes[Len(built[t]) + 1]))
             query == [modules |-> modules, version |-> version]
  <2>1. Enabled(QueryTypes[Len(built[t]) + 1]) \in SUBSET Policies
    BY <1>1 DEF Enabled
  <2>2. modules \in SUBSET Modules
    BY <2>1, ModulesType
  <2>3. query \in Queries /\ query.version = version
    BY <1>1, <2>2 DEF Queries
  <2>4. \/ built' = [built EXCEPT ![t] = <<>>] /\ Goto(t, ReloadError(t))
        \/ built' = [built EXCEPT ![t] = Append(built[t], query)] /\ at' = at
    BY <1>5 DEF BuildQuery
  <2>5. engine' = engine
    BY <1>5 DEF BuildQuery
  <2> HIDE DEF query
  <2>6. at'[c] = at[c] \/ at'[c] \notin {"readback", "reload", "return"}
    BY <1>1, <2>4 DEF Goto, ReloadError
  <2>7. Alone(c)' => Alone(c) /\ at'[c] = at[c]
    BY <1>1, <2>6 DEF Alone
  <2>8. \A u \in Threads : \/ built'[u] = <<>> \/ built'[u] = built[u]
                           \/ built'[u] = Append(built[u], query)
    BY <1>1, <2>4
  <2>9. NoneOlder(c)'
    <3> SUFFICES ASSUME Alone(c)', NEW u \in Threads, Home(u)' = Home(c)'
                 PROVE  NotOlder(built'[u], Asked(c)')
      BY DEF NoneOlder
    <3>1. NotOlder(built[u], Asked(c)) /\ built[u] \in Seq(Queries)
      BY <1>1, <1>2, <1>3, <2>7 DEF NoneOlder
    <3>2. NotOlder(Append(built[u], query), Asked(c))
      BY <1>3, <2>3, <3>1, NotOlderAppend
    <3>3. QED
      BY <1>2, <2>8, <3>1, <3>2, NotOlderNone
  <2>10. InEffect(c)'
    BY <1>2, <1>3, <2>5, <2>7 DEF InEffect, Loaded
  <2>11. QED
    BY <2>9, <2>10
<1>6. QED
  BY <1>4, <1>5

LEMMA EffectStep == PolicyInv /\ [Next]_vars => EffectOK'
<1> SUFFICES ASSUME PolicyInv, [Next]_vars, NEW d \in Calls
             PROVE  NoneOlder(d)' /\ InEffect(d)'
  BY DEF EffectOK
<1>1. /\ TypeOK /\ Calls \subseteq Threads /\ Replicas \subseteq Threads
      /\ call \in [Calls -> Call] /\ built \in [Threads -> Seq(Queries)]
      /\ at \in [Threads -> Steps] /\ engine \in [Replicas -> Seq(Queries)]
      /\ Home(d) \in Replicas
  BY ConstantsAssumption DEF PolicyInv, TypeOK, Threads, Home, Call
<1>2. ASSUME NEW c \in Calls, CallStep(c), ~(BuildQuery(c) \/ Install(c))
      PROVE  NoneOlder(d)' /\ InEffect(d)'
  <2>1. /\ built' = built /\ engine' = engine /\ at[c] # "reload"
    BY <1>2 DEF CallStep, ApplyPolicy, UpsertPolicy, ReadBack, DeletePolicy, CompileCheckWithout,
      DeleteRow, ReloadPolicies, Return, Begin
  <2>2. /\ \A t \in Threads \ {c} : at'[t] = at[t]
        /\ \A e \in Calls \ {c} : call'[e] = call[e]
    BY <1>1, <1>2, CallFrame
  <2>3. built[c] = <<>>
    BY <1>1, <2>1 DEF PolicyInv, BuiltOK
  <2>4. \A t \in Threads \ {c} : Home(t)' = Home(t)
    BY <2>2 DEF Home, Threads
  <2>5. CASE d # c
    <3>1. call'[d] = call[d] /\ (Alone(d)' => Alone(d)) /\ at'[d] = at[d]
      BY <1>1, <2>2, <2>5 DEF Alone
    <3>2. \A t \in Threads : built'[t] = <<>> \/ (built'[t] = built[t] /\ Home(t)' = Home(t))
      BY <2>1, <2>3, <2>4
    <3>3. QED
      BY <2>1, <3>1, <3>2, EffectStays
  <2>6. CASE d = c
    <3>1. CASE WriteStep(c)
      <4>1. call'[c].overlapped = Reading(Home(c)) /\ call'[c].replica = call[c].replica
        BY <1>1, <3>1, WroteCall
      <4>2. Home(c)' = Home(c) /\ at'[c] # "return"
        BY <3>1, <4>1 DEF Home, WriteStep
      <4>3. Alone(c)' => \A t \in Threads : Home(t) = Home(c)' => built[t] = <<>>
        BY <4>1, <4>2 DEF Alone, Reading
      <4>4. QED
        BY <2>1, <2>4, <2>6, <4>2, <4>3, EffectBegins
    <3>2. CASE ReloadPolicies(c)
      <4>1. PICK r \in Replicas : Begin(c, "reload", r, {}) /\ Goto(c, "reload")
        BY <3>2 DEF ReloadPolicies
      <4>2. call'[c].overlapped = Reading(r) /\ call'[c].replica = r
        BY <1>1, <4>1 DEF Begin, Reading
      <4>3. at'[c] # "return" /\ Home(c)' = r
        BY <1>1, <4>1, <4>2, ConstantsAssumption DEF Goto, Home
      <4>4. Alone(c)' => \A t \in Threads : Home(t) = Home(c)' => built[t] = <<>>
        BY <4>2, <4>3 DEF Alone, Reading
      <4>5. QED
        BY <2>1, <2>4, <2>6, <4>3, <4>4, EffectBegins
    <3>3. CASE ReadBack(c)
      <4>1. call' = call /\ at[c] = "readback" /\ at'[c] \in {"reload", "failed"}
        BY <1>1, <3>3 DEF ReadBack, Goto
      <4>2. (Alone(c)' => Alone(c)) /\ at'[c] # "return" /\ \A t : Home(t)' = Home(t)
        BY <4>1 DEF Alone, Home
      <4>3. QED
        BY <2>1, <2>6, <4>1, <4>2, EffectStays
    <3>4. CASE ~WriteStep(c) /\ ~ReloadPolicies(c) /\ ~ReadBack(c)
      <4>1. at'[c] \notin {"readback", "reload", "return"}
        BY <1>1, <1>2, <3>4
        DEF CallStep, ApplyPolicy, UpsertPolicy, Write, NotWritten, DeletePolicy, AfterWrite,
          CompileCheckWithout, DeleteRow, Return, Goto, WriteStep, KeepsWrite
      <4>2. QED
        BY <2>6, <4>1 DEF NoneOlder, InEffect, Alone
    <3>5. QED
      BY <3>1, <3>2, <3>3, <3>4
  <2>7. QED
    BY <2>5, <2>6
<1>3. ASSUME NEW r \in Replicas, Start(r) \/ Sync(r)
      PROVE  NoneOlder(d)' /\ InEffect(d)'
  <2>1. /\ UNCHANGED <<call, built, engine>> /\ at'[d] = at[d]
    BY <1>1, <1>3, ConstantsAssumption DEF Start, Sync, Goto
  <2>2. Alone(d)' = Alone(d) /\ \A t : Home(t)' = Home(t)
    BY <2>1 DEF Alone, Home
  <2>3. QED
    BY <2>1, <2>2, EffectStays
<1>4. ASSUME NEW r \in Replicas, Crash(r)
      PROVE  NoneOlder(d)' /\ InEffect(d)'
  <2>1. /\ call' = call
        /\ \A t \in Threads : built'[t] = <<>> \/ built'[t] = built[t]
        /\ at'[d] = at[d] \/ at'[d] \in {"down", "failed"}
        /\ Home(d) = r => at'[d] \notin {"readback", "reload", "return"}
        /\ Home(d) # r => engine'[Home(d)] = engine[Home(d)]
    BY <1>1, <1>4 DEF Crash
  <2>2. \A t : Home(t)' = Home(t)
    BY <2>1 DEF Home
  <2>3. Alone(d)' => Alone(d) /\ at'[d] = at[d] /\ engine'[Home(d)] = engine[Home(d)]
    BY <2>1 DEF Alone
  <2>4. QED
    BY <2>1, <2>2, <2>3, EffectStays
<1>5. CASE UNCHANGED vars
  <2>1. UNCHANGED <<call, built, engine, at>>
    BY <1>5 DEF vars
  <2>2. Alone(d)' = Alone(d) /\ \A t : Home(t)' = Home(t)
    BY <2>1 DEF Alone, Home
  <2>3. QED
    BY <2>1, <2>2, EffectStays
<1>6. QED
  BY <1>1, <1>2, <1>3, <1>4, <1>5, EffectReload DEF Next, ReplicaStep

-----------------------------------------------------------------------------
(* Theorems *)

LEMMA PolicyInit == Init => PolicyInv
<1> SUFFICES ASSUME Init
             PROVE  PolicyInv
  OBVIOUS
<1>1. policies \in FirstTables
  BY DEF Init
<1>2. /\ policies \subseteq {p \in Policies : p.id = p.name}
      /\ \A p, q \in policies : p.name = q.name => p = q
  BY <1>1, ConstantsAssumption
<1>3. NoCall \in Call
  BY ConstantsAssumption DEF NoCall, Call, Ops
<1>4. TypeOK
  <2>1. /\ call \in [Calls -> Call] /\ at \in [Threads -> Steps]
        /\ failures \in 0 .. MaxFailures /\ version \in Nat
    BY <1>3, ConstantsAssumption DEF Init, Steps
  <2>2. /\ built \in [Threads -> Seq(Queries)] /\ engine \in [Replicas -> Seq(Queries)]
        /\ \A t \in Threads : Len(built[t]) <= Len(QueryTypes)
        /\ \A r \in Replicas : ~Loaded(r)
    BY DEF Init, QueryTypes, Loaded
  <2>3. QED
    BY <1>2, <2>1, <2>2 DEF TypeOK
<1>5. IdsOK
  <2>1. \A p \in policies : p.id \in Names /\ p.id \notin Calls
    BY <1>2, ConstantsAssumption DEF Policies
  <2>2. QED
    BY <1>2, <2>1 DEF IdsOK
<1>6. CheckedOK
  BY DEF Init, CheckedOK, Checked, NoCall, Threads
<1>7. BuiltOK
  <2>1. /\ \A t \in Threads : built[t] = <<>>
        /\ \A r \in Replicas : engine[r] = <<>>
    BY DEF Init
  <2>2. \A c \in Calls : call[c].wrote <= version /\ built[c] = <<>>
    BY DEF Init, NoCall, Threads
  <2>3. \A c \in Calls : Fresh(c)
    BY <2>2 DEF Fresh
  <2>4. QED
    BY <2>1, <2>3, OrderedNone DEF BuiltOK
<1>8. EffectOK
  BY DEF Init, EffectOK, NoneOlder, InEffect, Alone, Threads
<1>9. QED
  BY <1>4, <1>5, <1>6, <1>7, <1>8 DEF PolicyInv

\* The invariant holds in every reachable state.
LEMMA PolicyAlways == Spec => []PolicyInv
<1>1. PolicyInv /\ [Next]_vars => PolicyInv'
  <2> SUFFICES ASSUME PolicyInv, [Next]_vars
               PROVE  PolicyInv'
    OBVIOUS
  <2>1. TypeOK'
    BY TypeStep DEF PolicyInv
  <2>2. IdsOK'
    BY IdsStep
  <2>3. CheckedOK'
    BY CheckedStep
  <2>4. BuiltOK'
    BY BuiltStep
  <2>5. EffectOK'
    BY EffectStep
  <2>6. QED
    BY <2>1, <2>2, <2>3, <2>4, <2>5 DEF PolicyInv
<1>2. QED
  BY <1>1, PolicyInit, PTL DEF Spec

\* A write that was checked against the table as it is, and takes no enabled policy out
\* of its type's set, leaves a table that compiles.
LEMMA CheckedWrite ==
  ASSUME PolicyInv, NEW c \in Calls, WriteStep(c), TableCompilesNow,
         call[c].checked = version, ~TakesOut(c)
  PROVE  TableCompilesNow'
<1>1. /\ TypeOK /\ policies \subseteq Policies /\ IdsOK /\ Checked(c) /\ at[c] = "write"
      /\ \A type \in Types : Compiles(ModulesOf(Enabled(type)))
  BY DEF PolicyInv, TypeOK, CheckedOK, WriteStep, TableCompilesNow
<1>2. PICK p \in Policies : call[c].row = {p}
  BY <1>1 DEF Checked
<1>3. Compiles(Remaining(c, p))
  BY <1>1, <1>2 DEF Checked
<1>4. SUFFICES ASSUME NEW type \in Types
               PROVE  \/ ModulesOf(Enabled(type)') = ModulesOf(Enabled(type))
                      \/ ModulesOf(Enabled(type)') = Remaining(c, p)
  BY <1>1, <1>3 DEF TableCompilesNow
<1>5. CASE call[c].op = "delete" /\ policies' = Deleted(p)
  <2>1. Enabled(type)' = {q \in Enabled(type) : q.id # p.id}
    BY <1>5 DEF Enabled, Deleted
  <2>2. CASE type = p.type
    BY <1>5, <2>1, <2>2 DEF Remaining
  <2>3. CASE type # p.type
    <3>1. p \in policies
      BY <1>1, <1>2, <1>5 DEF Checked
    <3>2. \A q \in Enabled(type) : q.id # p.id
      BY <1>1, <2>3, <3>1 DEF Enabled, IdsOK
    <3>3. QED
      BY <2>1, <3>2
  <2>4. QED
    BY <2>2, <2>3
<1>6. CASE call[c].op = "apply" /\ policies' = Upserted(p)
  <2>1. PICK id \in Names \cup Calls :
          policies' = {q \in policies : q.name # p.name} \cup {[p EXCEPT !.id = id]}
    BY <1>1, <1>6, UpsertedRows
  <2> DEFINE new == [p EXCEPT !.id = id]
  <2>2. /\ new.name = p.name /\ new.rego = p.rego /\ new.type = p.type
        /\ new.enabled = p.enabled
    BY DEF Policies
  <2>3. policies' = {q \in policies : q.name # p.name} \cup {new}
    BY <2>1
  <2> HIDE DEF new
  <2>4. \A q \in policies : q.name = p.name /\ q.enabled => p.enabled /\ p.type = q.type
    BY <1>2, <1>6 DEF TakesOut
  <2>5. CASE p.enabled /\ type = p.type
    <3>1. Enabled(type)' = {q \in Enabled(type) : q.name # p.name} \cup {new}
      BY <2>2, <2>3, <2>5 DEF Enabled
    <3>2. ModulesOf(Enabled(type)') = ModulesOf({q \in Enabled(type) : q.name # p.name} \cup {p})
      BY <2>2, <3>1 DEF ModulesOf
    <3>3. Remaining(c, p) = ModulesOf({q \in Enabled(p.type) : q.name # p.name} \cup {p})
      BY <1>6, <2>5 DEF Remaining, CheckedModules
    <3>4. QED
      BY <2>5, <3>2, <3>3
  <2>6. CASE ~(p.enabled /\ type = p.type)
    <3>1. \A q \in Enabled(type) : q.name # p.name
      BY <2>4, <2>6 DEF Enabled
    <3>2. Enabled(type)' = Enabled(type)
      BY <2>2, <2>3, <2>6, <3>1 DEF Enabled, Policies
    <3>3. QED
      BY <3>2
  <2>7. QED
    BY <2>5, <2>6
<1>7. QED
  BY <1>2, <1>5, <1>6 DEF WriteStep

\* Every variable of the policy engine keeps its type, and a name has one row.
THEOREM TypesAlways == Spec => []TypeOK
<1>1. PolicyInv => TypeOK
  BY DEF PolicyInv
<1>2. QED
  BY <1>1, PolicyAlways, PTL

\* What a replica evaluates was compiled by one Reload, however reloads overlap.
THEOREM SwapAlwaysWhole == Spec => []SwapIsWhole
<1>1. PolicyInv => SwapIsWhole
  <2> SUFFICES ASSUME PolicyInv, NEW r \in Replicas, Loaded(r)
               PROVE  /\ \A i \in DOMAIN QueryTypes : Compiles(engine[r][i].modules)
                      /\ \A i, j \in DOMAIN QueryTypes :
                           i < j => engine[r][i].version <= engine[r][j].version
    BY DEF SwapIsWhole
  <2>1. DOMAIN QueryTypes = 1 .. Len(engine[r])
    BY DEF PolicyInv, TypeOK, QueryTypes
  <2>2. QED
    BY <2>1 DEF PolicyInv, BuiltOK, Ordered
<1>2. QED
  BY <1>1, PolicyAlways, PTL

\* The checks of ApplyPolicy and DeletePolicy keep the table compilable, except for
\* writes in between and for policies that are disabled or given another type.
THEOREM CheckedWritesCompile == Spec => CheckedWriteCompiles
<1> DEFINE Kept == TableCompilesNow =>
                     \/ TableCompilesNow'
                     \/ \E c \in Calls :
                          /\ call'[c].wrote # call[c].wrote
                          /\ call[c].checked # version \/ TakesOut(c)
<1>1. PolicyInv /\ [Next]_vars => [Kept]_vars
  <2> SUFFICES ASSUME PolicyInv, Next, TableCompilesNow
               PROVE  Kept
    OBVIOUS
  <2>1. CASE policies' = policies
    BY <2>1 DEF TableCompilesNow, Enabled
  <2>2. ASSUME NEW c \in Calls, WriteStep(c)
        PROVE  Kept
    <3>1. call[c].wrote <= version /\ call[c].wrote \in Nat /\ version \in Nat
      BY DEF PolicyInv, BuiltOK, Fresh, TypeOK, Call
    <3>2. call'[c].wrote = version + 1
      BY <2>2, WroteCall DEF PolicyInv
    <3>3. QED
      BY <2>2, <3>1, <3>2, CheckedWrite
  <2>3. ASSUME NEW c \in Calls, CallStep(c)
        PROVE  Kept
    <3>1. TypeOK
      BY DEF PolicyInv
    <3>2. QED
      BY <2>1, <2>2, <2>3, <3>1, CallFrame
  <2>4. ASSUME NEW r \in Replicas, ReplicaStep(r) \/ Crash(r)
        PROVE  Kept
    BY <2>1, <2>4, ReplicaFrame DEF PolicyInv
  <2>5. QED
    BY <2>3, <2>4 DEF Next
<1>2. QED
  BY <1>1, PolicyAlways, PTL DEF Spec, CheckedWriteCompiles


\* Only Return lets a call return without an error.
LEMMA ReturnStep ==
  ASSUME TypeOK, NEW c \in Calls, Next, at[c] # "ok", at'[c] = "ok"
  PROVE  Return(c)
<1>1. at \in [Threads -> Steps] /\ c \in Threads /\ c \notin Replicas
  BY ConstantsAssumption DEF TypeOK, Threads
<1>2. ASSUME NEW d \in Calls, CallStep(d)
      PROVE  Return(c)
  <2>1. d = c
    BY <1>1, <1>2, CallFrame
  <2>2. CASE ~Return(c)
    BY <1>1, <1>2, <2>1, <2>2
    DEF CallStep, ApplyPolicy, UpsertPolicy, Write, AfterWrite, NotWritten, ReadBack, DeletePolicy,
      CompileCheckWithout, DeleteRow, ReloadPolicies, BuildQuery, ReloadError, Install, Goto
  <2>3. QED
    BY <2>2
<1>3. ASSUME NEW r \in Replicas, ReplicaStep(r) \/ Crash(r)
      PROVE  FALSE
  BY <1>1, <1>3, ReplicaFrame
<1>4. QED
  BY <1>2, <1>3 DEF Next

\* A policy RPC that returns without an error leaves its replica on queries no older than
\* what it asked for, whatever is installed between its own swap and its return, unless a
\* reload of that replica was already reading when it wrote.
THEOREM AlwaysEffectiveUnlessOverlapped == Spec => EffectiveUnlessOverlapped
<1> DEFINE Returns == \A c \in Calls :
             at[c] # "ok" /\ at'[c] = "ok" => Effective(c)' \/ call[c].overlapped
<1>1. PolicyInv /\ [Next]_vars => [Returns]_vars
  <2> SUFFICES ASSUME PolicyInv, Next, NEW c \in Calls, at[c] # "ok", at'[c] = "ok",
                      ~call[c].overlapped
               PROVE  Effective(c)'
    OBVIOUS
  <2>1. Return(c)
    BY ReturnStep DEF PolicyInv
  <2>2. Home(c) \in Replicas
    BY ConstantsAssumption DEF Home, PolicyInv, TypeOK, Call
  <2>3. at[c] = "return" /\ engine' = engine /\ Home(c)' = Home(c) /\ Asked(c)' = Asked(c)
    BY <2>1 DEF Return, Home, Asked
  <2>4. Loaded(Home(c)) /\ NotOlder(engine[Home(c)], Asked(c))
    BY <2>3 DEF PolicyInv, EffectOK, InEffect, Alone
  <2>5. DOMAIN QueryTypes = 1 .. Len(engine[Home(c)])
    BY <2>2, <2>4 DEF PolicyInv, TypeOK, QueryTypes
  <2>6. QED
    BY <2>3, <2>4, <2>5 DEF Effective, NotOlder
<1>2. QED
  BY <1>1, PolicyAlways, PTL DEF Spec, EffectiveUnlessOverlapped
=============================================================================
