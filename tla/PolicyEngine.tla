---------------------------- MODULE PolicyEngine ----------------------------
(***************************************************************************)
(* The policies table and the compiled policies that every replica of the  *)
(* server keeps: store/policies.go, policy/policy.go, the policy RPCs of   *)
(* api/api.go, and the start-up reload and the periodic sync of server.go. *)
(*                                                                         *)
(* A thread is an RPC, or the goroutine of a replica that loads its        *)
(* policies at the start and again every 30 seconds. Every statement is a  *)
(* transaction of its own: a reload reads the table three times, and the   *)
(* check of a change, the change and the reload after it are separate.     *)
(***************************************************************************)
EXTENDS Naturals, Sequences

CONSTANTS
  Replicas,     \* server processes
  Calls,        \* policy RPCs; each runs once and is the id of the row it inserts
  Names,        \* policy names; those of the first table are their rows' ids as well
  Regos,        \* policy sources
  Inputs,       \* what ApplyPolicy may be given
  FirstTables,  \* what the policies table may hold at the start
  Uncompilable, \* the sets of modules that OPA does not compile together
  MaxFailures   \* how many statements fail and replicas crash in all

Types == {"eligibility", "approval"}

\* A row gets its id when it is inserted.
Policies == [id : Names \cup Calls, name : Names, type : Types, rego : Regos,
             enabled : BOOLEAN]

\* What is compiled: OPA identifies a module by its policy's name.
Modules == [name : Names, rego : Regos]

ModulesOf(rows) == {[name |-> p.name, rego |-> p.rego] : p \in rows}

ASSUME CompilableAssumption ==
  /\ Uncompilable \subseteq SUBSET Modules
  /\ {} \notin Uncompilable  \* compileModules puts a default denial in its place

ASSUME ConstantsAssumption ==
  /\ Replicas # {} /\ Calls \cap (Replicas \cup Names) = {}
  /\ MaxFailures \in Nat
  /\ Inputs \subseteq Policies
  /\ \A rows \in FirstTables :
       /\ rows \subseteq {p \in Policies : p.id = p.name}
       /\ \A p, q \in rows : p.name = q.name => p = q
       /\ \A type \in Types :
            ModulesOf({p \in rows : p.type = type /\ p.enabled}) \notin Uncompilable

VARIABLES
  policies,  \* the rows of the policies table
  version,   \* history: how often the table was written
  engine,    \* the queries each replica evaluates, <<>> before the first reload
  at,        \* the next step of each thread
  built,     \* the queries its reload has compiled so far
  call,      \* the input of each RPC, and what it has done
  failures   \* failures so far

vars == <<policies, version, engine, at, built, call, failures>>

-----------------------------------------------------------------------------
(* The table *)

\* ListEnabledPoliciesByType
Enabled(type) == {p \in policies : p.type = type /\ p.enabled}

Compiles(modules) == modules \notin Uncompilable

\* UpsertPolicy: the row of that name is updated and keeps its id.
Upserted(p) ==
  LET old == {q \in policies : q.name = p.name}
  IN (policies \ old) \cup
     IF old = {} THEN {p} ELSE {[p EXCEPT !.id = q.id] : q \in old}

Deleted(p) == {q \in policies : q.id # p.id}

-----------------------------------------------------------------------------
(* Threads *)

Threads == Calls \cup Replicas

Steps == {"idle", "check", "write", "readback", "reload", "return", "ok", "refused", "failed",
          "wait", "down"}

Ops == {"none", "apply", "delete", "reload"}

\* "row" is the input of ApplyPolicy or the row that DeletePolicy has found, "checked"
\* and "wrote" (histories) the versions at its first read and after its write, and
\* "overlapped" (history) whether a reload of its replica was reading when it wrote or,
\* for ReloadPolicies, when it came.
Call == [op : Ops, replica : Replicas, row : SUBSET Policies, checked : Nat, wrote : Nat,
         overlapped : BOOLEAN]

NoCall == [op |-> "none", replica |-> CHOOSE r \in Replicas : TRUE, row |-> {},
           checked |-> 0, wrote |-> 0, overlapped |-> FALSE]

Home(t) == IF t \in Replicas THEN t ELSE call[t].replica

Loaded(r) == engine[r] # <<>>

\* A reload of the replica has read the table, and has not ended.
Reading(r) == \E t \in Threads : Home(t) = r /\ built[t] # <<>>

Goto(t, step) == at' = [at EXCEPT ![t] = step]

\* A statement fails, or its context ends.
StoreFails == failures < MaxFailures /\ failures' = failures + 1

Begin(c, op, r, row) ==
  /\ at[c] = "idle" /\ Loaded(r)
  /\ call' = [call EXCEPT ![c] =
       [op |-> op, replica |-> r, row |-> row, checked |-> version, wrote |-> 0,
        overlapped |-> op = "reload" /\ Reading(r)]]

-----------------------------------------------------------------------------
(* ApplyPolicy *)

\* Faulty variant: the policy of that name stays in the set.
CheckedModulesBoth(p) == ModulesOf(Enabled(p.type) \cup {q \in {p} : q.enabled})

\* CompileCheck: a proposed policy that is disabled takes nothing out of the set.
CheckedModules(p) ==
  IF p.enabled
  THEN ModulesOf({q \in Enabled(p.type) : q.name # p.name} \cup {p})
  ELSE ModulesOf(Enabled(p.type))

ApplyPolicy(c) ==
  \E r \in Replicas, p \in {[input EXCEPT !.id = c] : input \in Inputs} :
    /\ Begin(c, "apply", r, {p})
    /\ \/ /\ IF Compiles(CheckedModules(p)) THEN Goto(c, "write") ELSE Goto(c, "refused")
          /\ UNCHANGED failures
       \/ StoreFails /\ Goto(c, "refused")
    /\ UNCHANGED <<policies, version, engine, built>>

\* Faulty variant: DeletePolicy does not reload.
AfterWriteNoReload(c) == IF call[c].op = "apply" THEN "readback" ELSE "return"

AfterWrite(c) == IF call[c].op = "apply" THEN "readback" ELSE "reload"

\* The table is written; the reply may be lost.
Write(c, rows) ==
  /\ policies' = rows
  /\ version' = version + 1
  /\ call' = [call EXCEPT ![c].wrote = version + 1, ![c].overlapped = Reading(Home(c))]
  /\ \/ Goto(c, AfterWrite(c)) /\ UNCHANGED failures
     \/ StoreFails /\ Goto(c, "failed")

NotWritten(c) == StoreFails /\ Goto(c, "failed") /\ UNCHANGED <<policies, version, call>>

UpsertPolicy(c) ==
  /\ at[c] = "write" /\ call[c].op = "apply"
  /\ \/ \E p \in call[c].row : Write(c, Upserted(p))
     \/ NotWritten(c)
  /\ UNCHANGED <<engine, built>>

\* UpsertPolicy ends with GetPolicyByName; without a row, the call returns an error and
\* does not reload.
ReadBack(c) ==
  /\ at[c] = "readback"
  /\ \/ /\ IF \E p \in policies, q \in call[c].row : p.name = q.name
           THEN Goto(c, "reload") ELSE Goto(c, "failed")
        /\ UNCHANGED failures
     \/ StoreFails /\ Goto(c, "failed")
  /\ UNCHANGED <<policies, version, engine, built, call>>

-----------------------------------------------------------------------------
(* DeletePolicy and ReloadPolicies *)

DeletePolicy(c) ==
  \E r \in Replicas, p \in policies :
    /\ Begin(c, "delete", r, {p})
    /\ Goto(c, "check")
    /\ UNCHANGED <<policies, version, engine, built, failures>>

\* The type is the one that DeletePolicy has read.
CompileCheckWithout(c) ==
  /\ at[c] = "check"
  /\ \/ /\ \E p \in call[c].row :
             IF Compiles(ModulesOf({q \in Enabled(p.type) : q.id # p.id}))
             THEN Goto(c, "write") ELSE Goto(c, "refused")
        /\ UNCHANGED failures
     \/ StoreFails /\ Goto(c, "refused")
  /\ UNCHANGED <<policies, version, engine, built, call>>

DeleteRow(c) ==
  /\ at[c] = "write" /\ call[c].op = "delete"
  /\ \/ \E p \in call[c].row :
          \/ \E q \in policies : q.id = p.id /\ Write(c, Deleted(p))
          \/ /\ \A q \in policies : q.id # p.id
             /\ Goto(c, "refused") /\ UNCHANGED <<policies, version, call, failures>>
     \/ NotWritten(c)
  /\ UNCHANGED <<engine, built>>

ReloadPolicies(c) ==
  \E r \in Replicas :
    /\ Begin(c, "reload", r, {})
    /\ Goto(c, "reload")
    /\ UNCHANGED <<policies, version, engine, built, failures>>

-----------------------------------------------------------------------------
(* Reload *)

\* The eligibility query, the approval query and the approval tier query.
QueryTypes == <<"eligibility", "approval", "approval">>

Queries == [modules : SUBSET Modules, version : Nat]

\* Faulty variant: the sync loop ends at its first error.
ReloadErrorEndsLoop(t) == IF t \in Calls \/ Loaded(t) THEN "failed" ELSE "down"

\* An RPC returns the error, the sync logs it and waits, a server that starts exits.
ReloadError(t) ==
  IF t \in Calls THEN "failed" ELSE IF Loaded(t) THEN "wait" ELSE "down"

\* buildQuery: one read of the table and one compilation.
BuildQuery(t) ==
  /\ at[t] = "reload" /\ Len(built[t]) < Len(QueryTypes)
  /\ LET modules == ModulesOf(Enabled(QueryTypes[Len(built[t]) + 1]))
     IN \/ /\ Compiles(modules)
           /\ built' = [built EXCEPT ![t] =
                Append(@, [modules |-> modules, version |-> version])]
           /\ UNCHANGED <<at, failures>>
        \/ /\ (~Compiles(modules) /\ UNCHANGED failures) \/ StoreFails
           /\ Goto(t, ReloadError(t))
           /\ built' = [built EXCEPT ![t] = <<>>]
  /\ UNCHANGED <<policies, version, engine, call>>

\* Faulty variant: the tier query is not swapped.
SwappedButTier(t) ==
  IF Loaded(Home(t)) THEN SubSeq(built[t], 1, 2) \o SubSeq(engine[Home(t)], 3, 3)
  ELSE built[t]

Swapped(t) == built[t]

\* The three queries are swapped under the lock. The RPC has yet to return: other
\* reloads may swap theirs before it does.
Install(t) ==
  /\ at[t] = "reload" /\ Len(built[t]) = Len(QueryTypes)
  /\ engine' = [engine EXCEPT ![Home(t)] = Swapped(t)]
  /\ built' = [built EXCEPT ![t] = <<>>]
  /\ Goto(t, IF t \in Calls THEN "return" ELSE "wait")
  /\ UNCHANGED <<policies, version, call, failures>>

\* ReloadPolicies lists the policies that it has loaded before it returns.
Return(c) ==
  /\ at[c] = "return"
  /\ \/ Goto(c, "ok") /\ UNCHANGED failures
     \/ call[c].op = "reload" /\ StoreFails /\ Goto(c, "failed")
  /\ UNCHANGED <<policies, version, engine, built, call>>

-----------------------------------------------------------------------------
(* Replicas *)

\* The ticker of the periodic sync fires.
Sync(r) ==
  /\ at[r] = "wait"
  /\ Goto(r, "reload")
  /\ UNCHANGED <<policies, version, engine, built, call, failures>>

Start(r) ==
  /\ at[r] = "down"
  /\ Goto(r, "reload")
  /\ UNCHANGED <<policies, version, engine, built, call, failures>>

\* A replica dies with the RPCs it is serving.
Crash(r) ==
  LET lost == {t \in Threads : at[t] \notin {"idle", "ok", "refused", "failed"} /\ Home(t) = r}
  IN /\ at[r] # "down" /\ StoreFails
     /\ at' = [t \in Threads |-> IF t = r THEN "down" ELSE IF t \in lost THEN "failed" ELSE at[t]]
     /\ built' = [t \in Threads |-> IF t \in lost THEN <<>> ELSE built[t]]
     /\ engine' = [engine EXCEPT ![r] = <<>>]
     /\ UNCHANGED <<policies, version, call>>

Init ==
  /\ policies \in FirstTables
  /\ version = 0
  /\ engine = [r \in Replicas |-> <<>>]
  /\ at = [t \in Threads |-> IF t \in Calls THEN "idle" ELSE "down"]
  /\ built = [t \in Threads |-> <<>>]
  /\ call = [c \in Calls |-> NoCall]
  /\ failures = 0

CallStep(c) ==
  \/ ApplyPolicy(c) \/ UpsertPolicy(c) \/ ReadBack(c)
  \/ DeletePolicy(c) \/ CompileCheckWithout(c) \/ DeleteRow(c)
  \/ ReloadPolicies(c) \/ BuildQuery(c) \/ Install(c) \/ Return(c)

ReplicaStep(r) == Start(r) \/ Sync(r) \/ BuildQuery(r) \/ Install(r)

Next ==
  \/ \E c \in Calls : CallStep(c)
  \/ \E r \in Replicas : ReplicaStep(r) \/ Crash(r)

Spec == Init /\ [][Next]_vars

\* A replica that runs goes on, its sync's ticker never stops, and one that is down is
\* started again. Nothing is assumed of callers and of failures.
FairSpec == Spec /\ \A r \in Replicas : WF_vars(ReplicaStep(r))

-----------------------------------------------------------------------------
(* Properties *)

\* Every variable keeps its type, and a name has one row.
TypeOK ==
  /\ policies \subseteq Policies
  /\ \A p, q \in policies : p.name = q.name => p = q
  /\ version \in Nat
  /\ engine \in [Replicas -> Seq(Queries)]
  /\ \A r \in Replicas : Loaded(r) => Len(engine[r]) = Len(QueryTypes)
  /\ at \in [Threads -> Steps]
  /\ built \in [Threads -> Seq(Queries)]
  /\ \A t \in Threads : Len(built[t]) <= Len(QueryTypes)
  /\ call \in [Calls -> Call]
  /\ failures \in 0 .. MaxFailures

TableCompilesNow == \A type \in Types : Compiles(ModulesOf(Enabled(type)))

\* The row of a policy that is enabled leaves its type's set.
TakesOut(c) ==
  /\ call[c].op = "apply"
  /\ \E p \in call[c].row, q \in policies :
       p.name = q.name /\ q.enabled /\ (~p.enabled \/ p.type # q.type)

\* The check before a write (CompileCheck, CompileCheckWithout) keeps the table
\* compilable unless another call wrote between its first read and its write, or it is
\* an ApplyPolicy that takes an enabled policy out of its type's set.
CheckedWriteCompiles ==
  [][TableCompilesNow =>
       \/ TableCompilesNow'
       \/ \E c \in Calls :
            /\ call'[c].wrote # call[c].wrote
            /\ call[c].checked # version \/ TakesOut(c)]_vars

\* The version of the table that a call is to put into effect: what it wrote, or what
\* was there when ReloadPolicies came.
Asked(c) == IF call[c].op = "reload" THEN call[c].checked ELSE call[c].wrote

Effective(c) == \A i \in DOMAIN QueryTypes : engine[Home(c)][i].version >= Asked(c)

\* An RPC that returns without an error leaves its replica with queries that hold what
\* it wrote, unless a reload of that replica had read the table before the write and
\* ended after it. Reloads and writes that begin later, here or on other replicas, take
\* nothing back.
EffectiveUnlessOverlapped ==
  [][\A c \in Calls :
       at[c] # "ok" /\ at'[c] = "ok" => Effective(c)' \/ call[c].overlapped]_vars

\* However reloads of one replica overlap, what it evaluates comes from one of them:
\* queries that compile, of versions in the order in which a reload reads them.
SwapIsWhole ==
  \A r \in Replicas : Loaded(r) =>
    /\ \A i \in DOMAIN QueryTypes : Compiles(engine[r][i].modules)
    /\ \A i, j \in DOMAIN QueryTypes : i < j => engine[r][i].version <= engine[r][j].version

UpToDate(r) ==
  /\ Loaded(r)
  /\ \A i \in DOMAIN QueryTypes : engine[r][i].modules = ModulesOf(Enabled(QueryTypes[i]))

\* Whatever overlaps, fails and crashes, once the table compiles for good every replica
\* comes to evaluate exactly what it holds, and never falls back to an older set.
ReplicasConverge == <>[]TableCompilesNow => \A r \in Replicas : <>[]UpToDate(r)
=============================================================================
