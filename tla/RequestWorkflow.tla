-------------------------- MODULE RequestWorkflow --------------------------
(***************************************************************************)
(* The elevation request workflow of jitsudo: the RPC handlers of          *)
(* workflow.Engine and the expiry sweepers of every jitsudod replica, over *)
(* the PostgreSQL row of each request, the provider that holds the granted *)
(* access and the audit log.                                               *)
(*                                                                         *)
(* A call is one RPC. It runs as the code does, one step per database      *)
(* transaction, provider call or audit append, and any step of another     *)
(* call or of a sweeper may come between two of its steps. A step that can *)
(* fail in the code may fail here, and any call or sweep can stop for good *)
(* between two steps (its context is cancelled or its server crashes).     *)
(*                                                                         *)
(* Time enters only through "elapsed": the requests whose granted window   *)
(* has passed on the database's clock. Durations are arbitrary, so windows *)
(* may pass in any order.                                                  *)
(***************************************************************************)
EXTENDS Naturals, Sequences, FiniteSets

CONSTANTS
  Requests,    \* request identifiers (ULIDs; a fresh one for every CreateRequest)
  Calls,       \* RPCs, each handled once
  Sweepers,    \* jitsudod replicas, each with an expiry sweeper
  Users,       \* authenticated human identities
  Admins,      \* those in the group jitsudo-admins
  Agent,       \* the identity of the MCP approver agent
  Null,        \* no request, no identity, no lock holder
  Ops,         \* the RPCs the instance exercises
  MayFail,     \* the kinds of failure the instance exercises
  MaxFailures  \* bound: the number of failures in a behaviour

ASSUME IdentityAssumption ==
  /\ Admins \subseteq Users
  /\ Agent \notin Users
  /\ Null \notin Requests \cup Users \cup Sweepers \cup {Agent}
  /\ {"policy", "break-glass"} \cap (Users \cup {Agent, Null}) = {}

VARIABLES
  row,        \* the elevation_requests table
  elapsed,    \* requests whose expires_at is in the past
  call,       \* what each RPC is doing
  sweeper,    \* what each replica's sweeper is doing
  sweepLock,  \* the holder of the PostgreSQL advisory lock
  access,     \* requests whose access exists at the provider
  trail,      \* the audit entries of each request, in the order of the log
  alerted,    \* requests whose break-glass alert was dispatched
  issued,     \* history: times the provider granted the request
  decided,    \* history: who a policy or an agent decision let approve it
  failed      \* history: which kinds of failure hit the request

vars == <<row, elapsed, call, sweeper, sweepLock, access, trail, alerted,
          issued, decided, failed>>

-----------------------------------------------------------------------------
(* Types *)

States == {"ABSENT", "PENDING", "APPROVED", "REJECTED", "ACTIVE", "EXPIRED", "REVOKED"}

Terminal == {"REVOKED", "EXPIRED", "REJECTED"}

Tiers == {"auto", "ai_review", "human"}

Actors == Users \cup {Agent}

Approvers == Actors \cup {"policy", "break-glass", Null}

\* The break_glass column.
Kinds == {"standard", "break_glass"}

\* RequestRow, without what neither a transition nor a property reads.
Row == [state: States, kind: Kinds, requester: Users \cup {Null}, tier: Tiers,
        approver: Approvers]

NoRow == [state |-> "ABSENT", kind |-> "standard", requester |-> Null, tier |-> "human",
          approver |-> Null]

AllOps == {"create", "auto", "break_glass", "approve", "ai_approve", "deny",
           "ai_deny", "ai_escalate", "revoke"}

\* Where a handler stands: the step it takes next.
CallSteps == {"idle", "logCreated", "alert", "selfApprove", "eval", "rollback",
              "logApproved", "grant", "activate", "logIssued", "logDenied",
              "logEscalated", "revoke", "providerRevoke", "logRevoked", "done"}

Call == [at: CallSteps, op: AllOps \cup {"none"}, req: Requests \cup {Null},
         actor: Actors \cup {Null}]

NoCall == [at |-> "idle", op |-> "none", req |-> Null, actor |-> Null]

Returned == [NoCall EXCEPT !.at = "done"]

SweepSteps == {"idle", "list", "sweep", "expire", "log"}

Sweep == [at: SweepSteps, todo: SUBSET Requests, cur: Requests \cup {Null}]

NoSweep == [at |-> "idle", todo |-> {}, cur |-> Null]

Entries == {"request.created", "request.approved", "request.auto_approved",
            "request.ai_approved", "request.denied", "request.ai_denied",
            "request.ai_escalated", "grant.issued", "grant.revoked", "grant.expired"}

\* db: a statement or its re-read; abort: the handler or sweep stops; lock: the
\* advisory lock's session is lost while its sweep goes on.
Failures == {"db", "provider", "audit", "abort", "lock"}

\* Faulty variant: the agent's approval is logged under the escalation's name.
ApprovedEntryMisnamed(op) ==
  CASE op = "auto" -> "request.auto_approved"
    [] op = "ai_approve" -> "request.ai_escalated"
    [] OTHER -> "request.approved"

\* Faulty variant: the handler's name is logged instead of an action constant.
ApprovedEntryRaw(op) == op

\* The audit entry an approval writes, by the handler that made it.
ApprovedEntry(op) ==
  CASE op = "auto" -> "request.auto_approved"
    [] op = "ai_approve" -> "request.ai_approved"
    [] OTHER -> "request.approved"

DeniedEntry(op) == IF op = "ai_deny" THEN "request.ai_denied" ELSE "request.denied"

-----------------------------------------------------------------------------
(* Steps shared by the handlers *)

\* Each kind of failure hits a request at most once, MaxFailures in all.
Fails(r, kind) ==
  /\ kind \in MayFail
  /\ <<r, kind>> \notin failed
  /\ Cardinality(failed) < MaxFailures
  /\ failed' = failed \cup {<<r, kind>>}

HitBy(r, kinds) == \E k \in kinds : <<r, k>> \in failed

At(c, step) == call[c].at = step

\* The RPC has arrived and no handler has run for it yet.
Arrives(c, op) == op \in Ops /\ At(c, "idle")

Enter(c, op, r, actor, step) ==
  call' = [call EXCEPT ![c] = [at |-> step, op |-> op, req |-> r, actor |-> actor]]

Goto(c, step) == call' = [call EXCEPT ![c].at = step]

\* The handler returns, with a result or an error.
Return(c) == call' = [call EXCEPT ![c] = Returned]

\* Faulty variant: the row is updated whatever state the lock found it in.
InStateUnchecked(r, from) == row[r].state # "ABSENT"

\* The row lock is held and the row is in the state the transition starts from.
InState(r, from) == row[r].state = from

\* TransitionRequest: the row is locked, checked, updated and committed in one
\* transaction, then read again outside it. "Reaches" is the continuation when it
\* returns a row, "Returns" when it returns an error, which may come after the commit.
Transition(r, from, new, Reaches, Returns) ==
  \/ /\ InState(r, from)
     /\ row' = [row EXCEPT ![r] = new]
     /\ \/ Reaches /\ UNCHANGED failed
        \/ Returns /\ Fails(r, "db")
  \/ /\ UNCHANGED row
     /\ Returns
     /\ \/ ~InState(r, from) /\ UNCHANGED failed
        \/ Fails(r, "db")

\* appendAudit: a failure is logged and the handler goes on.
AppendAudit(r, entry) ==
  \/ trail' = [trail EXCEPT ![r] = Append(@, entry)] /\ UNCHANGED failed
  \/ UNCHANGED trail /\ Fails(r, "audit")

\* Provider.Grant: on an error the access may or may not exist.
ProviderGrant(r, Granted, Refused) ==
  \/ /\ access' = access \cup {r}
     /\ issued' = [issued EXCEPT ![r] = @ + 1]
     /\ \/ Granted /\ UNCHANGED failed
        \/ Refused /\ Fails(r, "provider")
  \/ UNCHANGED <<access, issued>> /\ Refused /\ Fails(r, "provider")

\* Provider.Revoke, best effort: an error is logged and the caller goes on.
ProviderRevoke(r) ==
  \/ access' = access \ {r} /\ UNCHANGED failed
  \/ UNCHANGED access /\ Fails(r, "provider")

-----------------------------------------------------------------------------
(* CreateRequest, break-glass and the automatic tier *)

KindOf(op) == IF op = "break_glass" THEN "break_glass" ELSE "standard"

\* The row is inserted PENDING; a lost reply leaves it there.
Insert(c, r, u, tier, op) ==
  /\ row[r] = NoRow
  /\ row' = [row EXCEPT ![r] = [state |-> "PENDING", kind |-> KindOf(op), requester |-> u,
                               tier |-> tier, approver |-> Null]]
  /\ \/ Enter(c, op, r, u, "logCreated") /\ UNCHANGED failed
     \/ Return(c) /\ Fails(r, "db")
  /\ UNCHANGED <<elapsed, sweeper, sweepLock, access, trail, alerted, issued>>

\* The policy found the requester eligible and chose the tier. Tier "auto" is the
\* policy's own approval.
CreateRequest(c, r, u, tier) ==
  /\ Arrives(c, "create")
  /\ Insert(c, r, u, tier, IF tier = "auto" THEN "auto" ELSE "create")
  /\ decided' = IF tier = "auto" THEN [decided EXCEPT ![r] = @ \cup {"policy"}] ELSE decided

\* No eligibility check; an empty tier is stored as "human".
CreateBreakGlass(c, r, u) ==
  /\ Arrives(c, "break_glass")
  /\ Insert(c, r, u, "human", "break_glass")
  /\ decided' = [decided EXCEPT ![r] = @ \cup {"break-glass"}]

\* Faulty variant: break-glass approves itself before it alerts anybody.
AfterCreatedQuietly(op) == IF op = "create" THEN "return" ELSE "selfApprove"

\* Where the handler goes once the request is created and logged.
AfterCreated(op) ==
  CASE op = "auto" -> "selfApprove" [] op = "break_glass" -> "alert" [] OTHER -> "return"

LogCreated(c) ==
  /\ At(c, "logCreated")
  /\ AppendAudit(call[c].req, "request.created")
  /\ LET next == AfterCreated(call[c].op)
     IN IF next = "return" THEN Return(c) ELSE Goto(c, next)
  /\ UNCHANGED <<row, elapsed, sweeper, sweepLock, access, alerted, issued, decided>>

\* The critical alert is dispatched before this handler issues any credential.
Alert(c) ==
  /\ At(c, "alert")
  /\ alerted' = alerted \cup {call[c].req}
  /\ Goto(c, "selfApprove")
  /\ UNCHANGED <<row, elapsed, sweeper, sweepLock, access, trail, issued, decided, failed>>

\* autoApproveRequest and createBreakGlass: PENDING -> APPROVED with a fixed approver.
SelfApprove(c) ==
  LET r == call[c].req
      approver == IF call[c].op = "auto" THEN "policy" ELSE "break-glass"
  IN /\ At(c, "selfApprove")
     /\ Transition(r, "PENDING",
                   [row[r] EXCEPT !.state = "APPROVED", !.approver = approver],
                   Goto(c, "logApproved"), Return(c))
     /\ UNCHANGED <<elapsed, sweeper, sweepLock, access, trail, alerted, issued, decided>>

-----------------------------------------------------------------------------
(* ApproveRequest and AIApproveRequest *)

\* ApproveRequest takes the row to APPROVED before the policy is asked.
ApproveRequest(c, r, u) ==
  /\ Arrives(c, "approve")
  /\ row[r].state # "ABSENT"
  /\ Transition(r, "PENDING", [row[r] EXCEPT !.state = "APPROVED", !.approver = u],
                Enter(c, "approve", r, u, "eval"), Return(c))
  /\ UNCHANGED <<elapsed, sweeper, sweepLock, access, trail, alerted, issued, decided>>

\* Faulty variant: the verdict is not looked at.
AfterVerdictIgnored(allowed) == "logApproved"

\* Faulty variant: the handler of a denied approver returns without the rollback.
AfterVerdictReturns(allowed) == IF allowed THEN "logApproved" ELSE "done"

AfterVerdict(allowed) == IF allowed THEN "logApproved" ELSE "rollback"

\* EvalApproval: the approver is allowed, or is denied or cannot be judged.
EvalApproval(c) ==
  /\ At(c, "eval")
  /\ \E allowed \in BOOLEAN :
       /\ decided' = IF allowed THEN [decided EXCEPT ![call[c].req] = @ \cup {call[c].actor}]
                               ELSE decided
       /\ Goto(c, AfterVerdict(allowed))
  /\ UNCHANGED <<row, elapsed, sweeper, sweepLock, access, trail, alerted, issued, failed>>

\* Back to PENDING; a failure is logged and the row stays APPROVED. COALESCE keeps
\* the turned-down approver in the row.
Rollback(c) ==
  LET r == call[c].req
  IN /\ At(c, "rollback")
     /\ Transition(r, "APPROVED", [row[r] EXCEPT !.state = "PENDING"],
                   Return(c), Return(c))
     /\ UNCHANGED <<elapsed, sweeper, sweepLock, access, trail, alerted, issued, decided>>

\* The MCP agent's own decision; neither the tier nor a policy is consulted.
AIApproveRequest(c, r) ==
  /\ Arrives(c, "ai_approve")
  /\ row[r].state # "ABSENT"
  /\ Transition(r, "PENDING", [row[r] EXCEPT !.state = "APPROVED", !.approver = Agent],
                Enter(c, "ai_approve", r, Agent, "logApproved"),
                Return(c))
  /\ decided' = [decided EXCEPT ![r] = @ \cup {Agent}]
  /\ UNCHANGED <<elapsed, sweeper, sweepLock, access, trail, alerted, issued>>

LogApproved(c) ==
  /\ At(c, "logApproved")
  /\ AppendAudit(call[c].req, ApprovedEntry(call[c].op))
  /\ Goto(c, "grant")
  /\ UNCHANGED <<row, elapsed, sweeper, sweepLock, access, alerted, issued, decided>>

\* Faulty variant: a provider error puts the request back to PENDING.
GrantOrRollback(c) ==
  /\ At(c, "grant")
  /\ ProviderGrant(call[c].req, Goto(c, "activate"), Goto(c, "rollback"))
  /\ UNCHANGED <<row, elapsed, sweeper, sweepLock, trail, alerted, decided>>

\* The provider issues the credentials; on an error the row is left APPROVED.
Grant(c) ==
  /\ At(c, "grant")
  /\ ProviderGrant(call[c].req, Goto(c, "activate"), Return(c))
  /\ UNCHANGED <<row, elapsed, sweeper, sweepLock, trail, alerted, decided>>

\* APPROVED -> ACTIVE with the expiry and revoke token the provider returned.
Activate(c) ==
  LET r == call[c].req
  IN /\ At(c, "activate")
     /\ Transition(r, "APPROVED", [row[r] EXCEPT !.state = "ACTIVE"],
                   Goto(c, "logIssued"), Return(c))
     /\ UNCHANGED <<elapsed, sweeper, sweepLock, access, trail, alerted, issued, decided>>

LogIssued(c) ==
  /\ At(c, "logIssued")
  /\ AppendAudit(call[c].req, "grant.issued")
  /\ Return(c)
  /\ UNCHANGED <<row, elapsed, sweeper, sweepLock, access, alerted, issued, decided>>

-----------------------------------------------------------------------------
(* DenyRequest, AIDenyRequest and AIEscalateRequest *)

Deny(c, op, r, actor) ==
  /\ Arrives(c, op)
  /\ row[r].state # "ABSENT"
  /\ Transition(r, "PENDING", [row[r] EXCEPT !.state = "REJECTED", !.approver = actor],
                Enter(c, op, r, actor, "logDenied"), Return(c))
  /\ UNCHANGED <<elapsed, sweeper, sweepLock, access, trail, alerted, issued, decided>>

DenyRequest(c, r, u) == Deny(c, "deny", r, u)

AIDenyRequest(c, r) == Deny(c, "ai_deny", r, Agent)

LogDenied(c) ==
  /\ At(c, "logDenied")
  /\ AppendAudit(call[c].req, DeniedEntry(call[c].op))
  /\ Return(c)
  /\ UNCHANGED <<row, elapsed, sweeper, sweepLock, access, alerted, issued, decided>>

\* SetApproverTier updates a row that is still PENDING, then reads it again.
AIEscalateRequest(c, r) ==
  /\ Arrives(c, "ai_escalate")
  /\ row[r].state # "ABSENT"
  /\ Transition(r, "PENDING", [row[r] EXCEPT !.tier = "human"],
                Enter(c, "ai_escalate", r, Agent, "logEscalated"),
                Return(c))
  /\ UNCHANGED <<elapsed, sweeper, sweepLock, access, trail, alerted, issued, decided>>

LogEscalated(c) ==
  /\ At(c, "logEscalated")
  /\ AppendAudit(call[c].req, "request.ai_escalated")
  /\ Return(c)
  /\ UNCHANGED <<row, elapsed, sweeper, sweepLock, access, alerted, issued, decided>>

-----------------------------------------------------------------------------
(* RevokeRequest *)

\* Reads the row without a lock, then checks the actor and the state it read.
RevokeRequest(c, r, u) ==
  /\ Arrives(c, "revoke")
  /\ row[r].state \notin Terminal \cup {"ABSENT"}
  /\ u = row[r].requester \/ u \in Admins
  /\ Enter(c, "revoke", r, u, "revoke")
  /\ UNCHANGED <<row, elapsed, sweeper, sweepLock, access, trail, alerted, issued,
                 decided, failed>>

\* ACTIVE -> REVOKED. A row in another state is returned to the caller as it is.
CommitRevoke(c) ==
  LET r == call[c].req
  IN /\ At(c, "revoke")
     /\ Transition(r, "ACTIVE", [row[r] EXCEPT !.state = "REVOKED"],
                   Goto(c, "providerRevoke"), Return(c))
     /\ UNCHANGED <<elapsed, sweeper, sweepLock, access, trail, alerted, issued, decided>>

CallProviderRevoke(c) ==
  /\ At(c, "providerRevoke")
  /\ ProviderRevoke(call[c].req)
  /\ Goto(c, "logRevoked")
  /\ UNCHANGED <<row, elapsed, sweeper, sweepLock, trail, alerted, issued, decided>>

LogRevoked(c) ==
  /\ At(c, "logRevoked")
  /\ AppendAudit(call[c].req, "grant.revoked")
  /\ Return(c)
  /\ UNCHANGED <<row, elapsed, sweeper, sweepLock, access, alerted, issued, decided>>

-----------------------------------------------------------------------------
(* The expiry sweeper of each replica *)

\* Faulty variant: the sweep starts whoever holds the lock.
LockFreeUnchecked == TRUE

LockFree == sweepLock = Null

\* pg_try_advisory_lock, on a connection kept for the sweep.
TryAcquireSweepLock(s) ==
  /\ sweeper[s].at = "idle"
  /\ LockFree
  /\ sweepLock' = s
  /\ sweeper' = [sweeper EXCEPT ![s].at = "list"]
  /\ UNCHANGED <<row, elapsed, call, access, trail, alerted, issued, decided, failed>>

\* Faulty variant: the comparison with the clock is the wrong way round.
ActiveNotExpired == {r \in Requests : row[r].state = "ACTIVE" /\ r \notin elapsed}

ActiveExpired == {r \in Requests : row[r].state = "ACTIVE" /\ r \in elapsed}

\* A list that cannot be read ends the sweep, as an empty one does.
ListActiveExpired(s) ==
  /\ sweeper[s].at = "list"
  /\ \E todo \in {ActiveExpired, {}} :
       /\ sweeper' = [sweeper EXCEPT ![s] = [at |-> "sweep", todo |-> todo, cur |-> Null]]
       /\ \/ todo = ActiveExpired /\ UNCHANGED failed
          \/ todo = {} /\ \E r \in Requests : Fails(r, "db")
  /\ UNCHANGED <<row, elapsed, call, sweepLock, access, trail, alerted, issued, decided>>

\* The provider is asked to revoke before the row moves; the list has no order.
SweepRevoke(s, r) ==
  /\ sweeper[s].at = "sweep"
  /\ r \in sweeper[s].todo
  /\ ProviderRevoke(r)
  /\ sweeper' = [sweeper EXCEPT ![s] = [at |-> "expire", todo |-> @.todo \ {r}, cur |-> r]]
  /\ UNCHANGED <<row, elapsed, call, sweepLock, trail, alerted, issued, decided>>

SweepGoto(s, step) == sweeper' = [sweeper EXCEPT ![s].at = step]

\* The sweeper goes to the next request of its list.
NextRequest(s) == sweeper' = [sweeper EXCEPT ![s].at = "sweep", ![s].cur = Null]

SweepExpire(s) ==
  LET r == sweeper[s].cur
  IN /\ sweeper[s].at = "expire"
     /\ Transition(r, "ACTIVE", [row[r] EXCEPT !.state = "EXPIRED"],
                   SweepGoto(s, "log"), NextRequest(s))
     /\ UNCHANGED <<elapsed, call, sweepLock, access, trail, alerted, issued, decided>>

SweepLog(s) ==
  /\ sweeper[s].at = "log"
  /\ AppendAudit(sweeper[s].cur, "grant.expired")
  /\ NextRequest(s)
  /\ UNCHANGED <<row, elapsed, call, sweepLock, access, alerted, issued, decided>>

\* Faulty variant: the sweep ends without its release.
UnlockForgotten(s) == UNCHANGED sweepLock

\* Unlocking frees the lock only if this session still holds it.
Unlock(s) == sweepLock' = IF sweepLock = s THEN Null ELSE sweepLock

ReleaseSweepLock(s) ==
  /\ sweeper[s].at = "sweep"
  /\ sweeper[s].todo = {}
  /\ sweeper' = [sweeper EXCEPT ![s] = NoSweep]
  /\ Unlock(s)
  /\ UNCHANGED <<row, elapsed, call, access, trail, alerted, issued, decided, failed>>

-----------------------------------------------------------------------------
(* The environment: stopped handlers and replicas, lost sessions, time *)

AbortCall(c) ==
  /\ call[c].at \notin {"idle", "done"}
  /\ Fails(call[c].req, "abort")
  /\ Return(c)
  /\ UNCHANGED <<row, elapsed, sweeper, sweepLock, access, trail, alerted, issued, decided>>

\* The requests a stopped sweep lets down: the one it is at, or else one still to do.
Pending(s) == IF sweeper[s].cur # Null THEN {sweeper[s].cur} ELSE sweeper[s].todo

\* The replica stops during a sweep and starts again; its session dies with it.
CrashSweeper(s) ==
  /\ \E r \in Pending(s) : Fails(r, "abort")
  /\ sweeper' = [sweeper EXCEPT ![s] = NoSweep]
  /\ Unlock(s)
  /\ UNCHANGED <<row, elapsed, call, access, trail, alerted, issued, decided>>

\* The connection that holds the lock drops; the sweep does not notice.
LoseSweepLock(s) ==
  /\ sweepLock = s
  /\ \E r \in Requests : Fails(r, "lock")
  /\ sweepLock' = Null
  /\ UNCHANGED <<row, elapsed, call, sweeper, access, trail, alerted, issued, decided>>

\* The window the provider granted passes.
Elapse(r) ==
  /\ issued[r] > 0
  /\ r \notin elapsed
  /\ elapsed' = elapsed \cup {r}
  /\ UNCHANGED <<row, call, sweeper, sweepLock, access, trail, alerted, issued, decided, failed>>

-----------------------------------------------------------------------------
(* The specification *)

Init ==
  /\ row = [r \in Requests |-> NoRow]
  /\ elapsed = {}
  /\ call = [c \in Calls |-> NoCall]
  /\ sweeper = [s \in Sweepers |-> NoSweep]
  /\ sweepLock = Null
  /\ access = {}
  /\ trail = [r \in Requests |-> <<>>]
  /\ alerted = {}
  /\ issued = [r \in Requests |-> 0]
  /\ decided = [r \in Requests |-> {}]
  /\ failed = {}

\* An RPC arrives.
Arrive(c) ==
  \E r \in Requests :
    \/ \E u \in Users, tier \in Tiers : CreateRequest(c, r, u, tier)
    \/ \E u \in Users :
         \/ CreateBreakGlass(c, r, u) \/ ApproveRequest(c, r, u)
         \/ DenyRequest(c, r, u) \/ RevokeRequest(c, r, u)
    \/ AIApproveRequest(c, r) \/ AIDenyRequest(c, r) \/ AIEscalateRequest(c, r)

\* The handler of an RPC goes on.
Handle(c) ==
  \/ LogCreated(c) \/ Alert(c) \/ SelfApprove(c)
  \/ EvalApproval(c) \/ Rollback(c) \/ LogApproved(c)
  \/ Grant(c) \/ Activate(c) \/ LogIssued(c)
  \/ LogDenied(c) \/ LogEscalated(c)
  \/ CommitRevoke(c) \/ CallProviderRevoke(c) \/ LogRevoked(c)

\* A replica's sweeper goes on.
DoSweep(s) ==
  \/ TryAcquireSweepLock(s) \/ ListActiveExpired(s)
  \/ \E r \in Requests : SweepRevoke(s, r)
  \/ SweepExpire(s) \/ SweepLog(s) \/ ReleaseSweepLock(s)

Environment ==
  \/ \E c \in Calls : AbortCall(c)
  \/ \E s \in Sweepers : CrashSweeper(s) \/ LoseSweepLock(s)
  \/ \E r \in Requests : Elapse(r)

Next ==
  \/ \E c \in Calls : Arrive(c) \/ Handle(c)
  \/ \E s \in Sweepers : DoSweep(s)
  \/ Environment

Spec == Init /\ [][Next]_vars

\* Go runs a started handler to its end, and the sweeper's ticker keeps firing
\* (RunExpirySweeper); nobody is obliged to send an RPC.
FairSpec ==
  /\ Spec
  /\ \A c \in Calls : WF_vars(Handle(c))
  /\ \A s \in Sweepers : WF_vars(DoSweep(s))

-----------------------------------------------------------------------------
(* Properties *)

\* Every variable keeps its type.
TypeOK ==
  /\ row \in [Requests -> Row]
  /\ elapsed \subseteq Requests
  /\ call \in [Calls -> Call]
  /\ sweeper \in [Sweepers -> Sweep]
  /\ sweepLock \in Sweepers \cup {Null}
  /\ access \subseteq Requests
  /\ trail \in [Requests -> Seq(Entries)]
  /\ alerted \subseteq Requests
  /\ issued \in [Requests -> Nat]
  /\ decided \in [Requests -> SUBSET Approvers]
  /\ failed \subseteq Requests \X Failures

\* A handler at one of these steps took its row to APPROVED and has not left it.
Owns(c) == call[c].at \in {"eval", "rollback", "logApproved", "grant", "activate"}

\* An APPROVED row belongs to the one handler that approved it: no other handler is
\* between its own approval and its grant for the same request, and while it is there
\* the row stays APPROVED. Every hand-over goes through the row lock of
\* TransitionRequest (store/requests.go), there is no other mutual exclusion.
SoleOwner ==
  \A c \in Calls : Owns(c) =>
    /\ row[call[c].req].state = "APPROVED"
    /\ \A d \in Calls \ {c} : Owns(d) => call[d].req # call[c].req

\* However approvers, agent, automatic approval, rollbacks, retries and failures
\* interleave, the provider grants a request at most once, so a row's one revoke token
\* covers all the access the request ever gave.
SingleGrant == \A r \in Requests : issued[r] <= 1

\* Nothing is granted unless the approver the row names is one whom a decision let
\* approve this very request: a policy verdict, the agent, tier "auto" or break-glass.
\* The row names an approver before the policy is asked, and rollbacks leave the name.
GrantIsDecided == \A r \in Requests : issued[r] > 0 => row[r].approver \in decided[r]

\* The handler that inserted the break-glass request has its alert still to dispatch.
Alerting(r) ==
  \E c \in Calls :
    call[c].req = r /\ call[c].op = "break_glass" /\ call[c].at \in {"logCreated", "alert"}

\* A break-glass request has been granted without its critical alert only if somebody else
\* approved the PENDING row that its creator was about to approve, and then the creator's
\* alert is still to come, unless the request was hit by a failed insert or a stopped
\* handler: createBreakGlass itself never grants first, and no race over the row or
\* failure of the log, of the provider or of another request keeps the alert back.
BreakGlassAlerted ==
  \A r \in Requests :
    row[r].kind = "break_glass" /\ issued[r] > 0 /\ r \notin alerted =>
      /\ row[r].approver # "break-glass"
      /\ Alerting(r) \/ HitBy(r, {"db", "abort"})

\* A handler is at the step for the request.
Busied(r, step) == \E c \in Calls : call[c].req = r /\ At(c, step)

\* Only a request that was granted has access at the provider, in the state its handlers
\* and sweepers have left it in: ACTIVE; APPROVED while its grant is being recorded;
\* REVOKED while its revocation is on its way. Otherwise a provider, database or handler
\* failure hit that very request, and behind an EXPIRED row it was the provider's. No
\* audit failure, lost sweep lock or failure on another request leaves access behind, and
\* none ever stands behind a PENDING or a REJECTED row.
AccessAccounted ==
  \A r \in access :
    LET state == row[r].state
    IN /\ issued[r] = 1
       /\ \/ state = "ACTIVE"
          \/ state = "APPROVED" /\ Busied(r, "activate")
          \/ state = "REVOKED" /\ Busied(r, "providerRevoke")
          \/ state \in {"APPROVED", "REVOKED"} /\ HitBy(r, {"provider", "db", "abort"})
          \/ state = "EXPIRED" /\ HitBy(r, {"provider"})

\* The next provider call for the request is a revocation.
Revoking(r) ==
  Busied(r, "providerRevoke") \/ \E s \in Sweepers : r \in sweeper[s].todo

\* However revocations and sweeps race with approvals, they ask the provider to revoke
\* only a request whose single grant has returned and is in the row, with the token to
\* revoke, and none can be granted behind them: what every provider relies on.
RevokesFollowGrant ==
  \A r \in Requests : Revoking(r) =>
    /\ row[r].state \in {"ACTIVE", "EXPIRED", "REVOKED"} /\ issued[r] = 1
    /\ ~Busied(r, "grant") /\ ~Busied(r, "activate")

Logged(r) == {trail[r][i] : i \in DOMAIN trail[r]}

Approvals == {"request.approved", "request.auto_approved", "request.ai_approved"}

Denials == {"request.denied", "request.ai_denied"}

\* The states a request may be in once the entry is in the log.
StatesAfter(entry) ==
  CASE entry \in Approvals -> {"APPROVED", "ACTIVE", "EXPIRED", "REVOKED"}
    [] entry \in Denials -> {"REJECTED"}
    [] entry = "grant.issued" -> {"ACTIVE", "EXPIRED", "REVOKED"}
    [] entry = "grant.revoked" -> {"REVOKED"}
    [] entry = "grant.expired" -> {"EXPIRED"}
    [] OTHER -> States \ {"ABSENT"}

\* The log never tells of something that did not happen or was undone: each entry is
\* borne out by the row, whatever ran between the transition and the append, and the
\* kind of approval it names is the approver the row names.
AuditTruthful ==
  \A r \in Requests : \A e \in Logged(r) :
    /\ row[r].state \in StatesAfter(e)
    /\ e = "request.auto_approved" => row[r].approver = "policy"
    /\ e \in {"request.ai_approved", "request.ai_denied"} => row[r].approver = Agent
    /\ e = "request.denied" => row[r].approver \in Users

\* Handlers and sweepers that race for one request leave one entry of each kind: one
\* approval, one denial, one issue, one revocation or one expiry. Only escalations
\* repeat.
AuditOnce ==
  \A r \in Requests : \A i, j \in DOMAIN trail[r] :
    LET a == trail[r][i]
        b == trail[r][j]
    IN i # j => /\ a = b => a = "request.ai_escalated"
                /\ ~({a, b} \subseteq Approvals)
                /\ ~({a, b} \subseteq {"grant.revoked", "grant.expired"})

\* The entries of a grant's life.
GrantEntries == {"grant.issued", "grant.revoked", "grant.expired"}

\* Read in order, the log of a request approves before it grants: no entry of the grant's
\* life comes before the one of its approval, although another handler or a sweeper may
\* write it, for a grant that no lock orders after the log. (An approval may come before
\* the creation it approves and a revocation before the issue: others log those late.)
AuditInOrder ==
  \A r \in Requests : \A i, j \in DOMAIN trail[r] :
    trail[r][i] \in Approvals /\ trail[r][j] \in GrantEntries => i < j

\* No handler and no sweeper is in the middle of the request.
AtRest(r) ==
  /\ \A c \in Calls : call[c].req = r => call[c].at \in {"idle", "done"}
  /\ \A s \in Sweepers : sweeper[s].cur # r

\* Once a request is at rest and no failure hit it, the log has the whole story of its
\* state: creation, approval or denial, issue, and end.
AuditComplete ==
  \A r \in Requests :
    LET st == row[r].state
        has == Logged(r)
    IN st # "ABSENT" /\ AtRest(r) /\ ~HitBy(r, Failures) =>
         /\ "request.created" \in has
         /\ st \in {"ACTIVE", "EXPIRED", "REVOKED"} =>
              has \cap Approvals # {} /\ "grant.issued" \in has
         /\ st = "REJECTED" => has \cap Denials # {}
         /\ st = "EXPIRED" => "grant.expired" \in has
         /\ st = "REVOKED" => "grant.revoked" \in has

\* Two replicas are in a sweep at once only after a lost lock session; otherwise the
\* lock is held for the whole sweep and the provider sees no concurrent duplicate.
SweepExclusive ==
  \A s, t \in Sweepers :
    s # t /\ sweeper[s].at # "idle" /\ sweeper[t].at # "idle" =>
      \E r \in Requests : HitBy(r, {"lock"})

\* The workflow implements the lifecycle that Lifecycle.tla promises.
L == INSTANCE Lifecycle WITH state <- [r \in Requests |-> row[r].state]

ImplementsLifecycle == L!Spec

\* A request whose window has passed leaves ACTIVE for good, although a database write,
\* a provider call, a replica or its lock session may fail during its sweep.
ExpiredIsSwept ==
  \A r \in Requests :
    row[r].state = "ACTIVE" /\ r \in elapsed ~> row[r].state \in {"EXPIRED", "REVOKED"}

\* No request is left APPROVED with nobody to go on, except by a failure of the
\* database, the provider or its handler.
ApprovalResolves ==
  \A r \in Requests :
    row[r].state = "APPROVED" ~>
      (row[r].state # "APPROVED" \/ HitBy(r, {"db", "provider", "abort"}))

\* Access whose window has passed ends at the provider, except by such a failure.
AccessEnds ==
  \A r \in Requests :
    r \in access /\ r \in elapsed ~>
      (r \notin access \/ HitBy(r, {"db", "provider", "abort"}))

-----------------------------------------------------------------------------
(* Statements of the documentation that the code does not keep *)

\* README.md: permissions are "automatically revoked when the window expires". The row
\* of an expired grant says EXPIRED and no sweep looks at it again.
ExpiredHasNoAccess == \A r \in Requests : row[r].state = "EXPIRED" => r \notin access

\* createBreakGlass: "Fire critical break-glass alert before issuing credentials". The row
\* is PENDING, and open to every approver and to the agent, before the alert.
AlertBeforeGrant ==
  \A r \in Requests : row[r].kind = "break_glass" /\ issued[r] > 0 => r \in alerted
=============================================================================
