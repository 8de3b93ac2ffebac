----------------------- MODULE RequestWorkflowTypes ------------------------
(***************************************************************************)
(* Proofs about RequestWorkflow, for every set of requests, calls,         *)
(* sweepers and identities and every number of failures.                   *)
(***************************************************************************)
EXTENDS RequestWorkflow, TLAPS

Busy(c) == call[c].at \notin {"idle", "done"}

\* The parts of the type invariant, by the variables that one kind of step changes. A
\* handler or a sweeper that is in the middle of something knows its request.
RowsOK == row \in [Requests -> Row]

CallsOK ==
  /\ call \in [Calls -> Call]
  /\ \A c \in Calls : Busy(c) => call[c].req \in Requests

SweepsOK ==
  /\ sweeper \in [Sweepers -> Sweep]
  /\ \A s \in Sweepers : sweeper[s].at \in {"expire", "log"} => sweeper[s].cur \in Requests
  /\ sweepLock \in Sweepers \cup {Null}

AccessOK ==
  /\ access \subseteq Requests
  /\ issued \in [Requests -> Nat]
  /\ elapsed \subseteq Requests

TrailOK == trail \in [Requests -> Seq(Entries)]

FailedOK == failed \subseteq Requests \X Failures

DecidedOK ==
  /\ decided \in [Requests -> SUBSET Approvers]
  /\ alerted \subseteq Requests

TypeInv ==
  RowsOK /\ CallsOK /\ SweepsOK /\ AccessOK /\ TrailOK /\ FailedOK /\ DecidedOK

LEMMA TypeInvIsStronger == TypeInv => TypeOK
BY DEF TypeInv, RowsOK, CallsOK, SweepsOK, AccessOK, TrailOK, FailedOK, DecidedOK, TypeOK

-----------------------------------------------------------------------------
(* What the shared steps do to the types *)

LEMMA FailsType ==
  ASSUME FailedOK, NEW r \in Requests, NEW k \in Failures, Fails(r, k)
  PROVE  FailedOK'
BY DEF FailedOK, Fails

LEMMA ReturnType ==
  ASSUME CallsOK, NEW c \in Calls, Return(c)
  PROVE  CallsOK'
BY DEF CallsOK, Busy, Return, Returned, NoCall, Call, CallSteps

LEMMA EnterType ==
  ASSUME CallsOK, NEW c \in Calls, NEW op \in AllOps, NEW r \in Requests,
         NEW actor \in Actors, NEW step \in CallSteps, Enter(c, op, r, actor, step)
  PROVE  CallsOK'
BY DEF CallsOK, Busy, Enter, Call

LEMMA GotoType ==
  ASSUME CallsOK, NEW c \in Calls, Busy(c), NEW step \in CallSteps, Goto(c, step)
  PROVE  CallsOK'
BY DEF CallsOK, Busy, Goto, Call

LEMMA TransitionType ==
  ASSUME RowsOK, FailedOK, NEW r \in Requests, NEW from, NEW new \in Row,
         NEW ACTION Reaches, NEW ACTION Returns,
         Transition(r, from, new, Reaches, Returns)
  PROVE  RowsOK' /\ FailedOK' /\ (Reaches \/ Returns)
<1>1. ASSUME Fails(r, "db") PROVE FailedOK'
  BY <1>1, FailsType DEF Failures
<1>2. ASSUME UNCHANGED failed PROVE FailedOK'
  BY <1>2 DEF FailedOK
<1>3. ASSUME row' = [row EXCEPT ![r] = new] PROVE RowsOK'
  BY <1>3 DEF RowsOK
<1>4. ASSUME UNCHANGED row PROVE RowsOK'
  BY <1>4 DEF RowsOK
<1> QED
  BY <1>1, <1>2, <1>3, <1>4 DEF Transition

LEMMA AppendAuditType ==
  ASSUME TrailOK, FailedOK, NEW r \in Requests, NEW e \in Entries, AppendAudit(r, e)
  PROVE  TrailOK' /\ FailedOK'
<1>1. ASSUME trail' = [trail EXCEPT ![r] = Append(@, e)], UNCHANGED failed
      PROVE  TrailOK' /\ FailedOK'
  BY <1>1 DEF TrailOK, FailedOK
<1>2. ASSUME UNCHANGED trail, Fails(r, "audit")
      PROVE  TrailOK' /\ FailedOK'
  BY <1>2, FailsType DEF TrailOK, Failures
<1> QED
  BY <1>1, <1>2 DEF AppendAudit

LEMMA ProviderRevokeType ==
  ASSUME AccessOK, FailedOK, NEW r \in Requests, ProviderRevoke(r), UNCHANGED <<issued, elapsed>>
  PROVE  AccessOK' /\ FailedOK'
<1>1. FailedOK'
  BY FailsType DEF ProviderRevoke, Failures, FailedOK
<1> QED
  BY <1>1 DEF ProviderRevoke, AccessOK

LEMMA ProviderGrantType ==
  ASSUME AccessOK, FailedOK, NEW r \in Requests, NEW ACTION Granted, NEW ACTION Refused,
         ProviderGrant(r, Granted, Refused), UNCHANGED elapsed
  PROVE  AccessOK' /\ FailedOK' /\ (Granted \/ Refused)
<1>1. FailedOK' /\ (Granted \/ Refused)
  BY FailsType DEF ProviderGrant, Failures, FailedOK
<1>2. AccessOK'
  BY DEF ProviderGrant, AccessOK
<1> QED
  BY <1>1, <1>2

-----------------------------------------------------------------------------
(* Every step preserves the types *)

LEMMA RowType ==
  ASSUME RowsOK, NEW r \in Requests
  PROVE  /\ row[r] \in Row
         /\ \A st \in States : [row[r] EXCEPT !.state = st] \in Row
         /\ \A st \in States, a \in Approvers :
              [row[r] EXCEPT !.state = st, !.approver = a] \in Row
         /\ [row[r] EXCEPT !.tier = "human"] \in Row
BY DEF RowsOK, Row, Tiers

LEMMA InsertType ==
  ASSUME RowsOK, FailedOK, CallsOK, NEW c \in Calls, NEW r \in Requests, NEW u \in Users,
         NEW tier \in Tiers, NEW op \in AllOps, Insert(c, r, u, tier, op)
  PROVE  RowsOK' /\ FailedOK' /\ CallsOK'
<1>1. RowsOK'
  BY DEF Insert, KindOf, Kinds, RowsOK, Row, States, Approvers
<1>2. FailedOK'
  BY FailsType DEF Insert, Failures, FailedOK
<1>3. u \in Actors /\ "logCreated" \in CallSteps
  BY DEF Actors, CallSteps
<1>4. CallsOK'
  BY <1>3, EnterType, ReturnType DEF Insert
<1> QED
  BY <1>1, <1>2, <1>4

LEMMA ArriveType ==
  ASSUME TypeInv, NEW c \in Calls, Arrive(c)
  PROVE  TypeInv'
<1> USE DEF TypeInv
<1>0. /\ Agent \in Actors /\ Agent \in Approvers
      /\ \A u \in Users : u \in Actors /\ u \in Approvers
      /\ {"policy", "break-glass"} \subseteq Approvers
      /\ {"APPROVED", "REJECTED"} \subseteq States
      /\ {"eval", "logApproved", "logDenied", "logEscalated", "revoke"} \subseteq CallSteps
      /\ "human" \in Tiers
      /\ {"create", "auto", "break_glass", "approve", "ai_approve", "deny", "ai_deny",
          "ai_escalate", "revoke"} \subseteq AllOps
  BY DEF Actors, Approvers, States, CallSteps, Tiers, AllOps
<1>1. ASSUME NEW r \in Requests, NEW u \in Users, NEW tier \in Tiers,
             CreateRequest(c, r, u, tier)
      PROVE  TypeInv'
  <2>1. RowsOK' /\ FailedOK' /\ CallsOK'
    BY <1>0, <1>1, InsertType DEF CreateRequest
  <2>2. DecidedOK'
    BY <1>0, <1>1 DEF CreateRequest, Insert, DecidedOK
  <2> QED
    BY <1>1, <2>1, <2>2 DEF CreateRequest, Insert, SweepsOK, AccessOK, TrailOK
<1>2. ASSUME NEW r \in Requests, NEW u \in Users, CreateBreakGlass(c, r, u)
      PROVE  TypeInv'
  <2>1. RowsOK' /\ FailedOK' /\ CallsOK'
    BY <1>0, <1>2, InsertType DEF CreateBreakGlass
  <2>2. DecidedOK'
    BY <1>0, <1>2 DEF CreateBreakGlass, Insert, DecidedOK
  <2> QED
    BY <1>2, <2>1, <2>2 DEF CreateBreakGlass, Insert, SweepsOK, AccessOK, TrailOK
<1>3. ASSUME NEW r \in Requests, NEW u \in Users, ApproveRequest(c, r, u)
      PROVE  TypeInv'
  <2>1. [row[r] EXCEPT !.state = "APPROVED", !.approver = u] \in Row
    BY <1>0, RowType
  <2>2. RowsOK' /\ FailedOK' /\ (Enter(c, "approve", r, u, "eval") \/ Return(c))
    BY <1>3, <2>1, TransitionType DEF ApproveRequest
  <2>3. CallsOK'
    BY <1>0, <2>2, EnterType, ReturnType
  <2> QED
    BY <1>3, <2>2, <2>3 DEF ApproveRequest, SweepsOK, AccessOK, TrailOK, DecidedOK
<1>4. ASSUME NEW r \in Requests, NEW u \in Users, DenyRequest(c, r, u)
      PROVE  TypeInv'
  <2>1. [row[r] EXCEPT !.state = "REJECTED", !.approver = u] \in Row
    BY <1>0, RowType
  <2>2. RowsOK' /\ FailedOK' /\ (Enter(c, "deny", r, u, "logDenied") \/ Return(c))
    BY <1>4, <2>1, TransitionType DEF DenyRequest, Deny
  <2>3. CallsOK'
    BY <1>0, <2>2, EnterType, ReturnType
  <2> QED
    BY <1>4, <2>2, <2>3 DEF DenyRequest, Deny, SweepsOK, AccessOK, TrailOK, DecidedOK
<1>5. ASSUME NEW r \in Requests, NEW u \in Users, RevokeRequest(c, r, u)
      PROVE  TypeInv'
  <2>1. CallsOK'
    BY <1>0, <1>5, EnterType DEF RevokeRequest
  <2> QED
    BY <1>5, <2>1 DEF RevokeRequest, RowsOK, SweepsOK, AccessOK, TrailOK, FailedOK, DecidedOK
<1>6. ASSUME NEW r \in Requests, AIApproveRequest(c, r)
      PROVE  TypeInv'
  <2>1. [row[r] EXCEPT !.state = "APPROVED", !.approver = Agent] \in Row
    BY <1>0, RowType
  <2>2. RowsOK' /\ FailedOK' /\ (Enter(c, "ai_approve", r, Agent, "logApproved") \/ Return(c))
    BY <1>6, <2>1, TransitionType DEF AIApproveRequest
  <2>3. CallsOK'
    BY <1>0, <2>2, EnterType, ReturnType
  <2>4. DecidedOK'
    BY <1>0, <1>6 DEF AIApproveRequest, DecidedOK
  <2> QED
    BY <1>6, <2>2, <2>3, <2>4 DEF AIApproveRequest, SweepsOK, AccessOK, TrailOK
<1>7. ASSUME NEW r \in Requests, AIDenyRequest(c, r)
      PROVE  TypeInv'
  <2>1. [row[r] EXCEPT !.state = "REJECTED", !.approver = Agent] \in Row
    BY <1>0, RowType
  <2>2. RowsOK' /\ FailedOK' /\ (Enter(c, "ai_deny", r, Agent, "logDenied") \/ Return(c))
    BY <1>7, <2>1, TransitionType DEF AIDenyRequest, Deny
  <2>3. CallsOK'
    BY <1>0, <2>2, EnterType, ReturnType
  <2> QED
    BY <1>7, <2>2, <2>3 DEF AIDenyRequest, Deny, SweepsOK, AccessOK, TrailOK, DecidedOK
<1>8. ASSUME NEW r \in Requests, AIEscalateRequest(c, r)
      PROVE  TypeInv'
  <2>1. [row[r] EXCEPT !.tier = "human"] \in Row
    BY <1>0, RowType
  <2>2. RowsOK' /\ FailedOK' /\ (Enter(c, "ai_escalate", r, Agent, "logEscalated") \/ Return(c))
    BY <1>8, <2>1, TransitionType DEF AIEscalateRequest
  <2>3. CallsOK'
    BY <1>0, <2>2, EnterType, ReturnType
  <2> QED
    BY <1>8, <2>2, <2>3 DEF AIEscalateRequest, SweepsOK, AccessOK, TrailOK, DecidedOK
<1> QED
  BY <1>1, <1>2, <1>3, <1>4, <1>5, <1>6, <1>7, <1>8 DEF Arrive

LEMMA EntryType ==
  /\ {"request.created", "request.ai_escalated", "grant.issued", "grant.revoked",
      "grant.expired"} \subseteq Entries
  /\ \A op : ApprovedEntry(op) \in Entries /\ DeniedEntry(op) \in Entries
BY DEF Entries, ApprovedEntry, DeniedEntry

LEMMA HandleType ==
  ASSUME TypeInv, NEW c \in Calls, Handle(c)
  PROVE  TypeInv'
<1> USE DEF TypeInv
<1> DEFINE r == call[c].req
<1>0. /\ {"PENDING", "APPROVED", "ACTIVE", "REVOKED"} \subseteq States
      /\ {"policy", "break-glass"} \subseteq Approvers
      /\ CallSteps \ {"idle", "done"} = {"logCreated", "alert", "selfApprove", "eval",
           "rollback", "logApproved", "grant", "activate", "logIssued", "logDenied",
           "logEscalated", "revoke", "providerRevoke", "logRevoked"}
  BY DEF States, Approvers, CallSteps
<1>a. ASSUME NEW step \in CallSteps \ {"idle", "done"}, At(c, step)
      PROVE  Busy(c) /\ r \in Requests /\ call[c].actor \in Approvers
  BY <1>a DEF At, Busy, CallsOK, Call, Approvers, Actors
<1> USE <1>0, <1>a
<1>1. ASSUME LogCreated(c)
      PROVE  TypeInv'
  <2>1. TrailOK' /\ FailedOK'
    BY <1>1, EntryType, AppendAuditType DEF LogCreated
  <2>2. CallsOK'
    BY <1>1, GotoType, ReturnType DEF LogCreated, AfterCreated
  <2> QED
    BY <1>1, <2>1, <2>2 DEF LogCreated, RowsOK, SweepsOK, AccessOK, DecidedOK
<1>2. ASSUME Alert(c)
      PROVE  TypeInv'
  <2>1. CallsOK'
    BY <1>2, GotoType DEF Alert
  <2> QED
    BY <1>2, <2>1 DEF Alert, RowsOK, SweepsOK, AccessOK, TrailOK, FailedOK, DecidedOK
<1>3. ASSUME SelfApprove(c)
      PROVE  TypeInv'
  <2> DEFINE approver == IF call[c].op = "auto" THEN "policy" ELSE "break-glass"
  <2>1. [row[r] EXCEPT !.state = "APPROVED", !.approver = approver] \in Row
    BY <1>3, RowType DEF SelfApprove
  <2>2. RowsOK' /\ FailedOK' /\ (Goto(c, "logApproved") \/ Return(c))
    BY <1>3, <2>1, TransitionType DEF SelfApprove
  <2>3. CallsOK'
    BY <1>3, <2>2, GotoType, ReturnType DEF SelfApprove
  <2> QED
    BY <1>3, <2>2, <2>3 DEF SelfApprove, SweepsOK, AccessOK, TrailOK, DecidedOK
<1>4. ASSUME EvalApproval(c)
      PROVE  TypeInv'
  <2>1. CallsOK'
    BY <1>4, GotoType DEF EvalApproval, AfterVerdict
  <2>2. DecidedOK'
    BY <1>4 DEF EvalApproval, DecidedOK
  <2> QED
    BY <1>4, <2>1, <2>2 DEF EvalApproval, RowsOK, SweepsOK, AccessOK, TrailOK, FailedOK
<1>5. ASSUME Rollback(c)
      PROVE  TypeInv'
  <2>1. [row[r] EXCEPT !.state = "PENDING"] \in Row
    BY <1>5, RowType DEF Rollback
  <2>2. RowsOK' /\ FailedOK' /\ (Return(c))
    BY <1>5, <2>1, TransitionType DEF Rollback
  <2>3. CallsOK'
    BY <1>5, <2>2, GotoType, ReturnType DEF Rollback
  <2> QED
    BY <1>5, <2>2, <2>3 DEF Rollback, SweepsOK, AccessOK, TrailOK, DecidedOK
<1>6. ASSUME LogApproved(c)
      PROVE  TypeInv'
  <2>1. TrailOK' /\ FailedOK'
    BY <1>6, EntryType, AppendAuditType DEF LogApproved
  <2>2. CallsOK'
    BY <1>6, GotoType DEF LogApproved
  <2> QED
    BY <1>6, <2>1, <2>2 DEF LogApproved, RowsOK, SweepsOK, AccessOK, DecidedOK
<1>7. ASSUME Grant(c)
      PROVE  TypeInv'
  <2>1. AccessOK' /\ FailedOK' /\ (Goto(c, "activate") \/ Return(c))
    BY <1>7, ProviderGrantType DEF Grant
  <2>2. CallsOK'
    BY <1>7, <2>1, GotoType, ReturnType DEF Grant
  <2> QED
    BY <1>7, <2>1, <2>2 DEF Grant, RowsOK, SweepsOK, TrailOK, DecidedOK
<1>8. ASSUME Activate(c)
      PROVE  TypeInv'
  <2>1. [row[r] EXCEPT !.state = "ACTIVE"] \in Row
    BY <1>8, RowType DEF Activate
  <2>2. RowsOK' /\ FailedOK' /\ (Goto(c, "logIssued") \/ Return(c))
    BY <1>8, <2>1, TransitionType DEF Activate
  <2>3. CallsOK'
    BY <1>8, <2>2, GotoType, ReturnType DEF Activate
  <2> QED
    BY <1>8, <2>2, <2>3 DEF Activate, SweepsOK, AccessOK, TrailOK, DecidedOK
<1>9. ASSUME LogIssued(c)
      PROVE  TypeInv'
  <2>1. TrailOK' /\ FailedOK'
    BY <1>9, EntryType, AppendAuditType DEF LogIssued
  <2>2. CallsOK'
    BY <1>9, ReturnType DEF LogIssued
  <2> QED
    BY <1>9, <2>1, <2>2 DEF LogIssued, RowsOK, SweepsOK, AccessOK, DecidedOK
<1>10. ASSUME LogDenied(c)
      PROVE  TypeInv'
  <2>1. TrailOK' /\ FailedOK'
    BY <1>10, EntryType, AppendAuditType DEF LogDenied
  <2>2. CallsOK'
    BY <1>10, ReturnType DEF LogDenied
  <2> QED
    BY <1>10, <2>1, <2>2 DEF LogDenied, RowsOK, SweepsOK, AccessOK, DecidedOK
<1>11. ASSUME LogEscalated(c)
      PROVE  TypeInv'
  <2>1. TrailOK' /\ FailedOK'
    BY <1>11, EntryType, AppendAuditType DEF LogEscalated
  <2>2. CallsOK'
    BY <1>11, ReturnType DEF LogEscalated
  <2> QED
    BY <1>11, <2>1, <2>2 DEF LogEscalated, RowsOK, SweepsOK, AccessOK, DecidedOK
<1>12. ASSUME CommitRevoke(c)
      PROVE  TypeInv'
  <2>1. [row[r] EXCEPT !.state = "REVOKED"] \in Row
    BY <1>12, RowType DEF CommitRevoke
  <2>2. RowsOK' /\ FailedOK' /\ (Goto(c, "providerRevoke") \/ Return(c))
    BY <1>12, <2>1, TransitionType DEF CommitRevoke
  <2>3. CallsOK'
    BY <1>12, <2>2, GotoType, ReturnType DEF CommitRevoke
  <2> QED
    BY <1>12, <2>2, <2>3 DEF CommitRevoke, SweepsOK, AccessOK, TrailOK, DecidedOK
<1>13. ASSUME CallProviderRevoke(c)
      PROVE  TypeInv'
  <2>1. AccessOK' /\ FailedOK'
    BY <1>13, ProviderRevokeType DEF CallProviderRevoke
  <2>2. CallsOK'
    BY <1>13, GotoType DEF CallProviderRevoke
  <2> QED
    BY <1>13, <2>1, <2>2 DEF CallProviderRevoke, RowsOK, SweepsOK, TrailOK, DecidedOK
<1>14. ASSUME LogRevoked(c)
      PROVE  TypeInv'
  <2>1. TrailOK' /\ FailedOK'
    BY <1>14, EntryType, AppendAuditType DEF LogRevoked
  <2>2. CallsOK'
    BY <1>14, ReturnType DEF LogRevoked
  <2> QED
    BY <1>14, <2>1, <2>2 DEF LogRevoked, RowsOK, SweepsOK, AccessOK, DecidedOK
<1> QED
  BY <1>1, <1>2, <1>3, <1>4, <1>5, <1>6, <1>7, <1>8, <1>9, <1>10, <1>11, <1>12, <1>13,
     <1>14 DEF Handle

LEMMA SweepType ==
  ASSUME TypeInv, NEW s \in Sweepers, DoSweep(s)
  PROVE  TypeInv'
<1> USE DEF TypeInv
<1>1. ASSUME TryAcquireSweepLock(s)
      PROVE  TypeInv'
  <2>1. SweepsOK'
    BY <1>1 DEF TryAcquireSweepLock, SweepsOK, Sweep, SweepSteps
  <2> QED
    BY <1>1, <2>1 DEF TryAcquireSweepLock, RowsOK, CallsOK, Busy, AccessOK, TrailOK, FailedOK,
         DecidedOK
<1>2. ASSUME ListActiveExpired(s)
      PROVE  TypeInv'
  <2>1. SweepsOK'
    BY <1>2 DEF ListActiveExpired, ActiveExpired, SweepsOK, Sweep, SweepSteps
  <2>2. FailedOK'
    BY <1>2, FailsType DEF ListActiveExpired, Failures, FailedOK
  <2> QED
    BY <1>2, <2>1, <2>2 DEF ListActiveExpired, RowsOK, CallsOK, Busy, AccessOK, TrailOK,
         DecidedOK
<1>3. ASSUME NEW r \in Requests, SweepRevoke(s, r)
      PROVE  TypeInv'
  <2>1. SweepsOK'
    BY <1>3 DEF SweepRevoke, SweepsOK, Sweep, SweepSteps
  <2>2. AccessOK' /\ FailedOK'
    BY <1>3, ProviderRevokeType DEF SweepRevoke
  <2> QED
    BY <1>3, <2>1, <2>2 DEF SweepRevoke, RowsOK, CallsOK, Busy, TrailOK, DecidedOK
<1>4. ASSUME NextRequest(s), UNCHANGED sweepLock
      PROVE  SweepsOK'
  BY <1>4 DEF NextRequest, SweepsOK, Sweep, SweepSteps
<1>5. ASSUME SweepExpire(s)
      PROVE  TypeInv'
  <2> DEFINE r == sweeper[s].cur
  <2>1. r \in Requests
    BY <1>5 DEF SweepExpire, SweepsOK
  <2>2. [row[r] EXCEPT !.state = "EXPIRED"] \in Row
    BY <2>1, RowType DEF States
  <2>3. RowsOK' /\ FailedOK' /\ (SweepGoto(s, "log") \/ NextRequest(s))
    BY <1>5, <2>1, <2>2, TransitionType DEF SweepExpire
  <2>4. SweepsOK'
    <3>1. ASSUME SweepGoto(s, "log") PROVE SweepsOK'
      BY <1>5, <2>1, <3>1 DEF SweepExpire, SweepGoto, SweepsOK, Sweep, SweepSteps
    <3> QED
      BY <1>4, <1>5, <2>3, <3>1 DEF SweepExpire
  <2> QED
    BY <1>5, <2>3, <2>4 DEF SweepExpire, CallsOK, Busy, AccessOK, TrailOK, DecidedOK
<1>6. ASSUME SweepLog(s)
      PROVE  TypeInv'
  <2>1. sweeper[s].cur \in Requests
    BY <1>6 DEF SweepLog, SweepsOK
  <2>2. TrailOK' /\ FailedOK'
    BY <1>6, <2>1, EntryType, AppendAuditType DEF SweepLog
  <2>3. SweepsOK'
    BY <1>4, <1>6 DEF SweepLog
  <2> QED
    BY <1>6, <2>2, <2>3 DEF SweepLog, RowsOK, CallsOK, Busy, AccessOK, DecidedOK
<1>7. ASSUME ReleaseSweepLock(s)
      PROVE  TypeInv'
  <2>1. SweepsOK'
    BY <1>7 DEF ReleaseSweepLock, Unlock, SweepsOK, NoSweep, Sweep, SweepSteps
  <2> QED
    BY <1>7, <2>1 DEF ReleaseSweepLock, RowsOK, CallsOK, Busy, AccessOK, TrailOK, FailedOK,
         DecidedOK
<1> QED
  BY <1>1, <1>2, <1>3, <1>5, <1>6, <1>7 DEF DoSweep

LEMMA EnvironmentType ==
  ASSUME TypeInv, Environment
  PROVE  TypeInv'
<1> USE DEF TypeInv
<1>1. ASSUME NEW c \in Calls, AbortCall(c)
      PROVE  TypeInv'
  <2>1. call[c].req \in Requests
    BY <1>1 DEF AbortCall, CallsOK, Busy
  <2>2. FailedOK' /\ CallsOK'
    BY <1>1, <2>1, FailsType, ReturnType DEF AbortCall, Failures
  <2> QED
    BY <1>1, <2>2 DEF AbortCall, RowsOK, SweepsOK, AccessOK, TrailOK, DecidedOK
<1>2. ASSUME NEW s \in Sweepers, CrashSweeper(s)
      PROVE  TypeInv'
  <2>1. Pending(s) \subseteq Requests
    BY DEF Pending, SweepsOK, Sweep
  <2>2. FailedOK'
    BY <1>2, <2>1, FailsType DEF CrashSweeper, Failures
  <2>3. SweepsOK'
    BY <1>2 DEF CrashSweeper, Unlock, SweepsOK, NoSweep, Sweep, SweepSteps
  <2> QED
    BY <1>2, <2>2, <2>3 DEF CrashSweeper, RowsOK, CallsOK, Busy, AccessOK, TrailOK, DecidedOK
<1>3. ASSUME NEW s \in Sweepers, LoseSweepLock(s)
      PROVE  TypeInv'
  <2>1. FailedOK'
    BY <1>3, FailsType DEF LoseSweepLock, Failures
  <2> QED
    BY <1>3, <2>1 DEF LoseSweepLock, RowsOK, CallsOK, Busy, SweepsOK, AccessOK, TrailOK, DecidedOK
<1>4. ASSUME NEW r \in Requests, Elapse(r)
      PROVE  TypeInv'
  BY <1>4 DEF Elapse, RowsOK, CallsOK, Busy, SweepsOK, AccessOK, TrailOK, FailedOK, DecidedOK
<1> QED
  BY <1>1, <1>2, <1>3, <1>4 DEF Environment

LEMMA StutterType ==
  ASSUME TypeInv, UNCHANGED vars
  PROVE  TypeInv'
BY DEF vars, TypeInv, RowsOK, CallsOK, Busy, SweepsOK, AccessOK, TrailOK, FailedOK, DecidedOK

LEMMA InitType == Init => TypeInv
BY IdentityAssumption
   DEF Init, TypeInv, RowsOK, CallsOK, Busy, SweepsOK, AccessOK, TrailOK, FailedOK, DecidedOK,
       NoRow, Row, Kinds, States, Tiers, Approvers, NoCall, Call, CallSteps, NoSweep, Sweep, SweepSteps

LEMMA NextType == TypeInv /\ [Next]_vars => TypeInv'
BY ArriveType, HandleType, SweepType, EnvironmentType, StutterType DEF Next

LEMMA TypeInvAlways == Spec => []TypeInv
BY InitType, NextType, PTL DEF Spec

\* Every variable keeps its type in every reachable state, whatever the constants.
THEOREM TypeCorrect == Spec => []TypeOK
BY TypeInvAlways, TypeInvIsStronger, PTL
=============================================================================
