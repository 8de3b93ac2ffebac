----------------------- MODULE RequestWorkflowProofs -----------------------
(***************************************************************************)
(* The safety theorems about RequestWorkflow: an APPROVED row has one      *)
(* owner and a request is granted once, the workflow implements the        *)
(* lifecycle of Lifecycle.tla, sweeps exclude each other, a grant has a    *)
(* decision behind it and a break-glass request its alert, no approval is  *)
(* abandoned, access at the provider is accounted for, and the audit log   *)
(* is truthful, in order, without repetition and complete.                 *)
(***************************************************************************)
EXTENDS RequestWorkflowTypes

(* Ownership. SoleOwner is not inductive by itself: that nobody owns a row  *)
(* when it is approved follows from its being PENDING then, and that it is  *)
(* granted once from the count of grants each state allows.                 *)

OwnerSteps == {"eval", "rollback", "logApproved", "grant", "activate"}

OwnersOK ==
  /\ \A c \in Calls : Owns(c) =>
       /\ row[call[c].req].state = "APPROVED"
       /\ issued[call[c].req] = IF At(c, "activate") THEN 1 ELSE 0
  /\ \A c, d \in Calls : Owns(c) /\ Owns(d) /\ call[c].req = call[d].req => c = d

IssuedOK ==
  \A r \in Requests :
    /\ row[r].state \in {"ABSENT", "PENDING", "REJECTED"} => issued[r] = 0
    /\ row[r].state = "APPROVED" => issued[r] \in {0, 1}
    /\ row[r].state \in {"ACTIVE", "EXPIRED", "REVOKED"} => issued[r] = 1

OwnInv == TypeInv /\ OwnersOK /\ IssuedOK

-----------------------------------------------------------------------------
(* The ways a step can change rows, owners and grants *)

LEMMA TransitionCases ==
  ASSUME NEW r, NEW from, NEW new, NEW ACTION Reaches, NEW ACTION Returns,
         Transition(r, from, new, Reaches, Returns)
  PROVE  \/ row[r].state = from /\ row' = [row EXCEPT ![r] = new] /\ (Reaches \/ Returns)
         \/ UNCHANGED row /\ Returns
BY DEF Transition, InState

\* The handler is at a step where it owns nothing afterwards; rows and grants stay.
LEMMA OwnQuiet ==
  ASSUME OwnInv, NEW c \in Calls, NEW x, call' = [call EXCEPT ![c] = x],
         x.at \notin OwnerSteps, UNCHANGED <<row, issued>>
  PROVE  OwnersOK' /\ IssuedOK'
BY DEF OwnInv, OwnersOK, IssuedOK, Owns, At, OwnerSteps, TypeInv, CallsOK

\* A row that is not APPROVED, or whose owner lets it go, moves to a state its count of
\* grants allows.
LEMMA OwnMove ==
  ASSUME OwnInv, NEW r \in Requests, NEW new,
         row' = [row EXCEPT ![r] = new], UNCHANGED issued,
         \A d \in Calls : Owns(d)' => /\ Owns(d) /\ call'[d] = call[d]
                                      /\ call[d].req = r => new.state = "APPROVED",
         \/ new.state \in {"PENDING", "REJECTED"} /\ issued[r] = 0
         \/ new.state = "APPROVED" /\ issued[r] \in {0, 1}
         \/ new.state \in {"ACTIVE", "EXPIRED", "REVOKED"} /\ issued[r] = 1
  PROVE  OwnersOK' /\ IssuedOK'
<1>1. OwnersOK'
  BY DEF OwnInv, OwnersOK, Owns, At, TypeInv, CallsOK, RowsOK, Busy
<1>2. IssuedOK'
  BY DEF OwnInv, IssuedOK, TypeInv, RowsOK
<1> QED
  BY <1>1, <1>2

\* A handler approves a PENDING row and becomes its only owner.
LEMMA OwnTake ==
  ASSUME OwnInv, NEW c \in Calls, NEW r \in Requests, NEW new, NEW x,
         row[r].state = "PENDING", row' = [row EXCEPT ![r] = new], new.state = "APPROVED",
         call' = [call EXCEPT ![c] = x], x.req = r,
         x.at \in OwnerSteps \ {"activate"}, UNCHANGED issued
  PROVE  OwnersOK' /\ IssuedOK'
<1>1. issued[r] = 0
  BY DEF OwnInv, IssuedOK
<1>2. \A d \in Calls : Owns(d) => call[d].req # r
  BY DEF OwnInv, OwnersOK
<1>3. /\ \A q \in Requests \ {r} : row'[q] = row[q]
      /\ row'[r].state = "APPROVED"
  BY DEF OwnInv, TypeInv, RowsOK
<1>4. /\ call'[c] = x
      /\ \A d \in Calls \ {c} : call'[d] = call[d]
  BY DEF OwnInv, TypeInv, CallsOK
<1>5. \A d \in Calls : Owns(d) => call[d].req \in Requests
  BY DEF OwnInv, TypeInv, CallsOK, Busy, Owns
<1>6. OwnersOK'
  BY <1>1, <1>2, <1>3, <1>4, <1>5 DEF OwnInv, OwnersOK, Owns, At, OwnerSteps
<1>7. IssuedOK'
  BY <1>1, <1>3 DEF OwnInv, IssuedOK
<1> QED
  BY <1>6, <1>7

-----------------------------------------------------------------------------
(* Every step keeps the ownership invariant and is a step of the lifecycle *)

LStep == [L!Next]_(L!vars)

Kept == OwnersOK' /\ IssuedOK' /\ LStep

LEMMA LStutter ==
  ASSUME UNCHANGED <<row, issued>>
  PROVE  LStep
BY DEF LStep, L!vars

LEMMA LMove ==
  ASSUME RowsOK, NEW r \in Requests, NEW new, NEW from, row[r].state = from,
         row' = [row EXCEPT ![r] = new], UNCHANGED issued
  PROVE  L!Move(r, from, new.state)
BY DEF RowsOK, L!Move

\* The lifecycle step of a transition, by the states it joins.
LEMMA LTransition ==
  ASSUME RowsOK, NEW r \in Requests, NEW new, row' = [row EXCEPT ![r] = new], UNCHANGED issued,
         \/ row[r].state = "ABSENT" /\ new.state = "PENDING"
         \/ row[r].state = "PENDING" /\ new.state \in {"APPROVED", "REJECTED"}
         \/ row[r].state = "APPROVED" /\ new.state = "PENDING" /\ issued[r] = 0
         \/ row[r].state = "APPROVED" /\ new.state = "ACTIVE" /\ issued[r] = 1
         \/ row[r].state = "ACTIVE" /\ new.state \in {"EXPIRED", "REVOKED"}
  PROVE  LStep
<1>1. L!Move(r, row[r].state, new.state)
  BY LMove
<1> QED
  BY <1>1 DEF LStep, L!Next, L!Submit, L!Approve, L!Reject, L!Withdraw, L!Activate, L!Expire,
       L!Revoke

\* A tier change moves no state.
LEMMA LSameState ==
  ASSUME RowsOK, NEW r \in Requests, NEW new, row' = [row EXCEPT ![r] = new],
         new.state = row[r].state, UNCHANGED issued
  PROVE  LStep
<1>1. \A q \in Requests : row'[q].state = row[q].state
  BY DEF RowsOK
<1> QED
  BY <1>1 DEF LStep, L!vars

\* Nobody owns a row that is not APPROVED.
LEMMA NoOwner ==
  ASSUME OwnInv, NEW r \in Requests, row[r].state # "APPROVED"
  PROVE  \A d \in Calls : Owns(d) => call[d].req # r
BY DEF OwnInv, OwnersOK

\* A handler that owns nothing afterwards, and every other handler, is as before.
LEMMA OthersKept ==
  ASSUME CallsOK, NEW c \in Calls, NEW x, call' = [call EXCEPT ![c] = x],
         x.at \notin OwnerSteps
  PROVE  \A d \in Calls : Owns(d)' => d # c /\ Owns(d) /\ call'[d] = call[d]
BY DEF CallsOK, Owns, OwnerSteps

\* A transition out of a state nobody can own, by a handler that ends up owning nothing.
LEMMA KeptByMove ==
  ASSUME OwnInv, NEW c \in Calls, NEW x, call' = [call EXCEPT ![c] = x],
         x.at \notin OwnerSteps, NEW r \in Requests, NEW new,
         row' = [row EXCEPT ![r] = new], UNCHANGED issued,
         \/ row[r].state = "PENDING" /\ new.state \in {"REJECTED", "PENDING"}
         \/ row[r].state = "ABSENT" /\ new.state = "PENDING"
         \/ row[r].state = "PENDING" /\ new.state = "APPROVED"
         \/ row[r].state = "ACTIVE" /\ new.state \in {"EXPIRED", "REVOKED"}
  PROVE  Kept
<1>1. row[r].state # "APPROVED"
  OBVIOUS
<1>2. \A d \in Calls : Owns(d)' => Owns(d) /\ call'[d] = call[d] /\ call[d].req # r
  BY <1>1, NoOwner, OthersKept DEF OwnInv, TypeInv
<1>3. OwnersOK' /\ IssuedOK'
  <2>1. \/ new.state \in {"PENDING", "REJECTED"} /\ issued[r] = 0
        \/ new.state = "APPROVED" /\ issued[r] \in {0, 1}
        \/ new.state \in {"ACTIVE", "EXPIRED", "REVOKED"} /\ issued[r] = 1
    BY DEF OwnInv, IssuedOK
  <2> QED
    BY <1>2, <2>1, OwnMove
<1>4. LStep
  BY LTransition, LSameState DEF OwnInv, TypeInv
<1> QED
  BY <1>3, <1>4 DEF Kept

\* An approval by a handler that becomes the owner.
LEMMA KeptByTake ==
  ASSUME OwnInv, NEW c \in Calls, NEW r \in Requests, NEW new, NEW x,
         row[r].state = "PENDING", row' = [row EXCEPT ![r] = new], new.state = "APPROVED",
         call' = [call EXCEPT ![c] = x], x.req = r,
         x.at \in OwnerSteps \ {"activate"}, UNCHANGED issued
  PROVE  Kept
BY OwnTake, LTransition DEF Kept, OwnInv, TypeInv

LEMMA KeptByQuiet ==
  ASSUME OwnInv, NEW c \in Calls, NEW x, call' = [call EXCEPT ![c] = x],
         x.at \notin OwnerSteps, UNCHANGED <<row, issued>>
  PROVE  Kept
BY OwnQuiet, LStutter DEF Kept

LEMMA KeptByOthers ==
  ASSUME OwnInv, UNCHANGED <<row, issued, call>>
  PROVE  Kept
<1>1. LStep
  BY LStutter
<1> QED
  BY <1>1 DEF Kept, OwnInv, OwnersOK, IssuedOK, Owns, At

\* The three ways a handler moves, in one form.
Moves(c, step, r) ==
  \E x : call' = [call EXCEPT ![c] = x] /\ x.at = step /\ x.req = r

LEMMA HandlerMoves ==
  ASSUME CallsOK, NEW c \in Calls, NEW step
  PROVE  /\ Goto(c, step) => Moves(c, step, call[c].req)
         /\ Return(c) => Moves(c, "done", Null)
         /\ \A op, r, actor : Enter(c, op, r, actor, step) => Moves(c, step, r)
<1>1. ASSUME Goto(c, step) PROVE Moves(c, step, call[c].req)
  <2> DEFINE x == [call[c] EXCEPT !.at = step]
  <2>1. call' = [call EXCEPT ![c] = x] /\ x.at = step /\ x.req = call[c].req
    BY <1>1 DEF Goto, CallsOK, Call
  <2> QED
    BY <2>1 DEF Moves
<1>2. ASSUME Return(c) PROVE Moves(c, "done", Null)
  <2>1. Returned.at = "done" /\ Returned.req = Null
    BY DEF Returned, NoCall
  <2>2. call' = [call EXCEPT ![c] = Returned]
    BY <1>2 DEF Return
  <2> QED
    BY <2>1, <2>2 DEF Moves
<1>3. ASSUME NEW op, NEW r, NEW actor, Enter(c, op, r, actor, step)
      PROVE  Moves(c, step, r)
  <2> DEFINE x == [at |-> step, op |-> op, req |-> r, actor |-> actor]
  <2>1. x.at = step /\ x.req = r
    OBVIOUS
  <2>2. call' = [call EXCEPT ![c] = x]
    BY <1>3 DEF Enter
  <2> HIDE DEF x
  <2> QED
    BY <2>1, <2>2 DEF Moves
<1> QED
  BY <1>1, <1>2, <1>3

LEMMA KeptByReturn ==
  ASSUME OwnInv, NEW c \in Calls, NEW step, NEW r, Moves(c, step, r),
         step \notin OwnerSteps, UNCHANGED <<row, issued>>
  PROVE  Kept
<1>1. PICK x : call' = [call EXCEPT ![c] = x] /\ x.at = step
  BY DEF Moves
<1> QED
  BY <1>1, KeptByQuiet

LEMMA ArriveOwn ==
  ASSUME OwnInv, NEW c \in Calls, Arrive(c)
  PROVE  Kept
<1> USE DEF OwnerSteps
<1>0. CallsOK /\ RowsOK
  BY DEF OwnInv, TypeInv
<1>1. ASSUME NEW r \in Requests, NEW u \in Users, NEW tier, NEW op, Insert(c, r, u, tier, op)
      PROVE  Kept
  <2> DEFINE new == [state |-> "PENDING", kind |-> KindOf(op), requester |-> u, tier |-> tier,
                      approver |-> Null]
  <2>1. /\ row[r].state = "ABSENT" /\ new.state = "PENDING"
        /\ row' = [row EXCEPT ![r] = new] /\ UNCHANGED issued
    BY <1>1 DEF Insert, NoRow
  <2>2. Moves(c, "logCreated", r) \/ Moves(c, "done", Null)
    BY <1>0, <1>1, HandlerMoves DEF Insert
  <2> HIDE DEF new
  <2> QED
    BY <2>1, <2>2, KeptByMove DEF Moves
<1>2. ASSUME NEW r \in Requests, NEW new, NEW step, UNCHANGED issued,
             \/ /\ row[r].state = "PENDING" /\ row' = [row EXCEPT ![r] = new]
                /\ Moves(c, step, r) \/ Moves(c, "done", Null)
             \/ UNCHANGED row /\ Moves(c, "done", Null),
             \/ new.state = "APPROVED" /\ step \in {"eval", "logApproved"}
             \/ new.state \in {"REJECTED", "PENDING"} /\ step \in {"logDenied", "logEscalated"}
      PROVE  Kept
  <2>1. CASE UNCHANGED row
    BY <1>2, <2>1, KeptByReturn, KeptByMove, KeptByTake DEF Moves
  <2>2. CASE row' = [row EXCEPT ![r] = new] /\ row[r].state = "PENDING" /\ Moves(c, "done", Null)
    BY <1>2, <2>2, KeptByMove DEF Moves
  <2>3. CASE row' = [row EXCEPT ![r] = new] /\ row[r].state = "PENDING" /\ Moves(c, step, r)
    BY <1>2, <2>3, KeptByMove, KeptByTake DEF Moves
  <2> QED
    BY <1>2, <2>1, <2>2, <2>3
<1>3. ASSUME NEW r \in Requests, NEW u \in Users, ApproveRequest(c, r, u)
      PROVE  Kept
  <2> DEFINE new == [row[r] EXCEPT !.state = "APPROVED", !.approver = u]
  <2>1. new.state = "APPROVED"
    BY <1>0 DEF RowsOK, Row
  <2>2. \/ /\ row[r].state = "PENDING" /\ row' = [row EXCEPT ![r] = new]
           /\ Enter(c, "approve", r, u, "eval") \/ Return(c)
        \/ UNCHANGED row /\ Return(c)
    BY <1>3, TransitionCases DEF ApproveRequest
  <2> HIDE DEF new
  <2> QED
    BY <1>0, <1>2, <1>3, <2>1, <2>2, HandlerMoves DEF ApproveRequest
<1>4. ASSUME NEW r \in Requests, NEW op, NEW a, Deny(c, op, r, a)
      PROVE  Kept
  <2> DEFINE new == [row[r] EXCEPT !.state = "REJECTED", !.approver = a]
  <2>1. new.state = "REJECTED"
    BY <1>0 DEF RowsOK, Row
  <2>2. \/ /\ row[r].state = "PENDING" /\ row' = [row EXCEPT ![r] = new]
           /\ Enter(c, op, r, a, "logDenied") \/ Return(c)
        \/ UNCHANGED row /\ Return(c)
    BY <1>4, TransitionCases DEF Deny
  <2> HIDE DEF new
  <2> QED
    BY <1>0, <1>2, <1>4, <2>1, <2>2, HandlerMoves DEF Deny
<1>5. ASSUME NEW r \in Requests, NEW u \in Users, RevokeRequest(c, r, u)
      PROVE  Kept
  <2>1. Enter(c, "revoke", r, u, "revoke") /\ UNCHANGED <<row, issued>>
    BY <1>5 DEF RevokeRequest
  <2>2. Moves(c, "revoke", r)
    BY <1>0, <2>1, HandlerMoves
  <2> QED
    BY <2>1, <2>2, KeptByReturn
<1>6. ASSUME NEW r \in Requests, AIApproveRequest(c, r)
      PROVE  Kept
  <2> DEFINE new == [row[r] EXCEPT !.state = "APPROVED", !.approver = Agent]
  <2>1. new.state = "APPROVED"
    BY <1>0 DEF RowsOK, Row
  <2>2. \/ /\ row[r].state = "PENDING" /\ row' = [row EXCEPT ![r] = new]
           /\ Enter(c, "ai_approve", r, Agent, "logApproved") \/ Return(c)
        \/ UNCHANGED row /\ Return(c)
    BY <1>6, TransitionCases DEF AIApproveRequest
  <2> HIDE DEF new
  <2> QED
    BY <1>0, <1>2, <1>6, <2>1, <2>2, HandlerMoves DEF AIApproveRequest
<1>7. ASSUME NEW r \in Requests, AIEscalateRequest(c, r)
      PROVE  Kept
  <2> DEFINE new == [row[r] EXCEPT !.tier = "human"]
  <2>1. new.state = row[r].state
    BY <1>0 DEF RowsOK, Row
  <2>2. \/ /\ row[r].state = "PENDING" /\ row' = [row EXCEPT ![r] = new]
           /\ Enter(c, "ai_escalate", r, Agent, "logEscalated") \/ Return(c)
        \/ UNCHANGED row /\ Return(c)
    BY <1>7, TransitionCases DEF AIEscalateRequest
  <2> HIDE DEF new
  <2>3. CASE row[r].state = "PENDING"
    BY <1>0, <1>2, <1>7, <2>1, <2>2, <2>3, HandlerMoves DEF AIEscalateRequest
  <2>4. CASE row[r].state # "PENDING"
    BY <1>0, <1>7, <2>2, <2>4, HandlerMoves, KeptByReturn DEF AIEscalateRequest
  <2> QED
    BY <2>3, <2>4
<1> QED
  BY <1>1, <1>3, <1>4, <1>5, <1>6, <1>7
     DEF Arrive, CreateRequest, CreateBreakGlass, DenyRequest, AIDenyRequest

LEMMA HandleOwn ==
  ASSUME OwnInv, NEW c \in Calls, Handle(c)
  PROVE  Kept
<1> USE DEF OwnerSteps
<1> DEFINE r == call[c].req
<1>0. CallsOK /\ RowsOK
  BY DEF OwnInv, TypeInv
<1>a. ASSUME NEW step, At(c, step), step \notin {"idle", "done"}
      PROVE  r \in Requests
  BY <1>0, <1>a DEF CallsOK, Busy, At
<1>b. ASSUME NEW step, NEW q, Moves(c, step, q), step \notin OwnerSteps, UNCHANGED <<row, issued>>
      PROVE  Kept
  BY <1>b, KeptByReturn
\* An owner takes its next step without touching the row or the count of grants.
<1>c. ASSUME NEW step \in OwnerSteps \ {"activate"}, Owns(c), ~At(c, "activate"),
             Moves(c, step, r), UNCHANGED <<row, issued>>
      PROVE  Kept
  <2>1. PICK x : call' = [call EXCEPT ![c] = x] /\ x.at = step /\ x.req = r
    BY <1>c DEF Moves
  <2>2. OwnersOK'
    BY <1>0, <1>c, <2>1 DEF OwnInv, OwnersOK, Owns, At, CallsOK
  <2>3. IssuedOK' /\ LStep
    BY <1>c, LStutter DEF OwnInv, IssuedOK
  <2> QED
    BY <2>2, <2>3 DEF Kept
<1>1. ASSUME LogCreated(c)
      PROVE  Kept
  <2>1. UNCHANGED <<row, issued>>
    BY <1>1 DEF LogCreated
  <2>2. Goto(c, "selfApprove") \/ Goto(c, "alert") \/ Return(c)
    BY <1>1 DEF LogCreated, AfterCreated
  <2>3. Moves(c, "selfApprove", r) \/ Moves(c, "alert", r) \/ Moves(c, "done", Null)
    BY <1>0, <2>2, HandlerMoves
  <2> QED
    BY <1>b, <2>1, <2>3
<1>2. ASSUME Alert(c)
      PROVE  Kept
  <2>1. Goto(c, "selfApprove") /\ UNCHANGED <<row, issued>>
    BY <1>2 DEF Alert
  <2>2. Moves(c, "selfApprove", r)
    BY <1>0, <2>1, HandlerMoves
  <2> QED
    BY <1>b, <2>1, <2>2
<1>3. ASSUME SelfApprove(c)
      PROVE  Kept
  <2> DEFINE approver == IF call[c].op = "auto" THEN "policy" ELSE "break-glass"
             new == [row[r] EXCEPT !.state = "APPROVED", !.approver = approver]
  <2>1. r \in Requests
    BY <1>3, <1>a DEF SelfApprove
  <2>2. new.state = "APPROVED"
    BY <1>0, <2>1 DEF RowsOK, Row
  <2>3. \/ /\ row[r].state = "PENDING" /\ row' = [row EXCEPT ![r] = new]
           /\ Goto(c, "logApproved") \/ Return(c)
        \/ UNCHANGED row /\ Return(c)
    BY <1>3, TransitionCases DEF SelfApprove
  <2>4. UNCHANGED issued
    BY <1>3 DEF SelfApprove
  <2>5. Goto(c, "logApproved") => Moves(c, "logApproved", r)
    BY <1>0, HandlerMoves
  <2>6. Return(c) => Moves(c, "done", Null)
    BY <1>0, HandlerMoves
  <2> HIDE DEF new, r
  <2>7. CASE UNCHANGED row /\ Return(c)
    BY <1>b, <2>4, <2>6, <2>7
  <2>8. CASE row[r].state = "PENDING" /\ row' = [row EXCEPT ![r] = new] /\ Return(c)
    BY <2>1, <2>2, <2>4, <2>6, <2>8, KeptByMove DEF Moves
  <2>9. CASE row[r].state = "PENDING" /\ row' = [row EXCEPT ![r] = new] /\ Goto(c, "logApproved")
    BY <2>1, <2>2, <2>4, <2>5, <2>9, KeptByTake DEF Moves
  <2> QED
    BY <2>3, <2>7, <2>8, <2>9
<1>4. ASSUME EvalApproval(c)
      PROVE  Kept
  <2>1. Goto(c, "logApproved") \/ Goto(c, "rollback")
    BY <1>4 DEF EvalApproval, AfterVerdict
  <2>2. Moves(c, "logApproved", r) \/ Moves(c, "rollback", r)
    BY <1>0, <2>1, HandlerMoves
  <2>3. UNCHANGED <<row, issued>> /\ Owns(c) /\ ~At(c, "activate")
    BY <1>4 DEF EvalApproval, At, Owns
  <2> QED
    BY <1>c, <2>2, <2>3
\* The owner lets its row go: to PENDING before a grant, to ACTIVE after one.
<1>d. ASSUME Owns(c), NEW new, NEW step, NEW q, Moves(c, step, q), step \notin OwnerSteps,
             row' = [row EXCEPT ![r] = new], UNCHANGED issued,
             \/ new.state = "PENDING" /\ ~At(c, "activate")
             \/ new.state = "ACTIVE" /\ At(c, "activate")
      PROVE  Kept
  <2>1. r \in Requests
    BY <1>0, <1>d DEF CallsOK, Busy, Owns
  <2>2. row[r].state = "APPROVED" /\ issued[r] = IF At(c, "activate") THEN 1 ELSE 0
    BY <1>d DEF OwnInv, OwnersOK
  <2>3. PICK x : call' = [call EXCEPT ![c] = x] /\ x.at = step
    BY <1>d DEF Moves
  <2>4. \A d \in Calls : Owns(d)' => d # c /\ Owns(d) /\ call'[d] = call[d]
    BY <1>0, <1>d, <2>3, OthersKept
  <2>5. \A d \in Calls : Owns(d)' => Owns(d) /\ call'[d] = call[d] /\ call[d].req # r
    BY <1>d, <2>4 DEF OwnInv, OwnersOK
  <2> HIDE DEF r
  <2>6. OwnersOK' /\ IssuedOK'
    BY <1>d, <2>1, <2>2, <2>5, OwnMove
  <2>7. LStep
    BY <1>0, <1>d, <2>1, <2>2, LTransition
  <2> QED
    BY <2>6, <2>7 DEF Kept
<1>5. ASSUME Rollback(c)
      PROVE  Kept
  <2> DEFINE new == [row[r] EXCEPT !.state = "PENDING"]
  <2>1. Owns(c) /\ ~At(c, "activate") /\ r \in Requests /\ UNCHANGED issued
    BY <1>5, <1>a DEF Rollback, Owns, At
  <2>2. new.state = "PENDING"
    BY <1>0, <2>1 DEF RowsOK, Row
  <2>3. Return(c) /\ (row' = [row EXCEPT ![r] = new] \/ UNCHANGED row)
    BY <1>5, TransitionCases DEF Rollback
  <2>4. Moves(c, "done", Null)
    BY <1>0, <2>3, HandlerMoves
  <2> HIDE DEF new
  <2> QED
    BY <1>b, <1>d, <2>1, <2>2, <2>3, <2>4
<1>6. ASSUME LogApproved(c)
      PROVE  Kept
  <2>1. Goto(c, "grant") /\ UNCHANGED <<row, issued>> /\ Owns(c) /\ ~At(c, "activate")
    BY <1>6 DEF LogApproved, At, Owns
  <2>2. Moves(c, "grant", r)
    BY <1>0, <2>1, HandlerMoves
  <2> QED
    BY <1>c, <2>1, <2>2
<1>7. ASSUME Grant(c)
      PROVE  Kept
  <2>1. Owns(c) /\ ~At(c, "activate") /\ r \in Requests /\ UNCHANGED row
    BY <1>7, <1>a DEF Grant, Owns, At
  <2>2. row[r].state = "APPROVED" /\ issued[r] = 0
    BY <2>1 DEF OwnInv, OwnersOK
  <2>3. \/ issued' = [issued EXCEPT ![r] = @ + 1] /\ (Goto(c, "activate") \/ Return(c))
        \/ UNCHANGED issued /\ Return(c)
    BY <1>7 DEF Grant, ProviderGrant
  <2>4. /\ Goto(c, "activate") => Moves(c, "activate", r)
        /\ Return(c) => Moves(c, "done", Null)
    BY <1>0, HandlerMoves
  <2>5. CASE UNCHANGED issued /\ Return(c)
    BY <1>b, <2>1, <2>4, <2>5
  <2>6. CASE /\ issued' = [issued EXCEPT ![r] = @ + 1]
             /\ Moves(c, "activate", r) \/ Moves(c, "done", Null)
    <3>1. issued' = [issued EXCEPT ![r] = 1]
      BY <2>1, <2>2, <2>6 DEF OwnInv, TypeInv, AccessOK
    <3>2. PICK x : /\ call' = [call EXCEPT ![c] = x]
                   /\ (x.at = "activate" /\ x.req = r) \/ x.at = "done"
      BY <2>6 DEF Moves
    <3>3. /\ issued'[r] = 1
          /\ \A q \in Requests \ {r} : issued'[q] = issued[q]
      BY <2>1, <3>1 DEF OwnInv, TypeInv, AccessOK
    <3>4. /\ call'[c] = x
          /\ \A d \in Calls \ {c} : call'[d] = call[d]
      BY <1>0, <3>2 DEF CallsOK
    <3>5. \A d \in Calls : Owns(d) => call[d].req \in Requests
      BY <1>0 DEF CallsOK, Busy, Owns
    <3>6. \A d \in Calls \ {c} : Owns(d) => call[d].req # r
      BY <2>1 DEF OwnInv, OwnersOK
    <3>7. OwnersOK'
      BY <2>1, <2>2, <3>2, <3>3, <3>4, <3>5, <3>6 DEF OwnInv, OwnersOK, Owns, At
    <3>8. IssuedOK'
      BY <2>1, <2>2, <3>3 DEF OwnInv, IssuedOK
    <3>9. LStep
      BY <2>1, <2>2, <3>1 DEF LStep, L!Next, L!Issue
    <3> QED
      BY <3>7, <3>8, <3>9 DEF Kept
  <2> QED
    BY <2>3, <2>4, <2>5, <2>6
<1>8. ASSUME Activate(c)
      PROVE  Kept
  <2> DEFINE new == [row[r] EXCEPT !.state = "ACTIVE"]
  <2>1. Owns(c) /\ At(c, "activate") /\ r \in Requests /\ UNCHANGED issued
    BY <1>8, <1>a DEF Activate, Owns, At
  <2>2. new.state = "ACTIVE"
    BY <1>0, <2>1 DEF RowsOK, Row
  <2>3. \/ row' = [row EXCEPT ![r] = new] /\ (Goto(c, "logIssued") \/ Return(c))
        \/ UNCHANGED row /\ Return(c)
    BY <1>8, TransitionCases DEF Activate
  <2>4. /\ Goto(c, "logIssued") => Moves(c, "logIssued", r)
        /\ Return(c) => Moves(c, "done", Null)
    BY <1>0, HandlerMoves
  <2> HIDE DEF new
  <2> QED
    BY <1>b, <1>d, <2>1, <2>2, <2>3, <2>4
<1>9. ASSUME LogIssued(c)
      PROVE  Kept
  <2>1. Return(c) /\ UNCHANGED <<row, issued>>
    BY <1>9 DEF LogIssued
  <2>2. Moves(c, "done", Null)
    BY <1>0, <2>1, HandlerMoves
  <2> QED
    BY <1>b, <2>1, <2>2
<1>10. ASSUME LogDenied(c)
      PROVE  Kept
  <2>1. Return(c) /\ UNCHANGED <<row, issued>>
    BY <1>10 DEF LogDenied
  <2>2. Moves(c, "done", Null)
    BY <1>0, <2>1, HandlerMoves
  <2> QED
    BY <1>b, <2>1, <2>2
<1>11. ASSUME LogEscalated(c)
      PROVE  Kept
  <2>1. Return(c) /\ UNCHANGED <<row, issued>>
    BY <1>11 DEF LogEscalated
  <2>2. Moves(c, "done", Null)
    BY <1>0, <2>1, HandlerMoves
  <2> QED
    BY <1>b, <2>1, <2>2
<1>12. ASSUME CommitRevoke(c)
      PROVE  Kept
  <2> DEFINE new == [row[r] EXCEPT !.state = "REVOKED"]
  <2>1. r \in Requests /\ UNCHANGED issued
    BY <1>12, <1>a DEF CommitRevoke
  <2>2. new.state = "REVOKED"
    BY <1>0, <2>1 DEF RowsOK, Row
  <2>3. \/ /\ row[r].state = "ACTIVE" /\ row' = [row EXCEPT ![r] = new]
           /\ Goto(c, "providerRevoke") \/ Return(c)
        \/ UNCHANGED row /\ Return(c)
    BY <1>12, TransitionCases DEF CommitRevoke
  <2>4. /\ Goto(c, "providerRevoke") => Moves(c, "providerRevoke", r)
        /\ Return(c) => Moves(c, "done", Null)
    BY <1>0, HandlerMoves
  <2> HIDE DEF new, r
  <2>5. CASE UNCHANGED row /\ Return(c)
    BY <1>b, <2>1, <2>4, <2>5
  <2>6. CASE /\ row[r].state = "ACTIVE" /\ row' = [row EXCEPT ![r] = new]
             /\ Moves(c, "providerRevoke", r) \/ Moves(c, "done", Null)
    BY <2>1, <2>2, <2>6, KeptByMove DEF Moves
  <2> QED
    BY <2>3, <2>4, <2>5, <2>6
<1>13. ASSUME CallProviderRevoke(c)
      PROVE  Kept
  <2>1. Goto(c, "logRevoked") /\ UNCHANGED <<row, issued>>
    BY <1>13 DEF CallProviderRevoke
  <2>2. Moves(c, "logRevoked", r)
    BY <1>0, <2>1, HandlerMoves
  <2> QED
    BY <1>b, <2>1, <2>2
<1>14. ASSUME LogRevoked(c)
      PROVE  Kept
  <2>1. Return(c) /\ UNCHANGED <<row, issued>>
    BY <1>14 DEF LogRevoked
  <2>2. Moves(c, "done", Null)
    BY <1>0, <2>1, HandlerMoves
  <2> QED
    BY <1>b, <2>1, <2>2
<1> QED
  BY <1>1, <1>2, <1>3, <1>4, <1>5, <1>6, <1>7, <1>8, <1>9, <1>10, <1>11, <1>12, <1>13,
     <1>14 DEF Handle

LEMMA SweepOwn ==
  ASSUME OwnInv, NEW s \in Sweepers, DoSweep(s)
  PROVE  Kept
<1>0. RowsOK
  BY DEF OwnInv, TypeInv
<1>1. ASSUME SweepExpire(s)
      PROVE  Kept
  <2> DEFINE r == sweeper[s].cur
             new == [row[r] EXCEPT !.state = "EXPIRED"]
  <2>1. r \in Requests /\ UNCHANGED <<issued, call>>
    BY <1>1 DEF SweepExpire, OwnInv, TypeInv, SweepsOK
  <2>2. new.state = "EXPIRED"
    BY <1>0, <2>1 DEF RowsOK, Row
  <2>3. \/ row[r].state = "ACTIVE" /\ row' = [row EXCEPT ![r] = new]
        \/ UNCHANGED row
    BY <1>1, TransitionCases DEF SweepExpire
  <2> HIDE DEF new, r
  <2>4. CASE row[r].state = "ACTIVE" /\ row' = [row EXCEPT ![r] = new]
    <3>1. \A d \in Calls : Owns(d)' => Owns(d) /\ call'[d] = call[d] /\ call[d].req # r
      BY <2>1, <2>4, NoOwner DEF Owns
    <3>2. issued[r] = 1
      BY <2>1, <2>4 DEF OwnInv, IssuedOK
    <3>3. OwnersOK' /\ IssuedOK'
      BY <2>1, <2>2, <2>4, <3>1, <3>2, OwnMove
    <3>4. LStep
      BY <1>0, <2>1, <2>2, <2>4, LTransition
    <3> QED
      BY <3>3, <3>4 DEF Kept
  <2> QED
    BY <2>1, <2>3, <2>4, KeptByOthers
<1>2. ASSUME ~SweepExpire(s)
      PROVE  UNCHANGED <<row, issued, call>>
  BY <1>2 DEF DoSweep, TryAcquireSweepLock, ListActiveExpired, SweepRevoke, SweepLog,
       ReleaseSweepLock
<1> QED
  BY <1>1, <1>2, KeptByOthers

LEMMA EnvironmentOwn ==
  ASSUME OwnInv, Environment
  PROVE  Kept
<1>1. ASSUME NEW c \in Calls, AbortCall(c)
      PROVE  Kept
  <2>1. Moves(c, "done", Null) /\ UNCHANGED <<row, issued>>
    BY <1>1, HandlerMoves DEF AbortCall, OwnInv, TypeInv
  <2> QED
    BY <2>1, KeptByReturn DEF OwnerSteps
<1>2. ASSUME \A c \in Calls : ~AbortCall(c)
      PROVE  UNCHANGED <<row, issued, call>>
  BY <1>2 DEF Environment, CrashSweeper, LoseSweepLock, Elapse
<1> QED
  BY <1>1, <1>2, KeptByOthers

LEMMA NextOwn == OwnInv /\ [Next]_vars => OwnInv' /\ LStep
<1> SUFFICES ASSUME OwnInv, [Next]_vars
             PROVE  OwnInv' /\ LStep
  OBVIOUS
<1>1. TypeInv'
  BY NextType DEF OwnInv
<1>2. Kept
  BY ArriveOwn, HandleOwn, SweepOwn, EnvironmentOwn, KeptByOthers DEF Next, vars
<1> QED
  BY <1>1, <1>2 DEF OwnInv, Kept

LEMMA InitOwn == Init => OwnInv /\ L!Init
BY InitType
   DEF Init, OwnInv, OwnersOK, IssuedOK, Owns, NoCall, NoRow, L!Init

LEMMA OwnInvAlways == Spec => []OwnInv
BY InitOwn, NextOwn, PTL DEF Spec

\* An APPROVED row belongs to the one handler that approved it, for any number of
\* concurrent calls and any pattern of failures.
THEOREM SoleOwnerAlways == Spec => []SoleOwner
<1>1. OwnInv => SoleOwner
  BY DEF OwnInv, OwnersOK, SoleOwner
<1> QED
  BY <1>1, OwnInvAlways, PTL

\* A request is granted by its provider at most once.
THEOREM GrantedOnce == Spec => []SingleGrant
<1>1. OwnInv => SingleGrant
  BY DEF OwnInv, TypeInv, RowsOK, Row, States, IssuedOK, SingleGrant
<1> QED
  BY <1>1, OwnInvAlways, PTL

\* The handlers and sweepers, interleaved and failing in any way, implement the
\* lifecycle: every step is one of its moves or changes neither states nor grants.
THEOREM WorkflowImplementsLifecycle == Spec => ImplementsLifecycle
BY InitOwn, NextOwn, OwnInvAlways, PTL DEF Spec, ImplementsLifecycle, L!Spec, LStep

-----------------------------------------------------------------------------
(* The sweep lock. A replica in a sweep holds the lock, or a session of it  *)
(* was lost at some time; failures are never forgotten.                     *)

LockLost == \E r \in Requests : HitBy(r, {"lock"})

SweepInv == \A s \in Sweepers : sweeper[s].at # "idle" => sweepLock = s \/ LockLost

LEMMA TransitionFailures ==
  ASSUME NEW r, NEW from, NEW new, NEW ACTION Reaches, NEW ACTION Returns,
         Transition(r, from, new, Reaches, Returns)
  PROVE  failed \subseteq failed'
BY DEF Transition, Fails

LEMMA FailuresGrow ==
  ASSUME [Next]_vars
  PROVE  failed \subseteq failed'
<1>1. ASSUME NEW c \in Calls, Arrive(c)
      PROVE  failed \subseteq failed'
  BY <1>1, TransitionFailures
     DEF Arrive, CreateRequest, CreateBreakGlass, Insert, ApproveRequest, DenyRequest, Deny,
         RevokeRequest, AIApproveRequest, AIDenyRequest, AIEscalateRequest, Fails
<1>2. ASSUME NEW c \in Calls, Handle(c)
      PROVE  failed \subseteq failed'
  <2>1. ASSUME SelfApprove(c) \/ Rollback(c) \/ Activate(c) \/ CommitRevoke(c)
        PROVE  failed \subseteq failed'
    BY <2>1, TransitionFailures DEF SelfApprove, Rollback, Activate, CommitRevoke
  <2>2. ASSUME LogCreated(c) \/ LogApproved(c) \/ LogIssued(c) \/ LogDenied(c)
               \/ LogEscalated(c) \/ LogRevoked(c)
        PROVE  failed \subseteq failed'
    BY <2>2 DEF LogCreated, LogApproved, LogIssued, LogDenied, LogEscalated, LogRevoked,
         AppendAudit, Fails
  <2>3. ASSUME Alert(c) \/ EvalApproval(c) \/ Grant(c) \/ CallProviderRevoke(c)
        PROVE  failed \subseteq failed'
    BY <2>3 DEF Alert, EvalApproval, Grant, ProviderGrant, CallProviderRevoke, ProviderRevoke,
         Fails
  <2> QED
    BY <1>2, <2>1, <2>2, <2>3 DEF Handle
<1>3. ASSUME NEW s \in Sweepers, DoSweep(s)
      PROVE  failed \subseteq failed'
  BY <1>3, TransitionFailures
     DEF DoSweep, TryAcquireSweepLock, ListActiveExpired, SweepRevoke, ProviderRevoke,
         SweepExpire, SweepLog, AppendAudit, ReleaseSweepLock, Fails
<1>4. ASSUME Environment
      PROVE  failed \subseteq failed'
  BY <1>4 DEF Environment, AbortCall, CrashSweeper, LoseSweepLock, Elapse, Fails
<1> QED
  BY <1>1, <1>2, <1>3, <1>4 DEF Next, vars

LEMMA LostForGood ==
  ASSUME failed \subseteq failed', LockLost
  PROVE  LockLost'
BY DEF LockLost, HitBy

\* Sweepers and their lock as they were, but for the place in the sweep of a busy one.
LEMMA SweepKept ==
  ASSUME SweepInv, failed \subseteq failed', UNCHANGED sweepLock,
         \A s \in Sweepers : sweeper'[s].at # "idle" => sweeper[s].at # "idle"
  PROVE  SweepInv'
BY LostForGood DEF SweepInv

\* A replica leaves its sweep and frees the lock if it still holds it.
LEMMA SweepLeft ==
  ASSUME TypeInv, SweepInv, failed \subseteq failed', NEW s \in Sweepers,
         sweeper' = [sweeper EXCEPT ![s] = NoSweep], Unlock(s)
  PROVE  SweepInv'
<1>1. /\ sweeper'[s].at = "idle"
      /\ \A t \in Sweepers \ {s} : sweeper'[t] = sweeper[t]
  BY DEF TypeInv, SweepsOK, NoSweep
<1> QED
  BY <1>1, LostForGood DEF SweepInv, Unlock

LEMMA NextSweep ==
  ASSUME TypeInv, SweepInv, [Next]_vars
  PROVE  SweepInv'
<1>0. failed \subseteq failed'
  BY FailuresGrow
<1>1. ASSUME UNCHANGED <<sweeper, sweepLock>>
      PROVE  SweepInv'
  BY <1>0, <1>1, SweepKept
<1>2. ASSUME NEW s \in Sweepers, TryAcquireSweepLock(s)
      PROVE  SweepInv'
  <2>1. /\ \A t \in Sweepers \ {s} : sweeper'[t] = sweeper[t]
        /\ sweepLock' = s /\ sweepLock \notin Sweepers
    BY <1>2, IdentityAssumption DEF TryAcquireSweepLock, LockFree, TypeInv, SweepsOK
  <2> QED
    BY <1>0, <2>1, LostForGood DEF SweepInv
<1>3. ASSUME NEW s \in Sweepers, DoSweep(s), ~TryAcquireSweepLock(s), ~ReleaseSweepLock(s)
      PROVE  SweepInv'
  <2>1. sweeper[s].at # "idle" /\ UNCHANGED sweepLock
    BY <1>3 DEF DoSweep, ListActiveExpired, SweepRevoke, SweepExpire, SweepLog
  <2>2. \A t \in Sweepers \ {s} : sweeper'[t] = sweeper[t]
    <3>1. \E x : sweeper' = [sweeper EXCEPT ![s] = x]
      <4>1. CASE ListActiveExpired(s) \/ \E r \in Requests : SweepRevoke(s, r)
        BY <4>1 DEF ListActiveExpired, SweepRevoke
      <4>2. CASE SweepExpire(s)
        <5>1. SweepGoto(s, "log") \/ NextRequest(s)
          BY <4>2, TransitionCases DEF SweepExpire
        <5> QED
          BY <5>1 DEF SweepGoto, NextRequest
      <4>3. CASE SweepLog(s)
        BY <4>3 DEF SweepLog, NextRequest
      <4> QED
        BY <1>3, <4>1, <4>2, <4>3 DEF DoSweep
    <3> QED
      BY <3>1 DEF TypeInv, SweepsOK
  <2> QED
    BY <1>0, <2>1, <2>2, SweepKept
<1>4. ASSUME NEW s \in Sweepers, ReleaseSweepLock(s) \/ CrashSweeper(s)
      PROVE  SweepInv'
  BY <1>0, <1>4, SweepLeft DEF ReleaseSweepLock, CrashSweeper
<1>5. ASSUME NEW s \in Sweepers, LoseSweepLock(s)
      PROVE  SweepInv'
  <2>1. LockLost'
    BY <1>5 DEF LoseSweepLock, LockLost, HitBy, Fails
  <2> QED
    BY <2>1 DEF SweepInv
<1>6. ASSUME NEW c \in Calls, Arrive(c) \/ Handle(c)
      PROVE  UNCHANGED <<sweeper, sweepLock>>
  BY <1>6 DEF Arrive, CreateRequest, CreateBreakGlass, Insert, ApproveRequest, DenyRequest, Deny,
         RevokeRequest, AIApproveRequest, AIDenyRequest, AIEscalateRequest, Handle, LogCreated,
         Alert, SelfApprove, EvalApproval, Rollback, LogApproved, Grant, Activate, LogIssued,
         LogDenied, LogEscalated, CommitRevoke, CallProviderRevoke, LogRevoked
<1>7. ASSUME (\E c \in Calls : AbortCall(c)) \/ (\E r \in Requests : Elapse(r)) \/ UNCHANGED vars
      PROVE  UNCHANGED <<sweeper, sweepLock>>
  BY <1>7 DEF AbortCall, Elapse, vars
<1> QED
  BY <1>1, <1>2, <1>3, <1>4, <1>5, <1>6, <1>7 DEF Next, Environment

LEMMA InitSweep == Init => SweepInv
BY DEF Init, SweepInv, NoSweep

\* Two replicas are in a sweep at once only after a lost lock session, for any number of
\* replicas.
THEOREM SweepsAlwaysExclusive == Spec => []SweepExclusive
<1>1. SweepInv => SweepExclusive
  BY DEF SweepInv, SweepExclusive, LockLost
<1>2. TypeInv /\ SweepInv /\ [Next]_vars => SweepInv'
  BY NextSweep
<1> QED
  BY <1>1, <1>2, InitSweep, TypeInvAlways, PTL DEF Spec

-----------------------------------------------------------------------------
(* Decisions. The approver a row names is only decided upon after the row   *)
(* names it, and rollbacks leave names of no consequence behind: what holds *)
(* is said of each handler at each of its steps.                            *)

CallDecided(c) ==
  LET r == call[c].req
  IN /\ call[c].at = "eval" => row[r].approver = call[c].actor
     /\ call[c].at \in {"logApproved", "grant", "activate"} =>
          /\ row[r].approver \in decided[r]
          /\ row[r].approver = "break-glass" => r \in alerted
     /\ call[c].at \in {"logCreated", "alert", "selfApprove"} =>
          /\ call[c].op = "auto" => "policy" \in decided[r]
          /\ call[c].op = "break_glass" => "break-glass" \in decided[r]
     /\ call[c].at \in {"alert", "selfApprove"} => call[c].op \in {"auto", "break_glass"}
     /\ call[c].at = "selfApprove" /\ call[c].op = "break_glass" => r \in alerted

RowDecided(r) ==
  issued[r] > 0 => /\ row[r].approver \in decided[r]
                   /\ row[r].approver = "break-glass" => r \in alerted

DecInv ==
  /\ \A c \in Calls : CallDecided(c)
  /\ \A r \in Requests : RowDecided(r)

\* What a handler is after its step, the other handlers being as they were.
Becomes(c, step, op, r, actor) ==
  /\ call'[c].at = step /\ call'[c].op = op /\ call'[c].req = r /\ call'[c].actor = actor
  /\ \A d \in Calls \ {c} : call'[d] = call[d]

LEMMA HandlerBecomes ==
  ASSUME CallsOK, NEW c \in Calls, NEW step
  PROVE  /\ Goto(c, step) => Becomes(c, step, call[c].op, call[c].req, call[c].actor)
         /\ Return(c) => Becomes(c, "done", "none", Null, Null)
         /\ \A op, r, actor : Enter(c, op, r, actor, step) => Becomes(c, step, op, r, actor)
BY DEF CallsOK, Call, Becomes, Goto, Return, Returned, NoCall, Enter

\* The decisions and alerts so far stay, and the rows keep their approvers but for one
\* that nobody owns.
Settled(r) ==
  /\ \A q \in Requests : decided[q] \subseteq decided'[q]
  /\ alerted \subseteq alerted'
  /\ \A q \in Requests \ {r} : row'[q].approver = row[q].approver
  /\ row'[r].approver = row[r].approver \/ row[r].state = "PENDING"

LEMMA SettledDecided ==
  ASSUME OwnInv, DecInv, NEW r \in Requests, Settled(r), UNCHANGED issued,
         \A d \in Calls : call'[d] = call[d] \/ CallDecided(d)'
  PROVE  DecInv'
<1>1. ASSUME NEW d \in Calls, call'[d] = call[d]
      PROVE  CallDecided(d)'
  <2>1. CallDecided(d)
    BY DEF DecInv
  <2>2. CASE ~Busy(d)
    BY <1>1, <2>1, <2>2 DEF CallDecided, Busy
  <2>3. CASE Busy(d)
    <3>1. call[d].req \in Requests
      BY <2>3 DEF OwnInv, TypeInv, CallsOK
    <3>2. Owns(d) => row'[call[d].req].approver = row[call[d].req].approver
      BY <3>1, NoOwner DEF Settled
    <3> QED
      BY <1>1, <2>1, <3>1, <3>2 DEF CallDecided, Settled, Owns
  <2> QED
    BY <2>2, <2>3
<1>2. ASSUME NEW q \in Requests
      PROVE  RowDecided(q)'
  <2>1. row'[q].approver = row[q].approver \/ issued[q] = 0
    BY DEF Settled, OwnInv, IssuedOK
  <2>2. RowDecided(q)
    BY DEF DecInv
  <2> QED
    BY <2>1, <2>2 DEF RowDecided, Settled
<1> QED
  BY <1>1, <1>2 DEF DecInv

LEMMA DecidedKept ==
  ASSUME OwnInv, DecInv, NEW c \in Calls, NEW r \in Requests, Settled(r), UNCHANGED issued,
         \A d \in Calls \ {c} : call'[d] = call[d], CallDecided(c)'
  PROVE  DecInv'
<1>1. ASSUME NEW d \in Calls, call'[d] # call[d]
      PROVE  CallDecided(d)'
  <2>1. d = c
    BY <1>1
  <2> QED
    BY <2>1
<1> QED
  BY <1>1, SettledDecided

LEMMA QuietDecided ==
  ASSUME UNCHANGED <<row, decided, alerted>>, NEW r \in Requests
  PROVE  Settled(r)
BY DEF Settled

\* A transition of one row that keeps its approver, or starts from PENDING.
LEMMA MoveDecided ==
  ASSUME RowsOK, NEW r \in Requests, NEW new,
         UNCHANGED row \/ row' = [row EXCEPT ![r] = new],
         new.approver = row[r].approver \/ row[r].state = "PENDING",
         \A q \in Requests : decided[q] \subseteq decided'[q], UNCHANGED alerted
  PROVE  Settled(r)
BY DEF Settled, RowsOK

\* A handler that has returned, or is at a step about which nothing is said.
LEMMA NothingSaid ==
  ASSUME NEW c \in Calls,
         call'[c].at \in {"done", "rollback", "logIssued", "logDenied", "logEscalated", "revoke",
                          "providerRevoke", "logRevoked"}
  PROVE  CallDecided(c)'
BY DEF CallDecided

LEMMA ArriveDecided ==
  ASSUME OwnInv, DecInv, NEW c \in Calls, Arrive(c)
  PROVE  DecInv'
<1>0. CallsOK /\ RowsOK /\ DecidedOK
  BY DEF OwnInv, TypeInv
<1>a. ASSUME Return(c)
      PROVE  CallDecided(c)' /\ \A d \in Calls \ {c} : call'[d] = call[d]
  <2>1. Becomes(c, "done", "none", Null, Null)
    BY <1>0, <1>a, HandlerBecomes
  <2> QED
    BY <2>1, NothingSaid DEF Becomes
<1>1. ASSUME NEW r \in Requests, NEW u \in Users, NEW tier, NEW op, Insert(c, r, u, tier, op),
             \A q \in Requests : decided[q] \subseteq decided'[q],
             op = "auto" => "policy" \in decided'[r],
             op = "break_glass" => "break-glass" \in decided'[r]
      PROVE  DecInv'
  <2>1. UNCHANGED <<issued, alerted>> /\ (Enter(c, op, r, u, "logCreated") \/ Return(c))
    BY <1>1 DEF Insert
  <2>2. Settled(r)
    <3> DEFINE new == [state |-> "PENDING", kind |-> KindOf(op), requester |-> u, tier |-> tier,
                      approver |-> Null]
    <3>1. row' = [row EXCEPT ![r] = new] /\ new.approver = row[r].approver
      BY <1>1 DEF Insert, NoRow
    <3> HIDE DEF new
    <3> QED
      BY <1>0, <1>1, <2>1, <3>1, MoveDecided
  <2>3. ASSUME Enter(c, op, r, u, "logCreated")
        PROVE  CallDecided(c)' /\ \A d \in Calls \ {c} : call'[d] = call[d]
    <3>1. Becomes(c, "logCreated", op, r, u)
      BY <1>0, <2>3, HandlerBecomes
    <3> QED
      BY <1>1, <3>1 DEF Becomes, CallDecided
  <2> QED
    BY <1>a, <2>1, <2>2, <2>3, DecidedKept
\* A transition from PENDING after which the handler goes on with "step".
<1>2. ASSUME NEW r \in Requests, NEW new, NEW op, NEW a, NEW step,
             \/ /\ row[r].state = "PENDING" /\ row' = [row EXCEPT ![r] = new]
                /\ Enter(c, op, r, a, step) \/ Return(c)
             \/ UNCHANGED row /\ Return(c),
             UNCHANGED <<issued, alerted>>, \A q \in Requests : decided[q] \subseteq decided'[q],
             \/ step = "eval" /\ new.approver = a
             \/ step = "logApproved" /\ new.approver = Agent /\ Agent \in decided'[r]
             \/ step \in {"logDenied", "logEscalated"}
      PROVE  DecInv'
  <2>1. Settled(r)
    <3>1. CASE UNCHANGED row
      BY <1>2, <3>1 DEF Settled
    <3>2. CASE row[r].state = "PENDING" /\ row' = [row EXCEPT ![r] = new]
      BY <1>0, <1>2, <3>2, MoveDecided
    <3> QED
      BY <1>2, <3>1, <3>2
  <2>2. ASSUME Enter(c, op, r, a, step), row' = [row EXCEPT ![r] = new]
        PROVE  CallDecided(c)' /\ \A d \in Calls \ {c} : call'[d] = call[d]
    <3>1. Becomes(c, step, op, r, a)
      BY <1>0, <2>2, HandlerBecomes
    <3>2. row'[r] = new
      BY <1>0, <2>2 DEF RowsOK
    <3>3. Agent # "break-glass"
      BY IdentityAssumption
    <3> QED
      BY <1>2, <3>1, <3>2, <3>3 DEF Becomes, CallDecided
  <2> QED
    BY <1>2, <1>a, <2>1, <2>2, DecidedKept
<1>3. ASSUME NEW r \in Requests, NEW u \in Users, NEW tier, CreateRequest(c, r, u, tier)
      PROVE  DecInv'
  <2> DEFINE op == IF tier = "auto" THEN "auto" ELSE "create"
  <2>1. Insert(c, r, u, tier, op)
    BY <1>3 DEF CreateRequest
  <2>2. /\ \A q \in Requests : decided[q] \subseteq decided'[q]
        /\ op = "auto" => "policy" \in decided'[r]
        /\ op # "break_glass"
    BY <1>0, <1>3 DEF CreateRequest, DecidedOK
  <2> HIDE DEF op
  <2> QED
    BY <1>1, <2>1, <2>2
<1>4. ASSUME NEW r \in Requests, NEW u \in Users, CreateBreakGlass(c, r, u)
      PROVE  DecInv'
  <2>1. Insert(c, r, u, "human", "break_glass")
    BY <1>4 DEF CreateBreakGlass
  <2>2. /\ \A q \in Requests : decided[q] \subseteq decided'[q]
        /\ "break-glass" \in decided'[r]
    BY <1>0, <1>4 DEF CreateBreakGlass, DecidedOK
  <2> QED
    BY <1>1, <2>1, <2>2
<1>5. ASSUME NEW r \in Requests, NEW u \in Users, ApproveRequest(c, r, u)
      PROVE  DecInv'
  <2> DEFINE new == [row[r] EXCEPT !.state = "APPROVED", !.approver = u]
  <2>1. new.approver = u
    BY <1>0 DEF RowsOK, Row
  <2>2. \/ /\ row[r].state = "PENDING" /\ row' = [row EXCEPT ![r] = new]
           /\ Enter(c, "approve", r, u, "eval") \/ Return(c)
        \/ UNCHANGED row /\ Return(c)
    BY <1>5, TransitionCases DEF ApproveRequest
  <2>3. UNCHANGED <<issued, alerted, decided>>
    BY <1>5 DEF ApproveRequest
  <2> HIDE DEF new
  <2> QED
    BY <1>2, <2>1, <2>2, <2>3
<1>6. ASSUME NEW r \in Requests, NEW op, NEW a, Deny(c, op, r, a)
      PROVE  DecInv'
  <2> DEFINE new == [row[r] EXCEPT !.state = "REJECTED", !.approver = a]
  <2>1. \/ /\ row[r].state = "PENDING" /\ row' = [row EXCEPT ![r] = new]
           /\ Enter(c, op, r, a, "logDenied") \/ Return(c)
        \/ UNCHANGED row /\ Return(c)
    BY <1>6, TransitionCases DEF Deny
  <2>2. UNCHANGED <<issued, alerted, decided>>
    BY <1>6 DEF Deny
  <2> HIDE DEF new
  <2> QED
    BY <1>2, <2>1, <2>2
<1>7. ASSUME NEW r \in Requests, NEW u \in Users, RevokeRequest(c, r, u)
      PROVE  DecInv'
  <2>1. Enter(c, "revoke", r, u, "revoke") /\ UNCHANGED <<row, issued, alerted, decided>>
    BY <1>7 DEF RevokeRequest
  <2>2. Becomes(c, "revoke", "revoke", r, u)
    BY <1>0, <2>1, HandlerBecomes
  <2>3. CallDecided(c)' /\ \A d \in Calls \ {c} : call'[d] = call[d]
    BY <2>2, NothingSaid DEF Becomes
  <2> QED
    BY <2>1, <2>3, QuietDecided, DecidedKept
<1>8. ASSUME NEW r \in Requests, AIApproveRequest(c, r)
      PROVE  DecInv'
  <2> DEFINE new == [row[r] EXCEPT !.state = "APPROVED", !.approver = Agent]
  <2>1. new.approver = Agent
    BY <1>0 DEF RowsOK, Row
  <2>2. \/ /\ row[r].state = "PENDING" /\ row' = [row EXCEPT ![r] = new]
           /\ Enter(c, "ai_approve", r, Agent, "logApproved") \/ Return(c)
        \/ UNCHANGED row /\ Return(c)
    BY <1>8, TransitionCases DEF AIApproveRequest
  <2>3. /\ UNCHANGED <<issued, alerted>> /\ Agent \in decided'[r]
        /\ \A q \in Requests : decided[q] \subseteq decided'[q]
    BY <1>0, <1>8 DEF AIApproveRequest, DecidedOK
  <2> HIDE DEF new
  <2> QED
    BY <1>2, <2>1, <2>2, <2>3
<1>9. ASSUME NEW r \in Requests, AIEscalateRequest(c, r)
      PROVE  DecInv'
  <2> DEFINE new == [row[r] EXCEPT !.tier = "human"]
  <2>1. \/ /\ row[r].state = "PENDING" /\ row' = [row EXCEPT ![r] = new]
           /\ Enter(c, "ai_escalate", r, Agent, "logEscalated") \/ Return(c)
        \/ UNCHANGED row /\ Return(c)
    BY <1>9, TransitionCases DEF AIEscalateRequest
  <2>2. UNCHANGED <<issued, alerted, decided>>
    BY <1>9 DEF AIEscalateRequest
  <2> HIDE DEF new
  <2> QED
    BY <1>2, <2>1, <2>2
<1> QED
  BY <1>3, <1>4, <1>5, <1>6, <1>7, <1>8, <1>9 DEF Arrive, DenyRequest, AIDenyRequest

LEMMA HandleDecided ==
  ASSUME OwnInv, DecInv, NEW c \in Calls, Handle(c)
  PROVE  DecInv'
<1> DEFINE r == call[c].req
<1>0. CallsOK /\ RowsOK /\ DecidedOK /\ CallDecided(c)
  BY DEF OwnInv, TypeInv, DecInv
<1>1. r \in Requests
  BY <1>0 DEF CallsOK, Busy, Handle, At, LogCreated, Alert, SelfApprove, EvalApproval, Rollback,
       LogApproved, Grant, Activate, LogIssued, LogDenied, LogEscalated, CommitRevoke,
       CallProviderRevoke, LogRevoked
<1>a. ASSUME Return(c)
      PROVE  CallDecided(c)' /\ \A d \in Calls \ {c} : call'[d] = call[d]
  <2>1. Becomes(c, "done", "none", Null, Null)
    BY <1>0, <1>a, HandlerBecomes
  <2> QED
    BY <2>1, NothingSaid DEF Becomes
<1>b. ASSUME NEW step, Goto(c, step)
      PROVE  Becomes(c, step, call[c].op, r, call[c].actor)
  BY <1>0, <1>b, HandlerBecomes
\* A handler that goes to a step about which nothing is said.
<1>c. ASSUME NEW step \in {"rollback", "logIssued", "logDenied", "logEscalated", "revoke",
                           "providerRevoke", "logRevoked"}, Goto(c, step)
      PROVE  CallDecided(c)' /\ \A d \in Calls \ {c} : call'[d] = call[d]
  BY <1>b, <1>c, NothingSaid DEF Becomes
\* A transition of the handler's row that keeps its approver.
<1>d. ASSUME NEW new, UNCHANGED row \/ row' = [row EXCEPT ![r] = new],
             new.approver = row[r].approver, UNCHANGED <<issued, alerted, decided>>,
             CallDecided(c)' /\ \A d \in Calls \ {c} : call'[d] = call[d]
      PROVE  DecInv'
  <2>1. Settled(r)
    BY <1>0, <1>1, <1>d, MoveDecided
  <2> QED
    BY <1>1, <1>d, <2>1, DecidedKept
<1>2. ASSUME LogCreated(c)
      PROVE  DecInv'
  <2>1. UNCHANGED <<row, issued, alerted, decided>> /\ At(c, "logCreated")
    BY <1>2 DEF LogCreated
  <2>2. \/ Return(c)
        \/ Goto(c, "selfApprove") /\ call[c].op = "auto"
        \/ Goto(c, "alert") /\ call[c].op = "break_glass"
    BY <1>2 DEF LogCreated, AfterCreated
  <2>3. CallDecided(c)' /\ \A d \in Calls \ {c} : call'[d] = call[d]
    <3>1. CASE Goto(c, "selfApprove") /\ call[c].op = "auto"
      BY <1>0, <1>b, <2>1, <3>1 DEF Becomes, CallDecided, At
    <3>2. CASE Goto(c, "alert") /\ call[c].op = "break_glass"
      BY <1>0, <1>b, <2>1, <3>2 DEF Becomes, CallDecided, At
    <3> QED
      BY <1>a, <2>2, <3>1, <3>2
  <2> QED
    BY <1>1, <2>1, <2>3, QuietDecided, DecidedKept
<1>3. ASSUME Alert(c)
      PROVE  DecInv'
  <2>1. /\ UNCHANGED <<row, issued, decided>> /\ At(c, "alert") /\ Goto(c, "selfApprove")
        /\ alerted' = alerted \cup {r}
    BY <1>3 DEF Alert
  <2>2. CallDecided(c)' /\ \A d \in Calls \ {c} : call'[d] = call[d]
    BY <1>0, <1>b, <2>1 DEF Becomes, CallDecided, At
  <2>3. Settled(r)
    BY <2>1 DEF Settled
  <2> QED
    BY <1>1, <2>1, <2>2, <2>3, DecidedKept
<1>4. ASSUME SelfApprove(c)
      PROVE  DecInv'
  <2> DEFINE approver == IF call[c].op = "auto" THEN "policy" ELSE "break-glass"
             new == [row[r] EXCEPT !.state = "APPROVED", !.approver = approver]
  <2>1. \/ /\ row[r].state = "PENDING" /\ row' = [row EXCEPT ![r] = new]
           /\ Goto(c, "logApproved") \/ Return(c)
        \/ UNCHANGED row /\ Return(c)
    BY <1>4, TransitionCases DEF SelfApprove
  <2>2. At(c, "selfApprove") /\ UNCHANGED <<issued, alerted, decided>>
    BY <1>4 DEF SelfApprove
  <2>3. new.approver = approver
    BY <1>0, <1>1 DEF RowsOK, Row
  <2>4. /\ approver \in decided[r]
        /\ approver = "break-glass" => r \in alerted
    BY <1>0, <2>2 DEF CallDecided, At
  <2> HIDE DEF new, approver
  <2>5. Settled(r)
    BY <1>0, <1>1, <2>1, <2>2, MoveDecided DEF Settled
  <2>6. ASSUME Goto(c, "logApproved"), row' = [row EXCEPT ![r] = new]
        PROVE  CallDecided(c)' /\ \A d \in Calls \ {c} : call'[d] = call[d]
    <3>1. row'[r].approver = approver
      BY <1>0, <1>1, <2>3, <2>6 DEF RowsOK
    <3> QED
      BY <1>b, <2>2, <2>4, <2>6, <3>1 DEF Becomes, CallDecided
  <2> QED
    BY <1>1, <1>a, <2>1, <2>2, <2>5, <2>6, DecidedKept
<1>5. ASSUME EvalApproval(c)
      PROVE  DecInv'
  <2>1. At(c, "eval") /\ UNCHANGED <<row, issued, alerted>>
    BY <1>5 DEF EvalApproval
  <2>2. \/ /\ Goto(c, "logApproved")
           /\ decided' = [decided EXCEPT ![r] = @ \cup {call[c].actor}]
        \/ Goto(c, "rollback") /\ UNCHANGED decided
    BY <1>5 DEF EvalApproval, AfterVerdict
  <2>3. Settled(r)
    BY <1>0, <2>1, <2>2 DEF Settled, DecidedOK
  <2>4. ASSUME Goto(c, "logApproved"), decided' = [decided EXCEPT ![r] = @ \cup {call[c].actor}]
        PROVE  CallDecided(c)' /\ \A d \in Calls \ {c} : call'[d] = call[d]
    <3>1. row[r].approver = call[c].actor /\ row[r].approver \in decided'[r]
      BY <1>0, <1>1, <2>1, <2>4 DEF CallDecided, At, DecidedOK
    <3>2. call[c].actor # "break-glass"
      BY <1>0, IdentityAssumption DEF CallsOK, Call, Actors
    <3> QED
      BY <1>b, <2>1, <2>4, <3>1, <3>2 DEF Becomes, CallDecided
  <2> QED
    BY <1>1, <1>c, <2>1, <2>2, <2>3, <2>4, DecidedKept
<1>6. ASSUME LogApproved(c)
      PROVE  DecInv'
  <2>1. UNCHANGED <<row, issued, alerted, decided>> /\ At(c, "logApproved") /\ Goto(c, "grant")
    BY <1>6 DEF LogApproved
  <2>2. CallDecided(c)' /\ \A d \in Calls \ {c} : call'[d] = call[d]
    BY <1>0, <1>b, <2>1 DEF Becomes, CallDecided, At
  <2> QED
    BY <1>1, <2>1, <2>2, QuietDecided, DecidedKept
<1>7. ASSUME Grant(c)
      PROVE  DecInv'
  <2>1. UNCHANGED <<row, alerted, decided>> /\ At(c, "grant")
    BY <1>7 DEF Grant
  <2>2. /\ issued' = [issued EXCEPT ![r] = @ + 1] \/ UNCHANGED issued
        /\ Goto(c, "activate") \/ Return(c)
    BY <1>7 DEF Grant, ProviderGrant
  <2>3. row[r].approver \in decided[r] /\ (row[r].approver = "break-glass" => r \in alerted)
    BY <1>0, <2>1 DEF CallDecided, At
  <2>4. CallDecided(c)' /\ \A d \in Calls \ {c} : call'[d] = call[d]
    BY <1>a, <1>b, <2>1, <2>2, <2>3 DEF Becomes, CallDecided
  <2>5. \A d \in Calls \ {c} : CallDecided(d)'
    BY <2>1, <2>4 DEF DecInv, CallDecided
  <2>6. \A q \in Requests : RowDecided(q)'
    BY <1>1, <2>1, <2>2, <2>3 DEF DecInv, RowDecided, OwnInv, TypeInv, AccessOK
  <2> QED
    BY <2>4, <2>5, <2>6 DEF DecInv
<1>8. ASSUME NEW st, NEW step \in {"done", "logIssued", "providerRevoke"},
             UNCHANGED row \/ row' = [row EXCEPT ![r] = [row[r] EXCEPT !.state = st]],
             Goto(c, step) \/ Return(c), UNCHANGED <<issued, alerted, decided>>
      PROVE  DecInv'
  <2> DEFINE new == [row[r] EXCEPT !.state = st]
  <2>1. new.approver = row[r].approver
    BY <1>0, <1>1 DEF RowsOK, Row
  <2>2. UNCHANGED row \/ row' = [row EXCEPT ![r] = new]
    BY <1>8
  <2>3. CallDecided(c)' /\ \A d \in Calls \ {c} : call'[d] = call[d]
    BY <1>8, <1>a, <1>b, NothingSaid DEF Becomes
  <2> HIDE DEF new
  <2> QED
    BY <1>8, <1>d, <2>1, <2>2, <2>3
<1>9. ASSUME Rollback(c)
      PROVE  DecInv'
  BY <1>8, <1>9, TransitionCases DEF Rollback
<1>10. ASSUME Activate(c)
      PROVE  DecInv'
  BY <1>8, <1>10, TransitionCases DEF Activate
<1>11. ASSUME CommitRevoke(c)
      PROVE  DecInv'
  BY <1>8, <1>11, TransitionCases DEF CommitRevoke
<1>12. ASSUME LogIssued(c) \/ LogDenied(c) \/ LogEscalated(c) \/ LogRevoked(c)
              \/ CallProviderRevoke(c)
      PROVE  DecInv'
  <2>1. UNCHANGED <<row, issued, alerted, decided>> /\ (Return(c) \/ Goto(c, "logRevoked"))
    BY <1>12 DEF LogIssued, LogDenied, LogEscalated, LogRevoked, CallProviderRevoke
  <2>2. CallDecided(c)' /\ \A d \in Calls \ {c} : call'[d] = call[d]
    BY <1>a, <1>c, <2>1
  <2> QED
    BY <1>1, <2>1, <2>2, QuietDecided, DecidedKept
<1> QED
  BY <1>2, <1>3, <1>4, <1>5, <1>6, <1>7, <1>9, <1>10, <1>11, <1>12 DEF Handle

LEMMA NextDecided ==
  ASSUME OwnInv, DecInv, [Next]_vars
  PROVE  DecInv'
<1>0. RowsOK /\ CallsOK
  BY DEF OwnInv, TypeInv
<1>1. ASSUME NEW s \in Sweepers, SweepExpire(s)
      PROVE  DecInv'
  <2> DEFINE r == sweeper[s].cur
             new == [row[r] EXCEPT !.state = "EXPIRED"]
  <2>1. r \in Requests /\ UNCHANGED <<issued, call, decided, alerted>>
    BY <1>1 DEF SweepExpire, OwnInv, TypeInv, SweepsOK
  <2>2. new.approver = row[r].approver
    BY <1>0, <2>1 DEF RowsOK, Row
  <2>3. row' = [row EXCEPT ![r] = new] \/ UNCHANGED row
    BY <1>1, TransitionCases DEF SweepExpire
  <2> HIDE DEF new, r
  <2>4. Settled(r)
    BY <1>0, <2>1, <2>2, <2>3, MoveDecided
  <2> QED
    BY <2>1, <2>4, SettledDecided
<1>2. ASSUME NEW c \in Calls, AbortCall(c)
      PROVE  DecInv'
  <2>1. Becomes(c, "done", "none", Null, Null) /\ UNCHANGED <<row, issued, decided, alerted>>
    BY <1>0, <1>2, HandlerBecomes DEF AbortCall
  <2>2. CallDecided(c)' /\ \A d \in Calls \ {c} : call'[d] = call[d]
    BY <2>1, NothingSaid DEF Becomes
  <2>3. call[c].req \in Requests
    BY <1>0, <1>2 DEF AbortCall, CallsOK, Busy
  <2> QED
    BY <2>1, <2>2, <2>3, QuietDecided, DecidedKept
<1>3. ASSUME UNCHANGED <<row, issued, decided, alerted, call>>
      PROVE  DecInv'
  BY <1>3 DEF DecInv, CallDecided, RowDecided
<1>4. ASSUME NEW s \in Sweepers, DoSweep(s), ~SweepExpire(s)
      PROVE  UNCHANGED <<row, issued, decided, alerted, call>>
  BY <1>4 DEF DoSweep, TryAcquireSweepLock, ListActiveExpired, SweepRevoke, SweepLog,
       ReleaseSweepLock
<1>5. ASSUME Environment, \A c \in Calls : ~AbortCall(c)
      PROVE  UNCHANGED <<row, issued, decided, alerted, call>>
  BY <1>5 DEF Environment, CrashSweeper, LoseSweepLock, Elapse
<1>6. ASSUME UNCHANGED vars
      PROVE  UNCHANGED <<row, issued, decided, alerted, call>>
  BY <1>6 DEF vars
<1> QED
  BY <1>1, <1>2, <1>3, <1>4, <1>5, <1>6, ArriveDecided, HandleDecided DEF Next

LEMMA InitDecided == Init => DecInv
BY DEF Init, DecInv, CallDecided, RowDecided, NoCall

LEMMA DecInvAlways == Spec => []DecInv
<1>1. OwnInv /\ DecInv /\ [Next]_vars => DecInv'
  BY NextDecided
<1> QED
  BY <1>1, InitDecided, OwnInvAlways, PTL DEF Spec

\* Nothing is granted without a decision for the approver the row names, whatever calls,
\* rollbacks and failures came before.
THEOREM GrantAlwaysDecided == Spec => []GrantIsDecided
<1>1. DecInv => GrantIsDecided
  BY DEF DecInv, RowDecided, GrantIsDecided
<1> QED
  BY <1>1, DecInvAlways, PTL

-----------------------------------------------------------------------------
(* Access. What a sweep holds in its list was ACTIVE and never is APPROVED  *)
(* again, so no grant comes between its provider call and its transition.   *)

Granted == {"ACTIVE", "EXPIRED", "REVOKED"}

Mending == {"activate", "providerRevoke"}

AccessHeld(r) ==
  \/ row[r].state = "ACTIVE"
  \/ \E c \in Calls : call[c].req = r /\ call[c].at \in Mending
  \/ HitBy(r, {"provider", "db", "abort"})

HeldInv == \A r \in access : AccessHeld(r)

SweptInv ==
  \A s \in Sweepers :
    /\ \A r \in sweeper[s].todo : row[r].state \in Granted
    /\ sweeper[s].at = "expire" =>
         /\ row[sweeper[s].cur].state \in Granted
         /\ sweeper[s].cur \notin access \/ HitBy(sweeper[s].cur, {"provider"})

\* A handler that begins has somewhere to go, or returns at once.
FirstSteps == {"logCreated", "eval", "logApproved", "logDenied", "logEscalated", "revoke"}

Entered(c) ==
  \E op, r, actor : \E step \in FirstSteps : Enter(c, op, r, actor, step)

LEMMA ArriveCalls ==
  ASSUME NEW c \in Calls, Arrive(c)
  PROVE  Return(c) \/ Entered(c)
<1>1. ASSUME NEW op, NEW r, NEW actor, NEW step \in FirstSteps, Enter(c, op, r, actor, step)
      PROVE  Entered(c)
  BY <1>1 DEF Entered
<1>2. FirstSteps = {"logCreated", "eval", "logApproved", "logDenied", "logEscalated", "revoke"}
  BY DEF FirstSteps
<1>3. ASSUME NEW r \in Requests, NEW u \in Users,
             \/ \E tier \in Tiers : CreateRequest(c, r, u, tier)
             \/ CreateBreakGlass(c, r, u)
      PROVE  Return(c) \/ Entered(c)
  BY <1>1, <1>2, <1>3 DEF CreateRequest, CreateBreakGlass, Insert
<1>4. ASSUME NEW r \in Requests, NEW u \in Users,
             ApproveRequest(c, r, u) \/ DenyRequest(c, r, u)
      PROVE  Return(c) \/ Entered(c)
  BY <1>1, <1>2, <1>4 DEF ApproveRequest, DenyRequest, Deny, Transition
<1>5. ASSUME NEW r \in Requests, NEW u \in Users, RevokeRequest(c, r, u)
      PROVE  Return(c) \/ Entered(c)
  BY <1>1, <1>2, <1>5 DEF RevokeRequest
<1>6. ASSUME NEW r \in Requests,
             AIApproveRequest(c, r) \/ AIDenyRequest(c, r) \/ AIEscalateRequest(c, r)
      PROVE  Return(c) \/ Entered(c)
  BY <1>1, <1>2, <1>6 DEF AIApproveRequest, AIDenyRequest, Deny, AIEscalateRequest, Transition
<1> QED
  BY <1>3, <1>4, <1>5, <1>6 DEF Arrive

\* Only the step of one handler moves that handler.
LEMMA OneHandlerMoves ==
  ASSUME CallsOK, NEW c \in Calls, Arrive(c) \/ Handle(c) \/ AbortCall(c)
  PROVE  \A d \in Calls \ {c} : call'[d] = call[d]
<1>1. ASSUME NEW step, NEW q, Moves(c, step, q)
      PROVE  \A d \in Calls \ {c} : call'[d] = call[d]
  BY <1>1 DEF Moves, CallsOK
<1>2. ASSUME Return(c) \/ (\E op, r, actor, step : Enter(c, op, r, actor, step))
             \/ (\E step : Goto(c, step))
      PROVE  \A d \in Calls \ {c} : call'[d] = call[d]
  <2>1. CASE Return(c)
    <3>1. Moves(c, "done", Null)
      BY <2>1, HandlerMoves
    <3> QED
      BY <1>1, <3>1
  <2>2. CASE \E op, r, actor, step : Enter(c, op, r, actor, step)
    <3>1. PICK op, r, actor, step : Enter(c, op, r, actor, step)
      BY <2>2
    <3>2. Moves(c, step, r)
      BY <3>1, HandlerMoves
    <3> QED
      BY <1>1, <3>2
  <2>3. CASE \E step : Goto(c, step)
    <3>1. PICK step : Goto(c, step)
      BY <2>3
    <3>2. Moves(c, step, call[c].req)
      BY <3>1, HandlerMoves
    <3>3. \E q : Moves(c, step, q)
      BY <3>2
    <3> QED
      BY <1>1, <3>3
  <2> QED
    BY <1>2, <2>1, <2>2, <2>3
<1>3. CASE Arrive(c)
  <2>1. Return(c) \/ Entered(c)
    BY <1>3, ArriveCalls
  <2> QED
    BY <1>2, <2>1 DEF Entered
<1>4. CASE Handle(c)
  <2>1. Return(c) \/ (\E step : Goto(c, step))
    <3>1. CASE SelfApprove(c) \/ Rollback(c) \/ Activate(c) \/ CommitRevoke(c)
      BY <3>1, TransitionCases DEF SelfApprove, Rollback, Activate, CommitRevoke
    <3>2. CASE LogCreated(c) \/ Alert(c) \/ EvalApproval(c) \/ Grant(c) \/ CallProviderRevoke(c)
      BY <3>2 DEF LogCreated, Alert, EvalApproval, Grant, ProviderGrant, CallProviderRevoke
    <3>3. CASE LogApproved(c) \/ LogIssued(c) \/ LogDenied(c) \/ LogEscalated(c) \/ LogRevoked(c)
      BY <3>3 DEF LogApproved, LogIssued, LogDenied, LogEscalated, LogRevoked
    <3> QED
      BY <1>4, <3>1, <3>2, <3>3 DEF Handle
  <2> QED
    BY <1>2, <2>1
<1>5. CASE AbortCall(c)
  BY <1>2, <1>5 DEF AbortCall
<1> QED
  BY <1>3, <1>4, <1>5

\* No step of the lifecycle takes a granted request back.
LEMMA GrantedStays ==
  ASSUME RowsOK, LStep, NEW r \in Requests, row[r].state \in Granted
  PROVE  row'[r].state \in Granted
<1> DEFINE st == [q \in Requests |-> row[q].state]
           st1 == [q \in Requests |-> row'[q].state]
<1>1. ASSUME NEW q \in Requests, NEW from, NEW to, L!Move(q, from, to),
             from \notin Granted \/ to \in Granted
      PROVE  row'[r].state \in Granted
  <2>1. st[q] = from /\ st1 = [st EXCEPT ![q] = to]
    BY <1>1 DEF L!Move
  <2>2. st1[r] \in Granted
    BY <1>1, <2>1
  <2> QED
    BY <2>2
<1>2. ASSUME UNCHANGED st
      PROVE  row'[r].state \in Granted
  <2>1. st1[r] = st[r]
    BY <1>2
  <2> QED
    BY <2>1
<1> QED
  BY <1>1, <1>2
     DEF LStep, L!vars, L!Next, L!Submit, L!Approve, L!Reject, L!Withdraw, L!Issue, L!Activate,
         L!Expire, L!Revoke, Granted

\* A transition out of another state leaves the ACTIVE rows alone.
LEMMA ActiveStays ==
  ASSUME RowsOK, NEW r \in Requests, NEW from, NEW new, from # "ACTIVE",
         NEW ACTION Reaches, NEW ACTION Returns, Transition(r, from, new, Reaches, Returns)
  PROVE  \A q \in Requests : row[q].state = "ACTIVE" => row'[q].state = "ACTIVE"
BY TransitionCases DEF RowsOK

\* No call that arrives takes a row out of ACTIVE.
LEMMA ArriveActive ==
  ASSUME TypeInv, NEW c \in Calls, Arrive(c)
  PROVE  \A q \in Requests : row[q].state = "ACTIVE" => row'[q].state = "ACTIVE"
<1>1. ASSUME NEW r \in Requests, NEW u \in Users, NEW tier, NEW op, Insert(c, r, u, tier, op)
      PROVE  \A q \in Requests : row[q].state = "ACTIVE" => row'[q].state = "ACTIVE"
  BY <1>1 DEF Insert, NoRow, TypeInv, RowsOK
<1> QED
  BY <1>1, ActiveStays
     DEF Arrive, CreateRequest, CreateBreakGlass, ApproveRequest, DenyRequest, Deny,
         RevokeRequest, AIApproveRequest, AIDenyRequest, AIEscalateRequest, TypeInv

LEMMA HitForGood ==
  ASSUME failed \subseteq failed', NEW r, NEW kinds, HitBy(r, kinds)
  PROVE  HitBy(r, kinds)'
BY DEF HitBy

\* A handler that is not between a grant or a revocation and its end moves on.
LEMMA HeldKept ==
  ASSUME AccessOK, HeldInv, failed \subseteq failed', access' \subseteq access,
         NEW c \in Calls, call[c].at \notin Mending, \A d \in Calls \ {c} : call'[d] = call[d],
         \A q \in Requests : row[q].state = "ACTIVE" => row'[q].state = "ACTIVE"
  PROVE  HeldInv'
BY HitForGood DEF HeldInv, AccessHeld, AccessOK

LEMMA ArriveHeld ==
  ASSUME TypeInv, HeldInv, NEW c \in Calls, Arrive(c), failed \subseteq failed'
  PROVE  HeldInv'
<1>1. \A d \in Calls \ {c} : call'[d] = call[d]
  BY OneHandlerMoves DEF TypeInv
<1>2. UNCHANGED access /\ call[c].at = "idle"
  BY DEF Arrive, CreateRequest, CreateBreakGlass, Insert, ApproveRequest, DenyRequest, Deny,
         RevokeRequest, AIApproveRequest, AIDenyRequest, AIEscalateRequest, Arrives, At
<1>3. \A q \in Requests : row[q].state = "ACTIVE" => row'[q].state = "ACTIVE"
  BY ArriveActive
<1> QED
  BY <1>1, <1>2, <1>3, HeldKept DEF Mending, TypeInv

LEMMA HandleHeld ==
  ASSUME OwnInv, HeldInv, NEW c \in Calls, Handle(c), failed \subseteq failed'
  PROVE  HeldInv'
<1>r. PICK r : r = call[c].req
  OBVIOUS
<1> USE <1>r
<1>0. TypeInv /\ CallsOK /\ RowsOK /\ AccessOK
  BY DEF OwnInv, TypeInv
<1>a. \A d \in Calls \ {c} : call'[d] = call[d]
  BY <1>0, OneHandlerMoves
<1>b. ASSUME NEW step, At(c, step), step \notin {"idle", "done"}
      PROVE  r \in Requests
  BY <1>0, <1>b DEF CallsOK, Busy, At
<1>1. ASSUME SelfApprove(c) \/ Rollback(c)
      PROVE  HeldInv'
  <2>1. r \in Requests /\ UNCHANGED access /\ call[c].at \notin Mending
    BY <1>1, <1>b DEF SelfApprove, Rollback, At, Mending
  <2>2. \A q \in Requests : row[q].state = "ACTIVE" => row'[q].state = "ACTIVE"
    BY <1>0, <1>1, <2>1, ActiveStays DEF SelfApprove, Rollback
  <2> QED
    BY <1>0, <1>a, <2>1, <2>2, HeldKept
<1>2. ASSUME LogCreated(c) \/ Alert(c) \/ EvalApproval(c) \/ LogApproved(c) \/ LogIssued(c)
             \/ LogDenied(c) \/ LogEscalated(c) \/ LogRevoked(c)
      PROVE  HeldInv'
  <2>1. UNCHANGED <<access, row>> /\ call[c].at \notin Mending
    BY <1>2 DEF LogCreated, Alert, EvalApproval, LogApproved, LogIssued, LogDenied, LogEscalated,
         LogRevoked, At, Mending
  <2> QED
    BY <1>0, <1>a, <2>1, HeldKept
\* The handler leaves its request "r" in order; the others are as before.
<1>c. ASSUME r \in Requests, access' \subseteq access \cup {r}, r \in access' => AccessHeld(r)',
             \A q \in Requests \ {r} : row'[q] = row[q]
      PROVE  HeldInv'
  <2>1. ASSUME NEW q \in access', q # r
        PROVE  AccessHeld(q)'
    <3>1. AccessHeld(q) /\ q \in Requests
      BY <1>0, <1>c, <2>1 DEF HeldInv, AccessOK
    <3>2. \A d \in Calls : call[d].req = q => call'[d] = call[d]
      BY <1>a, <2>1
    <3> QED
      BY <1>c, <2>1, <3>1, <3>2, HitForGood DEF AccessHeld
  <2> QED
    BY <1>c, <2>1 DEF HeldInv
<1>3. ASSUME Grant(c)
      PROVE  HeldInv'
  <2>1. r \in Requests /\ UNCHANGED row
    BY <1>3, <1>b DEF Grant
  <2>2. access' \subseteq access \cup {r}
    BY <1>3 DEF Grant, ProviderGrant
  <2>3. Goto(c, "activate") \/ Fails(r, "provider")
    BY <1>3 DEF Grant, ProviderGrant
  <2>4. Goto(c, "activate") => call'[c].req = r /\ call'[c].at \in Mending
    BY <1>0, HandlerBecomes DEF Becomes, Mending
  <2>5. AccessHeld(r)'
    BY <2>3, <2>4 DEF AccessHeld, Fails, HitBy
  <2> QED
    BY <1>c, <2>1, <2>2, <2>5
<1>4. ASSUME Activate(c)
      PROVE  HeldInv'
  <2> DEFINE new == [row[r] EXCEPT !.state = "ACTIVE"]
  <2>1. r \in Requests /\ UNCHANGED access /\ Owns(c)
    BY <1>4, <1>b DEF Activate, At, Owns
  <2>2. row[r].state = "APPROVED"
    BY <2>1 DEF OwnInv, OwnersOK
  <2>3. /\ row' = [row EXCEPT ![r] = new] \/ UNCHANGED row
        /\ row' = [row EXCEPT ![r] = new] \/ Fails(r, "db")
    BY <1>4, <2>2 DEF Activate, Transition, InState
  <2>4. new.state = "ACTIVE"
    BY <1>0, <2>1 DEF RowsOK, Row
  <2> HIDE DEF new
  <2>5. AccessHeld(r)'
    BY <1>0, <2>1, <2>3, <2>4 DEF AccessHeld, RowsOK, Fails, HitBy
  <2>6. \A q \in Requests \ {r} : row'[q] = row[q]
    BY <1>0, <2>1, <2>3 DEF RowsOK
  <2> QED
    BY <1>c, <2>1, <2>5, <2>6
<1>5. ASSUME CommitRevoke(c)
      PROVE  HeldInv'
  <2> DEFINE new == [row[r] EXCEPT !.state = "REVOKED"]
  <2>1. r \in Requests /\ UNCHANGED access /\ call[c].at \notin Mending
    BY <1>5, <1>b DEF CommitRevoke, At, Mending
  <2>2. \/ row' = [row EXCEPT ![r] = new] /\ (Goto(c, "providerRevoke") \/ Fails(r, "db"))
        \/ UNCHANGED row
    BY <1>5 DEF CommitRevoke, Transition
  <2>3. Goto(c, "providerRevoke") => call'[c].req = r /\ call'[c].at \in Mending
    BY <1>0, HandlerBecomes DEF Becomes, Mending
  <2> HIDE DEF new
  <2>4. CASE UNCHANGED row
    BY <1>0, <1>a, <2>1, <2>4, HeldKept
  <2>5. CASE row' = [row EXCEPT ![r] = new] /\ (Goto(c, "providerRevoke") \/ Fails(r, "db"))
    <3>1. AccessHeld(r)'
      BY <2>3, <2>5 DEF AccessHeld, Fails, HitBy
    <3>2. \A q \in Requests \ {r} : row'[q] = row[q]
      BY <1>0, <2>5 DEF RowsOK
    <3> QED
      BY <1>c, <2>1, <3>1, <3>2
  <2> QED
    BY <2>2, <2>4, <2>5
<1>6. ASSUME CallProviderRevoke(c)
      PROVE  HeldInv'
  <2>1. r \in Requests /\ UNCHANGED row
    BY <1>6, <1>b DEF CallProviderRevoke
  <2>2. access' = access \ {r} \/ (UNCHANGED access /\ Fails(r, "provider"))
    BY <1>6 DEF CallProviderRevoke, ProviderRevoke
  <2>3. Fails(r, "provider") => AccessHeld(r)'
    BY DEF AccessHeld, Fails, HitBy
  <2> QED
    BY <1>c, <2>1, <2>2, <2>3
<1> QED
  BY <1>1, <1>2, <1>3, <1>4, <1>5, <1>6 DEF Handle

\* Access appears only for an APPROVED row.
LEMMA AccessGrows ==
  ASSUME OwnInv, [Next]_vars
  PROVE  \A r \in access' \ access : row[r].state = "APPROVED"
<1>1. ASSUME NEW c \in Calls, Grant(c)
      PROVE  \A r \in access' \ access : row[r].state = "APPROVED"
  <2>1. row[call[c].req].state = "APPROVED"
    BY <1>1 DEF Grant, At, Owns, OwnInv, OwnersOK
  <2>2. access' \subseteq access \cup {call[c].req}
    BY <1>1 DEF Grant, ProviderGrant
  <2> QED
    BY <2>1, <2>2
<1>2. ASSUME NEW c \in Calls, Handle(c), ~Grant(c)
      PROVE  access' \subseteq access
  BY <1>2 DEF Handle, LogCreated, Alert, SelfApprove, EvalApproval, Rollback, LogApproved,
       Activate, LogIssued, LogDenied, LogEscalated, CommitRevoke, CallProviderRevoke,
       ProviderRevoke, LogRevoked
<1>3. ASSUME NEW c \in Calls, Arrive(c)
      PROVE  access' \subseteq access
  BY <1>3 DEF Arrive, CreateRequest, CreateBreakGlass, Insert, ApproveRequest, DenyRequest, Deny,
         RevokeRequest, AIApproveRequest, AIDenyRequest, AIEscalateRequest
<1>4. ASSUME (\E s \in Sweepers : DoSweep(s)) \/ Environment \/ UNCHANGED vars
      PROVE  access' \subseteq access
  BY <1>4 DEF DoSweep, TryAcquireSweepLock, ListActiveExpired, SweepRevoke, ProviderRevoke,
       SweepExpire, SweepLog, ReleaseSweepLock, Environment, AbortCall, CrashSweeper,
       LoseSweepLock, Elapse, vars
<1> QED
  BY <1>1, <1>2, <1>3, <1>4 DEF Next

LEMMA NextSwept ==
  ASSUME OwnInv, SweptInv, [Next]_vars
  PROVE  SweptInv'
<1>0. RowsOK /\ SweepsOK /\ AccessOK
  BY DEF OwnInv, TypeInv
<1>1. \A r \in Requests : row[r].state \in Granted => row'[r].state \in Granted
  BY <1>0, NextOwn, GrantedStays
<1>2. \A r \in Requests : r \notin access /\ row[r].state \in Granted => r \notin access'
  BY AccessGrows DEF Granted
<1>3. failed \subseteq failed'
  BY FailuresGrow
<1> DEFINE Good(x) ==
             /\ x.todo \subseteq Requests /\ \A r \in x.todo : row[r].state \in Granted
             /\ x.at = "expire" =>
                  /\ x.cur \in Requests /\ row[x.cur].state \in Granted
                  /\ x.cur \notin access' \/ <<x.cur, "provider">> \in failed'
<1>4. \A s \in Sweepers : Good(sweeper[s])
  <2> TAKE s \in Sweepers
  <2>1. sweeper[s].todo \subseteq Requests
    BY <1>0 DEF SweepsOK, Sweep
  <2>2. sweeper[s].at = "expire" => sweeper[s].cur \in Requests
    BY <1>0 DEF SweepsOK
  <2>3. \A r \in Requests : HitBy(r, {"provider"}) => <<r, "provider">> \in failed'
    BY <1>3 DEF HitBy
  <2> QED
    BY <1>2, <2>1, <2>2, <2>3 DEF SweptInv
<1>5. ASSUME NEW s \in Sweepers, NEW x, sweeper' = [sweeper EXCEPT ![s] = x], Good(x)
      PROVE  \A t \in Sweepers : Good(sweeper'[t])
  <2>1. /\ sweeper'[s] = x
        /\ \A t \in Sweepers \ {s} : sweeper'[t] = sweeper[t]
    BY <1>0, <1>5 DEF SweepsOK
  <2> QED
    BY <1>4, <1>5, <2>1
<1>6. SUFFICES \A s \in Sweepers : Good(sweeper'[s])
  BY <1>1 DEF SweptInv, HitBy
<1>7. CASE UNCHANGED sweeper
  BY <1>4, <1>7
<1>8. ASSUME NEW s \in Sweepers, TryAcquireSweepLock(s)
      PROVE  \A t \in Sweepers : Good(sweeper'[t])
  <2> DEFINE x == [sweeper[s] EXCEPT !.at = "list"]
  <2>1. sweeper' = [sweeper EXCEPT ![s] = x] /\ x.at = "list" /\ x.todo = sweeper[s].todo
    BY <1>0, <1>8 DEF TryAcquireSweepLock, SweepsOK, Sweep
  <2>2. Good(x)
    BY <1>4, <2>1
  <2> QED
    BY <1>5, <2>1, <2>2
<1>9. ASSUME NEW s \in Sweepers, ListActiveExpired(s)
      PROVE  \A t \in Sweepers : Good(sweeper'[t])
  <2> DEFINE x(todo) == [at |-> "sweep", todo |-> todo, cur |-> Null]
  <2>1. PICK todo \in {ActiveExpired, {}} : sweeper' = [sweeper EXCEPT ![s] = x(todo)]
    BY <1>9 DEF ListActiveExpired
  <2>2. Good(x(todo))
    BY DEF ActiveExpired, Granted
  <2> QED
    BY <1>5, <2>1, <2>2
<1>10. ASSUME NEW s \in Sweepers, NEW r \in Requests, SweepRevoke(s, r)
       PROVE  \A t \in Sweepers : Good(sweeper'[t])
  <2> DEFINE x == [at |-> "expire", todo |-> sweeper[s].todo \ {r}, cur |-> r]
  <2>1. sweeper' = [sweeper EXCEPT ![s] = x] /\ r \in sweeper[s].todo
    BY <1>10 DEF SweepRevoke
  <2>2. r \notin access' \/ <<r, "provider">> \in failed'
    BY <1>10 DEF SweepRevoke, ProviderRevoke, Fails
  <2>3. Good(x)
    BY <1>4, <2>1, <2>2
  <2> QED
    BY <1>5, <2>1, <2>3
<1>11. ASSUME NEW s \in Sweepers, SweepExpire(s) \/ SweepLog(s)
       PROVE  \A t \in Sweepers : Good(sweeper'[t])
  <2>1. SweepGoto(s, "log") \/ NextRequest(s)
    BY <1>11 DEF SweepExpire, Transition, SweepLog
  <2>2. PICK x : /\ sweeper' = [sweeper EXCEPT ![s] = x]
                 /\ x.at \in {"log", "sweep"} /\ x.todo = sweeper[s].todo
    <3>1. CASE SweepGoto(s, "log")
      <4> DEFINE y == [sweeper[s] EXCEPT !.at = "log"]
      <4>1. sweeper' = [sweeper EXCEPT ![s] = y] /\ y.at = "log" /\ y.todo = sweeper[s].todo
        BY <1>0, <3>1 DEF SweepGoto, SweepsOK, Sweep
      <4> QED
        BY <4>1
    <3>2. CASE NextRequest(s)
      <4> DEFINE y == [sweeper[s] EXCEPT !.at = "sweep", !.cur = Null]
      <4>1. y.at = "sweep" /\ y.todo = sweeper[s].todo
        BY <1>0 DEF SweepsOK, Sweep
      <4>2. sweeper' = [sweeper EXCEPT ![s] = y]
        BY <1>0, <3>2 DEF NextRequest, SweepsOK, Sweep
      <4> QED
        BY <4>1, <4>2
    <3> QED
      BY <2>1, <3>1, <3>2
  <2>3. Good(x)
    BY <1>4, <2>2
  <2> QED
    BY <1>5, <2>2, <2>3
<1>12. ASSUME NEW s \in Sweepers, ReleaseSweepLock(s) \/ CrashSweeper(s)
       PROVE  \A t \in Sweepers : Good(sweeper'[t])
  <2>1. sweeper' = [sweeper EXCEPT ![s] = NoSweep] /\ Good(NoSweep)
    BY <1>12 DEF ReleaseSweepLock, CrashSweeper, NoSweep
  <2> QED
    BY <1>5, <2>1
<1>13. ASSUME NEW c \in Calls, Arrive(c) \/ Handle(c)
       PROVE  UNCHANGED sweeper
  BY <1>13 DEF Arrive, CreateRequest, CreateBreakGlass, Insert, ApproveRequest, DenyRequest, Deny,
         RevokeRequest, AIApproveRequest, AIDenyRequest, AIEscalateRequest, Handle, LogCreated,
         Alert, SelfApprove, EvalApproval, Rollback, LogApproved, Grant, Activate, LogIssued,
         LogDenied, LogEscalated, CommitRevoke, CallProviderRevoke, LogRevoked
<1>14. ASSUME \/ \E c \in Calls : AbortCall(c)
              \/ \E s \in Sweepers : LoseSweepLock(s)
              \/ \E r \in Requests : Elapse(r)
              \/ UNCHANGED vars
       PROVE  UNCHANGED sweeper
  BY <1>14 DEF AbortCall, LoseSweepLock, Elapse, vars
<1> HIDE DEF Good
<1> QED
  BY <1>7, <1>8, <1>9, <1>10, <1>11, <1>12, <1>13, <1>14 DEF Next, DoSweep, Environment

LEMMA NextHeld ==
  ASSUME OwnInv, SweptInv, HeldInv, [Next]_vars
  PROVE  HeldInv'
<1>0. RowsOK /\ SweepsOK /\ AccessOK /\ CallsOK /\ TypeInv
  BY DEF OwnInv, TypeInv
<1>1. failed \subseteq failed'
  BY FailuresGrow
<1>2. ASSUME UNCHANGED <<row, call>>, access' \subseteq access
      PROVE  HeldInv'
  BY <1>1, <1>2, HitForGood DEF HeldInv, AccessHeld
<1>3. ASSUME NEW s \in Sweepers, SweepExpire(s)
      PROVE  HeldInv'
  <2>1. PICK r \in Requests : r = sweeper[s].cur
    BY <1>0, <1>3 DEF SweepExpire, SweepsOK
  <2>2. UNCHANGED <<access, call>> /\ (r \notin access \/ HitBy(r, {"provider"}))
    BY <1>3, <2>1 DEF SweepExpire, SweptInv
  <2>3. \A q \in Requests \ {r} : row'[q] = row[q]
    BY <1>0, <1>3, <2>1 DEF SweepExpire, Transition, RowsOK
  <2>4. HitBy(r, {"provider"}) => AccessHeld(r)'
    BY <1>1 DEF HitBy, AccessHeld
  <2>5. \A q \in access \ {r} : AccessHeld(q)'
    BY <1>0, <1>1, <2>2, <2>3, HitForGood DEF HeldInv, AccessHeld, AccessOK
  <2> QED
    BY <2>2, <2>4, <2>5 DEF HeldInv
<1>4. ASSUME NEW s \in Sweepers, DoSweep(s), ~SweepExpire(s)
      PROVE  UNCHANGED <<row, call>> /\ access' \subseteq access
  BY <1>4 DEF DoSweep, TryAcquireSweepLock, ListActiveExpired, SweepRevoke, ProviderRevoke,
       SweepLog, ReleaseSweepLock
<1>5. ASSUME NEW c \in Calls, AbortCall(c)
      PROVE  HeldInv'
  <2>1. UNCHANGED <<row, access>> /\ Fails(call[c].req, "abort")
    BY <1>5 DEF AbortCall
  <2>2. \A d \in Calls \ {c} : call'[d] = call[d]
    BY <1>0, <1>5, OneHandlerMoves
  <2>3. HitBy(call[c].req, {"abort"}) \/ <<call[c].req, "abort">> \in failed'
    BY <2>1 DEF Fails
  <2>4. ASSUME NEW r \in access
        PROVE  AccessHeld(r)'
    <3>1. CASE r = call[c].req
      BY <2>1, <3>1 DEF Fails, AccessHeld, HitBy
    <3>2. CASE r # call[c].req
      BY <1>1, <2>1, <2>2, <3>2, HitForGood DEF HeldInv, AccessHeld
    <3> QED
      BY <3>1, <3>2
  <2> QED
    BY <2>1, <2>4 DEF HeldInv
<1>6. ASSUME Environment, \A c \in Calls : ~AbortCall(c)
      PROVE  UNCHANGED <<row, call, access>>
  BY <1>6 DEF Environment, CrashSweeper, LoseSweepLock, Elapse
<1>7. ASSUME UNCHANGED vars
      PROVE  UNCHANGED <<row, call, access>>
  BY <1>7 DEF vars
<1> QED
  BY <1>0, <1>1, <1>2, <1>3, <1>4, <1>5, <1>6, <1>7, ArriveHeld, HandleHeld DEF Next

LEMMA InitHeld == Init => SweptInv /\ HeldInv
BY DEF Init, SweptInv, HeldInv, NoSweep

LEMMA HeldInvAlways == Spec => [](SweptInv /\ HeldInv)
<1>1. OwnInv /\ SweptInv /\ HeldInv /\ [Next]_vars => SweptInv' /\ HeldInv'
  BY NextSwept, NextHeld
<1> QED
  BY <1>1, InitHeld, OwnInvAlways, PTL DEF Spec

-----------------------------------------------------------------------------
(* The audit log. How any step changes one row and one trail is said once;  *)
(* what each handler is about to log is borne out by its row, and stays so. *)

\* A row moves along the lifecycle, keeping its approver but for a row that is PENDING.
RowStep(q) ==
  \/ row'[q] = row[q]
  \/ row[q].state = "ABSENT" /\ row'[q].state = "PENDING"
  \/ row[q].state = "PENDING" /\ row'[q].state \in {"PENDING", "APPROVED", "REJECTED"}
  \/ /\ row'[q].approver = row[q].approver
     /\ \/ row[q].state = "APPROVED" /\ row'[q].state \in {"PENDING", "ACTIVE"}
        \/ row[q].state = "ACTIVE" /\ row'[q].state \in {"EXPIRED", "REVOKED"}

\* An APPROVED row is let go by its owner.
LetGo(q) ==
  row[q].state = "APPROVED" /\ row'[q] # row[q] =>
    \E c \in Calls : /\ Owns(c) /\ call[c].req = q /\ call'[c] # call[c]
                     /\ row'[q].state = "PENDING" => At(c, "rollback")

LEMMA TransitionRow ==
  ASSUME RowsOK, NEW r \in Requests, NEW from, NEW new, NEW ACTION Reaches, NEW ACTION Returns,
         Transition(r, from, new, Reaches, Returns)
  PROVE  /\ \A q \in Requests \ {r} : row'[q] = row[q]
         /\ row'[r] = row[r] \/ (row[r].state = from /\ row'[r] = new)
BY TransitionCases DEF RowsOK

\* A transition of one row whose states and approver fit.
LEMMA RowStepOf ==
  ASSUME RowsOK, NEW r \in Requests, NEW from, NEW new,
         NEW ACTION Reaches, NEW ACTION Returns, Transition(r, from, new, Reaches, Returns),
         \/ from = "PENDING" /\ new.state \in {"APPROVED", "REJECTED"}
         \/ from = "PENDING" /\ new.state = row[r].state
         \/ /\ new.approver = row[r].approver
            /\ \/ from = "APPROVED" /\ new.state \in {"PENDING", "ACTIVE"}
               \/ from = "ACTIVE" /\ new.state \in {"EXPIRED", "REVOKED"}
  PROVE  \A q \in Requests : RowStep(q)
BY TransitionRow DEF RowStep

LEMMA ArriveRows ==
  ASSUME RowsOK, NEW c \in Calls, Arrive(c)
  PROVE  \A q \in Requests : RowStep(q) /\ LetGo(q)
<1>1. ASSUME NEW r \in Requests, NEW u \in Users, NEW tier, NEW op, Insert(c, r, u, tier, op)
      PROVE  \A q \in Requests : RowStep(q) /\ LetGo(q)
  BY <1>1 DEF Insert, NoRow, RowsOK, RowStep, LetGo
<1>2. ASSUME NEW r \in Requests, NEW new, NEW ACTION Reaches, NEW ACTION Returns,
             Transition(r, "PENDING", new, Reaches, Returns),
             new.state \in {"APPROVED", "REJECTED"} \/ new.state = row[r].state
      PROVE  \A q \in Requests : RowStep(q) /\ LetGo(q)
  <2>1. \A q \in Requests : RowStep(q)
    BY <1>2, RowStepOf
  <2>2. \A q \in Requests : row[q].state = "APPROVED" => row'[q] = row[q]
    BY <1>2, TransitionRow
  <2> QED
    BY <2>1, <2>2 DEF LetGo
<1>3. ASSUME NEW r \in Requests, NEW u \in Users, ApproveRequest(c, r, u)
      PROVE  \A q \in Requests : RowStep(q) /\ LetGo(q)
  <2>1. [row[r] EXCEPT !.state = "APPROVED", !.approver = u].state = "APPROVED"
    BY DEF RowsOK, Row
  <2> QED
    BY <1>2, <1>3, <2>1 DEF ApproveRequest
<1>4. ASSUME NEW r \in Requests, NEW op, NEW a, Deny(c, op, r, a)
      PROVE  \A q \in Requests : RowStep(q) /\ LetGo(q)
  <2>1. [row[r] EXCEPT !.state = "REJECTED", !.approver = a].state = "REJECTED"
    BY DEF RowsOK, Row
  <2> QED
    BY <1>2, <1>4, <2>1 DEF Deny
<1>5. ASSUME NEW r \in Requests, AIApproveRequest(c, r)
      PROVE  \A q \in Requests : RowStep(q) /\ LetGo(q)
  <2>1. [row[r] EXCEPT !.state = "APPROVED", !.approver = Agent].state = "APPROVED"
    BY DEF RowsOK, Row
  <2> QED
    BY <1>2, <1>5, <2>1 DEF AIApproveRequest
<1>6. ASSUME NEW r \in Requests, AIEscalateRequest(c, r)
      PROVE  \A q \in Requests : RowStep(q) /\ LetGo(q)
  <2>1. [row[r] EXCEPT !.tier = "human"].state = row[r].state
    BY DEF RowsOK, Row
  <2> QED
    BY <1>2, <1>6, <2>1 DEF AIEscalateRequest
<1>7. ASSUME NEW r \in Requests, NEW u \in Users, RevokeRequest(c, r, u)
      PROVE  \A q \in Requests : RowStep(q) /\ LetGo(q)
  BY <1>7 DEF RevokeRequest, RowStep, LetGo
<1> QED
  BY <1>1, <1>3, <1>4, <1>5, <1>6, <1>7
     DEF Arrive, CreateRequest, CreateBreakGlass, DenyRequest, AIDenyRequest

LEMMA HandleRows ==
  ASSUME OwnInv, NEW c \in Calls, Handle(c)
  PROVE  \A q \in Requests : RowStep(q) /\ LetGo(q)
<1>r. PICK r : r = call[c].req
  OBVIOUS
<1> USE <1>r
<1>0. CallsOK /\ RowsOK
  BY DEF OwnInv, TypeInv
<1>a. ASSUME NEW step, At(c, step), step \notin {"idle", "done"}
      PROVE  r \in Requests
  BY <1>0, <1>a DEF CallsOK, Busy, At
<1>b. ASSUME r \in Requests
      PROVE  \A st : /\ [row[r] EXCEPT !.state = st].state = st
                     /\ [row[r] EXCEPT !.state = st].approver = row[r].approver
  BY <1>0, <1>b DEF RowsOK, Row
<1>1. ASSUME SelfApprove(c)
      PROVE  \A q \in Requests : RowStep(q) /\ LetGo(q)
  <2> DEFINE approver == IF call[c].op = "auto" THEN "policy" ELSE "break-glass"
             new == [row[r] EXCEPT !.state = "APPROVED", !.approver = approver]
  <2>1. r \in Requests
    BY <1>1, <1>a DEF SelfApprove
  <2>2. new.state = "APPROVED"
    BY <1>0, <2>1 DEF RowsOK, Row
  <2>3. Transition(r, "PENDING", new, Goto(c, "logApproved"), Return(c))
    BY <1>1 DEF SelfApprove
  <2> HIDE DEF new
  <2>4. \A q \in Requests : RowStep(q)
    BY <1>0, <2>1, <2>2, <2>3, RowStepOf
  <2>5. \A q \in Requests : row[q].state = "APPROVED" => row'[q] = row[q]
    BY <1>0, <2>1, <2>3, TransitionRow
  <2> QED
    BY <2>4, <2>5 DEF LetGo
<1>2. ASSUME CommitRevoke(c)
      PROVE  \A q \in Requests : RowStep(q) /\ LetGo(q)
  <2> DEFINE new == [row[r] EXCEPT !.state = "REVOKED"]
  <2>1. r \in Requests
    BY <1>2, <1>a DEF CommitRevoke
  <2>2. new.state = "REVOKED" /\ new.approver = row[r].approver
    BY <1>b, <2>1
  <2>3. Transition(r, "ACTIVE", new, Goto(c, "providerRevoke"), Return(c))
    BY <1>2 DEF CommitRevoke
  <2> HIDE DEF new
  <2>4. \A q \in Requests : RowStep(q)
    BY <1>0, <2>1, <2>2, <2>3, RowStepOf
  <2>5. \A q \in Requests : row[q].state = "APPROVED" => row'[q] = row[q]
    BY <1>0, <2>1, <2>3, TransitionRow
  <2> QED
    BY <2>4, <2>5 DEF LetGo
<1>3. ASSUME Rollback(c)
      PROVE  \A q \in Requests : RowStep(q) /\ LetGo(q)
  <2> DEFINE new == [row[r] EXCEPT !.state = "PENDING"]
  <2>1. r \in Requests /\ Owns(c) /\ At(c, "rollback")
    BY <1>3, <1>a DEF Rollback, Owns, At
  <2>2. new.state = "PENDING" /\ new.approver = row[r].approver
    BY <1>b, <2>1
  <2>3. Transition(r, "APPROVED", new, Return(c), Return(c))
    BY <1>3 DEF Rollback
  <2> HIDE DEF new
  <2>4. \A q \in Requests : RowStep(q)
    BY <1>0, <2>1, <2>2, <2>3, RowStepOf
  <2>5. \A q \in Requests \ {r} : row'[q] = row[q]
    BY <1>0, <2>1, <2>3, TransitionRow
  <2>6. Becomes(c, "done", "none", Null, Null)
    BY <1>0, <2>3, TransitionCases, HandlerBecomes
  <2>7. call'[c] # call[c]
    BY <2>1, <2>6 DEF Becomes, At
  <2> QED
    BY <2>1, <2>4, <2>5, <2>7 DEF LetGo
<1>4. ASSUME Activate(c)
      PROVE  \A q \in Requests : RowStep(q) /\ LetGo(q)
  <2> DEFINE new == [row[r] EXCEPT !.state = "ACTIVE"]
  <2>1. r \in Requests /\ Owns(c) /\ At(c, "activate")
    BY <1>4, <1>a DEF Activate, Owns, At
  <2>2. new.state = "ACTIVE" /\ new.approver = row[r].approver
    BY <1>b, <2>1
  <2>3. Transition(r, "APPROVED", new, Goto(c, "logIssued"), Return(c))
    BY <1>4 DEF Activate
  <2> HIDE DEF new
  <2>4. \A q \in Requests : RowStep(q)
    BY <1>0, <2>1, <2>2, <2>3, RowStepOf
  <2>5. /\ \A q \in Requests \ {r} : row'[q] = row[q]
        /\ row'[r] = row[r] \/ row'[r] = new
    BY <1>0, <2>1, <2>3, TransitionRow
  <2>6. \/ Becomes(c, "done", "none", Null, Null)
        \/ Becomes(c, "logIssued", call[c].op, call[c].req, call[c].actor)
    BY <1>0, <2>3, TransitionCases, HandlerBecomes
  <2>7. call'[c] # call[c]
    BY <2>1, <2>6 DEF Becomes, At
  <2> QED
    BY <2>1, <2>2, <2>4, <2>5, <2>7 DEF LetGo
<1>5. ASSUME ~SelfApprove(c), ~CommitRevoke(c), ~Rollback(c), ~Activate(c)
      PROVE  UNCHANGED row
  BY <1>5 DEF Handle, LogCreated, Alert, EvalApproval, LogApproved, Grant, LogIssued, LogDenied,
       LogEscalated, CallProviderRevoke, LogRevoked
<1>6. ASSUME UNCHANGED row
      PROVE  \A q \in Requests : RowStep(q) /\ LetGo(q)
  BY <1>6 DEF RowStep, LetGo
<1> QED
  BY <1>1, <1>2, <1>3, <1>4, <1>5, <1>6

LEMMA NextRows ==
  ASSUME OwnInv, [Next]_vars
  PROVE  \A q \in Requests : RowStep(q) /\ LetGo(q)
<1>0. RowsOK /\ SweepsOK
  BY DEF OwnInv, TypeInv
<1>1. ASSUME NEW s \in Sweepers, SweepExpire(s)
      PROVE  \A q \in Requests : RowStep(q) /\ LetGo(q)
  <2>1. PICK r \in Requests : r = sweeper[s].cur
    BY <1>0, <1>1 DEF SweepExpire, SweepsOK
  <2> DEFINE new == [row[r] EXCEPT !.state = "EXPIRED"]
  <2>2. new.state = "EXPIRED" /\ new.approver = row[r].approver
    BY <1>0 DEF RowsOK, Row
  <2>3. Transition(r, "ACTIVE", new, SweepGoto(s, "log"), NextRequest(s))
    BY <1>1, <2>1 DEF SweepExpire
  <2> HIDE DEF new
  <2>4. \A q \in Requests : RowStep(q)
    BY <1>0, <2>1, <2>2, <2>3, RowStepOf
  <2>5. \A q \in Requests : row[q].state = "APPROVED" => row'[q] = row[q]
    BY <1>0, <2>1, <2>3, TransitionRow
  <2> QED
    BY <2>4, <2>5 DEF LetGo
<1>2. ASSUME \/ \E s \in Sweepers : DoSweep(s) /\ ~SweepExpire(s)
             \/ Environment
             \/ UNCHANGED vars
      PROVE  UNCHANGED row
  BY <1>2 DEF DoSweep, TryAcquireSweepLock, ListActiveExpired, SweepRevoke, SweepLog,
       ReleaseSweepLock, Environment, AbortCall, CrashSweeper, LoseSweepLock, Elapse, vars
<1>3. ASSUME UNCHANGED row
      PROVE  \A q \in Requests : RowStep(q) /\ LetGo(q)
  BY <1>3 DEF RowStep, LetGo
<1> QED
  BY <1>0, <1>1, <1>2, <1>3, ArriveRows, HandleRows DEF Next

\* The row bears out an entry.
Bears(r, e) ==
  /\ row[r].state \in StatesAfter(e)
  /\ e = "request.auto_approved" => row[r].approver = "policy"
  /\ e \in {"request.ai_approved", "request.ai_denied"} => row[r].approver = Agent
  /\ e = "request.denied" => row[r].approver \in Users

\* What a handler knows of its row: the entry it goes to log would be true, and nothing is
\* logged of an approval that may still be taken back.
CallBorne(c) ==
  LET r == call[c].req
  IN /\ Busy(c) => row[r].state # "ABSENT"
     /\ call[c].at = "eval" => call[c].op = "approve"
     /\ call[c].at \in {"alert", "selfApprove"} => call[c].op # "ai_approve"
     /\ call[c].at \in {"eval", "rollback"} => Logged(r) \cap Approvals = {}
     /\ call[c].at = "logApproved" =>
          /\ call[c].op = "auto" => row[r].approver = "policy"
          /\ call[c].op = "ai_approve" => row[r].approver = Agent
     /\ call[c].at = "logDenied" =>
          /\ row[r].state = "REJECTED"
          /\ row[r].approver \in IF call[c].op = "ai_deny" THEN {Agent} ELSE Users
     /\ call[c].at = "logIssued" => row[r].state \in Granted
     /\ call[c].at \in {"providerRevoke", "logRevoked"} => row[r].state = "REVOKED"

TruthInv ==
  /\ \A r \in Requests : \A e \in Logged(r) : Bears(r, e)
  /\ \A c \in Calls : CallBorne(c)
  /\ \A s \in Sweepers : sweeper[s].at = "log" => row[sweeper[s].cur].state = "EXPIRED"

\* An entry that a row bore out is still borne out, unless an approval is taken back.
LEMMA BornStays ==
  ASSUME NEW r, RowStep(r), NEW e \in Entries, Bears(r, e),
         row[r].state = "APPROVED" /\ row'[r].state = "PENDING" => e \notin Approvals
  PROVE  Bears(r, e)'
BY DEF RowStep, Bears, StatesAfter, Entries, Approvals, Denials, States

\* One step adds at most one true entry to a trail, and no row moves with it.
TrailStep(q) ==
  \/ trail'[q] = trail[q]
  \/ \E e \in Entries :
       /\ trail'[q] = Append(trail[q], e)
       /\ UNCHANGED row
       /\ Bears(q, e)
       /\ e \in Approvals => \E c \in Calls : /\ At(c, "logApproved") /\ call[c].req = q
                                              /\ call'[c] # call[c]

LEMMA AppendOne ==
  ASSUME TrailOK, NEW r \in Requests, NEW e, AppendAudit(r, e)
  PROVE  /\ \A q \in Requests \ {r} : trail'[q] = trail[q]
         /\ trail'[r] = trail[r] \/ trail'[r] = Append(trail[r], e)
BY DEF AppendAudit, TrailOK

LEMMA LoggedGrows ==
  ASSUME TrailOK, NEW q \in Requests, NEW e, trail'[q] = Append(trail[q], e)
  PROVE  Logged(q)' = Logged(q) \cup {e}
<1>1. trail[q] \in Seq(Entries)
  BY DEF TrailOK
<1> DEFINE t == trail[q]
<1>2. /\ Len(t) \in Nat /\ DOMAIN t = 1..Len(t)
      /\ DOMAIN Append(t, e) = 1..(Len(t) + 1)
      /\ \A i \in 1..Len(t) : Append(t, e)[i] = t[i]
      /\ Append(t, e)[Len(t) + 1] = e
  BY <1>1
<1> QED
  BY <1>2 DEF Logged

\* What a handler logs is true of its row when it logs it.
LEMMA HandleTrail ==
  ASSUME OwnInv, TruthInv, NEW c \in Calls, Handle(c)
  PROVE  \A q \in Requests : TrailStep(q)
<1>r. PICK r : r = call[c].req
  OBVIOUS
<1> USE <1>r
<1>0. CallsOK /\ TrailOK /\ CallBorne(c)
  BY DEF OwnInv, TypeInv, TruthInv
<1>a. ASSUME NEW step, At(c, step), step \notin {"idle", "done"}
      PROVE  r \in Requests
  BY <1>0, <1>a DEF CallsOK, Busy, At
<1>b. ASSUME r \in Requests, NEW e \in Entries, AppendAudit(r, e), UNCHANGED row, Bears(r, e),
             e \in Approvals => At(c, "logApproved") /\ call'[c] # call[c]
      PROVE  \A q \in Requests : TrailStep(q)
  BY <1>0, <1>b, AppendOne DEF TrailStep
<1>c. ASSUME UNCHANGED trail
      PROVE  \A q \in Requests : TrailStep(q)
  BY <1>c DEF TrailStep
<1>1. CASE LogCreated(c)
  <2>1. /\ AppendAudit(r, "request.created") /\ r \in Requests /\ UNCHANGED row
        /\ row[r].state # "ABSENT" /\ row[r].state \in States
    BY <1>0, <1>1, <1>a DEF LogCreated, CallBorne, Busy, At, OwnInv, TypeInv, RowsOK, Row
  <2>2. Bears(r, "request.created")
    BY <2>1 DEF Bears, StatesAfter, Approvals, Denials
  <2> QED
    BY <1>b, <2>1, <2>2 DEF Entries, Approvals
<1>2. CASE LogApproved(c)
  <2> DEFINE e == ApprovedEntry(call[c].op)
  <2>1. AppendAudit(r, e) /\ r \in Requests /\ UNCHANGED row /\ At(c, "logApproved")
    BY <1>2, <1>a DEF LogApproved
  <2>2. row[r].state = "APPROVED"
    BY <2>1 DEF OwnInv, OwnersOK, Owns, At
  <2>3. e \in Entries /\ e \in Approvals
    BY DEF ApprovedEntry, Entries, Approvals
  <2>4. Bears(r, e)
    <3>1. \/ e = "request.auto_approved" /\ call[c].op = "auto"
          \/ e = "request.ai_approved" /\ call[c].op = "ai_approve"
          \/ e = "request.approved"
      BY DEF ApprovedEntry
    <3> HIDE DEF e
    <3>2. row[r].state \in StatesAfter(e)
      BY <2>2, <2>3 DEF StatesAfter, Approvals, Denials
    <3> QED
      BY <1>0, <2>1, <3>1, <3>2 DEF Bears, CallBorne, At
  <2>5. call'[c] # call[c]
    <3>1. Becomes(c, "grant", call[c].op, call[c].req, call[c].actor)
      BY <1>0, <1>2, HandlerBecomes DEF LogApproved
    <3> QED
      BY <2>1, <3>1 DEF Becomes, At
  <2> HIDE DEF e
  <2> QED
    BY <1>b, <2>1, <2>3, <2>4, <2>5
<1>3. CASE LogDenied(c)
  <2> DEFINE e == DeniedEntry(call[c].op)
  <2>1. AppendAudit(r, e) /\ r \in Requests /\ UNCHANGED row /\ At(c, "logDenied")
    BY <1>3, <1>a DEF LogDenied
  <2>2. e \in Entries /\ e \notin Approvals
    BY DEF DeniedEntry, Entries, Approvals
  <2>3. Bears(r, e)
    BY <1>0, <2>1, <2>2 DEF Bears, StatesAfter, DeniedEntry, CallBorne, At, Approvals, Denials
  <2> HIDE DEF e
  <2> QED
    BY <1>b, <2>1, <2>2, <2>3
<1>4. CASE LogEscalated(c)
  <2>1. /\ AppendAudit(r, "request.ai_escalated") /\ r \in Requests /\ UNCHANGED row
        /\ row[r].state # "ABSENT" /\ row[r].state \in States
    BY <1>0, <1>4, <1>a DEF LogEscalated, CallBorne, Busy, At, OwnInv, TypeInv, RowsOK, Row
  <2>2. Bears(r, "request.ai_escalated")
    BY <2>1 DEF Bears, StatesAfter, Approvals, Denials
  <2> QED
    BY <1>b, <2>1, <2>2 DEF Entries, Approvals
<1>5. CASE LogIssued(c)
  <2>1. /\ AppendAudit(r, "grant.issued") /\ r \in Requests /\ UNCHANGED row
        /\ row[r].state \in Granted
    BY <1>0, <1>5, <1>a DEF LogIssued, CallBorne, At
  <2>2. Bears(r, "grant.issued")
    BY <2>1 DEF Bears, StatesAfter, Approvals, Denials, Granted
  <2> QED
    BY <1>b, <2>1, <2>2 DEF Entries, Approvals
<1>6. CASE LogRevoked(c)
  <2>1. /\ AppendAudit(r, "grant.revoked") /\ r \in Requests /\ UNCHANGED row
        /\ row[r].state = "REVOKED"
    BY <1>0, <1>6, <1>a DEF LogRevoked, CallBorne, At
  <2>2. Bears(r, "grant.revoked")
    BY <2>1 DEF Bears, StatesAfter, Approvals, Denials
  <2> QED
    BY <1>b, <2>1, <2>2 DEF Entries, Approvals
<1>7. ASSUME ~LogCreated(c), ~LogApproved(c), ~LogDenied(c), ~LogEscalated(c), ~LogIssued(c),
             ~LogRevoked(c)
      PROVE  UNCHANGED trail
  BY <1>7 DEF Handle, Alert, SelfApprove, EvalApproval, Rollback, Grant, Activate, CommitRevoke,
       CallProviderRevoke
<1> QED
  BY <1>1, <1>2, <1>3, <1>4, <1>5, <1>6, <1>7, <1>c

LEMMA NextTrail ==
  ASSUME OwnInv, TruthInv, [Next]_vars
  PROVE  \A q \in Requests : TrailStep(q)
<1>0. TrailOK /\ SweepsOK
  BY DEF OwnInv, TypeInv
<1>1. ASSUME NEW s \in Sweepers, SweepLog(s)
      PROVE  \A q \in Requests : TrailStep(q)
  <2>1. PICK r \in Requests : r = sweeper[s].cur
    BY <1>0, <1>1 DEF SweepLog, SweepsOK
  <2>2. AppendAudit(r, "grant.expired") /\ UNCHANGED row /\ row[r].state = "EXPIRED"
    BY <1>1, <2>1 DEF SweepLog, TruthInv
  <2>3. Bears(r, "grant.expired")
    BY <2>2 DEF Bears, StatesAfter, Approvals, Denials
  <2>4. "grant.expired" \in Entries /\ "grant.expired" \notin Approvals
    BY DEF Entries, Approvals
  <2> QED
    BY <1>0, <2>2, <2>3, <2>4, AppendOne DEF TrailStep
<1>2. ASSUME \/ \E s \in Sweepers : DoSweep(s) /\ ~SweepLog(s)
             \/ Environment
             \/ UNCHANGED vars
      PROVE  UNCHANGED trail
  BY <1>2 DEF DoSweep, TryAcquireSweepLock, ListActiveExpired, SweepRevoke, SweepExpire,
       ReleaseSweepLock, Environment, AbortCall, CrashSweeper, LoseSweepLock, Elapse, vars
<1>3. ASSUME NEW c \in Calls, Arrive(c)
      PROVE  UNCHANGED trail
  BY <1>3 DEF Arrive, CreateRequest, CreateBreakGlass, Insert, ApproveRequest, DenyRequest, Deny,
         RevokeRequest, AIApproveRequest, AIDenyRequest, AIEscalateRequest
<1>4. ASSUME UNCHANGED trail
      PROVE  \A q \in Requests : TrailStep(q)
  BY <1>4 DEF TrailStep
<1> QED
  BY <1>1, <1>2, <1>3, <1>4, HandleTrail DEF Next

\* The first part of TruthInv, by what a step does to one row and one trail.
LEMMA LoggedBorne ==
  ASSUME OwnInv, TruthInv, [Next]_vars, NEW r \in Requests
  PROVE  \A e \in Logged(r)' : Bears(r, e)'
<1>0. /\ TrailOK
      /\ \A e \in Logged(r) : e \in Entries /\ Bears(r, e)
      /\ TrailStep(r) /\ RowStep(r) /\ LetGo(r)
  <2>1. trail[r] \in Seq(Entries)
    BY DEF OwnInv, TypeInv, TrailOK
  <2>2. \A e \in Logged(r) : e \in Entries
    BY <2>1 DEF Logged
  <2> QED
    BY <2>2, NextTrail, NextRows DEF OwnInv, TypeInv, TruthInv
<1>1. CASE trail'[r] = trail[r]
  <2>1. Logged(r)' = Logged(r)
    BY <1>1 DEF Logged
  <2>2. row[r].state = "APPROVED" /\ row'[r].state = "PENDING" => Logged(r) \cap Approvals = {}
    BY <1>0 DEF LetGo, TruthInv, CallBorne, At
  <2> QED
    BY <1>0, <2>1, <2>2, BornStays
<1>2. ASSUME NEW e \in Entries, trail'[r] = Append(trail[r], e), UNCHANGED row, Bears(r, e)
      PROVE  \A f \in Logged(r)' : Bears(r, f)'
  <2>1. Logged(r)' = Logged(r) \cup {e}
    BY <1>0, <1>2, LoggedGrows
  <2> QED
    BY <1>0, <1>2, <2>1 DEF Bears
<1> QED
  BY <1>0, <1>1, <1>2 DEF TrailStep

\* A handler that does not move keeps what it knows.
LEMMA BorneStays ==
  ASSUME OwnInv, TruthInv, [Next]_vars, NEW d \in Calls, call'[d] = call[d]
  PROVE  CallBorne(d)'
<1>r. PICK r : r = call[d].req
  OBVIOUS
<1> USE <1>r
<1>0. CallBorne(d)
  BY DEF TruthInv
<1>1. CASE ~Busy(d)
  BY <1>1 DEF CallBorne, Busy
<1>2. CASE Busy(d)
  <2>1. r \in Requests
    BY <1>2 DEF OwnInv, TypeInv, CallsOK
  <2>2. RowStep(r) /\ LetGo(r) /\ TrailStep(r)
    BY <2>1, NextRows, NextTrail
  <2>3. Owns(d) => row[r].state = "APPROVED" /\ \A c \in Calls : Owns(c) /\ call[c].req = r => c = d
    BY DEF OwnInv, OwnersOK
  <2>4. Owns(d) => row'[r] = row[r]
    BY <2>2, <2>3 DEF LetGo
  <2>5. call[d].at \in {"eval", "rollback"} => Logged(r)' \cap Approvals = {}
    <3> SUFFICES ASSUME call[d].at \in {"eval", "rollback"}
                 PROVE  Logged(r)' \cap Approvals = {}
      OBVIOUS
    <3>1. Owns(d) /\ Logged(r) \cap Approvals = {}
      BY <1>0 DEF Owns, CallBorne
    <3>2. \A c \in Calls : At(c, "logApproved") /\ call[c].req = r => c = d
      BY <2>3, <3>1 DEF Owns, At
    <3>3. ASSUME NEW e \in Entries, trail'[r] = Append(trail[r], e), e \notin Approvals
          PROVE  Logged(r)' \cap Approvals = {}
      <4>1. TrailOK
        BY DEF OwnInv, TypeInv
      <4>2. Logged(r)' = Logged(r) \cup {e}
        BY <2>1, <3>3, <4>1, LoggedGrows
      <4> QED
        BY <3>1, <3>3, <4>2
    <3>4. trail'[r] = trail[r] => Logged(r)' = Logged(r)
      BY DEF Logged
    <3> QED
      BY <2>2, <3>1, <3>2, <3>3, <3>4 DEF TrailStep
  <2>6. Busy(d)' /\ row'[r].state # "ABSENT"
    BY <1>0, <1>2, <2>2 DEF CallBorne, RowStep, Busy
  <2>7. call[d].at = "logApproved" => Owns(d)
    BY DEF Owns
  <2>8. /\ call[d].at = "logDenied" => row'[r] = row[r]
        /\ call[d].at = "logIssued" => row'[r].state \in Granted
        /\ call[d].at \in {"providerRevoke", "logRevoked"} => row'[r].state = "REVOKED"
    BY <1>0, <2>2 DEF CallBorne, RowStep, Granted
  <2> QED
    BY <1>0, <2>4, <2>5, <2>6, <2>7, <2>8 DEF CallBorne
<1> QED
  BY <1>1, <1>2

\* A row that a step has touched is not ABSENT.
LEMMA Present ==
  ASSUME NEW r, RowStep(r), row[r].state # "ABSENT"
  PROVE  row'[r].state # "ABSENT"
BY DEF RowStep

LEMMA ArriveBorne ==
  ASSUME OwnInv, TruthInv, NEW c \in Calls, Arrive(c), \A q \in Requests : RowStep(q)
  PROVE  CallBorne(c)'
<1>0. CallsOK /\ RowsOK /\ TrailOK
  BY DEF OwnInv, TypeInv
<1>a. ASSUME Return(c)
      PROVE  CallBorne(c)'
  <2>1. Becomes(c, "done", "none", Null, Null)
    BY <1>0, <1>a, HandlerBecomes
  <2> QED
    BY <2>1 DEF Becomes, CallBorne, Busy
\* The entry follows a transition from PENDING, when nothing of an approval is logged.
<1>b. ASSUME NEW r \in Requests, row[r].state = "PENDING", UNCHANGED trail
      PROVE  Logged(r)' \cap Approvals = {}
  <2>1. \A e \in Approvals : "PENDING" \notin StatesAfter(e)
    BY DEF Approvals, Denials, StatesAfter
  <2>2. Logged(r)' = Logged(r)
    BY <1>b DEF Logged
  <2> QED
    BY <1>b, <2>1, <2>2 DEF TruthInv, Bears
<1>1. ASSUME NEW r \in Requests, NEW u \in Users, NEW tier, NEW op, Insert(c, r, u, tier, op)
      PROVE  CallBorne(c)'
  <2>1. Enter(c, op, r, u, "logCreated") \/ Return(c)
    BY <1>1 DEF Insert
  <2>2. row'[r].state # "ABSENT"
    BY <1>0, <1>1 DEF Insert, RowsOK
  <2>3. ASSUME Enter(c, op, r, u, "logCreated")
        PROVE  CallBorne(c)'
    <3>1. Becomes(c, "logCreated", op, r, u)
      BY <1>0, <2>3, HandlerBecomes
    <3> QED
      BY <2>2, <3>1 DEF Becomes, CallBorne
  <2> QED
    BY <1>a, <2>1, <2>3
<1>2. ASSUME NEW r \in Requests, NEW u \in Users, ApproveRequest(c, r, u)
      PROVE  CallBorne(c)'
  <2> DEFINE new == [row[r] EXCEPT !.state = "APPROVED", !.approver = u]
  <2>1. /\ UNCHANGED trail /\ row[r].state # "ABSENT"
        /\ \/ row[r].state = "PENDING" /\ Enter(c, "approve", r, u, "eval")
           \/ Return(c)
    BY <1>2, TransitionCases DEF ApproveRequest
  <2>2. ASSUME row[r].state = "PENDING", Enter(c, "approve", r, u, "eval")
        PROVE  CallBorne(c)'
    <3>1. Becomes(c, "eval", "approve", r, u)
      BY <1>0, <2>2, HandlerBecomes
    <3>2. row'[r].state # "ABSENT" /\ Logged(r)' \cap Approvals = {}
      BY <1>b, <2>1, <2>2, Present
    <3> QED
      BY <3>1, <3>2 DEF Becomes, CallBorne
  <2> QED
    BY <1>a, <2>1, <2>2
<1>3. ASSUME NEW r \in Requests, NEW op, NEW a, Deny(c, op, r, a),
             a \in IF op = "ai_deny" THEN {Agent} ELSE Users
      PROVE  CallBorne(c)'
  <2> DEFINE new == [row[r] EXCEPT !.state = "REJECTED", !.approver = a]
  <2>1. new.state = "REJECTED" /\ new.approver = a
    BY <1>0 DEF RowsOK, Row
  <2>2. (row' = [row EXCEPT ![r] = new] /\ Enter(c, op, r, a, "logDenied")) \/ Return(c)
    BY <1>3, TransitionCases DEF Deny
  <2> HIDE DEF new
  <2>3. ASSUME row' = [row EXCEPT ![r] = new], Enter(c, op, r, a, "logDenied")
        PROVE  CallBorne(c)'
    <3>1. Becomes(c, "logDenied", op, r, a)
      BY <1>0, <2>3, HandlerBecomes
    <3>2. row'[r].state = "REJECTED" /\ row'[r].approver = a
      BY <1>0, <2>1, <2>3 DEF RowsOK
    <3> QED
      BY <1>3, <3>1, <3>2 DEF Becomes, CallBorne
  <2> QED
    BY <1>a, <2>2, <2>3
<1>4. ASSUME NEW r \in Requests, AIApproveRequest(c, r)
      PROVE  CallBorne(c)'
  <2> DEFINE new == [row[r] EXCEPT !.state = "APPROVED", !.approver = Agent]
  <2>1. new.state = "APPROVED" /\ new.approver = Agent
    BY <1>0 DEF RowsOK, Row
  <2>2. (row' = [row EXCEPT ![r] = new] /\ Enter(c, "ai_approve", r, Agent, "logApproved"))
        \/ Return(c)
    BY <1>4, TransitionCases DEF AIApproveRequest
  <2> HIDE DEF new
  <2>3. ASSUME row' = [row EXCEPT ![r] = new], Enter(c, "ai_approve", r, Agent, "logApproved")
        PROVE  CallBorne(c)'
    <3>1. Becomes(c, "logApproved", "ai_approve", r, Agent)
      BY <1>0, <2>3, HandlerBecomes
    <3>2. row'[r].state = "APPROVED" /\ row'[r].approver = Agent
      BY <1>0, <2>1, <2>3 DEF RowsOK
    <3> QED
      BY <3>1, <3>2 DEF Becomes, CallBorne
  <2> QED
    BY <1>a, <2>2, <2>3
<1>5. ASSUME NEW r \in Requests, AIEscalateRequest(c, r)
      PROVE  CallBorne(c)'
  <2>1. row[r].state # "ABSENT" /\ (Enter(c, "ai_escalate", r, Agent, "logEscalated") \/ Return(c))
    BY <1>5, TransitionCases DEF AIEscalateRequest
  <2>2. ASSUME Enter(c, "ai_escalate", r, Agent, "logEscalated")
        PROVE  CallBorne(c)'
    <3>1. Becomes(c, "logEscalated", "ai_escalate", r, Agent)
      BY <1>0, <2>2, HandlerBecomes
    <3> QED
      BY <2>1, <3>1, Present DEF Becomes, CallBorne
  <2> QED
    BY <1>a, <2>1, <2>2
<1>6. ASSUME NEW r \in Requests, NEW u \in Users, RevokeRequest(c, r, u)
      PROVE  CallBorne(c)'
  <2>1. row[r].state # "ABSENT" /\ Enter(c, "revoke", r, u, "revoke")
    BY <1>6 DEF RevokeRequest
  <2>2. Becomes(c, "revoke", "revoke", r, u)
    BY <1>0, <2>1, HandlerBecomes
  <2> QED
    BY <2>1, <2>2, Present DEF Becomes, CallBorne
<1>7. ASSUME NEW r \in Requests, (\E u \in Users : DenyRequest(c, r, u)) \/ AIDenyRequest(c, r)
      PROVE  CallBorne(c)'
  <2>1. ASSUME NEW u \in Users, DenyRequest(c, r, u)
        PROVE  CallBorne(c)'
    <3>1. Deny(c, "deny", r, u)
      BY <2>1 DEF DenyRequest
    <3> QED
      BY <1>3, <3>1
  <2>2. ASSUME AIDenyRequest(c, r)
        PROVE  CallBorne(c)'
    <3>1. Deny(c, "ai_deny", r, Agent)
      BY <2>2 DEF AIDenyRequest
    <3> QED
      BY <1>3, <3>1
  <2> QED
    BY <1>7, <2>1, <2>2
<1>8. ASSUME NEW r \in Requests, NEW u \in Users, NEW tier,
             CreateRequest(c, r, u, tier) \/ CreateBreakGlass(c, r, u)
      PROVE  CallBorne(c)'
  BY <1>1, <1>8 DEF CreateRequest, CreateBreakGlass
<1> QED
  BY <1>2, <1>4, <1>5, <1>6, <1>7, <1>8 DEF Arrive

LEMMA HandleBorne ==
  ASSUME OwnInv, TruthInv, NEW c \in Calls, Handle(c), \A q \in Requests : RowStep(q)
  PROVE  CallBorne(c)'
<1>r. PICK r : r = call[c].req
  OBVIOUS
<1> USE <1>r
<1>0. CallsOK /\ RowsOK /\ CallBorne(c)
  BY DEF OwnInv, TypeInv, TruthInv
<1>a. ASSUME Return(c)
      PROVE  CallBorne(c)'
  <2>1. Becomes(c, "done", "none", Null, Null)
    BY <1>0, <1>a, HandlerBecomes
  <2> QED
    BY <2>1 DEF Becomes, CallBorne, Busy
<1>b. ASSUME NEW step, Goto(c, step)
      PROVE  /\ call'[c].at = step /\ call'[c].op = call[c].op /\ call'[c].req = r
  BY <1>0, <1>b, HandlerBecomes DEF Becomes
<1>1. r \in Requests /\ row'[r].state # "ABSENT"
  <2>1. Busy(c)
    BY DEF Busy, Handle, At, LogCreated, Alert, SelfApprove, EvalApproval, Rollback,
       LogApproved, Grant, Activate, LogIssued, LogDenied, LogEscalated, CommitRevoke,
       CallProviderRevoke, LogRevoked
  <2> QED
    BY <1>0, <2>1, Present DEF CallsOK, CallBorne
\* Steps about which nothing more is said.
<1>c. ASSUME NEW step \in {"selfApprove", "alert", "grant", "activate"}, Goto(c, step),
             step \in {"selfApprove", "alert"} => call[c].op # "ai_approve"
      PROVE  CallBorne(c)'
  BY <1>b, <1>c, <1>1 DEF CallBorne
<1>2. ASSUME LogCreated(c) \/ Alert(c) \/ LogApproved(c) \/ Grant(c) \/ LogIssued(c)
             \/ LogDenied(c) \/ LogEscalated(c) \/ LogRevoked(c)
      PROVE  CallBorne(c)'
  <2>1. \/ Return(c) \/ Goto(c, "grant") \/ Goto(c, "activate")
        \/ (Goto(c, "selfApprove") \/ Goto(c, "alert")) /\ call[c].op # "ai_approve"
    BY <1>0, <1>2 DEF LogCreated, AfterCreated, Alert, LogApproved, Grant, ProviderGrant,
         LogIssued, LogDenied, LogEscalated, LogRevoked, CallBorne, At
  <2> QED
    BY <1>a, <1>c, <2>1
<1>3. ASSUME SelfApprove(c)
      PROVE  CallBorne(c)'
  <2> DEFINE approver == IF call[c].op = "auto" THEN "policy" ELSE "break-glass"
             new == [row[r] EXCEPT !.state = "APPROVED", !.approver = approver]
  <2>1. new.approver = approver
    BY <1>0, <1>1 DEF RowsOK, Row
  <2>2. \/ row' = [row EXCEPT ![r] = new] /\ Goto(c, "logApproved")
        \/ Return(c)
    BY <1>3, TransitionCases DEF SelfApprove
  <2>3. call[c].op # "ai_approve"
    BY <1>0, <1>3 DEF SelfApprove, At, CallBorne
  <2> HIDE DEF new
  <2>4. ASSUME row' = [row EXCEPT ![r] = new], Goto(c, "logApproved")
        PROVE  CallBorne(c)'
    <3>1. row'[r].approver = approver
      BY <1>0, <1>1, <2>1, <2>4 DEF RowsOK
    <3> QED
      BY <1>b, <1>1, <2>3, <2>4, <3>1 DEF CallBorne
  <2> QED
    BY <1>a, <2>2, <2>4
<1>4. ASSUME EvalApproval(c)
      PROVE  CallBorne(c)'
  <2>1. /\ Goto(c, "logApproved") \/ Goto(c, "rollback")
        /\ call[c].op = "approve" /\ Logged(r) \cap Approvals = {} /\ UNCHANGED trail
    BY <1>0, <1>4 DEF EvalApproval, AfterVerdict, CallBorne, At
  <2>2. Logged(r)' = Logged(r)
    BY <2>1 DEF Logged
  <2>3. CASE Goto(c, "logApproved")
    BY <1>b, <1>1, <2>1, <2>3 DEF CallBorne
  <2>4. CASE Goto(c, "rollback")
    BY <1>b, <1>1, <2>1, <2>2, <2>4 DEF CallBorne
  <2> QED
    BY <2>1, <2>3, <2>4
<1>5. ASSUME Rollback(c)
      PROVE  CallBorne(c)'
  BY <1>5, <1>a, TransitionCases DEF Rollback
<1>6. ASSUME Activate(c)
      PROVE  CallBorne(c)'
  <2>1. \/ row' = [row EXCEPT ![r] = [row[r] EXCEPT !.state = "ACTIVE"]] /\ Goto(c, "logIssued")
        \/ Return(c)
    BY <1>6, TransitionCases DEF Activate
  <2>2. ASSUME row' = [row EXCEPT ![r] = [row[r] EXCEPT !.state = "ACTIVE"]], Goto(c, "logIssued")
        PROVE  CallBorne(c)'
    <3>1. row'[r].state = "ACTIVE"
      BY <1>0, <1>1, <2>2 DEF RowsOK, Row
    <3> QED
      BY <1>b, <1>1, <2>2, <3>1 DEF CallBorne, Granted
  <2> QED
    BY <1>a, <2>1, <2>2
<1>7. ASSUME CommitRevoke(c)
      PROVE  CallBorne(c)'
  <2>1. \/ /\ row' = [row EXCEPT ![r] = [row[r] EXCEPT !.state = "REVOKED"]]
           /\ Goto(c, "providerRevoke")
        \/ Return(c)
    BY <1>7, TransitionCases DEF CommitRevoke
  <2>2. ASSUME row' = [row EXCEPT ![r] = [row[r] EXCEPT !.state = "REVOKED"]],
               Goto(c, "providerRevoke")
        PROVE  CallBorne(c)'
    <3>1. row'[r].state = "REVOKED"
      BY <1>0, <1>1, <2>2 DEF RowsOK, Row
    <3> QED
      BY <1>b, <1>1, <2>2, <3>1 DEF CallBorne
  <2> QED
    BY <1>a, <2>1, <2>2
<1>8. ASSUME CallProviderRevoke(c)
      PROVE  CallBorne(c)'
  <2>1. Goto(c, "logRevoked") /\ UNCHANGED row /\ row[r].state = "REVOKED"
    BY <1>0, <1>8 DEF CallProviderRevoke, CallBorne, At
  <2> QED
    BY <1>b, <1>1, <2>1 DEF CallBorne
<1> QED
  BY <1>2, <1>3, <1>4, <1>5, <1>6, <1>7, <1>8 DEF Handle

LEMMA NextTruth ==
  ASSUME OwnInv, TruthInv, [Next]_vars
  PROVE  TruthInv'
<1>0. CallsOK /\ SweepsOK /\ RowsOK
  BY DEF OwnInv, TypeInv
<1>1. \A r \in Requests : RowStep(r)
  BY NextRows
<1>2. \A r \in Requests : \A e \in Logged(r)' : Bears(r, e)'
  BY LoggedBorne
<1>3. ASSUME NEW d \in Calls
      PROVE  CallBorne(d)'
  <2>1. CASE call'[d] = call[d]
    BY <2>1, BorneStays
  <2>2. CASE Arrive(d)
    BY <1>1, <2>2, ArriveBorne
  <2>3. CASE Handle(d)
    BY <1>1, <2>3, HandleBorne
  <2>4. CASE AbortCall(d)
    <3>1. Becomes(d, "done", "none", Null, Null)
      BY <1>0, <2>4, HandlerBecomes DEF AbortCall
    <3> QED
      BY <3>1 DEF Becomes, CallBorne, Busy
  <2>5. ASSUME ~Arrive(d), ~Handle(d), ~AbortCall(d)
        PROVE  call'[d] = call[d]
    <3>1. ASSUME NEW c \in Calls, Arrive(c) \/ Handle(c) \/ AbortCall(c)
          PROVE  call'[d] = call[d]
      BY <1>0, <2>5, <3>1, OneHandlerMoves
    <3>2. ASSUME \/ \E s \in Sweepers : DoSweep(s) \/ CrashSweeper(s) \/ LoseSweepLock(s)
                 \/ \E r \in Requests : Elapse(r)
                 \/ UNCHANGED vars
          PROVE  UNCHANGED call
      BY <3>2 DEF DoSweep, TryAcquireSweepLock, ListActiveExpired, SweepRevoke, SweepExpire,
           SweepLog, ReleaseSweepLock, CrashSweeper, LoseSweepLock, Elapse, vars
    <3> QED
      BY <3>1, <3>2 DEF Next, Environment
  <2> QED
    BY <2>1, <2>2, <2>3, <2>4, <2>5
<1>4. ASSUME NEW t \in Sweepers, sweeper'[t].at = "log"
      PROVE  row'[sweeper'[t].cur].state = "EXPIRED"
  <2>1. CASE sweeper'[t] = sweeper[t]
    <3>1. sweeper[t].cur \in Requests /\ row[sweeper[t].cur].state = "EXPIRED"
      BY <1>0, <1>4, <2>1 DEF SweepsOK, TruthInv
    <3> QED
      BY <1>1, <2>1, <3>1 DEF RowStep
  <2>2. CASE SweepExpire(t)
    <3>1. PICK r \in Requests : r = sweeper[t].cur
      BY <1>0, <2>2 DEF SweepExpire, SweepsOK
    <3>2. NextRequest(t) => sweeper'[t].at = "sweep"
      BY <1>0 DEF NextRequest, SweepsOK, Sweep
    <3>3. SweepGoto(t, "log") => sweeper'[t].cur = r
      BY <1>0, <3>1 DEF SweepGoto, SweepsOK, Sweep
    <3>4. /\ row' = [row EXCEPT ![r] = [row[r] EXCEPT !.state = "EXPIRED"]]
          /\ SweepGoto(t, "log")
      BY <1>4, <2>2, <3>1, <3>2, TransitionCases DEF SweepExpire
    <3>5. row'[r].state = "EXPIRED"
      BY <1>0, <3>1, <3>4 DEF RowsOK, Row
    <3> QED
      BY <3>3, <3>4, <3>5
  <2>3. ASSUME ~SweepExpire(t), sweeper'[t] # sweeper[t]
        PROVE  FALSE
    <3>1. ASSUME NEW s \in Sweepers, NEW x, sweeper' = [sweeper EXCEPT ![s] = x], x.at # "log"
          PROVE  FALSE
      BY <1>0, <1>4, <2>3, <3>1 DEF SweepsOK
    <3>2. ASSUME NEW s \in Sweepers,
                 (DoSweep(s) /\ ~SweepExpire(s)) \/ CrashSweeper(s)
          PROVE  FALSE
      <4>1. ASSUME TryAcquireSweepLock(s)
            PROVE  FALSE
        <5> DEFINE x == [sweeper[s] EXCEPT !.at = "list"]
        <5>1. sweeper' = [sweeper EXCEPT ![s] = x] /\ x.at # "log"
          BY <1>0, <4>1 DEF TryAcquireSweepLock, SweepsOK, Sweep
        <5> QED
          BY <3>1, <5>1
      <4>2. ASSUME ListActiveExpired(s)
            PROVE  FALSE
        <5>1. PICK x : sweeper' = [sweeper EXCEPT ![s] = x] /\ x.at = "sweep"
          <6> DEFINE y(todo) == [at |-> "sweep", todo |-> todo, cur |-> Null]
          <6>1. PICK todo : sweeper' = [sweeper EXCEPT ![s] = y(todo)]
            BY <4>2 DEF ListActiveExpired
          <6>2. y(todo).at = "sweep"
            OBVIOUS
          <6> QED
            BY <6>1, <6>2
        <5> QED
          BY <3>1, <5>1
      <4>3. ASSUME NEW r \in Requests, SweepRevoke(s, r)
            PROVE  FALSE
        <5> DEFINE x == [at |-> "expire", todo |-> sweeper[s].todo \ {r}, cur |-> r]
        <5>1. sweeper' = [sweeper EXCEPT ![s] = x] /\ x.at # "log"
          BY <4>3 DEF SweepRevoke
        <5> HIDE DEF x
        <5> QED
          BY <3>1, <5>1
      <4>4. ASSUME SweepLog(s)
            PROVE  FALSE
        <5> DEFINE x == [sweeper[s] EXCEPT !.at = "sweep", !.cur = Null]
        <5>1. x.at # "log"
          BY <1>0 DEF SweepsOK, Sweep
        <5>2. sweeper' = [sweeper EXCEPT ![s] = x]
          BY <1>0, <4>4 DEF SweepLog, NextRequest, SweepsOK, Sweep
        <5> QED
          BY <3>1, <5>1, <5>2
      <4>5. ASSUME ReleaseSweepLock(s) \/ CrashSweeper(s)
            PROVE  FALSE
        <5>1. sweeper' = [sweeper EXCEPT ![s] = NoSweep] /\ NoSweep.at # "log"
          BY <4>5 DEF ReleaseSweepLock, CrashSweeper, NoSweep
        <5> QED
          BY <3>1, <5>1
      <4> QED
        BY <3>2, <4>1, <4>2, <4>3, <4>4, <4>5 DEF DoSweep
    <3>3. ASSUME NEW s \in Sweepers, SweepExpire(s)
          PROVE  FALSE
      <4>1. s # t
        BY <2>3, <3>3
      <4>2. SweepGoto(s, "log") \/ NextRequest(s)
        BY <3>3, TransitionCases DEF SweepExpire
      <4>3. sweeper'[t] = sweeper[t]
        BY <1>0, <4>1, <4>2 DEF SweepGoto, NextRequest, SweepsOK
      <4> QED
        BY <2>3, <4>3
    <3>4. ASSUME \/ \E c \in Calls : AbortCall(c)
                 \/ \E s \in Sweepers : LoseSweepLock(s)
                 \/ \E r \in Requests : Elapse(r)
                 \/ UNCHANGED vars
          PROVE  UNCHANGED sweeper
      BY <3>4 DEF AbortCall, LoseSweepLock, Elapse, vars
    <3>5. ASSUME NEW c \in Calls, Arrive(c) \/ Handle(c)
          PROVE  UNCHANGED sweeper
      BY <3>5 DEF Arrive, CreateRequest, CreateBreakGlass, Insert, ApproveRequest, DenyRequest,
           Deny, RevokeRequest, AIApproveRequest, AIDenyRequest, AIEscalateRequest, Handle,
           LogCreated, Alert, SelfApprove, EvalApproval, Rollback, LogApproved, Grant, Activate,
           LogIssued, LogDenied, LogEscalated, CommitRevoke, CallProviderRevoke, LogRevoked
    <3> QED
      BY <2>3, <3>2, <3>3, <3>4, <3>5 DEF Next, Environment
  <2> QED
    BY <2>1, <2>2, <2>3
<1> QED
  BY <1>2, <1>3, <1>4 DEF TruthInv

LEMMA InitTruth == Init => TruthInv
BY DEF Init, TruthInv, Logged, CallBorne, Busy, NoCall, NoSweep

LEMMA TruthInvAlways == Spec => []TruthInv
<1>1. OwnInv /\ TruthInv /\ [Next]_vars => TruthInv'
  BY NextTruth
<1> QED
  BY <1>1, InitTruth, OwnInvAlways, PTL DEF Spec

\* Every entry of the log is borne out by its row for good, however many handlers and
\* sweepers write to it.
THEOREM AuditAlwaysTruthful == Spec => []AuditTruthful
<1>1. TruthInv => AuditTruthful
  BY DEF TruthInv, Bears, AuditTruthful
<1> QED
  BY <1>1, TruthInvAlways, PTL

-----------------------------------------------------------------------------
(* Access and revocations. What HeldInv leaves open is the state: access is *)
(* of a request that was granted, and a row gets EXPIRED only by a sweep    *)
(* that has asked the provider to revoke.                                   *)

AccessInv ==
  \A r \in access :
    /\ issued[r] = 1
    /\ row[r].state = "EXPIRED" => HitBy(r, {"provider"})

\* A row expires only in the hands of a sweeper.
LEMMA OnlySweepsExpire ==
  ASSUME OwnInv, [Next]_vars, NEW r \in Requests,
         row[r].state = "ACTIVE", row'[r].state = "EXPIRED"
  PROVE  \E s \in Sweepers : SweepExpire(s) /\ sweeper[s].cur = r
<1>0. TypeInv /\ RowsOK /\ SweepsOK /\ CallsOK
  BY DEF OwnInv, TypeInv
<1>1. ASSUME NEW c \in Calls
      PROVE  ~Arrive(c)
  BY <1>0, ArriveActive
<1>2. ASSUME NEW c \in Calls, Handle(c)
      PROVE  FALSE
  <2>1. CASE SelfApprove(c) \/ Rollback(c) \/ Activate(c)
    <3>1. call[c].req \in Requests
      BY <1>0, <2>1 DEF SelfApprove, Rollback, Activate, At, CallsOK, Busy
    <3> QED
      BY <1>0, <2>1, <3>1, ActiveStays DEF SelfApprove, Rollback, Activate
  <2>2. CASE CommitRevoke(c)
    <3> DEFINE new == [row[call[c].req] EXCEPT !.state = "REVOKED"]
    <3>1. call[c].req \in Requests
      BY <1>0, <2>2 DEF CommitRevoke, At, CallsOK, Busy
    <3>2. new.state = "REVOKED"
      BY <1>0, <3>1 DEF RowsOK, Row
    <3>3. Transition(call[c].req, "ACTIVE", new, Goto(c, "providerRevoke"), Return(c))
      BY <2>2 DEF CommitRevoke
    <3> HIDE DEF new
    <3>4. row'[r] = row[r] \/ row'[r] = new
      BY <1>0, <3>1, <3>3, TransitionRow
    <3> QED
      BY <3>2, <3>4
  <2>3. ASSUME ~SelfApprove(c), ~Rollback(c), ~Activate(c), ~CommitRevoke(c)
        PROVE  UNCHANGED row
    BY <1>2, <2>3 DEF Handle, LogCreated, Alert, EvalApproval, LogApproved, Grant, LogIssued,
         LogDenied, LogEscalated, CallProviderRevoke, LogRevoked
  <2> QED
    BY <2>1, <2>2, <2>3
<1>3. ASSUME NEW s \in Sweepers, SweepExpire(s)
      PROVE  sweeper[s].cur = r
  <2>1. sweeper[s].cur \in Requests
    BY <1>0, <1>3 DEF SweepExpire, SweepsOK
  <2>2. \A q \in Requests \ {sweeper[s].cur} : row'[q] = row[q]
    BY <1>0, <1>3, <2>1, TransitionRow DEF SweepExpire
  <2> QED
    BY <2>2
<1>4. ASSUME \/ \E s \in Sweepers : DoSweep(s) /\ ~SweepExpire(s)
             \/ Environment
             \/ UNCHANGED vars
      PROVE  UNCHANGED row
  BY <1>4 DEF DoSweep, TryAcquireSweepLock, ListActiveExpired, SweepRevoke, SweepLog,
       ReleaseSweepLock, Environment, AbortCall, CrashSweeper, LoseSweepLock, Elapse, vars
<1> QED
  BY <1>1, <1>2, <1>3, <1>4 DEF Next

\* Whatever access there is has been counted as issued.
LEMMA AccessCounted ==
  ASSUME OwnInv, AccessInv, [Next]_vars
  PROVE  \A r \in access' : issued'[r] = 1
<1>0. AccessOK /\ CallsOK /\ TypeInv
  BY DEF OwnInv, TypeInv
<1>1. ASSUME NEW c \in Calls, Grant(c)
      PROVE  \A r \in access' : issued'[r] >= 1
  <2>1. call[c].req \in Requests
    BY <1>0, <1>1 DEF Grant, At, CallsOK, Busy
  <2>2. \/ /\ access' = access \cup {call[c].req}
           /\ issued' = [issued EXCEPT ![call[c].req] = @ + 1]
        \/ UNCHANGED <<access, issued>>
    BY <1>1 DEF Grant, ProviderGrant
  <2> QED
    BY <1>0, <2>1, <2>2 DEF AccessOK, AccessInv
<1>2. ASSUME NEW c \in Calls, Handle(c), ~Grant(c)
      PROVE  access' \subseteq access /\ UNCHANGED issued
  BY <1>2 DEF Handle, LogCreated, Alert, SelfApprove, EvalApproval, Rollback, LogApproved,
       Activate, LogIssued, LogDenied, LogEscalated, CommitRevoke, CallProviderRevoke,
       ProviderRevoke, LogRevoked
<1>3. ASSUME NEW c \in Calls, Arrive(c)
      PROVE  access' \subseteq access /\ UNCHANGED issued
  BY <1>3 DEF Arrive, CreateRequest, CreateBreakGlass, Insert, ApproveRequest, DenyRequest, Deny,
         RevokeRequest, AIApproveRequest, AIDenyRequest, AIEscalateRequest
<1>4. ASSUME (\E s \in Sweepers : DoSweep(s)) \/ Environment \/ UNCHANGED vars
      PROVE  access' \subseteq access /\ UNCHANGED issued
  BY <1>4 DEF DoSweep, TryAcquireSweepLock, ListActiveExpired, SweepRevoke, ProviderRevoke,
       SweepExpire, SweepLog, ReleaseSweepLock, Environment, AbortCall, CrashSweeper,
       LoseSweepLock, Elapse, vars
<1>5. \A r \in access' : issued'[r] >= 1
  BY <1>1, <1>2, <1>3, <1>4 DEF Next, AccessInv
<1>6. OwnInv'
  BY NextOwn
<1>7. ASSUME NEW r \in Requests
      PROVE  issued'[r] \in {0, 1}
  BY <1>6 DEF OwnInv, IssuedOK, TypeInv, RowsOK, Row, States
<1>8. access' \subseteq Requests
  BY <1>6 DEF OwnInv, TypeInv, AccessOK
<1> QED
  BY <1>5, <1>7, <1>8

LEMMA NextAccess ==
  ASSUME OwnInv, SweptInv, AccessInv, [Next]_vars
  PROVE  AccessInv'
<1>1. ASSUME NEW r \in access', row'[r].state = "EXPIRED"
      PROVE  HitBy(r, {"provider"})'
  <2>1. r \in Requests
    BY <1>1, NextOwn DEF OwnInv, TypeInv, AccessOK
  <2>2. RowStep(r) /\ failed \subseteq failed'
    BY <2>1, NextRows, FailuresGrow
  <2>3. r \in access
    BY <1>1, <2>2, AccessGrows DEF RowStep
  <2>4. CASE row[r].state = "EXPIRED"
    BY <2>2, <2>3, <2>4, HitForGood DEF AccessInv
  <2>5. CASE row[r].state = "ACTIVE"
    <3>1. PICK s \in Sweepers : SweepExpire(s) /\ sweeper[s].cur = r
      BY <1>1, <2>1, <2>5, OnlySweepsExpire
    <3>2. HitBy(r, {"provider"})
      BY <2>3, <3>1 DEF SweptInv, SweepExpire
    <3> QED
      BY <2>2, <3>2, HitForGood
  <2> QED
    BY <1>1, <2>2, <2>4, <2>5 DEF RowStep
<1> QED
  BY <1>1, AccessCounted DEF AccessInv

LEMMA AccessInvAlways == Spec => []AccessInv
<1>1. Init => AccessInv
  BY DEF Init, AccessInv
<1>2. OwnInv /\ SweptInv /\ AccessInv /\ [Next]_vars => AccessInv'
  BY NextAccess
<1> QED
  BY <1>1, <1>2, OwnInvAlways, HeldInvAlways, PTL DEF Spec

\* Access never outlives its request without a failure on that very request, however
\* many calls and replicas work on it, and never precedes its approval.
THEOREM AccessAlwaysAccounted == Spec => []AccessAccounted
<1>1. ASSUME OwnInv, TruthInv, HeldInv, AccessInv, NEW r \in access
      PROVE  LET state == row[r].state
             IN /\ issued[r] = 1
                /\ \/ state = "ACTIVE"
                   \/ state = "APPROVED" /\ Busied(r, "activate")
                   \/ state = "REVOKED" /\ Busied(r, "providerRevoke")
                   \/ state \in {"APPROVED", "REVOKED"} /\ HitBy(r, {"provider", "db", "abort"})
                   \/ state = "EXPIRED" /\ HitBy(r, {"provider"})
  <2>1. issued[r] = 1 /\ (row[r].state = "EXPIRED" => HitBy(r, {"provider"}))
    BY <1>1 DEF AccessInv
  <2>2. row[r].state \in {"APPROVED", "ACTIVE", "EXPIRED", "REVOKED"}
    BY <1>1, <2>1 DEF OwnInv, IssuedOK, TypeInv, AccessOK, RowsOK, Row, States
  <2>3. ASSUME NEW c \in Calls, call[c].req = r, call[c].at \in Mending
        PROVE  \/ row[r].state = "APPROVED" /\ Busied(r, "activate")
               \/ row[r].state = "REVOKED" /\ Busied(r, "providerRevoke")
    <3>1. CASE At(c, "activate")
      BY <1>1, <2>3, <3>1 DEF OwnInv, OwnersOK, Owns, At, Busied
    <3>2. CASE At(c, "providerRevoke")
      BY <1>1, <2>3, <3>2 DEF TruthInv, CallBorne, At, Busied
    <3> QED
      BY <2>3, <3>1, <3>2 DEF At, Mending
  <2> QED
    BY <1>1, <2>1, <2>2, <2>3 DEF HeldInv, AccessHeld
<1>2. OwnInv /\ TruthInv /\ HeldInv /\ AccessInv => AccessAccounted
  BY <1>1 DEF AccessAccounted
<1> QED
  BY <1>2, OwnInvAlways, TruthInvAlways, HeldInvAlways, AccessInvAlways, PTL

\* RevokeRequest and the sweepers call Provider.Revoke only for a request whose one
\* Grant has returned, and no Grant of it can follow.
THEOREM RevokesAlwaysFollowGrant == Spec => []RevokesFollowGrant
<1>1. ASSUME OwnInv, TruthInv, SweptInv, NEW r \in Requests, Revoking(r)
      PROVE  /\ row[r].state \in {"ACTIVE", "EXPIRED", "REVOKED"} /\ issued[r] = 1
             /\ ~Busied(r, "grant") /\ ~Busied(r, "activate")
  <2>1. row[r].state \in Granted
    BY <1>1 DEF Revoking, Busied, At, TruthInv, CallBorne, SweptInv, Granted
  <2>2. issued[r] = 1
    BY <1>1, <2>1 DEF OwnInv, IssuedOK, Granted
  <2>3. ~Busied(r, "grant") /\ ~Busied(r, "activate")
    BY <1>1, <2>1 DEF Busied, At, Owns, OwnInv, OwnersOK, Granted
  <2> QED
    BY <2>1, <2>2, <2>3 DEF Granted
<1>2. OwnInv /\ TruthInv /\ SweptInv => RevokesFollowGrant
  BY <1>1 DEF RevokesFollowGrant
<1> QED
  BY <1>2, OwnInvAlways, TruthInvAlways, HeldInvAlways, PTL

-----------------------------------------------------------------------------
(* One entry of each kind. A handler or sweeper that is due to log an entry *)
(* is the only one, and nothing of the kind is logged yet: when it became   *)
(* due, the row was in a state that no such entry and no such handler bears.*)

Ended == {"grant.revoked", "grant.expired"}

\* The kind of entry a handler is due to log at a step.
DueAt(step) ==
  CASE step = "logCreated" -> {"request.created"}
    [] step = "logApproved" -> Approvals
    [] step = "logDenied" -> Denials
    [] step = "logIssued" -> {"grant.issued"}
    [] step \in {"providerRevoke", "logRevoked"} -> Ended
    [] OTHER -> {}

Due(c) == DueAt(call[c].at)

CallsOnce ==
  \A r \in Requests, c \in Calls : call[c].req = r =>
    /\ Logged(r) \cap Due(c) = {}
    /\ \A d \in Calls \ {c} : call[d].req = r => Due(c) \cap Due(d) = {}

\* The replica is due to log the expiry of the request.
Expiring(s, r) == sweeper[s].at = "log" /\ sweeper[s].cur = r

SweepsOnce ==
  \A r \in Requests, s \in Sweepers : Expiring(s, r) =>
    /\ Logged(r) \cap Ended = {}
    /\ \A t \in Sweepers \ {s} : ~Expiring(t, r)

OnceInv == AuditOnce /\ CallsOnce /\ SweepsOnce

AuditInv == OwnInv /\ TruthInv

\* A state of the row in which nothing of a kind is logged or due.
Before(D) ==
  CASE D = {"request.created"} -> "ABSENT"
    [] D = Approvals -> "PENDING"
    [] D = Denials -> "PENDING"
    [] D = {"grant.issued"} -> "APPROVED"
    [] D = Ended -> "ACTIVE"

EntryKinds == {{"request.created"}, Approvals, Denials, {"grant.issued"}, Ended}

LEMMA DueKinds ==
  /\ \A step : DueAt(step) \in EntryKinds \cup {{}}
  /\ \A D, E \in EntryKinds : D # E => D \cap E = {}
BY DEF DueAt, EntryKinds, Approvals, Denials, Ended

LEMMA BeforeStates ==
  /\ Before({"request.created"}) = "ABSENT" /\ Before(Approvals) = "PENDING"
  /\ Before(Denials) = "PENDING" /\ Before({"grant.issued"}) = "APPROVED"
  /\ Before(Ended) = "ACTIVE"
BY DEF Before, Approvals, Denials, Ended

\* Nothing of the kind is logged of a row that is in the state before it.
LEMMA NotYetLogged ==
  ASSUME AuditInv, NEW r \in Requests, NEW D \in EntryKinds, row[r].state = Before(D)
  PROVE  Logged(r) \cap D = {}
<1>1. ASSUME NEW e \in D
      PROVE  Before(D) \notin StatesAfter(e)
  BY <1>1, BeforeStates DEF EntryKinds, StatesAfter, Approvals, Denials, Ended
<1> QED
  BY <1>1 DEF AuditInv, TruthInv, Bears

\* Nobody is due to log anything of the kind then.
LEMMA NobodyDue ==
  ASSUME AuditInv, NEW r \in Requests, NEW D \in EntryKinds, row[r].state = Before(D),
         NEW d \in Calls, call[d].req = r
  PROVE  Due(d) \cap D = {}
<1>1. Due(d) # D
  <2>1. CallBorne(d) /\ (Owns(d) => row[r].state = "APPROVED")
    BY DEF AuditInv, TruthInv, OwnInv, OwnersOK
  <2>2. Due(d) = {"request.created"} => row[r].state # "ABSENT"
    BY <2>1 DEF Due, DueAt, CallBorne, Busy, Approvals, Denials, Ended
  <2>3. Due(d) = Approvals => row[r].state = "APPROVED"
    BY <2>1 DEF Due, DueAt, Owns, Approvals, Denials, Ended
  <2>4. Due(d) = Denials => row[r].state = "REJECTED"
    BY <2>1 DEF Due, DueAt, CallBorne, Approvals, Denials, Ended
  <2>5. Due(d) = {"grant.issued"} => row[r].state \in Granted
    BY <2>1 DEF Due, DueAt, CallBorne, Approvals, Denials, Ended
  <2>6. Due(d) = Ended => row[r].state = "REVOKED"
    BY <2>1 DEF Due, DueAt, CallBorne, Approvals, Denials, Ended
  <2> QED
    BY <2>2, <2>3, <2>4, <2>5, <2>6, BeforeStates DEF EntryKinds, Granted
<1> QED
  BY <1>1, DueKinds DEF Due

\* One handler moves and the log stays: what it is due to log now is as before, or nothing
\* of the kind is logged or due.
LEMMA DueKept ==
  ASSUME CallsOnce, UNCHANGED trail, NEW c \in Calls, \A d \in Calls \ {c} : call'[d] = call[d],
         NEW r, r = call'[c].req, NEW D, D = Due(c)',
         \/ D = {}
         \/ r = call[c].req /\ D = Due(c)
         \/ /\ Logged(r) \cap D = {}
            /\ \A d \in Calls \ {c} : call[d].req = r => Due(d) \cap D = {}
  PROVE  CallsOnce'
<1>1. r \in Requests =>
        /\ Logged(r) \cap D = {}
        /\ \A d \in Calls \ {c} : call[d].req = r => Due(d) \cap D = {}
  BY DEF CallsOnce
<1>2. \A d \in Calls \ {c} : Due(d)' = Due(d)
  BY DEF Due
<1>3. \A q \in Requests : Logged(q)' = Logged(q)
  BY DEF Logged
<1> QED
  BY <1>1, <1>2, <1>3 DEF CallsOnce

\* Whatever is logged once more, it is an escalation or nothing of its kind was logged.
LEMMA OnceAppended ==
  ASSUME AuditOnce, TrailOK, NEW r \in Requests, NEW e, trail'[r] = Append(trail[r], e),
         \A q \in Requests \ {r} : trail'[q] = trail[q],
         \/ e = "request.ai_escalated"
         \/ \E D \in EntryKinds : e \in D /\ Logged(r) \cap D = {}
  PROVE  AuditOnce'
<1> DEFINE Apart(a, b) ==
             /\ a = b => a = "request.ai_escalated"
             /\ ~({a, b} \subseteq Approvals)
             /\ ~({a, b} \subseteq {"grant.revoked", "grant.expired"})
<1>1. \A f \in Logged(r) : Apart(e, f) /\ Apart(f, e)
  BY DEF EntryKinds, Approvals, Denials, Ended
<1>2. \A q \in Requests : \A i, j \in DOMAIN trail[q] : i # j => Apart(trail[q][i], trail[q][j])
  BY DEF AuditOnce
<1>3. SUFFICES \A q \in Requests : \A i, j \in DOMAIN trail'[q] :
                 i # j => Apart(trail'[q][i], trail'[q][j])
  BY DEF AuditOnce
<1> HIDE DEF Apart
<1>4. ASSUME NEW q \in Requests \ {r}
      PROVE  \A i, j \in DOMAIN trail'[q] : i # j => Apart(trail'[q][i], trail'[q][j])
  BY <1>2, <1>4
<1>5. \A i, j \in DOMAIN trail'[r] : i # j => Apart(trail'[r][i], trail'[r][j])
  <2>1. PICK t \in Seq(Entries) : t = trail[r]
    BY DEF TrailOK
  <2>2. /\ Len(t) \in Nat /\ DOMAIN t = 1..Len(t)
        /\ DOMAIN Append(t, e) = 1..(Len(t) + 1)
        /\ \A i \in 1..Len(t) : Append(t, e)[i] = t[i]
        /\ Append(t, e)[Len(t) + 1] = e
    BY <2>1
  <2>3. \A i \in 1..Len(t) : t[i] \in Logged(r)
    BY <2>1, <2>2 DEF Logged
  <2>4. \A i, j \in 1..Len(t) : i # j => Apart(t[i], t[j])
    BY <1>2, <2>1, <2>2
  <2>5. \A i \in 1..Len(t) : Apart(t[i], e) /\ Apart(e, t[i])
    BY <1>1, <2>3
  <2> QED
    BY <2>1, <2>2, <2>4, <2>5
<1> QED
  BY <1>4, <1>5

\* A step that logs nothing and moves no sweeper is judged by its handler alone.
LEMMA UnloggedOnce ==
  ASSUME OnceInv, UNCHANGED <<trail, sweeper>>, CallsOnce'
  PROVE  OnceInv'
BY DEF OnceInv, AuditOnce, SweepsOnce, Expiring, Logged

\* A handler logs the entry it was due to log, and is due to log nothing more.
LEMMA LoggedOnce ==
  ASSUME AuditInv, OnceInv, NEW c \in Calls, NEW r \in Requests, call[c].req = r, NEW e,
         AppendAudit(r, e), e \in Due(c) \/ e = "request.ai_escalated",
         Due(c)' = {}, \A d \in Calls \ {c} : call'[d] = call[d], UNCHANGED sweeper
  PROVE  OnceInv'
<1>0. TrailOK /\ CallBorne(c) /\ Due(c) \in EntryKinds \cup {{}}
  BY DueKinds DEF AuditInv, OwnInv, TypeInv, TruthInv, Due
<1>1. /\ Logged(r) \cap Due(c) = {}
      /\ \A d \in Calls \ {c} : call[d].req = r => Due(c) \cap Due(d) = {}
  BY DEF OnceInv, CallsOnce
<1>2. /\ \A d \in Calls \ {c} : Due(d)' = Due(d)
      /\ \A q \in Requests, s \in Sweepers : Expiring(s, q)' = Expiring(s, q)
  BY DEF Due, Expiring
<1>3. CASE UNCHANGED trail
  <2>1. CallsOnce'
    BY <1>3, DueKept DEF OnceInv
  <2> QED
    BY <1>3, <2>1, UnloggedOnce
<1>4. CASE trail'[r] = Append(trail[r], e) /\ \A q \in Requests \ {r} : trail'[q] = trail[q]
  <2>1. Logged(r)' = Logged(r) \cup {e} /\ \A q \in Requests \ {r} : Logged(q)' = Logged(q)
    BY <1>0, <1>4, LoggedGrows DEF Logged
  <2>2. AuditOnce'
    BY <1>0, <1>1, <1>4, OnceAppended DEF OnceInv
  <2>3. \A d \in Calls \ {c} : call[d].req = r => e \notin Due(d)
    <3>1. \A step : "request.ai_escalated" \notin DueAt(step)
      BY DEF DueAt, Approvals, Denials, Ended
    <3> QED
      BY <1>1, <3>1 DEF Due
  <2>4. CallsOnce'
    BY <1>2, <2>1, <2>3 DEF OnceInv, CallsOnce
  <2>5. ASSUME NEW s \in Sweepers, Expiring(s, r)
        PROVE  e \notin Ended
    <3>1. row[r].state = "EXPIRED"
      BY <2>5 DEF Expiring, AuditInv, TruthInv
    <3>2. Due(c) # Ended
      BY <1>0, <3>1 DEF Due, DueAt, CallBorne, Approvals, Denials, Ended
    <3> QED
      BY <1>0, <3>2, DueKinds DEF EntryKinds, Ended
  <2>6. SweepsOnce'
    BY <1>2, <2>1, <2>5 DEF OnceInv, SweepsOnce
  <2> QED
    BY <2>2, <2>4, <2>6 DEF OnceInv
<1> QED
  BY <1>0, <1>3, <1>4 DEF AppendAudit, TrailOK

LEMMA HandleOnce ==
  ASSUME AuditInv, OnceInv, NEW c \in Calls, Handle(c)
  PROVE  OnceInv'
<1>r. PICK r : r = call[c].req
  OBVIOUS
<1> USE <1>r
<1>0. CallsOK /\ CallsOnce /\ \A d \in Calls \ {c} : call'[d] = call[d]
  BY OneHandlerMoves DEF AuditInv, OwnInv, TypeInv, OnceInv
<1>a. ASSUME NEW step, At(c, step), step \notin {"idle", "done"}
      PROVE  r \in Requests
  BY <1>0, <1>a DEF CallsOK, Busy, At
<1>b. /\ Return(c) => Due(c)' = {}
      /\ \A step : Goto(c, step) => Due(c)' = DueAt(step) /\ call'[c].req = r
  <2>1. Return(c) => Due(c)' = {}
    BY <1>0, HandlerBecomes DEF Becomes, Due, DueAt
  <2>2. ASSUME NEW step, Goto(c, step)
        PROVE  Due(c)' = DueAt(step) /\ call'[c].req = r
    BY <1>0, <2>2, HandlerBecomes DEF Becomes, Due
  <2> QED
    BY <2>1, <2>2
<1>k. /\ {"request.created"} \in EntryKinds /\ Approvals \in EntryKinds /\ Denials \in EntryKinds
      /\ {"grant.issued"} \in EntryKinds /\ Ended \in EntryKinds
  BY DEF EntryKinds
<1>d. /\ \A step \in {"selfApprove", "alert", "grant", "activate", "rollback", "done"} :
           DueAt(step) = {}
      /\ DueAt("logApproved") = Approvals /\ DueAt("logIssued") = {"grant.issued"}
      /\ DueAt("providerRevoke") = Ended /\ DueAt("logRevoked") = Ended
      /\ DueAt("logCreated") = {"request.created"} /\ DueAt("logDenied") = Denials
  BY DEF DueAt
\* The handler logs what it was due to log.
<1>c. ASSUME NEW e, NEW step \in {"selfApprove", "alert", "grant"}, AppendAudit(r, e),
             UNCHANGED sweeper, r \in Requests, e \in Due(c) \/ e = "request.ai_escalated",
             Return(c) \/ Goto(c, step)
      PROVE  OnceInv'
  <2>1. Due(c)' = {}
    BY <1>b, <1>c, <1>d
  <2> QED
    BY <1>0, <1>c, <2>1, LoggedOnce
\* The handler becomes due, or stays so, without logging.
<1>e. ASSUME NEW D, UNCHANGED <<trail, sweeper>>, Due(c)' = D,
             \/ D = {}
             \/ /\ call'[c].req = r
                /\ \/ D = Due(c)
                   \/ r \in Requests /\ D \in EntryKinds /\ row[r].state = Before(D)
      PROVE  OnceInv'
  <2>1. ASSUME r \in Requests, D \in EntryKinds, row[r].state = Before(D)
        PROVE  /\ Logged(r) \cap D = {}
               /\ \A d \in Calls \ {c} : call[d].req = r => Due(d) \cap D = {}
    BY <2>1, NotYetLogged, NobodyDue
  <2>2. CallsOnce'
    BY <1>0, <1>e, <2>1, DueKept
  <2> QED
    BY <1>e, <2>2, UnloggedOnce
<1>1. CASE LogCreated(c)
  <2>1. /\ r \in Requests /\ UNCHANGED sweeper /\ AppendAudit(r, "request.created")
        /\ Return(c) \/ Goto(c, "selfApprove") \/ Goto(c, "alert")
    BY <1>1, <1>a DEF LogCreated, AfterCreated
  <2>2. "request.created" \in Due(c)
    BY <1>1 DEF LogCreated, At, Due, DueAt
  <2> QED
    BY <1>c, <2>1, <2>2
<1>2. CASE LogApproved(c)
  <2>1. /\ r \in Requests /\ UNCHANGED sweeper /\ AppendAudit(r, ApprovedEntry(call[c].op))
        /\ Goto(c, "grant")
    BY <1>2, <1>a DEF LogApproved
  <2>2. ApprovedEntry(call[c].op) \in Due(c)
    BY <1>2, <1>d DEF LogApproved, At, Due, Approvals, ApprovedEntry
  <2> QED
    BY <1>c, <2>1, <2>2
<1>3. CASE LogDenied(c)
  <2>1. /\ r \in Requests /\ UNCHANGED sweeper /\ AppendAudit(r, DeniedEntry(call[c].op))
        /\ Return(c)
    BY <1>3, <1>a DEF LogDenied
  <2>2. DeniedEntry(call[c].op) \in Due(c)
    BY <1>3, <1>d DEF LogDenied, At, Due, Denials, DeniedEntry
  <2> QED
    BY <1>c, <2>1, <2>2
<1>4. CASE LogEscalated(c)
  <2>1. /\ r \in Requests /\ UNCHANGED sweeper /\ AppendAudit(r, "request.ai_escalated")
        /\ Return(c)
    BY <1>4, <1>a DEF LogEscalated
  <2> QED
    BY <1>c, <2>1
<1>5. CASE LogIssued(c)
  <2>1. /\ r \in Requests /\ UNCHANGED sweeper /\ AppendAudit(r, "grant.issued")
        /\ Return(c)
    BY <1>5, <1>a DEF LogIssued
  <2>2. "grant.issued" \in Due(c)
    BY <1>5, <1>d DEF LogIssued, At, Due
  <2> QED
    BY <1>c, <2>1, <2>2
<1>6. CASE LogRevoked(c)
  <2>1. /\ r \in Requests /\ UNCHANGED sweeper /\ AppendAudit(r, "grant.revoked")
        /\ Return(c)
    BY <1>6, <1>a DEF LogRevoked
  <2>2. "grant.revoked" \in Due(c)
    BY <1>6, <1>d DEF LogRevoked, At, Due, Ended
  <2> QED
    BY <1>c, <2>1, <2>2
<1>7. CASE Alert(c) \/ Grant(c) \/ Rollback(c)
  <2>1. /\ UNCHANGED <<trail, sweeper>>
        /\ Return(c) \/ Goto(c, "selfApprove") \/ Goto(c, "activate")
    BY <1>7, TransitionCases DEF Alert, Grant, ProviderGrant, Rollback
  <2>2. Due(c)' = {}
    BY <1>b, <1>d, <2>1
  <2> QED
    BY <1>e, <2>1, <2>2
<1>8. CASE EvalApproval(c)
  <2>1. UNCHANGED <<trail, sweeper>> /\ (Goto(c, "logApproved") \/ Goto(c, "rollback"))
    BY <1>8 DEF EvalApproval, AfterVerdict
  <2>2. CASE Goto(c, "rollback")
    <3>1. Due(c)' = {}
      BY <1>b, <1>d, <2>2
    <3> QED
      BY <1>e, <2>1, <3>1
  <2>3. CASE Goto(c, "logApproved")
    <3>1. Due(c)' = Approvals /\ call'[c].req = r
      BY <1>b, <1>d, <2>3
    <3>2. Logged(r) \cap Approvals = {}
      BY <1>8 DEF EvalApproval, At, AuditInv, TruthInv, CallBorne
    <3>3. ASSUME NEW d \in Calls \ {c}, call[d].req = r
          PROVE  Due(d) \cap Approvals = {}
      <4>1. ~Owns(d)
        BY <1>8, <3>3 DEF EvalApproval, At, Owns, AuditInv, OwnInv, OwnersOK
      <4> QED
        BY <4>1 DEF Due, DueAt, Owns, Approvals, Denials, Ended
    <3>4. CallsOnce'
      BY <1>0, <2>1, <3>1, <3>2, <3>3, DueKept
    <3> QED
      BY <2>1, <3>4, UnloggedOnce
  <2> QED
    BY <2>1, <2>2, <2>3
<1>9. CASE SelfApprove(c)
  <2>1. /\ r \in Requests /\ UNCHANGED <<trail, sweeper>>
        /\ Return(c) \/ (row[r].state = "PENDING" /\ Goto(c, "logApproved"))
    BY <1>9, <1>a, TransitionCases DEF SelfApprove
  <2> QED
    BY <1>b, <1>d, <1>e, <1>k, <2>1, BeforeStates
<1>10. CASE Activate(c)
  <2>1. /\ r \in Requests /\ UNCHANGED <<trail, sweeper>>
        /\ Return(c) \/ (row[r].state = "APPROVED" /\ Goto(c, "logIssued"))
    BY <1>10, <1>a, TransitionCases DEF Activate
  <2> QED
    BY <1>b, <1>d, <1>e, <1>k, <2>1, BeforeStates
<1>11. CASE CommitRevoke(c)
  <2>1. /\ r \in Requests /\ UNCHANGED <<trail, sweeper>>
        /\ Return(c) \/ (row[r].state = "ACTIVE" /\ Goto(c, "providerRevoke"))
    BY <1>11, <1>a, TransitionCases DEF CommitRevoke
  <2> QED
    BY <1>b, <1>d, <1>e, <1>k, <2>1, BeforeStates
<1>12. CASE CallProviderRevoke(c)
  <2>1. UNCHANGED <<trail, sweeper>> /\ Goto(c, "logRevoked") /\ Due(c) = Ended
    BY <1>12, <1>d DEF CallProviderRevoke, At, Due
  <2> QED
    BY <1>b, <1>d, <1>e, <2>1
<1> QED
  BY <1>1, <1>2, <1>3, <1>4, <1>5, <1>6, <1>7, <1>8, <1>9, <1>10, <1>11, <1>12 DEF Handle

LEMMA ArriveOnce ==
  ASSUME AuditInv, OnceInv, NEW c \in Calls, Arrive(c)
  PROVE  OnceInv'
<1>0. CallsOK /\ CallsOnce /\ \A d \in Calls \ {c} : call'[d] = call[d]
  BY OneHandlerMoves DEF AuditInv, OwnInv, TypeInv, OnceInv
<1>1. UNCHANGED <<trail, sweeper>>
  BY DEF Arrive, CreateRequest, CreateBreakGlass, Insert, ApproveRequest, DenyRequest, Deny,
         RevokeRequest, AIApproveRequest, AIDenyRequest, AIEscalateRequest
<1>a. ASSUME Return(c)
      PROVE  OnceInv'
  <2>1. Becomes(c, "done", "none", Null, Null)
    BY <1>0, <1>a, HandlerBecomes
  <2>2. Due(c)' = {}
    BY <2>1 DEF Becomes, Due, DueAt
  <2> QED
    BY <1>0, <1>1, <2>2, DueKept, UnloggedOnce
\* The handler goes on with a step at which it is due to log an entry of kind D.
<1>b. ASSUME NEW op, NEW r \in Requests, NEW a, NEW step, Enter(c, op, r, a, step), NEW D,
             D = DueAt(step), D = {} \/ (D \in EntryKinds /\ row[r].state = Before(D))
      PROVE  OnceInv'
  <2>1. Becomes(c, step, op, r, a)
    BY <1>0, <1>b, HandlerBecomes
  <2>2. Due(c)' = D /\ call'[c].req = r
    BY <1>b, <2>1 DEF Becomes, Due
  <2>3. ASSUME D \in EntryKinds, row[r].state = Before(D)
        PROVE  /\ Logged(r) \cap D = {}
               /\ \A d \in Calls \ {c} : call[d].req = r => Due(d) \cap D = {}
    BY <2>3, NotYetLogged, NobodyDue
  <2>4. CallsOnce'
    BY <1>0, <1>1, <1>b, <2>2, <2>3, DueKept
  <2> QED
    BY <1>1, <2>4, UnloggedOnce
<1>k. /\ {"request.created"} \in EntryKinds /\ Approvals \in EntryKinds /\ Denials \in EntryKinds
      /\ DueAt("logCreated") = {"request.created"} /\ DueAt("logApproved") = Approvals
      /\ DueAt("logDenied") = Denials
      /\ DueAt("eval") = {} /\ DueAt("logEscalated") = {} /\ DueAt("revoke") = {}
  BY DEF EntryKinds, DueAt
<1>2. ASSUME NEW r \in Requests, NEW u \in Users, NEW tier, NEW op, Insert(c, r, u, tier, op)
      PROVE  OnceInv'
  <2>1. row[r].state = "ABSENT" /\ (Enter(c, op, r, u, "logCreated") \/ Return(c))
    BY <1>2 DEF Insert, NoRow
  <2> QED
    BY <1>a, <1>b, <1>k, <2>1, BeforeStates
<1>3. ASSUME NEW r \in Requests, NEW u \in Users, ApproveRequest(c, r, u)
      PROVE  OnceInv'
  <2>1. Enter(c, "approve", r, u, "eval") \/ Return(c)
    BY <1>3, TransitionCases DEF ApproveRequest
  <2> QED
    BY <1>a, <1>b, <1>k, <2>1
<1>4. ASSUME NEW r \in Requests, NEW op, NEW a, Deny(c, op, r, a)
      PROVE  OnceInv'
  <2>1. (row[r].state = "PENDING" /\ Enter(c, op, r, a, "logDenied")) \/ Return(c)
    BY <1>4, TransitionCases DEF Deny
  <2> QED
    BY <1>a, <1>b, <1>k, <2>1, BeforeStates
<1>5. ASSUME NEW r \in Requests, AIApproveRequest(c, r)
      PROVE  OnceInv'
  <2>1. (row[r].state = "PENDING" /\ Enter(c, "ai_approve", r, Agent, "logApproved")) \/ Return(c)
    BY <1>5, TransitionCases DEF AIApproveRequest
  <2> QED
    BY <1>a, <1>b, <1>k, <2>1, BeforeStates
<1>6. ASSUME NEW r \in Requests, AIEscalateRequest(c, r)
      PROVE  OnceInv'
  <2>1. Enter(c, "ai_escalate", r, Agent, "logEscalated") \/ Return(c)
    BY <1>6, TransitionCases DEF AIEscalateRequest
  <2> QED
    BY <1>a, <1>b, <1>k, <2>1
<1>7. ASSUME NEW r \in Requests, NEW u \in Users, RevokeRequest(c, r, u)
      PROVE  OnceInv'
  BY <1>7, <1>b, <1>k DEF RevokeRequest
<1> QED
  BY <1>2, <1>3, <1>4, <1>5, <1>6, <1>7
     DEF Arrive, CreateRequest, CreateBreakGlass, DenyRequest, AIDenyRequest

LEMMA SweepOnce ==
  ASSUME AuditInv, OnceInv, NEW s \in Sweepers, DoSweep(s)
  PROVE  OnceInv'
<1>0. SweepsOK /\ TrailOK /\ RowsOK /\ UNCHANGED call
  BY DEF AuditInv, OwnInv, TypeInv, DoSweep, TryAcquireSweepLock, ListActiveExpired, SweepRevoke,
         SweepExpire, SweepLog, ReleaseSweepLock
<1>a. \A c \in Calls : Due(c)' = Due(c)
  BY <1>0 DEF Due
\* The log is as it was, and no replica is due to log but those that were.
<1>b. ASSUME UNCHANGED trail,
             \A t \in Sweepers, r \in Requests : Expiring(t, r)' => Expiring(t, r)
      PROVE  OnceInv'
  <2>1. CallsOnce' /\ AuditOnce'
    BY <1>0, <1>a, <1>b DEF OnceInv, CallsOnce, AuditOnce, Logged
  <2>2. SweepsOnce'
    BY <1>b DEF OnceInv, SweepsOnce, Logged
  <2> QED
    BY <2>1, <2>2 DEF OnceInv
<1>c. ASSUME NEW x, sweeper' = [sweeper EXCEPT ![s] = x]
      PROVE  sweeper'[s] = x /\ \A t \in Sweepers \ {s} : sweeper'[t] = sweeper[t]
  BY <1>0, <1>c DEF SweepsOK
<1>d. ASSUME NEW x, sweeper' = [sweeper EXCEPT ![s] = x], x.at # "log", UNCHANGED trail
      PROVE  OnceInv'
  BY <1>b, <1>c, <1>d DEF Expiring
<1>e. ASSUME NextRequest(s)
      PROVE  \E x : sweeper' = [sweeper EXCEPT ![s] = x] /\ x.at # "log"
  <2> DEFINE x == [sweeper[s] EXCEPT !.at = "sweep", !.cur = Null]
  <2>1. x.at # "log"
    BY <1>0 DEF SweepsOK, Sweep
  <2>2. sweeper' = [sweeper EXCEPT ![s] = x]
    BY <1>0, <1>e DEF NextRequest, SweepsOK, Sweep
  <2> QED
    BY <2>1, <2>2
<1>1. ASSUME TryAcquireSweepLock(s)
      PROVE  OnceInv'
  <2> DEFINE x == [sweeper[s] EXCEPT !.at = "list"]
  <2>1. sweeper' = [sweeper EXCEPT ![s] = x] /\ x.at # "log" /\ UNCHANGED trail
    BY <1>0, <1>1 DEF TryAcquireSweepLock, SweepsOK, Sweep
  <2> QED
    BY <1>d, <2>1
<1>2. ASSUME ListActiveExpired(s)
      PROVE  OnceInv'
  <2> DEFINE x(todo) == [at |-> "sweep", todo |-> todo, cur |-> Null]
  <2>1. PICK todo : sweeper' = [sweeper EXCEPT ![s] = x(todo)] /\ UNCHANGED trail
    BY <1>2 DEF ListActiveExpired
  <2>2. x(todo).at # "log"
    OBVIOUS
  <2> HIDE DEF x
  <2> QED
    BY <1>d, <2>1, <2>2
<1>3. ASSUME NEW r \in Requests, SweepRevoke(s, r)
      PROVE  OnceInv'
  <2> DEFINE x == [at |-> "expire", todo |-> sweeper[s].todo \ {r}, cur |-> r]
  <2>1. sweeper' = [sweeper EXCEPT ![s] = x] /\ x.at # "log" /\ UNCHANGED trail
    BY <1>3 DEF SweepRevoke
  <2> HIDE DEF x
  <2> QED
    BY <1>d, <2>1
<1>4. ASSUME ReleaseSweepLock(s)
      PROVE  OnceInv'
  <2>1. sweeper' = [sweeper EXCEPT ![s] = NoSweep] /\ NoSweep.at # "log" /\ UNCHANGED trail
    BY <1>4 DEF ReleaseSweepLock, NoSweep
  <2> QED
    BY <1>d, <2>1
<1>5. ASSUME SweepExpire(s)
      PROVE  OnceInv'
  <2>1. PICK r \in Requests : r = sweeper[s].cur
    BY <1>0, <1>5 DEF SweepExpire, SweepsOK
  <2>2. UNCHANGED trail /\ (NextRequest(s) \/ (row[r].state = "ACTIVE" /\ SweepGoto(s, "log")))
    BY <1>5, <2>1, TransitionCases DEF SweepExpire
  <2>3. CASE NextRequest(s)
    BY <1>d, <1>e, <2>2, <2>3
  <2>4. CASE row[r].state = "ACTIVE" /\ SweepGoto(s, "log")
    <3>1. /\ \A t \in Sweepers \ {s} : sweeper'[t] = sweeper[t]
          /\ sweeper'[s].cur = r
      BY <1>0, <2>1, <2>4 DEF SweepGoto, SweepsOK, Sweep
    <3>2. Logged(r) \cap Ended = {}
      BY <2>4, NotYetLogged, BeforeStates DEF EntryKinds
    <3>3. \A t \in Sweepers : ~Expiring(t, r)
      BY <2>4 DEF Expiring, AuditInv, TruthInv
    <3>4. \A t \in Sweepers, q \in Requests : Expiring(t, q)' => (t = s /\ q = r) \/ Expiring(t, q)
      BY <3>1 DEF Expiring
    <3>5. \A q \in Requests : Logged(q)' = Logged(q)
      BY <2>2 DEF Logged
    <3>6. SweepsOnce'
      BY <3>2, <3>3, <3>4, <3>5 DEF OnceInv, SweepsOnce
    <3>7. CallsOnce' /\ AuditOnce'
      BY <1>0, <1>a, <2>2, <3>5 DEF OnceInv, CallsOnce, AuditOnce
    <3> QED
      BY <3>6, <3>7 DEF OnceInv
  <2> QED
    BY <2>2, <2>3, <2>4
<1>6. ASSUME SweepLog(s)
      PROVE  OnceInv'
  <2>1. PICK r \in Requests : r = sweeper[s].cur
    BY <1>0, <1>6 DEF SweepLog, SweepsOK
  <2>2. PICK x : sweeper' = [sweeper EXCEPT ![s] = x] /\ x.at # "log"
    BY <1>6, <1>e DEF SweepLog
  <2>3. CASE UNCHANGED trail
    BY <1>d, <2>2, <2>3
  <2>4. CASE trail' = [trail EXCEPT ![r] = Append(trail[r], "grant.expired")]
    <3>1. /\ trail'[r] = Append(trail[r], "grant.expired")
          /\ \A q \in Requests \ {r} : trail'[q] = trail[q]
      BY <1>0, <2>4 DEF TrailOK
    <3>2. /\ Logged(r)' = Logged(r) \cup {"grant.expired"}
          /\ \A q \in Requests \ {r} : Logged(q)' = Logged(q)
      BY <1>0, <3>1, LoggedGrows DEF Logged
    <3>3. Expiring(s, r) /\ row[r].state = "EXPIRED" /\ Logged(r) \cap Ended = {}
      BY <1>6, <2>1 DEF SweepLog, Expiring, AuditInv, TruthInv, OnceInv, SweepsOnce
    <3>4. AuditOnce'
      BY <1>0, <3>1, <3>3, OnceAppended DEF EntryKinds, Ended, OnceInv
    <3>5. \A c \in Calls : call[c].req = r => "grant.expired" \notin Due(c)
      BY <3>3 DEF AuditInv, TruthInv, CallBorne, Due, DueAt, Approvals, Denials
    <3>6. CallsOnce'
      BY <1>0, <1>a, <3>2, <3>5 DEF OnceInv, CallsOnce
    <3>7. \A t \in Sweepers, q \in Requests : Expiring(t, q)' => Expiring(t, q) /\ t # s
      BY <1>c, <2>2 DEF Expiring
    <3>8. SweepsOnce'
      BY <3>2, <3>3, <3>7 DEF OnceInv, SweepsOnce
    <3> QED
      BY <3>4, <3>6, <3>8 DEF OnceInv
  <2> QED
    BY <1>6, <2>1, <2>3, <2>4 DEF SweepLog, AppendAudit
<1> QED
  BY <1>1, <1>2, <1>3, <1>4, <1>5, <1>6 DEF DoSweep

LEMMA NextOnce ==
  ASSUME AuditInv, OnceInv, [Next]_vars
  PROVE  OnceInv'
<1>0. CallsOK /\ SweepsOK
  BY DEF AuditInv, OwnInv, TypeInv
<1>1. ASSUME NEW c \in Calls, AbortCall(c)
      PROVE  OnceInv'
  <2>1. Becomes(c, "done", "none", Null, Null) /\ UNCHANGED <<trail, sweeper>>
    BY <1>0, <1>1, HandlerBecomes DEF AbortCall
  <2>2. Due(c)' = {} /\ \A d \in Calls \ {c} : call'[d] = call[d]
    BY <2>1 DEF Becomes, Due, DueAt
  <2> QED
    BY <2>1, <2>2, DueKept, UnloggedOnce DEF OnceInv
<1>2. ASSUME NEW s \in Sweepers, CrashSweeper(s)
      PROVE  OnceInv'
  <2>1. UNCHANGED <<trail, call>> /\ sweeper' = [sweeper EXCEPT ![s] = NoSweep]
    BY <1>2 DEF CrashSweeper
  <2>2. \A t \in Sweepers, r \in Requests : Expiring(t, r)' => Expiring(t, r)
    BY <1>0, <2>1 DEF Expiring, SweepsOK, NoSweep
  <2>3. \A r \in Requests : Logged(r)' = Logged(r)
    BY <2>1 DEF Logged
  <2> QED
    BY <2>1, <2>2, <2>3 DEF OnceInv, AuditOnce, CallsOnce, SweepsOnce, Due
<1>3. ASSUME UNCHANGED <<trail, call, sweeper>>
      PROVE  OnceInv'
  <2>1. \A c \in Calls : Due(c)' = Due(c)
    BY <1>3 DEF Due
  <2>2. \A r \in Requests : Logged(r)' = Logged(r)
    BY <1>3 DEF Logged
  <2>3. CallsOnce'
    BY <1>3, <2>1, <2>2 DEF OnceInv, CallsOnce
  <2> QED
    BY <1>3, <2>3, UnloggedOnce
<1>4. ASSUME \/ \E s \in Sweepers : LoseSweepLock(s)
             \/ \E r \in Requests : Elapse(r)
             \/ UNCHANGED vars
      PROVE  UNCHANGED <<trail, call, sweeper>>
  BY <1>4 DEF LoseSweepLock, Elapse, vars
<1> QED
  BY <1>1, <1>2, <1>3, <1>4, ArriveOnce, HandleOnce, SweepOnce DEF Next, Environment

LEMMA InitOnce == Init => OnceInv
BY DEF Init, OnceInv, AuditOnce, CallsOnce, SweepsOnce, Due, DueAt, Expiring, NoCall, NoSweep

\* Whatever races for a request, it has one approval, one denial, one issue and one end
\* in the log at most, for any number of handlers and replicas.
THEOREM AuditAlwaysOnce == Spec => []AuditOnce
<1>1. AuditInv /\ OnceInv /\ [Next]_vars => OnceInv'
  BY NextOnce
<1>2. OnceInv => AuditOnce
  BY DEF OnceInv
<1> QED
  BY <1>1, <1>2, InitOnce, OwnInvAlways, TruthInvAlways, PTL DEF Spec, AuditInv

\* A trail in order.
InOrder(t) ==
  \A i, j \in DOMAIN t : t[i] \in Approvals /\ t[j] \in GrantEntries => i < j

\* A trail stays in order with one more entry, unless it is a late approval.
LEMMA InOrderAppended ==
  ASSUME NEW t \in Seq(Entries), NEW e \in Entries, InOrder(t),
         e \in Approvals => \A i \in DOMAIN t : t[i] \notin GrantEntries
  PROVE  InOrder(Append(t, e))
<1>1. /\ Len(t) \in Nat /\ DOMAIN t = 1..Len(t)
      /\ DOMAIN Append(t, e) = 1..(Len(t) + 1)
      /\ \A i \in 1..Len(t) : Append(t, e)[i] = t[i]
      /\ Append(t, e)[Len(t) + 1] = e
  OBVIOUS
<1>2. Approvals \cap GrantEntries = {}
  BY DEF Approvals, GrantEntries
<1> SUFFICES ASSUME NEW i \in 1..(Len(t) + 1), NEW j \in 1..(Len(t) + 1),
                    Append(t, e)[i] \in Approvals, Append(t, e)[j] \in GrantEntries
             PROVE  i < j
  BY <1>1 DEF InOrder
<1>3. CASE i \in 1..Len(t) /\ j \in 1..Len(t)
  BY <1>1, <1>3 DEF InOrder
<1>4. CASE i = Len(t) + 1
  <2>1. e \in Approvals /\ j # Len(t) + 1
    BY <1>1, <1>2, <1>4
  <2> QED
    BY <1>1, <2>1
<1>5. CASE i # Len(t) + 1 /\ j = Len(t) + 1
  BY <1>1, <1>5
<1> QED
  BY <1>1, <1>3, <1>4, <1>5

\* Who logs an approval owns the row, which is APPROVED, and so bears out no entry of a
\* grant's life.
LEMMA NextInOrder ==
  ASSUME AuditInv, AuditInOrder, [Next]_vars
  PROVE  AuditInOrder'
<1>0. TrailOK /\ TruthInv /\ OwnInv
  BY DEF AuditInv, OwnInv, TypeInv
<1>1. ASSUME NEW r \in Requests
      PROVE  InOrder(trail'[r])
  <2>1. trail[r] \in Seq(Entries) /\ InOrder(trail[r])
    BY <1>0 DEF TrailOK, AuditInOrder, InOrder
  <2>2. TrailStep(r)
    BY <1>0, NextTrail
  <2>3. ASSUME NEW c \in Calls, At(c, "logApproved"), call[c].req = r
        PROVE  \A i \in DOMAIN trail[r] : trail[r][i] \notin GrantEntries
    <3>1. row[r].state = "APPROVED"
      BY <1>0, <2>3 DEF OwnInv, OwnersOK, Owns, At
    <3>2. \A e \in GrantEntries : row[r].state \notin StatesAfter(e)
      BY <3>1 DEF GrantEntries, StatesAfter, Approvals, Denials
    <3> QED
      BY <1>0, <3>2 DEF TruthInv, Bears, Logged
  <2>4. CASE trail'[r] = trail[r]
    BY <2>1, <2>4
  <2>5. ASSUME NEW e \in Entries, trail'[r] = Append(trail[r], e),
               e \in Approvals => \E c \in Calls : At(c, "logApproved") /\ call[c].req = r
        PROVE  InOrder(trail'[r])
    BY <2>1, <2>3, <2>5, InOrderAppended
  <2> QED
    BY <2>2, <2>4, <2>5 DEF TrailStep
<1> QED
  BY <1>1 DEF AuditInOrder, InOrder

\* For any number of handlers and replicas, the log of a request approves before it grants.
THEOREM AuditAlwaysInOrder == Spec => []AuditInOrder
<1>1. Init => AuditInOrder
  BY DEF Init, AuditInOrder
<1>2. AuditInv /\ AuditInOrder /\ [Next]_vars => AuditInOrder'
  BY NextInOrder
<1> QED
  BY <1>1, <1>2, OwnInvAlways, TruthInvAlways, PTL DEF Spec, AuditInv

-----------------------------------------------------------------------------
(* The whole story. For every entry that the state of a spared request asks *)
(* for, it is logged or somebody is due to log it. A step hands the debt    *)
(* over or pays it, and the step that moves the row takes the debt on.      *)

Spared(r) == ~HitBy(r, Failures)

\* Somebody is due to log an entry of the kind.
Owed(r, D) ==
  \/ \E c \in Calls : call[c].req = r /\ Due(c) = D
  \/ D = Ended /\ \E s \in Sweepers : Expiring(s, r)

Promised(r, D) == Logged(r) \cap D # {} \/ Owed(r, D)

\* The kinds of entry that tell of a state.
Story(state) ==
  CASE state = "ABSENT" -> {}
    [] state \in {"PENDING", "APPROVED"} -> {{"request.created"}}
    [] state = "REJECTED" -> {{"request.created"}, Denials}
    [] state = "ACTIVE" -> {{"request.created"}, Approvals, {"grant.issued"}}
    [] OTHER -> {{"request.created"}, Approvals, {"grant.issued"}, Ended}

Granting(c) == call[c].at \in {"grant", "activate"}

CompleteInv ==
  \A r \in Requests : Spared(r) =>
    /\ \A D \in Story(row[r].state) : Promised(r, D)
    /\ \A c \in Calls : call[c].req = r /\ Granting(c) => Logged(r) \cap Approvals # {}

\* What a step leaves unhit was never hit, and nothing failed for it.
LEMMA SparedBefore ==
  ASSUME failed \subseteq failed', NEW r, Spared(r)'
  PROVE  Spared(r) /\ \A kind \in Failures : ~Fails(r, kind)
BY DEF Spared, HitBy, Fails

LEMMA SparedTransition ==
  ASSUME NEW r, Spared(r)', NEW from, NEW new, NEW ACTION Reaches, NEW ACTION Returns,
         Transition(r, from, new, Reaches, Returns)
  PROVE  \/ row[r].state = from /\ row' = [row EXCEPT ![r] = new] /\ Reaches
         \/ UNCHANGED row /\ Returns
BY DEF Transition, InState, Fails, Spared, HitBy, Failures

LEMMA SparedAppend ==
  ASSUME TrailOK, NEW r \in Requests, Spared(r)', NEW e, AppendAudit(r, e)
  PROVE  e \in Logged(r)'
<1>1. trail'[r] = Append(trail[r], e)
  BY DEF AppendAudit, Fails, Spared, HitBy, Failures, TrailOK
<1> QED
  BY <1>1, LoggedGrows

LEMMA LoggedKept ==
  ASSUME TrailOK, NEW r \in Requests, TrailStep(r)
  PROVE  Logged(r) \subseteq Logged(r)'
<1>1. CASE trail'[r] = trail[r]
  BY <1>1 DEF Logged
<1>2. CASE \E e \in Entries : trail'[r] = Append(trail[r], e)
  BY <1>2, LoggedGrows
<1> QED
  BY <1>1, <1>2 DEF TrailStep

\* A debt of a handler is paid or kept, whoever moves.
LEMMA HandlerKeepsDebt ==
  ASSUME AuditInv, NEW c \in Calls, Handle(c), NEW r \in Requests, r = call[c].req, Spared(r)',
         NEW D \in EntryKinds, Due(c) = D
  PROVE  Logged(r)' \cap D # {} \/ (call'[c].req = r /\ Due(c)' = D)
<1>0. CallsOK /\ TrailOK
  BY DEF AuditInv, OwnInv, TypeInv
<1>d. /\ \A step \in {"alert", "selfApprove", "eval", "rollback", "grant", "activate",
                      "logEscalated", "revoke"} : DueAt(step) \notin EntryKinds
      /\ DueAt("logApproved") = Approvals /\ DueAt("logIssued") = {"grant.issued"}
      /\ DueAt("providerRevoke") = Ended /\ DueAt("logRevoked") = Ended
      /\ DueAt("logCreated") = {"request.created"} /\ DueAt("logDenied") = Denials
  BY DEF DueAt, EntryKinds, Approvals, Denials, Ended
<1>a. ASSUME NEW step, At(c, step)
      PROVE  D = DueAt(step)
  BY <1>a DEF At, Due
<1>b. ASSUME NEW e \in D, AppendAudit(r, e)
      PROVE  Logged(r)' \cap D # {}
  BY <1>0, <1>b, SparedAppend
<1>1. CASE LogCreated(c)
  BY <1>1, <1>a, <1>b, <1>d DEF LogCreated
<1>2. CASE LogApproved(c)
  <2>1. At(c, "logApproved") /\ AppendAudit(r, ApprovedEntry(call[c].op))
    BY <1>2 DEF LogApproved
  <2>2. ApprovedEntry(call[c].op) \in Approvals
    BY DEF ApprovedEntry, Approvals
  <2> QED
    BY <1>a, <1>b, <1>d, <2>1, <2>2
<1>3. CASE LogDenied(c)
  <2>1. At(c, "logDenied") /\ AppendAudit(r, DeniedEntry(call[c].op))
    BY <1>3 DEF LogDenied
  <2>2. DeniedEntry(call[c].op) \in Denials
    BY DEF DeniedEntry, Denials
  <2> QED
    BY <1>a, <1>b, <1>d, <2>1, <2>2
<1>4. CASE LogIssued(c)
  BY <1>4, <1>a, <1>b, <1>d DEF LogIssued
<1>5. CASE LogRevoked(c)
  <2>1. At(c, "logRevoked") /\ AppendAudit(r, "grant.revoked")
    BY <1>5 DEF LogRevoked
  <2> QED
    BY <1>a, <1>b, <1>d, <2>1 DEF Ended
<1>6. CASE CallProviderRevoke(c)
  <2>1. At(c, "providerRevoke") /\ Goto(c, "logRevoked")
    BY <1>6 DEF CallProviderRevoke
  <2>2. Becomes(c, "logRevoked", call[c].op, call[c].req, call[c].actor)
    BY <1>0, <2>1, HandlerBecomes
  <2> QED
    BY <1>a, <1>d, <2>1, <2>2 DEF Becomes, Due
<1>7. CASE \/ Alert(c) \/ SelfApprove(c) \/ EvalApproval(c) \/ Rollback(c) \/ Grant(c)
           \/ Activate(c) \/ LogEscalated(c) \/ CommitRevoke(c)
  <2>1. \E step \in {"alert", "selfApprove", "eval", "rollback", "grant", "activate",
                     "logEscalated", "revoke"} : At(c, step)
    BY <1>7 DEF Alert, SelfApprove, EvalApproval, Rollback, Grant, Activate, LogEscalated,
         CommitRevoke
  <2> QED
    BY <1>a, <1>d, <2>1
<1> QED
  BY <1>1, <1>2, <1>3, <1>4, <1>5, <1>6, <1>7 DEF Handle

LEMMA SweeperKeepsDebt ==
  ASSUME AuditInv, NEW s \in Sweepers, DoSweep(s) \/ CrashSweeper(s), NEW r \in Requests,
         Spared(r)', NEW t \in Sweepers, Expiring(t, r)
  PROVE  Logged(r)' \cap Ended # {} \/ Expiring(t, r)'
<1>0. SweepsOK /\ TrailOK
  BY DEF AuditInv, OwnInv, TypeInv
<1>1. ASSUME t # s
      PROVE  Expiring(t, r)'
  <2>1. sweeper'[t] = sweeper[t]
    BY <1>0, <1>1, TransitionCases
       DEF DoSweep, TryAcquireSweepLock, ListActiveExpired, SweepRevoke, SweepExpire, SweepGoto,
           NextRequest, SweepLog, ReleaseSweepLock, CrashSweeper, SweepsOK
  <2> QED
    BY <2>1 DEF Expiring
<1>2. CASE t = s /\ SweepLog(s)
  <2>1. AppendAudit(r, "grant.expired")
    BY <1>2 DEF SweepLog, Expiring
  <2> QED
    BY <1>0, <2>1, SparedAppend DEF Ended
<1>3. CASE t = s /\ CrashSweeper(s)
  <2>1. Pending(s) = {r}
    BY <1>3, IdentityAssumption DEF Pending, Expiring
  <2> QED
    BY <1>3, <2>1 DEF CrashSweeper, Fails, Spared, HitBy, Failures
<1>4. CASE t = s /\ DoSweep(s) /\ ~SweepLog(s)
  BY <1>4 DEF DoSweep, TryAcquireSweepLock, ListActiveExpired, SweepRevoke, SweepExpire,
       ReleaseSweepLock, Expiring
<1> QED
  BY <1>1, <1>2, <1>3, <1>4

\* Who moves in a step.
LEMMA WhoMoves ==
  ASSUME AuditInv, [Next]_vars
  PROVE  /\ \A c \in Calls : call'[c] = call[c] \/ Arrive(c) \/ Handle(c) \/ AbortCall(c)
         /\ \/ UNCHANGED sweeper
            \/ \E s \in Sweepers : DoSweep(s) \/ CrashSweeper(s)
<1>0. CallsOK
  BY DEF AuditInv, OwnInv, TypeInv
<1>1. ASSUME NEW c \in Calls, Arrive(c) \/ Handle(c) \/ AbortCall(c)
      PROVE  /\ \A d \in Calls \ {c} : call'[d] = call[d]
             /\ UNCHANGED sweeper
  <2>1. ASSUME Arrive(c)
        PROVE  UNCHANGED sweeper
    BY <2>1 DEF Arrive, CreateRequest, CreateBreakGlass, Insert, ApproveRequest, DenyRequest,
         Deny, RevokeRequest, AIApproveRequest, AIDenyRequest, AIEscalateRequest
  <2>2. ASSUME Handle(c)
        PROVE  UNCHANGED sweeper
    BY <2>2 DEF Handle, LogCreated, Alert, SelfApprove, EvalApproval, Rollback, LogApproved,
         Grant, Activate, LogIssued, LogDenied, LogEscalated, CommitRevoke, CallProviderRevoke,
         LogRevoked
  <2>3. ASSUME AbortCall(c)
        PROVE  UNCHANGED sweeper
    BY <2>3 DEF AbortCall
  <2> QED
    BY <1>0, <1>1, <2>1, <2>2, <2>3, OneHandlerMoves
<1>2. ASSUME NEW s \in Sweepers, DoSweep(s) \/ CrashSweeper(s)
      PROVE  UNCHANGED call
  BY <1>2 DEF DoSweep, TryAcquireSweepLock, ListActiveExpired, SweepRevoke, SweepExpire, SweepLog,
       ReleaseSweepLock, CrashSweeper
<1>3. ASSUME \/ \E s \in Sweepers : LoseSweepLock(s)
             \/ \E r \in Requests : Elapse(r)
             \/ UNCHANGED vars
      PROVE  UNCHANGED <<call, sweeper>>
  BY <1>3 DEF LoseSweepLock, Elapse, vars
<1> QED
  BY <1>1, <1>2, <1>3 DEF Next, Environment

\* What is logged or owed of a spared request stays logged or owed.
LEMMA PromiseKept ==
  ASSUME AuditInv, [Next]_vars, NEW r \in Requests, Spared(r)', NEW D \in EntryKinds, Promised(r, D)
  PROVE  Promised(r, D)'
<1>0. TrailOK /\ CallsOK /\ Logged(r) \subseteq Logged(r)'
  BY NextTrail, LoggedKept DEF AuditInv, OwnInv, TypeInv
<1>1. CASE Logged(r) \cap D # {}
  BY <1>0, <1>1 DEF Promised
<1>2. ASSUME NEW c \in Calls, call[c].req = r, Due(c) = D
      PROVE  Promised(r, D)'
  <2>1. CASE call'[c] = call[c]
    BY <1>2, <2>1 DEF Promised, Owed, Due
  <2>2. CASE Handle(c)
    BY <1>2, <2>2, HandlerKeepsDebt DEF Promised, Owed
  <2>3. CASE Arrive(c)
    <3>1. At(c, "idle")
      BY <2>3 DEF Arrive, CreateRequest, CreateBreakGlass, Insert, ApproveRequest, DenyRequest,
           Deny, RevokeRequest, AIApproveRequest, AIDenyRequest, AIEscalateRequest, Arrives
    <3>2. Due(c) \notin EntryKinds
      BY <3>1 DEF At, Due, DueAt, EntryKinds, Approvals, Denials, Ended
    <3> QED
      BY <1>2, <3>2
  <2>4. CASE AbortCall(c)
    BY <1>2, <2>4 DEF AbortCall, Fails, Spared, HitBy, Failures
  <2> QED
    BY <2>1, <2>2, <2>3, <2>4, WhoMoves
<1>3. ASSUME NEW t \in Sweepers, Expiring(t, r), D = Ended
      PROVE  Promised(r, D)'
  <2>1. CASE UNCHANGED sweeper
    BY <1>3, <2>1 DEF Promised, Owed, Expiring
  <2>2. CASE \E s \in Sweepers : DoSweep(s) \/ CrashSweeper(s)
    BY <1>3, <2>2, SweeperKeepsDebt DEF Promised, Owed
  <2> QED
    BY <2>1, <2>2, WhoMoves
<1> QED
  BY <1>1, <1>2, <1>3 DEF Promised, Owed

\* A step that moves the row of a spared request takes on the debts of the new state.
NewDebts(r) ==
  \/ row'[r].state = row[r].state
  \/ row'[r].state \in {"PENDING", "APPROVED"} /\ row[r].state \in {"PENDING", "APPROVED"}
  \/ row[r].state = "ABSENT" /\ row'[r].state = "PENDING" /\ Owed(r, {"request.created"})'
  \/ row[r].state = "PENDING" /\ row'[r].state = "REJECTED" /\ Owed(r, Denials)'
  \/ /\ row[r].state = "APPROVED" /\ row'[r].state = "ACTIVE" /\ Owed(r, {"grant.issued"})'
     /\ \E c \in Calls : call[c].req = r /\ Granting(c)
  \/ row[r].state = "ACTIVE" /\ row'[r].state \in {"EXPIRED", "REVOKED"} /\ Owed(r, Ended)'

\* The handler that goes on with the step at which an entry of the kind is due.
LEMMA NowOwed ==
  ASSUME NEW c \in Calls, NEW r, NEW step, NEW op, NEW a, Becomes(c, step, op, r, a)
  PROVE  Owed(r, DueAt(step))'
<1>1. Due(c)' = DueAt(step) /\ call'[c].req = r
  BY DEF Becomes, Due
<1> QED
  BY <1>1 DEF Owed

LEMMA ArriveDebts ==
  ASSUME AuditInv, NEW c \in Calls, Arrive(c), NEW r \in Requests, Spared(r)'
  PROVE  NewDebts(r)
<1>0. CallsOK /\ RowsOK
  BY DEF AuditInv, OwnInv, TypeInv
<1>a. ASSUME NEW op, NEW a, NEW step, Enter(c, op, r, a, step)
      PROVE  Owed(r, DueAt(step))'
  BY <1>0, <1>a, HandlerBecomes, NowOwed
<1>d. DueAt("logCreated") = {"request.created"} /\ DueAt("logDenied") = Denials
  BY DEF DueAt
\* The transition of another request.
<1>b. ASSUME NEW q \in Requests \ {r}, NEW from, NEW new, NEW ACTION Reaches, NEW ACTION Returns,
             Transition(q, from, new, Reaches, Returns)
      PROVE  NewDebts(r)
  BY <1>0, <1>b, TransitionRow DEF NewDebts
<1>1. ASSUME NEW q \in Requests, NEW u \in Users, NEW tier, NEW op, Insert(c, q, u, tier, op)
      PROVE  NewDebts(r)
  <2>1. CASE q # r
    BY <1>0, <1>1, <2>1 DEF Insert, RowsOK, NewDebts
  <2>2. CASE q = r
    <3>1. Enter(c, op, r, u, "logCreated")
      BY <1>1, <2>2 DEF Insert, Fails, Spared, HitBy, Failures
    <3>2. row[r].state = "ABSENT" /\ row'[r].state = "PENDING"
      BY <1>0, <1>1, <2>2 DEF Insert, NoRow, RowsOK
    <3> QED
      BY <1>a, <1>d, <3>1, <3>2 DEF NewDebts
  <2> QED
    BY <2>1, <2>2
<1>2. ASSUME NEW q \in Requests, NEW u \in Users, ApproveRequest(c, q, u)
      PROVE  NewDebts(r)
  <2> DEFINE new == [row[q] EXCEPT !.state = "APPROVED", !.approver = u]
  <2>1. new.state = "APPROVED"
    BY <1>0 DEF RowsOK, Row
  <2>2. Transition(q, "PENDING", new, Enter(c, "approve", q, u, "eval"), Return(c))
    BY <1>2 DEF ApproveRequest
  <2> HIDE DEF new
  <2> QED
    BY <1>0, <2>1, <2>2, TransitionRow DEF NewDebts
<1>3. ASSUME NEW q \in Requests, AIApproveRequest(c, q)
      PROVE  NewDebts(r)
  <2> DEFINE new == [row[q] EXCEPT !.state = "APPROVED", !.approver = Agent]
  <2>1. new.state = "APPROVED"
    BY <1>0 DEF RowsOK, Row
  <2>2. Transition(q, "PENDING", new, Enter(c, "ai_approve", q, Agent, "logApproved"), Return(c))
    BY <1>3 DEF AIApproveRequest
  <2> HIDE DEF new
  <2> QED
    BY <1>0, <2>1, <2>2, TransitionRow DEF NewDebts
<1>4. ASSUME NEW q \in Requests, AIEscalateRequest(c, q)
      PROVE  NewDebts(r)
  <2> DEFINE new == [row[q] EXCEPT !.tier = "human"]
  <2>1. new.state = row[q].state
    BY <1>0 DEF RowsOK, Row
  <2>2. Transition(q, "PENDING", new, Enter(c, "ai_escalate", q, Agent, "logEscalated"), Return(c))
    BY <1>4 DEF AIEscalateRequest
  <2> HIDE DEF new
  <2> QED
    BY <1>0, <2>1, <2>2, TransitionRow DEF NewDebts
<1>5. ASSUME NEW q \in Requests, NEW op, NEW a, Deny(c, op, q, a)
      PROVE  NewDebts(r)
  <2> DEFINE new == [row[q] EXCEPT !.state = "REJECTED", !.approver = a]
  <2>1. new.state = "REJECTED"
    BY <1>0 DEF RowsOK, Row
  <2>2. Transition(q, "PENDING", new, Enter(c, op, q, a, "logDenied"), Return(c))
    BY <1>5 DEF Deny
  <2> HIDE DEF new
  <2>3. CASE q # r
    BY <1>b, <2>2, <2>3
  <2>4. CASE q = r
    <3>1. \/ row[r].state = "PENDING" /\ row' = [row EXCEPT ![r] = new]
             /\ Enter(c, op, r, a, "logDenied")
          \/ UNCHANGED row
      BY <2>2, <2>4, SparedTransition
    <3> QED
      BY <1>0, <1>a, <1>d, <2>1, <3>1 DEF NewDebts, RowsOK
  <2> QED
    BY <2>3, <2>4
<1>6. ASSUME NEW q \in Requests, NEW u \in Users, RevokeRequest(c, q, u)
      PROVE  NewDebts(r)
  BY <1>6 DEF RevokeRequest, NewDebts
<1> QED
  BY <1>1, <1>2, <1>3, <1>4, <1>5, <1>6
     DEF Arrive, CreateRequest, CreateBreakGlass, DenyRequest, AIDenyRequest

LEMMA HandleDebts ==
  ASSUME AuditInv, NEW c \in Calls, Handle(c), NEW r \in Requests, Spared(r)'
  PROVE  NewDebts(r)
<1>q. PICK q : q = call[c].req
  OBVIOUS
<1> USE <1>q
<1>0. CallsOK /\ RowsOK
  BY DEF AuditInv, OwnInv, TypeInv
<1>a. ASSUME NEW step, At(c, step), step \notin {"idle", "done"}
      PROVE  q \in Requests
  BY <1>0, <1>a DEF CallsOK, Busy, At
<1>b. ASSUME q \in Requests
      PROVE  \A st : [row[q] EXCEPT !.state = st].state = st
  BY <1>0, <1>b DEF RowsOK, Row
<1>g. ASSUME NEW step, Goto(c, step)
      PROVE  Owed(q, DueAt(step))'
  BY <1>0, <1>g, HandlerBecomes, NowOwed
<1>d. DueAt("logIssued") = {"grant.issued"} /\ DueAt("providerRevoke") = Ended
  BY DEF DueAt
\* The transition of another request.
<1>c. ASSUME q \in Requests, q # r, NEW from, NEW new, NEW ACTION Reaches, NEW ACTION Returns,
             Transition(q, from, new, Reaches, Returns)
      PROVE  NewDebts(r)
  BY <1>0, <1>c, TransitionRow DEF NewDebts
<1>1. CASE SelfApprove(c)
  <2> DEFINE approver == IF call[c].op = "auto" THEN "policy" ELSE "break-glass"
             new == [row[q] EXCEPT !.state = "APPROVED", !.approver = approver]
  <2>1. q \in Requests /\ Transition(q, "PENDING", new, Goto(c, "logApproved"), Return(c))
    BY <1>1, <1>a DEF SelfApprove
  <2>2. new.state = "APPROVED"
    BY <1>0, <2>1 DEF RowsOK, Row
  <2> HIDE DEF new
  <2> QED
    BY <1>0, <2>1, <2>2, TransitionRow DEF NewDebts
<1>2. CASE Rollback(c)
  <2> DEFINE new == [row[q] EXCEPT !.state = "PENDING"]
  <2>1. q \in Requests /\ Transition(q, "APPROVED", new, Return(c), Return(c))
    BY <1>2, <1>a DEF Rollback
  <2>2. new.state = "PENDING"
    BY <1>b, <2>1
  <2> HIDE DEF new
  <2> QED
    BY <1>0, <2>1, <2>2, TransitionRow DEF NewDebts
<1>3. CASE Activate(c)
  <2> DEFINE new == [row[q] EXCEPT !.state = "ACTIVE"]
  <2>1. /\ q \in Requests /\ Granting(c)
        /\ Transition(q, "APPROVED", new, Goto(c, "logIssued"), Return(c))
    BY <1>3, <1>a DEF Activate, Granting, At
  <2>2. new.state = "ACTIVE"
    BY <1>b, <2>1
  <2> HIDE DEF new
  <2>3. CASE q # r
    BY <1>c, <2>1, <2>3
  <2>4. CASE q = r
    <3>1. \/ row[r].state = "APPROVED" /\ row' = [row EXCEPT ![r] = new] /\ Goto(c, "logIssued")
          \/ UNCHANGED row
      BY <2>1, <2>4, SparedTransition
    <3>2. \E d \in Calls : call[d].req = r /\ Granting(d)
      BY <1>q, <2>1, <2>4
    <3>3. Goto(c, "logIssued") => Owed(r, {"grant.issued"})'
      BY <1>d, <1>g, <2>4
    <3> QED
      BY <1>0, <2>2, <3>1, <3>2, <3>3 DEF NewDebts, RowsOK
  <2> QED
    BY <2>3, <2>4
<1>4. CASE CommitRevoke(c)
  <2> DEFINE new == [row[q] EXCEPT !.state = "REVOKED"]
  <2>1. q \in Requests /\ Transition(q, "ACTIVE", new, Goto(c, "providerRevoke"), Return(c))
    BY <1>4, <1>a DEF CommitRevoke
  <2>2. new.state = "REVOKED"
    BY <1>b, <2>1
  <2> HIDE DEF new
  <2>3. CASE q # r
    BY <1>c, <2>1, <2>3
  <2>4. CASE q = r
    <3>1. \/ row[r].state = "ACTIVE" /\ row' = [row EXCEPT ![r] = new]
             /\ Goto(c, "providerRevoke")
          \/ UNCHANGED row
      BY <2>1, <2>4, SparedTransition
    <3> QED
      BY <1>0, <1>d, <1>g, <2>2, <2>4, <3>1 DEF NewDebts, RowsOK
  <2> QED
    BY <2>3, <2>4
<1>5. ASSUME ~SelfApprove(c), ~CommitRevoke(c), ~Rollback(c), ~Activate(c)
      PROVE  UNCHANGED row
  BY <1>5 DEF Handle, LogCreated, Alert, EvalApproval, LogApproved, Grant, LogIssued, LogDenied,
       LogEscalated, CallProviderRevoke, LogRevoked
<1> QED
  BY <1>1, <1>2, <1>3, <1>4, <1>5 DEF NewDebts

LEMMA NextDebts ==
  ASSUME AuditInv, [Next]_vars, NEW r \in Requests, Spared(r)'
  PROVE  NewDebts(r)
<1>0. RowsOK /\ SweepsOK
  BY DEF AuditInv, OwnInv, TypeInv
<1>1. ASSUME NEW s \in Sweepers, SweepExpire(s)
      PROVE  NewDebts(r)
  <2>1. PICK q \in Requests : q = sweeper[s].cur
    BY <1>0, <1>1 DEF SweepExpire, SweepsOK
  <2> DEFINE new == [row[q] EXCEPT !.state = "EXPIRED"]
  <2>2. new.state = "EXPIRED"
    BY <1>0 DEF RowsOK, Row
  <2>3. Transition(q, "ACTIVE", new, SweepGoto(s, "log"), NextRequest(s))
    BY <1>1, <2>1 DEF SweepExpire
  <2> HIDE DEF new
  <2>4. CASE q # r
    BY <1>0, <2>3, <2>4, TransitionRow DEF NewDebts
  <2>5. CASE q = r
    <3>1. \/ row[r].state = "ACTIVE" /\ row' = [row EXCEPT ![r] = new] /\ SweepGoto(s, "log")
          \/ UNCHANGED row
      BY <2>3, <2>5, SparedTransition
    <3>2. SweepGoto(s, "log") => Expiring(s, r)'
      BY <1>0, <2>1, <2>5 DEF SweepGoto, Expiring, SweepsOK, Sweep
    <3> QED
      BY <1>0, <2>2, <3>1, <3>2 DEF NewDebts, Owed, RowsOK
  <2> QED
    BY <2>4, <2>5
<1>2. ASSUME \/ \E s \in Sweepers : DoSweep(s) /\ ~SweepExpire(s)
             \/ Environment
             \/ UNCHANGED vars
      PROVE  UNCHANGED row
  BY <1>2 DEF DoSweep, TryAcquireSweepLock, ListActiveExpired, SweepRevoke, SweepLog,
       ReleaseSweepLock, Environment, AbortCall, CrashSweeper, LoseSweepLock, Elapse, vars
<1> QED
  BY <1>1, <1>2, ArriveDebts, HandleDebts DEF Next, NewDebts

\* The approval of a spared request is in the log before the provider is asked.
LEMMA ApprovalLogged ==
  ASSUME AuditInv, CompleteInv, [Next]_vars, NEW r \in Requests, Spared(r)',
         NEW c \in Calls, call'[c].req = r, Granting(c)'
  PROVE  Logged(r)' \cap Approvals # {}
<1>0. /\ TrailOK /\ CallsOK /\ Logged(r) \subseteq Logged(r)'
      /\ Spared(r)
  BY NextTrail, LoggedKept, FailuresGrow, SparedBefore DEF AuditInv, OwnInv, TypeInv
<1>1. CASE call'[c] = call[c]
  BY <1>0, <1>1 DEF CompleteInv, Granting
<1>2. CASE Arrive(c)
  <2>1. ASSUME NEW op, NEW q, NEW a, NEW step \in FirstSteps, Enter(c, op, q, a, step)
        PROVE  FALSE
    <3>1. Becomes(c, step, op, q, a)
      BY <1>0, <2>1, HandlerBecomes
    <3> QED
      BY <3>1 DEF Becomes, Granting, FirstSteps
  <2>2. ASSUME Return(c)
        PROVE  FALSE
    <3>1. Becomes(c, "done", "none", Null, Null)
      BY <1>0, <2>2, HandlerBecomes
    <3> QED
      BY <3>1 DEF Becomes, Granting
  <2>3. ~Entered(c)
    BY <2>1 DEF Entered
  <2> QED
    BY <1>2, <2>2, <2>3, ArriveCalls
<1>3. CASE Handle(c)
  <2>1. ASSUME Return(c)
        PROVE  FALSE
    <3>1. Becomes(c, "done", "none", Null, Null)
      BY <1>0, <2>1, HandlerBecomes
    <3> QED
      BY <3>1 DEF Becomes, Granting
  <2>2. ASSUME NEW step, Goto(c, step)
        PROVE  step \in {"grant", "activate"} /\ call[c].req = r
    <3>1. Becomes(c, step, call[c].op, call[c].req, call[c].actor)
      BY <1>0, <2>2, HandlerBecomes
    <3> QED
      BY <3>1 DEF Becomes, Granting
  <2>3. CASE LogApproved(c)
    <3>1. call[c].req = r /\ AppendAudit(r, ApprovedEntry(call[c].op))
      BY <2>2, <2>3 DEF LogApproved
    <3>2. ApprovedEntry(call[c].op) \in Approvals
      BY DEF ApprovedEntry, Approvals
    <3> QED
      BY <1>0, <3>1, <3>2, SparedAppend
  <2>4. CASE Grant(c)
    <3>1. call[c].req = r /\ Granting(c)
      BY <2>1, <2>2, <2>4 DEF Grant, ProviderGrant, Granting, At
    <3> QED
      BY <1>0, <3>1 DEF CompleteInv
  <2>5. CASE SelfApprove(c) \/ Rollback(c) \/ Activate(c) \/ CommitRevoke(c)
    BY <2>1, <2>2, <2>5, TransitionCases DEF SelfApprove, Rollback, Activate, CommitRevoke
  <2>6. CASE LogCreated(c)
    BY <2>1, <2>2, <2>6 DEF LogCreated, AfterCreated
  <2>7. CASE Alert(c) \/ EvalApproval(c) \/ CallProviderRevoke(c)
    BY <2>2, <2>7 DEF Alert, EvalApproval, AfterVerdict, CallProviderRevoke
  <2>8. CASE LogIssued(c) \/ LogDenied(c) \/ LogEscalated(c) \/ LogRevoked(c)
    BY <2>1, <2>8 DEF LogIssued, LogDenied, LogEscalated, LogRevoked
  <2> QED
    BY <1>3, <2>3, <2>4, <2>5, <2>6, <2>7, <2>8 DEF Handle
<1>4. CASE AbortCall(c)
  <2>1. Becomes(c, "done", "none", Null, Null)
    BY <1>0, <1>4, HandlerBecomes DEF AbortCall
  <2> QED
    BY <2>1 DEF Becomes, Granting
<1> QED
  BY <1>1, <1>2, <1>3, <1>4, WhoMoves

LEMMA StoryOf ==
  /\ Story("ABSENT") = {} /\ Story("PENDING") = {{"request.created"}}
  /\ Story("APPROVED") = {{"request.created"}}
  /\ Story("REJECTED") = {{"request.created"}, Denials}
  /\ Story("ACTIVE") = {{"request.created"}, Approvals, {"grant.issued"}}
  /\ \A st \in {"EXPIRED", "REVOKED"} :
       Story(st) = {{"request.created"}, Approvals, {"grant.issued"}, Ended}
  /\ \A st : Story(st) \subseteq EntryKinds
BY DEF Story, EntryKinds

LEMMA NextComplete ==
  ASSUME AuditInv, CompleteInv, [Next]_vars
  PROVE  CompleteInv'
<1> SUFFICES ASSUME NEW r \in Requests, Spared(r)'
             PROVE  \A D \in Story(row'[r].state) : Promised(r, D)'
  BY ApprovalLogged DEF CompleteInv
<1>1. /\ Spared(r) /\ NewDebts(r)
      /\ \A D \in Story(row[r].state) : Promised(r, D)
      /\ \A c \in Calls : call[c].req = r /\ Granting(c) => Logged(r) \cap Approvals # {}
  BY FailuresGrow, SparedBefore, NextDebts DEF CompleteInv
<1>2. \A D \in EntryKinds : Promised(r, D) => Promised(r, D)'
  BY PromiseKept
<1>3. \A D \in Story(row[r].state) : Promised(r, D)'
  BY <1>1, <1>2, StoryOf
<1>4. \A D : Owed(r, D)' => Promised(r, D)'
  BY DEF Promised
<1>5. CASE row'[r].state = row[r].state
  BY <1>3, <1>5
<1>6. CASE row'[r].state \in {"PENDING", "APPROVED"} /\ row[r].state \in {"PENDING", "APPROVED"}
  BY <1>3, <1>6, StoryOf
<1>7. CASE row[r].state = "ABSENT" /\ row'[r].state = "PENDING" /\ Owed(r, {"request.created"})'
  BY <1>4, <1>7, StoryOf
<1>8. CASE row[r].state = "PENDING" /\ row'[r].state = "REJECTED" /\ Owed(r, Denials)'
  BY <1>3, <1>4, <1>8, StoryOf
<1>9. CASE /\ row[r].state = "APPROVED" /\ row'[r].state = "ACTIVE" /\ Owed(r, {"grant.issued"})'
           /\ \E c \in Calls : call[c].req = r /\ Granting(c)
  <2>1. Promised(r, Approvals)'
    BY <1>1, <1>2, <1>9 DEF Promised, EntryKinds
  <2> QED
    BY <1>3, <1>4, <1>9, <2>1, StoryOf
<1>10. CASE /\ row[r].state = "ACTIVE" /\ row'[r].state \in {"EXPIRED", "REVOKED"}
            /\ Owed(r, Ended)'
  BY <1>3, <1>4, <1>10, StoryOf
<1> QED
  BY <1>1, <1>5, <1>6, <1>7, <1>8, <1>9, <1>10 DEF NewDebts

LEMMA InitComplete == Init => CompleteInv
BY StoryOf DEF Init, CompleteInv, NoRow, NoCall, Granting

\* At rest nobody owes anything, so what the state asks for is logged.
LEMMA NothingOwed ==
  ASSUME NEW r \in Requests, AtRest(r), NEW D \in EntryKinds
  PROVE  ~Owed(r, D)
<1>1. \A step \in {"idle", "done"} : DueAt(step) # D
  BY DEF DueAt, EntryKinds, Approvals, Denials, Ended
<1> QED
  BY <1>1 DEF Owed, AtRest, Due, Expiring

LEMMA CompleteAtRest ==
  ASSUME AuditInv, CompleteInv
  PROVE  AuditComplete
<1> SUFFICES ASSUME NEW r \in Requests, row[r].state # "ABSENT", AtRest(r), Spared(r)
             PROVE  LET st == row[r].state
                        has == Logged(r)
                    IN /\ "request.created" \in has
                       /\ st \in {"ACTIVE", "EXPIRED", "REVOKED"} =>
                            has \cap Approvals # {} /\ "grant.issued" \in has
                       /\ st = "REJECTED" => has \cap Denials # {}
                       /\ st = "EXPIRED" => "grant.expired" \in has
                       /\ st = "REVOKED" => "grant.revoked" \in has
  BY DEF AuditComplete, Spared
<1>1. \A D \in Story(row[r].state) : Logged(r) \cap D # {}
  BY NothingOwed, StoryOf DEF CompleteInv, Promised
<1>2. row[r].state \in States
  BY DEF AuditInv, OwnInv, TypeInv, RowsOK, Row
<1>3. \A e \in Logged(r) \cap Ended : row[r].state \in StatesAfter(e)
  BY DEF AuditInv, TruthInv, Bears
<1>4. /\ row[r].state = "EXPIRED" => "grant.revoked" \notin Logged(r)
      /\ row[r].state = "REVOKED" => "grant.expired" \notin Logged(r)
  BY <1>3 DEF StatesAfter, Ended, Approvals, Denials
<1>5. CASE row[r].state \in {"EXPIRED", "REVOKED"}
  <2>1. /\ Logged(r) \cap {"request.created"} # {} /\ Logged(r) \cap {"grant.issued"} # {}
        /\ Logged(r) \cap Approvals # {} /\ Logged(r) \cap Ended # {}
    BY <1>1, <1>5, StoryOf
  <2> QED
    BY <1>4, <1>5, <2>1 DEF Ended
<1>6. CASE row[r].state = "ACTIVE"
  <2>1. /\ Logged(r) \cap {"request.created"} # {} /\ Logged(r) \cap {"grant.issued"} # {}
        /\ Logged(r) \cap Approvals # {}
    BY <1>1, <1>6, StoryOf
  <2> QED
    BY <1>6, <2>1
<1>7. CASE row[r].state = "REJECTED"
  <2>1. Logged(r) \cap {"request.created"} # {} /\ Logged(r) \cap Denials # {}
    BY <1>1, <1>7, StoryOf
  <2> QED
    BY <1>7, <2>1
<1>8. CASE row[r].state \in {"PENDING", "APPROVED"}
  <2>1. Logged(r) \cap {"request.created"} # {}
    BY <1>1, <1>8, StoryOf
  <2> QED
    BY <1>8, <2>1
<1> QED
  BY <1>2, <1>5, <1>6, <1>7, <1>8 DEF States

\* When nothing failed for a request and nobody is at work on it, its whole story is in the
\* log, for any number of handlers and replicas and whatever hits the other requests.
THEOREM AuditAlwaysComplete == Spec => []AuditComplete
<1>1. AuditInv /\ CompleteInv /\ [Next]_vars => CompleteInv'
  BY NextComplete
<1> QED
  BY <1>1, InitComplete, CompleteAtRest, OwnInvAlways, TruthInvAlways, PTL DEF Spec, AuditInv

-----------------------------------------------------------------------------
(* Alerts. Until its alert is out, a break-glass row has a handler on its   *)
(* way to it, or the handler was hit by a failure; who approves the row in  *)
(* the meantime changes nothing of this.                                    *)

AlertDue(r) ==
  row[r].kind = "break_glass" /\ r \notin alerted => Alerting(r) \/ HitBy(r, {"db", "abort"})

AlertInv == \A r \in Requests : AlertDue(r)

\* One handler moves; if it was about to alert it still is, or has alerted, or was hit.
LEMMA AlertKept ==
  ASSUME AlertInv, NEW c \in Calls, \A d \in Calls \ {c} : call'[d] = call[d],
         failed \subseteq failed', alerted \subseteq alerted',
         \A q \in Requests : row'[q].kind = row[q].kind,
         call[c].op = "break_glass" /\ call[c].at \in {"logCreated", "alert"} =>
           \/ call'[c].req = call[c].req /\ call'[c].op = "break_glass" /\ call'[c].at = "alert"
           \/ call[c].req \in alerted'
           \/ <<call[c].req, "abort">> \in failed'
  PROVE  AlertInv'
<1> SUFFICES ASSUME NEW r \in Requests, row'[r].kind = "break_glass", r \notin alerted'
             PROVE  Alerting(r)' \/ HitBy(r, {"db", "abort"})'
  BY DEF AlertInv, AlertDue
<1>1. Alerting(r) \/ HitBy(r, {"db", "abort"})
  BY DEF AlertInv, AlertDue
<1>2. CASE HitBy(r, {"db", "abort"})
  BY <1>2, HitForGood
<1>3. CASE Alerting(r)
  <2>1. PICK d \in Calls : /\ call[d].req = r /\ call[d].op = "break_glass"
                           /\ call[d].at \in {"logCreated", "alert"}
    BY <1>3 DEF Alerting
  <2>2. CASE d # c
    BY <2>1, <2>2 DEF Alerting
  <2>3. CASE d = c
    BY <2>1, <2>3 DEF Alerting, HitBy
  <2> QED
    BY <2>2, <2>3
<1> QED
  BY <1>1, <1>2, <1>3

\* The transition of a row keeps its kind.
LEMMA KindKept ==
  ASSUME RowsOK, NEW r \in Requests, NEW from, NEW new, new.kind = row[r].kind,
         NEW ACTION Reaches, NEW ACTION Returns, Transition(r, from, new, Reaches, Returns)
  PROVE  \A q \in Requests : row'[q].kind = row[q].kind
BY TransitionRow

LEMMA KindOfUpdate ==
  ASSUME RowsOK, NEW r \in Requests
  PROVE  /\ \A st : [row[r] EXCEPT !.state = st].kind = row[r].kind
         /\ \A t : [row[r] EXCEPT !.tier = t].kind = row[r].kind
BY DEF RowsOK, Row

LEMMA ArriveAlert ==
  ASSUME TypeInv, AlertInv, NEW c \in Calls, Arrive(c), failed \subseteq failed'
  PROVE  AlertInv'
<1>0. RowsOK /\ CallsOK /\ \A d \in Calls \ {c} : call'[d] = call[d]
  BY OneHandlerMoves DEF TypeInv
<1>1. call[c].at = "idle"
  BY DEF Arrive, CreateRequest, CreateBreakGlass, ApproveRequest, DenyRequest, RevokeRequest,
         AIApproveRequest, AIDenyRequest, AIEscalateRequest, Deny, Arrives, At
<1>2. ASSUME UNCHANGED alerted, \A q \in Requests : row'[q].kind = row[q].kind
      PROVE  AlertInv'
  BY <1>0, <1>1, <1>2, AlertKept
<1>3. ASSUME NEW r \in Requests, NEW u, NEW tier, NEW op, Insert(c, r, u, tier, op)
      PROVE  AlertInv'
  <2>1. ASSUME NEW q \in Requests \ {r}
        PROVE  AlertDue(q)'
    <3>1. row'[q] = row[q] /\ UNCHANGED alerted /\ AlertDue(q)
      BY <1>3, <2>1 DEF Insert, AlertInv
    <3>2. Alerting(q) => Alerting(q)'
      BY <1>0, <1>1 DEF Alerting
    <3> QED
      BY <3>1, <3>2, HitForGood DEF AlertDue
  <2>2. AlertDue(r)'
    <3>1. row'[r].kind = KindOf(op)
      BY <1>0, <1>3 DEF Insert, RowsOK
    <3>2. CASE Enter(c, op, r, u, "logCreated")
      <4>1. Becomes(c, "logCreated", op, r, u)
        BY <1>0, <3>2, HandlerBecomes
      <4> QED
        BY <3>1, <4>1 DEF Becomes, AlertDue, Alerting, KindOf
    <3>3. CASE Fails(r, "db")
      BY <3>3 DEF AlertDue, HitBy, Fails
    <3> QED
      BY <1>3, <3>2, <3>3 DEF Insert
  <2> QED
    BY <2>1, <2>2 DEF AlertInv
<1>4. ASSUME NEW r \in Requests, NEW u \in Users, ApproveRequest(c, r, u)
      PROVE  AlertInv'
  <2> DEFINE new == [row[r] EXCEPT !.state = "APPROVED", !.approver = u]
  <2>1. new.kind = row[r].kind
    BY <1>0 DEF RowsOK, Row
  <2>2. Transition(r, "PENDING", new, Enter(c, "approve", r, u, "eval"), Return(c))
    BY <1>4 DEF ApproveRequest
  <2> HIDE DEF new
  <2>3. \A q \in Requests : row'[q].kind = row[q].kind
    BY <1>0, <2>1, <2>2, KindKept
  <2> QED
    BY <1>2, <1>4, <2>3 DEF ApproveRequest
<1>5. ASSUME NEW r \in Requests, NEW op, NEW a, Deny(c, op, r, a)
      PROVE  AlertInv'
  <2> DEFINE new == [row[r] EXCEPT !.state = "REJECTED", !.approver = a]
  <2>1. new.kind = row[r].kind
    BY <1>0 DEF RowsOK, Row
  <2>2. Transition(r, "PENDING", new, Enter(c, op, r, a, "logDenied"), Return(c))
    BY <1>5 DEF Deny
  <2> HIDE DEF new
  <2>3. \A q \in Requests : row'[q].kind = row[q].kind
    BY <1>0, <2>1, <2>2, KindKept
  <2> QED
    BY <1>2, <1>5, <2>3 DEF Deny
<1>6. ASSUME NEW r \in Requests, NEW u \in Users, RevokeRequest(c, r, u)
      PROVE  AlertInv'
  BY <1>2, <1>6 DEF RevokeRequest
<1>7. ASSUME NEW r \in Requests, AIApproveRequest(c, r)
      PROVE  AlertInv'
  <2> DEFINE new == [row[r] EXCEPT !.state = "APPROVED", !.approver = Agent]
  <2>1. new.kind = row[r].kind
    BY <1>0 DEF RowsOK, Row
  <2>2. Transition(r, "PENDING", new, Enter(c, "ai_approve", r, Agent, "logApproved"), Return(c))
    BY <1>7 DEF AIApproveRequest
  <2> HIDE DEF new
  <2>3. \A q \in Requests : row'[q].kind = row[q].kind
    BY <1>0, <2>1, <2>2, KindKept
  <2> QED
    BY <1>2, <1>7, <2>3 DEF AIApproveRequest
<1>8. ASSUME NEW r \in Requests, AIEscalateRequest(c, r)
      PROVE  AlertInv'
  <2>1. \A q \in Requests : row'[q].kind = row[q].kind
    BY <1>0, <1>8, KindOfUpdate, KindKept DEF AIEscalateRequest
  <2> QED
    BY <1>2, <1>8, <2>1 DEF AIEscalateRequest
<1> QED
  BY <1>3, <1>4, <1>5, <1>6, <1>7, <1>8
     DEF Arrive, CreateRequest, CreateBreakGlass, DenyRequest, AIDenyRequest

LEMMA HandleAlert ==
  ASSUME OwnInv, AlertInv, NEW c \in Calls, Handle(c), failed \subseteq failed'
  PROVE  AlertInv'
<1>0. RowsOK /\ CallsOK /\ \A d \in Calls \ {c} : call'[d] = call[d]
  BY OneHandlerMoves DEF OwnInv, TypeInv
<1>1. CASE LogCreated(c)
  <2>1. call[c].op = "break_glass" =>
          Becomes(c, "alert", "break_glass", call[c].req, call[c].actor)
    BY <1>0, <1>1, HandlerBecomes DEF LogCreated, AfterCreated
  <2> QED
    BY <1>0, <1>1, <2>1, AlertKept DEF LogCreated, Becomes
<1>2. CASE Alert(c)
  BY <1>0, <1>2, AlertKept DEF Alert
<1>3. CASE ~LogCreated(c) /\ ~Alert(c)
  <2>1. call[c].at \notin {"logCreated", "alert"} /\ UNCHANGED alerted
    BY <1>3 DEF Handle, SelfApprove, EvalApproval, Rollback, LogApproved, Grant, Activate,
         LogIssued, LogDenied, LogEscalated, CommitRevoke, CallProviderRevoke, LogRevoked, At
  <2>3. call[c].at # "idle" /\ call[c].at # "done" => call[c].req \in Requests
    BY <1>0 DEF CallsOK, Busy
  <2>4. \A q \in Requests : row'[q].kind = row[q].kind
    <3>1. CASE SelfApprove(c)
      <4> DEFINE r == call[c].req
                 approver == IF call[c].op = "auto" THEN "policy" ELSE "break-glass"
                 new == [row[r] EXCEPT !.state = "APPROVED", !.approver = approver]
      <4>1. r \in Requests
        BY <2>3, <3>1 DEF SelfApprove, At
      <4>2. new.kind = row[r].kind
        BY <1>0, <4>1 DEF RowsOK, Row
      <4>3. Transition(r, "PENDING", new, Goto(c, "logApproved"), Return(c))
        BY <3>1 DEF SelfApprove
      <4> HIDE DEF new, r
      <4> QED
        BY <1>0, <4>1, <4>2, <4>3, KindKept
    <3>2. CASE Rollback(c)
      BY <1>0, <2>3, <3>2, KindOfUpdate, KindKept DEF Rollback, At
    <3>3. CASE Activate(c)
      BY <1>0, <2>3, <3>3, KindOfUpdate, KindKept DEF Activate, At
    <3>4. CASE CommitRevoke(c)
      BY <1>0, <2>3, <3>4, KindOfUpdate, KindKept DEF CommitRevoke, At
    <3>5. CASE ~SelfApprove(c) /\ ~Rollback(c) /\ ~Activate(c) /\ ~CommitRevoke(c)
      BY <1>3, <3>5 DEF Handle, EvalApproval, LogApproved, Grant, LogIssued, LogDenied,
           LogEscalated, CallProviderRevoke, LogRevoked
    <3> QED
      BY <3>1, <3>2, <3>3, <3>4, <3>5
  <2> QED
    BY <1>0, <2>1, <2>4, AlertKept
<1> QED
  BY <1>1, <1>2, <1>3

LEMMA NextAlert ==
  ASSUME OwnInv, AlertInv, [Next]_vars
  PROVE  AlertInv'
<1>0. RowsOK /\ CallsOK /\ SweepsOK /\ TypeInv /\ failed \subseteq failed'
  BY FailuresGrow DEF OwnInv, TypeInv
<1>1. ASSUME UNCHANGED <<call, alerted>>, \A q \in Requests : row'[q].kind = row[q].kind
      PROVE  AlertInv'
  BY <1>0, <1>1, HitForGood DEF AlertInv, AlertDue, Alerting
<1>2. ASSUME NEW s \in Sweepers, SweepExpire(s)
      PROVE  AlertInv'
  <2>1. sweeper[s].cur \in Requests
    BY <1>0, <1>2 DEF SweepExpire, SweepsOK
  <2>2. \A q \in Requests : row'[q].kind = row[q].kind
    BY <1>0, <1>2, <2>1, KindOfUpdate, KindKept DEF SweepExpire
  <2> QED
    BY <1>1, <1>2, <2>2 DEF SweepExpire
<1>3. ASSUME NEW c \in Calls, AbortCall(c)
      PROVE  AlertInv'
  <2>1. \A d \in Calls \ {c} : call'[d] = call[d]
    BY <1>0, <1>3, OneHandlerMoves
  <2>2. UNCHANGED <<row, alerted>> /\ <<call[c].req, "abort">> \in failed'
    BY <1>3 DEF AbortCall, Fails
  <2> QED
    BY <1>0, <2>1, <2>2, AlertKept
<1>4. ASSUME NEW s \in Sweepers, DoSweep(s), ~SweepExpire(s)
      PROVE  UNCHANGED <<row, call, alerted>>
  BY <1>4 DEF DoSweep, TryAcquireSweepLock, ListActiveExpired, SweepRevoke, SweepLog,
       ReleaseSweepLock
<1>5. ASSUME Environment, \A c \in Calls : ~AbortCall(c)
      PROVE  UNCHANGED <<row, call, alerted>>
  BY <1>5 DEF Environment, CrashSweeper, LoseSweepLock, Elapse
<1>6. ASSUME UNCHANGED vars
      PROVE  UNCHANGED <<row, call, alerted>>
  BY <1>6 DEF vars
<1> QED
  BY <1>0, <1>1, <1>2, <1>3, <1>4, <1>5, <1>6, ArriveAlert, HandleAlert DEF Next

\* A break-glass request is granted without its alert only by another approver, and then
\* its creator's alert is still to come or its creator was stopped: for any number of
\* calls, approvers and failures.
THEOREM BreakGlassAlwaysAlerted == Spec => []BreakGlassAlerted
<1>1. Init => AlertInv
  BY DEF Init, AlertInv, AlertDue, NoRow
<1>2. OwnInv /\ AlertInv /\ [Next]_vars => AlertInv'
  BY NextAlert
<1>3. DecInv /\ AlertInv => BreakGlassAlerted
  BY DEF DecInv, RowDecided, AlertInv, AlertDue, BreakGlassAlerted
<1> QED
  BY <1>1, <1>2, <1>3, OwnInvAlways, DecInvAlways, PTL DEF Spec

-----------------------------------------------------------------------------
(* No approval is abandoned: the safety half of ApprovalResolves. The       *)
(* handler that took a row to APPROVED is still at work on it, or returned  *)
(* from it because of a failure that hit this request.                      *)

Abandoning == {"db", "provider", "abort"}

Owned(r) == \E c \in Calls : Owns(c) /\ call[c].req = r

OwnedInv ==
  \A r \in Requests : row[r].state = "APPROVED" => Owned(r) \/ HitBy(r, Abandoning)

\* How a transition ends: it moved the row and its continuation runs, or a failure hit
\* the request, or the row was in another state.
LEMMA TransitionEnds ==
  ASSUME NEW r, NEW from, NEW new, NEW ACTION Reaches, NEW ACTION Returns,
         Transition(r, from, new, Reaches, Returns)
  PROVE  \/ row[r].state = from /\ row' = [row EXCEPT ![r] = new] /\ Reaches
         \/ Returns /\ <<r, "db">> \in failed'
         \/ Returns /\ row[r].state # from /\ UNCHANGED row
BY DEF Transition, InState, Fails

\* One handler moves. If it owned an APPROVED row that stays so, it still owns it or was
\* hit; a row that it takes to APPROVED it owns, or it was hit.
LEMMA OwnedKept ==
  ASSUME OwnedInv, failed \subseteq failed',
         NEW c \in Calls, \A d \in Calls \ {c} : call'[d] = call[d],
         \A q \in Requests :
           (q # call[c].req \/ ~Owns(c)) /\ row'[q].state = "APPROVED" =>
             row[q].state = "APPROVED" \/ (Owns(c)' /\ call'[c].req = q) \/ <<q, "db">> \in failed',
         Owns(c) => \/ Owns(c)' /\ call'[c].req = call[c].req
                    \/ row'[call[c].req].state # "APPROVED"
                    \/ \E kind \in Abandoning : <<call[c].req, kind>> \in failed'
  PROVE  OwnedInv'
<1> SUFFICES ASSUME NEW q \in Requests, row'[q].state = "APPROVED"
             PROVE  Owned(q)' \/ HitBy(q, Abandoning)'
  BY DEF OwnedInv
<1>1. CASE Owns(c) /\ call[c].req = q
  BY <1>1 DEF Owned, HitBy
<1>2. CASE ~Owns(c) \/ call[c].req # q
  <2>1. CASE row[q].state = "APPROVED"
    <3>1. CASE HitBy(q, Abandoning)
      BY <3>1, HitForGood
    <3>2. CASE Owned(q)
      <4>1. PICK d \in Calls : Owns(d) /\ call[d].req = q
        BY <3>2 DEF Owned
      <4>2. d # c /\ call'[d] = call[d]
        BY <1>2, <4>1
      <4> QED
        BY <4>1, <4>2 DEF Owned, Owns
    <3> QED
      BY <2>1, <3>1, <3>2 DEF OwnedInv
  <2>2. CASE Owns(c)' /\ call'[c].req = q
    BY <2>2 DEF Owned
  <2>3. CASE <<q, "db">> \in failed'
    BY <2>3 DEF HitBy, Abandoning
  <2> QED
    BY <1>2, <2>1, <2>2, <2>3
<1> QED
  BY <1>1, <1>2

LEMMA ArriveOwned ==
  ASSUME OwnInv, OwnedInv, NEW c \in Calls, Arrive(c), failed \subseteq failed'
  PROVE  OwnedInv'
<1>0. RowsOK /\ CallsOK /\ \A d \in Calls \ {c} : call'[d] = call[d]
  BY OneHandlerMoves DEF OwnInv, TypeInv
<1>1. ~Owns(c)
  BY DEF Arrive, CreateRequest, CreateBreakGlass, ApproveRequest, DenyRequest, RevokeRequest,
         AIApproveRequest, AIDenyRequest, AIEscalateRequest, Deny, Arrives, At, Owns
<1>2. ASSUME \A q \in Requests : row'[q].state = "APPROVED" => row[q].state = "APPROVED"
      PROVE  OwnedInv'
  BY <1>0, <1>1, <1>2, OwnedKept
<1>3. ASSUME NEW r \in Requests, NEW u, NEW tier, NEW op, Insert(c, r, u, tier, op)
      PROVE  OwnedInv'
  <2> DEFINE new == [state |-> "PENDING", kind |-> KindOf(op), requester |-> u, tier |-> tier,
                      approver |-> Null]
  <2>1. new.state = "PENDING" /\ row' = [row EXCEPT ![r] = new]
    BY <1>3 DEF Insert
  <2> HIDE DEF new
  <2> QED
    BY <1>0, <1>2, <2>1 DEF RowsOK
\* A transition from PENDING to APPROVED after which the handler goes on with "step".
<1>4. ASSUME NEW r \in Requests, NEW new, NEW op, NEW a, NEW step \in {"eval", "logApproved"},
             Transition(r, "PENDING", new, Enter(c, op, r, a, step), Return(c))
      PROVE  OwnedInv'
  <2>1. \A q \in Requests \ {r} : row'[q] = row[q]
    BY <1>0, <1>4, TransitionRow
  <2>2. \/ Owns(c)' /\ call'[c].req = r
        \/ <<r, "db">> \in failed'
        \/ UNCHANGED row
    <3>1. ASSUME Enter(c, op, r, a, step) PROVE Owns(c)' /\ call'[c].req = r
      <4>1. Becomes(c, step, op, r, a)
        BY <1>0, <3>1, HandlerBecomes
      <4> QED
        BY <1>4, <4>1 DEF Becomes, Owns
    <3> QED
      BY <1>4, <3>1, TransitionEnds
  <2> QED
    BY <1>0, <1>1, <2>1, <2>2, OwnedKept
<1>5. ASSUME NEW r \in Requests, NEW new, new.state # "APPROVED" \/ new.state = row[r].state,
             NEW ACTION Reaches, NEW ACTION Returns,
             Transition(r, "PENDING", new, Reaches, Returns)
      PROVE  OwnedInv'
  BY <1>0, <1>2, <1>5, TransitionRow
<1>6. ASSUME NEW r \in Requests, NEW u \in Users, ApproveRequest(c, r, u)
      PROVE  OwnedInv'
  <2> DEFINE new == [row[r] EXCEPT !.state = "APPROVED", !.approver = u]
  <2>1. Transition(r, "PENDING", new, Enter(c, "approve", r, u, "eval"), Return(c))
    BY <1>6 DEF ApproveRequest
  <2> HIDE DEF new
  <2> QED
    BY <1>4, <2>1
<1>7. ASSUME NEW r \in Requests, AIApproveRequest(c, r)
      PROVE  OwnedInv'
  <2> DEFINE new == [row[r] EXCEPT !.state = "APPROVED", !.approver = Agent]
  <2>1. Transition(r, "PENDING", new, Enter(c, "ai_approve", r, Agent, "logApproved"), Return(c))
    BY <1>7 DEF AIApproveRequest
  <2> HIDE DEF new
  <2> QED
    BY <1>4, <2>1
<1>8. ASSUME NEW r \in Requests, NEW op, NEW a, Deny(c, op, r, a)
      PROVE  OwnedInv'
  <2> DEFINE new == [row[r] EXCEPT !.state = "REJECTED", !.approver = a]
  <2>1. new.state # "APPROVED"
    BY <1>0 DEF RowsOK, Row
  <2>2. Transition(r, "PENDING", new, Enter(c, op, r, a, "logDenied"), Return(c))
    BY <1>8 DEF Deny
  <2> HIDE DEF new
  <2> QED
    BY <1>5, <2>1, <2>2
<1>9. ASSUME NEW r \in Requests, AIEscalateRequest(c, r)
      PROVE  OwnedInv'
  <2> DEFINE new == [row[r] EXCEPT !.tier = "human"]
  <2>1. new.state = row[r].state
    BY <1>0 DEF RowsOK, Row
  <2>2. Transition(r, "PENDING", new, Enter(c, "ai_escalate", r, Agent, "logEscalated"), Return(c))
    BY <1>9 DEF AIEscalateRequest
  <2> HIDE DEF new
  <2> QED
    BY <1>5, <2>1, <2>2
<1>10. ASSUME NEW r \in Requests, NEW u \in Users, RevokeRequest(c, r, u)
       PROVE  OwnedInv'
  BY <1>2, <1>10 DEF RevokeRequest
<1> QED
  BY <1>3, <1>6, <1>7, <1>8, <1>9, <1>10
     DEF Arrive, CreateRequest, CreateBreakGlass, DenyRequest, AIDenyRequest

LEMMA HandleOwned ==
  ASSUME OwnInv, OwnedInv, NEW c \in Calls, Handle(c), failed \subseteq failed'
  PROVE  OwnedInv'
<1> DEFINE r == call[c].req
<1>0. /\ RowsOK /\ CallsOK /\ \A d \in Calls \ {c} : call'[d] = call[d]
      /\ Owns(c) => row[r].state = "APPROVED"
  BY OneHandlerMoves DEF OwnInv, TypeInv, OwnersOK
<1>a. ASSUME NEW step, At(c, step), step \notin {"idle", "done"}
      PROVE  r \in Requests
  BY <1>0, <1>a DEF CallsOK, Busy, At
<1>b. ASSUME NEW step \in {"eval", "rollback", "logApproved", "grant", "activate"}, Goto(c, step)
      PROVE  Owns(c)' /\ call'[c].req = r
  <2>1. Becomes(c, step, call[c].op, r, call[c].actor)
    BY <1>0, <1>b, HandlerBecomes
  <2> QED
    BY <1>b, <2>1 DEF Becomes, Owns
\* The rows stay; an owner goes to another step of an owner, or was hit.
<1>c. ASSUME UNCHANGED row,
             Owns(c) => \/ \E step \in {"rollback", "logApproved", "grant", "activate"} : Goto(c, step)
                        \/ <<r, "provider">> \in failed'
      PROVE  OwnedInv'
  <2>1. Owns(c) => \/ Owns(c)' /\ call'[c].req = r
                   \/ \E kind \in Abandoning : <<r, kind>> \in failed'
    BY <1>b, <1>c DEF Abandoning
  <2> HIDE DEF r
  <2> QED
    BY <1>0, <1>c, <2>1, OwnedKept DEF r
\* An owner lets its row go, or was hit.
<1>d. ASSUME Owns(c), r \in Requests, NEW new, new.state # "APPROVED",
             NEW ACTION Reaches, NEW ACTION Returns,
             Transition(r, "APPROVED", new, Reaches, Returns)
      PROVE  OwnedInv'
  <2>1. \A q \in Requests \ {r} : row'[q] = row[q]
    BY <1>0, <1>d, TransitionRow
  <2>2. row'[r].state # "APPROVED" \/ <<r, "db">> \in failed'
    BY <1>0, <1>d, TransitionEnds DEF RowsOK
  <2>3. row'[r].state # "APPROVED" \/ \E kind \in Abandoning : <<r, kind>> \in failed'
    BY <2>2 DEF Abandoning
  <2> QED
    BY <1>0, <1>d, <2>1, <2>3, OwnedKept
<1>1. CASE SelfApprove(c)
  <2> DEFINE approver == IF call[c].op = "auto" THEN "policy" ELSE "break-glass"
             new == [row[r] EXCEPT !.state = "APPROVED", !.approver = approver]
  <2>1. r \in Requests /\ ~Owns(c)
    BY <1>1, <1>a DEF SelfApprove, Owns, At
  <2>2. Transition(r, "PENDING", new, Goto(c, "logApproved"), Return(c))
    BY <1>1 DEF SelfApprove
  <2> HIDE DEF new, r
  <2>3. \A q \in Requests \ {r} : row'[q] = row[q]
    BY <1>0, <2>1, <2>2, TransitionRow
  <2>4. \/ Owns(c)' /\ call'[c].req = r
        \/ <<r, "db">> \in failed'
        \/ UNCHANGED row
    BY <1>b, <2>2, TransitionEnds DEF r
  <2> QED
    BY <1>0, <2>1, <2>3, <2>4, OwnedKept
<1>2. CASE EvalApproval(c)
  BY <1>2, <1>c DEF EvalApproval, AfterVerdict
<1>3. CASE Rollback(c)
  <2> DEFINE new == [row[r] EXCEPT !.state = "PENDING"]
  <2>1. r \in Requests /\ Owns(c)
    BY <1>3, <1>a DEF Rollback, Owns, At
  <2>2. new.state # "APPROVED"
    BY <1>0, <2>1 DEF RowsOK, Row
  <2>3. Transition(r, "APPROVED", new, Return(c), Return(c))
    BY <1>3 DEF Rollback
  <2> HIDE DEF new
  <2> QED
    BY <1>d, <2>1, <2>2, <2>3
<1>4. CASE LogApproved(c)
  BY <1>4, <1>c DEF LogApproved
<1>5. CASE Grant(c)
  BY <1>5, <1>c DEF Grant, ProviderGrant, Fails
<1>6. CASE Activate(c)
  <2> DEFINE new == [row[r] EXCEPT !.state = "ACTIVE"]
  <2>1. r \in Requests /\ Owns(c)
    BY <1>6, <1>a DEF Activate, Owns, At
  <2>2. new.state # "APPROVED"
    BY <1>0, <2>1 DEF RowsOK, Row
  <2>3. Transition(r, "APPROVED", new, Goto(c, "logIssued"), Return(c))
    BY <1>6 DEF Activate
  <2> HIDE DEF new
  <2> QED
    BY <1>d, <2>1, <2>2, <2>3
<1>7. CASE CommitRevoke(c)
  <2> DEFINE new == [row[r] EXCEPT !.state = "REVOKED"]
  <2>1. r \in Requests /\ ~Owns(c)
    BY <1>7, <1>a DEF CommitRevoke, Owns, At
  <2>2. new.state # "APPROVED"
    BY <1>0, <2>1 DEF RowsOK, Row
  <2>3. Transition(r, "ACTIVE", new, Goto(c, "providerRevoke"), Return(c))
    BY <1>7 DEF CommitRevoke
  <2> HIDE DEF new
  <2>4. \A q \in Requests : row'[q].state = "APPROVED" => row[q].state = "APPROVED"
    BY <1>0, <2>1, <2>2, <2>3, TransitionRow
  <2> QED
    BY <1>0, <2>1, <2>4, OwnedKept
<1>8. CASE \/ LogCreated(c) \/ Alert(c) \/ LogIssued(c) \/ LogDenied(c) \/ LogEscalated(c)
           \/ CallProviderRevoke(c) \/ LogRevoked(c)
  BY <1>8, <1>c DEF LogCreated, Alert, LogIssued, LogDenied, LogEscalated, CallProviderRevoke,
       LogRevoked, Owns, At
<1> QED
  BY <1>1, <1>2, <1>3, <1>4, <1>5, <1>6, <1>7, <1>8 DEF Handle

LEMMA NextOwned ==
  ASSUME OwnInv, OwnedInv, [Next]_vars
  PROVE  OwnedInv'
<1>0. RowsOK /\ CallsOK /\ SweepsOK /\ failed \subseteq failed'
  BY FailuresGrow DEF OwnInv, TypeInv
<1>1. ASSUME UNCHANGED call,
             \A q \in Requests : row'[q].state = "APPROVED" => row[q].state = "APPROVED"
      PROVE  OwnedInv'
  BY <1>0, <1>1, HitForGood DEF OwnedInv, Owned, Owns
<1>2. ASSUME NEW s \in Sweepers, SweepExpire(s)
      PROVE  OwnedInv'
  <2>1. PICK r \in Requests : r = sweeper[s].cur
    BY <1>0, <1>2 DEF SweepExpire, SweepsOK
  <2> DEFINE new == [row[r] EXCEPT !.state = "EXPIRED"]
  <2>2. new.state # "APPROVED"
    BY <1>0 DEF RowsOK, Row
  <2>3. Transition(r, "ACTIVE", new, SweepGoto(s, "log"), NextRequest(s)) /\ UNCHANGED call
    BY <1>2, <2>1 DEF SweepExpire
  <2> HIDE DEF new
  <2>4. \A q \in Requests : row'[q].state = "APPROVED" => row[q].state = "APPROVED"
    BY <1>0, <2>1, <2>2, <2>3, TransitionRow
  <2> QED
    BY <1>1, <2>3, <2>4
<1>3. ASSUME NEW c \in Calls, AbortCall(c)
      PROVE  OwnedInv'
  <2>1. \A d \in Calls \ {c} : call'[d] = call[d]
    BY <1>0, <1>3, OneHandlerMoves
  <2>2. UNCHANGED row /\ \E kind \in Abandoning : <<call[c].req, kind>> \in failed'
    BY <1>3 DEF AbortCall, Fails, Abandoning
  <2> QED
    BY <1>0, <2>1, <2>2, OwnedKept
<1>4. ASSUME NEW s \in Sweepers, DoSweep(s), ~SweepExpire(s)
      PROVE  UNCHANGED <<row, call>>
  BY <1>4 DEF DoSweep, TryAcquireSweepLock, ListActiveExpired, SweepRevoke, SweepLog,
       ReleaseSweepLock
<1>5. ASSUME Environment, \A c \in Calls : ~AbortCall(c)
      PROVE  UNCHANGED <<row, call>>
  BY <1>5 DEF Environment, CrashSweeper, LoseSweepLock, Elapse
<1>6. ASSUME UNCHANGED vars
      PROVE  UNCHANGED <<row, call>>
  BY <1>6 DEF vars
<1> QED
  BY <1>0, <1>1, <1>2, <1>3, <1>4, <1>5, <1>6, ArriveOwned, HandleOwned DEF Next

\* Every APPROVED row has a handler at work on it, or a failure of the database, of the
\* provider or of its handler hit that request: on every path to APPROVED, with any
\* number of calls and failures.
THEOREM ApprovalNeverAbandoned == Spec => []OwnedInv
<1>1. Init => OwnedInv
  BY DEF Init, OwnedInv, NoRow
<1>2. OwnInv /\ OwnedInv /\ [Next]_vars => OwnedInv'
  BY NextOwned
<1> QED
  BY <1>1, <1>2, OwnInvAlways, PTL DEF Spec
=============================================================================
