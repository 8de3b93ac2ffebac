----------------------------- MODULE Lifecycle -----------------------------
(***************************************************************************)
(* What the elevation request state machine promises, whatever the number  *)
(* of servers, handlers and sweepers that drive it.                        *)
(*                                                                         *)
(*   PENDING -> APPROVED | REJECTED -> ACTIVE -> EXPIRED | REVOKED         *)
(*                                                                         *)
(* is the graph of the header of internal/server/workflow/workflow.go.     *)
(* The code adds one edge: APPROVED -> PENDING, when the approval policy   *)
(* turns an approver down. Beside the state of a request the specification *)
(* counts the times the provider was asked to issue credentials for it:    *)
(* they are issued once, only while the request is APPROVED, and an        *)
(* approval that led to credentials is never withdrawn.                    *)
(***************************************************************************)
EXTENDS Naturals

CONSTANT Requests

VARIABLES
  state,    \* the state of every request, "ABSENT" before it is submitted
  issued    \* the times the provider issued credentials for it

States == {"ABSENT", "PENDING", "APPROVED", "REJECTED", "ACTIVE", "EXPIRED", "REVOKED"}

Terminal == {"REJECTED", "EXPIRED", "REVOKED"}

Init ==
  /\ state = [r \in Requests |-> "ABSENT"]
  /\ issued = [r \in Requests |-> 0]

Move(r, from, to) ==
  /\ state[r] = from
  /\ state' = [state EXCEPT ![r] = to]
  /\ UNCHANGED issued

Submit(r) == Move(r, "ABSENT", "PENDING")

Approve(r) == Move(r, "PENDING", "APPROVED")

Reject(r) == Move(r, "PENDING", "REJECTED")

\* The approval policy turned the approver down: nothing was issued yet.
Withdraw(r) == issued[r] = 0 /\ Move(r, "APPROVED", "PENDING")

Issue(r) ==
  /\ state[r] = "APPROVED"
  /\ issued[r] = 0
  /\ issued' = [issued EXCEPT ![r] = 1]
  /\ UNCHANGED state

Activate(r) == issued[r] = 1 /\ Move(r, "APPROVED", "ACTIVE")

Expire(r) == Move(r, "ACTIVE", "EXPIRED")

Revoke(r) == Move(r, "ACTIVE", "REVOKED")

Next ==
  \E r \in Requests :
    \/ Submit(r) \/ Approve(r) \/ Reject(r) \/ Withdraw(r)
    \/ Issue(r) \/ Activate(r) \/ Expire(r) \/ Revoke(r)

vars == <<state, issued>>

Spec == Init /\ [][Next]_vars
=============================================================================
