---------------------------- MODULE NamedBinding ----------------------------
(***************************************************************************)
(* The providers whose access is an object named after the request:        *)
(* Kubernetes (providers/kubernetes/kubernetes.go), a role binding, and    *)
(* Azure (providers/azure/azure.go), a role assignment.                    *)
(*                                                                         *)
(* Kubernetes' Grant looks for its binding and then creates it; Azure's    *)
(* creates its assignment and takes a conflict for success. A conflict may *)
(* be with an assignment of another request, or with one that an           *)
(* administrator has made, since Azure keeps one for each principal, role  *)
(* and scope. Both Revokes delete the object by its name. Neither service  *)
(* ends the access by itself. Calls of any replicas overlap; as the        *)
(* interface asks, a Grant may be repeated, and a Revoke has the token of  *)
(* a Grant.                                                                *)
(***************************************************************************)

CONSTANTS
  Requests,
  Azure,    \* the requests for Azure; the others are for Kubernetes
  Asks,     \* the user, role and scope each request asks for
  Standing, \* what of it administrators of Azure have assigned, for good
  Calls     \* calls of Grant and Revoke; each runs once

ASSUME ConstantsAssumption == Requests # {} /\ Azure \subseteq Requests

VARIABLES
  objects,  \* the requests whose binding or assignment exists
  call,     \* what each call is doing
  ended,    \* history: revoked, and no Grant called since
  removed   \* history: the requests whose object others have deleted

vars == <<objects, call, ended, removed>>

-----------------------------------------------------------------------------
(* Objects *)

\* The requests that one object can serve.
Same(r) == IF r \in Azure THEN {q \in Azure : Asks[q] = Asks[r]} ELSE {r}

\* Faulty variant: an object is named after one of the requests for the same access.
NameOfAccess(r) == CHOOSE q \in Same(r) : TRUE

\* bindingName, deterministicAssignmentID: an object has the name of its request.
Name(r) == r

\* The user has the role at Azure from an administrator.
Assigned(r) == r \in Azure /\ Asks[r] \in Standing

\* Faulty variant: any error of the client counts as a conflict.
IsConflictAlways(r) == TRUE

IsConflict(r) == Same(r) \cap objects # {} \/ Assigned(r)

\* Faulty variant: any error of the client counts as not found.
IsNotFoundAlways(r) == TRUE

IsNotFound(r) == Name(r) \notin objects

-----------------------------------------------------------------------------
(* Calls *)

\* Without an error, or with one.
Results == {"ok", "failed"}

Steps == {"idle", "lookup", "get", "create", "delete"} \cup Results

Call == [op : {"none", "grant", "revoke"}, req : Requests, at : Steps]

NotCalled == [op |-> "none", req |-> CHOOSE r \in Requests : TRUE, at |-> "idle"]

Goes(c, step) == call' = [call EXCEPT ![c].at = step]

\* A new Grant may bring back what was revoked.
Begin(c, op, r, step) ==
  /\ call[c].at = "idle"
  /\ call' = [call EXCEPT ![c] = [op |-> op, req |-> r, at |-> step]]
  /\ ended' = IF op = "grant" THEN ended \ {r} ELSE ended
  /\ UNCHANGED <<objects, removed>>

GrantBinding(c) == \E r \in Requests \ Azure : Begin(c, "grant", r, "get")

GrantAssignment(c) == \E r \in Azure : Begin(c, "grant", r, "lookup")

\* Its grant carries the token of an earlier Grant, with the object's name.
Token(r) == \E d \in Calls : call[d] = [op |-> "grant", req |-> r, at |-> "ok"]

RevokeBinding(c) ==
  \E r \in Requests \ Azure : Token(r) /\ Begin(c, "revoke", r, "delete")

RevokeAssignment(c) ==
  \E r \in Azure : Token(r) /\ Begin(c, "revoke", r, "delete")

\* The existing binding is the grant (reconstructGrant).
GetBinding(c) ==
  /\ call[c].at = "get"
  /\ \/ ~IsNotFound(call[c].req) /\ Goes(c, "ok")
     \/ IsNotFound(call[c].req) /\ Goes(c, "create")
     \/ Goes(c, "failed")
  /\ UNCHANGED <<objects, ended, removed>>

\* AlreadyExists is an error like any other; the reply of a Create that took effect may be
\* lost.
CreateBinding(c) ==
  /\ call[c].at = "create" /\ call[c].req \notin Azure
  /\ \/ /\ IsNotFound(call[c].req)
        /\ objects' = objects \cup {Name(call[c].req)}
        /\ Goes(c, "ok") \/ Goes(c, "failed")
     \/ Goes(c, "failed") /\ UNCHANGED objects
  /\ UNCHANGED <<ended, removed>>

\* The identifiers of the user and of the role definition, from a cache or a remote call.
Lookup(c) ==
  /\ call[c].at = "lookup"
  /\ Goes(c, "create") \/ Goes(c, "failed")
  /\ UNCHANGED <<objects, ended, removed>>

CreateAssignment(c) ==
  /\ call[c].at = "create" /\ call[c].req \in Azure
  /\ \/ /\ Same(call[c].req) \cap objects = {} /\ ~Assigned(call[c].req)
        /\ objects' = objects \cup {Name(call[c].req)}
        /\ Goes(c, "ok") \/ Goes(c, "failed")
     \/ IsConflict(call[c].req) /\ Goes(c, "ok") /\ UNCHANGED objects
     \/ Goes(c, "failed") /\ UNCHANGED objects
  /\ UNCHANGED <<ended, removed>>

\* No Grant of the request runs.
Quiet(r) ==
  \A d \in Calls :
    call[d].op = "grant" /\ call[d].req = r => call[d].at \in Results

Delete(c) ==
  /\ call[c].at = "delete"
  /\ \/ /\ ~IsNotFound(call[c].req)
        /\ objects' = objects \ {Name(call[c].req)}
        /\ Goes(c, "ok") \/ Goes(c, "failed")
     \/ IsNotFound(call[c].req) /\ Goes(c, "ok") /\ UNCHANGED objects
     \/ Goes(c, "failed") /\ UNCHANGED objects
  /\ ended' = IF call'[c].at = "ok" /\ Quiet(call[c].req)
              THEN ended \cup {call[c].req} ELSE ended
  /\ UNCHANGED removed

\* An administrator deletes an object.
OutsideDelete(r) ==
  /\ r \in objects
  /\ objects' = objects \ {r}
  /\ removed' = removed \cup {r}
  /\ UNCHANGED <<call, ended>>

Init ==
  /\ objects = {}
  /\ call = [c \in Calls |-> NotCalled]
  /\ ended = {}
  /\ removed = {}

Next ==
  \/ \E c \in Calls :
       \/ GrantBinding(c) \/ GetBinding(c) \/ CreateBinding(c) \/ RevokeBinding(c)
       \/ GrantAssignment(c) \/ Lookup(c) \/ CreateAssignment(c) \/ RevokeAssignment(c)
       \/ Delete(c)
  \/ \E r \in Requests : OutsideDelete(r)

Spec == Init /\ [][Next]_vars

-----------------------------------------------------------------------------
(* Properties *)

\* Every variable keeps its type.
TypeOK ==
  /\ objects \subseteq Requests
  /\ call \in [Calls -> Call]
  /\ ended \subseteq Requests
  /\ removed \subseteq Requests

\* A Grant that returned no error, also one that found another assignment in its way, has
\* given the user the role or found that an administrator has, until the access is revoked
\* for some request of the same user, role and scope, or somebody else deletes the object.
GrantGivesAccess ==
  \A c \in Calls :
    LET same == Same(call[c].req)
    IN call[c].op = "grant" /\ call[c].at = "ok"
         => \/ same \cap objects # {} \/ Assigned(call[c].req)
            \/ same \cap removed # {}
            \/ \E d \in Calls : call[d].op = "revoke" /\ call[d].req \in same

\* Once a Revoke has returned no error, and no Grant of its request ran then or was called
\* since, nothing under the request's name is left, whoever else was granted the same. So
\* the end of the last of several requests for the same access ends the access, unless it
\* is an administrator's.
RevokedLeavesNothing == ended \cap objects = {}

\* The access is the request's alone: none of another request, none of an administrator.
Sole(r) == Same(r) = {r} /\ ~Assigned(r)

\* What the contract is told of: the calls for such requests.
Shown(c) ==
  IF call[c].op # "none" /\ Sole(call[c].req) THEN call[c] ELSE NotCalled

StatusOf(step) ==
  IF step \in {"lookup", "get", "create", "delete"} THEN "running" ELSE step

Contract == INSTANCE ProviderContract WITH
  op <- [c \in Calls |-> Shown(c).op],
  req <- [c \in Calls |-> Shown(c).req],
  status <- [c \in Calls |-> StatusOf(Shown(c).at)],
  access <- {r \in objects : Sole(r)},
  lapsed <- {}

\* Look and create, create and conflict, and delete behave as one atomic step on one
\* request, for each request that shares its user, role and scope with no other one and
\* with no administrator's assignment, whatever happens to those that do.
KeepsContract == Contract!Spec
=============================================================================
