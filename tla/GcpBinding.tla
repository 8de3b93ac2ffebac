----------------------------- MODULE GcpBinding -----------------------------
(***************************************************************************)
(* The provider for Google Cloud, providers/gcp/gcp.go: Grant and Revoke   *)
(* edit the IAM policy that all the requests of a project, and everybody   *)
(* else who administers it, share.                                         *)
(*                                                                         *)
(* An edit reads the whole policy, changes it and writes it back with the  *)
(* ETag it was read with; when somebody else wrote in between, Google      *)
(* answers 409 and the edit starts again from a new read. Calls of any     *)
(* replicas overlap. As the interface asks, a Grant may be called again    *)
(* for a request that has one, and Revoke needs the token of a Grant.      *)
(***************************************************************************)
EXTENDS Naturals

CONSTANTS
  Requests,
  Calls,       \* calls of Grant and Revoke; each runs once
  MaxRetries,  \* edits a call tries, 5 in the code
  MaxEdits     \* edits of others, the model's bound

ASSUME ConstantsAssumption ==
  /\ Requests # {}
  /\ MaxRetries \in Nat \ {0}
  /\ MaxEdits \in Nat

VARIABLES
  policy,   \* the project's IAM policy
  call,     \* what each call is doing
  edits,    \* history: how often others have edited the policy
  begun,    \* history: the ETag when the call was made
  expired   \* the Grant calls whose expiry time has passed

vars == <<policy, call, edits, begun, expired>>

-----------------------------------------------------------------------------
(* The policy *)

\* A conditional binding of a request's role and member, with its condition's title and
\* the expiry that the call "by" has put into its expression.
Bindings == [req : Requests, by : Calls]

\* "others" stands for what other administrators have made of the rest of the policy.
Policies == [bindings : SUBSET Bindings, others : Nat, etag : Nat]

EmptyPolicy == [bindings |-> {}, others |-> 0, etag |-> 0]

BindingsOf(p, r) == {b \in p.bindings : b.req = r}

\* Faulty variant: the title of the condition is not compared.
WithoutRole(p, r) == {}

Without(p, r) == p.bindings \ BindingsOf(p, r)

\* Faulty variant: Grant does not look for its binding.
AlreadyBoundUnchecked(p, r) == FALSE

AlreadyBound(p, r) == BindingsOf(p, r) # {}

-----------------------------------------------------------------------------
(* Calls *)

Steps == {"idle", "get", "set", "ok", "failed", "exhausted"}

\* "seen" is the policy as the call has read it.
Call == [op : {"none", "grant", "revoke"}, req : Requests, at : Steps,
         attempt : 0 .. MaxRetries - 1, seen : Policies]

NotCalled == [op |-> "none", req |-> CHOOSE r \in Requests : TRUE, at |-> "idle",
              attempt |-> 0, seen |-> EmptyPolicy]

\* The call returns; its variables are gone.
Return(c, result) == call' = [call EXCEPT ![c].at = result, ![c].seen = EmptyPolicy]

Begin(c, op, r) ==
  /\ call[c].at = "idle"
  /\ call' = [call EXCEPT ![c] = [NotCalled EXCEPT !.op = op, !.req = r, !.at = "get"]]
  /\ begun' = [begun EXCEPT ![c] = policy.etag]
  /\ UNCHANGED <<policy, edits, expired>>

Grant(c) == \E r \in Requests : Begin(c, "grant", r)

\* Its grant carries the revoke token of an earlier Grant.
Revoke(c) ==
  \E d \in Calls :
    /\ call[d].op = "grant" /\ call[d].at = "ok"
    /\ Begin(c, "revoke", call[d].req)

\* Nothing to add, or nothing to remove.
Done(c, p) ==
  IF call[c].op = "grant"
  THEN AlreadyBound(p, call[c].req)
  ELSE BindingsOf(p, call[c].req) = {}

GetIamPolicy(c) ==
  /\ call[c].at = "get"
  /\ \/ Done(c, policy) /\ Return(c, "ok")
     \/ /\ ~Done(c, policy)
        /\ call' = [call EXCEPT ![c].at = "set", ![c].seen = policy]
     \/ Return(c, "failed")
  /\ UNCHANGED <<policy, edits, begun, expired>>

NewBindings(c) ==
  IF call[c].op = "grant"
  THEN call[c].seen.bindings \cup {[req |-> call[c].req, by |-> c]}
  ELSE Without(call[c].seen, call[c].req)

\* Faulty variant: the policy is written without its ETag.
EtagIgnored(c) == TRUE

EtagMatches(c) == call[c].seen.etag = policy.etag

\* Faulty variant: one try fewer.
LastTryEarly(c) == call[c].attempt + 2 >= MaxRetries

LastTry(c) == call[c].attempt = MaxRetries - 1

\* The policy is written, though the reply may be lost; or 409; or any other error.
SetIamPolicy(c) ==
  /\ call[c].at = "set"
  /\ \/ /\ EtagMatches(c)
        /\ policy' = [bindings |-> NewBindings(c), others |-> call[c].seen.others,
                      etag |-> policy.etag + 1]
        /\ Return(c, "ok") \/ Return(c, "failed")
     \/ /\ ~EtagMatches(c)
        /\ IF LastTry(c)
           THEN Return(c, "exhausted")
           ELSE call' = [call EXCEPT ![c].at = "get", ![c].attempt = @ + 1,
                                     ![c].seen = EmptyPolicy]
        /\ UNCHANGED policy
     \/ Return(c, "failed") /\ UNCHANGED policy
  /\ UNCHANGED <<edits, begun, expired>>

\* Another administrator edits the policy, and may remove bindings of requests.
OutsideEdit ==
  /\ edits < MaxEdits
  /\ edits' = edits + 1
  /\ \E kept \in SUBSET policy.bindings :
       policy' = [bindings |-> kept, others |-> policy.others + 1, etag |-> policy.etag + 1]
  /\ UNCHANGED <<call, begun, expired>>

\* The time that the call has computed as the grant's expiry is over.
Expire(c) ==
  /\ call[c].op = "grant"
  /\ c \notin expired
  /\ expired' = expired \cup {c}
  /\ UNCHANGED <<policy, call, edits, begun>>

Init ==
  /\ policy = EmptyPolicy
  /\ call = [c \in Calls |-> NotCalled]
  /\ edits = 0
  /\ begun = [c \in Calls |-> 0]
  /\ expired = {}

Next ==
  \/ \E c \in Calls :
       Grant(c) \/ Revoke(c) \/ GetIamPolicy(c) \/ SetIamPolicy(c) \/ Expire(c)
  \/ OutsideEdit

Spec == Init /\ [][Next]_vars

-----------------------------------------------------------------------------
(* Properties *)

\* Every variable keeps its type.
TypeOK ==
  /\ policy \in Policies
  /\ call \in [Calls -> Call]
  /\ edits \in Nat
  /\ begun \in [Calls -> Nat]
  /\ expired \subseteq Calls

\* However Grants and Revokes overlap, fail and are tried again, the policy holds every
\* edit that others have made: no write-back of an older read undoes one.
NoEditLost == policy.others = edits

\* Calling Grant again for a request, even at the same time, never binds it twice.
BoundOnce == \A b, d \in policy.bindings : b.req = d.req => b = d

\* A call gives up on conflicts only if others have written the policy at least
\* MaxRetries times while it ran.
GivenUpWhenOvertaken ==
  \A c \in Calls : call[c].at = "exhausted" => policy.etag >= begun[c] + MaxRetries

TwiceGranted(r) ==
  \E b, d \in Calls :
    b # d /\ \A c \in {b, d} : call[c].op = "grant" /\ call[c].req = r

\* Once a Revoke has returned no error its request has no binding, and none comes back: no
\* retry and no write-back of an older read, of this or of any other request, revives it.
\* The workflow grants a request once and revokes it only then (RequestWorkflow's
\* SingleGrant and RevokesFollowGrant); only another Grant could bind it again.
RevokedLeavesNothing ==
  \A c \in Calls :
    call[c].op = "revoke" /\ call[c].at = "ok" =>
      BindingsOf(policy, call[c].req) = {} \/ TwiceGranted(call[c].req)

StatusOf(step) ==
  CASE step \in {"get", "set"} -> "running"
    [] step \in {"failed", "exhausted"} -> "failed"
    [] OTHER -> step

Contract == INSTANCE ProviderContract WITH
  op <- [c \in Calls |-> call[c].op],
  req <- [c \in Calls |-> call[c].req],
  status <- [c \in Calls |-> StatusOf(call[c].at)],
  access <- {b.req : b \in {d \in policy.bindings : d.by \notin expired}},
  lapsed <- {call[c].req : c \in expired}

\* Read, change and write back behaves as one atomic step on one request: concurrent
\* Grants and Revokes of other requests never undo each other, a call that returns no
\* error has had its effect, and one that fails has had it once or not at all.
KeepsContract == Contract!Spec
=============================================================================
