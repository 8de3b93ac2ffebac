----------------------------- MODULE AwsSession -----------------------------
(***************************************************************************)
(* The provider for AWS, providers/aws/aws.go: Grant assumes a role and    *)
(* hands out the credentials of the session, Revoke puts a policy on the   *)
(* role that denies every session issued up to some time.                  *)
(*                                                                         *)
(* Time is in seconds, the precision of the issue times that IAM compares, *)
(* and one clock is everybody's. A request is granted once, as the         *)
(* workflow sees to it (RequestWorkflow's SingleGrant), and may be revoked *)
(* several times, by its requester and by the sweepers of all replicas.    *)
(*                                                                         *)
(* A request's scope is an AWS account. Its role is assumed by its ARN,    *)
(* which names the account, but the policy goes to a bare role name, which *)
(* IAM takes for a role of the account that jitsudod itself runs under.    *)
(***************************************************************************)
EXTENDS Naturals

CONSTANTS
  Requests,
  Accounts,
  HomeAccount,  \* the one that jitsudod's credentials are of
  RoleNames,
  FirstRoles,   \* the roles there are at first
  RoleOf,       \* the role each request is for: its scope and its role's name
  Calls,        \* calls of Grant and Revoke; each runs once
  Durations,    \* what may be requested
  StsMin,       \* the shortest session STS issues, 15 minutes
  StsMax,       \* the longest, 12 hours
  MaxDuration,  \* the configured maximum, 0 for none
  MaxTime       \* the end of the clock, the model's bound

Roles == [account : Accounts, name : RoleNames]

ASSUME ConstantsAssumption ==
  /\ Requests # {}
  /\ HomeAccount \in Accounts
  /\ FirstRoles \subseteq Roles
  /\ RoleOf \in [Requests -> Roles]
  /\ Durations \subseteq Nat \ {0}
  /\ StsMin \in Nat \ {0} /\ StsMax \in Nat /\ StsMin <= StsMax
  /\ MaxDuration \in Nat
  /\ MaxTime \in Nat

VARIABLES
  clock,
  roles,     \* the roles that exist
  sessions,  \* the sessions that STS has issued
  denials,   \* the inline policies that Revoke has put on roles
  call       \* what each call is doing

vars == <<clock, roles, sessions, denials, call>>

-----------------------------------------------------------------------------
(* Sessions and denials *)

Smaller(m, n) == IF m < n THEN m ELSE n

Larger(m, n) == IF m < n THEN n ELSE m

\* The floor comes last: it holds against the configured maximum as well.
capDuration(d) ==
  LET capped == IF MaxDuration > 0 THEN Smaller(d, MaxDuration) ELSE d
  IN Larger(Smaller(capped, StsMax), StsMin)

\* A session of the Grant call "by".
Sessions == [by : Calls, req : Requests, issued : Nat, expires : Nat]

Denials == [name : Requests, role : Roles, upto : Nat]

\* The role that the last segment of a role's ARN stands for.
RoleByName(role) == [account |-> HomeAccount, name |-> role.name]

\* Faulty variant: one policy for all the sessions of a role.
PolicyNameOfRole(r) == RoleOf[r].name

\* The policy is named after the session, which is named after the request.
PolicyName(r) == r

Denies(d, s) == d.role = RoleOf[s.req] /\ s.issued <= d.upto

Denied(s) == \E d \in denials : Denies(d, s)

\* AWS lets the session act.
Usable(s) == clock < s.expires /\ RoleOf[s.req] \in roles /\ ~Denied(s)

-----------------------------------------------------------------------------
(* Calls *)

Steps == {"idle", "assume", "put", "ok", "failed"}

\* "issuedAt" is the time a Grant puts into its revoke token, and a Revoke finds there;
\* "by" is the Grant whose token a call has.
Call == [op : {"none", "grant", "revoke"}, req : Requests, at : Steps, by : Calls,
         duration : Nat, issuedAt : Nat]

NotCalled(c) == [op |-> "none", req |-> CHOOSE r \in Requests : TRUE, at |-> "idle",
                 by |-> c, duration |-> 0, issuedAt |-> 0]

Return(c, result) == call' = [call EXCEPT ![c].at = result]

\* The time is read before STS is asked.
Grant(c) ==
  /\ call[c].at = "idle"
  /\ \E r \in Requests, d \in Durations :
       /\ \A b \in Calls : call[b].op = "grant" => call[b].req # r
       /\ call' = [call EXCEPT ![c] =
            [op |-> "grant", req |-> r, at |-> "assume", by |-> c,
             duration |-> capDuration(d), issuedAt |-> clock]]
  /\ UNCHANGED <<clock, roles, sessions, denials>>

\* STS issues a session, though its reply may be lost; or an error comes back.
AssumeRole(c) ==
  LET session == [by |-> c, req |-> call[c].req, issued |-> clock,
                  expires |-> clock + call[c].duration]
  IN /\ call[c].at = "assume"
     /\ \/ /\ RoleOf[call[c].req] \in roles
           /\ sessions' = sessions \cup {session}
           /\ Return(c, "ok") \/ Return(c, "failed")
        \/ Return(c, "failed") /\ UNCHANGED sessions
     /\ UNCHANGED <<clock, roles, denials>>

\* With the token of a grant.
Revoke(c) ==
  /\ call[c].at = "idle"
  /\ \E g \in Calls :
       /\ call[g].op = "grant" /\ call[g].at = "ok"
       /\ call' = [call EXCEPT ![c] =
            [op |-> "revoke", req |-> call[g].req, at |-> "put", by |-> g,
             duration |-> 0, issuedAt |-> call[g].issuedAt]]
  /\ UNCHANGED <<clock, roles, sessions, denials>>

\* Faulty variant: the denial is of all sessions up to the time of the revocation.
denyPolicyUptoNow(c) == clock

\* DateLessThanEquals on aws:TokenIssueTime
denyPolicyUpto(c) == call[c].issuedAt

\* A policy of that name on the role is replaced; NoSuchEntity counts as success.
PutRolePolicy(c) ==
  LET r == call[c].req
      role == RoleByName(RoleOf[r])
      others == {d \in denials : d.role # role \/ d.name # PolicyName(r)}
      denial == [name |-> PolicyName(r), role |-> role, upto |-> denyPolicyUpto(c)]
  IN /\ call[c].at = "put"
     /\ \/ /\ role \in roles
           /\ denials' = others \cup {denial}
           /\ Return(c, "ok") \/ Return(c, "failed")
        \/ role \notin roles /\ Return(c, "ok") /\ UNCHANGED denials
        \/ Return(c, "failed") /\ UNCHANGED denials
     /\ UNCHANGED <<clock, roles, sessions>>

Tick ==
  /\ clock < MaxTime
  /\ clock' = clock + 1
  /\ UNCHANGED <<roles, sessions, denials, call>>

\* An administrator deletes a role.
DeleteRole(role) ==
  /\ role \in roles
  /\ roles' = roles \ {role}
  /\ UNCHANGED <<clock, sessions, denials, call>>

Init ==
  /\ clock = 0
  /\ roles = FirstRoles
  /\ sessions = {}
  /\ denials = {}
  /\ call = [c \in Calls |-> NotCalled(c)]

Next ==
  \/ \E c \in Calls : Grant(c) \/ AssumeRole(c) \/ Revoke(c) \/ PutRolePolicy(c)
  \/ Tick
  \/ \E role \in Roles : DeleteRole(role)

Spec == Init /\ [][Next]_vars

-----------------------------------------------------------------------------
(* Properties *)

\* Every variable keeps its type.
TypeOK ==
  /\ clock \in Nat
  /\ roles \subseteq Roles
  /\ sessions \subseteq Sessions
  /\ denials \subseteq Denials
  /\ call \in [Calls -> Call]

RevokedBy(c, s) == call[c].op = "revoke" /\ call[c].at = "ok" /\ call[c].by = s.by

\* A revocation that returned no error ends its session for good, whatever is granted
\* and revoked under roles of that name later, if its role is of jitsudod's own account
\* and STS issued it in the second in which Grant read the clock.
RevokedInTime ==
  \A s \in sessions, c \in Calls :
    /\ RevokedBy(c, s) /\ s.issued = call[c].issuedAt
    /\ RoleOf[s.req].account = HomeAccount
    => ~Usable(s)

\* A revocation takes nothing from sessions issued in a later second than the one it
\* revokes, and nothing from those of other roles, but for the one of jitsudod's own
\* account that has the name of its role.
NewerUnaffected ==
  [][\A s \in sessions :
       ~Denied(s) /\ Denied(s)' =>
         \E c \in Calls :
           /\ call[c].at = "put" /\ RoleOf[s.req] = RoleByName(RoleOf[call[c].req])
           /\ \E t \in sessions : t.by = call[c].by /\ s.issued <= t.issued]_vars

\* Once denied, a session stays denied: no later revocation replaces its denial.
DenialIsFinal == [][\A s \in sessions : Denied(s) => Denied(s)']_vars

\* Stated by aws.go 179-180: the deny policy prevents "all API calls from the session
\* (and older ones)".
RevokedIsDenied ==
  \A s \in sessions, c \in Calls : RevokedBy(c, s) => ~Usable(s)

\* Stated by aws.go 177-180: "Revoke invalidates the STS session by attaching an inline
\* deny policy to the role", of whatever account the scope names (aws.go 43-45).
RevokedInAnyAccount ==
  \A s \in sessions, c \in Calls :
    RevokedBy(c, s) /\ s.issued = call[c].issuedAt => ~Usable(s)
=============================================================================
