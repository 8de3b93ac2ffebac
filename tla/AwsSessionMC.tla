---------------------------- MODULE AwsSessionMC ----------------------------
(* Instances of AwsSession for TLC. *)
EXTENDS AwsSession, TLC

CONSTANTS r1, r2, r3, own, other, reader

Role(account) == [account |-> account, name |-> reader]

\* A role of one name in every account.
SameNames == {Role(account) : account \in Accounts}

\* Two requests share a role; the third is for its namesake.
SharedRole == r1 :> Role(own) @@ r2 :> Role(own) @@ r3 :> Role(other)

\* One request in either account.
RoleEach == r1 :> Role(own) @@ r2 :> Role(other)

OwnRoles == r1 :> Role(own) @@ r2 :> Role(own)

Symmetry == Permutations(Calls)
=============================================================================
