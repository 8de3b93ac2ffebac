-------------------------- MODULE AwsSessionProofs --------------------------
(***************************************************************************)
(* Proofs about AwsSession, for any requests, roles, calls and times.      *)
(*                                                                         *)
(* A request is granted once, so the denials under its name are all up to  *)
(* the same time: putting one again changes nothing, and none is lost. All *)
(* are on roles of jitsudod's own account, whatever account the request's  *)
(* role is of.                                                             *)
(***************************************************************************)
EXTENDS AwsSession, TLAPS

IsGrant(c) == call[c].op = "grant"

\* The calls: one Grant for a request, and each Revoke has the token of one.
TokensOK ==
  /\ \A b, c \in Calls : IsGrant(b) /\ IsGrant(c) /\ call[b].req = call[c].req => b = c
  /\ \A c \in Calls : call[c].at = "idle" <=> call[c].op = "none"
  /\ \A c \in Calls : call[c].at = "assume" => IsGrant(c)
  /\ \A c \in Calls : call[c].at = "put" => call[c].op = "revoke"
  /\ \A c \in Calls : call[c].op = "revoke" =>
       LET g == call[c].by
       IN /\ IsGrant(g) /\ call[g].at = "ok"
          /\ call[g].req = call[c].req /\ call[g].issuedAt = call[c].issuedAt

\* A session is of a Grant that is over, which read the clock no later.
SessionsOK ==
  /\ \A s \in sessions :
       /\ IsGrant(s.by) /\ call[s.by].at # "assume"
       /\ call[s.by].req = s.req /\ call[s.by].issuedAt <= s.issued
  /\ \A c \in Calls : IsGrant(c) => call[c].issuedAt <= clock
  /\ \A c \in Calls : IsGrant(c) /\ call[c].at = "ok" => \E s \in sessions : s.by = c

\* The role that a revocation of the request asks for.
Target(r) == RoleByName(RoleOf[r])

\* A denial is up to the time in the token of the one grant of its request.
DenialsOK ==
  \A d \in denials : \A g \in Calls :
    IsGrant(g) /\ call[g].req = d.name => d.role = Target(d.name) /\ d.upto = call[g].issuedAt

\* A revocation that returned has left its denial, unless there is no role any more.
RevokedOK ==
  \A c \in Calls : call[c].op = "revoke" /\ call[c].at = "ok" =>
    \/ Target(call[c].req) \notin roles
    \/ \E d \in denials : d.role = Target(call[c].req) /\ d.upto = call[c].issuedAt

\* Only a request that has been granted has a denial.
NamesOK == \A d \in denials : \E g \in Calls : IsGrant(g) /\ call[g].req = d.name

AwsInv == TypeOK /\ TokensOK /\ SessionsOK /\ DenialsOK /\ NamesOK /\ RevokedOK

-----------------------------------------------------------------------------
(* Steps *)

LEMMA CapDuration ==
  ASSUME NEW d \in Durations
  PROVE  capDuration(d) \in Nat
  BY ConstantsAssumption DEF capDuration, Smaller, Larger

\* A call goes on: its operation and token stay.
Moves(c, result) ==
  /\ call' \in [Calls -> Call]
  /\ \A b \in Calls \ {c} : call'[b] = call[b]
  /\ call'[c].op = call[c].op /\ call'[c].req = call[c].req /\ call'[c].by = call[c].by
  /\ call'[c].issuedAt = call[c].issuedAt /\ call'[c].at = result

LEMMA ReturnMoves ==
  ASSUME TypeOK, NEW c \in Calls, NEW result \in {"ok", "failed"}, Return(c, result)
  PROVE  Moves(c, result)
<1>1. call \in [Calls -> Call] /\ call[c] \in Call
  BY DEF TypeOK
<1>2. call' = [call EXCEPT ![c].at = result]
  BY DEF Return
<1>3. QED
  BY <1>1, <1>2 DEF Moves, Call, Steps

LEMMA InitInv == Init => AwsInv
<1> SUFFICES ASSUME Init PROVE AwsInv
  OBVIOUS
<1>1. (CHOOSE r \in Requests : TRUE) \in Requests
  BY ConstantsAssumption
<1>2. \A c \in Calls : NotCalled(c) \in Call
  BY <1>1 DEF NotCalled, Call, Steps
<1>3. \A c \in Calls : call[c].op = "none" /\ call[c].at = "idle"
  BY DEF Init, NotCalled
<1>4. TypeOK
  BY <1>2, ConstantsAssumption DEF Init, TypeOK
<1>5. TokensOK /\ SessionsOK /\ DenialsOK /\ NamesOK /\ RevokedOK
  BY <1>3 DEF Init, TokensOK, SessionsOK, DenialsOK, NamesOK, RevokedOK, IsGrant
<1>6. QED
  BY <1>4, <1>5 DEF AwsInv

LEMMA GrantInv ==
  ASSUME AwsInv, NEW c \in Calls, Grant(c)
  PROVE  AwsInv'
<1>1. PICK r \in Requests, d \in Durations :
        /\ \A b \in Calls : IsGrant(b) => call[b].req # r
        /\ call' = [call EXCEPT ![c] =
             [op |-> "grant", req |-> r, at |-> "assume", by |-> c,
              duration |-> capDuration(d), issuedAt |-> clock]]
  BY DEF Grant, IsGrant
<1> DEFINE new == [op |-> "grant", req |-> r, at |-> "assume", by |-> c,
                   duration |-> capDuration(d), issuedAt |-> clock]
<1>2. /\ call \in [Calls -> Call] /\ clock \in Nat /\ call[c].op = "none"
      /\ \A s \in sessions : s.by \in Calls
      /\ UNCHANGED <<clock, roles, sessions, denials>>
  BY DEF Grant, AwsInv, TypeOK, TokensOK, Sessions
<1>3. new \in Call
  BY <1>2, CapDuration DEF Call, Steps
<1>4. new.op = "grant" /\ new.req = r /\ new.at = "assume" /\ new.issuedAt = clock
  OBVIOUS
<1>5. call'[c] = new /\ \A b \in Calls \ {c} : call'[b] = call[b]
  BY <1>1, <1>2
<1>6. call' \in [Calls -> Call]
  BY <1>1, <1>2, <1>3
<1> HIDE DEF new
<1>7. TypeOK'
  BY <1>2, <1>6 DEF AwsInv, TypeOK
<1>8. TokensOK'
  <2>1. \A b \in Calls : call'[b].op = "revoke" => b # c /\ call[b].by # c
    BY <1>2, <1>4, <1>5 DEF AwsInv, TokensOK, IsGrant
  <2>2. \A b \in Calls : call[b].by \in Calls
    BY <1>2 DEF Call
  <2>3. QED
    BY <1>1, <1>2, <1>4, <1>5, <2>1, <2>2 DEF AwsInv, TokensOK, IsGrant
<1>9. SessionsOK'
  BY <1>2, <1>4, <1>5 DEF AwsInv, SessionsOK, IsGrant
<1>10. NamesOK'
  BY <1>2, <1>4, <1>5 DEF AwsInv, NamesOK, IsGrant
<1>11. DenialsOK'
  <2>1. \A e \in denials : e.name # r
    BY <1>1 DEF AwsInv, NamesOK
  <2>2. QED
    BY <1>2, <1>4, <1>5, <2>1 DEF AwsInv, DenialsOK, IsGrant
<1>12. RevokedOK'
  BY <1>2, <1>4, <1>5 DEF AwsInv, RevokedOK
<1>13. QED
  BY <1>7, <1>8, <1>9, <1>10, <1>11, <1>12 DEF AwsInv

LEMMA RevokeInv ==
  ASSUME AwsInv, NEW c \in Calls, Revoke(c)
  PROVE  AwsInv'
<1>1. PICK g \in Calls :
        /\ call[g].op = "grant" /\ call[g].at = "ok"
        /\ call' = [call EXCEPT ![c] =
             [op |-> "revoke", req |-> call[g].req, at |-> "put", by |-> g,
              duration |-> 0, issuedAt |-> call[g].issuedAt]]
  BY DEF Revoke
<1> DEFINE new == [op |-> "revoke", req |-> call[g].req, at |-> "put", by |-> g,
                   duration |-> 0, issuedAt |-> call[g].issuedAt]
<1>2. /\ call \in [Calls -> Call] /\ call[g] \in Call /\ call[c].op = "none" /\ g # c
      /\ \A s \in sessions : s.by \in Calls
      /\ UNCHANGED <<clock, roles, sessions, denials>>
  BY <1>1 DEF Revoke, AwsInv, TypeOK, TokensOK, Sessions
<1>3. new \in Call
  BY <1>2 DEF Call, Steps
<1>4. /\ new.op = "revoke" /\ new.req = call[g].req /\ new.at = "put" /\ new.by = g
      /\ new.issuedAt = call[g].issuedAt
  OBVIOUS
<1>5. call'[c] = new /\ \A b \in Calls \ {c} : call'[b] = call[b]
  BY <1>1, <1>2
<1>6. call' \in [Calls -> Call]
  BY <1>1, <1>2, <1>3
<1> HIDE DEF new
<1>7. TypeOK'
  BY <1>2, <1>6 DEF AwsInv, TypeOK
<1>8. TokensOK'
  <2>1. \A b \in Calls : b # c /\ call[b].op = "revoke" => call[b].by # c
    BY <1>2 DEF AwsInv, TokensOK, IsGrant
  <2>2. \A b \in Calls : call[b].by \in Calls
    BY <1>2 DEF Call
  <2>3. QED
    BY <1>1, <1>2, <1>4, <1>5, <2>1, <2>2 DEF AwsInv, TokensOK, IsGrant
<1>9. SessionsOK'
  BY <1>2, <1>4, <1>5 DEF AwsInv, SessionsOK, IsGrant
<1>10. DenialsOK' /\ NamesOK'
  BY <1>2, <1>4, <1>5 DEF AwsInv, DenialsOK, NamesOK, IsGrant
<1>11. RevokedOK'
  BY <1>2, <1>4, <1>5 DEF AwsInv, RevokedOK
<1>12. QED
  BY <1>7, <1>8, <1>9, <1>10, <1>11 DEF AwsInv

LEMMA AssumeInv ==
  ASSUME AwsInv, NEW c \in Calls, AssumeRole(c)
  PROVE  AwsInv'
<1> DEFINE session == [by |-> c, req |-> call[c].req, issued |-> clock,
                       expires |-> clock + call[c].duration]
<1>1. /\ call \in [Calls -> Call] /\ call[c] \in Call /\ clock \in Nat
      /\ call[c].at = "assume" /\ IsGrant(c)
      /\ \A s \in sessions : s.by \in Calls
      /\ UNCHANGED <<clock, roles, denials>>
  BY DEF AssumeRole, AwsInv, TypeOK, TokensOK, Sessions
<1>2. session \in Sessions
  BY <1>1 DEF Sessions, Call
<1>3. session.by = c /\ session.req = call[c].req /\ session.issued = clock
  OBVIOUS
<1>4. \/ sessions' = sessions \cup {session} /\ (Moves(c, "ok") \/ Moves(c, "failed"))
      \/ sessions' = sessions /\ Moves(c, "failed")
  BY ReturnMoves DEF AssumeRole, AwsInv
<1> HIDE DEF session
<1>5. PICK result \in {"ok", "failed"} :
        /\ Moves(c, result)
        /\ \/ sessions' = sessions \cup {session}
           \/ sessions' = sessions /\ result = "failed"
  BY <1>4
<1>6. /\ \A b \in Calls : /\ call'[b].op = call[b].op /\ call'[b].req = call[b].req
                          /\ call'[b].by = call[b].by /\ call'[b].issuedAt = call[b].issuedAt
                          /\ call'[b].at = IF b = c THEN result ELSE call[b].at
      /\ \A b \in Calls : call[b].by \in Calls
  BY <1>1, <1>5 DEF Moves, Call
<1>7. TypeOK'
  BY <1>1, <1>2, <1>5 DEF AwsInv, TypeOK, Moves
<1>8. TokensOK'
  BY <1>1, <1>6 DEF AwsInv, TokensOK, IsGrant
<1>9. SessionsOK'
  <2>1. \A s \in sessions' : s.by \in Calls
    BY <1>1, <1>3, <1>5
  <2>2. call[c].issuedAt <= clock
    BY <1>1 DEF AwsInv, SessionsOK
  <2>3. ASSUME NEW s \in sessions'
        PROVE  /\ IsGrant(s.by)' /\ call'[s.by].at # "assume"
               /\ call'[s.by].req = s.req /\ call'[s.by].issuedAt <= s.issued
    <3>1. CASE s = session
      BY <1>1, <1>3, <1>6, <2>2, <3>1 DEF IsGrant
    <3>2. CASE s \in sessions
      BY <1>1, <1>6, <3>2 DEF AwsInv, SessionsOK, IsGrant
    <3>3. QED
      BY <1>5, <3>1, <3>2
  <2>4. \A b \in Calls : IsGrant(b)' => call'[b].issuedAt <= clock'
    BY <1>1, <1>6 DEF AwsInv, SessionsOK, IsGrant
  <2>5. \A b \in Calls : IsGrant(b)' /\ call'[b].at = "ok" => \E s \in sessions' : s.by = b
    BY <1>3, <1>5, <1>6 DEF AwsInv, SessionsOK, IsGrant
  <2>6. QED
    BY <2>3, <2>4, <2>5 DEF SessionsOK
<1>10. DenialsOK' /\ NamesOK'
  BY <1>1, <1>6 DEF AwsInv, DenialsOK, NamesOK, IsGrant
<1>11. RevokedOK'
  BY <1>1, <1>6 DEF AwsInv, RevokedOK, IsGrant
<1>12. QED
  BY <1>7, <1>8, <1>9, <1>10, <1>11 DEF AwsInv

DenialOf(c) ==
  [name |-> PolicyName(call[c].req), role |-> Target(call[c].req), upto |-> denyPolicyUpto(c)]

\* Putting the denial of a request again replaces it by itself.
LEMMA PutAdds ==
  ASSUME AwsInv, NEW c \in Calls, PutRolePolicy(c)
  PROVE  /\ call[c].op = "revoke" /\ call[c].at = "put"
         /\ DenialOf(c).name = call[c].req /\ DenialOf(c).role = Target(call[c].req)
         /\ DenialOf(c).upto = call[c].issuedAt /\ DenialOf(c) \in Denials
         /\ UNCHANGED <<clock, roles, sessions>>
         /\ \/ /\ denials' = denials \cup {DenialOf(c)}
               /\ Moves(c, "ok") \/ Moves(c, "failed")
            \/ Target(call[c].req) \notin roles /\ Moves(c, "ok") /\ UNCHANGED denials
            \/ Moves(c, "failed") /\ UNCHANGED denials
<1>1. call[c] \in Call /\ call[c].at = "put" /\ call[c].op = "revoke"
  BY DEF AwsInv, TypeOK, TokensOK, PutRolePolicy
<1>2. /\ DenialOf(c).name = call[c].req /\ DenialOf(c).role = Target(call[c].req)
      /\ DenialOf(c).upto = call[c].issuedAt
  BY DEF DenialOf, PolicyName, denyPolicyUpto
<1>3. DenialOf(c) \in Denials
  <2>1. Target(call[c].req) \in Roles
    BY <1>1, ConstantsAssumption DEF Target, RoleByName, Roles, Call
  <2>2. QED
    BY <1>1, <2>1 DEF DenialOf, PolicyName, denyPolicyUpto, Denials, Call
<1> DEFINE others == {d \in denials : d.role # Target(call[c].req) \/ d.name # call[c].req}
<1>4. ASSUME NEW d \in denials, d.role = Target(call[c].req), d.name = call[c].req
      PROVE  d = DenialOf(c)
  <2>1. d \in Denials
    BY DEF AwsInv, TypeOK
  <2>2. /\ call[c].by \in Calls /\ IsGrant(call[c].by)
        /\ call[call[c].by].req = call[c].req /\ call[call[c].by].issuedAt = call[c].issuedAt
    BY <1>1 DEF AwsInv, TokensOK, Call
  <2>3. d.upto = call[c].issuedAt
    BY <1>4, <2>2 DEF AwsInv, DenialsOK
  <2>4. QED
    BY <1>2, <1>3, <1>4, <2>1, <2>3 DEF Denials
<1>5. others \cup {DenialOf(c)} = denials \cup {DenialOf(c)}
  BY <1>4
<1>6. /\ UNCHANGED <<clock, roles, sessions>>
      /\ \/ /\ denials' = others \cup {DenialOf(c)}
            /\ Return(c, "ok") \/ Return(c, "failed")
         \/ Target(call[c].req) \notin roles /\ Return(c, "ok") /\ UNCHANGED denials
         \/ Return(c, "failed") /\ UNCHANGED denials
  BY DEF PutRolePolicy, DenialOf, PolicyName, Target
<1>7. QED
  BY <1>1, <1>2, <1>3, <1>5, <1>6, ReturnMoves DEF AwsInv

LEMMA PutInv ==
  ASSUME AwsInv, NEW c \in Calls, PutRolePolicy(c)
  PROVE  AwsInv'
<1>1. PICK result \in {"ok", "failed"} :
        /\ Moves(c, result)
        /\ \/ denials' = denials \cup {DenialOf(c)}
           \/ /\ denials' = denials
              /\ result = "ok" => Target(call[c].req) \notin roles
  BY PutAdds
<1>2. /\ call[c].op = "revoke" /\ DenialOf(c) \in Denials
      /\ DenialOf(c).name = call[c].req /\ DenialOf(c).role = Target(call[c].req)
      /\ DenialOf(c).upto = call[c].issuedAt
      /\ UNCHANGED <<clock, roles, sessions>>
  BY PutAdds
<1>3. /\ \A b \in Calls : /\ call'[b].op = call[b].op /\ call'[b].req = call[b].req
                          /\ call'[b].by = call[b].by /\ call'[b].issuedAt = call[b].issuedAt
                          /\ call'[b].at = IF b = c THEN result ELSE call[b].at
      /\ \A b \in Calls : call[b].by \in Calls
      /\ \A s \in sessions : s.by \in Calls
  BY <1>1 DEF Moves, AwsInv, TypeOK, Call, Sessions
<1>4. call[c].by \in Calls /\ IsGrant(call[c].by) /\ call[call[c].by].req = call[c].req
      /\ call[call[c].by].issuedAt = call[c].issuedAt
  BY <1>2, <1>3 DEF AwsInv, TokensOK
<1>5. TypeOK'
  BY <1>1, <1>2 DEF AwsInv, TypeOK, Moves
<1>6. TokensOK'
  BY <1>2, <1>3 DEF AwsInv, TokensOK, IsGrant
<1>7. SessionsOK'
  BY <1>2, <1>3 DEF AwsInv, SessionsOK, IsGrant
<1>8. NamesOK'
  BY <1>1, <1>2, <1>3, <1>4 DEF AwsInv, NamesOK, IsGrant
<1>9. DenialsOK'
  <2>1. ASSUME NEW g \in Calls, IsGrant(g), call[g].req = call[c].req
        PROVE  call[g].issuedAt = call[c].issuedAt
    BY <1>4, <2>1 DEF AwsInv, TokensOK
  <2>2. QED
    BY <1>1, <1>2, <1>3, <2>1 DEF AwsInv, DenialsOK, IsGrant
<1>10. RevokedOK'
  BY <1>1, <1>2, <1>3 DEF AwsInv, RevokedOK
<1>11. QED
  BY <1>5, <1>6, <1>7, <1>8, <1>9, <1>10 DEF AwsInv

LEMMA TickInv ==
  ASSUME AwsInv, Tick
  PROVE  AwsInv'
<1>1. clock \in Nat /\ clock' = clock + 1 /\ UNCHANGED <<roles, sessions, denials, call>>
  BY DEF AwsInv, TypeOK, Tick
<1>2. \A c \in Calls : call[c].issuedAt \in Nat
  BY DEF AwsInv, TypeOK, Call
<1>3. SessionsOK'
  BY <1>1, <1>2 DEF AwsInv, SessionsOK, IsGrant
<1>4. QED
  BY <1>1, <1>3 DEF AwsInv, TypeOK, TokensOK, DenialsOK, NamesOK, RevokedOK, IsGrant

LEMMA DeleteInv ==
  ASSUME AwsInv, NEW role \in Roles, DeleteRole(role)
  PROVE  AwsInv'
BY DEF DeleteRole, AwsInv, TypeOK, TokensOK, SessionsOK, DenialsOK, NamesOK, RevokedOK, IsGrant

LEMMA StutterInv ==
  ASSUME AwsInv, UNCHANGED vars
  PROVE  AwsInv'
BY DEF vars, AwsInv, TypeOK, TokensOK, SessionsOK, DenialsOK, NamesOK, RevokedOK, IsGrant

LEMMA NextInv == AwsInv /\ [Next]_vars => AwsInv'
BY GrantInv, AssumeInv, RevokeInv, PutInv, TickInv, DeleteInv, StutterInv DEF Next

LEMMA InvAlways == Spec => []AwsInv
BY InitInv, NextInv, PTL DEF Spec

-----------------------------------------------------------------------------
(* Theorems *)

\* The types of the clock, the sessions, the denials and the calls.
THEOREM TypesAlways == Spec => []TypeOK
BY InvAlways, PTL DEF AwsInv

\* A revocation ends its session if its role is of jitsudod's own account and it was
\* issued in the second in which Grant read the clock.
THEOREM AlwaysRevokedInTime == Spec => []RevokedInTime
<1>1. AwsInv => RevokedInTime
  <2> SUFFICES ASSUME AwsInv, NEW s \in sessions, NEW c \in Calls,
                      RevokedBy(c, s), s.issued = call[c].issuedAt,
                      RoleOf[s.req].account = HomeAccount
               PROVE  ~Usable(s)
    BY DEF RevokedInTime
  <2>1. call[c].op = "revoke" /\ call[c].at = "ok" /\ call[c].by = s.by
    BY DEF RevokedBy
  <2>2. s.req = call[c].req
    BY <2>1 DEF AwsInv, TokensOK, SessionsOK
  <2>3. s.issued \in Nat /\ s.req \in Requests
    BY DEF AwsInv, TypeOK, Sessions
  <2>4. Target(s.req) = RoleOf[s.req]
    BY <2>3, ConstantsAssumption DEF Target, RoleByName, Roles
  <2>5. CASE Target(call[c].req) \notin roles
    BY <2>2, <2>4, <2>5 DEF Usable
  <2>6. CASE \E d \in denials : d.role = Target(call[c].req) /\ d.upto = call[c].issuedAt
    BY <2>2, <2>3, <2>4, <2>6 DEF Usable, Denied, Denies
  <2>7. QED
    BY <2>1, <2>5, <2>6 DEF AwsInv, RevokedOK
<1>2. QED
  BY <1>1, InvAlways, PTL

\* No later revocation replaces the denial of a session.
THEOREM DenialAlwaysFinal == Spec => DenialIsFinal
<1>1. AwsInv /\ [Next]_vars => denials \subseteq denials'
  BY PutAdds DEF Next, vars, Grant, AssumeRole, Revoke, Tick, DeleteRole
<1>2. denials \subseteq denials' => \A s \in sessions : Denied(s) => Denied(s)'
  BY DEF Denied, Denies
<1>3. QED
  BY <1>1, <1>2, InvAlways, PTL DEF Spec, DenialIsFinal

\* A revocation denies sessions of one role only, that of jitsudod's own account with the
\* name of its role, issued no later than its own.
THEOREM NewerAlwaysUnaffected == Spec => NewerUnaffected
<1> DEFINE Newer ==
      \A s \in sessions :
        ~Denied(s) /\ Denied(s)' =>
          \E c \in Calls :
            /\ call[c].at = "put" /\ RoleOf[s.req] = RoleByName(RoleOf[call[c].req])
            /\ \E t \in sessions : t.by = call[c].by /\ s.issued <= t.issued
<1>1. ASSUME AwsInv, NEW c \in Calls, PutRolePolicy(c)
      PROVE  Newer
  <2> SUFFICES ASSUME NEW s \in sessions, ~Denied(s), Denied(s)'
               PROVE  /\ call[c].at = "put" /\ RoleOf[s.req] = RoleByName(RoleOf[call[c].req])
                      /\ \E t \in sessions : t.by = call[c].by /\ s.issued <= t.issued
    OBVIOUS
  <2>1. PICK d \in denials' : Denies(d, s)
    BY DEF Denied, Denies
  <2>2. d = DenialOf(c)
    BY <1>1, <2>1, PutAdds DEF Denied
  <2>3. /\ call[c].op = "revoke" /\ call[c].at = "put"
        /\ RoleOf[s.req] = RoleByName(RoleOf[call[c].req]) /\ s.issued <= call[c].issuedAt
    BY <1>1, <2>1, <2>2, PutAdds DEF Denies, Target
  <2>4. /\ call[c].by \in Calls /\ IsGrant(call[c].by) /\ call[call[c].by].at = "ok"
        /\ call[call[c].by].issuedAt = call[c].issuedAt
    BY <1>1, <2>3 DEF AwsInv, TokensOK, TypeOK, Call
  <2>5. PICK t \in sessions : t.by = call[c].by
    BY <1>1, <2>4 DEF AwsInv, SessionsOK
  <2>6. call[c].issuedAt <= t.issued
    BY <1>1, <2>4, <2>5 DEF AwsInv, SessionsOK
  <2>7. s.issued \in Nat /\ t.issued \in Nat /\ call[c].issuedAt \in Nat
    BY <1>1 DEF AwsInv, TypeOK, Sessions, Call
  <2>8. QED
    BY <2>3, <2>5, <2>6, <2>7
<1>2. ASSUME [Next]_vars, \A c \in Calls : ~PutRolePolicy(c)
      PROVE  denials' = denials
  BY <1>2 DEF Next, vars, Grant, AssumeRole, Revoke, Tick, DeleteRole
<1>3. denials' = denials => Newer
  BY DEF Denied, Denies
<1>4. AwsInv /\ [Next]_vars => Newer
  BY <1>1, <1>2, <1>3
<1>5. QED
  BY <1>4, InvAlways, PTL DEF Spec, NewerUnaffected
=============================================================================
