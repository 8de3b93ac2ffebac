-------------------------- MODULE GcpBindingProofs --------------------------
(***************************************************************************)
(* Proofs about GcpBinding, for any number of requests, calls, tries and   *)
(* edits of others.                                                        *)
(*                                                                         *)
(* The argument is that of every optimistic edit: while the ETag that a    *)
(* call has read is the policy's, what it has read is the policy, so its   *)
(* write changes what it means to change and nothing else.                 *)
(***************************************************************************)
EXTENDS GcpBinding, TLAPS

\* What a call that is about to write knows of the policy it has read.
SeenOK ==
  \A c \in Calls : call[c].at = "set" =>
    /\ call[c].seen.etag <= policy.etag
    /\ call[c].seen.etag = policy.etag => call[c].seen = policy
    /\ ~Done(c, call[c].seen)

\* Each conflict is one more write of somebody else.
TriesOK ==
  \A c \in Calls :
    /\ call[c].at = "get" => policy.etag >= begun[c] + call[c].attempt
    /\ call[c].at = "set" => call[c].seen.etag >= begun[c] + call[c].attempt
    /\ call[c].at = "exhausted" => policy.etag >= begun[c] + MaxRetries

\* A call has an operation once it is made; bindings and expiry times are of Grants.
OriginOK ==
  /\ \A c \in Calls : call[c].at = "idle" <=> call[c].op = "none"
  /\ \A c \in expired : call[c].op = "grant"
  /\ \A b \in policy.bindings : call[b.by].op = "grant" /\ call[b.by].req = b.req

GcpInv == TypeOK /\ SeenOK /\ TriesOK /\ OriginOK /\ NoEditLost /\ BoundOnce

-----------------------------------------------------------------------------
(* What a step does to the call that takes it *)

LEMMA Constants ==
  /\ NotCalled \in Call /\ EmptyPolicy \in Policies
  /\ NotCalled.op = "none" /\ NotCalled.at = "idle"
  /\ NotCalled.attempt = 0 /\ NotCalled.seen = EmptyPolicy
<1>1. EmptyPolicy \in Policies
  BY DEF EmptyPolicy, Policies
<1>2. (CHOOSE r \in Requests : TRUE) \in Requests
  BY ConstantsAssumption
<1>3. 0 \in 0 .. MaxRetries - 1
  BY ConstantsAssumption
<1>4. QED
  BY <1>1, <1>2, <1>3 DEF NotCalled, Call, Steps

\* The call goes on to a step; the other calls stay where they are.
Moves(c, step, attempt, seen) ==
  /\ call' \in [Calls -> Call]
  /\ \A d \in Calls \ {c} : call'[d] = call[d]
  /\ call'[c].op = call[c].op /\ call'[c].req = call[c].req
  /\ call'[c].at = step /\ call'[c].attempt = attempt /\ call'[c].seen = seen

LEMMA ReturnMoves ==
  ASSUME TypeOK, NEW c \in Calls, NEW result \in {"ok", "failed", "exhausted"},
         Return(c, result)
  PROVE  Moves(c, result, call[c].attempt, EmptyPolicy)
<1>1. call \in [Calls -> Call] /\ call[c] \in Call
  BY DEF TypeOK
<1>2. call' = [call EXCEPT ![c].at = result, ![c].seen = EmptyPolicy]
  BY DEF Return
<1>3. QED
  BY <1>1, <1>2, Constants DEF Moves, Call, Steps

Begins(c) ==
  /\ call[c].at = "idle" /\ call'[c].at = "get" /\ call'[c].attempt = 0
  /\ call'[c].op \in {"grant", "revoke"}
  /\ call' \in [Calls -> Call]
  /\ \A d \in Calls \ {c} : call'[d] = call[d]
  /\ begun' = [begun EXCEPT ![c] = policy.etag]
  /\ UNCHANGED <<policy, edits, expired>>

LEMMA BeginBegins ==
  ASSUME TypeOK, NEW c \in Calls, Grant(c) \/ Revoke(c)
  PROVE  Begins(c)
<1>1. PICK op \in {"grant", "revoke"}, r \in Requests : Begin(c, op, r)
  BY DEF Grant, Revoke, TypeOK, Call
<1>2. call \in [Calls -> Call]
  BY DEF TypeOK
<1> DEFINE new == [NotCalled EXCEPT !.op = op, !.req = r, !.at = "get"]
<1>3. new \in Call /\ new.op = op /\ new.at = "get" /\ new.attempt = 0
  BY Constants DEF Call, Steps
<1>4. call' = [call EXCEPT ![c] = new] /\ call[c].at = "idle"
      /\ begun' = [begun EXCEPT ![c] = policy.etag] /\ UNCHANGED <<policy, edits, expired>>
  BY <1>1 DEF Begin
<1> HIDE DEF new
<1>5. QED
  BY <1>2, <1>3, <1>4 DEF Begins

Written(c) ==
  [bindings |-> NewBindings(c), others |-> call[c].seen.others, etag |-> policy.etag + 1]

\* The steps of a call that has been made.
Continues(c) ==
  /\ UNCHANGED <<edits, begun, expired>>
  /\ \/ /\ call[c].at = "get" /\ Done(c, policy) /\ policy' = policy
        /\ Moves(c, "ok", call[c].attempt, EmptyPolicy)
     \/ /\ call[c].at = "get" /\ ~Done(c, policy) /\ policy' = policy
        /\ Moves(c, "set", call[c].attempt, policy)
     \/ /\ call[c].at \in {"get", "set"} /\ policy' = policy
        /\ Moves(c, "failed", call[c].attempt, EmptyPolicy)
     \/ /\ call[c].at = "set" /\ EtagMatches(c) /\ policy' = Written(c)
        /\ \E result \in {"ok", "failed"} : Moves(c, result, call[c].attempt, EmptyPolicy)
     \/ /\ call[c].at = "set" /\ ~EtagMatches(c) /\ LastTry(c) /\ policy' = policy
        /\ Moves(c, "exhausted", call[c].attempt, EmptyPolicy)
     \/ /\ call[c].at = "set" /\ ~EtagMatches(c) /\ ~LastTry(c) /\ policy' = policy
        /\ Moves(c, "get", call[c].attempt + 1, EmptyPolicy)

LEMMA StepContinues ==
  ASSUME TypeOK, NEW c \in Calls, GetIamPolicy(c) \/ SetIamPolicy(c)
  PROVE  Continues(c)
<1>1. call \in [Calls -> Call] /\ call[c] \in Call /\ policy \in Policies
  BY DEF TypeOK
<1>2. CASE GetIamPolicy(c)
  <2>1. ASSUME call' = [call EXCEPT ![c].at = "set", ![c].seen = policy]
        PROVE  Moves(c, "set", call[c].attempt, policy)
    BY <1>1, <2>1 DEF Moves, Call, Steps
  <2>2. QED
    BY <1>2, <2>1, ReturnMoves DEF GetIamPolicy, Continues
<1>3. CASE SetIamPolicy(c)
  <2>1. ASSUME call' = [call EXCEPT ![c].at = "get", ![c].attempt = @ + 1,
                                    ![c].seen = EmptyPolicy],
               ~LastTry(c)
        PROVE  Moves(c, "get", call[c].attempt + 1, EmptyPolicy)
    <3>1. call[c].attempt + 1 \in 0 .. MaxRetries - 1
      BY <1>1, <2>1, ConstantsAssumption DEF LastTry, Call
    <3>2. QED
      BY <1>1, <2>1, <3>1, Constants DEF Moves, Call, Steps
  <2>2. QED
    BY <1>3, <2>1, ReturnMoves DEF SetIamPolicy, Continues, Written
<1>4. QED
  BY <1>2, <1>3

\* A write applies to the policy as it is.
LEMMA WriteApplies ==
  ASSUME GcpInv, NEW c \in Calls, call[c].at = "set", EtagMatches(c)
  PROVE  /\ call[c].seen = policy /\ ~Done(c, policy)
         /\ call[c].op \in {"grant", "revoke"}
         /\ Written(c) \in Policies
         /\ Written(c).others = policy.others /\ Written(c).etag = policy.etag + 1
         /\ call[c].op = "grant" =>
              /\ Written(c).bindings = policy.bindings \cup {[req |-> call[c].req, by |-> c]}
              /\ \A b \in policy.bindings : b.req # call[c].req
         /\ call[c].op = "revoke" =>
              Written(c).bindings = {b \in policy.bindings : b.req # call[c].req}
<1>1. call[c].seen = policy /\ ~Done(c, policy)
  BY DEF GcpInv, SeenOK, EtagMatches
<1>2. call[c] \in Call /\ policy \in Policies
  BY DEF GcpInv, TypeOK
<1>3. call[c].op \in {"grant", "revoke"}
  BY <1>2 DEF GcpInv, OriginOK, Call
<1>4. [req |-> call[c].req, by |-> c] \in Bindings
  BY <1>2 DEF Bindings, Call
<1>5. /\ Written(c).bindings = NewBindings(c)
      /\ Written(c).others = policy.others /\ Written(c).etag = policy.etag + 1
  BY <1>1 DEF Written
<1>6. NewBindings(c) \in SUBSET Bindings
  BY <1>1, <1>2, <1>4 DEF NewBindings, Without, BindingsOf, Policies
<1>7. Written(c) \in Policies
  BY <1>1, <1>2, <1>6 DEF Written, Policies
<1>8. call[c].op = "grant" =>
        /\ NewBindings(c) = policy.bindings \cup {[req |-> call[c].req, by |-> c]}
        /\ \A b \in policy.bindings : b.req # call[c].req
  BY <1>1 DEF NewBindings, Done, AlreadyBound, BindingsOf
<1>9. call[c].op = "revoke" =>
        NewBindings(c) = {b \in policy.bindings : b.req # call[c].req}
  BY <1>1, <1>3 DEF NewBindings, Without, BindingsOf
<1>10. QED
  BY <1>1, <1>3, <1>5, <1>7, <1>8, <1>9

-----------------------------------------------------------------------------
(* The invariant is kept *)

LEMMA InitInv == Init => GcpInv
<1> SUFFICES ASSUME Init PROVE GcpInv
  OBVIOUS
<1>1. \A c \in Calls : call[c] = NotCalled
  BY DEF Init
<1>2. policy = EmptyPolicy /\ EmptyPolicy.bindings = {} /\ EmptyPolicy.others = 0
  BY DEF Init, EmptyPolicy
<1>3. TypeOK
  BY Constants DEF Init, TypeOK
<1>4. SeenOK /\ TriesOK /\ OriginOK
  BY <1>1, <1>2, Constants DEF Init, SeenOK, TriesOK, OriginOK
<1>5. NoEditLost /\ BoundOnce
  BY <1>2 DEF Init, NoEditLost, BoundOnce
<1>6. QED
  BY <1>3, <1>4, <1>5 DEF GcpInv

LEMMA BeginInv ==
  ASSUME GcpInv, NEW c \in Calls, Begins(c)
  PROVE  GcpInv'
<1>1. policy \in Policies /\ policy.etag \in Nat /\ begun \in [Calls -> Nat]
  BY DEF GcpInv, TypeOK, Policies
<1>2. TypeOK'
  BY <1>1 DEF GcpInv, TypeOK, Begins
<1>3. SeenOK'
  <2>1. ASSUME NEW d \in Calls, call'[d].at = "set"
        PROVE  call'[d] = call[d]
    BY <2>1 DEF Begins
  <2>2. policy' = policy
    BY DEF Begins
  <2>3. QED
    BY <2>1, <2>2 DEF GcpInv, SeenOK, Done
<1>4. TriesOK'
  BY <1>1 DEF GcpInv, TriesOK, Begins
<1>5. OriginOK'
  <2>1. call[c].op = "none"
    BY DEF GcpInv, OriginOK, Begins
  <2>2. expired \subseteq Calls /\ \A b \in policy.bindings : b.by \in Calls
    BY <1>1 DEF Policies, Bindings, GcpInv, TypeOK
  <2>3. \A d \in Calls : call[d].op = "grant" => call'[d] = call[d]
    BY <2>1 DEF Begins
  <2>4. \A d \in Calls : call'[d].at = "idle" <=> call'[d].op = "none"
    BY DEF GcpInv, OriginOK, Begins
  <2>5. QED
    BY <2>2, <2>3, <2>4 DEF GcpInv, OriginOK, Begins
<1>6. NoEditLost' /\ BoundOnce'
  BY DEF GcpInv, NoEditLost, BoundOnce, Begins
<1>7. QED
  BY <1>2, <1>3, <1>4, <1>5, <1>6 DEF GcpInv

\* A call that goes on without writing the policy.
LEMMA ReadInv ==
  ASSUME GcpInv, NEW c \in Calls, NEW step \in Steps \ {"idle"}, NEW attempt, NEW seen,
         Moves(c, step, attempt, seen), call[c].at # "idle",
         UNCHANGED <<policy, edits, begun, expired>>,
         step = "set" => seen = policy /\ ~Done(c, policy),
         step = "get" => policy.etag >= begun[c] + attempt,
         step = "set" => policy.etag >= begun[c] + attempt,
         step = "exhausted" => policy.etag >= begun[c] + MaxRetries
  PROVE  GcpInv'
<1>1. policy \in Policies /\ policy.etag \in Nat
  BY DEF GcpInv, TypeOK, Policies
<1>2. TypeOK'
  BY DEF GcpInv, TypeOK, Moves
<1>3. SeenOK'
  <2>1. ASSUME step = "set"
        PROVE  call'[c].seen = policy /\ ~Done(c, policy)'
    BY <2>1 DEF Done, Moves
  <2>2. ASSUME NEW d \in Calls, d # c
        PROVE  call'[d] = call[d]
    BY <2>2 DEF Moves
  <2>3. ASSUME NEW d \in Calls, d # c, call[d].at = "set"
        PROVE  ~Done(d, call[d].seen)'
    BY <2>2, <2>3 DEF GcpInv, SeenOK, Done
  <2>4. call'[c].at = step
    BY DEF Moves
  <2>5. ASSUME NEW d \in Calls, call'[d].at = "set"
        PROVE  /\ call'[d].seen.etag <= policy'.etag
               /\ call'[d].seen.etag = policy'.etag => call'[d].seen = policy'
               /\ ~Done(d, call[d].seen)'
    <3>1. CASE d = c
      <4>1. call'[c].seen = policy /\ policy' = policy
        BY <2>1, <2>4, <2>5, <3>1
      <4>2. ~Done(c, call[c].seen)'
        BY <2>1, <2>4, <2>5, <3>1, <4>1 DEF Done
      <4>3. QED
        BY <1>1, <3>1, <4>1, <4>2
    <3>2. CASE d # c
      BY <2>2, <2>3, <2>5, <3>2 DEF GcpInv, SeenOK, Done
    <3>3. QED
      BY <3>1, <3>2
  <2>6. QED
    BY <2>5 DEF SeenOK, Done
<1>4. TriesOK'
  BY DEF GcpInv, TriesOK, Moves
<1>5. OriginOK'
  <2>1. \A b \in policy.bindings : b.by \in Calls
    BY <1>1 DEF Policies, Bindings
  <2>2. QED
    BY <2>1 DEF GcpInv, OriginOK, Moves, TypeOK
<1>6. NoEditLost' /\ BoundOnce'
  BY DEF GcpInv, NoEditLost, BoundOnce
<1>7. QED
  BY <1>2, <1>3, <1>4, <1>5, <1>6 DEF GcpInv

LEMMA WriteInv ==
  ASSUME GcpInv, NEW c \in Calls, call[c].at = "set", EtagMatches(c),
         NEW result \in {"ok", "failed"},
         Moves(c, result, call[c].attempt, EmptyPolicy),
         policy' = Written(c), UNCHANGED <<edits, begun, expired>>
  PROVE  GcpInv'
<1>1. /\ policy \in Policies /\ policy.etag \in Nat
      /\ \A b \in policy.bindings : b.by \in Calls
      /\ \A d \in Calls : call[d].seen.etag \in Nat /\ begun[d] + call[d].attempt \in Nat
      /\ \A d \in Calls : begun[d] + MaxRetries \in Nat
  BY ConstantsAssumption DEF GcpInv, TypeOK, Policies, Bindings, Call
<1>2. TypeOK'
  BY WriteApplies DEF GcpInv, TypeOK, Moves
<1>3. policy'.etag = policy.etag + 1 /\ policy'.others = policy.others
  BY WriteApplies
<1>4. \A d \in Calls : d # c => call'[d] = call[d]
  BY DEF Moves
<1>5. call'[c].at = result
  BY DEF Moves
<1>6. SeenOK'
  BY <1>1, <1>3, <1>4, <1>5 DEF GcpInv, SeenOK, Done
<1>7. TriesOK'
  BY <1>1, <1>3, <1>4, <1>5 DEF GcpInv, TriesOK
<1>8. OriginOK'
  <2>1. \A b \in policy'.bindings :
          \/ b \in policy.bindings
          \/ call[c].op = "grant" /\ b = [req |-> call[c].req, by |-> c]
    BY WriteApplies
  <2>2. \A d \in Calls : call'[d].op = call[d].op /\ call'[d].req = call[d].req
    BY DEF Moves
  <2>3. \A b \in policy'.bindings : call'[b.by].op = "grant" /\ call'[b.by].req = b.req
    BY <1>1, <2>1, <2>2 DEF GcpInv, OriginOK
  <2>4. \A d \in Calls : call'[d].at = "idle" <=> call'[d].op = "none"
    BY <1>4, <1>5, <2>2 DEF GcpInv, OriginOK
  <2>5. \A d \in expired' : call'[d].op = "grant"
    BY <2>2 DEF GcpInv, OriginOK, TypeOK
  <2>6. QED
    BY <2>3, <2>4, <2>5 DEF OriginOK
<1>9. NoEditLost'
  BY <1>3 DEF GcpInv, NoEditLost
<1>10. BoundOnce'
  BY WriteApplies DEF GcpInv, BoundOnce
<1>11. QED
  BY <1>2, <1>6, <1>7, <1>8, <1>9, <1>10 DEF GcpInv

LEMMA ContinueInv ==
  ASSUME GcpInv, NEW c \in Calls, Continues(c)
  PROVE  GcpInv'
<1>1. /\ call[c] \in Call /\ begun[c] \in Nat /\ policy \in Policies
      /\ policy.etag \in Nat /\ call[c].seen.etag \in Nat /\ call[c].attempt \in Nat
  BY DEF GcpInv, TypeOK, Policies, Call
<1>2. call[c].at = "get" => policy.etag >= begun[c] + call[c].attempt
  BY DEF GcpInv, TriesOK
<1>3. ASSUME call[c].at = "set", ~EtagMatches(c)
      PROVE  policy.etag >= begun[c] + (call[c].attempt + 1)
  BY <1>1, <1>3 DEF GcpInv, TriesOK, SeenOK, EtagMatches
<1>4. ASSUME LastTry(c)
      PROVE  call[c].attempt + 1 = MaxRetries
  BY <1>4, ConstantsAssumption DEF LastTry
<1>5. CASE /\ call[c].at = "set" /\ EtagMatches(c) /\ policy' = Written(c)
           /\ \E result \in {"ok", "failed"} :
                Moves(c, result, call[c].attempt, EmptyPolicy)
  BY <1>5, WriteInv DEF Continues
<1>6. CASE call[c].at = "get" /\ policy' = policy /\ Moves(c, "ok", call[c].attempt, EmptyPolicy)
  BY <1>6, ReadInv DEF Continues, Steps
<1>7. CASE /\ call[c].at = "get" /\ ~Done(c, policy) /\ policy' = policy
           /\ Moves(c, "set", call[c].attempt, policy)
  BY <1>2, <1>7, ReadInv DEF Continues, Steps
<1>8. CASE /\ call[c].at \in {"get", "set"} /\ policy' = policy
           /\ Moves(c, "failed", call[c].attempt, EmptyPolicy)
  BY <1>8, ReadInv DEF Continues, Steps
<1>9. CASE /\ call[c].at = "set" /\ ~EtagMatches(c) /\ LastTry(c) /\ policy' = policy
           /\ Moves(c, "exhausted", call[c].attempt, EmptyPolicy)
  BY <1>3, <1>4, <1>9, ReadInv DEF Continues, Steps
<1>10. CASE /\ call[c].at = "set" /\ ~EtagMatches(c) /\ ~LastTry(c) /\ policy' = policy
            /\ Moves(c, "get", call[c].attempt + 1, EmptyPolicy)
  BY <1>3, <1>10, ReadInv DEF Continues, Steps
<1>11. QED
  BY <1>5, <1>6, <1>7, <1>8, <1>9, <1>10 DEF Continues

LEMMA OutsideInv ==
  ASSUME GcpInv, OutsideEdit
  PROVE  GcpInv'
<1>1. /\ policy \in Policies /\ policy.etag \in Nat /\ policy.others \in Nat /\ edits \in Nat
      /\ \A c \in Calls : call[c].seen.etag \in Nat /\ begun[c] + call[c].attempt \in Nat
      /\ \A c \in Calls : begun[c] + MaxRetries \in Nat
  BY ConstantsAssumption DEF GcpInv, TypeOK, Policies, Call
<1>2. PICK kept \in SUBSET policy.bindings :
        policy' = [bindings |-> kept, others |-> policy.others + 1, etag |-> policy.etag + 1]
  BY DEF OutsideEdit
<1>3. /\ policy'.bindings = kept
      /\ policy'.others = policy.others + 1 /\ policy'.etag = policy.etag + 1
      /\ policy' \in Policies
  BY <1>1, <1>2 DEF Policies
<1>4. edits' = edits + 1 /\ UNCHANGED <<call, begun, expired>>
  BY DEF OutsideEdit
<1>5. TypeOK'
  BY <1>1, <1>3, <1>4 DEF GcpInv, TypeOK
<1>6. SeenOK' /\ TriesOK'
  BY <1>1, <1>3, <1>4 DEF GcpInv, SeenOK, TriesOK, Done
<1>7. OriginOK' /\ NoEditLost' /\ BoundOnce'
  BY <1>1, <1>3, <1>4 DEF GcpInv, OriginOK, NoEditLost, BoundOnce
<1>8. QED
  BY <1>5, <1>6, <1>7 DEF GcpInv

LEMMA ExpireInv ==
  ASSUME GcpInv, NEW c \in Calls, Expire(c)
  PROVE  GcpInv'
BY DEF GcpInv, Expire, TypeOK, SeenOK, TriesOK, OriginOK, NoEditLost, BoundOnce, Done

LEMMA StutterInv ==
  ASSUME GcpInv, UNCHANGED vars
  PROVE  GcpInv'
BY DEF GcpInv, vars, TypeOK, SeenOK, TriesOK, OriginOK, NoEditLost, BoundOnce, Done

LEMMA NextInv == GcpInv /\ [Next]_vars => GcpInv'
<1> SUFFICES ASSUME GcpInv, [Next]_vars PROVE GcpInv'
  OBVIOUS
<1>1. TypeOK
  BY DEF GcpInv
<1>2. QED
  BY <1>1, BeginBegins, StepContinues, BeginInv, ContinueInv, OutsideInv, ExpireInv, StutterInv
     DEF Next

LEMMA InvAlways == Spec => []GcpInv
BY InitInv, NextInv, PTL DEF Spec

-----------------------------------------------------------------------------
(* What a revocation leaves. Its token is of a Grant that has returned, so  *)
(* any Grant of the request that still runs is a second one.               *)

TokenOK ==
  \A c \in Calls : call[c].op = "revoke" =>
    \E d \in Calls : /\ call[d].op = "grant" /\ call[d].at = "ok"
                     /\ call[d].req = call[c].req

\* A call that has begun keeps its operation and request, and one that is over stays so.
LEMMA CallsStay ==
  ASSUME GcpInv, [Next]_vars, NEW d \in Calls, call[d].op # "none"
  PROVE  /\ call'[d].op = call[d].op /\ call'[d].req = call[d].req
         /\ call[d].at = "ok" => call'[d].at = "ok"
<1>1. TypeOK /\ call[d].at # "idle"
  BY DEF GcpInv, OriginOK
<1>2. ASSUME NEW c \in Calls, Begins(c)
      PROVE  call'[d] = call[d]
  BY <1>1, <1>2 DEF Begins
<1>3. ASSUME NEW c \in Calls, Continues(c)
      PROVE  /\ call'[d].op = call[d].op /\ call'[d].req = call[d].req
             /\ call[d].at = "ok" => call'[d].at = "ok"
  BY <1>3 DEF Continues, Moves
<1>4. ASSUME OutsideEdit \/ (\E c \in Calls : Expire(c)) \/ UNCHANGED vars
      PROVE  call' = call
  BY <1>4 DEF OutsideEdit, Expire, vars
<1>5. QED
  BY <1>1, <1>2, <1>3, <1>4, BeginBegins, StepContinues DEF Next

LEMMA TokenInv ==
  ASSUME GcpInv, TokenOK, [Next]_vars
  PROVE  TokenOK'
<1>1. TypeOK
  BY DEF GcpInv
<1>2. ASSUME NEW c \in Calls, call'[c].op = "revoke", call[c].op # "none"
      PROVE  call[c].op = "revoke" /\ call'[c].req = call[c].req
  BY <1>2, CallsStay
<1>3. ASSUME NEW c \in Calls, call'[c].op = "revoke", call[c].op = "none"
      PROVE  \E d \in Calls : /\ call[d].op = "grant" /\ call[d].at = "ok"
                              /\ call[d].req = call'[c].req
  <2>1. ASSUME NEW b \in Calls, NEW r \in Requests, NEW op, Begin(b, op, r)
        PROVE  /\ call'[b].op = op /\ call'[b].req = r
               /\ \A d \in Calls \ {b} : call'[d] = call[d]
    BY <1>1, <2>1, Constants DEF Begin, TypeOK, Call
  <2>2. ASSUME NEW b \in Calls, Grant(b)
        PROVE  FALSE
    BY <1>3, <2>1, <2>2 DEF Grant
  <2>3. ASSUME NEW b \in Calls, Revoke(b)
        PROVE  \E d \in Calls : /\ call[d].op = "grant" /\ call[d].at = "ok"
                                /\ call[d].req = call'[c].req
    <3>1. PICK d \in Calls : /\ call[d].op = "grant" /\ call[d].at = "ok"
                             /\ Begin(b, "revoke", call[d].req)
      BY <2>3 DEF Revoke
    <3>2. call[d].req \in Requests
      BY <1>1 DEF TypeOK, Call
    <3>3. b = c
      BY <1>3, <2>1, <3>1, <3>2
    <3>4. QED
      BY <2>1, <3>1, <3>2, <3>3
  <2>4. ASSUME NEW b \in Calls, Continues(b)
        PROVE  FALSE
    BY <1>3, <2>4 DEF Continues, Moves
  <2>5. ASSUME OutsideEdit \/ (\E b \in Calls : Expire(b)) \/ UNCHANGED vars
        PROVE  FALSE
    BY <1>3, <2>5 DEF OutsideEdit, Expire, vars
  <2>6. QED
    BY <1>1, <2>2, <2>3, <2>4, <2>5, StepContinues DEF Next
<1>4. ASSUME NEW d \in Calls, call[d].op = "grant", call[d].at = "ok"
      PROVE  call'[d].op = "grant" /\ call'[d].at = "ok" /\ call'[d].req = call[d].req
  BY <1>4, CallsStay
<1>5. QED
  BY <1>2, <1>3, <1>4 DEF TokenOK

\* Only a Grant of the request that has not returned adds a binding of it.
LEMMA BindingsGrow ==
  ASSUME GcpInv, [Next]_vars, NEW r \in Requests
  PROVE  \/ BindingsOf(policy', r) \subseteq BindingsOf(policy, r)
         \/ \E c \in Calls : call[c].op = "grant" /\ call[c].req = r /\ call[c].at = "set"
<1>1. TypeOK
  BY DEF GcpInv
<1>2. ASSUME policy' = policy
      PROVE  BindingsOf(policy', r) \subseteq BindingsOf(policy, r)
  BY <1>2
<1>3. ASSUME NEW c \in Calls, call[c].at = "set", EtagMatches(c), policy' = Written(c)
      PROVE  \/ BindingsOf(policy', r) \subseteq BindingsOf(policy, r)
             \/ call[c].op = "grant" /\ call[c].req = r
  BY <1>3, WriteApplies DEF BindingsOf
<1>4. ASSUME NEW c \in Calls, Continues(c)
      PROVE  \/ policy' = policy
             \/ call[c].at = "set" /\ EtagMatches(c) /\ policy' = Written(c)
  BY <1>4 DEF Continues
<1>5. ASSUME OutsideEdit
      PROVE  BindingsOf(policy', r) \subseteq BindingsOf(policy, r)
  BY <1>5 DEF OutsideEdit, BindingsOf
<1>6. ASSUME (\E c \in Calls : Expire(c) \/ Begins(c)) \/ UNCHANGED vars
      PROVE  policy' = policy
  BY <1>6 DEF Expire, Begins, vars
<1>7. QED
  BY <1>1, <1>2, <1>3, <1>4, <1>5, <1>6, BeginBegins, StepContinues DEF Next

\* A Revoke returns without an error only from a policy without bindings of its request.
LEMMA RevokeReturns ==
  ASSUME GcpInv, [Next]_vars, NEW c \in Calls,
         call'[c].op = "revoke", call'[c].at = "ok", call[c].at # "ok"
  PROVE  BindingsOf(policy', call'[c].req) = {}
<1>1. TypeOK
  BY DEF GcpInv
<1>2. ASSUME NEW b \in Calls, Continues(b)
      PROVE  BindingsOf(policy', call'[c].req) = {}
  <2>1. b = c /\ call[c].op = "revoke" /\ call'[c].req = call[c].req
    BY <1>2 DEF Continues, Moves
  <2>2. CASE call[c].at = "get"
    BY <1>2, <2>1, <2>2 DEF Continues, Moves, Done
  <2>3. CASE call[c].at = "set"
    <3>1. EtagMatches(c) /\ policy' = Written(c)
      BY <1>2, <2>1, <2>3 DEF Continues, Moves
    <3>2. QED
      BY <2>1, <2>3, <3>1, WriteApplies DEF BindingsOf
  <2>4. QED
    BY <1>2, <2>1, <2>2, <2>3 DEF Continues
<1>3. ASSUME NEW b \in Calls, Begins(b)
      PROVE  FALSE
  BY <1>3 DEF Begins
<1>4. ASSUME OutsideEdit \/ (\E b \in Calls : Expire(b)) \/ UNCHANGED vars
      PROVE  FALSE
  BY <1>4 DEF OutsideEdit, Expire, vars
<1>5. QED
  BY <1>1, <1>2, <1>3, <1>4, BeginBegins, StepContinues DEF Next

LEMMA RevokedInv ==
  ASSUME GcpInv, TokenOK, RevokedLeavesNothing, [Next]_vars
  PROVE  RevokedLeavesNothing'
<1> SUFFICES ASSUME NEW c \in Calls, call'[c].op = "revoke", call'[c].at = "ok",
                    BindingsOf(policy', call'[c].req) # {}
             PROVE  TwiceGranted(call[c].req)'
  BY DEF RevokedLeavesNothing, BindingsOf
<1>1. call[c].at = "ok"
  BY RevokeReturns
<1>2. call[c].op = "revoke" /\ call'[c].req = call[c].req
  BY <1>1, CallsStay DEF GcpInv, OriginOK
<1>3. PICK r \in Requests : r = call[c].req
  BY DEF GcpInv, TypeOK, Call
<1>4. CASE TwiceGranted(r)
  <2>1. PICK b, d \in Calls :
          b # d /\ \A x \in {b, d} : call[x].op = "grant" /\ call[x].req = r
    BY <1>4 DEF TwiceGranted
  <2>2. \A x \in {b, d} : call'[x].op = "grant" /\ call'[x].req = r
    BY <2>1, CallsStay
  <2>3. QED
    BY <1>2, <1>3, <2>1, <2>2 DEF TwiceGranted
<1>5. CASE ~TwiceGranted(r)
  <2>1. BindingsOf(policy, r) = {}
    BY <1>1, <1>2, <1>3, <1>5 DEF RevokedLeavesNothing
  <2>2. PICK b \in Calls : call[b].op = "grant" /\ call[b].req = r /\ call[b].at = "set"
    BY <1>2, <1>3, <2>1, BindingsGrow
  <2>3. PICK d \in Calls : call[d].op = "grant" /\ call[d].req = r /\ call[d].at = "ok"
    BY <1>2, <1>3 DEF TokenOK
  <2>4. QED
    BY <1>5, <2>2, <2>3 DEF TwiceGranted
<1>6. QED
  BY <1>4, <1>5

-----------------------------------------------------------------------------
(* The contract *)

\* What the refinement mapping makes of the state.
Ops == [c \in Calls |-> call[c].op]
Reqs == [c \in Calls |-> call[c].req]
Statuses == [c \in Calls |-> StatusOf(call[c].at)]
Access == {b.req : b \in {d \in policy.bindings : d.by \notin expired}}
Lapsed == {call[c].req : c \in expired}

\* A step of the contract.
CStep == [Contract!Next]_<<Ops, Reqs, Statuses, Access, Lapsed>>

LEMMA Mapped ==
  ASSUME NEW c \in Calls, NEW step \in Steps, NEW attempt, NEW seen,
         GcpInv, Moves(c, step, attempt, seen)
  PROVE  /\ Ops' = Ops /\ Reqs' = Reqs
         /\ Statuses' = [Statuses EXCEPT ![c] = StatusOf(step)]
         /\ UNCHANGED expired => Lapsed' = Lapsed
<1>1. \A d \in Calls : /\ call'[d].op = call[d].op /\ call'[d].req = call[d].req
                      /\ call'[d].at = IF d = c THEN step ELSE call[d].at
  BY DEF Moves
<1>2. Ops' = Ops /\ Reqs' = Reqs
  BY <1>1 DEF Ops, Reqs
<1>3. Statuses' = [Statuses EXCEPT ![c] = StatusOf(step)]
  BY <1>1 DEF Statuses, StatusOf
<1>4. UNCHANGED expired => Lapsed' = Lapsed
  BY <1>1 DEF Lapsed, GcpInv, TypeOK
<1>5. QED
  BY <1>2, <1>3, <1>4

\* A call returns: what it may have done to the access is what the contract allows.
LEMMA Returned ==
  ASSUME NEW c \in Calls, NEW step \in {"ok", "failed", "exhausted"}, NEW attempt, NEW seen,
         GcpInv, Moves(c, step, attempt, seen), call[c].at \in {"get", "set"},
         UNCHANGED expired,
         \/ Access' = IF call[c].op = "grant" THEN Access \cup {call[c].req}
                                              ELSE Access \ {call[c].req}
         \/ /\ Access' = Access
            /\ step = "ok" => call[c].op = "grant" /\ call[c].req \in Lapsed
  PROVE  CStep
<1>1. /\ Ops' = Ops /\ Reqs' = Reqs /\ Lapsed' = Lapsed
      /\ Statuses' = [Statuses EXCEPT ![c] = StatusOf(step)]
  BY Mapped DEF Steps
<1>2. /\ Statuses[c] = "running" /\ Ops[c] = call[c].op /\ Reqs[c] = call[c].req
      /\ StatusOf(step) = IF step = "ok" THEN "ok" ELSE "failed"
  BY DEF Statuses, StatusOf, Ops, Reqs
<1>3. Contract!Return(c, StatusOf(step))
  BY <1>1, <1>2 DEF Contract!Return, Statuses, Ops, Reqs, Lapsed
<1>4. Contract!Effect(c) \/ Access' = Access
  BY <1>2 DEF Contract!Effect, Access, Ops, Reqs
<1>5. ASSUME step = "ok"
      PROVE  Contract!Succeed(c)
  <2>1. \/ Contract!Effect(c)
        \/ Ops[c] = "grant" /\ Reqs[c] \in Lapsed /\ Access' = Access
    BY <1>2, <1>5 DEF Contract!Effect, Access, Ops, Reqs
  <2>2. QED
    BY <1>2, <1>3, <1>5, <2>1 DEF Contract!Succeed, Access, Ops, Reqs, Lapsed
<1>6. ASSUME step # "ok"
      PROVE  Contract!Fail(c)
  BY <1>2, <1>3, <1>4, <1>6 DEF Contract!Fail, Access
<1>7. QED
  BY <1>5, <1>6 DEF CStep, Contract!Next

\* What the access of a request tells of its bindings.
LEMMA AccessBound ==
  ASSUME GcpInv, NEW r \in Requests
  PROVE  /\ BindingsOf(policy, r) = {} => r \notin Access
         /\ BindingsOf(policy, r) # {} => r \in Access \/ r \in Lapsed
<1>1. \A b \in policy.bindings : b.by \in expired => b.req \in Lapsed
  BY DEF GcpInv, OriginOK, Lapsed
<1>2. QED
  BY <1>1 DEF Access, BindingsOf

LEMMA WriteAccess ==
  ASSUME GcpInv, NEW c \in Calls, call[c].at = "set", EtagMatches(c),
         policy' = Written(c), UNCHANGED expired
  PROVE  \/ Access' = IF call[c].op = "grant" THEN Access \cup {call[c].req}
                                              ELSE Access \ {call[c].req}
         \/ Access' = Access /\ call[c].op = "grant" /\ call[c].req \in Lapsed
<1>1. CASE call[c].op = "grant"
  <2> DEFINE new == [req |-> call[c].req, by |-> c]
  <2>1. policy'.bindings = policy.bindings \cup {new}
    BY <1>1, WriteApplies
  <2>2. new.by = c /\ new.req = call[c].req
    OBVIOUS
  <2> HIDE DEF new
  <2>3. CASE c \in expired
    <3>1. Access' = Access
      BY <2>1, <2>2, <2>3 DEF Access
    <3>2. call[c].req \in Lapsed
      BY <2>3 DEF Lapsed
    <3>3. QED
      BY <1>1, <3>1, <3>2
  <2>4. CASE c \notin expired
    <3>1. Access' = Access \cup {call[c].req}
      BY <2>1, <2>2, <2>4 DEF Access
    <3>2. QED
      BY <1>1, <3>1
  <2>5. QED
    BY <2>3, <2>4
<1>2. CASE call[c].op = "revoke"
  <2>1. policy'.bindings = {b \in policy.bindings : b.req # call[c].req}
    BY <1>2, WriteApplies
  <2>2. Access' = Access \ {call[c].req}
    BY <2>1 DEF Access
  <2>3. QED
    BY <1>2, <2>2
<1>3. QED
  BY <1>1, <1>2, WriteApplies

LEMMA BeginMaps ==
  ASSUME GcpInv, NEW c \in Calls, Begins(c)
  PROVE  CStep
<1>1. call[c].op = "none" /\ c \notin expired /\ call'[c] \in Call
  BY DEF GcpInv, OriginOK, Begins
<1>2. \A d \in Calls : d # c => call'[d] = call[d]
  BY DEF Begins
<1>3. Ops' = [Ops EXCEPT ![c] = call'[c].op]
  BY <1>2 DEF Ops
<1>4. Reqs' = [Reqs EXCEPT ![c] = call'[c].req]
  BY <1>2 DEF Reqs
<1>5. Statuses' = [Statuses EXCEPT ![c] = "running"] /\ Statuses[c] = "idle"
  BY <1>2 DEF Statuses, StatusOf, Begins
<1>6. Access' = Access
  BY DEF Access, Begins
<1>7. Lapsed' = Lapsed
  BY <1>1, <1>2 DEF Lapsed, Begins, GcpInv, TypeOK
<1>8. call'[c].op \in {"grant", "revoke"} /\ call'[c].req \in Requests
  BY <1>1 DEF Begins, Call
<1>9. Contract!Begin(c)
  BY <1>3, <1>4, <1>5, <1>6, <1>7, <1>8
     DEF Contract!Begin, Ops, Reqs, Statuses, Access, Lapsed
<1>10. QED
  BY <1>9 DEF CStep, Contract!Next

LEMMA ContinueMaps ==
  ASSUME GcpInv, NEW c \in Calls, Continues(c)
  PROVE  CStep
<1>1. call[c].req \in Requests /\ UNCHANGED expired
  BY DEF GcpInv, TypeOK, Call, Continues
<1>2. policy' = policy => Access' = Access
  BY <1>1 DEF Access
<1>3. CASE /\ call[c].at = "get" /\ Done(c, policy) /\ policy' = policy
           /\ Moves(c, "ok", call[c].attempt, EmptyPolicy)
  <2>1. CASE call[c].op = "grant"
    <3>1. call[c].req \in Access \/ call[c].req \in Lapsed
      BY <1>1, <1>3, <2>1, AccessBound DEF Done, AlreadyBound
    <3>2. \/ Access' = Access \cup {call[c].req}
          \/ Access' = Access /\ call[c].req \in Lapsed
      BY <1>2, <1>3, <3>1
    <3>3. QED
      BY <1>1, <1>3, <2>1, <3>2, Returned
  <2>2. CASE call[c].op # "grant"
    <3>1. call[c].req \notin Access
      BY <1>1, <1>3, <2>2, AccessBound DEF Done
    <3>2. Access' = Access \ {call[c].req}
      BY <1>2, <1>3, <3>1
    <3>3. QED
      BY <1>1, <1>3, <2>2, <3>2, Returned
  <2>3. QED
    BY <2>1, <2>2
<1>4. ASSUME NEW step \in {"get", "set"}, NEW attempt, NEW seen,
             Moves(c, step, attempt, seen), call[c].at \in {"get", "set"}, policy' = policy
      PROVE  CStep
  <2>1. /\ Ops' = Ops /\ Reqs' = Reqs /\ Lapsed' = Lapsed
        /\ Statuses' = [Statuses EXCEPT ![c] = StatusOf(step)]
    BY <1>1, <1>4, Mapped DEF Steps
  <2>2. Statuses' = Statuses
    BY <1>4, <2>1 DEF Statuses, StatusOf
  <2>3. QED
    BY <1>2, <1>4, <2>1, <2>2 DEF CStep
<1>5. CASE /\ call[c].at \in {"get", "set"} /\ policy' = policy
           /\ Moves(c, "failed", call[c].attempt, EmptyPolicy)
  BY <1>1, <1>2, <1>5, Returned
<1>6. CASE /\ call[c].at = "set" /\ ~EtagMatches(c) /\ LastTry(c) /\ policy' = policy
           /\ Moves(c, "exhausted", call[c].attempt, EmptyPolicy)
  BY <1>1, <1>2, <1>6, Returned
<1>7. CASE /\ call[c].at = "set" /\ EtagMatches(c) /\ policy' = Written(c)
           /\ \E result \in {"ok", "failed"} :
                Moves(c, result, call[c].attempt, EmptyPolicy)
  BY <1>1, <1>7, WriteAccess, Returned
<1>8. QED
  BY <1>3, <1>4, <1>5, <1>6, <1>7 DEF Continues

LEMMA OutsideMaps ==
  ASSUME GcpInv, OutsideEdit
  PROVE  CStep
<1>1. PICK kept \in SUBSET policy.bindings : policy'.bindings = kept
  BY DEF OutsideEdit
<1>2. UNCHANGED <<call, expired>>
  BY DEF OutsideEdit
<1>3. Access' \in SUBSET Access
  BY <1>1, <1>2 DEF Access
<1>4. Ops' = Ops /\ Reqs' = Reqs /\ Statuses' = Statuses /\ Lapsed' = Lapsed
  BY <1>2 DEF Ops, Reqs, Statuses, Lapsed
<1>5. Contract!TakenAway
  BY <1>3, <1>4 DEF Contract!TakenAway, Ops, Reqs, Statuses, Access, Lapsed
<1>6. QED
  BY <1>5 DEF CStep, Contract!Next

LEMMA ExpireMaps ==
  ASSUME GcpInv, NEW c \in Calls, Expire(c)
  PROVE  CStep
<1>1. UNCHANGED <<policy, call>> /\ expired' = expired \cup {c} /\ call[c].op = "grant"
  BY DEF Expire
<1>2. PICK r \in Requests : r = call[c].req
  BY DEF GcpInv, TypeOK, Call
<1>3. Lapsed' = Lapsed \cup {r}
  BY <1>1, <1>2 DEF Lapsed
<1>4. \A b \in policy.bindings : b.by = c => b.req = r
  BY <1>2 DEF GcpInv, OriginOK
<1>5. \A b \in policy.bindings : b.by \notin expired =>
        b.by \notin expired' \/ b.req = r
  BY <1>1, <1>4
<1>6. Access' \in {Access, Access \ {r}}
  <2>1. Access' \subseteq Access
    BY <1>1 DEF Access
  <2>2. Access \ {r} \subseteq Access'
    BY <1>1, <1>5 DEF Access
  <2>3. QED
    BY <2>1, <2>2
<1>7. Ops' = Ops /\ Reqs' = Reqs /\ Statuses' = Statuses
  BY <1>1 DEF Ops, Reqs, Statuses
<1>8. Contract!Lapse(r)
  BY <1>3, <1>6, <1>7 DEF Contract!Lapse, Ops, Reqs, Statuses, Access, Lapsed
<1>9. QED
  BY <1>2, <1>8 DEF CStep, Contract!Next

LEMMA NextMaps == GcpInv /\ [Next]_vars => CStep
<1> SUFFICES ASSUME GcpInv, [Next]_vars PROVE CStep
  OBVIOUS
<1>1. CASE UNCHANGED vars
  BY <1>1 DEF vars, CStep, Ops, Reqs, Statuses, Access, Lapsed
<1>2. TypeOK
  BY DEF GcpInv
<1>3. QED
  BY <1>1, <1>2, BeginBegins, StepContinues, BeginMaps, ContinueMaps, OutsideMaps, ExpireMaps
     DEF Next

LEMMA InitMaps == Init => Contract!Init
<1> SUFFICES ASSUME Init PROVE Contract!Init
  OBVIOUS
<1>1. \A c \in Calls : call[c] = NotCalled
  BY DEF Init
<1>2. policy.bindings = {} /\ expired = {}
  BY DEF Init, EmptyPolicy
<1>3. Ops = [c \in Calls |-> "none"] /\ Statuses = [c \in Calls |-> "idle"]
  BY <1>1, Constants DEF Ops, Statuses, StatusOf
<1>4. Reqs \in [Calls -> Requests]
  BY <1>1, Constants DEF Reqs, Call
<1>5. Access = {} /\ Lapsed = {}
  BY <1>2 DEF Access, Lapsed
<1>6. QED
  BY <1>3, <1>4, <1>5 DEF Contract!Init, Ops, Reqs, Statuses, Access, Lapsed

-----------------------------------------------------------------------------
(* Theorems *)

\* The types of the policy and of the calls that edit it.
THEOREM TypesAlways == Spec => []TypeOK
BY InvAlways, PTL DEF GcpInv

\* No write-back of Grant or Revoke undoes an edit that others have made of the policy.
THEOREM NoEditEverLost == Spec => []NoEditLost
BY InvAlways, PTL DEF GcpInv

\* Grants of one request that overlap or are repeated bind it once.
THEOREM AlwaysBoundOnce == Spec => []BoundOnce
BY InvAlways, PTL DEF GcpInv

\* A call that gives up on conflicts was overtaken by MaxRetries writes of others.
THEOREM OnlyGivenUpWhenOvertaken == Spec => []GivenUpWhenOvertaken
<1>1. GcpInv => GivenUpWhenOvertaken
  BY DEF GcpInv, TriesOK, GivenUpWhenOvertaken
<1>2. QED
  BY <1>1, InvAlways, PTL

\* A Revoke without error ends the access for good: nothing that overlaps with it, before
\* or after, binds the request again unless it is granted a second time.
THEOREM RevokedAlwaysLeavesNothing == Spec => []RevokedLeavesNothing
<1>1. Init => TokenOK /\ RevokedLeavesNothing
  <2>1. Init => \A c \in Calls : call[c].op = "none"
    BY Constants DEF Init
  <2>2. QED
    BY <2>1 DEF TokenOK, RevokedLeavesNothing
<1>2. /\ GcpInv /\ TokenOK /\ RevokedLeavesNothing /\ [Next]_vars
      => TokenOK' /\ RevokedLeavesNothing'
  BY TokenInv, RevokedInv
<1>3. QED
  BY <1>1, <1>2, InvAlways, PTL DEF Spec

\* The ETag loop implements the provider contract on which the workflow relies.
THEOREM GcpKeepsContract == Spec => KeepsContract
BY InitMaps, NextMaps, InvAlways, PTL
   DEF Spec, KeepsContract, Contract!Spec, Contract!vars, CStep,
       Ops, Reqs, Statuses, Access, Lapsed
=============================================================================
