------------------------- MODULE NamedBindingProofs -------------------------
(***************************************************************************)
(* Proofs about NamedBinding, for any number of requests and calls and any *)
(* way in which requests ask for the same.                                 *)
(*                                                                         *)
(* The argument: an object bears the name of its request, so a call makes  *)
(* and deletes that of its own request only. Requests that ask for the     *)
(* same form a class (Same), of which at most one has its assignment; a    *)
(* conflict means that one of the class has it, or an administrator's.     *)
(***************************************************************************)
EXTENDS NamedBinding, TLAPS

\* A call's step tells its operation.
PhaseOK ==
  \A c \in Calls :
    /\ call[c].at = "idle" <=> call[c].op = "none"
    /\ call[c].at \in {"lookup", "get", "create"} => call[c].op = "grant"
    /\ call[c].at = "delete" => call[c].op = "revoke"

\* No Grant of a request whose end has come runs, and its object is gone.
EndedOK == \A r \in ended : r \notin objects /\ Quiet(r)

NamedInv == TypeOK /\ PhaseOK /\ EndedOK /\ GrantGivesAccess

-----------------------------------------------------------------------------
(* Requests that ask for the same *)

LEMMA SameIsEquivalence ==
  ASSUME NEW r \in Requests
  PROVE  /\ r \in Same(r) /\ Same(r) \subseteq Requests
         /\ \A q \in Same(r) : Same(q) = Same(r)
BY ConstantsAssumption DEF Same

LEMMA NotCalledIs ==
  /\ NotCalled \in Call /\ NotCalled.op = "none" /\ NotCalled.at = "idle"
<1>1. (CHOOSE r \in Requests : TRUE) \in Requests
  BY ConstantsAssumption
<1>2. QED
  BY <1>1 DEF NotCalled, Call, Steps, Results

-----------------------------------------------------------------------------
(* What a step does to the call that takes it *)

Begins(c) ==
  /\ call[c].at = "idle"
  /\ \E r \in Requests, new \in Call :
       /\ call' = [call EXCEPT ![c] = new]
       /\ new.req = r
       /\ \/ new.op = "grant" /\ new.at \in {"lookup", "get"} /\ ended' = ended \ {r}
          \/ new.op = "revoke" /\ new.at = "delete" /\ ended' = ended
  /\ UNCHANGED <<objects, removed>>

LEMMA BeginBegins ==
  ASSUME TypeOK, NEW c \in Calls,
         GrantBinding(c) \/ GrantAssignment(c) \/ RevokeBinding(c) \/ RevokeAssignment(c)
  PROVE  Begins(c)
<1>1. PICK r \in Requests :
        \/ Begin(c, "grant", r, "get") \/ Begin(c, "grant", r, "lookup")
        \/ Begin(c, "revoke", r, "delete")
  BY ConstantsAssumption DEF GrantBinding, GrantAssignment, RevokeBinding, RevokeAssignment
<1>2. ASSUME NEW op \in {"grant", "revoke"}, NEW step \in {"get", "lookup", "delete"}
      PROVE  [op |-> op, req |-> r, at |-> step] \in Call
  BY DEF Call, Steps, Results
<1>3. QED
  BY <1>1, <1>2 DEF Begin, Begins

\* The call goes on to a step; the other calls stay where they are.
Moves(c, step) ==
  /\ call' \in [Calls -> Call]
  /\ \A d \in Calls \ {c} : call'[d] = call[d]
  /\ call'[c].op = call[c].op /\ call'[c].req = call[c].req /\ call'[c].at = step

LEMMA GoesMoves ==
  ASSUME TypeOK, NEW c \in Calls, NEW step \in Steps, Goes(c, step)
  PROVE  Moves(c, step)
BY DEF TypeOK, Goes, Moves, Call

\* The steps of a Grant, and what they find and make.
Grants(c) ==
  /\ call[c].at \in {"lookup", "get", "create"}
  /\ UNCHANGED <<ended, removed>>
  /\ \/ Moves(c, "create") /\ objects' = objects
     \/ Moves(c, "failed") /\ objects' = objects
     \/ /\ Moves(c, "ok") /\ objects' = objects
        /\ Same(call[c].req) \cap objects # {} \/ Assigned(call[c].req)
     \/ /\ Moves(c, "ok") \/ Moves(c, "failed")
        /\ objects' = objects \cup {call[c].req}

LEMMA GrantSteps ==
  ASSUME TypeOK, NEW c \in Calls,
         GetBinding(c) \/ CreateBinding(c) \/ Lookup(c) \/ CreateAssignment(c)
  PROVE  Grants(c)
<1>1. call[c].req \in Requests
  BY DEF TypeOK, Call
<1>2. \A step \in {"create"} \cup Results : Goes(c, step) => Moves(c, step)
  BY GoesMoves DEF Steps, Results
<1>3. CASE GetBinding(c)
  <2>1. ~IsNotFound(call[c].req) => Same(call[c].req) \cap objects # {}
    BY <1>1, SameIsEquivalence DEF IsNotFound, Name
  <2>2. QED
    BY <1>2, <1>3, <2>1 DEF GetBinding, Grants, Results
<1>4. CASE CreateBinding(c)
  BY <1>2, <1>4 DEF CreateBinding, Grants, Name, Results
<1>5. CASE Lookup(c)
  BY <1>2, <1>5 DEF Lookup, Grants, Results
<1>6. CASE CreateAssignment(c)
  BY <1>2, <1>6 DEF CreateAssignment, Grants, Name, IsConflict, Results
<1>7. QED
  BY <1>3, <1>4, <1>5, <1>6

\* The deletion of a Revoke.
Deletes(c) ==
  /\ call[c].at = "delete" /\ removed' = removed
  /\ \/ Moves(c, "ok") /\ objects' = objects \ {call[c].req}
     \/ Moves(c, "failed") /\ objects' = objects \ {call[c].req}
     \/ Moves(c, "failed") /\ objects' = objects
  /\ ended' = IF call'[c].at = "ok" /\ Quiet(call[c].req)
              THEN ended \cup {call[c].req} ELSE ended

LEMMA DeleteDeletes ==
  ASSUME TypeOK, NEW c \in Calls, Delete(c)
  PROVE  Deletes(c)
<1>1. \A step \in {"ok", "failed"} : Goes(c, step) => Moves(c, step)
  BY GoesMoves DEF Steps, Results
<1>2. IsNotFound(call[c].req) => objects = objects \ {call[c].req}
  BY DEF IsNotFound, Name
<1>3. QED
  BY <1>1, <1>2 DEF Delete, Deletes, Name

-----------------------------------------------------------------------------
(* The invariant is kept *)

LEMMA InitInv == Init => NamedInv
<1> SUFFICES ASSUME Init PROVE NamedInv
  OBVIOUS
<1>1. \A c \in Calls : call[c] = NotCalled
  BY DEF Init
<1>2. TypeOK
  BY NotCalledIs DEF Init, TypeOK
<1>3. PhaseOK /\ EndedOK /\ GrantGivesAccess
  BY <1>1, NotCalledIs DEF Init, PhaseOK, EndedOK, GrantGivesAccess
<1>4. QED
  BY <1>2, <1>3 DEF NamedInv

LEMMA BeginInv ==
  ASSUME NamedInv, NEW c \in Calls, Begins(c)
  PROVE  NamedInv'
<1>1. PICK r \in Requests, new \in Call :
        /\ call' = [call EXCEPT ![c] = new]
        /\ new.req = r
        /\ \/ new.op = "grant" /\ new.at \in {"lookup", "get"} /\ ended' = ended \ {r}
           \/ new.op = "revoke" /\ new.at = "delete" /\ ended' = ended
  BY DEF Begins
<1>2. call \in [Calls -> Call] /\ call'[c] = new /\ \A d \in Calls : d # c => call'[d] = call[d]
  BY <1>1 DEF NamedInv, TypeOK
<1>3. UNCHANGED <<objects, removed>> /\ call[c].at = "idle" /\ call[c].op = "none"
  BY DEF Begins, NamedInv, PhaseOK
<1>4. TypeOK'
  BY <1>1, <1>2, <1>3 DEF NamedInv, TypeOK
<1>5. PhaseOK'
  BY <1>1, <1>2 DEF NamedInv, PhaseOK
<1>6. EndedOK'
  BY <1>1, <1>2, <1>3 DEF NamedInv, EndedOK, Quiet
<1>7. GrantGivesAccess'
  <2>1. ASSUME NEW d \in Calls, call'[d].op = "grant", call'[d].at = "ok"
        PROVE  d # c /\ call'[d] = call[d]
    BY <1>1, <1>2, <2>1
  <2>2. ASSUME NEW d \in Calls, call[d].op = "revoke"
        PROVE  call'[d] = call[d]
    BY <1>2, <1>3, <2>2
  <2>3. ASSUME NEW d \in Calls, call'[d].op = "grant", call'[d].at = "ok"
        PROVE  \/ Same(call[d].req) \cap objects # {} \/ Assigned(call[d].req)
               \/ Same(call[d].req) \cap removed # {}
               \/ \E e \in Calls : call'[e].op = "revoke" /\ call'[e].req \in Same(call[d].req)
    <3>1. call[d].op = "grant" /\ call[d].at = "ok"
      BY <2>1, <2>3
    <3>2. QED
      BY <2>2, <3>1 DEF NamedInv, GrantGivesAccess
  <2>4. QED
    BY <1>3, <2>1, <2>3 DEF GrantGivesAccess
<1>8. QED
  BY <1>4, <1>5, <1>6, <1>7 DEF NamedInv

LEMMA GrantInv ==
  ASSUME NamedInv, NEW c \in Calls, Grants(c)
  PROVE  NamedInv'
<1>1. PICK step \in {"create"} \cup Results : Moves(c, step)
  BY DEF Grants, Results
<1>2. /\ call' \in [Calls -> Call] /\ call'[c].at = step
      /\ \A d \in Calls : call'[d].op = call[d].op /\ call'[d].req = call[d].req
      /\ \A d \in Calls : d # c => call'[d] = call[d]
  BY <1>1 DEF Moves
<1>3. call[c].req \in Requests /\ UNCHANGED <<ended, removed>> /\ call[c].op = "grant"
  BY DEF NamedInv, TypeOK, PhaseOK, Call, Grants
<1>4. objects' \in {objects, objects \cup {call[c].req}}
  BY DEF Grants
<1>5. TypeOK'
  BY <1>2, <1>3, <1>4 DEF NamedInv, TypeOK
<1>6. PhaseOK'
  BY <1>2, <1>3 DEF NamedInv, PhaseOK, Results
<1>7. EndedOK'
  <2>1. call[c].req \notin ended
    BY <1>3 DEF NamedInv, EndedOK, Quiet, Grants, Results
  <2>2. ASSUME NEW r \in ended
        PROVE  r \notin objects' /\ Quiet(r)'
    BY <1>2, <1>4, <2>1, <2>2 DEF NamedInv, EndedOK, Quiet
  <2>3. QED
    BY <1>3, <2>2 DEF EndedOK
<1>8. GrantGivesAccess'
  <2>1. ASSUME NEW d \in Calls, call'[d].op = "grant", call'[d].at = "ok"
        PROVE  \/ Same(call[d].req) \cap objects' # {} \/ Assigned(call[d].req)
               \/ Same(call[d].req) \cap removed # {}
               \/ \E e \in Calls : call[e].op = "revoke" /\ call[e].req \in Same(call[d].req)
    <3>1. CASE d = c
      <4>1. step = "ok"
        BY <1>2, <2>1, <3>1
      <4>2. call[c].req \in Same(call[c].req)
        BY <1>3, SameIsEquivalence
      <4>3. Same(call[c].req) \cap objects' # {} \/ Assigned(call[c].req)
        BY <1>2, <4>1, <4>2 DEF Grants, Moves
      <4>4. QED
        BY <3>1, <4>3
    <3>2. CASE d # c
      BY <1>2, <1>4, <2>1, <3>2 DEF NamedInv, GrantGivesAccess
    <3>3. QED
      BY <3>1, <3>2
  <2>2. QED
    BY <1>2, <1>3, <2>1 DEF GrantGivesAccess
<1>9. QED
  BY <1>5, <1>6, <1>7, <1>8 DEF NamedInv

LEMMA DeleteInv ==
  ASSUME NamedInv, NEW c \in Calls, Deletes(c)
  PROVE  NamedInv'
<1>1. PICK step \in {"ok", "failed"} : Moves(c, step)
  BY DEF Deletes
<1>2. /\ call' \in [Calls -> Call] /\ call'[c].at = step
      /\ \A d \in Calls : call'[d].op = call[d].op /\ call'[d].req = call[d].req
      /\ \A d \in Calls : d # c => call'[d] = call[d]
  BY <1>1 DEF Moves
<1>3. call[c].req \in Requests /\ removed' = removed /\ call[c].op = "revoke"
  BY DEF NamedInv, TypeOK, PhaseOK, Call, Deletes
<1>4. objects' \in {objects, objects \ {call[c].req}}
  BY DEF Deletes
<1>5. TypeOK'
  BY <1>2, <1>3, <1>4 DEF NamedInv, TypeOK, Deletes
<1>6. PhaseOK'
  BY <1>2, <1>3 DEF NamedInv, PhaseOK
<1>7. EndedOK'
  <2>1. \A r : Quiet(r) => Quiet(r)'
    BY <1>2, <1>3 DEF Quiet
  <2>2. ASSUME NEW r \in ended'
        PROVE  r \notin objects' /\ Quiet(r)
    <3>1. CASE r \in ended
      BY <1>4, <3>1 DEF NamedInv, EndedOK
    <3>2. CASE r \notin ended
      <4>1. r = call[c].req /\ call'[c].at = "ok" /\ Quiet(r)
        BY <2>2, <3>2 DEF Deletes
      <4>2. objects' = objects \ {r}
        BY <4>1 DEF Deletes, Moves
      <4>3. QED
        BY <4>1, <4>2
    <3>3. QED
      BY <3>1, <3>2
  <2>3. QED
    BY <2>1, <2>2 DEF EndedOK
<1>8. GrantGivesAccess'
  <2>1. ASSUME NEW d \in Calls, call'[d].op = "grant", call'[d].at = "ok"
        PROVE  \/ Same(call[d].req) \cap objects' # {} \/ Assigned(call[d].req)
               \/ Same(call[d].req) \cap removed # {}
               \/ \E e \in Calls : call[e].op = "revoke" /\ call[e].req \in Same(call[d].req)
    <3>1. call[d].op = "grant" /\ call[d].at = "ok"
      BY <1>2, <1>3, <2>1
    <3>2. CASE call[c].req \in Same(call[d].req)
      BY <1>3, <3>2
    <3>3. CASE call[c].req \notin Same(call[d].req)
      BY <1>4, <3>1, <3>3 DEF NamedInv, GrantGivesAccess
    <3>4. QED
      BY <3>2, <3>3
  <2>2. QED
    BY <1>2, <1>3, <2>1 DEF GrantGivesAccess
<1>9. QED
  BY <1>5, <1>6, <1>7, <1>8 DEF NamedInv

LEMMA OutsideInv ==
  ASSUME NamedInv, NEW r \in Requests, OutsideDelete(r)
  PROVE  NamedInv'
<1>1. objects' = objects \ {r} /\ removed' = removed \cup {r} /\ UNCHANGED <<call, ended>>
  BY DEF OutsideDelete
<1>2. TypeOK' /\ PhaseOK' /\ EndedOK'
  BY <1>1 DEF NamedInv, TypeOK, PhaseOK, EndedOK, Quiet
<1>3. GrantGivesAccess'
  <2>1. ASSUME NEW d \in Calls, call[d].op = "grant", call[d].at = "ok"
        PROVE  \/ Same(call[d].req) \cap objects' # {} \/ Assigned(call[d].req)
               \/ Same(call[d].req) \cap removed' # {}
               \/ \E e \in Calls : call[e].op = "revoke" /\ call[e].req \in Same(call[d].req)
    BY <1>1, <2>1 DEF NamedInv, GrantGivesAccess
  <2>2. QED
    BY <1>1, <2>1 DEF GrantGivesAccess
<1>4. QED
  BY <1>2, <1>3 DEF NamedInv

LEMMA NextInv == NamedInv /\ [Next]_vars => NamedInv'
<1> SUFFICES ASSUME NamedInv, [Next]_vars PROVE NamedInv'
  OBVIOUS
<1>1. CASE UNCHANGED vars
  <2>1. UNCHANGED <<objects, call, ended, removed>>
    BY <1>1 DEF vars
  <2>2. TypeOK' /\ PhaseOK' /\ EndedOK'
    BY <2>1 DEF NamedInv, TypeOK, PhaseOK, EndedOK, Quiet
  <2>3. GrantGivesAccess'
    BY <2>1 DEF NamedInv, GrantGivesAccess
  <2>4. QED
    BY <2>2, <2>3 DEF NamedInv
<1>2. TypeOK
  BY DEF NamedInv
<1>3. QED
  BY <1>1, <1>2, BeginBegins, GrantSteps, DeleteDeletes, BeginInv, GrantInv, DeleteInv,
     OutsideInv DEF Next

LEMMA InvAlways == Spec => []NamedInv
BY InitInv, NextInv, PTL DEF Spec

-----------------------------------------------------------------------------
(* Each step is a step of the contract *)

Ops == [c \in Calls |-> Shown(c).op]
Reqs == [c \in Calls |-> Shown(c).req]
Statuses == [c \in Calls |-> StatusOf(Shown(c).at)]
Access == {r \in objects : Sole(r)}

CStep == [Contract!Next]_<<Ops, Reqs, Statuses, Access, {}>>

\* The contract sees a call of a request that shares its access with none, and no other.
LEMMA MovesShown ==
  ASSUME NamedInv, NEW c \in Calls, NEW step, Moves(c, step), call[c].op # "none"
  PROVE  /\ Ops' = Ops /\ Reqs' = Reqs
         /\ Sole(call[c].req) =>
              /\ Ops[c] = call[c].op /\ Reqs[c] = call[c].req
              /\ Statuses[c] = StatusOf(call[c].at)
              /\ Statuses' = [Statuses EXCEPT ![c] = StatusOf(step)]
         /\ ~Sole(call[c].req) => Statuses' = Statuses
<1>1. /\ \A d \in Calls : call'[d].op = call[d].op /\ call'[d].req = call[d].req
      /\ \A d \in Calls : d # c => call'[d] = call[d]
      /\ call'[c].at = step
  BY DEF Moves
<1>2. \A d \in Calls : Sole(call[d].req)' = Sole(call[d].req)
  BY <1>1 DEF Sole, Same, Assigned
<1>3. \A d \in Calls : d # c => Shown(d)' = Shown(d)
  BY <1>1, <1>2 DEF Shown
<1>4. /\ Sole(call[c].req) => Shown(c) = call[c] /\ Shown(c)' = call'[c]
      /\ ~Sole(call[c].req) => Shown(c) = NotCalled /\ Shown(c)' = NotCalled
  BY <1>1, <1>2 DEF Shown
<1>5. \A d \in Calls : Shown(d)'.op = Shown(d).op /\ Shown(d)'.req = Shown(d).req
  BY <1>1, <1>3, <1>4
<1>6. Ops' = Ops /\ Reqs' = Reqs
  BY <1>5 DEF Ops, Reqs
<1>7. Sole(call[c].req) => Statuses' = [Statuses EXCEPT ![c] = StatusOf(step)]
  BY <1>1, <1>3, <1>4 DEF Statuses
<1>8. ~Sole(call[c].req) => Statuses' = Statuses
  BY <1>3, <1>4 DEF Statuses
<1>9. QED
  BY <1>4, <1>6, <1>7, <1>8 DEF Ops, Reqs, Statuses

\* A step of a call by which its request's object comes, goes or stays.
LEMMA Returned ==
  ASSUME NamedInv, NEW c \in Calls, NEW step \in {"create"} \cup Results, Moves(c, step),
         call[c].at \in {"lookup", "get", "create", "delete"}, call[c].op # "none",
         \/ /\ step # "create"
            /\ objects' = IF call[c].op = "grant" THEN objects \cup {call[c].req}
                                                  ELSE objects \ {call[c].req}
         \/ step = "ok" /\ objects' = objects /\ call[c].op = "grant"
            /\ (Same(call[c].req) \cap objects # {} \/ Assigned(call[c].req))
         \/ step # "ok" /\ objects' = objects
  PROVE  CStep
<1>1. PICK r \in Requests : r = call[c].req
  BY DEF NamedInv, TypeOK, Call
<1>2. CASE ~Sole(r)
  <2>1. Access' = Access
    BY <1>1, <1>2 DEF Access
  <2>2. QED
    BY <1>1, <1>2, <2>1, MovesShown DEF CStep
<1>3. CASE Sole(r) /\ step = "create"
  <2>1. Access' = Access
    BY <1>3 DEF Access
  <2>2. StatusOf(step) = "running" /\ Statuses[c] = "running"
    BY <1>1, <1>3, MovesShown DEF StatusOf
  <2>3. Statuses' = [Statuses EXCEPT ![c] = Statuses[c]]
    BY <1>1, <1>3, <2>2, MovesShown
  <2>4. Statuses' = Statuses
    BY <2>3 DEF Statuses
  <2>5. QED
    BY <2>1, <2>4, MovesShown DEF CStep
<1>4. CASE Sole(r) /\ step # "create"
  <2>1. /\ Ops' = Ops /\ Reqs' = Reqs /\ Ops[c] = call[c].op /\ Reqs[c] = r
        /\ Statuses[c] = "running" /\ Statuses' = [Statuses EXCEPT ![c] = StatusOf(step)]
    BY <1>1, <1>4, MovesShown DEF StatusOf, Results
  <2>2. Same(r) \cap objects # {} \/ Assigned(r) => r \in objects
    BY <1>4 DEF Sole
  <2>3. \/ Access' = IF Ops[c] = "grant" THEN Access \cup {r} ELSE Access \ {r}
        \/ Access' = Access /\ step # "ok"
    BY <1>1, <1>4, <2>1, <2>2 DEF Access
  <2>4. Contract!Return(c, StatusOf(step))
    BY <2>1 DEF Contract!Return, Ops, Reqs, Statuses
  <2>5. Contract!Effect(c) \/ (Access' = Access /\ step # "ok")
    BY <2>1, <2>3 DEF Contract!Effect, Access, Ops, Reqs
  <2>6. StatusOf(step) = IF step = "ok" THEN "ok" ELSE "failed"
    BY <1>4 DEF StatusOf, Results
  <2>7. (step = "ok" /\ Contract!Succeed(c)) \/ (step # "ok" /\ Contract!Fail(c))
    BY <1>4, <2>4, <2>5, <2>6 DEF Contract!Succeed, Contract!Fail, Access
  <2>8. QED
    BY <2>7 DEF CStep, Contract!Next
<1>5. QED
  BY <1>2, <1>3, <1>4

LEMMA BeginMaps ==
  ASSUME NamedInv, NEW c \in Calls, Begins(c)
  PROVE  CStep
<1>1. PICK r \in Requests, new \in Call :
        /\ call' = [call EXCEPT ![c] = new]
        /\ new.req = r /\ new.op \in {"grant", "revoke"}
        /\ new.at \in {"lookup", "get", "delete"}
  BY DEF Begins
<1>2. /\ call'[c] = new /\ \A d \in Calls : d # c => call'[d] = call[d]
      /\ call[c].op = "none" /\ objects' = objects
  BY <1>1 DEF NamedInv, TypeOK, PhaseOK, Begins
<1>3. \A d \in Calls : d # c => Shown(d)' = Shown(d)
  BY <1>2 DEF Shown, Sole, Same, Assigned
<1>4. Shown(c) = NotCalled /\ Access' = Access
  BY <1>2 DEF Shown, Access
<1>5. Sole(call[c].req)' = Sole(r)
  BY <1>1, <1>2 DEF Sole, Same, Assigned
<1>6. CASE Sole(r)
  <2>1. Shown(c)' = new
    BY <1>1, <1>2, <1>5, <1>6 DEF Shown
  <2>2. /\ Ops' = [Ops EXCEPT ![c] = new.op] /\ Reqs' = [Reqs EXCEPT ![c] = r]
        /\ Statuses' = [Statuses EXCEPT ![c] = "running"] /\ Statuses[c] = "idle"
    BY <1>1, <1>3, <1>4, <2>1, NotCalledIs DEF Ops, Reqs, Statuses, StatusOf
  <2>3. Contract!Begin(c)
    BY <1>1, <1>4, <2>2 DEF Contract!Begin, Ops, Reqs, Statuses, Access
  <2>4. QED
    BY <2>3 DEF CStep, Contract!Next
<1>7. CASE ~Sole(r)
  <2>1. Shown(c)' = NotCalled
    BY <1>5, <1>7 DEF Shown
  <2>2. Ops' = Ops /\ Reqs' = Reqs /\ Statuses' = Statuses
    BY <1>3, <1>4, <2>1 DEF Ops, Reqs, Statuses
  <2>3. QED
    BY <1>4, <2>2 DEF CStep
<1>8. QED
  BY <1>6, <1>7

LEMMA OutsideMaps ==
  ASSUME NamedInv, NEW r \in Requests, OutsideDelete(r)
  PROVE  CStep
<1>1. objects' = objects \ {r} /\ call' = call
  BY DEF OutsideDelete
<1>2. Access' \in SUBSET Access
  BY <1>1 DEF Access
<1>3. \A c \in Calls : Shown(c)' = Shown(c)
  BY <1>1 DEF Shown, Sole, Same, Assigned
<1>4. Ops' = Ops /\ Reqs' = Reqs /\ Statuses' = Statuses
  BY <1>3 DEF Ops, Reqs, Statuses
<1>5. Contract!TakenAway
  BY <1>2, <1>4 DEF Contract!TakenAway, Ops, Reqs, Statuses, Access
<1>6. QED
  BY <1>5 DEF CStep, Contract!Next

LEMMA NextMaps == NamedInv /\ [Next]_vars => CStep
<1> SUFFICES ASSUME NamedInv, [Next]_vars PROVE CStep
  OBVIOUS
<1>1. CASE UNCHANGED vars
  <2>1. call' = call /\ objects' = objects
    BY <1>1 DEF vars
  <2>2. \A c \in Calls : Shown(c)' = Shown(c)
    BY <2>1 DEF Shown, Sole, Same, Assigned
  <2>3. QED
    BY <2>1, <2>2 DEF CStep, Ops, Reqs, Statuses, Access
<1>2. TypeOK
  BY DEF NamedInv
<1>3. ASSUME NEW c \in Calls, Grants(c)
      PROVE  CStep
  <2>1. call[c].op = "grant" /\ call[c].at \in {"lookup", "get", "create", "delete"}
    BY <1>3 DEF NamedInv, PhaseOK, Grants
  <2>2. QED
    BY <1>3, <2>1, Returned DEF Grants, Results
<1>4. ASSUME NEW c \in Calls, Deletes(c)
      PROVE  CStep
  <2>1. call[c].op = "revoke" /\ call[c].at \in {"lookup", "get", "create", "delete"}
    BY <1>4 DEF NamedInv, PhaseOK, Deletes
  <2>2. QED
    BY <1>4, <2>1, Returned DEF Deletes, Results
<1>5. QED
  BY <1>1, <1>2, <1>3, <1>4, BeginBegins, GrantSteps, DeleteDeletes, BeginMaps, OutsideMaps
     DEF Next

LEMMA InitMaps == Init => Contract!Init
<1> SUFFICES ASSUME Init PROVE Contract!Init
  OBVIOUS
<1>1. \A c \in Calls : Shown(c) = NotCalled
  BY DEF Init, Shown
<1>2. Ops = [c \in Calls |-> "none"] /\ Statuses = [c \in Calls |-> "idle"]
  BY <1>1, NotCalledIs DEF Ops, Statuses, StatusOf
<1>3. Reqs \in [Calls -> Requests]
  BY <1>1, NotCalledIs DEF Reqs, Call
<1>4. Access = {}
  BY DEF Access, Init
<1>5. QED
  BY <1>2, <1>3, <1>4 DEF Contract!Init, Ops, Reqs, Statuses, Access

-----------------------------------------------------------------------------
(* Theorems *)

\* The types of the objects and of the calls that make and delete them.
THEOREM TypesAlways == Spec => []TypeOK
BY InvAlways, PTL DEF NamedInv

\* A Grant without error has given the access, also when an assignment that another
\* request has made was in its way, or found it given by an administrator.
THEOREM GrantAlwaysGivesAccess == Spec => []GrantGivesAccess
BY InvAlways, PTL DEF NamedInv

\* Nothing under a request's name outlives its revocation.
THEOREM RevokedAlwaysLeavesNothing == Spec => []RevokedLeavesNothing
<1>1. NamedInv => RevokedLeavesNothing
  BY DEF NamedInv, EndedOK, RevokedLeavesNothing
<1>2. QED
  BY <1>1, InvAlways, PTL

\* Both providers implement the provider contract for requests whose access is theirs alone.
THEOREM NamedKeepsContract == Spec => KeepsContract
BY InitMaps, NextMaps, InvAlways, PTL
   DEF Spec, KeepsContract, Contract!Spec, Contract!vars, CStep,
       Ops, Reqs, Statuses, Access
=============================================================================
