-------------------------- MODULE ProviderContract --------------------------
(***************************************************************************)
(* What the workflow engine relies on when it calls a provider: the        *)
(* contract of internal/providers/provider.go, for calls that overlap.     *)
(*                                                                         *)
(* A call takes effect at one instant, on its own request only, or not at  *)
(* all if it returns an error. A Grant that returns no error has given the *)
(* access, unless the time of a grant of that request is over; a Revoke    *)
(* that returns no error has left none.                                    *)
(***************************************************************************)
CONSTANTS Requests, Calls

VARIABLES
  op,      \* "grant" or "revoke", once the call is made
  req,     \* the request it is for
  status,  \* "idle", "running", "ok" or "failed"
  access,  \* the requests whose access exists
  lapsed   \* the requests of which a grant has come to the end of its time

vars == <<op, req, status, access, lapsed>>

Init ==
  /\ op = [c \in Calls |-> "none"]
  /\ req \in [Calls -> Requests]
  /\ status = [c \in Calls |-> "idle"]
  /\ access = {}
  /\ lapsed = {}

Begin(c) ==
  /\ status[c] = "idle"
  /\ \E o \in {"grant", "revoke"} : op' = [op EXCEPT ![c] = o]
  /\ \E r \in Requests : req' = [req EXCEPT ![c] = r]
  /\ status' = [status EXCEPT ![c] = "running"]
  /\ UNCHANGED <<access, lapsed>>

\* The access of the call's request, and of no other, comes or goes.
Effect(c) ==
  access' = IF op[c] = "grant" THEN access \cup {req[c]} ELSE access \ {req[c]}

Return(c, result) ==
  /\ status[c] = "running"
  /\ status' = [status EXCEPT ![c] = result]
  /\ UNCHANGED <<op, req, lapsed>>

Succeed(c) ==
  /\ Return(c, "ok")
  /\ \/ Effect(c)
     \/ op[c] = "grant" /\ req[c] \in lapsed /\ UNCHANGED access

Fail(c) == Return(c, "failed") /\ (Effect(c) \/ UNCHANGED access)

\* The time of a grant is over; the provider ends the access or leaves it to a Revoke.
Lapse(r) ==
  /\ lapsed' = lapsed \cup {r}
  /\ access' \in {access, access \ {r}}
  /\ UNCHANGED <<op, req, status>>

\* Somebody else takes access away.
TakenAway ==
  /\ access' \in SUBSET access
  /\ UNCHANGED <<op, req, status, lapsed>>

Next ==
  \/ \E c \in Calls : Begin(c) \/ Succeed(c) \/ Fail(c)
  \/ \E r \in Requests : Lapse(r)
  \/ TakenAway

Spec == Init /\ [][Next]_vars
=============================================================================
