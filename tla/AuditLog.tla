------------------------------ MODULE AuditLog ------------------------------
(***************************************************************************)
(* What the workflow engine relies on when it appends to the audit log     *)
(* (audit.Logger.Append): a list of entries that only grows at its end.    *)
(*                                                                         *)
(* A call puts its entry there at one instant, once, or not at all if it   *)
(* returns an error; after an error the entry may be there as well. There  *)
(* are no attempts, snapshots, identifiers or hashes at this level.        *)
(***************************************************************************)
EXTENDS Sequences

CONSTANT Appenders  \* calls; each stands for its entry as well

VARIABLES
  entries,  \* the entries in the order of the log
  status    \* "idle", "running", "ok" or "failed"

vars == <<entries, status>>

Init ==
  /\ entries = <<>>
  /\ status = [a \in Appenders |-> "idle"]

Moves(a, from, to) == status[a] = from /\ status' = [status EXCEPT ![a] = to]

Begin(a) == Moves(a, "idle", "running") /\ UNCHANGED entries

\* The entry takes its place behind those that are there.
Record(a) == entries' = Append(entries, a)

Succeed(a) == Moves(a, "running", "ok") /\ Record(a)

Fail(a) == Moves(a, "running", "failed") /\ (Record(a) \/ UNCHANGED entries)

Next == \E a \in Appenders : Begin(a) \/ Succeed(a) \/ Fail(a)

Spec == Init /\ [][Next]_vars
=============================================================================
