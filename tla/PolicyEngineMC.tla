---------------------------- MODULE PolicyEngineMC ----------------------------
(* Instances of PolicyEngine for TLC. *)
EXTENDS PolicyEngine

CONSTANTS helper, caller, p1, p2

\* "caller" uses a function that "helper" defines: without it, it does not compile.
NeedsHelper ==
  {modules \in SUBSET Modules :
     (\E m \in modules : m.rego = caller) /\ (\A m \in modules : m.rego # helper)}

Row(name, type, rego, enabled) ==
  [id |-> name, name |-> name, type |-> type, rego |-> rego, enabled |-> enabled]

Helper == Row(p1, "approval", helper, TRUE)
Caller == Row(p2, "approval", caller, TRUE)

\* The helper, which a call may put to use.
HelperUnused == {{Helper}}

\* Use the helper, replace it by a caller, disable it, give it to the other type.
Changes ==
  {Caller, Row(p1, "approval", caller, TRUE),
   Row(p1, "approval", helper, FALSE), Row(p1, "eligibility", helper, TRUE)}
=============================================================================
