--------------------------- MODULE ApprovalLedger ---------------------------
(***************************************************************************)
(* What DBGuard promises about human approvals (docs/CONTRACTS.md,         *)
(* docs/IMPROVEMENTS.md "Exact content approval"), whatever store holds    *)
(* the content: only content a named person decided on is ever usable,     *)
(* under that person's name; of a template and of an imported release one  *)
(* approval is in force at a time; a run relies only on what is in force.  *)
(***************************************************************************)
VARIABLES
    decided,    \* the decisions people asked for: [kind, content, by] records
    usable,     \* the approvals in force
    used        \* the approvals runs relied on

vars == <<decided, usable, used>>

\* One approval in force replaces the previous one; profiles stand side by side.
Replaces(d, e) == d.kind = e.kind /\ d.kind \in {"template", "release"}

Init == usable \subseteq decided /\ used = {}

Decide == /\ \E d \in decided' : decided' = decided \cup {d}
          /\ UNCHANGED <<usable, used>>

Publish == /\ \E d \in decided : usable' = {e \in usable : ~Replaces(d, e)} \cup {d}
           /\ UNCHANGED <<decided, used>>

Withdraw == /\ usable' \subseteq usable
            /\ UNCHANGED <<decided, used>>

Rely == /\ \E d \in usable : used' = used \cup {d}
        /\ UNCHANGED <<decided, usable>>

Next == Decide \/ Publish \/ Withdraw \/ Rely

Spec == Init /\ [][Next]_vars
=============================================================================
