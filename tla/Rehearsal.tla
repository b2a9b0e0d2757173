------------------------------ MODULE Rehearsal ------------------------------
(***************************************************************************)
(* What DBGuard promises of a sandbox rehearsal, whatever kind of fix is   *)
(* rehearsed (services/sandbox_poc/README.md, "Loop and acceptance"): each *)
(* test runs in a disposable server of its own; a fix is VERIFIED only     *)
(* when, in one and the same server, the source state was reproduced, the  *)
(* fix was accepted, it was rolled back exactly and the server was         *)
(* removed; the verdict is final.                                          *)
(***************************************************************************)
VARIABLES
    stage,      \* how far the current disposable server got
    verdict     \* the answer of the whole run

vars == <<stage, verdict>>

Stage == {"none", "created", "reproduced", "accepted", "undone", "failed"}
Verdict == {"open", "VERIFIED", "FAILED", "CLEANUP_FAILED", "NEEDS_REVIEW",
            "ABORTED"}

Init == stage = "none" /\ verdict = "open"

Create == /\ stage = "none" /\ verdict = "open"
          /\ stage' = "created"
          /\ UNCHANGED verdict

Reproduce == /\ stage = "created"
             /\ stage' = "reproduced"
             /\ UNCHANGED verdict

Accept == /\ stage = "reproduced"
          /\ stage' = "accepted"
          /\ UNCHANGED verdict

Undo == /\ stage = "accepted"
        /\ stage' = "undone"
        /\ UNCHANGED verdict

Fail == /\ stage \in {"created", "reproduced", "accepted"}
        /\ stage' = "failed"
        /\ UNCHANGED verdict

\* Removing the server decides: only an undone, accepted fix is VERIFIED, and
\* a failed test leaves the run open for another one.
Remove == /\ stage # "none"
          /\ stage' = "none"
          /\ verdict' \in IF stage = "undone" THEN {"VERIFIED"}
                          ELSE {"open", "FAILED", "ABORTED"}

\* The server could not be confirmed removed, or nobody waited for it: never a
\* success.
Leak == /\ stage # "none"
        /\ stage' = "none"
        /\ verdict' \in {"CLEANUP_FAILED", "ABORTED"}

\* Between two tests the reviewer, or an interrupt, may stop the run.
Refuse == /\ stage = "none" /\ verdict = "open"
          /\ verdict' \in {"NEEDS_REVIEW", "ABORTED"}
          /\ UNCHANGED stage

Next == Create \/ Reproduce \/ Accept \/ Undo \/ Fail \/ Remove \/ Leak \/ Refuse

Spec == Init /\ [][Next]_vars
=============================================================================
