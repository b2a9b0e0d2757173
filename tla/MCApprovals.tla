----------------------------- MODULE MCApprovals -----------------------------
(* Two request threads, two reviewers, two texts.                            *)
EXTENDS Approvals
=============================================================================
