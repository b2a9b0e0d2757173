--------------------------- MODULE MCHandoffService ---------------------------
(***************************************************************************)
(* Model-checking instance of HandoffService: one handle more than the     *)
(* store has slots, so that eviction happens beside running items.         *)
(***************************************************************************)
EXTENDS HandoffService

CONSTANTS c1, c2, h1, h2, h3
=============================================================================
