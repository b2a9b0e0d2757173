-------------------------- MODULE MCRemediationLoop --------------------------
(***************************************************************************)
(* Model-checking instance of RemediationLoop: the built-in default, the   *)
(* wanted value and a third one; the initial template, one that differs    *)
(* from it in white space only, one that sets another value and one whose  *)
(* SQL template_action does not accept.                                    *)
(***************************************************************************)
EXTENDS RemediationLoop, TLC

CONSTANTS t1, t1ws, t2, t3

MCTemplate == {t1, t1ws, t2, t3}
MCTyped == {t1, t1ws, t2}
MCSql == t1 :> "set wanted" @@ t1ws :> "set wanted"
         @@ t2 :> "set other" @@ t3 :> "reset only"
MCLiteral == t1 :> "w" @@ t1ws :> "w" @@ t2 :> "o" @@ t3 :> "w"
=============================================================================
