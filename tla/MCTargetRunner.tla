---------------------------- MODULE MCTargetRunner ----------------------------
(***************************************************************************)
(* Model-checking instances of TargetRunner: two catalog fixes that both   *)
(* add a library to shared_preload_libraries, and a batch of a setting, a  *)
(* restart setting and an object fix, with the scopes the export gives.    *)
(***************************************************************************)
EXTENDS TargetRunner

CONSTANTS r1, r2

\* Fix 1 changes "preload"; fix 2 changes it again and then "pgaudit".
\* "o" is a setting that no fix changes.
ChainCell == {"preload", "pgaudit", "o"}
ChainChanges == <<<<"preload">>, <<"preload", "pgaudit">>>>
ChainScope == <<{"o", "preload"}, {"o", "preload", "pgaudit"}>>

\* Fix 1 changes the setting "s", fix 2 the restart setting "t", fix 3 the
\* attribute "role" of an object.
MixedCell == {"s", "t", "role", "o"}
MixedChanges == <<<<"s">>, <<"t">>, <<"role">>>>
MixedScope == <<{"s", "t", "o"}, {"s", "t", "o"}, {"role"}>>
=============================================================================
