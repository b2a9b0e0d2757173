------------------------------ MODULE MCBatchRun ------------------------------
(***************************************************************************)
(* Model-checking instance of BatchRun: a restart setting (logging         *)
(* collector) and a reload setting that must follow it, two catalog fixes  *)
(* that both append to the preload list, an object fix, and a second fix   *)
(* of the reload setting and of the object attribute, which conflict.      *)
(***************************************************************************)
EXTENDS BatchRun

MCKind == <<"setting", "setting", "catalog", "catalog", "object", "setting", "object">>
MCChanges == <<<<"collector">>, <<"directory">>, <<"preload">>,
               <<"preload", "pgaudit">>, <<"role">>, <<"directory">>, <<"role">>>>
MCDepends == <<{}, {1}, {}, {}, {}, {}, {}>>
MCRank == <<2, 0, 2, 2, 1, 0, 1>>
=============================================================================
