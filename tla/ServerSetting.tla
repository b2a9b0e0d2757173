---------------------------- MODULE ServerSetting ----------------------------
(***************************************************************************)
(* One PostgreSQL setting as DBGuard reads, reproduces, changes and        *)
(* restores it.  PostgreSQL takes a setting from postgresql.auto.conf,     *)
(* else from the last line of postgresql.conf, else from its built-in      *)
(* default; a reload re-reads the files, and a setting of postmaster       *)
(* context keeps its running value until the server restarts.              *)
(*                                                                         *)
(* The record below is exactly what provenance.signature compares: the     *)
(* lines of both files (a superseded image line with another value is the  *)
(* "shadow"), the running value and the file the running value came from.  *)
(***************************************************************************)
CONSTANTS
    Value,          \* the values a setting can hold
    Default,        \* its built-in default
    Absent          \* "no line in this file"

ASSUME DefaultAssumption == Default \in Value
ASSUME AbsentAssumption == Absent \notin Value

Line == Value \cup {Absent}
Origin == {"default", "postgresql.conf", "postgresql.auto.conf"}

Setting == [shadow: Line, conf: Line, auto: Line, live: Value, origin: Origin]

----------------------------------------------------------------------------
(* PostgreSQL itself, as the runtime uses it. *)

FileValue(s) ==
    IF s.auto # Absent THEN s.auto
    ELSE IF s.conf # Absent THEN s.conf ELSE Default

FileOrigin(s) ==
    IF s.auto # Absent THEN "postgresql.auto.conf"
    ELSE IF s.conf # Absent THEN "postgresql.conf" ELSE "default"

\* What a server start reads from the files.
Loaded(s) == [s EXCEPT !.live = FileValue(s), !.origin = FileOrigin(s)]

\* pg_reload_conf(): a postmaster setting keeps its running value and origin.
Reloaded(s, restartOnly) == IF restartOnly THEN s ELSE Loaded(s)

PendingRestart(s, restartOnly) == restartOnly /\ FileValue(s) # s.live

\* DisposablePostgres.activate up to its polling loop: reload, then restart
\* the server only when a change is pending.
Activated(s, restartOnly) ==
    IF restartOnly /\ ~PendingRestart(s, restartOnly) THEN s ELSE Loaded(s)

----------------------------------------------------------------------------
(* fix_unit_render: the typed actions and the rollback derived from the    *)
(* prior state.                                                            *)

SetConfig(v) == [action |-> "set_config", value |-> v]
ResetConfig == [action |-> "reset_config", value |-> Absent]
Action == [action: {"set_config"}, value: Value] \cup {ResetConfig}

\* ALTER SYSTEM SET writes the auto.conf line, ALTER SYSTEM RESET removes it.
AlterSystem(s, act) == [s EXCEPT !.auto = act.value]

\* bug: undoing a set is always a reset.
DeriveReset(prior) == ResetConfig

DeriveRollback(prior) ==
    IF prior.origin = "postgresql.auto.conf"
    THEN SetConfig(prior.live)
    ELSE ResetConfig

----------------------------------------------------------------------------
(* provenance: which sources can be reproduced, and how.                   *)

\* reconstruction_plan's rejections: duplicate lines, a pending restart, a
\* default with file lines, a file origin without its line, and an auto.conf
\* alias that is not the canonical running value.
Reconstructible(s, restartOnly) ==
    /\ s.shadow = Absent
    /\ ~PendingRestart(s, restartOnly)
    /\ s.origin = "default" => s.conf = Absent /\ s.auto = Absent
    /\ s.origin = "postgresql.conf" => s.conf # Absent
    /\ s.origin = "postgresql.auto.conf" => s.auto = s.live

\* Running on the built-in default means running the default value.
Consistent(s) == s.origin = "default" => s.live = Default

\* The sandbox image's server: at most one line in postgresql.conf.
ImageSetting(line) ==
    Loaded([shadow |-> Absent, conf |-> line, auto |-> Absent,
            live |-> Default, origin |-> "default"])

\* The two write_config calls of reconstruct: postgresql.conf is appended to
\* (an image line with the same value is dropped from the comparison by
\* _shadowed_duplicate, one with another value stays visible), auto.conf is
\* replaced.
Written(box, source) ==
    [box EXCEPT
        !.shadow = IF source.conf \in {Absent, box.conf} THEN @ ELSE box.conf,
        !.conf = IF source.conf = Absent THEN @ ELSE source.conf,
        !.auto = source.auto]

\* reconstruct: write, activate, and restart once more when a written
\* postmaster setting still reports another origin (restart_needed).
Reconstructed(box, source, restartOnly) ==
    LET s == Activated(Written(box, source), restartOnly)
        lineWritten == source.conf # Absent \/ source.auto # Absent
    IN  IF restartOnly /\ lineWritten /\ s.origin # source.origin
        THEN Loaded(s)
        ELSE s
=============================================================================
