----------------------------- MODULE TargetRunner -----------------------------
(***************************************************************************)
(* A DBA applies the bundles of one tested batch to the real target with   *)
(* the exported runner (services/sandbox_poc/bundle_assets/runner.py), one *)
(* process per command.  Bundle b is the b-th fix of the tested order.     *)
(*                                                                         *)
(* A setting bundle runs ALTER SYSTEM and pg_reload_conf() statements that *)
(* commit one by one, under an advisory lock that its connection holds; an *)
(* object bundle runs in one transaction.  Commands interleave with each   *)
(* other, break off at any point, and the server may be reloaded or        *)
(* restarted by others at any time, which ends every connection.           *)
(***************************************************************************)
EXTENDS Naturals, Sequences

CONSTANTS
    Runner,     \* the DBA's terminals: each runs one command after another
    Fixes,      \* the number of fixes in the batch
    Cell,       \* the settings and object attributes of the target
    Changes,    \* bundle -> the cells its statements change, in order
    Object,     \* the bundles of kind "object"
    RestartOnly,\* settings of postmaster context
    Scope,      \* bundle -> the cells its fingerprint reads (config["names"])
    Nobody      \* "the advisory lock is free"

Bundle == 1..Fixes
Cells(b) == {Changes[b][i] : i \in DOMAIN Changes[b]}

\* A fix changes each of its cells once.  Two fixes may share a cell: catalog
\* fixes each add a library to shared_preload_libraries.
ASSUME BatchAssumption ==
    /\ Fixes \in Nat \ {0} /\ Nobody \notin Runner
    /\ Changes \in [Bundle -> Seq(Cell)]
    /\ \A b \in Bundle :
            /\ Changes[b] # <<>>
            /\ \A i, k \in DOMAIN Changes[b] :
                    Changes[b][i] = Changes[b][k] => i = k
    /\ Scope \in [Bundle -> SUBSET Cell]
    /\ \A b \in Bundle : Cells(b) \subseteq Scope[b]
    /\ Object \subseteq Bundle /\ RestartOnly \subseteq Cell

VARIABLES
    file,   \* cell -> what the configuration files (or the catalog) say
    live,   \* cell -> the value in effect
    lock,   \* the holder of the advisory lock (741093, 320), or Nobody
    pc,     \* runner -> its step
    job,    \* runner -> the bundle and the action of its command
    next,   \* runner -> its next statement
    told    \* bundle -> the last "verified" since SQL last ran for it

target == <<file, live>>
vars == <<file, live, lock, pc, job, next, told>>

----------------------------------------------------------------------------
\* The value of a cell is told by the fixes that are in it: none (the value the
\* snapshot has), or some, or one that no fix of the batch has put there.
Drifted == {0}
Value == (SUBSET Bundle) \cup {Drifted}

Action == {"apply", "rollback", "verify", "verify-rollback"}
Step == {"idle", "guard", "read", "run", "poll", "transaction", "fresh"}

\* The steps that use the connection that holds the lock.  It is still open, and
\* not used, at "poll", which opens a fresh connection each time.
Connected == {"read", "run", "transaction"}

Statements(b) == 2 * Len(Changes[b])

TypeOK ==
    /\ file \in [Cell -> Value] /\ live \in [Cell -> Value]
    /\ lock \in Runner \cup {Nobody}
    /\ pc \in [Runner -> Step]
    /\ job \in [Runner -> [bundle: Bundle, action: Action]]
    /\ next \in [Runner -> Nat]
    /\ \A r \in Runner : next[r] \in IF pc[r] \in {"run", "poll"}
                                  THEN 1..Statements(job[r].bundle) ELSE {1}
    /\ told \in [Bundle -> {"nothing", "prior", "applied"}]

\* What a terminal without a command has (nobody reads it).
NoJob == [bundle |-> 1, action |-> "verify"]

Init ==
    /\ file = [c \in Cell |-> {}] /\ live = file
    /\ lock = Nobody
    /\ pc = [r \in Runner |-> "idle"]
    /\ job = [r \in Runner |-> NoJob]
    /\ next = [r \in Runner |-> 1]
    /\ told = [b \in Bundle |-> "nothing"]

----------------------------------------------------------------------------
(* The fingerprints in fix.json: of the states before and after this fix   *)
(* in the combined test, with the preceding fixes applied.                 *)

Tested(c, n) == {a \in 1..n : c \in Cells(a)}

MatchesFiles(b, n) ==                       \* bug: what is running is not read
    \A c \in Scope[b] : file[c] = Tested(c, n)
Matches(b, n) ==
    \A c \in Scope[b] : file[c] = Tested(c, n) /\ live[c] = Tested(c, n)

\* "wanted": config["applied"] or config["prior"]; "expected" is the other one.
Wanted(j) == IF j.action \in {"apply", "verify"} THEN j.bundle ELSE j.bundle - 1
Expected(j) == IF j.action = "apply" THEN j.bundle - 1 ELSE j.bundle

----------------------------------------------------------------------------
Goto(r, step) == pc' = [pc EXCEPT ![r] = step]

\* The process ends and closes its connection, which releases the lock.
Exit(r) ==
    /\ Goto(r, "idle")
    /\ lock' = IF lock = r THEN Nobody ELSE lock
    /\ job' = [job EXCEPT ![r] = NoJob]
    /\ next' = [next EXCEPT ![r] = 1]

\* bug: an error leaves the pooled connection, and its lock, open.
BreakLocked(r) ==
    /\ pc[r] # "idle"
    /\ Goto(r, "idle")
    /\ job' = [job EXCEPT ![r] = NoJob]
    /\ next' = [next EXCEPT ![r] = 1]
    /\ UNCHANGED <<target, lock, told>>

\* A refusal, a failing statement, a lost connection, a killed process.
Break(r) ==
    /\ pc[r] # "idle"
    /\ Exit(r)
    /\ UNCHANGED <<target, told>>

Verified(r) ==
    told' = [told EXCEPT ![job[r].bundle] =
                IF job[r].action \in {"apply", "verify"} THEN "applied"
                ELSE "prior"]

\* The DBA starts "harden.sh <action> <fix>".
Command(r, b, a) ==
    /\ pc[r] = "idle"
    /\ job' = [job EXCEPT ![r] = [bundle |-> b, action |-> a]]
    /\ Goto(r, "guard")
    /\ UNCHANGED <<target, lock, next, told>>

\* bug: the answer of pg_try_advisory_lock is not looked at.
GuardUnlocked(r) ==
    /\ pc[r] = "guard"
    /\ lock' = IF lock = Nobody THEN r ELSE lock
    /\ Goto(r, "read")
    /\ UNCHANGED <<target, job, next, told>>

\* pg_try_advisory_lock; "Another DBGuard fix is running" is a Break.
Guard(r) ==
    /\ pc[r] = "guard"
    /\ lock = Nobody
    /\ lock' = r
    /\ Goto(r, "read")
    /\ UNCHANGED <<target, job, next, told>>

\* The fingerprint is read under the lock.  verify and verify-rollback answer;
\* apply and rollback go on from the expected state only (else "drift
\* detected; no SQL executed", a Break).
Read(r) ==
    LET j == job[r] IN
    /\ pc[r] = "read"
    /\ \/ /\ j.action \in {"verify", "verify-rollback"}
          /\ Matches(j.bundle, Wanted(j))
          /\ Verified(r)
          /\ Exit(r)
       \/ /\ j.action \in {"apply", "rollback"}
          /\ Matches(j.bundle, Expected(j))
          /\ Goto(r, IF j.bundle \in Object THEN "transaction" ELSE "run")
          /\ UNCHANGED <<lock, job, next, told>>
    /\ UNCHANGED target

New(j, c) == Tested(c, IF j.action = "apply" THEN j.bundle ELSE j.bundle - 1)

\* bug: the rollback statements are in the order of the changes.
ChangedForward(j, i) == Changes[j.bundle][i]

\* Rollback statements are in the reverse order of the changes.
Changed(j, i) ==
    Changes[j.bundle][IF j.action = "apply" THEN i
                      ELSE Len(Changes[j.bundle]) + 1 - i]

\* What the server takes over from its files at a reload, and at a start.
Reloaded == [c \in Cell |-> IF c \in RestartOnly THEN live[c] ELSE file[c]]

Requires(b) == IF Cells(b) \cap RestartOnly # {} THEN "restart" ELSE "reload"

Alter(j, i) ==
    /\ file' = [file EXCEPT ![Changed(j, i)] = New(j, Changed(j, i))]
    /\ UNCHANGED live

Reload == live' = Reloaded /\ UNCHANGED file

\* pg_reload_conf() only signals the server, which may act on it later
\* (OutsideReload).
SignalReload == live' \in {live, Reloaded} /\ UNCHANGED file

\* bug: one statement too many is taken from the list.
LastBut(r) == next[r] > Statements(job[r].bundle)
LastOf(r) == next[r] = Statements(job[r].bundle)

\* One autocommitted statement.  After the last one a fix of a restart
\* setting answers RESTART_REQUIRED.
Statement(r) ==
    LET j == job[r] IN
    /\ pc[r] = "run"
    /\ \E i \in 1..Len(Changes[j.bundle]) :
            \/ next[r] = 2 * i - 1 /\ Alter(j, i)
            \/ next[r] = 2 * i /\ SignalReload
    /\ \/ /\ LastOf(r) /\ Requires(j.bundle) = "restart"
          /\ Exit(r)
       \/ /\ LastOf(r) /\ Requires(j.bundle) # "restart"
          /\ Goto(r, "poll")
          /\ UNCHANGED <<lock, job, next>>
       \/ /\ ~LastOf(r)
          /\ next' = [next EXCEPT ![r] = @ + 1]
          /\ UNCHANGED <<pc, lock, job>>
    /\ told' = [told EXCEPT ![j.bundle] = "nothing"]

\* Fresh connections look for the wanted state; not finding it for ten
\* seconds is a Break.
Poll(r) ==
    /\ pc[r] = "poll"
    /\ Matches(job[r].bundle, Wanted(job[r]))
    /\ Verified(r)
    /\ Exit(r)
    /\ UNCHANGED target

\* The object's state is checked again, changed and checked, then committed;
\* the connection, and the lock with it, is closed before the fresh check.
Commit(r) ==
    LET j == job[r] IN
    /\ pc[r] = "transaction"
    /\ Matches(j.bundle, Expected(j))
    /\ file' = [c \in Cell |-> IF c \in Cells(j.bundle) THEN New(j, c) ELSE file[c]]
    /\ live' = [c \in Cell |-> IF c \in Cells(j.bundle) THEN New(j, c) ELSE live[c]]
    /\ told' = [told EXCEPT ![j.bundle] = "nothing"]
    /\ Goto(r, "fresh")
    /\ lock' = IF lock = r THEN Nobody ELSE lock
    /\ UNCHANGED <<job, next>>

\* execute_object's check connection.
Fresh(r) ==
    /\ pc[r] = "fresh"
    /\ Matches(job[r].bundle, Wanted(job[r]))
    /\ Verified(r)
    /\ Exit(r)
    /\ UNCHANGED target

----------------------------------------------------------------------------
(* The rest of the world. *)

\* Somebody reloads the configuration.
OutsideReload == Reload /\ UNCHANGED <<lock, pc, job, next, told>>

\* The DBA restarts PostgreSQL: every connection is lost, and the lock with it.
\* A command that polls goes on without it, or breaks off.
Restart ==
    /\ live' = file
    /\ lock' = Nobody
    /\ pc' = [r \in Runner |-> IF pc[r] \in Connected THEN "idle" ELSE pc[r]]
    /\ job' = [r \in Runner |-> IF pc[r] \in Connected THEN NoJob ELSE job[r]]
    /\ next' = [r \in Runner |-> IF pc[r] \in Connected THEN 1 ELSE next[r]]
    /\ UNCHANGED <<file, told>>

\* Somebody changes, or repairs, a setting that no fix of the batch changes.
Drift(c) ==
    /\ \A b \in Bundle : c \notin Cells(b)
    /\ \E v \in {{}, Drifted} :
            /\ file' = [file EXCEPT ![c] = v]
            /\ live' = [live EXCEPT ![c] = v]
    /\ UNCHANGED <<lock, pc, job, next, told>>

Advance(r) ==
    Guard(r) \/ Read(r) \/ Statement(r) \/ Poll(r) \/ Commit(r) \/ Fresh(r)

Next ==
    \/ \E r \in Runner, b \in Bundle, a \in Action : Command(r, b, a)
    \/ \E r \in Runner : Advance(r) \/ Break(r)
    \/ OutsideReload \/ Restart
    \/ \E c \in Cell : Drift(c)

Spec == Init /\ [][Next]_vars

\* A command ends: connections, statements and the poll have timeouts.
FairSpec == Spec /\ \A r \in Runner : WF_vars(Advance(r) \/ Break(r))

----------------------------------------------------------------------------
(* What must hold. *)

Holds(b, c) == b \in file[c]
InEffect(b) == \A c \in Cells(b) : Holds(b, c) /\ b \in live[c]

\* "The per-fix guard expects the preceding fixes to remain applied"
\* (batch.py, the batch's README.txt): whatever commands, restarts and broken
\* connections interleave, as long as any part of a fix is in the files, every
\* fix before it in the tested order is completely in effect.  So the target
\* only ever is in a state of the combined test, or in the middle of one fix.
PrecedingInEffect ==
    \A a, b \in Bundle :
        a < b /\ (\E c \in Cells(b) : Holds(b, c)) => InEffect(a)

\* What the answer of a command claims about its fix.
ToldTrue(b) ==
    \A c \in Cells(b) :
        /\ told[b] = "applied" => Holds(b, c) /\ b \in live[c]
        /\ told[b] = "prior" => ~Holds(b, c) /\ b \notin live[c]

\* "verified" stays true until SQL of the same fix runs again: across other
\* fixes, also of the same setting, reloads, restarts and commands that break
\* off in the middle.
VerifiedStaysTrue == \A b \in Bundle : ToldTrue(b)

\* While a runner is between its drift check and its last statement no other
\* command's SQL runs.
OneWriter ==
    \A r, q \in Runner :
        pc[r] \in {"run", "transaction"} /\ pc[q] \in {"run", "transaction"}
            => r = q

\* The advisory lock is never held for ever.
LockComesFree == \A r \in Runner : lock = r ~> lock # r
=============================================================================
