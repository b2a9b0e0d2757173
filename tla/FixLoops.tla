------------------------------ MODULE FixLoops ------------------------------
(***************************************************************************)
(* The rehearsal of a per-object fix (workflow.ObjectRemediationLoop) and  *)
(* of a catalog-linked setting fix (catalog_fixes.CatalogFixLoop), from    *)
(* the collected evidence through the disposable server to the DBA's own   *)
(* application of the verified fix on the target with the exported bundle. *)
(*                                                                         *)
(* Every docker or psql call may fail with its effect done or not; the     *)
(* process may be killed, which runs no finally block.                     *)
(***************************************************************************)
EXTENDS ObjectFixes, CatalogFixes

CONSTANTS
  Sources,      \* the targets a snapshot was collected from: [o, s] records
  Envs,         \* collecting accounts, policy profile, spec set, the sandbox image's libraries
  MaxAttempts   \* max_attempts

ASSUME AttemptsAssumption == MaxAttempts \in 1 .. 3
ASSUME SourcesAssumption ==
  \A x \in Sources : x = [o |-> x.o, s |-> x.s] /\ Possible(x.o) /\ HasSettings(x.s)
ASSUME EnvsAssumption == \A e \in Envs : e.limit \in Int /\ e.classes \subseteq Classes

VARIABLES
  source,       \* the snapshot: catalog o and settings s
  env,          \* collectors, profile, image and the rest of the spec set
  fix,          \* the fix of this run
  pc, exn,      \* where attempt() stands, and the exception in flight
  box,          \* the disposable server of the current attempt
  accepted,     \* the fix passed its acceptance in this attempt
  attempt,      \* len(attempts) + 1
  containers,   \* attempts whose container exists
  status,       \* the last attempt's status
  faulty,       \* some call failed or the process was killed
  target, held, \* the real server, and how far the DBA applied the fix on it
  dba, found    \* who runs the bundle and which libraries load there; the target then

run == <<source, env, fix>>
box_vars == <<box, accepted, containers>>
target_vars == <<target, held, dba, found>>
vars == <<run, pc, exn, box_vars, attempt, status, faulty, target_vars>>

Step == {"idle", "test", "start", "reproduce", "apply", "reassess", "rollback", "close",
         "end", "aborted"}
Running == {"start", "reproduce", "apply", "reassess", "rollback", "close"}

\* Any docker or psql call: ContractError, another Exception, KeyboardInterrupt.
Raised == {"contract", "error", "interrupt"}

\* PRELOAD_LOAD_TESTS.
Tested == {"pgaudit", "passwordcheck"}
Nobody == [account |-> "none", loadable |-> {}]

TypeOK ==
  /\ box.s.preload.origin \in Lists!Origin /\ target.s.preload.origin \in Lists!Origin
  /\ \A r \in DOMAIN box.o.role : box.o.role[r].attrs \subseteq Attributes
  /\ fix.kind \in {"none", "object", "catalog"}
  /\ pc \in Step /\ exn \in Raised \cup {"none", "start"}
  /\ accepted \in BOOLEAN /\ faulty \in BOOLEAN
  /\ attempt \in 1 .. MaxAttempts /\ containers \subseteq 1 .. MaxAttempts
  /\ status \in {"PENDING", "VERIFIED", "FAILED", "CLEANUP_FAILED"}
  /\ held \in {"prior", "found", "refused", "applied", "undone", "stuck"}
  /\ dba.account = Nobody.account \/ dba.loadable \subseteq Tested
----------------------------------------------------------------------------
(* prepare(): the fixes the evidence offers, re-derived on the server side.  *)

NoFix == [kind |-> "none", control |-> "none", object |-> {}, changes |-> <<>>]
ObjectFix(p) == [NoFix EXCEPT !.kind = "object", !.object = {p}]
CatalogFix(c) == [NoFix EXCEPT !.kind = "catalog", !.control = c,
                               !.changes = Changes(c, source.s, env)]

Object == CHOOSE p \in fix.object : TRUE
IsObject == fix.kind = "object"

Offered ==
  {ObjectFix(p) : p \in {q \in Proposals(source.o, env) :
                           /\ Rehearsable(source.o, q)
                           /\ PriorHolds(source.o, q, source.o) /\ ~Predicate(source.o, q)}}
  \cup {CatalogFix(c) : c \in {d \in FixControls :
                                 OffersFix(d, source.s, env) /\ Plannable(d, source.s)}}

EmptyBox == [o |-> [role |-> [r \in {} |-> BareRole], acl |-> {}, definer |-> FALSE, exec |-> {}],
             s |-> ImageServer]

Init ==
  /\ source \in Sources /\ env \in Envs
  /\ fix = NoFix /\ pc = "idle" /\ exn = "none"
  /\ box = EmptyBox /\ accepted = FALSE /\ containers = {}
  /\ attempt = 1 /\ status = "PENDING" /\ faulty = FALSE
  /\ target = source /\ held = "prior" /\ dba = Nobody /\ found = source

Prepare ==
  /\ pc = "idle"
  /\ fix' \in Offered
  /\ pc' = "test"
  /\ UNCHANGED <<source, env, exn, box_vars, attempt, status, faulty, target_vars>>

TestFix ==
  /\ pc = "test"
  /\ pc' = "start" /\ exn' = "none" /\ accepted' = FALSE
  /\ UNCHANGED <<run, box, containers, attempt, status, faulty, target_vars>>
----------------------------------------------------------------------------
(* The two bodies of attempt().                                             *)

Reproduced ==
  IF IsObject THEN [EmptyBox EXCEPT !.o = StandIn(source.o, Object)]
  ELSE [EmptyBox EXCEPT !.s = StandInServer(fix.control, source.s)]

\* "The stand-in copy does not reproduce the source object", "Reconstruction did
\* not preserve configuration provenance", "did not reproduce the source FAIL".
SameAsSource(b) ==
  IF IsObject
  THEN /\ SameObject(b.o, Object, source.o) /\ PriorHolds(b.o, Object, source.o)
       /\ ~Predicate(b.o, Object)
  ELSE /\ SameSettings(fix.control, b.s, source.s, FixNames(fix.control, source.s, fix.changes))
       /\ Result(fix.control, b.s, env) = "FAIL"

\* activate() polls until each reproduced setting runs with the source's value.
ValuesReached(b) ==
  ~IsObject => \A n \in ReconstructionNames(fix.control, source.s) \ {"path", "protocol"} :
                 b.s[n].live = source.s[n].live

\* enable_sandbox_tls: no line for ssl may be written, and TLS 1.2 be possible.
TLSRefused == fix.control = "6.10" /\ (env.reads_ssl \/ source.s.protocol = "TLSv1.3")

\* tls_evidence: the list must leave the throwaway certificate a cipher.
NoHandshake == fix.control = "6.10" /\ ~env.handshake

AllChanges == Len(fix.changes)

\* The apply phase up to its reassessment: one transaction, or one psql call per
\* statement and then the activation.
Done(b) ==
  IF IsObject THEN [b EXCEPT !.o = Applied(@, Object)]
  ELSE [b EXCEPT !.s = Activate(AppliedUpTo(@, fix.changes, AllChanges))]

PartlyDone(b) ==
  {b, Done(b)} \cup IF IsObject THEN {}
    ELSE {[b EXCEPT !.s = AppliedUpTo(@, fix.changes, n)] : n \in 0 .. AllChanges}

\* PostgreSQL cannot restart with the statements applied.
StartFails(b) == ~IsObject /\ CannotStart(AppliedUpTo(b.s, fix.changes, AllChanges), env.installed)

Acceptable(b) ==
  IF IsObject
  THEN Predicate(b.o, Object) /\ OthersUnchanged(b.o, Object, StandIn(source.o, Object))
  ELSE Accepted(fix.control, StandInServer(fix.control, source.s), b.s, fix.changes, env)

Restored(b) ==
  IF IsObject THEN [b EXCEPT !.o = Undone(@, Object)]
  ELSE [b EXCEPT !.s = Activate(RolledBack(@, fix.changes))]

PartlyRestored(b) ==
  {b, Restored(b)} \cup IF IsObject THEN {} ELSE {[b EXCEPT !.s = RolledBack(@, fix.changes)]}

\* rollback_verified: the object as on the source, the others as before, or the
\* exact provenance and the same FAIL.
ExactlyRestored(b) ==
  /\ SameAsSource(b)
  /\ IsObject => OthersUnchanged(b.o, Object, StandIn(source.o, Object))
----------------------------------------------------------------------------
(* attempt()                                                                *)

Fault(e) == exn' = e /\ faulty' = TRUE

\* A failed docker run may or may not have made the container.
Start ==
  /\ pc = "start"
  /\ box' = EmptyBox
  /\ \/ /\ containers' = containers \cup {attempt}
        /\ pc' = "reproduce" /\ UNCHANGED <<exn, faulty>>
     \/ /\ containers' \in {containers, containers \cup {attempt}}
        /\ pc' = "close" /\ \E e \in Raised : Fault(e)
  /\ UNCHANGED <<run, accepted, attempt, status, target_vars>>

\* The plan holds every setting of the spec set: the others must come back too.
Reproducible == SameAsSource(Reproduced) /\ env.others_in_force /\ ~TLSRefused /\ ~NoHandshake

Reproduce ==
  /\ pc = "reproduce"
  /\ LET missing == ~IsObject /\ CannotStart(BeforeStart(fix.control, source.s), env.installed) IN
     \/ /\ ~missing
        /\ box' = Reproduced
        /\ IF Reproducible THEN pc' = "apply" /\ UNCHANGED exn
           ELSE /\ pc' = "close"
                /\ \/ ~env.others_in_force /\ exn' \in {"contract", "error"}
                   \/ /\ env.others_in_force
                      /\ exn' = IF ValuesReached(Reproduced) /\ (TLSRefused \/ ~SameAsSource(Reproduced))
                                THEN "contract" ELSE "error"
        /\ UNCHANGED faulty
     \/ /\ missing
        /\ exn' = "start" /\ pc' = "close" /\ UNCHANGED <<box, faulty>>
     \/ /\ \E e \in Raised \cup {"start"} : Fault(e)   \* a restart may also time out
        /\ pc' = "close" /\ UNCHANGED box
  /\ UNCHANGED <<run, accepted, containers, attempt, status, target_vars>>

\* A server that does not come back from its restart, because it cannot or in
\* time, gets no rollback SQL; every other failure does.
Apply ==
  /\ pc = "apply"
  /\ \/ /\ ~StartFails(box)
        /\ IF IsObject /\ Refused(box.o, Object)
           THEN exn' = "error" /\ pc' = "rollback" /\ UNCHANGED box
           ELSE box' = Done(box) /\ pc' = "reassess" /\ UNCHANGED exn
        /\ UNCHANGED faulty
     \/ /\ ~IsObject /\ Changed(fix.changes, "preload")
        /\ box' = [box EXCEPT !.s = AppliedUpTo(@, fix.changes, AllChanges)]
        /\ exn' = "start" /\ pc' = "close" /\ faulty' = (faulty \/ ~StartFails(box))
     \/ /\ box' \in PartlyDone(box)
        /\ pc' = "rollback" /\ \E e \in Raised : Fault(e)
  /\ UNCHANGED <<run, accepted, containers, attempt, status, target_vars>>

Reassess ==
  /\ pc = "reassess"
  /\ pc' = "rollback"
  /\ \/ /\ accepted' = Acceptable(box)
        /\ exn' = IF Acceptable(box) THEN "none" ELSE "error"
        /\ UNCHANGED faulty
     \/ /\ \E e \in Raised : Fault(e)
        /\ UNCHANGED accepted
  /\ UNCHANGED <<run, box, containers, attempt, status, target_vars>>

\* The finally block: what it raises replaces the exception in flight.
Rollback ==
  /\ pc = "rollback"
  /\ pc' = "close"
  /\ \/ /\ box' = Restored(box)
        /\ exn' = IF ExactlyRestored(Restored(box)) THEN exn ELSE "error"
        /\ UNCHANGED faulty
     \/ /\ box' \in PartlyRestored(box)
        /\ \E e \in Raised \cup (IF IsObject THEN {} ELSE {"start"}) : Fault(e)
  /\ UNCHANGED <<run, accepted, containers, attempt, status, target_vars>>

\* Mutant: decided before the rollback.
OutcomeIfAccepted(cleaned) ==
  IF ~cleaned THEN "CLEANUP_FAILED" ELSE IF accepted THEN "VERIFIED" ELSE "FAILED"

Outcome(cleaned) ==
  IF ~cleaned THEN "CLEANUP_FAILED" ELSE IF exn = "none" THEN "VERIFIED" ELSE "FAILED"

\* Mutant: a cleanup that could not be confirmed is retried like any error.
DoneWithLeak(cleaned) == exn \in {"none", "contract"} \/ attempt = MaxAttempts

\* Mutant: the attempts are not counted.
NeverEnough(cleaned) == ~cleaned \/ exn \in {"none", "contract"}

\* The object loop has no except clause of its own for SandboxStartError.
DoneAfter(cleaned) ==
  \/ ~cleaned \/ exn \in {"none", "contract"} \/ attempt = MaxAttempts
  \/ exn = "start" /\ ~IsObject

Close ==
  /\ pc = "close"
  /\ \E cleaned \in BOOLEAN :
       /\ containers' \in IF cleaned THEN {containers \ {attempt}}
                          ELSE {containers, containers \ {attempt}}
       /\ faulty' = (faulty \/ ~cleaned)
       /\ status' = Outcome(cleaned)
       /\ IF exn = "interrupt" THEN pc' = "aborted" /\ UNCHANGED attempt
          ELSE IF DoneAfter(cleaned) THEN pc' = "end" /\ UNCHANGED attempt
          ELSE pc' = "test" /\ attempt' = attempt + 1
  /\ UNCHANGED <<run, exn, box, accepted, target_vars>>

\* The process dies; the container, when there is one, stays.
Kill ==
  /\ pc \in Running
  /\ pc' = "aborted" /\ faulty' = TRUE
  /\ UNCHANGED <<run, exn, box_vars, attempt, status, target_vars>>
----------------------------------------------------------------------------
(* review_bundle: what a verified run must show to become a bundle.        *)

Usable == pc = "end" /\ status = "VERIFIED"

\* The collected object, or the settings of the fix with their sources: the
\* fingerprint that makes the bundle's prior and applied states.
Matches(b, reviewed) ==
  IF IsObject THEN SameObject(b.o, Object, reviewed.o)
  ELSE SameSettings(fix.control, b.s, reviewed.s, FixNames(fix.control, source.s, fix.changes))

\* The stand-in of the verified attempt with the fix.
Rehearsed == Done(Reproduced)

\* Every proof again, from the recorded collections.
ProofsHold ==
  /\ SameAsSource(Reproduced) /\ Matches(Reproduced, source)
  /\ Acceptable(Rehearsed)
  /\ ExactlyRestored(Restored(Rehearsed)) /\ Matches(Restored(Rehearsed), source)

ObjectExports == ProofsHold /\ ~Matches(Rehearsed, source)

\* "the fix values are not the applied values".
CatalogExports ==
  /\ ProofsHold
  /\ \A i \in 1 .. AllChanges : Rehearsed.s[fix.changes[i].param].live = fix.changes[i].apply.value

Exportable == Usable /\ IF IsObject THEN ObjectExports ELSE CatalogExports

(* The bundle's runner on the target; the DBA restarts it where needed.    *)

\* Without a change of the library list nobody restarts the target.
OnTarget(t, result) ==
  IF IsObject \/ Changed(fix.changes, "preload") THEN result
  ELSE [result EXCEPT !.s.preload = t.s.preload]

\* What other administrators may have changed since the snapshot.
Drifted(t) ==
  IF IsObject
  THEN {[t EXCEPT !.o.role[r].limit = 3] : r \in DOMAIN t.o.role}
       \cup {[t EXCEPT !.o.acl = @ \cup {Grant(Outsider, TableOwner, "UPDATE", FALSE)}],
             [t EXCEPT !.o.exec = @ \cup {Grant(Outsider, TableOwner, "EXECUTE", FALSE)}],
             [t EXCEPT !.o.definer = ~@]}
  ELSE {[t EXCEPT !.s.audit = Audit!Loaded([@ EXCEPT !.auto = {"read", "ddl"}])],
        [t EXCEPT !.s.ciphers = Ciphers!Loaded([@ EXCEPT !.auto = "empty"])],
        [t EXCEPT !.s.path = "/opt"], [t EXCEPT !.s.protocol = "TLSv1.3"],
        [t EXCEPT !.s.preload.auto = List(<<OtherLibrary>>, "canonical")]}

\* A superuser runs the bundle, a reviewed library is installed there or not;
\* each is a choice only where the fix depends on it.
DBAConnects ==
  /\ held = "prior" /\ Exportable
  /\ held' = "found"
  /\ \E account \in IF IsObject /\ Object.type \in RoleFixes
                    THEN {r \in DOMAIN source.o.role :
                            "SUPERUSER" \in source.o.role[r].attrs /\ source.o.role[r].login}
                    ELSE {Bootstrap},
       loadable \in IF Changed(fix.changes, "preload") THEN SUBSET Tested ELSE {{}} :
       dba' = [account |-> account, loadable |-> loadable]
  /\ target' \in {target} \cup Drifted(target) /\ found' = target'
  /\ UNCHANGED <<run, pc, exn, box_vars, attempt, status, faulty>>

\* object_safety: never the bootstrap superuser, a pg_ role or the connected account.
ObjectSafe == Object.type \in RoleFixes => Object.on \notin Predefined \cup {Bootstrap, dba.account}

\* check_setting_statements: a library list only as the reviewed list or a RESET.
ReviewedStatements ==
  \A i \in 1 .. AllChanges : fix.changes[i].param = "preload" =>
    \A act \in {fix.changes[i].apply, fix.changes[i].undo} :
      \/ act.action = "reset_config"
      \/ /\ act.value.items # <<>> /\ Writable(act.value)
         /\ Cardinality({act.value.items[n] : n \in DOMAIN act.value.items}) = Len(act.value.items)

\* preload_additions: every library of the new list the target does not load yet.
Additions ==
  UNION {LET new == fix.changes[i].apply.value.items
         IN {new[n] : n \in DOMAIN new} \ {target.s.preload.live.items[n] : n \in DOMAIN target.s.preload.live.items} :
         i \in {j \in 1 .. AllChanges : fix.changes[j].param = "preload"}}

\* preload_guard: LOAD of each in a session of its own, reviewed names only.
PreloadGuard == Additions \subseteq Tested \cap dba.loadable

\* execute_object: one transaction, kept only when it gives the tested state.
Committed(result, wanted) == IF Matches(result, wanted) THEN result ELSE target

RunnerAllows ==
  /\ Matches(target, source)
  /\ IF IsObject THEN ObjectSafe ELSE ReviewedStatements /\ PreloadGuard

\* The runner's verification in fresh connections, after apply and rollback.
Verified(wanted) == Matches(target, wanted)

ApplyOnTarget ==
  /\ held = "found"
  /\ target' = IF ~RunnerAllows \/ (IsObject /\ Refused(target.o, Object)) THEN target
               ELSE IF IsObject THEN Committed(Done(target), Rehearsed)
               ELSE OnTarget(target, Done(target))
  /\ held' = IF target' = target THEN "refused" ELSE "applied"
  /\ UNCHANGED <<run, pc, exn, box_vars, attempt, status, faulty, dba, found>>

UndoOnTarget ==
  /\ held = "applied"
  /\ target' = IF ~Verified(Rehearsed) THEN target
               ELSE IF ~IsObject THEN OnTarget(target, Restored(target))
               ELSE IF ObjectSafe THEN Committed(Restored(target), source) ELSE target
  /\ held' = IF target' = target THEN "stuck" ELSE "undone"
  /\ UNCHANGED <<run, pc, exn, box_vars, attempt, status, faulty, dba, found>>

Next ==
  \/ Prepare \/ TestFix \/ Start \/ Reproduce \/ Apply \/ Reassess \/ Rollback \/ Close \/ Kill
  \/ DBAConnects \/ ApplyOnTarget \/ UndoOnTarget

Spec == Init /\ [][Next]_vars
----------------------------------------------------------------------------
(* Properties.                                                              *)

\* An offered fix goes through its rehearsal when nothing fails: the stand-in
\* reproduces the source, PostgreSQL takes the statements, the check passes,
\* nothing else changes and the rollback is exact.  What may stop it: a file that
\* was edited on the source and not read since, be it for another setting of the
\* spec set; a library the sandbox image lacks; and for 6.10 a source on which no
\* TLS 1.2 handshake can be rehearsed.  And what is verified can be exported.
OfferedFixVerifies ==
  /\ pc = "end" /\ ~faulty /\ status # "VERIFIED" =>
       \/ ~env.others_in_force
       \/ /\ ~IsObject
          /\ \/ CannotStart(BeforeStart(fix.control, source.s), env.installed)
             \/ StartFails([EmptyBox EXCEPT !.s = StandInServer(fix.control, source.s)])
             \/ ~InForce(source.s, ReconstructionNames(fix.control, source.s))
             \/ TLSRefused \/ NoHandshake
  /\ Usable /\ held = "prior" => Exportable

\* What a reload of the target's files would give.
FilesRead(t) ==
  IF IsObject THEN t ELSE [t EXCEPT !.s.audit = Audit!Loaded(@), !.s.ciphers = Ciphers!Loaded(@)]

\* What was rehearsed on the stand-in holds on the target, whatever changed
\* there since the snapshot: the runner refuses without a change, and only for
\* a reason of the target's, or the applied fix verifies and really fixes it; its
\* rollback is never refused and gives back exactly what the DBA found, with the
\* files of the reloaded settings read; the library list lets the server start
\* again; and neither takes login or powers from the bootstrap superuser, the
\* collecting accounts or the connected account. Connection limits are not part
\* of it: one set on a collecting account is only noted (object_fixes.py 425-428).
TargetStaysUsable ==
  /\ held = "refused" =>
       /\ target = found
       /\ \/ found # source
          \/ IF IsObject THEN Object.on = dba.account ELSE ~(Additions \subseteq dba.loadable)
  /\ held = "applied" =>
       /\ Verified(Rehearsed)
       /\ IF IsObject THEN Predicate(target.o, Object)
          ELSE Result(fix.control, Reconnected(target.s), env) = "PASS"
       /\ \A i \in DOMAIN target.s.preload.live.items :
            \/ \E j \in DOMAIN found.s.preload.live.items :
                 found.s.preload.live.items[j] = target.s.preload.live.items[i]
            \/ target.s.preload.live.items[i] \in dba.loadable
  /\ held # "stuck"
  /\ held = "undone" => target = FilesRead(found)
  /\ \A r \in ({Bootstrap, dba.account} \cup env.collected_by \cup env.login_role) \cap DOMAIN found.o.role :
       /\ target.o.role[r].login = found.o.role[r].login
       /\ target.o.role[r].attrs = found.o.role[r].attrs

\* A container without a running attempt is one the record admits to (an
\* unconfirmed cleanup) or one a killed process left; there is never a second
\* attempt beside it, and a verified fix left nothing.
ContainersAccountedFor ==
  /\ containers \subseteq {attempt}
  /\ containers # {} => pc \in Running \cup {"aborted"} \/ status = "CLEANUP_FAILED"
  /\ pc = "end" /\ status = "VERIFIED" => containers = {}

\* Each of these loops keeps the promise of Rehearsal.
StageOf ==
  CASE pc \in {"start", "reproduce"} -> "created"
    [] pc \in {"apply", "reassess"}  -> "reproduced"
    [] pc = "rollback" -> IF accepted /\ exn = "none" THEN "accepted" ELSE "failed"
    [] pc = "close"    -> IF exn = "none" THEN "undone" ELSE "failed"
    [] OTHER -> "none"

VerdictOf == CASE pc = "end" -> status [] pc = "aborted" -> "ABORTED" [] OTHER -> "open"

Promise == INSTANCE Rehearsal WITH stage <- StageOf, verdict <- VerdictOf

\* The refinement: reproduced, accepted and undone in one and the same server.
KeepsPromise == Promise!Spec
=============================================================================
