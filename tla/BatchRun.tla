------------------------------- MODULE BatchRun -------------------------------
(***************************************************************************)
(* A batch of fixes (services/sandbox_poc/batch.py, run_batch): each fix   *)
(* is tested alone by the loop of its kind, then all of them are applied   *)
(* one after the other in one disposable server, in the recommended or the *)
(* DBA's order, and rolled back in reverse.  A batch that passes is        *)
(* exported as bundles for module TargetRunner.                            *)
(*                                                                         *)
(* Like the loops, a batch is one thread with a private server: what is    *)
(* hard is the server a failing step leaves behind, and that a rollback    *)
(* must restore the state the fixes before it had made, not the source.    *)
(***************************************************************************)
EXTENDS Naturals, Sequences, FiniteSets

CONSTANTS
    Fix,        \* the fixes a snapshot offers: numbers, in the order of fix_id
    Kind,       \* fix -> "setting", "catalog" or "object"
    Cell,       \* settings and object attributes
    Changes,    \* fix -> the cells its statements change, in order
    Chainable,  \* cells to which a catalog fix appends
    RestartOnly,\* settings of postmaster context
    Depends,    \* fix -> the fixes it must follow
    Rank,       \* fix -> its operational risk
    MaxBatch    \* fixes in one batch (the code allows six)

Cells(f) == {Changes[f][i] : i \in DOMAIN Changes[f]}

ASSUME BatchAssumption ==
    /\ Fix \subseteq Nat
    /\ Kind \in [Fix -> {"setting", "catalog", "object"}]
    /\ Changes \in [Fix -> Seq(Cell)]
    /\ \A f \in Fix :
            /\ Changes[f] # <<>>
            /\ \A i, k \in DOMAIN Changes[f] : Changes[f][i] = Changes[f][k] => i = k
    /\ \A f, g \in Fix : Cells(f) \cap Cells(g) # {} =>
            (Kind[f] = "object" <=> Kind[g] = "object")
    /\ Chainable \subseteq Cell /\ RestartOnly \subseteq Cell
    /\ Depends \in [Fix -> SUBSET Fix] /\ Rank \in [Fix -> Nat]
    /\ MaxBatch \in 2..6

VARIABLES
    requests,   \* the selected fixes, in the order of the request
    pc,         \* the step of the batch
    single,     \* fix -> the status of its individual run
    history,    \* the fixes whose individual run is recorded
    recorded,   \* the result of the batch is recorded
    order,      \* the order of the combined test
    box,        \* the server of the combined test
    container,  \* it exists on the Docker host
    applied,    \* how many fixes of the order were marked as applied
    pending,    \* the re-derived rollbacks of catalog fixes
    steps,      \* record["steps"]
    undo,       \* the position of the fix the rollback loop is at
    rolled,     \* record["rollback"]
    status,     \* record["status"]
    export,     \* the bundles of the result
    answer      \* what run_batch came to

combined == <<box, container, applied, pending, steps, undo, rolled, status>>
vars == <<requests, pc, single, history, order, combined, export, recorded,
          answer>>

----------------------------------------------------------------------------
\* A value is told by the fixes in it: {} is the value the snapshot has.
Value == SUBSET Fix
Box == [file: [Cell -> Value], live: [Cell -> Value]]

\* What a collection of the server reports is the whole box.
Source == [file |-> [c \in Cell |-> {}], live |-> [c \in Cell |-> {}]]

Step == {"validate", "single", "order", "start", "reproduce", "apply", "sql",
         "activate", "gate", "rollback", "reactivate", "check", "close",
         "export", "deliver", "done"}

Single == {"none", "VERIFIED", "FAILED", "CLEANUP_FAILED", "NEEDS_REVIEW"}
Status == {"FAILED", "VERIFIED", "CLEANUP_FAILED"}

Selected == {requests[i] : i \in DOMAIN requests}

TypeOK ==
    /\ requests \in Seq(Fix) /\ Len(requests) \in 2..MaxBatch
    /\ pc \in Step
    /\ single \in [Fix -> Single]
    /\ history \subseteq Fix /\ recorded \in BOOLEAN
    /\ order \in Seq(Fix)
    /\ box \in Box /\ container \in BOOLEAN
    /\ applied \in 0..Len(order) /\ undo \in 0..applied
    /\ pending \subseteq [fix: Fix, prior: Box]
    /\ steps \in Seq([fix: Fix, before: Box, after: Box])
    /\ Len(steps) <= applied
    /\ rolled \in Seq([fix: Fix, verified: BOOLEAN])
    /\ status \in Status
    /\ export \in Seq([fix: Fix, prior: Box, applied: Box])
    /\ answer \in {"none", "refused", "individual"} \cup Status

Init ==
    /\ requests \in UNION {[1..n -> Fix] : n \in 2..MaxBatch}
    /\ \A i, k \in DOMAIN requests : requests[i] = requests[k] => i = k
    /\ pc = "validate" /\ single = [f \in Fix |-> "none"]
    /\ history = {} /\ recorded = FALSE /\ order = <<>>
    /\ box = Source /\ container = FALSE
    /\ applied = 0 /\ pending = {} /\ steps = <<>> /\ undo = 0 /\ rolled = <<>>
    /\ status = "FAILED" /\ export = <<>> /\ answer = "none"

Refused == pc' = "done" /\ answer' = "refused"

----------------------------------------------------------------------------
(* Before the combined test. *)

Conflict(f, g) == f # g /\ Cells(f) \cap Cells(g) # {}

\* object_conflicts, before anything runs.
ObjectConflict ==
    \E f, g \in Selected : Kind[f] = "object" /\ Conflict(f, g)

Validate ==
    /\ pc = "validate"
    /\ \/ ~ObjectConflict /\ pc' = "single" /\ UNCHANGED answer
       \/ Refused
    /\ UNCHANGED <<requests, single, history, order, combined, export, recorded>>

Unrun == {i \in DOMAIN requests : single[requests[i]] = "none"}

\* service.run promises what module Rehearsal says.  It may raise, and so may
\* build_review_bundle, which precedes the record.
RunSingle ==
    /\ pc = "single"
    /\ \E i \in Unrun :
        LET f == requests[i] IN
        /\ \A k \in Unrun : i <= k
        /\ \/ \E s \in Single \ {"none"} :
                /\ s = "NEEDS_REVIEW" => Kind[f] = "setting"
                /\ single' = [single EXCEPT ![f] = s]
                /\ history' = history \cup {f}
                /\ IF s # "VERIFIED" THEN pc' = "done" /\ answer' = "individual"
                   ELSE /\ pc' = IF Unrun = {i} THEN "order" ELSE "single"
                        /\ UNCHANGED answer
           \/ \E s \in {"none", "VERIFIED"} :
                /\ single' = [single EXCEPT ![f] = s]
                /\ UNCHANGED history
                /\ Refused
    /\ UNCHANGED <<requests, order, combined, export, recorded>>

(* recommend_order *)

\* Catalog fixes may share a setting they append to.
SettingConflict ==
    \E f, g \in Selected : \E c \in Cells(f) \cap Cells(g) :
        /\ f # g
        /\ ~(c \in Chainable /\ Kind[f] = "catalog" /\ Kind[g] = "catalog")

Ready(done) == {f \in Selected \ done : Depends[f] \subseteq done}

\* The order of the sort key (risk, fix_id).
Before(f, g) == Rank[f] < Rank[g] \/ (Rank[f] = Rank[g] /\ f < g)

Orders == {s \in [DOMAIN requests -> Selected] :
            \A i \in DOMAIN s : \A k \in 1..(i - 1) : s[k] # s[i]}
Front(s, n) == {s[k] : k \in 1..n}

Recommended(s) ==
    \A i \in DOMAIN s :
        LET ready == Ready(Front(s, i - 1)) IN
        s[i] \in ready /\ \A f \in ready \ {s[i]} : Before(s[i], f)

\* The checks on requested_order.
AllowedUnchecked(s) == TRUE                 \* bug: prerequisites are not looked at
Allowed(s) == \A i \in DOMAIN s : Depends[s[i]] \subseteq Front(s, i - 1)

\* Recommended first (it refuses conflicts and missing or cyclic dependencies),
\* then the DBA's order if there is one.
ChooseOrder ==
    /\ pc = "order"
    /\ \/ /\ ~SettingConflict
          /\ \E s \in Orders :
                /\ Recommended(s)
                /\ order' \in {s} \cup {r \in Orders : Allowed(r)}
          /\ pc' = "start"
          /\ UNCHANGED answer
       \/ /\ Refused
          /\ UNCHANGED order
    /\ UNCHANGED <<requests, single, history, combined, export, recorded>>

----------------------------------------------------------------------------
(* The combined test.  An exception in the try block makes the batch FAILED *)
(* and goes on to the rollback of the fixes marked as applied.              *)

Outside ==
    UNCHANGED <<requests, single, history, order, export, recorded, answer>>

FailAtEnd(n) ==                             \* bug: unapplied fixes are undone too
    pc' = "rollback" /\ undo' = Len(order) /\ status' = "FAILED"
FailAt(n) == pc' = "rollback" /\ undo' = n /\ status' = "FAILED"
Fail == FailAt(applied)

Start ==
    /\ pc = "start"
    /\ \/ container' = TRUE /\ pc' = "reproduce" /\ UNCHANGED <<undo, status>>
       \/ container' \in BOOLEAN /\ Fail
    /\ UNCHANGED <<box, applied, pending, steps, rolled>> /\ Outside

\* reconstruct, the stand-in of the objects, and the baseline checks.
Reproduce ==
    /\ pc = "reproduce"
    /\ \/ pc' = "apply" /\ UNCHANGED <<undo, status>>
       \/ Fail
    /\ UNCHANGED <<box, container, applied, pending, steps, rolled>> /\ Outside

\* The snapshot the next step starts from.
Previous == IF steps = <<>> THEN Source ELSE steps[Len(steps)].after

Current == order[applied]

\* The fix is marked before its SQL.  A catalog fix is derived again from the
\* combined server, and its rollback kept, before any of its SQL runs; a fix
\* that fails while it is derived is marked but has no rollback.
Mark ==
    /\ pc = "apply"
    /\ applied' = applied + 1
    /\ LET f == order[applied + 1] IN
       IF Kind[f] = "catalog"
       THEN \/ /\ pending' = pending \cup {[fix |-> f, prior |-> Previous]}
               /\ pc' = "sql"
               /\ UNCHANGED <<undo, status>>
            \/ FailAt(applied + 1) /\ UNCHANGED pending
       ELSE pc' = "sql" /\ UNCHANGED <<pending, undo, status>>
    /\ UNCHANGED <<box, container, steps, rolled>> /\ Outside

\* A catalog fix extends the list it finds; the other fixes set their value.
New(f, c) ==
    IF Kind[f] = "catalog" /\ c \in Chainable THEN Previous.file[c] \cup {f}
    ELSE {f}

----------------------------------------------------------------------------
(* Scripts of ALTER SYSTEM statements stop anywhere; a script in one        *)
(* transaction runs or does not.  to[c] is the value the script gives c.    *)

\* What ALTER SYSTEM does to the first n of the cells; a reload; a start.
Altered(b, cells, n, to) ==
    [b EXCEPT !.file = [c \in Cell |->
        IF \E i \in 1..n : cells[i] = c THEN to[c] ELSE @[c]]]
Reloaded(b) ==
    [b EXCEPT !.live = [c \in Cell |->
        IF c \in RestartOnly THEN @[c] ELSE b.file[c]]]
Restarted(b) == [b EXCEPT !.live = b.file]

Ran(b, cells, to) == Reloaded(Altered(b, cells, Len(cells), to))
Broken(b, cells, to) ==
    LET part(n) == Altered(b, cells, n, to) IN
    UNION {{part(n), Reloaded(part(n))} : n \in 0..Len(cells)}

Committed(b, cells, to) ==
    LET altered == Altered(b, cells, Len(cells), to) IN
    [altered EXCEPT !.live = [c \in Cell |->
        IF \E i \in DOMAIN cells : cells[i] = c THEN to[c] ELSE @[c]]]

\* activate: reload, restart if something is pending, poll.  It fails at any
\* point; a server that did not come back in time runs on its files when it does.
Activated(b) == Restarted(b)
Inactive(b) == {b, Reloaded(b), Restarted(b)}

Sql ==
    LET f == Current
        cells == Changes[f]
        to == [c \in Cell |-> New(f, c)]
    IN
    /\ pc = "sql"
    /\ IF Kind[f] = "object"
       THEN \/ /\ box' = Committed(box, cells, to)
               /\ pc' = "gate"
               /\ UNCHANGED <<undo, status>>
            \/ box' \in {box, Committed(box, cells, to)} /\ Fail
       ELSE \/ /\ box' = Ran(box, cells, to)
               /\ pc' = "activate"
               /\ UNCHANGED <<undo, status>>
            \/ box' \in Broken(box, cells, to) /\ Fail
    /\ UNCHANGED <<container, applied, pending, steps, rolled>> /\ Outside

\* The effective values must be those of the previous snapshot but for the
\* settings of this fix.
Expected(c) == IF c \in Cells(Current) THEN New(Current, c) ELSE Previous.live[c]

Activate ==
    /\ pc = "activate"
    /\ \/ /\ box' = Activated(box)
          /\ \A c \in Cell : box'.live[c] = Expected(c)
          /\ pc' = "gate"
          /\ UNCHANGED <<undo, status>>
       \/ box' \in Inactive(box) /\ Fail
    /\ UNCHANGED <<container, applied, pending, steps, rolled>> /\ Outside

InPlace(f, b) == \A c \in Cells(f) : f \in b.live[c]

\* Of the fixes before it, the gate of a catalog or object fix looks at those
\* of its own kind again, a setting's at regressions only.
Checked ==
    {Current} \cup
    {g \in Front(order, applied) : Kind[g] = Kind[Current] /\ Kind[g] # "setting"}

Gate ==
    /\ pc = "gate"
    /\ \/ /\ \A g \in Checked : InPlace(g, box)
          /\ steps' = Append(steps, [fix |-> Current, before |-> Previous, after |-> box])
          /\ IF applied = Len(order)
             THEN status' = "VERIFIED" /\ pc' = "rollback" /\ undo' = applied
             ELSE pc' = "apply" /\ UNCHANGED <<status, undo>>
       \/ Fail /\ UNCHANGED steps
    /\ UNCHANGED <<box, container, applied, pending, rolled>> /\ Outside

----------------------------------------------------------------------------
(* The rollback, newest fix first.  An exception, and a rollback that is not *)
(* exact, end it and make the batch FAILED.                                  *)

Undoing == order[undo]

\* "Desired baseline is the state immediately before this fix."
ExpectedSnapshot == IF undo <= Len(steps) THEN steps[undo].before ELSE Previous

RollbackErrorLogged ==                      \* bug: the status stays
    pc' = "close" /\ UNCHANGED <<undo, rolled, status>>
RollbackFails == pc' = "close" /\ status' = "FAILED" /\ UNCHANGED <<undo, rolled>>

Priors == {p \in pending : p.fix = Undoing}

\* The value a rollback restores: the one the fix was derived from, which for
\* settings and objects is the snapshot's.
RestoresSource(c) == Source.file[c]         \* bug: the isolated test's rollback
Restores(c) == IF Kind[Undoing] = "catalog" THEN (CHOOSE p \in Priors : TRUE).prior.file[c]
               ELSE Source.file[c]

Reversed(s) == [i \in DOMAIN s |-> s[Len(s) + 1 - i]]

Rollback ==
    /\ pc = "rollback"
    /\ undo > 0
    /\ Kind[Undoing] = "catalog" => Priors # {}
    /\ LET cells == Reversed(Changes[Undoing])
           to == [c \in Cell |-> Restores(c)]
       IN
       IF Kind[Undoing] = "object"
       THEN \/ /\ box' = Committed(box, cells, to)
               /\ pc' = "check"
               /\ UNCHANGED <<undo, rolled, status>>
            \/ box' \in {box, Committed(box, cells, to)} /\ RollbackFails
       ELSE \/ /\ box' = Ran(box, cells, to)
               /\ pc' = "reactivate"
               /\ UNCHANGED <<undo, rolled, status>>
            \/ box' \in Broken(box, cells, to) /\ RollbackFails
    /\ UNCHANGED <<container, applied, pending, steps>> /\ Outside

\* bug: the loop does not go on to the fix before it.
SkipAgain ==
    /\ pc = "rollback"
    /\ undo > 0
    /\ Kind[Undoing] = "catalog" /\ Priors = {}
    /\ UNCHANGED vars

\* Nothing of this fix ran.
Skip ==
    /\ pc = "rollback"
    /\ undo > 0
    /\ Kind[Undoing] = "catalog" /\ Priors = {}
    /\ undo' = undo - 1
    /\ UNCHANGED <<pc, box, container, applied, pending, steps, rolled, status>>
    /\ Outside

Reactivate ==
    /\ pc = "reactivate"
    /\ \/ /\ box' = Activated(box)
          /\ box'.live = ExpectedSnapshot.live
          /\ pc' = "check"
          /\ UNCHANGED <<undo, rolled, status>>
       \/ box' \in Inactive(box) /\ RollbackFails
    /\ UNCHANGED <<container, applied, pending, steps>> /\ Outside

\* The collected state must be the expected one ("sound": findings, gaps and
\* health as well).
Check ==
    /\ pc = "check"
    /\ \/ \E sound \in BOOLEAN :
            LET ok == sound /\ box = ExpectedSnapshot IN
            /\ rolled' = Append(rolled, [fix |-> Undoing, verified |-> ok])
            /\ IF ok THEN pc' = "rollback" /\ undo' = undo - 1 /\ UNCHANGED status
               ELSE pc' = "close" /\ status' = "FAILED" /\ UNCHANGED undo
       \/ RollbackFails
    /\ UNCHANGED <<box, container, applied, pending, steps>> /\ Outside

RolledBack ==
    /\ pc = "rollback" /\ undo = 0
    /\ pc' = "close"
    /\ UNCHANGED <<box, container, applied, pending, steps, undo, rolled, status>>
    /\ Outside

\* bug: a leak is only logged.
StatusKept(cleaned) == status
StatusAfter(cleaned) == IF cleaned THEN status ELSE "CLEANUP_FAILED"

Close ==
    /\ pc = "close"
    /\ \E cleaned \in BOOLEAN :
        /\ container' \in IF cleaned THEN {FALSE} ELSE {container, FALSE}
        /\ status' = StatusAfter(cleaned)
        /\ pc' = IF status' = "VERIFIED" THEN "export" ELSE "deliver"
    /\ UNCHANGED <<box, applied, pending, steps, undo, rolled>> /\ Outside

----------------------------------------------------------------------------
(* The result. *)

\* zip(results, record["steps"]), where results is in the tested order; the
\* handoff of the request is looked up for each.
ZippedAsRequested ==                        \* bug: paired with the requests
    [i \in DOMAIN steps |-> [fix |-> requests[i], prior |-> steps[i].before,
                             applied |-> steps[i].after]]
Zipped ==
    [i \in DOMAIN steps |-> [fix |-> order[i], prior |-> steps[i].before,
                             applied |-> steps[i].after]]

Export ==
    /\ pc = "export"
    /\ \/ export' = Zipped /\ pc' = "deliver" /\ UNCHANGED answer
       \/ Refused /\ UNCHANGED export
    /\ UNCHANGED <<requests, single, history, order, combined, recorded>>

\* The router records the result and answers with it.
Deliver ==
    /\ pc = "deliver"
    /\ \/ recorded' = TRUE /\ pc' = "done" /\ answer' = status
       \/ Refused /\ UNCHANGED recorded
    /\ UNCHANGED <<requests, single, history, order, combined, export>>

Finished == pc = "done" /\ UNCHANGED vars

Progress ==
    \/ Validate \/ RunSingle \/ ChooseOrder
    \/ Start \/ Reproduce \/ Mark \/ Sql \/ Activate \/ Gate
    \/ Rollback \/ Skip \/ Reactivate \/ Check \/ RolledBack \/ Close
    \/ Export \/ Deliver

Next == Progress \/ Finished

Spec == Init /\ [][Next]_vars

\* Docker and psql calls, the restart and the poll have timeouts, and the
\* individual runs end (RemediationLoop's Answers).
FairSpec == Spec /\ WF_vars(Progress)

----------------------------------------------------------------------------
(* What must hold. *)

\* The server with the first n fixes of the order in effect, and nothing else.
InEffect(n) == [c \in Cell |-> {f \in Front(order, n) : c \in Cells(f)}]
Tested(n) == [file |-> InEffect(n), live |-> InEffect(n)]

\* A combined VERIFIED says: every fix passed alone and is on record, the order
\* has every fix once and after its prerequisites, each step took the server
\* from exactly the fixes before it to those and its own, all were undone in
\* reverse, and the server is gone ("All selected fixes passed individually and
\* together in one disposable sandbox", the batch's README.txt).
VerifiedIsProven ==
    status = "VERIFIED" /\ pc \in {"export", "deliver", "done"} =>
        /\ \A f \in Selected : single[f] = "VERIFIED" /\ f \in history
        /\ Front(order, Len(order)) = Selected /\ Len(order) = Len(requests)
        /\ \A i \in DOMAIN order : Depends[order[i]] \subseteq Front(order, i - 1)
        /\ steps = [i \in DOMAIN order |-> [fix |-> order[i], before |-> Tested(i - 1),
                                            after |-> Tested(i)]]
        /\ rolled = Reversed([i \in DOMAIN order |-> [fix |-> order[i], verified |-> TRUE]])
        /\ box = Source /\ ~container

\* Whatever was left by a fix that failed in its first statement, its
\* activation or its gate, the rollback SQL of each fix puts the configuration
\* back to exactly the fixes before it, also where fixes share a setting: a
\* rollback that ran is not one that the activation or the check has to refuse.
RollbackIsExact ==
    /\ pc \in {"reactivate", "check"} => box.file = InEffect(undo - 1)
    /\ pc = "check" => box.live = InEffect(undo - 1)

\* The bundles, in the order the README gives, carry the states of the combined
\* test before and after their own fix: what module TargetRunner compares the
\* target with.
ExportIsTested ==
    export # <<>> =>
        /\ Len(export) = Len(requests)
        /\ \A i \in DOMAIN export :
                export[i] = [fix |-> order[i], prior |-> Tested(i - 1), applied |-> Tested(i)]

\* The server of the combined test outlives the batch only if the answer says
\* so, and then nothing is exported.
NoLeftovers ==
    container /\ pc \in {"export", "deliver", "done"} =>
        status = "CLEANUP_FAILED" /\ export = <<>>

\* The combined test keeps the promise of module Rehearsal for the whole batch
\* as one fix; a batch that never gets to it stays without a verdict.
StageOf ==
    CASE pc \in {"validate", "single", "order", "export", "deliver", "done"} -> "none"
      [] pc \in {"start", "reproduce"} -> "created"
      [] pc \in {"apply", "sql", "activate", "gate"} -> "reproduced"
      [] pc \in {"rollback", "reactivate", "check"} ->
            IF Len(steps) = Len(order) THEN "accepted" ELSE "failed"
      [] pc = "close" ->
            IF Len(steps) = Len(order) /\ undo = 0 THEN "undone" ELSE "failed"

Tried == order # <<>> /\ pc \in {"export", "deliver", "done"}
VerdictOf == IF Tried THEN status ELSE "open"

Promise == INSTANCE Rehearsal WITH stage <- StageOf, verdict <- VerdictOf
KeepsPromise == Promise!Spec

\* Every batch is answered.
Answers == <>(pc = "done")
=============================================================================
