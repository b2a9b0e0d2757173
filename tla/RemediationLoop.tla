--------------------------- MODULE RemediationLoop ---------------------------
(***************************************************************************)
(* The bounded test loop for one setting fix                               *)
(* (services/sandbox_poc/workflow.py, class RemediationLoop): up to        *)
(* MaxAttempts tests, each in a disposable PostgreSQL container of its     *)
(* own.  A test creates the container, reproduces the source, applies the  *)
(* approved template, reassesses, rolls back (also after a failed apply)   *)
(* and removes the container.  In adaptive mode a reviewer may choose      *)
(* another approved template between two tests.                            *)
(*                                                                         *)
(* The loop is one thread talking to a private server, so the hard part is *)
(* not interleaving but failure: every step may raise, the exception takes *)
(* Python's path through the nested try/finally blocks, and the server is  *)
(* left in whatever state the failing step had reached.                    *)
(***************************************************************************)
EXTENDS ServerSetting, Naturals, Sequences, FiniteSets

CONSTANTS
    Wanted,         \* the value the control requires
    Template,       \* approved templates
    Initial,        \* the one the run starts with
    Sql,            \* template -> its SQL without comments and white space
    Literal,        \* template -> the value its SQL sets
    Typed,          \* the templates template_action accepts
    MaxAlternatives,\* alternatives a handoff may name
    MaxAttempts     \* tests per run

ASSUME LoopAssumption ==
    /\ Wanted \in Value
    /\ Initial \in Typed /\ Typed \subseteq Template
    /\ Literal \in [Template -> Value]
    /\ DOMAIN Sql = Template
    /\ MaxAttempts \in 1..3 /\ MaxAlternatives \in Nat

VARIABLES
    input,          \* what the run was called with, see Input
    pc,             \* the step the loop is in
    exn,            \* the exception in flight, "none" if there is none
    server,         \* the setting in the current disposable server
    containers,     \* attempts whose container exists on the Docker host
    rec,            \* the record of the attempt being made
    attempts,       \* the records of the finished attempts
    template,       \* current_template
    fix,            \* the template whose typed action is in fix["apply"]
    used,           \* used_sql
    status          \* the loop state's status

vars == <<input, pc, exn, server, containers, rec, attempts,
          template, fix, used, status>>

----------------------------------------------------------------------------
\* source: the setting in the source snapshot; restartOnly: its context is
\* postmaster; image: its line in the image's postgresql.conf; adaptive: a
\* reviewer is configured, with these alternatives.
Input == [source: Setting, restartOnly: BOOLEAN, image: Line,
          adaptive: BOOLEAN, alternatives: SUBSET Template]

Source == input.source
RestartOnly == input.restartOnly

Step == {"test_fix", "start", "reproduce", "apply", "activate", "reassess",
         "rollback", "reactivate", "verify", "close", "revise", "end",
         "aborted"}

\* ContractError, SandboxStartError, any other Exception, KeyboardInterrupt.
Raised == {"contract", "error", "interrupt"}
CommandRaised == {"error", "interrupt"}     \* by a docker or psql call alone
Exception == Raised \cup {"none", "start"}

\* What a reassessment can find wrong besides the target control itself.
Gate == {"gap", "regression", "unhealthy"}

Status == {"PENDING", "VERIFIED", "FAILED", "CLEANUP_FAILED", "NEEDS_REVIEW"}

\* What the phases of the test in progress, or of the last one, recorded:
\* apply_or_assessment_error, whether the fix was accepted and with which
\* gates broken, whether the rollback SQL and its activation both ran, and
\* whether the state collected after them was the source's.
Record == [template: Template, apply_error: Exception,
           accepted: BOOLEAN, broken: SUBSET Gate,
           undone: BOOLEAN, rollback_verified: BOOLEAN]

\* What later steps read of the attempts before it.
Attempt == [template: Template, status: Status, error: Exception,
            cleaned: BOOLEAN]

NewRecord(t) == [template |-> t, apply_error |-> "none",
                 accepted |-> FALSE, broken |-> {},
                 undone |-> FALSE, rollback_verified |-> FALSE]

Current == Len(attempts) + 1

Image == ImageSetting(input.image)

TypeOK ==
    /\ input \in Input
    /\ pc \in Step /\ exn \in Exception
    /\ server \in Setting
    /\ containers \subseteq 1..MaxAttempts
    /\ rec \in Record
    /\ attempts \in Seq(Attempt) /\ Len(attempts) <= MaxAttempts
    /\ template \in Template /\ fix \in Template
    /\ used \subseteq {Sql[t] : t \in Template}
    /\ status \in Status

----------------------------------------------------------------------------
(* run() up to the graph: the control is a source FAIL and the source can  *)
(* be reconstructed.                                                       *)
Init ==
    /\ input \in {i \in Input :
                    /\ Reconstructible(i.source, i.restartOnly)
                    /\ Consistent(i.source)
                    /\ i.source.live # Wanted
                    /\ Initial \notin i.alternatives
                    /\ i.alternatives # {} => i.adaptive
                    /\ Cardinality(i.alternatives) <= MaxAlternatives}
    /\ pc = "test_fix" /\ exn = "none"
    /\ server = Image /\ containers = {}
    /\ rec = NewRecord(Initial) /\ attempts = <<>>
    /\ template = Initial /\ fix = Initial
    /\ used = {} /\ status = "PENDING"

Plan == UNCHANGED <<input, template, fix, used>>
Result == UNCHANGED <<attempts, status>>

\* attempt(): a new run id and record; the SQL counts as used before it runs.
TestFix ==
    /\ pc = "test_fix"
    /\ rec' = NewRecord(template)
    /\ used' = used \cup {Sql[template]}
    /\ pc' = "start"
    /\ UNCHANGED <<input, template, fix, exn, server, containers>> /\ Result

\* DisposablePostgres.start: the image check precedes docker run, readiness
\* and version checks follow it, so a failure may leave a container or not.
Start ==
    /\ pc = "start"
    /\ \/ /\ containers' = containers \cup {Current}
          /\ pc' = "reproduce"
          /\ UNCHANGED exn
       \/ /\ containers' \in {containers, containers \cup {Current}}
          /\ exn' \in Raised
          /\ pc' = "close"
    /\ UNCHANGED <<server, rec>> /\ Plan /\ Result

\* reconstruct, collect, assess; a state that is not the source's, or other
\* findings, is a ContractError.  Nothing was applied, so an exception goes
\* straight to the cleanup.
Reproduce ==
    /\ pc = "reproduce"
    /\ server' = Reconstructed(server, Source, RestartOnly)
    /\ \/ /\ server' = Source
          /\ pc' = "apply"
          /\ UNCHANGED exn
       \/ /\ exn' \in Raised \cup {"start"}   \* another setting may need the restart
          /\ pc' = "close"
    /\ UNCHANGED <<containers, rec>> /\ Plan /\ Result

----------------------------------------------------------------------------
(* The apply phase.  Its except blocks record the error; its finally block *)
(* goes on to the rollback unless PostgreSQL failed to start.              *)

ApplyFails(e) ==
    /\ exn' = e
    /\ rec' = [rec EXCEPT !.apply_error = e]
    /\ pc' = IF e = "start" THEN "close" ELSE "rollback"

\* psql runs "ALTER SYSTEM SET ...; SELECT pg_reload_conf();" statement by
\* statement with ON_ERROR_STOP, so a failing script stops anywhere.
ApplySql ==
    LET altered == AlterSystem(server, SetConfig(Literal[template])) IN
    /\ pc = "apply"
    /\ \/ /\ server' = Reloaded(altered, RestartOnly)
          /\ pc' = "activate"
          /\ UNCHANGED <<exn, rec>>
       \/ /\ server' \in {server, altered, Reloaded(altered, RestartOnly)}
          /\ \E e \in CommandRaised : ApplyFails(e)
    /\ UNCHANGED containers /\ Plan /\ Result

\* What activate(expected) can leave behind: [server, exn].
ActivateOutcomes(s, expected) ==
    LET active == Activated(s, RestartOnly) IN
    {[server |-> active,
      exn |-> IF active.live = expected THEN "none" ELSE "error"]}
    \cup [server: {s, active}, exn: Raised]
    \cup (IF PendingRestart(s, RestartOnly)
          THEN {[server |-> s, exn |-> "start"]} ELSE {})

ActivateFix ==
    /\ pc = "activate"
    /\ \E o \in ActivateOutcomes(server, Wanted) :
        /\ server' = o.server
        /\ IF o.exn = "none"
           THEN pc' = "reassess" /\ UNCHANGED <<exn, rec>>
           ELSE ApplyFails(o.exn)
    /\ UNCHANGED containers /\ Plan /\ Result

\* Recollect and reassess.  The fix is accepted when the control is PASS and
\* no gate is broken.
Accepted(broken) ==
    /\ broken = {}
    /\ server.live = Wanted
    /\ ~PendingRestart(server, RestartOnly)

Reassess ==
    /\ pc = "reassess"
    /\ \/ \E broken \in SUBSET Gate :
            IF Accepted(broken)
            THEN /\ rec' = [rec EXCEPT !.accepted = TRUE, !.broken = broken]
                 /\ pc' = "rollback"
                 /\ UNCHANGED exn
            ELSE ApplyFails("error")
       \/ \E e \in Raised : ApplyFails(e)
    /\ UNCHANGED <<server, containers>> /\ Plan /\ Result

----------------------------------------------------------------------------
(* _setting_rollback, in the finally block: an exception raised here       *)
(* replaces the one in flight.                                             *)

RollbackFails(e) == exn' = e /\ pc' = "close"

\* The rollback action is derived once, from the source's prior state.
RollbackSql ==
    LET altered == AlterSystem(server, DeriveRollback(Source)) IN
    /\ pc = "rollback"
    /\ \/ /\ server' = Reloaded(altered, RestartOnly)
          /\ pc' = "reactivate"
          /\ UNCHANGED exn
       \/ /\ server' \in {server, altered, Reloaded(altered, RestartOnly)}
          /\ \E e \in CommandRaised : RollbackFails(e)
    /\ UNCHANGED <<containers, rec>> /\ Plan /\ Result

ActivateRollback ==
    /\ pc = "reactivate"
    /\ \E o \in ActivateOutcomes(server, Source.live) :
        /\ server' = o.server
        /\ IF o.exn = "none"
           THEN /\ rec' = [rec EXCEPT !.undone = TRUE]
                /\ pc' = "verify"
                /\ UNCHANGED exn
           ELSE RollbackFails(o.exn) /\ UNCHANGED rec
    /\ UNCHANGED containers /\ Plan /\ Result

\* The collected provenance must equal the source's, with the same findings,
\* no gaps and a healthy server ("sound").
VerifyRollback ==
    /\ pc = "verify"
    /\ \/ \E sound \in BOOLEAN :
            LET ok == sound /\ server = Source IN
            /\ rec' = [rec EXCEPT !.rollback_verified = ok]
            /\ exn' = IF ok THEN exn ELSE "error"
            /\ pc' = "close"
       \/ \E e \in Raised : RollbackFails(e) /\ UNCHANGED rec
    /\ UNCHANGED <<server, containers>> /\ Plan /\ Result

----------------------------------------------------------------------------
\* The record's status once the container was dealt with.
OutcomeKeptOnLeak(cleaned) ==               \* bug: the leak is only logged
    IF exn = "none" THEN "VERIFIED" ELSE "FAILED"
OutcomeIfAccepted(cleaned) ==               \* bug: decided before the rollback
    IF ~cleaned THEN "CLEANUP_FAILED"
    ELSE IF rec.accepted THEN "VERIFIED" ELSE "FAILED"
Outcome(cleaned) ==
    IF ~cleaned THEN "CLEANUP_FAILED"
    ELSE IF exn = "none" THEN "VERIFIED" ELSE "FAILED"

\* "done": a start or contract error, an unconfirmed cleanup, a success and
\* the last test end the loop.
NeverEnough(cleaned) ==                     \* bug: the attempts are not counted
    ~cleaned \/ exn \in {"start", "contract", "none"}
LeakRetried(cleaned) ==                     \* bug: a leak is retried
    exn \in {"start", "contract", "none"} \/ Current >= MaxAttempts
ContractRetried(cleaned) ==                 \* bug: so is a contract error
    ~cleaned \/ exn \in {"start", "none"} \/ Current >= MaxAttempts
Terminal(cleaned) ==
    ~cleaned \/ exn \in {"start", "contract", "none"} \/ Current >= MaxAttempts

\* bug: the loop state is replaced by the last record alone.
FinishForgetful(cleaned) ==
    /\ attempts' = <<[template |-> rec.template, status |-> Outcome(cleaned),
                      error |-> exn, cleaned |-> cleaned]>>
    /\ status' = Outcome(cleaned)
    /\ pc' = IF Terminal(cleaned) THEN "end"
             ELSE IF input.adaptive THEN "revise" ELSE "test_fix"

\* The attempt's return and the graph's conditional edge.
FinishAttempt(cleaned) ==
    /\ attempts' = Append(attempts,
            [template |-> rec.template, status |-> Outcome(cleaned),
             error |-> exn, cleaned |-> cleaned])
    /\ status' = Outcome(cleaned)
    /\ pc' = IF Terminal(cleaned) THEN "end"
             ELSE IF input.adaptive THEN "revise" ELSE "test_fix"

\* The last finally block removes the container; an interrupt before or during
\* it leaves run() instead of finishing the attempt.
Close ==
    /\ pc = "close"
    /\ \E cleaned \in BOOLEAN :
        /\ containers' \in IF cleaned THEN {containers \ {Current}}
                           ELSE {containers, containers \ {Current}}
        /\ \/ pc' = "aborted" /\ Result
           \/ exn # "interrupt" /\ FinishAttempt(cleaned)
    /\ exn' = "none" /\ server' = Image
    /\ UNCHANGED rec /\ Plan

----------------------------------------------------------------------------
(* revise(): only reached in adaptive mode after a retryable failure.      *)

\* Alternatives whose SQL was not tested; checked again after the refresh.
AvailableAgain(t) == t \in input.alternatives   \* bug: tested SQL is offered
Available(t) == t \in input.alternatives /\ Sql[t] \notin used

NeedsReview == status' = "NEEDS_REVIEW" /\ pc' = "end"

\* The reviewer asks for a human, names no available candidate, or its call,
\* a render or the refresh of the candidate's approval fails.  An interrupt
\* leaves run().
ReviseStops ==
    /\ pc = "revise"
    /\ NeedsReview \/ (pc' = "aborted" /\ UNCHANGED status)
    /\ UNCHANGED <<input, template, fix, used, attempts, exn, server,
                   containers, rec>>

\* current_template is assigned before the fix unit is rebuilt and validated: a
\* candidate outside the supported action shape raises in between.
ReviseSelects ==
    /\ pc = "revise"
    /\ \E t \in Template :
        /\ Available(t)
        /\ template' = t
        /\ IF t \in Typed
           THEN /\ fix' = t
                /\ \/ pc' = "test_fix" /\ UNCHANGED status
                   \/ NeedsReview
           ELSE UNCHANGED fix /\ NeedsReview
    /\ UNCHANGED <<input, used, attempts, exn, server, containers, rec>>

----------------------------------------------------------------------------
Finished == pc \in {"end", "aborted"} /\ UNCHANGED vars

Progress ==
    \/ TestFix \/ Start \/ Reproduce
    \/ ApplySql \/ ActivateFix \/ Reassess
    \/ RollbackSql \/ ActivateRollback \/ VerifyRollback
    \/ Close
    \/ ReviseStops \/ ReviseSelects

Next == Progress \/ Finished

Spec == Init /\ [][Next]_vars

\* Every step has a timeout or a bounded wait (docker calls, readiness,
\* restart and poll deadlines, the reviewer's HTTP call).
FairSpec == Spec /\ WF_vars(Progress)

----------------------------------------------------------------------------
(* What must hold. *)

Last == attempts[Len(attempts)]

\* A VERIFIED result rests on one test that passed every gate, was undone
\* exactly in the same server and whose server is gone, and the template and
\* fix unit the result names are the ones that test ran
\* (README.md "Loop and acceptance"; workflow.py 255, 276, 292-300).
VerifiedIsProven ==
    status = "VERIFIED" =>
        /\ rec.accepted /\ rec.broken = {}
        /\ rec.undone /\ rec.rollback_verified
        /\ Last.cleaned /\ containers = {}
        /\ Last.template = template /\ fix = template

\* The source runs on the line PostgreSQL would read now.  (Not so after ALTER
\* SYSTEM SET of a restart-only setting to the value it already has: its
\* rollback is derived as RESET, which loses that line.  The gate then says
\* "Exact rollback verification failed" and no test is VERIFIED.)
RunsOnItsFiles == Source.origin = FileOrigin(Source)

\* Once the rollback statements and their activation have run, the server is
\* the source again: same lines in both files, same running value from the
\* same file - however far the failed or accepted apply had got.  So only the
\* surroundings can make "Exact rollback verification failed" appear.
RollbackIsExact ==
    pc \in {"verify", "close"} /\ rec.undone /\ RunsOnItsFiles => server = Source

\* Never two sandboxes at a time: before a test or a revision no container of
\* an earlier test exists, and a run that reports anything but CLEANUP_FAILED
\* leaves none, even if docker run failed after creating it.
NoLeftovers ==
    /\ pc \in {"test_fix", "revise"} => containers = {}
    /\ pc = "end" /\ status # "CLEANUP_FAILED" => containers = {}

\* Adaptive retries never run the same SQL twice, nor SQL that differs in
\* comments or white space only (HERMES_INTEGRATION.md "comment/whitespace-only
\* changes stop the loop").
NoSqlRepeated ==
    input.adaptive =>
        \A i, j \in DOMAIN attempts :
            i # j => Sql[attempts[i].template] # Sql[attempts[j].template]

\* Only a retryable failure in a cleaned-up test is followed by another test.
OnlyRetryableRetried ==
    \A i \in DOMAIN attempts :
        i < Len(attempts) \/ pc \in {"test_fix", "start"}
            => attempts[i].error = "error" /\ attempts[i].cleaned

\* "Contract or cleanup failures terminate immediately" (HERMES_INTEGRATION.md)
\* said of the error a test's apply phase recorded: no revision and no other
\* test follows it.
ContractTerminates ==
    pc \in {"test_fix", "revise"} => rec.apply_error # "contract"

\* "Failed results deliberately retain the attempted fix" (README.md): the
\* template and rendered SQL of the result are those of its last test.
ResultNamesTestedTemplate ==
    pc = "end" => template = Last.template

\* The run answers: a result, or the interrupt it was stopped by.
Answers == <>(pc \in {"end", "aborted"})

\* The loop implements the promise of module Rehearsal: the stage of the
\* current server, and the verdict once run() has returned.
StageOf ==
    CASE pc \in {"test_fix", "revise", "end", "aborted"} -> "none"
      [] pc \in {"start", "reproduce"} -> "created"
      [] pc \in {"apply", "activate", "reassess"} -> "reproduced"
      [] pc \in {"rollback", "reactivate", "verify"} ->
            IF rec.accepted THEN "accepted" ELSE "failed"
      [] pc = "close" -> IF exn = "none" THEN "undone" ELSE "failed"

VerdictOf ==
    CASE pc = "end" -> status
      [] pc = "aborted" -> "ABORTED"
      [] OTHER -> "open"

Promise == INSTANCE Rehearsal WITH stage <- StageOf, verdict <- VerdictOf
KeepsPromise == Promise!Spec
=============================================================================
