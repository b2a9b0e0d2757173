------------------------ MODULE RemediationLoopProofs ------------------------
(***************************************************************************)
(* The safety properties of RemediationLoop for any set of values and      *)
(* templates, any source and any image.                                    *)
(***************************************************************************)
EXTENDS RemediationLoop, TLAPS

----------------------------------------------------------------------------
(* The inductive invariant, one conjunct per concern. *)

Testing == {"start", "reproduce", "apply", "activate", "reassess",
            "rollback", "reactivate", "verify", "close"}

\* An attempt is only begun when one is left.
AttemptsLeft == pc \notin {"end", "aborted"} => Len(attempts) < MaxAttempts

\* Only the current attempt can have a container.
OneContainer ==
    /\ pc \in Testing => containers \subseteq {Current}
    /\ pc \in {"test_fix", "start", "revise"} => containers = {}
    /\ pc = "end" /\ status # "CLEANUP_FAILED" => containers = {}

\* How far the server is from the source.  The lines of postgresql.conf never
\* change, and a restart-only setting that still runs the source's value still
\* runs it from the source's file.
Near(s) == /\ s.shadow = Source.shadow /\ s.conf = Source.conf
           /\ RestartOnly /\ s.live = Source.live => s.origin = Source.origin

NearSource ==
    /\ pc = "apply" => server = Source
    /\ pc \in {"apply", "activate", "reassess", "rollback", "reactivate"} =>
            Near(server) /\ Source.live = FileValue(Source)
    /\ pc = "activate" /\ RestartOnly =>
            server.live = Source.live /\ server.origin = Source.origin
    /\ pc = "reactivate" /\ RunsOnItsFiles => server.auto = Source.auto

\* What the record of the test in progress says of it.
RecordIsTrue ==
    /\ pc \in Testing => rec.template = template
    /\ pc \in Testing \ {"verify", "close"} => ~rec.undone
    /\ pc \in {"start", "reproduce", "apply", "activate", "reassess"} =>
            ~rec.accepted
    /\ pc = "verify" => rec.undone
    /\ pc \in {"rollback", "reactivate", "verify", "close"} /\ exn = "none" =>
            rec.accepted /\ rec.broken = {}
    /\ pc = "close" /\ exn = "none" => rec.undone /\ rec.rollback_verified

\* The result is named after the run's last selection, and is final.
ResultIsFinal ==
    /\ pc # "end" => fix = template
    /\ status \in {"VERIFIED", "CLEANUP_FAILED", "NEEDS_REVIEW"} => pc = "end"
    /\ pc = "end" /\ status = "VERIFIED" => attempts # <<>>

\* The SQL identities of all tests so far are used ones.
UsedIsTried ==
    /\ \A i \in DOMAIN attempts : Sql[attempts[i].template] \in used
    /\ pc \in Testing => Sql[rec.template] \in used
    /\ input.adaptive /\ pc = "test_fix" => Sql[template] \notin used
    /\ input.adaptive /\ pc \in Testing =>
            \A i \in DOMAIN attempts :
                Sql[attempts[i].template] # Sql[rec.template]

\* Every attempt that was not the last word of the run was retryable.
EarlierRetryable ==
    \A i \in DOMAIN attempts :
        i < Len(attempts) \/ pc # "end"
            => attempts[i].error = "error" /\ attempts[i].cleaned

\* The sources run() accepts.
SourceAccepted == Reconstructible(Source, RestartOnly) /\ Consistent(Source)

IInv == /\ TypeOK /\ AttemptsLeft /\ SourceAccepted
        /\ OneContainer /\ NearSource /\ RollbackIsExact /\ RecordIsTrue
        /\ ResultIsFinal /\ VerifiedIsProven
        /\ UsedIsTried /\ NoSqlRepeated /\ EarlierRetryable

----------------------------------------------------------------------------
(* What the operators of ServerSetting return. *)

LEMMA FileTypes ==
    ASSUME NEW s \in Setting
    PROVE  FileValue(s) \in Value /\ FileOrigin(s) \in Origin
BY DefaultAssumption DEF FileValue, FileOrigin, Setting, Line, Origin

LEMMA LoadedType == ASSUME NEW s \in Setting PROVE Loaded(s) \in Setting
BY FileTypes DEF Loaded, Setting

LEMMA ReloadTypes ==
    ASSUME NEW s \in Setting, NEW r \in BOOLEAN
    PROVE  Reloaded(s, r) \in Setting /\ Activated(s, r) \in Setting
BY LoadedType DEF Reloaded, Activated

LEMMA AlterType ==
    ASSUME NEW s \in Setting, NEW a \in Action
    PROVE  AlterSystem(s, a) \in Setting
BY DEF AlterSystem, Setting, Action, SetConfig, ResetConfig, Line

LEMMA RollbackType ==
    ASSUME NEW s \in Setting PROVE DeriveRollback(s) \in Action
BY DEF DeriveRollback, Action, SetConfig, ResetConfig, Setting

LEMMA ImageType == ASSUME NEW l \in Line PROVE ImageSetting(l) \in Setting
<1> DEFINE s == [shadow |-> Absent, conf |-> l, auto |-> Absent,
                 live |-> Default, origin |-> "default"]
<1>1. s \in Setting
  BY DefaultAssumption DEF Setting, Line, Origin
<1> QED BY <1>1, LoadedType DEF ImageSetting

LEMMA ReconstructedType ==
    ASSUME NEW b \in Setting, NEW s \in Setting, NEW r \in BOOLEAN
    PROVE  Reconstructed(b, s, r) \in Setting
<1>1. Written(b, s) \in Setting
  BY DEF Written, Setting, Line
<1>2. Activated(Written(b, s), r) \in Setting
  BY <1>1, ReloadTypes
<1>3. Loaded(Activated(Written(b, s), r)) \in Setting
  BY <1>2, LoadedType
<1> QED BY <1>2, <1>3 DEF Reconstructed

----------------------------------------------------------------------------
(* Why the derived rollback is exact. *)

\* A server that reconstruction made equal to the source runs what the files
\* say.
LEMMA ReconstructedRunsFiles ==
    ASSUME NEW b \in Setting, NEW s \in Setting, NEW r \in BOOLEAN,
           Reconstructible(s, r), Reconstructed(b, s, r) = s
    PROVE  s.live = FileValue(s)
<1>1. CASE r
  BY <1>1, FileTypes DEF Reconstructible, PendingRestart, Setting
<1>2. CASE ~r
  <2>1. Written(b, s) \in Setting
    BY DEF Written, Setting, Line
  <2>2. Reconstructed(b, s, r) = Loaded(Written(b, s))
    BY <1>2 DEF Reconstructed, Activated
  <2>3. FileValue(Loaded(Written(b, s))) = FileValue(Written(b, s))
        /\ Loaded(Written(b, s)).live = FileValue(Written(b, s))
    BY <2>1 DEF Loaded, FileValue, Setting
  <2> QED BY <2>2, <2>3
<1> QED BY <1>1, <1>2

\* The rollback statement restores the source's auto.conf line.
LEMMA RollbackRestoresAuto ==
    ASSUME NEW b \in Setting, NEW s \in Setting, NEW r \in BOOLEAN,
           Reconstructible(s, r), s.origin = FileOrigin(s)
    PROVE  AlterSystem(b, DeriveRollback(s)).auto = s.auto
BY DEF AlterSystem, DeriveRollback, SetConfig, ResetConfig, Reconstructible,
       FileOrigin, Setting, Origin

\* With the source's lines in both files, activation makes the server the
\* source again.
LEMMA ActivationRestores ==
    ASSUME NEW b \in Setting, NEW s \in Setting, NEW r \in BOOLEAN,
           b.shadow = s.shadow, b.conf = s.conf, b.auto = s.auto,
           s.live = FileValue(s), s.origin = FileOrigin(s),
           r /\ b.live = s.live => b.origin = s.origin
    PROVE  Activated(b, r) = s
<1>1. FileValue(b) = s.live /\ FileOrigin(b) = s.origin
  BY DEF FileValue, FileOrigin
<1>2. Loaded(b) = s
  BY <1>1 DEF Loaded, Setting
<1>3. CASE r /\ ~PendingRestart(b, r)
  <2>1. b.live = s.live /\ b.origin = s.origin
    BY <1>1, <1>3 DEF PendingRestart
  <2>2. b = s
    BY <2>1 DEF Setting
  <2> QED BY <1>3, <2>2 DEF Activated
<1>4. CASE ~(r /\ ~PendingRestart(b, r))
  BY <1>2, <1>4 DEF Activated
<1> QED BY <1>3, <1>4

----------------------------------------------------------------------------
LEMMA InitInv == Init => IInv
<1> SUFFICES ASSUME Init PROVE IInv
  OBVIOUS
<1>1. input \in Input /\ Image \in Setting
  BY ImageType DEF Init, Image, Input
<1>2. TypeOK
  BY <1>1, LoopAssumption
  DEF Init, TypeOK, Step, Exception, Record, NewRecord, Status
<1>3. SourceAccepted
  BY DEF Init, SourceAccepted, Source, RestartOnly
<1>4. AttemptsLeft /\ OneContainer /\ NearSource /\ RollbackIsExact
  BY LoopAssumption
  DEF Init, AttemptsLeft, OneContainer, NearSource, RollbackIsExact, Testing
<1>5. RecordIsTrue /\ ResultIsFinal /\ VerifiedIsProven
  BY DEF Init, RecordIsTrue, ResultIsFinal, VerifiedIsProven, Testing
<1>6. UsedIsTried /\ NoSqlRepeated /\ EarlierRetryable
  BY DEF Init, UsedIsTried, NoSqlRepeated, EarlierRetryable, Testing
<1> QED BY <1>2, <1>3, <1>4, <1>5, <1>6 DEF IInv

----------------------------------------------------------------------------
(* A step inside a test: it moves the server, the exception and the record *)
(* of the current test only.                                               *)

InTest == /\ pc \in Testing /\ pc' \in Testing \ {"start"}
          /\ exn' \in Exception /\ server' \in Setting
          /\ rec' \in Record /\ rec'.template = rec.template
          /\ containers' \subseteq containers \cup {Current}
          /\ Plan /\ Result

\* What such a step cannot disturb.
LEMMA InTestKeeps ==
    ASSUME IInv, InTest
    PROVE  /\ TypeOK' /\ AttemptsLeft' /\ SourceAccepted' /\ OneContainer'
           /\ ResultIsFinal' /\ VerifiedIsProven'
           /\ UsedIsTried' /\ NoSqlRepeated' /\ EarlierRetryable'
<1> USE DEF IInv, InTest, Plan, Result, Testing
<1>1. Len(attempts) \in Nat /\ Current \in 1..MaxAttempts
  BY LoopAssumption DEF TypeOK, AttemptsLeft, Current
<1>2. TypeOK'
  BY <1>1 DEF TypeOK, Step
<1>3. AttemptsLeft' /\ SourceAccepted' /\ OneContainer'
  BY DEF AttemptsLeft, SourceAccepted, Source, RestartOnly, OneContainer,
         Current
<1>4. ResultIsFinal' /\ VerifiedIsProven'
  BY DEF ResultIsFinal, VerifiedIsProven
<1>5. UsedIsTried' /\ NoSqlRepeated' /\ EarlierRetryable'
  BY DEF UsedIsTried, NoSqlRepeated, EarlierRetryable
<1> QED BY <1>2, <1>3, <1>4, <1>5

\* So a step inside a test has two things to show.
LEMMA InTestStep ==
    ASSUME IInv, InTest, NearSource', RollbackIsExact', RecordIsTrue'
    PROVE  IInv'
BY InTestKeeps DEF IInv

\* The types of what an apply or rollback script can leave behind.
LEMMA ScriptTypes ==
    ASSUME IInv, NEW a \in Action
    PROVE  /\ AlterSystem(server, a) \in Setting
           /\ Reloaded(AlterSystem(server, a), RestartOnly) \in Setting
BY AlterType, ReloadTypes DEF IInv, TypeOK, Input, RestartOnly

\* ... and of what activate() can.
LEMMA OutcomeTypes ==
    ASSUME IInv, NEW v, NEW o \in ActivateOutcomes(server, v)
    PROVE  o.server \in Setting /\ o.exn \in Exception
<1>1. server \in Setting /\ Activated(server, RestartOnly) \in Setting
  BY ReloadTypes DEF IInv, TypeOK, Input, RestartOnly
<1> QED BY <1>1 DEF ActivateOutcomes, Exception, Raised

\* Where a test ends before anything was applied.
LEMMA AbortedEarly ==
    ASSUME IInv, InTest, pc \in {"start", "reproduce"}, UNCHANGED rec,
           pc' = "close", exn' # "none"
    PROVE  IInv'
<1>1. ~rec.undone
  BY DEF IInv, RecordIsTrue, Testing
<1>2. NearSource' /\ RollbackIsExact' /\ RecordIsTrue'
  BY <1>1 DEF NearSource, RollbackIsExact, RecordIsTrue, IInv, InTest, Plan,
              Testing
<1> QED BY <1>2, InTestStep

----------------------------------------------------------------------------
(* One lemma per action. *)

LEMMA TestFixStep == ASSUME IInv, TestFix PROVE IInv'
<1> USE DEF IInv, TestFix, Result, Testing
<1>1. /\ rec' \in Record /\ rec'.template = template
      /\ ~rec'.undone /\ ~rec'.accepted
  BY DEF TypeOK, NewRecord, Record, Exception
<1>2. TypeOK'
  BY <1>1 DEF TypeOK, Step
<1>3. AttemptsLeft' /\ SourceAccepted' /\ OneContainer'
  BY DEF AttemptsLeft, SourceAccepted, Source, RestartOnly, OneContainer
<1>4. NearSource' /\ RollbackIsExact' /\ RecordIsTrue'
  BY <1>1 DEF NearSource, RollbackIsExact, RecordIsTrue
<1>5. ResultIsFinal' /\ VerifiedIsProven'
  BY DEF ResultIsFinal, VerifiedIsProven
<1>6. UsedIsTried' /\ NoSqlRepeated' /\ EarlierRetryable'
  BY <1>1 DEF UsedIsTried, NoSqlRepeated, EarlierRetryable, TypeOK
<1> QED BY <1>2, <1>3, <1>4, <1>5, <1>6

LEMMA StartStep == ASSUME IInv, Start PROVE IInv'
<1>1. InTest
  BY DEF Start, InTest, Testing, IInv, TypeOK, Exception, Raised, Plan, Result
<1>2. CASE pc' = "reproduce"
  <2>1. NearSource' /\ RollbackIsExact' /\ RecordIsTrue'
    BY <1>2 DEF Start, NearSource, RollbackIsExact, RecordIsTrue, IInv,
                Testing, Plan
  <2> QED BY <1>1, <2>1, InTestStep
<1>3. CASE pc' = "close" /\ exn' \in Raised
  <2>1. pc = "start" /\ UNCHANGED rec /\ exn' # "none"
    BY <1>3 DEF Start, Raised
  <2> QED BY <1>1, <1>3, <2>1, AbortedEarly
<1> QED BY <1>2, <1>3 DEF Start

LEMMA ReproduceStep == ASSUME IInv, Reproduce PROVE IInv'
<1>1. server \in Setting /\ Source \in Setting /\ RestartOnly \in BOOLEAN
  BY DEF IInv, TypeOK, Input, Source, RestartOnly
<1>2. InTest
  BY <1>1, ReconstructedType
  DEF Reproduce, InTest, Testing, IInv, TypeOK, Exception, Raised, Plan, Result
<1>3. CASE pc' = "apply" /\ server' = Source
  <2>1. Source.live = FileValue(Source)
    BY <1>1, <1>3, ReconstructedRunsFiles DEF Reproduce, IInv, SourceAccepted
  <2>2. UNCHANGED <<input, rec, template>>
    BY DEF Reproduce, Plan
  <2>3. NearSource'
    BY <1>3, <2>1, <2>2 DEF NearSource, Near, Source, RestartOnly
  <2>4. RollbackIsExact' /\ RecordIsTrue'
    BY <1>3, <2>2 DEF Reproduce, RollbackIsExact, RecordIsTrue, IInv, Testing
  <2> QED BY <1>2, <2>3, <2>4, InTestStep
<1>4. CASE pc' = "close" /\ exn' # "none"
  <2>1. pc = "reproduce" /\ UNCHANGED rec
    BY DEF Reproduce
  <2> QED BY <1>2, <1>4, <2>1, AbortedEarly
<1> QED BY <1>3, <1>4 DEF Reproduce, Raised

LEMMA SourceTypes ==
    ASSUME IInv
    PROVE  /\ server \in Setting /\ Source \in Setting /\ RestartOnly \in BOOLEAN
           /\ rec \in Record
BY DEF IInv, TypeOK, Input, Source, RestartOnly

\* A failing apply phase goes on to the rollback, or to the cleanup when the
\* server is down.
LEMMA ApplyFailsStep ==
    ASSUME IInv, NEW e \in Raised \cup {"start"}, ApplyFails(e), Plan, Result,
           UNCHANGED containers, server' \in Setting, Near(server'),
           pc \in {"apply", "activate", "reassess"}
    PROVE  IInv'
<1>1. ~rec.undone /\ rec \in Record
  BY SourceTypes DEF IInv, RecordIsTrue, Testing
<1>2. rec' \in Record /\ rec'.template = rec.template /\ ~rec'.undone
  BY <1>1 DEF ApplyFails, Record, Exception, Raised
<1>3. pc' \in {"rollback", "close"} /\ exn' # "none" /\ exn' \in Exception
  BY DEF ApplyFails, Exception, Raised
<1>4. InTest
  BY <1>2, <1>3 DEF InTest, Testing
<1>5. NearSource'
  BY <1>3 DEF NearSource, IInv, Plan, Near, Source, RestartOnly
<1>6. RollbackIsExact' /\ RecordIsTrue'
  BY <1>2, <1>3 DEF RollbackIsExact, RecordIsTrue, IInv, Plan, Testing
<1> QED BY <1>4, <1>5, <1>6, InTestStep

LEMMA ApplySqlStep == ASSUME IInv, ApplySql PROVE IInv'
<1> DEFINE a == SetConfig(Literal[template])
           altered == AlterSystem(server, a)
<1>1. a \in Action
  BY LoopAssumption DEF Action, SetConfig, IInv, TypeOK
<1>2. altered \in Setting /\ Reloaded(altered, RestartOnly) \in Setting
  BY <1>1, ScriptTypes
<1>3. server = Source /\ Near(server) /\ Source.live = FileValue(Source)
  BY DEF IInv, NearSource, ApplySql
<1>4. /\ Near(altered) /\ Near(Reloaded(altered, RestartOnly))
      /\ RestartOnly => Reloaded(altered, RestartOnly) = altered
      /\ altered.live = Source.live /\ altered.origin = Source.origin
  BY <1>3, SourceTypes DEF Near, AlterSystem, Reloaded, Loaded, Setting
<1>5. CASE /\ server' = Reloaded(altered, RestartOnly)
           /\ pc' = "activate" /\ UNCHANGED <<exn, rec>>
  <2>1. InTest
    BY <1>2, <1>5 DEF InTest, ApplySql, Testing, IInv, TypeOK
  <2>2. NearSource'
    BY <1>3, <1>4, <1>5 DEF NearSource, ApplySql, Plan, Near, Source, RestartOnly
  <2>3. RollbackIsExact' /\ RecordIsTrue'
    BY <1>5 DEF RollbackIsExact, RecordIsTrue, ApplySql, Plan, IInv, Testing
  <2> QED BY <2>1, <2>2, <2>3, InTestStep
<1>6. ASSUME NEW e \in Raised, ApplyFails(e),
             server' \in {server, altered, Reloaded(altered, RestartOnly)}
      PROVE  IInv'
  <2>1. server' \in Setting /\ Near(server')
    BY <1>2, <1>3, <1>4, <1>6, SourceTypes
  <2> QED BY <1>6, <2>1, ApplyFailsStep DEF ApplySql
<1> QED BY <1>5, <1>6 DEF ApplySql, CommandRaised, Raised

\* Activation does not touch the lines, and a restart changes the value.
LEMMA ActivatedNear ==
    ASSUME IInv, pc = "activate"
    PROVE  Near(Activated(server, RestartOnly))
BY SourceTypes
   DEF IInv, NearSource, Near, Activated, Loaded, PendingRestart, Setting

LEMMA ActivateFixStep == ASSUME IInv, ActivateFix PROVE IInv'
<1>1. PICK o \in ActivateOutcomes(server, Wanted) :
        /\ server' = o.server
        /\ IF o.exn = "none"
           THEN pc' = "reassess" /\ UNCHANGED <<exn, rec>>
           ELSE ApplyFails(o.exn)
  BY DEF ActivateFix
<1>2. o.server \in Setting /\ o.exn \in Exception
  BY <1>1, OutcomeTypes
<1>3. Near(server) /\ Source.live = FileValue(Source) /\ pc = "activate"
  BY DEF IInv, NearSource, ActivateFix
<1>4. o.server \in {server, Activated(server, RestartOnly)}
  BY <1>1 DEF ActivateOutcomes
<1>5. Near(server')
  BY <1>1, <1>3, <1>4, ActivatedNear
<1>6. CASE o.exn = "none"
  <2>1. InTest
    BY <1>1, <1>2, <1>3, <1>6 DEF InTest, ActivateFix, Testing, IInv, TypeOK
  <2>2. NearSource' /\ RollbackIsExact' /\ RecordIsTrue'
    BY <1>1, <1>3, <1>5, <1>6
    DEF NearSource, RollbackIsExact, RecordIsTrue, ActivateFix, Plan, Near,
        Source, RestartOnly, IInv, Testing
  <2> QED BY <2>1, <2>2, InTestStep
<1>7. CASE o.exn # "none"
  <2>1. o.exn \in Raised \cup {"start"} /\ ApplyFails(o.exn)
    BY <1>1, <1>2, <1>7 DEF Exception
  <2>2. Plan /\ Result /\ UNCHANGED containers
    BY DEF ActivateFix
  <2> QED BY <1>1, <1>2, <1>3, <1>5, <2>1, <2>2, ApplyFailsStep
<1> QED BY <1>6, <1>7

LEMMA ReassessStep == ASSUME IInv, Reassess PROVE IInv'
<1>1. /\ Near(server) /\ Near(server') /\ server' \in Setting
      /\ pc = "reassess" /\ UNCHANGED <<server, containers>> /\ Plan /\ Result
      /\ Source.live = FileValue(Source) /\ ~rec.undone /\ rec \in Record
      /\ rec.template = template
  BY SourceTypes
  DEF IInv, NearSource, RecordIsTrue, Reassess, Near, Testing
<1>2. ASSUME NEW e \in Raised, ApplyFails(e) PROVE IInv'
  BY <1>1, <1>2, ApplyFailsStep
<1>3. ASSUME NEW broken \in SUBSET Gate, Accepted(broken), pc' = "rollback",
             UNCHANGED exn,
             rec' = [rec EXCEPT !.accepted = TRUE, !.broken = broken]
      PROVE  IInv'
  <2>1. /\ rec' \in Record /\ rec'.template = rec.template /\ ~rec'.undone
        /\ rec'.accepted /\ rec'.broken = {}
    BY <1>1, <1>3 DEF Record, Accepted
  <2>2. InTest
    BY <1>1, <1>3, <2>1 DEF InTest, Testing, IInv, TypeOK
  <2>3. NearSource' /\ RollbackIsExact'
    BY <1>1, <1>3
    DEF NearSource, RollbackIsExact, Plan, Near, Source, RestartOnly
  <2>4. RecordIsTrue'
    BY <1>1, <1>3, <2>1 DEF RecordIsTrue, Plan, Testing
  <2> QED BY <2>2, <2>3, <2>4, InTestStep
<1>4. "error" \in Raised
  BY DEF Raised
<1> QED BY <1>2, <1>3, <1>4 DEF Reassess

\* A failing rollback goes on to the cleanup.
LEMMA RollbackFailsStep ==
    ASSUME IInv, NEW e \in Raised \cup {"start"}, RollbackFails(e), Plan, Result,
           UNCHANGED <<containers, rec>>, server' \in Setting,
           \/ pc \in {"rollback", "reactivate"}
           \/ pc = "verify" /\ UNCHANGED server
    PROVE  IInv'
<1>1. pc' = "close" /\ exn' # "none" /\ exn' \in Exception
  BY DEF RollbackFails, Exception, Raised
<1>2. InTest
  BY <1>1 DEF InTest, Testing, IInv, TypeOK
<1>3. NearSource' /\ RecordIsTrue'
  BY <1>1 DEF NearSource, RecordIsTrue, IInv, Plan, Testing
<1>4. RollbackIsExact'
  BY <1>1
  DEF RollbackIsExact, RecordIsTrue, RunsOnItsFiles, Source, IInv, Plan, Testing
<1> QED BY <1>2, <1>3, <1>4, InTestStep

LEMMA RollbackSqlStep == ASSUME IInv, RollbackSql PROVE IInv'
<1> DEFINE a == DeriveRollback(Source)
           altered == AlterSystem(server, a)
<1>1. a \in Action
  BY SourceTypes, RollbackType
<1>2. altered \in Setting /\ Reloaded(altered, RestartOnly) \in Setting
  BY <1>1, ScriptTypes
<1>3. /\ Near(server) /\ Source.live = FileValue(Source)
      /\ pc = "rollback" /\ Plan /\ Result /\ UNCHANGED <<containers, rec>>
  BY DEF IInv, NearSource, RollbackSql
<1>4. RunsOnItsFiles => altered.auto = Source.auto
  BY SourceTypes, RollbackRestoresAuto DEF RunsOnItsFiles, IInv, SourceAccepted
<1>5. CASE /\ server' = Reloaded(altered, RestartOnly)
           /\ pc' = "reactivate" /\ UNCHANGED exn
  <2>1. InTest
    BY <1>2, <1>3, <1>5 DEF InTest, Testing, IInv, TypeOK
  <2>2. Near(server') /\ server'.auto = altered.auto
    BY <1>3, <1>5, SourceTypes
    DEF Near, AlterSystem, Reloaded, Loaded, Setting
  <2>3. NearSource'
    BY <1>3, <1>4, <1>5, <2>2
    DEF NearSource, Near, Plan, Source, RestartOnly, RunsOnItsFiles
  <2>4. RollbackIsExact' /\ RecordIsTrue'
    BY <1>3, <1>5 DEF RollbackIsExact, RecordIsTrue, IInv, Plan, Testing
  <2> QED BY <2>1, <2>3, <2>4, InTestStep
<1>6. ASSUME NEW e \in Raised, RollbackFails(e),
             server' \in {server, altered, Reloaded(altered, RestartOnly)}
      PROVE  IInv'
  <2>1. server' \in Setting
    BY <1>2, <1>6, SourceTypes
  <2> QED BY <1>3, <1>6, <2>1, RollbackFailsStep
<1> QED BY <1>5, <1>6 DEF RollbackSql, CommandRaised, Raised

LEMMA ActivateRollbackStep == ASSUME IInv, ActivateRollback PROVE IInv'
<1>1. PICK o \in ActivateOutcomes(server, Source.live) :
        /\ server' = o.server
        /\ IF o.exn = "none"
           THEN /\ rec' = [rec EXCEPT !.undone = TRUE]
                /\ pc' = "verify"
                /\ UNCHANGED exn
           ELSE RollbackFails(o.exn) /\ UNCHANGED rec
  BY DEF ActivateRollback
<1>2. o.server \in Setting /\ o.exn \in Exception
  BY <1>1, OutcomeTypes
<1>3. /\ Near(server) /\ Source.live = FileValue(Source)
      /\ RunsOnItsFiles => server.auto = Source.auto
      /\ pc = "reactivate" /\ Plan /\ Result /\ UNCHANGED containers
      /\ rec.template = template
  BY DEF IInv, NearSource, RecordIsTrue, ActivateRollback, Testing
<1>4. CASE o.exn = "none"
  <2>1. rec' \in Record /\ rec'.template = rec.template /\ rec'.undone
        /\ rec'.accepted = rec.accepted /\ rec'.broken = rec.broken
    BY <1>1, <1>4, SourceTypes DEF Record
  <2>2. InTest
    BY <1>1, <1>2, <1>3, <1>4, <2>1 DEF InTest, Testing, IInv, TypeOK
  <2>3. server' = Activated(server, RestartOnly)
    BY <1>1, <1>4 DEF ActivateOutcomes, Raised
  <2>4. RunsOnItsFiles => server' = Source
    BY <1>3, <2>3, SourceTypes, ActivationRestores DEF Near, RunsOnItsFiles
  <2>5. NearSource' /\ RollbackIsExact'
    BY <1>1, <1>3, <1>4, <2>4
    DEF NearSource, RollbackIsExact, RunsOnItsFiles, Source, Plan
  <2>6. RecordIsTrue'
    BY <1>1, <1>3, <1>4, <2>1 DEF RecordIsTrue, IInv, Plan, Testing
  <2> QED BY <2>2, <2>5, <2>6, InTestStep
<1>5. CASE o.exn # "none"
  <2>1. o.exn \in Raised \cup {"start"} /\ RollbackFails(o.exn) /\ UNCHANGED rec
    BY <1>1, <1>2, <1>5 DEF Exception
  <2> QED BY <1>1, <1>2, <1>3, <2>1, RollbackFailsStep
<1> QED BY <1>4, <1>5

LEMMA VerifyRollbackStep == ASSUME IInv, VerifyRollback PROVE IInv'
<1>1. /\ pc = "verify" /\ UNCHANGED <<server, containers>> /\ Plan /\ Result
      /\ server' \in Setting /\ rec \in Record /\ rec.undone
      /\ rec.template = template
  BY SourceTypes DEF VerifyRollback, IInv, RecordIsTrue, Testing
<1>2. ASSUME NEW e \in Raised, RollbackFails(e), UNCHANGED rec PROVE IInv'
  BY <1>1, <1>2, RollbackFailsStep
<1>3. ASSUME NEW ok \in BOOLEAN, pc' = "close",
             rec' = [rec EXCEPT !.rollback_verified = ok],
             exn' = IF ok THEN exn ELSE "error"
      PROVE  IInv'
  <2>1. /\ rec' \in Record /\ rec'.template = rec.template
        /\ rec'.undone /\ rec'.rollback_verified = ok
        /\ rec'.accepted = rec.accepted /\ rec'.broken = rec.broken
    BY <1>1, <1>3 DEF Record
  <2>2. InTest
    BY <1>1, <1>3, <2>1 DEF InTest, Testing, IInv, TypeOK, Exception, Raised
  <2>3. NearSource' /\ RollbackIsExact'
    BY <1>1, <1>3
    DEF NearSource, RollbackIsExact, RunsOnItsFiles, Source, Plan, IInv
  <2>4. RecordIsTrue'
    BY <1>1, <1>3, <2>1 DEF RecordIsTrue, IInv, Plan, Testing
  <2> QED BY <2>2, <2>3, <2>4, InTestStep
<1>4. ASSUME NEW sound \in BOOLEAN,
             LET ok == sound /\ server = Source IN
             /\ rec' = [rec EXCEPT !.rollback_verified = ok]
             /\ exn' = IF ok THEN exn ELSE "error"
             /\ pc' = "close"
      PROVE  IInv'
  <2>1. (sound /\ server = Source) \in BOOLEAN
    OBVIOUS
  <2> QED BY <1>3, <1>4, <2>1
<1> QED BY <1>2, <1>4 DEF VerifyRollback

LEMMA AppendFacts ==
    ASSUME NEW S, NEW s \in Seq(S), NEW x \in S
    PROVE  /\ Append(s, x) \in Seq(S)
           /\ Len(Append(s, x)) = Len(s) + 1 /\ Len(s) \in Nat
           /\ DOMAIN s = 1..Len(s) /\ DOMAIN Append(s, x) = 1..(Len(s) + 1)
           /\ \A i \in 1..Len(s) : Append(s, x)[i] = s[i]
           /\ Append(s, x)[Len(s) + 1] = x
OBVIOUS

LEMMA FinishAttemptStep ==
    ASSUME IInv, Close, NEW cleaned \in BOOLEAN, FinishAttempt(cleaned),
           containers' \in IF cleaned THEN {containers \ {Current}}
                           ELSE {containers, containers \ {Current}},
           exn # "interrupt"
    PROVE  IInv'
<1> DEFINE result == IF ~cleaned THEN "CLEANUP_FAILED"
                     ELSE IF exn = "none" THEN "VERIFIED" ELSE "FAILED"
           done == \/ ~cleaned
                   \/ exn \in {"start", "contract", "none"}
                   \/ Current >= MaxAttempts
           x == [template |-> rec.template, status |-> result,
                 error |-> exn, cleaned |-> cleaned]
           n == Len(attempts)
<1>1. /\ attempts' = Append(attempts, x) /\ status' = result
      /\ done => pc' = "end"
      /\ ~done => pc' \in {"revise", "test_fix"} /\ (input.adaptive => pc' = "revise")
  BY DEF FinishAttempt, Outcome, Terminal
<1>2. /\ pc = "close" /\ exn' = "none" /\ server' = Image
      /\ UNCHANGED <<input, rec, template, fix, used>>
      /\ attempts \in Seq(Attempt) /\ rec \in Record /\ exn \in Exception
      /\ rec.template = template
  BY DEF Close, Plan, IInv, TypeOK, RecordIsTrue, Testing
<1>3. x \in Attempt
  BY <1>2 DEF Attempt, Record, Status
<1>4. /\ attempts' \in Seq(Attempt) /\ Len(attempts') = n + 1 /\ n \in Nat
      /\ DOMAIN attempts = 1..n /\ DOMAIN attempts' = 1..(n + 1)
      /\ \A i \in 1..n : attempts'[i] = attempts[i]
      /\ attempts'[n + 1] = x
  BY <1>1, <1>2, <1>3, AppendFacts
<1>5. n < MaxAttempts /\ MaxAttempts \in Nat
  BY <1>2, LoopAssumption DEF IInv, AttemptsLeft
<1>6. Image \in Setting
  BY ImageType DEF Image, IInv, TypeOK, Input
<1>7. result \in Status
  BY DEF Status
<1> HIDE DEF x, result
<1>8. TypeOK'
  <2>1. containers' \subseteq 1..MaxAttempts
    BY DEF IInv, TypeOK
  <2>2. pc' \in Step
    BY <1>1 DEF Step
  <2> QED BY <1>1, <1>2, <1>4, <1>5, <1>6, <1>7, <2>1, <2>2
          DEF IInv, TypeOK, Exception
<1>9. AttemptsLeft' /\ SourceAccepted'
  BY <1>1, <1>2, <1>4, <1>5
  DEF AttemptsLeft, SourceAccepted, Source, RestartOnly, Current, IInv
<1>10. OneContainer'
  <2>1. containers \subseteq {Current}
    BY <1>2 DEF IInv, OneContainer, Testing
  <2>2. CASE cleaned
    BY <1>1, <2>1, <2>2 DEF OneContainer, Testing
  <2>3. CASE ~cleaned
    BY <1>1, <2>3 DEF OneContainer, Testing, result
  <2> QED BY <2>2, <2>3
<1>11. NearSource' /\ RollbackIsExact' /\ RecordIsTrue'
  BY <1>1, <1>2 DEF NearSource, RollbackIsExact, RecordIsTrue, Testing
<1>12. VerifiedIsProven'
  <2>1. SUFFICES ASSUME status' = "VERIFIED" PROVE VerifiedIsProven'
    BY DEF VerifiedIsProven
  <2>2. cleaned /\ exn = "none"
    BY <1>1, <2>1 DEF result
  <2>3. rec.accepted /\ rec.broken = {} /\ rec.undone /\ rec.rollback_verified
    BY <1>2, <2>2 DEF IInv, RecordIsTrue
  <2>4. containers' = {}
    BY <1>2, <2>2 DEF IInv, OneContainer, Testing
  <2>5. Last' = x /\ x.cleaned /\ x.template = template
    BY <1>2, <1>4, <2>2 DEF Last, x
  <2>6. fix = template
    BY <1>2 DEF IInv, ResultIsFinal
  <2> QED BY <1>2, <2>3, <2>4, <2>5, <2>6 DEF VerifiedIsProven
<1>13. ResultIsFinal'
  <2>1. fix = template
    BY <1>2 DEF IInv, ResultIsFinal
  <2>2. result \in {"VERIFIED", "CLEANUP_FAILED", "NEEDS_REVIEW"} => done
    BY DEF result
  <2>3. attempts' # <<>>
    BY <1>4
  <2> QED BY <1>1, <1>2, <2>1, <2>2, <2>3 DEF ResultIsFinal
<1>14. UsedIsTried' /\ NoSqlRepeated'
  <2>1. x.template = rec.template
    BY DEF x
  <2> QED BY <1>1, <1>2, <1>4, <2>1
          DEF IInv, UsedIsTried, NoSqlRepeated, Testing
<1>15. EarlierRetryable'
  <2>1. ~done => x.error = "error" /\ x.cleaned
    BY <1>2 DEF x, Exception, Raised
  <2>2. \A i \in 1..n : attempts[i].error = "error" /\ attempts[i].cleaned
    BY <1>2, <1>4 DEF IInv, EarlierRetryable
  <2> QED BY <1>1, <1>4, <2>1, <2>2 DEF EarlierRetryable
<1> QED BY <1>8, <1>9, <1>10, <1>11, <1>12, <1>13, <1>14, <1>15 DEF IInv

LEMMA CloseStep == ASSUME IInv, Close PROVE IInv'
<1>1. PICK cleaned \in BOOLEAN :
        /\ containers' \in IF cleaned THEN {containers \ {Current}}
                           ELSE {containers, containers \ {Current}}
        /\ \/ pc' = "aborted" /\ Result
           \/ exn # "interrupt" /\ FinishAttempt(cleaned)
  BY DEF Close
<1>2. CASE exn # "interrupt" /\ FinishAttempt(cleaned)
  BY <1>1, <1>2, FinishAttemptStep
<1>3. CASE pc' = "aborted" /\ Result
  <2>1. /\ pc = "close" /\ pc' = "aborted" /\ exn' = "none" /\ server' = Image
        /\ UNCHANGED <<input, rec, template, fix, used, attempts, status>>
    BY <1>1, <1>3 DEF Close, Plan, Result
  <2>2. Image \in Setting
    BY ImageType DEF Image, IInv, TypeOK, Input
  <2>3. TypeOK'
    BY <1>1, <2>1, <2>2 DEF IInv, TypeOK, Step, Exception
  <2>4. AttemptsLeft' /\ SourceAccepted' /\ OneContainer'
    BY <2>1
    DEF AttemptsLeft, SourceAccepted, Source, RestartOnly, OneContainer, IInv,
        Testing
  <2>5. NearSource' /\ RollbackIsExact' /\ RecordIsTrue'
    BY <2>1 DEF NearSource, RollbackIsExact, RecordIsTrue, Testing
  <2>6. ResultIsFinal' /\ VerifiedIsProven'
    BY <2>1 DEF ResultIsFinal, VerifiedIsProven, IInv
  <2>7. UsedIsTried' /\ NoSqlRepeated' /\ EarlierRetryable'
    BY <2>1 DEF UsedIsTried, NoSqlRepeated, EarlierRetryable, IInv, Testing
  <2> QED BY <2>3, <2>4, <2>5, <2>6, <2>7 DEF IInv
<1> QED BY <1>1, <1>2, <1>3

\* A step between two tests: it may select a template whose SQL is unused.
LEMMA BetweenTests ==
    ASSUME IInv, pc = "revise", pc' \in {"test_fix", "end", "aborted"},
           UNCHANGED <<input, used, attempts, exn, server, containers, rec>>,
           template' \in Template, fix' \in Template,
           pc' = "test_fix" => /\ fix' = template' /\ UNCHANGED status
                               /\ Sql[template'] \notin used,
           pc' = "end" => status' = "NEEDS_REVIEW",
           pc' = "aborted" => UNCHANGED <<template, fix, status>>
    PROVE  IInv'
<1>1. TypeOK'
  BY DEF IInv, TypeOK, Step, Status
<1>2. AttemptsLeft' /\ SourceAccepted' /\ OneContainer'
  BY DEF AttemptsLeft, SourceAccepted, Source, RestartOnly, OneContainer, IInv,
         Testing
<1>3. NearSource' /\ RollbackIsExact' /\ RecordIsTrue'
  BY DEF NearSource, RollbackIsExact, RecordIsTrue, Testing
<1>4. ResultIsFinal' /\ VerifiedIsProven'
  BY DEF ResultIsFinal, VerifiedIsProven, IInv
<1>5. UsedIsTried' /\ NoSqlRepeated' /\ EarlierRetryable'
  BY DEF UsedIsTried, NoSqlRepeated, EarlierRetryable, IInv, Testing
<1> QED BY <1>1, <1>2, <1>3, <1>4, <1>5 DEF IInv

LEMMA ReviseSteps == ASSUME IInv, ReviseStops \/ ReviseSelects PROVE IInv'
<1>1. CASE ReviseStops
  BY <1>1, BetweenTests DEF ReviseStops, NeedsReview, IInv, TypeOK
<1>2. CASE ReviseSelects
  BY <1>2, BetweenTests
  DEF ReviseSelects, Available, NeedsReview, IInv, TypeOK
<1> QED BY <1>1, <1>2

LEMMA IdleStep == ASSUME IInv, UNCHANGED vars PROVE IInv'
<1> USE DEF vars, IInv
<1>1. TypeOK' /\ AttemptsLeft' /\ SourceAccepted' /\ OneContainer'
  BY DEF TypeOK, AttemptsLeft, SourceAccepted, Source, RestartOnly,
         OneContainer, Current
<1>2. NearSource' /\ RollbackIsExact' /\ RecordIsTrue'
  BY DEF NearSource, Near, RollbackIsExact, RunsOnItsFiles, RecordIsTrue,
         Source, RestartOnly
<1>3. ResultIsFinal' /\ VerifiedIsProven'
  BY DEF ResultIsFinal, VerifiedIsProven, Last
<1>4. UsedIsTried' /\ NoSqlRepeated' /\ EarlierRetryable'
  BY DEF UsedIsTried, NoSqlRepeated, EarlierRetryable
<1> QED BY <1>1, <1>2, <1>3, <1>4

----------------------------------------------------------------------------
LEMMA StepInv == IInv /\ [Next]_vars => IInv'
<1> SUFFICES ASSUME IInv, [Next]_vars PROVE IInv'
  OBVIOUS
<1>1. CASE Progress
  BY <1>1, TestFixStep, StartStep, ReproduceStep, ApplySqlStep,
     ActivateFixStep, ReassessStep, RollbackSqlStep, ActivateRollbackStep,
     VerifyRollbackStep, CloseStep, ReviseSteps
  DEF Progress
<1>2. CASE Finished \/ UNCHANGED vars
  BY <1>2, IdleStep DEF Finished
<1> QED BY <1>1, <1>2 DEF Next

LEMMA Inductive == Spec => []IInv
BY InitInv, StepInv, PTL DEF Spec

\* The loop's bookkeeping keeps its types, and at most MaxAttempts tests run.
THEOREM TypeCorrect == Spec => []TypeOK
<1>1. IInv => TypeOK
  BY DEF IInv
<1> QED BY <1>1, Inductive, PTL

\* No exception path leads to VERIFIED without acceptance, exact rollback and
\* removal of the server in one and the same test.
THEOREM VerifiedRestsOnProof == Spec => []VerifiedIsProven
<1>1. IInv => VerifiedIsProven
  BY DEF IInv
<1> QED BY <1>1, Inductive, PTL

\* The rollback derived from the prior state restores the source exactly,
\* from wherever the apply phase stopped.
THEOREM DerivedRollbackRestores == Spec => []RollbackIsExact
<1>1. IInv => RollbackIsExact
  BY DEF IInv
<1> QED BY <1>1, Inductive, PTL

\* No sandbox outlives its test unless the run says CLEANUP_FAILED.
THEOREM SandboxesAreRemoved == Spec => []NoLeftovers
<1>1. IInv => NoLeftovers
  BY DEF IInv, OneContainer, NoLeftovers
<1> QED BY <1>1, Inductive, PTL

\* Adaptive runs never test the same SQL twice.
THEOREM SqlIsTestedOnce == Spec => []NoSqlRepeated
<1>1. IInv => NoSqlRepeated
  BY DEF IInv
<1> QED BY <1>1, Inductive, PTL

\* Only retryable failures in removed sandboxes are followed by another test.
THEOREM RetriesAreRetryable == Spec => []OnlyRetryableRetried
<1>1. IInv => OnlyRetryableRetried
  BY DEF IInv, EarlierRetryable, OnlyRetryableRetried
<1> QED BY <1>1, Inductive, PTL

----------------------------------------------------------------------------
(* The loop implements the promise of module Rehearsal: each action is one *)
(* step of the promise, or leaves stage and verdict alone.                 *)

LEMMA PromiseInit == Init => Promise!Init
BY DEF Init, Promise!Init, StageOf, VerdictOf

PStutter == UNCHANGED Promise!vars

LEMMA PromiseTestFix == ASSUME TestFix PROVE Promise!Create
BY DEF TestFix, Promise!Create, StageOf, VerdictOf

LEMMA PromiseStart == ASSUME Start PROVE PStutter \/ Promise!Fail
BY DEF Start, Raised, PStutter, Promise!vars, Promise!Fail, StageOf, VerdictOf

LEMMA PromiseReproduce ==
    ASSUME Reproduce PROVE Promise!Reproduce \/ Promise!Fail
BY DEF Reproduce, Raised, Promise!Reproduce, Promise!Fail, StageOf, VerdictOf

\* A failing apply phase fails the rehearsal.
LEMMA PromiseApplyFails ==
    ASSUME IInv, NEW e \in Raised \cup {"start"}, ApplyFails(e),
           pc \in {"apply", "activate", "reassess"}
    PROVE  Promise!Fail
<1>1. rec \in Record /\ ~rec.accepted
  BY SourceTypes DEF IInv, RecordIsTrue
<1>2. ~rec'.accepted
  BY <1>1 DEF ApplyFails, Record
<1>3. pc' \in {"rollback", "close"} /\ exn' # "none"
  BY DEF ApplyFails, Raised
<1>4. StageOf = "reproduced" /\ VerdictOf = "open"
  BY DEF StageOf, VerdictOf
<1>5. StageOf' = "failed" /\ VerdictOf' = "open"
  BY <1>2, <1>3 DEF StageOf, VerdictOf
<1> QED BY <1>4, <1>5 DEF Promise!Fail

LEMMA PromiseApplySql == ASSUME IInv, ApplySql PROVE PStutter \/ Promise!Fail
<1>1. ASSUME NEW e \in Raised, ApplyFails(e) PROVE Promise!Fail
  BY <1>1, PromiseApplyFails DEF ApplySql
<1>2. CASE pc' = "activate"
  BY <1>2 DEF ApplySql, PStutter, Promise!vars, StageOf, VerdictOf
<1> QED BY <1>1, <1>2 DEF ApplySql, CommandRaised, Raised

LEMMA PromiseActivateFix ==
    ASSUME IInv, ActivateFix PROVE PStutter \/ Promise!Fail
<1>1. PICK o \in ActivateOutcomes(server, Wanted) :
        IF o.exn = "none" THEN pc' = "reassess" ELSE ApplyFails(o.exn)
  BY DEF ActivateFix
<1>2. o.exn \in Exception
  BY <1>1, OutcomeTypes
<1>3. CASE o.exn = "none"
  BY <1>1, <1>3 DEF ActivateFix, PStutter, Promise!vars, StageOf, VerdictOf
<1>4. CASE o.exn # "none"
  BY <1>1, <1>2, <1>4, PromiseApplyFails DEF ActivateFix, Exception
<1> QED BY <1>3, <1>4

LEMMA PromiseReassess ==
    ASSUME IInv, Reassess PROVE Promise!Accept \/ Promise!Fail
<1>1. pc = "reassess" /\ rec \in Record /\ "error" \in Raised
  BY SourceTypes DEF Reassess, Raised
<1>2. ASSUME NEW e \in Raised, ApplyFails(e) PROVE Promise!Fail
  BY <1>1, <1>2, PromiseApplyFails
<1>3. ASSUME NEW broken \in SUBSET Gate, pc' = "rollback",
             rec' = [rec EXCEPT !.accepted = TRUE, !.broken = broken]
      PROVE  Promise!Accept
  <2>1. rec'.accepted
    BY <1>1, <1>3 DEF Record
  <2>2. StageOf = "reproduced" /\ VerdictOf = "open"
    BY <1>1 DEF StageOf, VerdictOf
  <2>3. StageOf' = "accepted" /\ VerdictOf' = "open"
    BY <1>3, <2>1 DEF StageOf, VerdictOf
  <2> QED BY <2>2, <2>3 DEF Promise!Accept
<1> QED BY <1>1, <1>2, <1>3 DEF Reassess

\* A failing rollback fails an accepted rehearsal; a failed one stays failed.
LEMMA PromiseRollbackFails ==
    ASSUME NEW e \in Raised \cup {"start"}, RollbackFails(e), UNCHANGED rec,
           pc \in {"rollback", "reactivate", "verify"}
    PROVE  PStutter \/ Promise!Fail
<1>1. StageOf \in {"accepted", "failed"} /\ VerdictOf = "open"
  BY DEF StageOf, VerdictOf
<1>2. StageOf' = "failed" /\ VerdictOf' = "open"
  BY DEF RollbackFails, Raised, StageOf, VerdictOf
<1> QED BY <1>1, <1>2 DEF PStutter, Promise!vars, Promise!Fail

LEMMA PromiseRollbackSql ==
    ASSUME IInv, RollbackSql PROVE PStutter \/ Promise!Fail
<1>1. ASSUME NEW e \in Raised, RollbackFails(e) PROVE PStutter \/ Promise!Fail
  BY <1>1, PromiseRollbackFails DEF RollbackSql
<1>2. CASE pc' = "reactivate"
  BY <1>2 DEF RollbackSql, PStutter, Promise!vars, StageOf, VerdictOf
<1> QED BY <1>1, <1>2 DEF RollbackSql, CommandRaised, Raised

LEMMA PromiseActivateRollback ==
    ASSUME IInv, ActivateRollback PROVE PStutter \/ Promise!Fail
<1>1. PICK o \in ActivateOutcomes(server, Source.live) :
        IF o.exn = "none"
        THEN rec' = [rec EXCEPT !.undone = TRUE] /\ pc' = "verify"
        ELSE RollbackFails(o.exn) /\ UNCHANGED rec
  BY DEF ActivateRollback
<1>2. o.exn \in Exception /\ pc = "reactivate" /\ rec \in Record
  BY <1>1, OutcomeTypes, SourceTypes DEF ActivateRollback
<1>3. CASE o.exn = "none"
  <2>1. rec'.accepted = rec.accepted /\ pc' = "verify"
    BY <1>1, <1>2, <1>3 DEF Record
  <2> QED BY <1>2, <2>1 DEF PStutter, Promise!vars, StageOf, VerdictOf
<1>4. CASE o.exn # "none"
  BY <1>1, <1>2, <1>4, PromiseRollbackFails DEF Exception
<1> QED BY <1>3, <1>4

LEMMA PromiseVerifyRollback ==
    ASSUME IInv, VerifyRollback
    PROVE  PStutter \/ Promise!Undo \/ Promise!Fail
<1>1. pc = "verify" /\ rec \in Record /\ (exn = "none" => rec.accepted)
  BY SourceTypes DEF VerifyRollback, IInv, RecordIsTrue
<1>2. ASSUME NEW e \in Raised, RollbackFails(e), UNCHANGED rec
      PROVE  PStutter \/ Promise!Fail
  BY <1>1, <1>2, PromiseRollbackFails
<1>3. ASSUME pc' = "close", exn' \in {exn, "error"}
      PROVE  PStutter \/ Promise!Undo \/ Promise!Fail
  <2>1. StageOf = (IF rec.accepted THEN "accepted" ELSE "failed")
        /\ VerdictOf = "open"
    BY <1>1 DEF StageOf, VerdictOf
  <2>2. StageOf' = (IF exn' = "none" THEN "undone" ELSE "failed")
        /\ VerdictOf' = "open"
    BY <1>3 DEF StageOf, VerdictOf
  <2> QED BY <1>1, <1>3, <2>1, <2>2
          DEF PStutter, Promise!vars, Promise!Undo, Promise!Fail
<1> QED BY <1>2, <1>3 DEF VerifyRollback

LEMMA PromiseClose == ASSUME IInv, Close PROVE Promise!Remove \/ Promise!Leak
<1>1. /\ pc = "close" /\ exn \in Exception
      /\ StageOf = (IF exn = "none" THEN "undone" ELSE "failed")
  BY DEF Close, IInv, TypeOK, StageOf
<1>2. CASE pc' = "aborted"
  <2>1. StageOf' = "none" /\ VerdictOf' = "ABORTED"
    BY <1>2 DEF StageOf, VerdictOf
  <2> QED BY <1>1, <2>1 DEF Promise!Leak
<1>3. ASSUME NEW cleaned \in BOOLEAN, FinishAttempt(cleaned)
      PROVE  Promise!Remove \/ Promise!Leak
  <2>1. pc' \in {"end", "revise", "test_fix"}
    BY <1>3 DEF FinishAttempt, Outcome, Terminal
  <2>2. StageOf' = "none"
        /\ VerdictOf' = (IF pc' = "end" THEN status' ELSE "open")
    BY <2>1 DEF StageOf, VerdictOf
  <2>3. CASE ~cleaned
    BY <1>1, <1>3, <2>2, <2>3 DEF FinishAttempt, Outcome, Terminal, Promise!Leak
  <2>4. CASE cleaned /\ exn = "none"
    BY <1>1, <1>3, <2>2, <2>4 DEF FinishAttempt, Outcome, Terminal, Promise!Remove
  <2>5. CASE cleaned /\ exn # "none"
    BY <1>1, <1>3, <2>2, <2>5 DEF FinishAttempt, Outcome, Terminal, Promise!Remove
  <2> QED BY <2>3, <2>4, <2>5
<1> QED BY <1>2, <1>3 DEF Close

LEMMA PromiseRevise ==
    ASSUME ReviseStops \/ ReviseSelects PROVE PStutter \/ Promise!Refuse
<1>1. pc = "revise" /\ pc' \in {"test_fix", "end", "aborted"}
      /\ (pc' = "end" => status' = "NEEDS_REVIEW")
  BY DEF ReviseStops, ReviseSelects, NeedsReview
<1> QED BY <1>1 DEF PStutter, Promise!vars, Promise!Refuse, StageOf, VerdictOf

LEMMA PromiseStep ==
    IInv /\ [Next]_vars => [Promise!Next]_(Promise!vars)
<1> SUFFICES ASSUME IInv, [Next]_vars PROVE Promise!Next \/ PStutter
  BY DEF PStutter
<1>1. CASE UNCHANGED vars \/ Finished
  BY <1>1 DEF Finished, vars, PStutter, Promise!vars, StageOf, VerdictOf
<1>2. CASE Progress
  BY <1>2, PromiseTestFix, PromiseStart, PromiseReproduce, PromiseApplySql,
     PromiseActivateFix, PromiseReassess, PromiseRollbackSql,
     PromiseActivateRollback, PromiseVerifyRollback, PromiseClose,
     PromiseRevise
  DEF Progress, Promise!Next
<1> QED BY <1>1, <1>2 DEF Next

\* Every run of the loop is a rehearsal as the documentation promises it.
THEOREM LoopKeepsPromise == Spec => KeepsPromise
BY PromiseInit, PromiseStep, Inductive, PTL DEF Spec, KeepsPromise, Promise!Spec
=============================================================================
