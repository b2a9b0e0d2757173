--------------------------- MODULE FixLoopsProofs ---------------------------
(***************************************************************************)
(* Containers, verdicts, the rehearsal and the target of the object and    *)
(* catalog loops of FixLoops, for every source, environment, offered fix   *)
(* and number of attempts, with any call failing and the process killed at *)
(* any step.                                                               *)
(***************************************************************************)
EXTENDS FixLoops, FixRulesProofs

----------------------------------------------------------------------------
(* The inductive invariant.                                                *)

\* A test begins with no container, and each has at most its own.
OneContainer ==
  /\ containers \subseteq {attempt}
  /\ pc \in {"idle", "test", "start"} => containers = {}

\* Outside a test a container is admitted to, or a killed process left it.
Admitted ==
  /\ containers # {} => pc \in Running \cup {"aborted"} \/ status = "CLEANUP_FAILED"
  /\ pc = "end" /\ status = "VERIFIED" => containers = {}

\* Only an accepted fix reaches its rollback without an exception.
CleanMeansAccepted == pc = "rollback" /\ exn = "none" => accepted

IInv == OneContainer /\ Admitted /\ CleanMeansAccepted
----------------------------------------------------------------------------

\* Each step keeps it.
LEMMA InitInv == Init => IInv
BY DEF Init, IInv, OneContainer, Admitted, CleanMeansAccepted

LEMMA BeginInv == ASSUME IInv, Prepare \/ TestFix PROVE IInv'
BY DEF Prepare, TestFix, box_vars, IInv, OneContainer, Admitted, CleanMeansAccepted, Running

LEMMA StartInv == ASSUME IInv, Start PROVE IInv'
<1>1. OneContainer' /\ Admitted'
  BY DEF Start, IInv, OneContainer, Admitted, Running
<1>2. CleanMeansAccepted'
  BY DEF Start, CleanMeansAccepted
<1> QED BY <1>1, <1>2 DEF IInv

\* The steps on the server in the container leave the container alone.
LEMMA InsideInv ==
  ASSUME IInv, pc \in Running \ {"start"}, pc' \in Running \ {"start"},
         UNCHANGED <<containers, attempt, status>>, CleanMeansAccepted'
  PROVE  IInv'
BY DEF IInv, OneContainer, Admitted, Running

LEMMA ReproduceInv == ASSUME IInv, Reproduce PROVE IInv'
<1>1. pc = "reproduce" /\ pc' \in {"apply", "close"} /\ UNCHANGED <<containers, attempt, status>>
  BY DEF Reproduce
<1> QED BY <1>1, InsideInv DEF Running, CleanMeansAccepted

LEMMA ApplyInv == ASSUME IInv, Apply PROVE IInv'
<1>1. pc = "apply" /\ pc' \in {"reassess", "rollback", "close"} /\ UNCHANGED <<containers, attempt, status>>
  BY DEF Apply
<1>2. pc' = "rollback" => exn' # "none"
  BY DEF Apply, Fault, Raised
<1> QED BY <1>1, <1>2, InsideInv DEF Running, CleanMeansAccepted

LEMMA ReassessInv == ASSUME IInv, Reassess PROVE IInv'
<1>1. pc = "reassess" /\ pc' = "rollback" /\ UNCHANGED <<containers, attempt, status>>
  BY DEF Reassess
<1>2. exn' = "none" => accepted'
  BY DEF Reassess, Fault, Raised
<1> QED BY <1>1, <1>2, InsideInv DEF Running, CleanMeansAccepted

LEMMA RollbackInv == ASSUME IInv, Rollback PROVE IInv'
<1>1. pc = "rollback" /\ pc' = "close" /\ UNCHANGED <<containers, attempt, status>>
  BY DEF Rollback
<1> QED BY <1>1, InsideInv DEF Running, CleanMeansAccepted

\* How an attempt ends: with its container gone, admitted to or interrupted.
LEMMA CloseCases ==
  ASSUME Close
  PROVE  /\ pc = "close"
         /\ \E cleaned \in BOOLEAN :
              /\ containers' \subseteq containers
              /\ cleaned => containers' = containers \ {attempt}
              /\ status' = Outcome(cleaned)
              /\ \/ exn = "interrupt" /\ pc' = "aborted" /\ attempt' = attempt
                 \/ exn # "interrupt" /\ DoneAfter(cleaned) /\ pc' = "end" /\ attempt' = attempt
                 \/ exn # "none" /\ cleaned /\ pc' = "test"
BY DEF Close, DoneAfter

LEMMA CloseInv == ASSUME IInv, Close PROVE IInv'
<1>1. PICK cleaned \in BOOLEAN :
        /\ containers' \subseteq containers
        /\ cleaned => containers' = containers \ {attempt}
        /\ status' = Outcome(cleaned)
        /\ \/ exn = "interrupt" /\ pc' = "aborted" /\ attempt' = attempt
           \/ exn # "interrupt" /\ DoneAfter(cleaned) /\ pc' = "end" /\ attempt' = attempt
           \/ exn # "none" /\ cleaned /\ pc' = "test"
  BY CloseCases
<1>2. cleaned => containers' = {}
  BY <1>1 DEF IInv, OneContainer
<1>3. ~cleaned => status' = "CLEANUP_FAILED"
  BY <1>1 DEF Outcome
<1>4. OneContainer' /\ CleanMeansAccepted'
  BY <1>1, <1>2 DEF IInv, OneContainer, CleanMeansAccepted
<1>5. Admitted'
  BY <1>1, <1>2, <1>3 DEF Admitted
<1> QED BY <1>4, <1>5 DEF IInv

LEMMA KillInv == ASSUME IInv, Kill PROVE IInv'
BY DEF Kill, box_vars, IInv, OneContainer, Admitted, CleanMeansAccepted

\* What the DBA does with a bundle is about another server.
LEMMA TargetKeeps ==
  ASSUME DBAConnects \/ ApplyOnTarget \/ UndoOnTarget \/ UNCHANGED vars
  PROVE  UNCHANGED <<pc, exn, accepted, containers, attempt, status>>
BY DEF DBAConnects, ApplyOnTarget, UndoOnTarget, vars, box_vars

LEMMA TargetInv ==
  ASSUME IInv, DBAConnects \/ ApplyOnTarget \/ UndoOnTarget \/ UNCHANGED vars PROVE IInv'
BY TargetKeeps DEF IInv, OneContainer, Admitted, CleanMeansAccepted

LEMMA StepInv == IInv /\ [Next]_vars => IInv'
BY BeginInv, StartInv, ReproduceInv, ApplyInv, ReassessInv, RollbackInv, CloseInv, KillInv, TargetInv
DEF Next

LEMMA Inductive == Spec => []IInv
BY InitInv, StepInv, PTL DEF Spec

\* No container of either loop is without a running attempt, an admission in
\* the record or a killed process behind it; none stands beside another
\* attempt's; and a verified fix left none.
THEOREM ContainersAccounted == Spec => []ContainersAccountedFor
<1>1. IInv => ContainersAccountedFor
  BY DEF IInv, OneContainer, Admitted, ContainersAccountedFor
<1> QED BY <1>1, Inductive, PTL

----------------------------------------------------------------------------
(* The refinement of Rehearsal.                                            *)

Stutter == UNCHANGED Promise!vars

\* Each step of the loops is a step of the promise, or none.
LEMMA PromiseInit == Init => Promise!Init
BY DEF Init, Promise!Init, StageOf, VerdictOf

LEMMA PromiseBegin == ASSUME Prepare \/ TestFix PROVE Promise!Create \/ Stutter
BY DEF Prepare, TestFix, box_vars, Promise!Create, Promise!vars, Stutter, StageOf, VerdictOf

LEMMA PromiseStart == ASSUME Start PROVE Promise!Fail \/ Stutter
<1>1. pc = "start" /\ pc' \in {"reproduce", "close"}
  BY DEF Start
<1>2. pc' = "close" => exn' # "none"
  BY DEF Start, Fault, Raised
<1> QED BY <1>1, <1>2 DEF Promise!Fail, Promise!vars, Stutter, StageOf, VerdictOf

LEMMA PromiseReproduce == ASSUME Reproduce PROVE Promise!Reproduce \/ Promise!Fail
<1>1. pc = "reproduce" /\ pc' \in {"apply", "close"}
  BY DEF Reproduce
<1>2. pc' = "close" => exn' # "none"
  BY DEF Reproduce, Fault, Raised
<1> QED BY <1>1, <1>2 DEF Promise!Fail, Promise!Reproduce, StageOf, VerdictOf

LEMMA PromiseApply == ASSUME Apply PROVE Promise!Fail \/ Stutter
<1>1. pc = "apply" /\ pc' \in {"reassess", "rollback", "close"}
  BY DEF Apply
<1>2. pc' # "reassess" => exn' # "none"
  BY DEF Apply, Fault, Raised
<1> QED BY <1>1, <1>2 DEF Promise!Fail, Promise!vars, Stutter, StageOf, VerdictOf

LEMMA PromiseReassess == ASSUME IInv, Reassess PROVE Promise!Accept \/ Promise!Fail
<1>1. pc = "reassess" /\ pc' = "rollback"
  BY DEF Reassess
<1>2. exn' = "none" => accepted'
  BY DEF Reassess, Fault, Raised
<1> QED BY <1>1, <1>2 DEF Promise!Accept, Promise!Fail, StageOf, VerdictOf

LEMMA PromiseRollback ==
  ASSUME IInv, Rollback PROVE Promise!Undo \/ Promise!Fail \/ Stutter
<1>1. pc = "rollback" /\ pc' = "close" /\ (exn' = exn \/ exn' # "none")
  BY DEF Rollback, Fault, Raised
<1>2. exn = "none" => accepted
  BY <1>1 DEF IInv, CleanMeansAccepted
<1> QED BY <1>1, <1>2 DEF Promise!Undo, Promise!Fail, Promise!vars, Stutter, StageOf, VerdictOf

LEMMA PromiseClose == ASSUME Close PROVE Promise!Remove \/ Promise!Leak
<1>1. PICK cleaned \in BOOLEAN :
        /\ status' = Outcome(cleaned)
        /\ \/ exn = "interrupt" /\ pc' = "aborted"
           \/ exn # "interrupt" /\ pc' = "end"
           \/ exn # "none" /\ cleaned /\ pc' = "test"
  BY CloseCases
<1>2. pc = "close"
  BY CloseCases
<1>3. CASE cleaned
  BY <1>1, <1>2, <1>3 DEF Outcome, Promise!Remove, StageOf, VerdictOf
<1>4. CASE ~cleaned
  BY <1>1, <1>2, <1>4 DEF Outcome, Promise!Leak, StageOf, VerdictOf
<1> QED BY <1>3, <1>4

LEMMA PromiseKill == ASSUME Kill PROVE Promise!Leak
BY DEF Kill, box_vars, Running, Promise!Leak, StageOf, VerdictOf

LEMMA PromiseTarget ==
  ASSUME DBAConnects \/ ApplyOnTarget \/ UndoOnTarget \/ UNCHANGED vars PROVE Stutter
BY TargetKeeps DEF Promise!vars, Stutter, StageOf, VerdictOf

LEMMA PromiseStep == IInv /\ [Next]_vars => [Promise!Next]_(Promise!vars)
<1> SUFFICES ASSUME IInv, [Next]_vars PROVE Promise!Next \/ Stutter
  BY DEF Stutter
<1> QED
  BY PromiseBegin, PromiseStart, PromiseReproduce, PromiseApply, PromiseReassess,
     PromiseRollback, PromiseClose, PromiseKill, PromiseTarget
  DEF Next, Promise!Next

\* Both loops keep the promise of Rehearsal: a fix is VERIFIED only when it was
\* reproduced, accepted and undone in one and the same server, which was then
\* removed, whatever failed on the way.
THEOREM LoopsKeepPromise == Spec => KeepsPromise
BY PromiseInit, PromiseStep, Inductive, PTL DEF Spec, KeepsPromise, Promise!Spec

----------------------------------------------------------------------------
(* The run of an offered fix, and its rehearsal on the stand-in.            *)

\* The values of a sequence.
Images(q) == {q[n] : n \in DOMAIN q}

\* The runner's reading of the statements accepts them, and the one library they add
\* is one it can test.
LEMMA ListReviewed ==
  ASSUME NEW c, NEW src, NEW policy, NEW t, OnServer(c, src, policy, t),
         NEW changes, changes = Changes(c, src, policy),
         NEW i \in 1 .. Len(changes), changes[i].param = "preload"
  PROVE  /\ \A act \in {changes[i].apply, changes[i].undo} :
              \/ act.action = "reset_config"
              \/ /\ act.value.items # <<>> /\ Writable(act.value)
                 /\ Cardinality(Images(act.value.items)) = Len(act.value.items)
         /\ Images(changes[i].apply.value.items) \ Images(t.preload.live.items) = {Library(c)}
         /\ Library(c) \in Tested
<1> DEFINE l == Library(c)
           list == src.preload.live
           new == Appended(list, l)
<1>1. /\ l \in {"pgaudit", "passwordcheck"} /\ changes[i].apply = [action |-> "set_config", value |-> new]
      /\ changes[i].undo = PreloadRollback(src) /\ Names(list, l) = {} /\ t.preload = src.preload
  <2>1. AppendsLibrary(c, src, t, changes, i)
    BY ListChange
  <2> QED BY <2>1 DEF AppendsLibrary
<1>2. src.preload \in ListSetting /\ list \in ListValue
  BY DEF OnServer, OfferedFor, HasSettings, ListSetting
<1>3. PreloadFixable(c, src)
  <2>1. c \in {"3.2", "5.6"}
    <3>1. Library("6.10") = "none"
      BY DEF Library
    <3> QED BY <1>1, <3>1 DEF OnServer, OfferedFor, FixControls
  <2> QED BY <2>1 DEF OnServer, OfferedFor, OffersFix
<1>4. /\ Writable(list) /\ Cardinality(Images(list.items)) = Len(list.items)
      /\ src.preload.origin = "postgresql.auto.conf" => list.items # <<>>
  BY <1>1, <1>3 DEF PreloadFixable, Images
<1>5. /\ Len(new.items) = Len(list.items) + 1 /\ Len(list.items) \in Nat
      /\ DOMAIN new.items = 1 .. Len(list.items) + 1 /\ DOMAIN list.items = 1 .. Len(list.items)
      /\ \A n \in DOMAIN list.items : new.items[n] = list.items[n]
      /\ new.items[Len(list.items) + 1] = l
  BY <1>1, <1>2, NamesAppended
<1>6. l \in Forms(l) /\ l # "./other" /\ l \in Tested
  BY <1>1 DEF Forms, Tested
<1>7. l \notin Images(list.items)
  BY <1>1, <1>6 DEF Names, Images
<1> HIDE DEF new, list, l
<1>8. Images(new.items) = Images(list.items) \cup {l}
  <2>1. \A n \in DOMAIN new.items : n \in DOMAIN list.items \/ n = Len(list.items) + 1
    BY <1>5
  <2>2. DOMAIN list.items \subseteq DOMAIN new.items /\ Len(list.items) + 1 \in DOMAIN new.items
    BY <1>5
  <2> QED BY <1>5, <2>1, <2>2 DEF Images
<1>9. IsFiniteSet(Images(list.items))
  <2> DEFINE f == [n \in DOMAIN list.items |-> list.items[n]]
  <2>1. PICK n \in Nat : n = Len(list.items) /\ DOMAIN list.items = 1 .. n
    BY <1>5
  <2>2. IsFiniteSet(1 .. n)
    BY FS_Interval
  <2>3. IsFiniteSet(DOMAIN list.items)
    BY <2>1, <2>2
  <2>4. f \in Surjection(DOMAIN list.items, Images(list.items))
    BY DEF Surjection, Images
  <2> HIDE DEF f
  <2> QED BY <2>3, <2>4, FS_Surjection
<1>10. Cardinality(Images(new.items)) = Len(new.items)
  BY <1>4, <1>5, <1>7, <1>8, <1>9, FS_AddElement
<1>11. new.items # <<>>
  BY <1>5
<1>12. Writable(new)
  BY <1>4, <1>5, <1>6 DEF Writable
<1>13. PreloadRollback(src).action = "reset_config"
       \/ (PreloadRollback(src).value = list /\ src.preload.origin = "postgresql.auto.conf")
  BY DEF PreloadRollback, Lists!DeriveRollback, Lists!SetConfig, Lists!ResetConfig, list
<1>14. \A act \in {changes[i].apply, changes[i].undo} :
         \/ act.action = "reset_config"
         \/ /\ act.value.items # <<>> /\ Writable(act.value)
            /\ Cardinality(Images(act.value.items)) = Len(act.value.items)
  BY <1>1, <1>4, <1>10, <1>11, <1>12, <1>13
<1>15. Images(new.items) \ Images(t.preload.live.items) = {l}
  BY <1>1, <1>7, <1>8 DEF list
<1> QED BY <1>1, <1>6, <1>14, <1>15 DEF l

\* A server is its catalog and its settings.
Server(o, s) == [o |-> o, s |-> s]

\* The two parts of a server, and what an EXCEPT makes of them.
LEMMA ServerParts ==
  ASSUME NEW o, NEW s
  PROVE  /\ Server(o, s).o = o /\ Server(o, s).s = s
         /\ \A q : [Server(o, s) EXCEPT !.o = q] = Server(q, s)
         /\ \A q : [Server(o, s) EXCEPT !.s = q] = Server(o, q)
         /\ \A p, q : Server(o, s) = Server(p, q) => o = p /\ s = q
BY DEF Server

\* The run of an offered fix: its source, its profile and the fix.
Chosen == source \in Sources /\ env \in Envs /\ fix \in Offered

\* What an object fix of the run rests on, and a catalog fix.
ObjectRun ==
  /\ source = Server(source.o, source.s) /\ Possible(source.o) /\ HasSettings(source.s)
  /\ env.limit \in Int /\ IsObject /\ fix.control = "none" /\ Object \in Proposals(source.o, env)
  /\ Rehearsable(source.o, Object) /\ PriorHolds(source.o, Object, source.o)
  /\ ~Predicate(source.o, Object)

CatalogRun ==
  /\ source = Server(source.o, source.s) /\ Possible(source.o)
  /\ ~IsObject /\ OfferedFor(fix.control, source.s, env)
  /\ fix.changes = Changes(fix.control, source.s, env)

\* A chosen fix is an object fix or a catalog fix.
LEMMA ChosenFix == ASSUME Chosen PROVE ObjectRun \/ CatalogRun
<1>1. /\ source = Server(source.o, source.s) /\ Possible(source.o) /\ HasSettings(source.s)
      /\ env.limit \in Int /\ env.classes \subseteq Classes
  BY SourcesAssumption, EnvsAssumption DEF Chosen, Server
<1>2. \A p : ObjectFix(p).kind = "object" /\ ObjectFix(p).object = {p} /\ ObjectFix(p).control = "none"
  BY DEF ObjectFix, NoFix
<1>3. \A c : /\ CatalogFix(c).kind = "catalog" /\ CatalogFix(c).control = c
             /\ CatalogFix(c).changes = Changes(c, source.s, env)
  <2> SUFFICES ASSUME NEW c
               PROVE  /\ CatalogFix(c).kind = "catalog" /\ CatalogFix(c).control = c
                      /\ CatalogFix(c).changes = Changes(c, source.s, env)
    OBVIOUS
  <2> PICK changes : changes = Changes(c, source.s, env)
    OBVIOUS
  <2> QED BY DEF CatalogFix, NoFix
<1>4. CASE \E p \in Proposals(source.o, env) :
              /\ fix = ObjectFix(p) /\ Rehearsable(source.o, p)
              /\ PriorHolds(source.o, p, source.o) /\ ~Predicate(source.o, p)
  <2>1. PICK p \in Proposals(source.o, env) :
              /\ fix = ObjectFix(p) /\ Rehearsable(source.o, p)
              /\ PriorHolds(source.o, p, source.o) /\ ~Predicate(source.o, p)
    BY <1>4
  <2>2. fix.kind = "object" /\ fix.object = {p} /\ fix.control = "none"
    BY <1>2, <2>1
  <2>3. Object = p
    BY <2>2 DEF Object
  <2> QED BY <1>1, <2>1, <2>2, <2>3 DEF ObjectRun, IsObject
<1>5. CASE \E c \in FixControls : fix = CatalogFix(c) /\ OffersFix(c, source.s, env) /\ Plannable(c, source.s)
  <2>1. PICK c \in FixControls : fix = CatalogFix(c) /\ OffersFix(c, source.s, env) /\ Plannable(c, source.s)
    BY <1>5
  <2>2. fix.kind = "catalog" /\ fix.control = c /\ fix.changes = Changes(c, source.s, env)
    BY <1>3, <2>1
  <2> QED BY <1>1, <2>1, <2>2 DEF CatalogRun, IsObject, OfferedFor
<1> QED BY <1>4, <1>5 DEF Chosen, Offered

\* What the operations do with a server, part by part.
LEMMA ObjectSteps ==
  ASSUME IsObject, NEW o, NEW s
  PROVE  /\ Done(Server(o, s)) = Server(Applied(o, Object), s)
         /\ Restored(Server(o, s)) = Server(Undone(o, Object), s)
         /\ \A t, b : OnTarget(t, b) = b
<1>1. Done(Server(o, s)) = [Server(o, s) EXCEPT !.o = Applied(o, Object)]
  BY ServerParts DEF Done
<1>2. Restored(Server(o, s)) = [Server(o, s) EXCEPT !.o = Undone(o, Object)]
  BY ServerParts DEF Restored
<1> QED BY <1>1, <1>2, ServerParts DEF OnTarget

\* The steps of the loop in terms of the settings alone.
LEMMA CatalogSteps ==
  ASSUME ~IsObject, NEW o, NEW s
  PROVE  /\ Done(Server(o, s)) = Server(o, After(s, fix.changes))
         /\ Restored(Server(o, s)) = Server(o, Back(s, fix.changes))
         /\ \A p, t, u : OnTarget(Server(p, t), Server(o, u)) = Server(o, Kept(t, fix.changes, u))
<1>1. Done(Server(o, s)) = [Server(o, s) EXCEPT !.s = After(s, fix.changes)]
  BY ServerParts DEF Done, After, AllChanges
<1>2. Restored(Server(o, s)) = [Server(o, s) EXCEPT !.s = Back(s, fix.changes)]
  BY ServerParts DEF Restored, Back
<1>3. ASSUME NEW p, NEW t, NEW u
      PROVE  OnTarget(Server(p, t), Server(o, u)) = Server(o, Kept(t, fix.changes, u))
  <2>1. CASE Changed(fix.changes, "preload")
    BY <2>1 DEF OnTarget, Kept
  <2>2. CASE ~Changed(fix.changes, "preload")
    <3>1. OnTarget(Server(p, t), Server(o, u)) = [Server(o, u) EXCEPT !.s.preload = Server(p, t).s.preload]
      BY <2>2 DEF OnTarget
    <3>2. @ = [Server(o, u) EXCEPT !.s = [u EXCEPT !.preload = t.preload]]
      BY DEF Server
    <3> QED BY <2>2, <3>1, <3>2, ServerParts DEF Kept
  <2> QED BY <2>1, <2>2
<1>4. Done(Server(o, s)) = Server(o, After(s, fix.changes))
  BY <1>1, ServerParts
<1>5. Restored(Server(o, s)) = Server(o, Back(s, fix.changes))
  BY <1>2, ServerParts
<1> QED BY <1>3, <1>4, <1>5

\* A disposable server before its reproduction.
EmptyCatalog == [role |-> [r \in {} |-> BareRole], acl |-> {}, definer |-> FALSE, exec |-> {}]

\* The stand-in of the run.
LEMMA ReproducedIs ==
  /\ EmptyBox = Server(EmptyCatalog, ImageServer)
  /\ IsObject => Reproduced = Server(StandIn(source.o, Object), ImageServer)
  /\ ~IsObject => Reproduced = Server(EmptyCatalog, StandInServer(fix.control, source.s))
<1>1. EmptyBox = Server(EmptyCatalog, ImageServer)
  BY DEF EmptyBox, EmptyCatalog, Server
<1>2. IsObject => Reproduced = [Server(EmptyCatalog, ImageServer) EXCEPT !.o = StandIn(source.o, Object)]
  BY <1>1 DEF Reproduced
<1>3. ~IsObject =>
        Reproduced = [Server(EmptyCatalog, ImageServer) EXCEPT !.s = StandInServer(fix.control, source.s)]
  BY <1>1 DEF Reproduced
<1> QED BY <1>1, <1>2, <1>3, ServerParts

\* What may stop the rehearsal of an offered fix when nothing fails.
Excused ==
  \/ ~env.others_in_force
  \/ /\ ~IsObject
     /\ \/ CannotStart(BeforeStart(fix.control, source.s), env.installed)
        \/ StartFails([EmptyBox EXCEPT !.s = StandInServer(fix.control, source.s)])
        \/ ~InForce(source.s, ReconstructionNames(fix.control, source.s))
        \/ TLSRefused \/ NoHandshake

\* The fix on any server whose object is the collected one.
LEMMA ObjectWorks ==
  ASSUME ObjectRun, NEW o, HasForm(o), SameObject(o, Object, source.o)
  PROVE  /\ Works(o, Object, source.o)
         /\ Object.type \in RoleFixes \cup FunctionFixes \cup {"table_revoke_dml"}
         /\ Object.type \in RoleFixes => Object.on \in DOMAIN source.o.role /\ Object.on \in DOMAIN o.role
         /\ HasForm(source.o) /\ SameObject(source.o, Object, source.o)
<1>1. HasForm(source.o)
  BY DEF ObjectRun, Possible
<1>2. Works(o, Object, source.o)
  BY FixWorks DEF ObjectRun
<1>3. /\ Object.type \in RoleFixes \cup FunctionFixes \cup {"table_revoke_dml"}
      /\ Object.type \in RoleFixes => Object.on \in DOMAIN source.o.role
  BY <1>1, ProposedType DEF ObjectRun
<1>4. Object.type \in RoleFixes => Object.on \in DOMAIN o.role
  <2>1. CASE Object.type \in RoleFixes
    BY <2>1 DEF SameObject, RoleFixes, FunctionFixes
  <2> QED BY <2>1
<1>5. SameObject(source.o, Object, source.o)
  BY <1>3 DEF SameObject
<1> QED BY <1>1, <1>2, <1>3, <1>4, <1>5

\* The stand-in catalog has the form of a catalog, and the collected object.
LEMMA StandInForm ==
  ASSUME ObjectRun
  PROVE  HasForm(StandIn(source.o, Object)) /\ SameObject(StandIn(source.o, Object), Object, source.o)
<1>1. HasForm(source.o) /\ (Object.type \in RoleFixes => Object.on \in DOMAIN source.o.role)
  BY ProposedType DEF ObjectRun, Possible
<1> QED BY <1>1, StandInLike

\* The stand-in of an object fix reproduces the object, with the finding.
LEMMA ObjectReproduced ==
  ASSUME ObjectRun
  PROVE  SameAsSource(Reproduced) /\ Matches(Reproduced, source)
<1> DEFINE b == StandIn(source.o, Object)
<1>1. HasForm(b) /\ SameObject(b, Object, source.o)
  BY StandInForm
<1>2. IsObject /\ Reproduced.o = b
  BY ReproducedIs, ServerParts DEF ObjectRun
<1> HIDE DEF b
<1>3. PriorHolds(b, Object, source.o) = PriorHolds(source.o, Object, source.o)
      /\ Predicate(b, Object) = Predicate(source.o, Object)
  BY <1>1, ObjectWorks, JudgedAlike
<1> QED BY <1>1, <1>2, <1>3 DEF SameAsSource, Matches, ObjectRun

\* The rehearsal of an object fix.
LEMMA ObjectRehearsal ==
  ASSUME ObjectRun
  PROVE  /\ ~Refused(Reproduced.o, Object)
         /\ Acceptable(Rehearsed) /\ Restored(Rehearsed) = Reproduced
         /\ ExactlyRestored(Reproduced) /\ ObjectExports
<1> DEFINE b == StandIn(source.o, Object)
           a == Applied(b, Object)
<1>1. HasForm(b) /\ SameObject(b, Object, source.o)
  BY StandInForm
<1>2. IsObject /\ Reproduced = Server(b, ImageServer) /\ Rehearsed = Server(a, ImageServer)
  BY ReproducedIs, ObjectSteps DEF ObjectRun, Rehearsed
<1> HIDE DEF b
<1>3. /\ ~Refused(b, Object) /\ Predicate(a, Object) /\ (Object.type \notin RoleFixes => a.role = b.role)
      /\ ~SameObject(a, Object, source.o) /\ Undone(a, Object) = b
  BY <1>1, ObjectWorks DEF Works
<1> HIDE DEF a
<1>4. Reproduced.o = b /\ Rehearsed.o = a
  BY <1>2, ServerParts
<1>5. ~Refused(Reproduced.o, Object)
  BY <1>3, <1>4
<1>6. Acceptable(Rehearsed)
  BY <1>2, <1>3, <1>4 DEF Acceptable, OthersUnchanged, b
<1>7. Restored(Rehearsed) = Reproduced
  BY <1>2, <1>3, ObjectSteps
<1>8. ExactlyRestored(Reproduced)
  <2>1. OthersUnchanged(Reproduced.o, Object, StandIn(source.o, Object))
    BY <1>4 DEF OthersUnchanged, b
  <2> QED BY <2>1, ObjectReproduced DEF ExactlyRestored
<1>9. ~Matches(Rehearsed, source)
  BY <1>2, <1>3, <1>4 DEF Matches
<1> QED BY <1>5, <1>6, <1>7, <1>8, <1>9, ObjectReproduced DEF ObjectExports, ProofsHold

\* A reproduced source had its settings in force.
LEMMA CatalogReproduced ==
  ASSUME CatalogRun
  PROVE  /\ Reproduced.s = StandInServer(fix.control, source.s)
         /\ SameAsSource(Reproduced) <=> InForce(source.s, ReconstructionNames(fix.control, source.s))
         /\ SameAsSource(Reproduced) <=> Matches(Reproduced, source) /\ SameAsSource(Reproduced)
<1> DEFINE b == StandInServer(fix.control, source.s)
           names == FixNames(fix.control, source.s, fix.changes)
<1>1. ~IsObject /\ Reproduced.s = b
  BY ReproducedIs, ServerParts DEF CatalogRun
<1>2. SameSettings(fix.control, b, source.s, names) <=> InForce(source.s, ReconstructionNames(fix.control, source.s))
  BY StandInServerLike DEF CatalogRun
<1>3. InForce(source.s, ReconstructionNames(fix.control, source.s)) => Result(fix.control, b, env) = "FAIL"
  BY RehearsalWorks DEF CatalogRun
<1> HIDE DEF b
<1>4. SameAsSource(Reproduced) <=>
        SameSettings(fix.control, b, source.s, names) /\ Result(fix.control, b, env) = "FAIL"
  BY <1>1 DEF SameAsSource
<1>5. Matches(Reproduced, source) <=> SameSettings(fix.control, b, source.s, names)
  BY <1>1 DEF Matches
<1> QED BY <1>1, <1>2, <1>3, <1>4, <1>5 DEF b

\* The settings of the stand-in with the fix, and of the source, in a faithful run.
LEMMA CatalogFaithful ==
  ASSUME CatalogRun, SameAsSource(Reproduced)
  PROVE  /\ OnServer(fix.control, source.s, env, StandInServer(fix.control, source.s))
         /\ OnServer(fix.control, source.s, env, source.s)
         /\ Rehearsed = Server(EmptyCatalog, Fixed(StandInServer(fix.control, source.s), fix.control, env, fix.changes))
         /\ Restored(Rehearsed) = Reproduced
<1> DEFINE b == StandInServer(fix.control, source.s)
           f == Fixed(b, fix.control, env, fix.changes)
<1>1. /\ ~IsObject /\ OfferedFor(fix.control, source.s, env)
      /\ fix.changes = Changes(fix.control, source.s, env)
  BY DEF CatalogRun
<1>2. InForce(source.s, ReconstructionNames(fix.control, source.s))
  BY CatalogReproduced
<1>3. Reproduced = Server(EmptyCatalog, b)
  BY <1>1, ReproducedIs
<1>4. OnServer(fix.control, source.s, env, b) /\ After(b, fix.changes) = f /\ Back(f, fix.changes) = b
  BY <1>1, <1>2, RehearsalWorks
<1>5. OnServer(fix.control, source.s, env, source.s)
  <2>1. HasSettings(source.s)
    BY <1>1 DEF OfferedFor
  <2>2. SameSettings(fix.control, source.s, source.s, FixNames(fix.control, source.s, fix.changes))
    BY DEF SameSettings
  <2> QED BY <1>1, <1>2, <2>1, <2>2 DEF OnServer
<1> HIDE DEF b, f
<1>6. Rehearsed = Server(EmptyCatalog, f)
  BY <1>1, <1>3, <1>4, CatalogSteps DEF Rehearsed
<1>7. Restored(Rehearsed) = Reproduced
  BY <1>1, <1>3, <1>4, <1>6, CatalogSteps
<1> QED BY <1>4, <1>5, <1>6, <1>7 DEF b, f

\* The rehearsal of a catalog-linked fix.
LEMMA CatalogRehearsal ==
  ASSUME CatalogRun, SameAsSource(Reproduced)
  PROVE  /\ Acceptable(Rehearsed) /\ Restored(Rehearsed) = Reproduced
         /\ ExactlyRestored(Reproduced) /\ CatalogExports
<1> DEFINE b == StandInServer(fix.control, source.s)
           f == Fixed(b, fix.control, env, fix.changes)
<1>1. /\ ~IsObject /\ OfferedFor(fix.control, source.s, env)
      /\ fix.changes = Changes(fix.control, source.s, env)
  BY DEF CatalogRun
<1>2. /\ OnServer(fix.control, source.s, env, b) /\ Rehearsed = Server(EmptyCatalog, f)
      /\ Restored(Rehearsed) = Reproduced
  BY CatalogFaithful
<1>3. Accepted(fix.control, b, f, fix.changes, env)
  <2>1. InForce(source.s, ReconstructionNames(fix.control, source.s))
    BY CatalogReproduced
  <2> QED BY <1>1, <2>1, RehearsalWorks
<1>4. \A i \in 1 .. Len(fix.changes) : f[fix.changes[i].param].live = fix.changes[i].apply.value
  BY <1>1, <1>2, FixedDiffers
<1> HIDE DEF b, f
<1>5. Rehearsed.s = f
  BY <1>2, ServerParts
<1>6. Acceptable(Rehearsed)
  BY <1>1, <1>3, <1>5 DEF Acceptable, b
<1>7. ExactlyRestored(Reproduced) /\ Matches(Reproduced, source)
  BY <1>1, CatalogReproduced DEF ExactlyRestored
<1>8. ProofsHold
  BY <1>2, <1>6, <1>7 DEF ProofsHold
<1> QED BY <1>2, <1>4, <1>5, <1>6, <1>7, <1>8 DEF CatalogExports, AllChanges

\* A faithful stand-in carries the fix through, and what was verified can be exported.
LEMMA RunWorks ==
  ASSUME Chosen, SameAsSource(Reproduced)
  PROVE  /\ IsObject => ~Refused(Reproduced.o, Object)
         /\ Acceptable(Rehearsed) /\ Restored(Rehearsed) = Reproduced
         /\ ExactlyRestored(Reproduced)
         /\ IF IsObject THEN ObjectExports ELSE CatalogExports
<1>1. CASE ObjectRun
  BY <1>1, ObjectRehearsal DEF ObjectRun
<1>2. CASE CatalogRun
  BY <1>2, CatalogRehearsal DEF CatalogRun
<1> QED BY <1>1, <1>2, ChosenFix

\* Only an excuse keeps the source from being reproduced or the server from restarting.
LEMMA NoExcuse ==
  ASSUME Chosen, ~Excused
  PROVE  /\ Reproducible /\ ~StartFails(Reproduced)
         /\ ~(~IsObject /\ CannotStart(BeforeStart(fix.control, source.s), env.installed))
<1>1. CASE ObjectRun
  <2> QED BY <1>1, ObjectReproduced DEF ObjectRun, StartFails, Excused, Reproducible, TLSRefused, NoHandshake
<1>2. CASE CatalogRun
  <2>1. Reproduced = [EmptyBox EXCEPT !.s = StandInServer(fix.control, source.s)]
    BY <1>2 DEF CatalogRun, Reproduced
  <2> QED BY <1>2, <2>1, CatalogReproduced DEF CatalogRun, Excused, Reproducible
<1> QED BY <1>1, <1>2, ChosenFix

----------------------------------------------------------------------------
(* The loop and the target follow the rehearsal: the inductive invariant.   *)

\* The run, from the evidence to the fix that is offered on it.
RunTyped ==
  /\ source \in Sources /\ env \in Envs
  /\ pc = "idle" => fix = NoFix /\ exn = "none"
  /\ pc # "idle" => fix \in Offered

\* The books of the loop.
Counted ==
  /\ pc \in Step /\ exn \in Raised \cup {"none", "start"}
  /\ accepted \in BOOLEAN /\ faulty \in BOOLEAN
  /\ attempt \in 1 .. MaxAttempts
  /\ status \in {"PENDING", "VERIFIED", "FAILED", "CLEANUP_FAILED"}

\* A catalog and settings, each of its form.
ServerTyped(t) == t = Server(t.o, t.s) /\ HasForm(t.o) /\ HasSettings(t.s)

\* Where attempt() stands, and what the disposable server is then.
BoxFollows ==
  /\ ServerTyped(box)
  /\ pc \in {"apply", "reassess", "rollback"} => SameAsSource(Reproduced)
  /\ pc = "close" /\ exn = "none" => SameAsSource(Reproduced)
  /\ Usable => SameAsSource(Reproduced)
  /\ pc = "apply" => box = Reproduced
  /\ pc = "reassess" => box = Rehearsed
  /\ pc = "rollback" /\ ~faulty => box = Rehearsed
  /\ pc = "rollback" /\ IsObject => box \in {Reproduced, Rehearsed}

\* Without a failed call and without an excuse nothing goes wrong.
Unexcused ==
  ~faulty /\ ~Excused =>
    /\ pc \in Running => exn = "none"
    /\ pc = "end" => status = "VERIFIED"

\* The target with the fix, on what the DBA found there.
AppliedHere ==
  /\ IsObject =>
       /\ SameObject(found.o, Object, source.o) /\ ObjectSafe
       /\ target = Server(Applied(found.o, Object), found.s)
  /\ ~IsObject =>
       /\ OnServer(fix.control, source.s, env, found.s)
       /\ target = Server(found.o, Fixed(found.s, fix.control, env, fix.changes))
       /\ Changed(fix.changes, "preload") => Library(fix.control) \in dba.loadable

TargetFollows ==
  /\ held \in {"prior", "found", "refused", "applied", "undone"}
  /\ ServerTyped(found) /\ found.s.hidden = source.s.hidden
  /\ held = "prior" => target = source /\ found = source /\ dba = Nobody
  /\ held # "prior" => Usable /\ dba.loadable \subseteq Tested
  /\ held = "found" => target = found
  /\ held = "refused" =>
       /\ target = found
       /\ found # source \/ IF IsObject THEN Object.on = dba.account ELSE ~(Additions \subseteq dba.loadable)
  /\ held = "applied" => AppliedHere
  /\ held = "undone" => target = FilesRead(found)

\* All of it.  TargetUsable needs the verified rehearsal that the target is compared
\* with, and that rests on where attempt() stood when it ended.
FInv == RunTyped /\ Counted /\ BoxFollows /\ Unexcused /\ TargetFollows

\* Activation keeps the shape of a server.
LEMMA ActivateTyped == ASSUME NEW s, HasSettings(s) PROVE HasSettings(Activate(s))
<1>1. s.preload \in ListSetting /\ s.audit \in Audit!Setting /\ s.ciphers \in Ciphers!Setting
  BY DEF HasSettings
<1>2. Lists!Activated(s.preload, TRUE) \in ListSetting
  BY <1>1, ListActivates
<1>3. Audit!Loaded(s.audit) \in Audit!Setting
  BY <1>1, ClassLoaded
<1>4. Ciphers!Loaded(s.ciphers) \in Ciphers!Setting
  BY <1>1, CipherLoaded
<1>5. HasSettings(With(s, Lists!Activated(s.preload, TRUE), Audit!Loaded(s.audit), Ciphers!Loaded(s.ciphers)))
  BY <1>2, <1>3, <1>4, WithParts
<1> QED BY <1>5, ActivateIs

\* The statements of a fix and of its rollback keep the shape of a server, run in
\* part or in full.
LEMMA StatementsTyped ==
  ASSUME CatalogRun, NEW s, HasSettings(s)
  PROVE  /\ \A n \in 0 .. AllChanges : HasSettings(AppliedUpTo(s, fix.changes, n))
         /\ HasSettings(After(s, fix.changes)) /\ HasSettings(RolledBack(s, fix.changes))
         /\ HasSettings(Back(s, fix.changes))
<1> DEFINE c == fix.control
           src == source.s
           changes == Changes(c, src, env)
<1>1. OfferedFor(c, src, env) /\ fix.changes = changes
  BY DEF CatalogRun
<1>2. c \in FixControls /\ HasSettings(src) /\ env.classes \subseteq Classes
  BY <1>1 DEF OfferedFor
<1>3. /\ Len(changes) \in {1, 2}
      /\ AppliedUpTo(s, changes, Len(changes)) = Lined(s, changes, ListValueOf(c, src), env.classes, "cis")
      /\ RolledBack(s, changes) =
           Lined(s, changes, PreloadRollback(src).value, ClassUndo(src), Ciphers!DeriveRollback(src.ciphers).value)
  BY <1>1, LinesWritten
<1>4. /\ ListValueOf(c, src) \in ListValue /\ PreloadRollback(src).value \in ListLine
      /\ ClassUndo(src) \in Audit!Line /\ Ciphers!DeriveRollback(src.ciphers).value \in Ciphers!Line
  BY <1>2, ValuesAreLines
<1>5. ListValueOf(c, src) \in ListLine
  BY <1>4, NoListIsNoValue
<1>6. env.classes \in Audit!Line /\ "cis" \in Ciphers!Line
  BY <1>2 DEF Audit!Line, Ciphers!Line
<1>7. HasSettings(AppliedUpTo(s, changes, Len(changes)))
  BY <1>3, <1>5, <1>6, LinesTyped
<1>8. HasSettings(RolledBack(s, changes))
  BY <1>3, <1>4, LinesTyped
<1>9. HasSettings(AppliedUpTo(s, changes, 1))
  <2>1. AppliedUpTo(s, changes, 1) = Altered(s, changes[1].param, changes[1].apply)
    BY OneStatement
  <2>2. s.preload \in ListSetting /\ s.audit \in Audit!Setting /\ s.ciphers \in Ciphers!Setting
    BY DEF HasSettings
  <2>3. CASE CipherFix(c, src, changes)
    <3>1. changes[1].param = "ciphers" /\ changes[1].apply.value = "cis"
      BY <2>3 DEF CipherFix, Change
    <3>2. AutoLine(s.ciphers, "cis") \in Ciphers!Setting
      BY <1>6, <2>2, CipherSetBack
    <3>3. AppliedUpTo(s, changes, 1) = With(s, s.preload, s.audit, AutoLine(s.ciphers, "cis"))
      BY <2>1, <3>1, AlteredIs
    <3> QED BY <2>2, <3>2, <3>3, WithParts
  <2>4. CASE ClassFix(c, src, env, changes)
    <3>1. changes[1].param = "audit" /\ changes[1].apply.value = env.classes
      BY <2>4 DEF ClassFix, Change
    <3>2. AutoLine(s.audit, env.classes) \in Audit!Setting
      BY <1>2, <1>6, <2>2, ClassSetBack
    <3>3. AppliedUpTo(s, changes, 1) = With(s, s.preload, AutoLine(s.audit, env.classes), s.ciphers)
      BY <2>1, <3>1, AlteredIs
    <3> QED BY <2>2, <3>2, <3>3, WithParts
  <2>5. CASE ListFix(c, src, changes) \/ BothFix(c, src, env, changes)
    <3>1. changes[1].param = "preload" /\ changes[1].apply.value = ListValueOf(c, src)
      <4>1. Library("5.6") = "passwordcheck" /\ Library("3.2") = "pgaudit"
        BY DEF Library
      <4>2. CASE ListFix(c, src, changes)
        BY <4>1, <4>2 DEF ListFix, Change, ListValueOf
      <4>3. CASE BothFix(c, src, env, changes)
        BY <4>1, <4>3 DEF BothFix, Change, ListValueOf
      <4> QED BY <2>5, <4>2, <4>3
    <3>2. AutoLine(s.preload, ListValueOf(c, src)) \in ListSetting
      BY <1>5, <2>2, ListActivates
    <3>3. AppliedUpTo(s, changes, 1) = With(s, AutoLine(s.preload, ListValueOf(c, src)), s.audit, s.ciphers)
      BY <2>1, <3>1, AlteredIs
    <3> QED BY <2>2, <3>2, <3>3, WithParts
  <2> QED BY <1>1, <2>3, <2>4, <2>5, ChangesShape
<1> HIDE DEF changes, c, src
<1>10. \A n \in 0 .. Len(changes) : n \in {0, 1, Len(changes)}
  <2>1. PICK m \in {1, 2} : m = Len(changes)
    BY <1>3
  <2>2. \A n \in 0 .. m : n \in {0, 1, m}
    BY <2>1
  <2> QED BY <2>1, <2>2
<1>11. \A n \in 0 .. Len(changes) : HasSettings(AppliedUpTo(s, changes, n))
  BY <1>7, <1>9, <1>10, NoStatement
<1>12. HasSettings(After(s, changes)) /\ HasSettings(Back(s, changes))
  BY <1>7, <1>8, ActivateTyped DEF After, Back
<1> QED BY <1>1, <1>8, <1>11, <1>12 DEF AllChanges

\* A GRANT adds entries of the known names and privileges.
LEMMA GrantedTyped ==
  ASSUME NEW acl, acl \subseteq AclEntry, NEW to \in Name, NEW privs, privs \subseteq Privilege, NEW option \in BOOLEAN
  PROVE  Granted(acl, to, privs, option) \subseteq AclEntry
<1> DEFINE kept(priv) == \E a \in acl : a.to = to /\ a.by = TableOwner /\ a.priv = priv /\ a.option
           added == {Grant(to, TableOwner, priv, option \/ kept(priv)) : priv \in privs}
<1>1. \A x \in BOOLEAN : \A priv \in Privilege : Grant(to, TableOwner, priv, x) \in AclEntry
  BY DEF Grant, AclEntry, Name
<1>2. \A priv \in privs : (option \/ kept(priv)) \in BOOLEAN
  OBVIOUS
<1>3. \A x \in added : \E priv \in privs : x = Grant(to, TableOwner, priv, option \/ kept(priv))
  OBVIOUS
<1> HIDE DEF kept
<1>4. added \subseteq AclEntry
  BY <1>1, <1>2, <1>3
<1>5. Granted(acl, to, privs, option) \subseteq acl \cup added
  BY DEF Granted, kept
<1> QED BY <1>4, <1>5

\* The rollback statement keeps the shape of any catalog that has the role.
LEMMA UndoneTyped ==
  ASSUME ObjectRun, NEW o, HasForm(o), Object.type \in RoleFixes => Object.on \in DOMAIN o.role
  PROVE  HasForm(Undone(o, Object))
<1> DEFINE src == source.o
<1> PICK p : p = Object
  OBVIOUS
<1>1. HasForm(src)
  BY DEF ObjectRun, Possible
<1>2. \/ DropsAttribute(p, src, env) \/ DisablesLogin(p, src, env) \/ SetsLimit(p, src, env)
      \/ MakesInvoker(p, src) \/ RevokesExecute(p, src) \/ RevokesTable(p, src)
  BY <1>1, Proposed DEF ObjectRun
<1>3. p.type \in RoleFixes => p.on \in DOMAIN o.role
  OBVIOUS
<1> HIDE DEF src
<1>4. CASE DropsAttribute(p, src, env)
  <2> DEFINE new == [o.role[p.on] EXCEPT !.attrs = @ \cup p.what]
  <2>1. p.type = "role_drop_attribute" /\ p.on \in DOMAIN o.role /\ o.role[p.on] \in Account
    BY <1>3, <1>4 DEF DropsAttribute, RoleFixes, HasForm
  <2>2. p.what \subseteq Attributes
    BY <1>1, <1>4 DEF DropsAttribute, HasForm, Account
  <2>3. new \in Account
    BY <2>1, <2>2 DEF Account
  <2>4. Undone(o, p) = RoleSet(o, p.on, new)
    BY <2>1 DEF Undone, RoleSet, HasForm
  <2> HIDE DEF new
  <2> QED BY <2>1, <2>3, <2>4, RoleSetBack
<1>5. CASE DisablesLogin(p, src, env)
  <2> DEFINE new == [o.role[p.on] EXCEPT !.login = TRUE]
  <2>1. p.type = "role_nologin" /\ p.on \in DOMAIN o.role /\ o.role[p.on] \in Account
    BY <1>3, <1>5 DEF DisablesLogin, RoleFixes, HasForm
  <2>2. new \in Account
    BY <2>1 DEF Account
  <2>3. Undone(o, p) = RoleSet(o, p.on, new)
    BY <2>1 DEF Undone, RoleSet, HasForm
  <2> HIDE DEF new
  <2> QED BY <2>1, <2>2, <2>3, RoleSetBack
<1>6. CASE SetsLimit(p, src, env)
  <2> DEFINE new == [o.role[p.on] EXCEPT !.limit = NoLimit]
  <2>1. p.type = "role_connection_limit" /\ p.on \in DOMAIN o.role /\ o.role[p.on] \in Account
    BY <1>3, <1>6 DEF SetsLimit, RoleFixes, HasForm
  <2>2. new \in Account
    BY <2>1 DEF Account, NoLimit
  <2>3. Undone(o, p) = RoleSet(o, p.on, new)
    BY <2>1 DEF Undone, RoleSet, HasForm
  <2> HIDE DEF new
  <2> QED BY <2>1, <2>2, <2>3, RoleSetBack
<1>7. CASE MakesInvoker(p, src)
  BY <1>7 DEF MakesInvoker, Undone, HasForm
<1>8. CASE RevokesExecute(p, src)
  <2> DEFINE new == Granted(o.exec, Public, {"EXECUTE"}, FALSE)
  <2>1. new \subseteq AclEntry
    <3>1. {"EXECUTE"} \subseteq Privilege /\ Public \in Name /\ FALSE \in BOOLEAN
      BY DEF Privilege, Name
    <3> QED BY <3>1, GrantedTyped DEF HasForm
  <2>2. Undone(o, p) = [o EXCEPT !.exec = new]
    BY <1>8 DEF Undone, RevokesExecute
  <2> HIDE DEF new
  <2> QED BY <2>1, <2>2 DEF HasForm
<1>9. CASE RevokesTable(p, src)
  <2> DEFINE new == Granted(o.acl, p.on, p.what, p.option)
  <2>1. new \subseteq AclEntry
    <3>1. PICK x \in src.acl : x.to = p.on
      BY <1>9 DEF RevokesTable
    <3>2. p.on \in Name /\ p.what \subseteq Privilege
      BY <1>1, <1>9, <3>1 DEF RevokesTable, HasForm, AclEntry
    <3>3. PICK option \in BOOLEAN : option = p.option
      BY <1>9 DEF RevokesTable
    <3>4. Granted(o.acl, p.on, p.what, option) \subseteq AclEntry
      BY <3>2, GrantedTyped DEF HasForm
    <3> QED BY <3>3, <3>4
  <2>2. Undone(o, p) = [o EXCEPT !.acl = new]
    BY <1>9 DEF Undone, RevokesTable
  <2> HIDE DEF new
  <2> QED BY <2>1, <2>2 DEF HasForm
<1> QED BY <1>2, <1>4, <1>5, <1>6, <1>7, <1>8, <1>9

\* The form of a server is that of its parts.
LEMMA TypedParts ==
  ASSUME NEW o, NEW s
  PROVE  ServerTyped(Server(o, s)) <=> HasForm(o) /\ HasSettings(s)
BY ServerParts DEF ServerTyped

\* The servers of a rehearsal have their form.
LEMMA EmptyTyped == ServerTyped(EmptyBox) /\ HasForm(EmptyCatalog) /\ HasSettings(ImageServer)
<1>1. HasForm(EmptyCatalog)
  BY DEF HasForm, EmptyCatalog
<1>2. HasSettings(ImageServer)
  <2> DEFINE p == Lists!ImageSetting(NoList)
             a == Audit!ImageSetting({"absent"})
             k == Ciphers!ImageSetting("absent")
  <2>1. p \in ListSetting /\ a \in Audit!Setting /\ k \in Ciphers!Setting
    BY ListImage, ClassImage, CipherImage
  <2>2. ImageServer = [preload |-> p, audit |-> a, ciphers |-> k, path |-> "$libdir",
                       protocol |-> "TLSv1.2", sessions |-> {}, hidden |-> FALSE]
    BY DEF ImageServer
  <2> HIDE DEF p, a, k
  <2> QED BY <2>1, <2>2 DEF HasSettings
<1> QED BY <1>1, <1>2, ReproducedIs, TypedParts

LEMMA ReproducedTyped ==
  ASSUME Chosen
  PROVE  /\ ServerTyped(Reproduced)
         /\ SameAsSource(Reproduced) => ServerTyped(Rehearsed)
<1>1. CASE ObjectRun
  <2> DEFINE b == StandIn(source.o, Object)
  <2>1. HasForm(b) /\ HasForm(Applied(b, Object))
    BY <1>1, StandInForm, ObjectWorks DEF Works
  <2>2. Reproduced = Server(b, ImageServer) /\ Rehearsed = Server(Applied(b, Object), ImageServer)
    BY <1>1, ReproducedIs, ObjectSteps DEF ObjectRun, Rehearsed
  <2> HIDE DEF b
  <2> QED BY <2>1, <2>2, EmptyTyped, TypedParts
<1>2. CASE CatalogRun
  <2> DEFINE b == StandInServer(fix.control, source.s)
  <2>1. HasSettings(b)
    BY <1>2, StandInIs DEF CatalogRun, OfferedFor
  <2>2. HasSettings(After(b, fix.changes))
    BY <1>2, <2>1, StatementsTyped
  <2>3. Reproduced = Server(EmptyCatalog, b) /\ Rehearsed = Server(EmptyCatalog, After(b, fix.changes))
    BY <1>2, ReproducedIs, CatalogSteps DEF CatalogRun, Rehearsed
  <2> HIDE DEF b
  <2> QED BY <2>1, <2>2, <2>3, EmptyTyped, TypedParts
<1> QED BY <1>1, <1>2, ChosenFix

\* A server that keeps its shape through a fix that goes wrong half-way.
LEMMA PartlyTyped ==
  ASSUME Chosen, NEW b, ServerTyped(b), IsObject => b \in {Reproduced, Rehearsed}, SameAsSource(Reproduced)
  PROVE  /\ ~IsObject => /\ \A x \in PartlyDone(b) : ServerTyped(x)
                         /\ ServerTyped([b EXCEPT !.s = AppliedUpTo(@, fix.changes, AllChanges)])
         /\ \A x \in PartlyRestored(b) : ServerTyped(x)
         /\ ServerTyped(Restored(b))
<1>1. b = Server(b.o, b.s) /\ HasForm(b.o) /\ HasSettings(b.s)
  BY DEF ServerTyped
<1> DEFINE o == b.o
           s == b.s
<1>2. CASE ObjectRun
  <2>1. Object.type \in RoleFixes => Object.on \in DOMAIN o.role
    <3> DEFINE i == StandIn(source.o, Object)
    <3>1. /\ HasForm(i) /\ SameObject(i, Object, source.o)
          /\ Object.type \in RoleFixes => Object.on \in DOMAIN i.role
          /\ Object.type \in RoleFixes \cup FunctionFixes \cup {"table_revoke_dml"}
      BY <1>2, StandInForm, ObjectWorks
    <3>2. HasForm(Applied(i, Object)) /\ Undone(Applied(i, Object), Object) = i
      BY <1>2, <3>1, ObjectWorks DEF Works
    <3>3. Object.type \in RoleFixes => Object.on \in DOMAIN Applied(i, Object).role
      <4>1. Object.type \in RoleFixes => DOMAIN Applied(i, Object).role = DOMAIN i.role
        BY <3>1 DEF Applied, RoleFixes, HasForm
      <4> QED BY <3>1, <4>1
    <3> HIDE DEF i
    <3>4. Reproduced.o = i /\ Rehearsed.o = Applied(i, Object)
      <4>1. IsObject /\ Reproduced = Server(i, ImageServer)
        BY <1>2, ReproducedIs DEF ObjectRun, i
      <4>2. Rehearsed = Server(Applied(i, Object), ImageServer)
        BY <4>1, ObjectSteps DEF Rehearsed
      <4> QED BY <4>1, <4>2, ServerParts
    <3>5. b \in {Reproduced, Rehearsed}
      BY <1>2 DEF ObjectRun
    <3> QED BY <3>1, <3>3, <3>4, <3>5
  <2>2. HasForm(Undone(o, Object))
    BY <1>1, <1>2, <2>1, UndoneTyped
  <2>3. IsObject /\ Restored(b) = Server(Undone(o, Object), s)
    BY <1>1, <1>2, ObjectSteps DEF ObjectRun
  <2>4. ServerTyped(Restored(b))
    BY <1>1, <2>2, <2>3, TypedParts
  <2> QED BY <2>3, <2>4 DEF PartlyRestored
<1>3. CASE CatalogRun
  <2> DEFINE c == fix.changes
  <2>1. ~IsObject
    BY <1>3 DEF CatalogRun
  <2>2. /\ \A n \in 0 .. AllChanges : HasSettings(AppliedUpTo(s, c, n))
        /\ HasSettings(After(s, c)) /\ HasSettings(RolledBack(s, c)) /\ HasSettings(Back(s, c))
    BY <1>1, <1>3, StatementsTyped
  <2>3. AllChanges \in 0 .. AllChanges
    <3>1. PICK m \in {1, 2} : m = AllChanges
      BY <1>1, <1>3, LinesWritten DEF CatalogRun, AllChanges
    <3> QED BY <3>1
  <2>4. /\ \A n : [b EXCEPT !.s = AppliedUpTo(@, c, n)] = Server(o, AppliedUpTo(s, c, n))
        /\ [b EXCEPT !.s = RolledBack(@, c)] = Server(o, RolledBack(s, c))
    <3>1. \A n : [Server(o, s) EXCEPT !.s = AppliedUpTo(@, c, n)] = Server(o, AppliedUpTo(s, c, n))
      BY DEF Server
    <3>2. [Server(o, s) EXCEPT !.s = RolledBack(@, c)] = Server(o, RolledBack(s, c))
      BY DEF Server
    <3> QED BY <1>1, <3>1, <3>2
  <2>5. Done(b) = Server(o, After(s, c)) /\ Restored(b) = Server(o, Back(s, c))
    BY <1>1, <2>1, CatalogSteps
  <2> HIDE DEF c, o, s
  <2>6. \A n \in 0 .. AllChanges : ServerTyped([b EXCEPT !.s = AppliedUpTo(@, c, n)])
    <3> SUFFICES ASSUME NEW n \in 0 .. AllChanges PROVE ServerTyped([b EXCEPT !.s = AppliedUpTo(@, c, n)])
      OBVIOUS
    <3>1. HasForm(o) /\ HasSettings(AppliedUpTo(s, c, n))
      BY <1>1, <2>2 DEF o
    <3>2. ServerTyped(Server(o, AppliedUpTo(s, c, n)))
      BY <3>1, TypedParts
    <3> QED BY <2>4, <3>2
  <2>7. /\ ServerTyped(Done(b)) /\ ServerTyped(Restored(b))
        /\ ServerTyped([b EXCEPT !.s = RolledBack(@, c)])
    <3>1. HasForm(o)
      BY <1>1 DEF o
    <3> QED BY <2>2, <2>4, <2>5, <3>1, TypedParts
  <2>8. \A x \in PartlyDone(b) : ServerTyped(x)
    BY <2>1, <2>6, <2>7 DEF PartlyDone, c
  <2>9. \A x \in PartlyRestored(b) : ServerTyped(x)
    BY <2>1, <2>7 DEF PartlyRestored, c
  <2> QED BY <2>1, <2>3, <2>6, <2>7, <2>8, <2>9 DEF c
<1> QED BY <1>2, <1>3, ChosenFix

\* What a run means does not change while it runs.
LEMMA RunOnly ==
  ASSUME UNCHANGED run
  PROVE  /\ UNCHANGED Reproduced /\ UNCHANGED Rehearsed
         /\ UNCHANGED SameAsSource(Reproduced) /\ UNCHANGED Excused
         /\ UNCHANGED Offered /\ UNCHANGED IsObject /\ UNCHANGED Object
<1>1. source' = source /\ env' = env /\ fix' = fix
  BY DEF run
<1>2. UNCHANGED IsObject /\ UNCHANGED Object
  BY <1>1 DEF IsObject, Object
<1>3. UNCHANGED Reproduced
  BY <1>1, <1>2 DEF Reproduced
<1>4. UNCHANGED AllChanges
  BY <1>1 DEF AllChanges
<1>5. UNCHANGED Rehearsed
  BY <1>1, <1>2, <1>3, <1>4 DEF Rehearsed, Done
<1>6. UNCHANGED SameAsSource(Reproduced)
  BY <1>1, <1>2, <1>3 DEF SameAsSource
<1>7. UNCHANGED Excused
  BY <1>1, <1>2, <1>4 DEF Excused, StartFails, TLSRefused, NoHandshake
<1>8. UNCHANGED Offered
  BY <1>1 DEF Offered, CatalogFix
<1> QED BY <1>2, <1>3, <1>5, <1>6, <1>7, <1>8

----------------------------------------------------------------------------
(* Each step of the loop.                                                   *)

\* The invariant begins true.
LEMMA InitFollows == Init => FInv
<1> SUFFICES ASSUME Init PROVE FInv
  OBVIOUS
<1>1. RunTyped /\ Counted
  <2>1. 1 \in 1 .. MaxAttempts
    BY AttemptsAssumption
  <2>2. Counted
    BY <2>1 DEF Init, Counted, Step, Raised
  <2> QED BY <2>2 DEF Init, RunTyped
<1>2. ServerTyped(box)
  BY EmptyTyped DEF Init
<1>3. BoxFollows
  BY <1>2 DEF Init, BoxFollows, Usable
<1>4. Unexcused
  BY DEF Init, Unexcused, Running
<1>5. TargetFollows
  <2>1. source = Server(source.o, source.s) /\ HasForm(source.o) /\ HasSettings(source.s)
    BY SourcesAssumption DEF Init, Server, Possible
  <2> QED BY <2>1 DEF Init, TargetFollows, ServerTyped
<1> QED BY <1>1, <1>3, <1>4, <1>5 DEF FInv

\* While attempt() runs, the run stays and the target is untouched.
LEMMA WhileRunning ==
  ASSUME FInv, UNCHANGED <<run, target_vars>>, pc \notin {"idle", "end"}, pc' # "idle"
  PROVE  /\ Chosen /\ RunTyped' /\ TargetFollows'
         /\ UNCHANGED Reproduced /\ UNCHANGED Rehearsed
         /\ UNCHANGED SameAsSource(Reproduced) /\ UNCHANGED Excused /\ UNCHANGED IsObject
<1>1. Chosen
  BY DEF FInv, RunTyped, Chosen
<1>2. source' = source /\ env' = env /\ fix' = fix
  BY DEF run
<1>3. Offered' = Offered
  BY RunOnly
<1>4. RunTyped'
  BY <1>1, <1>2, <1>3 DEF RunTyped, Chosen
<1>5. target' = target /\ held' = held /\ dba' = dba /\ found' = found
  BY DEF target_vars
<1>6. held = "prior"
  BY DEF FInv, TargetFollows, Usable
<1>7. TargetFollows'
  BY <1>2, <1>5, <1>6 DEF FInv, TargetFollows, ServerTyped
<1> QED BY <1>1, <1>4, <1>7, RunOnly

\* The steps of the loop, one by one: what one could disturb and why it does not.
LEMMA BeginFollows == ASSUME FInv, Prepare \/ TestFix PROVE FInv'
<1>1. CASE Prepare
  <2>1. /\ pc = "idle" /\ pc' = "test" /\ source' = source /\ env' = env /\ box' = box /\ accepted' = accepted
        /\ exn' = exn /\ attempt' = attempt /\ status' = status /\ faulty' = faulty
        /\ target' = target /\ held' = held /\ dba' = dba /\ found' = found /\ fix' \in Offered
    BY <1>1 DEF Prepare, box_vars, target_vars
  <2>2. Offered' = Offered
    BY <2>1 DEF Offered, CatalogFix
  <2>3. RunTyped' /\ Counted'
    BY <2>1, <2>2 DEF FInv, RunTyped, Counted, Step
  <2>4. BoxFollows' /\ Unexcused'
    BY <2>1 DEF FInv, BoxFollows, Usable, Unexcused, Running, ServerTyped
  <2>5. held = "prior"
    BY <2>1 DEF FInv, TargetFollows, Usable
  <2>6. TargetFollows'
    BY <2>1, <2>5 DEF FInv, TargetFollows, ServerTyped
  <2> QED BY <2>3, <2>4, <2>6 DEF FInv
<1>2. CASE TestFix
  <2>1. /\ pc = "test" /\ pc' = "start" /\ exn' = "none" /\ accepted' = FALSE /\ UNCHANGED <<run, target_vars>>
        /\ box' = box /\ attempt' = attempt /\ status' = status /\ faulty' = faulty
    BY <1>2 DEF TestFix
  <2>2. RunTyped' /\ TargetFollows'
    BY <2>1, WhileRunning
  <2>3. Counted'
    BY <2>1 DEF FInv, Counted, Step, Raised
  <2>4. BoxFollows' /\ Unexcused'
    BY <2>1 DEF FInv, BoxFollows, Usable, Unexcused, ServerTyped
  <2> QED BY <2>2, <2>3, <2>4 DEF FInv
<1> QED BY <1>1, <1>2

LEMMA StartFollows == ASSUME FInv, Start PROVE FInv'
<1>1. /\ pc = "start" /\ box' = EmptyBox /\ UNCHANGED <<run, target_vars>>
      /\ accepted' = accepted /\ attempt' = attempt /\ status' = status
      /\ \/ pc' = "reproduce" /\ exn' = exn /\ faulty' = faulty
         \/ pc' = "close" /\ exn' \in Raised /\ faulty' = TRUE
  BY DEF Start, Fault
<1>2. RunTyped' /\ TargetFollows' /\ Excused' = Excused
  BY <1>1, WhileRunning
<1>3. Counted'
  BY <1>1 DEF FInv, Counted, Step
<1>4. BoxFollows'
  <2>1. ServerTyped(box')
    BY <1>1, EmptyTyped
  <2> QED BY <1>1, <2>1 DEF BoxFollows, Usable, Raised
<1>5. Unexcused'
  BY <1>1, <1>2 DEF FInv, Unexcused, Running
<1> QED BY <1>2, <1>3, <1>4, <1>5 DEF FInv

LEMMA ReproduceFollows == ASSUME FInv, Reproduce PROVE FInv'
<1> DEFINE missing == ~IsObject /\ CannotStart(BeforeStart(fix.control, source.s), env.installed)
<1>1. /\ pc = "reproduce" /\ UNCHANGED <<run, target_vars>>
      /\ accepted' = accepted /\ attempt' = attempt /\ status' = status
      /\ \/ /\ ~missing /\ box' = Reproduced /\ faulty' = faulty
            /\ \/ Reproducible /\ pc' = "apply" /\ exn' = exn
               \/ ~Reproducible /\ pc' = "close" /\ exn' \in {"contract", "error"}
         \/ missing /\ exn' = "start" /\ pc' = "close" /\ box' = box /\ faulty' = faulty
         \/ exn' \in Raised \cup {"start"} /\ faulty' = TRUE /\ pc' = "close" /\ box' = box
  BY DEF Reproduce, Fault
<1>2. /\ Chosen /\ RunTyped' /\ TargetFollows' /\ Excused' = Excused
      /\ Reproduced' = Reproduced /\ SameAsSource(Reproduced)' = SameAsSource(Reproduced)
  BY <1>1, WhileRunning
<1>3. Counted'
  BY <1>1 DEF FInv, Counted, Step, Raised
<1>4. BoxFollows'
  <2>1. ServerTyped(box')
    BY <1>1, <1>2, ReproducedTyped DEF FInv, BoxFollows
  <2>2. Reproducible => SameAsSource(Reproduced)
    BY DEF Reproducible
  <2> QED BY <1>1, <1>2, <2>1, <2>2 DEF BoxFollows, Usable, Raised
<1>5. Unexcused'
  <2>1. ~Excused => Reproducible /\ ~missing
    BY <1>2, NoExcuse
  <2> HIDE DEF missing
  <2> QED BY <1>1, <1>2, <2>1 DEF FInv, Unexcused, Running
<1> QED BY <1>2, <1>3, <1>4, <1>5 DEF FInv

LEMMA ApplyFollows == ASSUME FInv, Apply PROVE FInv'
<1>1. pc = "apply" /\ box = Reproduced /\ SameAsSource(Reproduced)
  BY DEF FInv, BoxFollows, Apply
<1>2. /\ UNCHANGED <<run, target_vars>> /\ pc' # "idle"
      /\ accepted' = accepted /\ attempt' = attempt /\ status' = status
  BY DEF Apply
<1>3. /\ Chosen /\ RunTyped' /\ TargetFollows' /\ Excused' = Excused /\ IsObject' = IsObject
      /\ Reproduced' = Reproduced /\ Rehearsed' = Rehearsed
      /\ SameAsSource(Reproduced)' = SameAsSource(Reproduced)
  BY <1>1, <1>2, WhileRunning
<1>4. Done(box) = Rehearsed /\ (IsObject => ~Refused(box.o, Object))
  BY <1>1, <1>3, RunWorks DEF Rehearsed
<1>5. \/ pc' = "reassess" /\ box' = Rehearsed /\ exn' = exn /\ faulty' = faulty
      \/ /\ ~IsObject /\ box' = [box EXCEPT !.s = AppliedUpTo(@, fix.changes, AllChanges)]
         /\ exn' = "start" /\ pc' = "close" /\ faulty' = (faulty \/ ~StartFails(box))
      \/ box' \in PartlyDone(box) /\ pc' = "rollback" /\ exn' \in Raised /\ faulty' = TRUE
  BY <1>4 DEF Apply, Fault
<1>6. Counted'
  BY <1>2, <1>5 DEF FInv, Counted, Step, Raised
<1>7. BoxFollows'
  <2>1. ServerTyped(box) /\ ServerTyped(Rehearsed)
    BY <1>1, <1>3, ReproducedTyped
  <2>2. /\ ~IsObject => /\ \A x \in PartlyDone(box) : ServerTyped(x)
                        /\ ServerTyped([box EXCEPT !.s = AppliedUpTo(@, fix.changes, AllChanges)])
    BY <1>1, <1>3, <2>1, PartlyTyped
  <2>3. IsObject => PartlyDone(box) = {Reproduced, Rehearsed}
    BY <1>1, <1>4 DEF PartlyDone
  <2>4. ServerTyped(box')
    BY <1>1, <1>5, <2>1, <2>2, <2>3
  <2> QED BY <1>1, <1>3, <1>5, <2>3, <2>4 DEF BoxFollows, Usable
<1>8. Unexcused'
  <2>1. ~Excused => ~StartFails(box)
    BY <1>1, <1>3, NoExcuse
  <2> QED BY <1>1, <1>3, <1>5, <2>1 DEF FInv, Unexcused, Running
<1> QED BY <1>3, <1>6, <1>7, <1>8 DEF FInv

LEMMA ReassessFollows == ASSUME FInv, Reassess PROVE FInv'
<1>1. pc = "reassess" /\ box = Rehearsed /\ SameAsSource(Reproduced)
  BY DEF FInv, BoxFollows, Reassess
<1>2. /\ UNCHANGED <<run, target_vars>> /\ pc' = "rollback" /\ box' = box
      /\ attempt' = attempt /\ status' = status
  BY DEF Reassess
<1>3. /\ Chosen /\ RunTyped' /\ TargetFollows' /\ Excused' = Excused /\ IsObject' = IsObject
      /\ Reproduced' = Reproduced /\ Rehearsed' = Rehearsed
      /\ SameAsSource(Reproduced)' = SameAsSource(Reproduced)
  BY <1>1, <1>2, WhileRunning
<1>4. Acceptable(box)
  BY <1>1, <1>3, RunWorks
<1>5. \/ accepted' = TRUE /\ exn' = "none" /\ faulty' = faulty
      \/ accepted' = accepted /\ exn' \in Raised /\ faulty' = TRUE
  BY <1>4 DEF Reassess, Fault, Acceptable, Accepted, OthersUnchanged, Predicate
<1>6. Counted'
  BY <1>2, <1>5 DEF FInv, Counted, Step, Raised
<1>7. BoxFollows'
  <2>1. ServerTyped(box')
    BY <1>2 DEF FInv, BoxFollows
  <2> QED BY <1>1, <1>2, <1>3, <2>1 DEF BoxFollows, Usable
<1>8. Unexcused'
  BY <1>1, <1>2, <1>3, <1>5 DEF FInv, Unexcused, Running
<1> QED BY <1>3, <1>6, <1>7, <1>8 DEF FInv

LEMMA RollbackFollows == ASSUME FInv, Rollback PROVE FInv'
<1>1. /\ pc = "rollback" /\ SameAsSource(Reproduced) /\ ServerTyped(box)
      /\ ~faulty => box = Rehearsed
      /\ IsObject => box \in {Reproduced, Rehearsed}
  BY DEF FInv, BoxFollows, Rollback
<1>2. /\ UNCHANGED <<run, target_vars>> /\ pc' = "close"
      /\ accepted' = accepted /\ attempt' = attempt /\ status' = status
  BY DEF Rollback
<1>3. /\ Chosen /\ RunTyped' /\ TargetFollows' /\ Excused' = Excused
      /\ SameAsSource(Reproduced)' = SameAsSource(Reproduced)
  BY <1>1, <1>2, WhileRunning
<1>4. \/ /\ box' = Restored(box) /\ faulty' = faulty
         /\ exn' = IF ExactlyRestored(Restored(box)) THEN exn ELSE "error"
      \/ box' \in PartlyRestored(box) /\ exn' \in Raised \cup {"start"} /\ faulty' = TRUE
  BY DEF Rollback, Fault
<1>5. Counted'
  BY <1>2, <1>4 DEF FInv, Counted, Step, Raised
<1>6. BoxFollows'
  <2>1. ServerTyped(box')
    BY <1>1, <1>3, <1>4, PartlyTyped
  <2> QED BY <1>1, <1>2, <1>3, <2>1 DEF BoxFollows, Usable
<1>7. Unexcused'
  <2>1. ~faulty => ExactlyRestored(Restored(box))
    BY <1>1, <1>3, RunWorks
  <2> QED BY <1>1, <1>2, <1>3, <1>4, <2>1 DEF FInv, Unexcused, Running
<1> QED BY <1>3, <1>5, <1>6, <1>7 DEF FInv

LEMMA CloseFollows == ASSUME FInv, Close PROVE FInv'
<1>1. /\ pc = "close" /\ UNCHANGED <<run, target_vars>> /\ exn' = exn /\ box' = box /\ accepted' = accepted
      /\ exn = "none" => SameAsSource(Reproduced)
  BY DEF FInv, BoxFollows, Close
<1>2. PICK cleaned \in BOOLEAN :
        /\ faulty' = (faulty \/ ~cleaned) /\ status' = Outcome(cleaned)
        /\ IF exn = "interrupt" THEN pc' = "aborted" /\ UNCHANGED attempt
           ELSE IF DoneAfter(cleaned) THEN pc' = "end" /\ UNCHANGED attempt
           ELSE pc' = "test" /\ attempt' = attempt + 1
  BY DEF Close
<1>3. pc' \in {"aborted", "end", "test"}
  BY <1>2
<1>4. /\ Chosen /\ RunTyped' /\ TargetFollows' /\ Excused' = Excused
      /\ SameAsSource(Reproduced)' = SameAsSource(Reproduced)
  BY <1>1, <1>3, WhileRunning
<1>5. Counted'
  <2>1. attempt' \in 1 .. MaxAttempts
    <3>1. attempt \in 1 .. MaxAttempts
      BY DEF FInv, Counted
    <3>2. pc' = "test" => attempt # MaxAttempts
      BY <1>2 DEF DoneAfter
    <3>3. attempt' = attempt \/ (attempt' = attempt + 1 /\ attempt # MaxAttempts)
      BY <1>2, <3>2
    <3> QED BY <3>1, <3>3, AttemptsAssumption
  <2>2. faulty' \in BOOLEAN /\ status' \in {"VERIFIED", "FAILED", "CLEANUP_FAILED"}
    BY <1>2 DEF Outcome
  <2> QED BY <1>1, <1>3, <2>1, <2>2 DEF FInv, Counted, Step
<1>6. BoxFollows'
  <2>1. status' = "VERIFIED" => exn = "none"
    BY <1>2 DEF Outcome
  <2>2. ServerTyped(box')
    BY <1>1 DEF FInv, BoxFollows
  <2> QED BY <1>1, <1>3, <1>4, <2>1, <2>2 DEF BoxFollows, Usable
<1>7. Unexcused'
  <2>1. ASSUME ~faulty', ~Excused PROVE pc' = "end" /\ status' = "VERIFIED"
    <3>1. ~faulty /\ cleaned
      BY <1>2, <2>1
    <3>2. exn = "none"
      BY <1>1, <2>1, <3>1 DEF FInv, Unexcused, Running
    <3> QED BY <1>2, <3>1, <3>2 DEF DoneAfter, Outcome
  <2> QED BY <1>4, <2>1 DEF Unexcused, Running
<1> QED BY <1>4, <1>5, <1>6, <1>7 DEF FInv

LEMMA KillFollows == ASSUME FInv, Kill PROVE FInv'
<1>1. /\ pc \in Running /\ pc' = "aborted" /\ faulty' = TRUE /\ UNCHANGED <<run, target_vars>>
      /\ exn' = exn /\ box' = box /\ accepted' = accepted /\ attempt' = attempt /\ status' = status
  BY DEF Kill, box_vars
<1>2. RunTyped' /\ TargetFollows'
  BY <1>1, WhileRunning DEF Running
<1>3. Counted' /\ BoxFollows' /\ Unexcused'
  BY <1>1 DEF FInv, Counted, Step, BoxFollows, Usable, ServerTyped, Unexcused
<1> QED BY <1>2, <1>3 DEF FInv

----------------------------------------------------------------------------
(* Each step of the DBA on the target.                                      *)

\* What other administrators do keeps the shape of a server.
LEMMA DriftTyped ==
  ASSUME NEW t, ServerTyped(t), NEW x \in Drifted(t)
  PROVE  ServerTyped(x) /\ x.s.hidden = t.s.hidden
<1> DEFINE o == t.o
           s == t.s
<1>1. t = Server(o, s) /\ HasForm(o) /\ HasSettings(s)
  BY DEF ServerTyped
<1>2. /\ o.role \in [DOMAIN o.role -> Account] /\ o.acl \subseteq AclEntry /\ o.exec \subseteq AclEntry
      /\ o = [role |-> o.role, acl |-> o.acl, definer |-> o.definer, exec |-> o.exec] /\ o.definer \in BOOLEAN
  BY <1>1 DEF HasForm
<1>3. /\ s.preload \in ListSetting /\ s.audit \in Audit!Setting /\ s.ciphers \in Ciphers!Setting
      /\ s = [preload |-> s.preload, audit |-> s.audit, ciphers |-> s.ciphers, path |-> s.path,
              protocol |-> s.protocol, sessions |-> s.sessions, hidden |-> s.hidden]
  BY <1>1 DEF HasSettings
<1> HIDE DEF o, s
<1>4. CASE IsObject
  <2> DEFINE limited(r) == RoleSet(o, r, [o.role[r] EXCEPT !.limit = 3])
             acl == o.acl \cup {Grant(Outsider, TableOwner, "UPDATE", FALSE)}
             exec == o.exec \cup {Grant(Outsider, TableOwner, "EXECUTE", FALSE)}
             used == [role |-> o.role, acl |-> acl, definer |-> o.definer, exec |-> o.exec]
             run_by == [role |-> o.role, acl |-> o.acl, definer |-> o.definer, exec |-> exec]
             other == [role |-> o.role, acl |-> o.acl, definer |-> ~o.definer, exec |-> o.exec]
  <2>1. x \in {Server(limited(r), s) : r \in DOMAIN o.role} \cup {Server(used, s), Server(run_by, s), Server(other, s)}
    <3>1. x \in {[t EXCEPT !.o.role[r].limit = 3] : r \in DOMAIN t.o.role}
             \cup {[t EXCEPT !.o.acl = @ \cup {Grant(Outsider, TableOwner, "UPDATE", FALSE)}],
                   [t EXCEPT !.o.exec = @ \cup {Grant(Outsider, TableOwner, "EXECUTE", FALSE)}],
                   [t EXCEPT !.o.definer = ~@]}
      BY <1>4 DEF Drifted
    <3>2. t.o = o /\ t = [o |-> o, s |-> s]
      BY <1>1 DEF Server, o
    <3>3. \A r \in DOMAIN o.role : [t EXCEPT !.o.role[r].limit = 3] = Server(limited(r), s)
      BY <1>2, <3>2 DEF Server, RoleSet
    <3>4. [t EXCEPT !.o.acl = @ \cup {Grant(Outsider, TableOwner, "UPDATE", FALSE)}] = Server(used, s)
      <4> HIDE DEF acl
      <4>1. [t EXCEPT !.o.acl = acl] = Server(used, s)
        BY <1>2, <3>2 DEF Server
      <4> QED BY <3>2, <4>1 DEF acl
    <3>5. [t EXCEPT !.o.exec = @ \cup {Grant(Outsider, TableOwner, "EXECUTE", FALSE)}] = Server(run_by, s)
      <4> HIDE DEF exec
      <4>1. [t EXCEPT !.o.exec = exec] = Server(run_by, s)
        BY <1>2, <3>2 DEF Server
      <4> QED BY <3>2, <4>1 DEF exec
    <3>6. [t EXCEPT !.o.definer = ~@] = Server(other, s)
      BY <1>2, <3>2 DEF Server
    <3> HIDE DEF limited, used, run_by, other
    <3>7. CASE \E r \in DOMAIN o.role : x = [t EXCEPT !.o.role[r].limit = 3]
      BY <3>3, <3>7
    <3>8. CASE x = [t EXCEPT !.o.acl = @ \cup {Grant(Outsider, TableOwner, "UPDATE", FALSE)}]
      BY <3>4, <3>8
    <3>9. CASE x = [t EXCEPT !.o.exec = @ \cup {Grant(Outsider, TableOwner, "EXECUTE", FALSE)}]
      BY <3>5, <3>9
    <3>10. CASE x = [t EXCEPT !.o.definer = ~@]
      BY <3>6, <3>10
    <3> QED BY <3>1, <3>2, <3>7, <3>8, <3>9, <3>10
  <2>2. \A r \in DOMAIN o.role : HasForm(limited(r))
    <3> SUFFICES ASSUME NEW r \in DOMAIN o.role PROVE HasForm(limited(r))
      OBVIOUS
    <3>1. [o.role[r] EXCEPT !.limit = 3] \in Account
      BY <1>2 DEF Account
    <3> QED BY <1>1, <3>1, RoleSetBack DEF o
  <2>3. HasForm(used) /\ HasForm(run_by) /\ HasForm(other)
    <3>1. Grant(Outsider, TableOwner, "UPDATE", FALSE) \in AclEntry
          /\ Grant(Outsider, TableOwner, "EXECUTE", FALSE) \in AclEntry
      BY DEF Grant, AclEntry, Name, Privilege
    <3>2. HasForm(used)
      <4>1. acl \subseteq AclEntry
        BY <1>2, <3>1
      <4> HIDE DEF acl
      <4> QED BY <1>2, <4>1 DEF HasForm
    <3>3. HasForm(run_by)
      <4>1. exec \subseteq AclEntry
        BY <1>2, <3>1
      <4> HIDE DEF exec
      <4> QED BY <1>2, <4>1 DEF HasForm
    <3>4. HasForm(other)
      BY <1>2 DEF HasForm
    <3> QED BY <3>2, <3>3, <3>4
  <2>4. HasSettings(s) /\ t.s = s
    BY <1>1 DEF s
  <2> HIDE DEF limited, used, run_by, other
  <2>5. \E q : HasForm(q) /\ x = Server(q, s)
    BY <2>1, <2>2, <2>3
  <2> QED BY <2>4, <2>5, TypedParts, ServerParts
<1>5. CASE ~IsObject
  <2> DEFINE audit == Audit!Loaded([s.audit EXCEPT !.auto = {"read", "ddl"}])
             ciphers == Ciphers!Loaded([s.ciphers EXCEPT !.auto = "empty"])
             preload == AutoLine(s.preload, List(<<OtherLibrary>>, "canonical"))
             moved == [s EXCEPT !.path = "/opt"]
             raised == [s EXCEPT !.protocol = "TLSv1.3"]
  <2>1. x \in {Server(o, With(s, s.preload, audit, s.ciphers)), Server(o, With(s, s.preload, s.audit, ciphers)),
               Server(o, moved), Server(o, raised), Server(o, With(s, preload, s.audit, s.ciphers))}
    <3>1. x \in {[t EXCEPT !.s.audit = Audit!Loaded([@ EXCEPT !.auto = {"read", "ddl"}])],
                 [t EXCEPT !.s.ciphers = Ciphers!Loaded([@ EXCEPT !.auto = "empty"])],
                 [t EXCEPT !.s.path = "/opt"], [t EXCEPT !.s.protocol = "TLSv1.3"],
                 [t EXCEPT !.s.preload.auto = List(<<OtherLibrary>>, "canonical")]}
      BY <1>5 DEF Drifted
    <3>2. t = [o |-> o, s |-> s] /\ t.s = s
      BY <1>1 DEF Server, s
    <3>3. [t EXCEPT !.s.audit = Audit!Loaded([@ EXCEPT !.auto = {"read", "ddl"}])]
             = Server(o, With(s, s.preload, audit, s.ciphers))
      <4> HIDE DEF audit
      <4>1. [t EXCEPT !.s.audit = audit] = Server(o, With(s, s.preload, audit, s.ciphers))
        BY <1>3, <3>2 DEF Server, With
      <4> QED BY <3>2, <4>1 DEF audit
    <3>4. [t EXCEPT !.s.ciphers = Ciphers!Loaded([@ EXCEPT !.auto = "empty"])]
             = Server(o, With(s, s.preload, s.audit, ciphers))
      <4> HIDE DEF ciphers
      <4>1. [t EXCEPT !.s.ciphers = ciphers] = Server(o, With(s, s.preload, s.audit, ciphers))
        BY <1>3, <3>2 DEF Server, With
      <4> QED BY <3>2, <4>1 DEF ciphers
    <3>5. [t EXCEPT !.s.path = "/opt"] = Server(o, moved) /\ [t EXCEPT !.s.protocol = "TLSv1.3"] = Server(o, raised)
      BY <3>2 DEF Server
    <3>6. [t EXCEPT !.s.preload.auto = List(<<OtherLibrary>>, "canonical")]
             = Server(o, With(s, preload, s.audit, s.ciphers))
      <4> PICK list : list = List(<<OtherLibrary>>, "canonical")
        OBVIOUS
      <4> HIDE DEF preload
      <4>1. [t EXCEPT !.s.preload = preload] = Server(o, With(s, preload, s.audit, s.ciphers))
        BY <1>3, <3>2 DEF Server, With
      <4>2. [t EXCEPT !.s.preload.auto = list] = [t EXCEPT !.s.preload = [s.preload EXCEPT !.auto = list]]
        BY <3>2
      <4> QED BY <4>1, <4>2 DEF preload, AutoLine
    <3> HIDE DEF audit, ciphers, preload, moved, raised
    <3> QED BY <3>1, <3>3, <3>4, <3>5, <3>6
  <2>2. audit \in Audit!Setting
    <3>1. {"read", "ddl"} \in Audit!Line
      BY DEF Audit!Line, Classes
    <3>2. AutoLine(s.audit, {"read", "ddl"}) \in Audit!Setting
      <4> PICK value \in Audit!Line : value = {"read", "ddl"}
        BY <3>1
      <4>1. {} \in SUBSET Classes
        OBVIOUS
      <4> QED BY <1>3, <4>1, ClassSetBack
    <3> QED BY <3>2, ClassLoaded DEF AutoLine
  <2>3. ciphers \in Ciphers!Setting
    <3>1. AutoLine(s.ciphers, "empty") \in Ciphers!Setting
      BY <1>3, CipherSetBack DEF Ciphers!Line
    <3> QED BY <3>1, CipherLoaded DEF AutoLine
  <2>4. preload \in ListSetting
    <3>1. OtherLibrary \in Item
      BY DEF Item
    <3>2. <<OtherLibrary>> \in Seq(Item)
      BY <3>1
    <3>3. List(<<OtherLibrary>>, "canonical") \in ListLine
      BY <3>2 DEF List, ListLine, ListValue
    <3> QED BY <1>3, <3>3, ListActivates
  <2>5. HasSettings(moved) /\ moved.hidden = s.hidden /\ HasSettings(raised) /\ raised.hidden = s.hidden
    BY <1>3, <1>1 DEF HasSettings, s
  <2>6. HasForm(o) /\ HasSettings(s) /\ t.s = s
    BY <1>1 DEF o, s
  <2> HIDE DEF audit, ciphers, preload, moved, raised
  <2>7. /\ HasSettings(With(s, s.preload, audit, s.ciphers)) /\ HasSettings(With(s, s.preload, s.audit, ciphers))
        /\ HasSettings(With(s, preload, s.audit, s.ciphers))
    BY <1>3, <2>2, <2>3, <2>4, <2>6, WithParts
  <2>8. \A p, a, k : With(s, p, a, k).hidden = s.hidden
    BY DEF With
  <2>9. \E q : HasSettings(q) /\ q.hidden = s.hidden /\ x = Server(o, q)
    BY <2>1, <2>5, <2>7, <2>8
  <2> QED BY <2>6, <2>9, TypedParts, ServerParts
<1> QED BY <1>4, <1>5

\* A target action leaves the loop alone.
LEMMA WhileOnTarget ==
  ASSUME FInv, held # "prior" \/ Usable,
         UNCHANGED <<run, pc, exn, box_vars, attempt, status, faulty>>
  PROVE  /\ Chosen /\ Usable /\ Usable' /\ SameAsSource(Reproduced)
         /\ RunTyped' /\ Counted' /\ BoxFollows' /\ Unexcused'
         /\ source' = source /\ fix' = fix /\ env' = env
         /\ IsObject' = IsObject /\ Object' = Object /\ Rehearsed' = Rehearsed
<1>1. /\ Usable /\ pc # "idle" /\ Chosen
  BY DEF FInv, TargetFollows, Usable, RunTyped, Chosen
<1>2. /\ source' = source /\ env' = env /\ fix' = fix /\ pc' = pc /\ exn' = exn /\ box' = box
      /\ accepted' = accepted /\ attempt' = attempt /\ status' = status /\ faulty' = faulty
  BY DEF run, box_vars
<1>3. Usable' /\ SameAsSource(Reproduced)
  BY <1>1, <1>2 DEF Usable, FInv, BoxFollows
<1>4. /\ Offered' = Offered /\ Excused' = Excused /\ Reproduced' = Reproduced /\ Rehearsed' = Rehearsed
      /\ SameAsSource(Reproduced)' = SameAsSource(Reproduced) /\ IsObject' = IsObject /\ Object' = Object
  BY RunOnly
<1>5. RunTyped' /\ Counted'
  BY <1>1, <1>2, <1>4 DEF FInv, RunTyped, Counted
<1>6. BoxFollows'
  <2>1. ServerTyped(box')
    BY <1>2 DEF FInv, BoxFollows
  <2> QED BY <1>1, <1>2, <1>3, <1>4, <2>1 DEF BoxFollows, Usable
<1>7. Unexcused'
  BY <1>1, <1>2, <1>4 DEF FInv, Unexcused, Usable, Running
<1> QED BY <1>1, <1>2, <1>3, <1>4, <1>5, <1>6, <1>7

\* The DBA connects only to a verified rehearsal, whatever drifted.
LEMMA ConnectFollows == ASSUME FInv, DBAConnects PROVE FInv'
<1>1. /\ held = "prior" /\ Usable /\ held' = "found" /\ target' \in {target} \cup Drifted(target) /\ found' = target'
      /\ UNCHANGED <<run, pc, exn, box_vars, attempt, status, faulty>>
  BY DEF DBAConnects, Exportable
<1>2. dba'.loadable \subseteq Tested
  BY DEF DBAConnects
<1>3. /\ Usable' /\ RunTyped' /\ Counted' /\ BoxFollows' /\ Unexcused' /\ source' = source
  BY <1>1, WhileOnTarget
<1>4. target = source /\ ServerTyped(target)
  BY <1>1 DEF FInv, TargetFollows
<1>5. ServerTyped(found') /\ found'.s.hidden = source'.s.hidden
  BY <1>1, <1>3, <1>4, DriftTyped
<1>6. TargetFollows'
  BY <1>1, <1>2, <1>3, <1>5 DEF TargetFollows
<1> QED BY <1>3, <1>6 DEF FInv

\* The runner's state of affairs, case by case: it accepts the target, and then the
\* fix takes, or it refuses for a reason of the target's.
LEMMA ObjectOnTarget ==
  ASSUME ObjectRun, NEW t, t = Server(t.o, t.s), HasForm(t.o), SameObject(t.o, Object, source.o)
  PROVE  /\ ~Refused(t.o, Object) /\ Done(t) = Server(Applied(t.o, Object), t.s) /\ Done(t) # t
         /\ Matches(Done(t), Rehearsed) /\ Predicate(Done(t).o, Object)
         /\ Restored(Done(t)) = t /\ Matches(t, source)
<1> DEFINE o == t.o
           s == t.s
           a == Applied(o, Object)
           i == StandIn(source.o, Object)
<1>1. /\ ~Refused(o, Object) /\ Predicate(a, Object) /\ ~SameObject(a, Object, source.o) /\ Undone(a, Object) = o
  BY ObjectWorks DEF Works
<1>2. IsObject /\ t = Server(o, s) /\ SameObject(o, Object, source.o)
  BY DEF ObjectRun
<1>3. SameObject(a, Object, Applied(i, Object))
  <2>1. /\ HasForm(source.o) /\ HasForm(o)
        /\ Object.type \in RoleFixes \cup FunctionFixes \cup {"table_revoke_dml"}
    BY ObjectWorks
  <2>2. HasForm(i) /\ SameObject(i, Object, source.o)
    BY StandInForm
  <2> HIDE DEF i, o, a
  <2>3. SameObject(Applied(o, Object), Object, Applied(i, Object))
    BY <1>2, <2>1, <2>2, AppliedAlike
  <2> QED BY <2>3 DEF a
<1>4. Rehearsed.o = Applied(i, Object)
  <2>1. Reproduced = Server(i, ImageServer)
    BY <1>2, ReproducedIs
  <2> HIDE DEF i
  <2>2. Rehearsed = Server(Applied(i, Object), ImageServer)
    BY <1>2, <2>1, ObjectSteps DEF Rehearsed
  <2> QED BY <2>2, ServerParts
<1> HIDE DEF o, s
<1>5. Done(t) = Server(a, s)
  BY <1>2, ObjectSteps
<1> HIDE DEF a
<1>6. Done(t).o = a /\ t.o = o
  BY <1>5, ServerParts DEF o
<1>7. Restored(Done(t)) = t
  BY <1>1, <1>2, <1>5, ObjectSteps
<1>8. Done(t) # t
  BY <1>1, <1>2, <1>6
<1>9. Matches(Done(t), Rehearsed)
  BY <1>2, <1>3, <1>4, <1>6 DEF Matches
<1>10. Matches(t, source)
  BY <1>2, <1>6 DEF Matches
<1> QED BY <1>1, <1>5, <1>6, <1>7, <1>8, <1>9, <1>10 DEF a, o, s

\* A catalog fix on a target that matches: applied, verified, passing and undone.
LEMMA CatalogOnTarget ==
  ASSUME CatalogRun, SameAsSource(Reproduced), NEW t, t = Server(t.o, t.s),
         OnServer(fix.control, source.s, env, t.s), t.s.hidden = source.s.hidden
  PROVE  LET f == Fixed(t.s, fix.control, env, fix.changes)
         IN  /\ OnTarget(t, Done(t)) = Server(t.o, f) /\ Server(t.o, f) # t
             /\ Matches(Server(t.o, f), Rehearsed)
             /\ Result(fix.control, Reconnected(f), env) = "PASS"
             /\ OnTarget(Server(t.o, f), Restored(Server(t.o, f))) = Server(t.o, Read(t.s))
             /\ Server(t.o, Read(t.s)) # Server(t.o, f)
<1> DEFINE c == fix.control
           src == source.s
           changes == fix.changes
           s == t.s
           o == t.o
           b == StandInServer(c, src)
           f == Fixed(s, c, env, changes)
           g == Fixed(b, c, env, changes)
<1>1. /\ ~IsObject /\ OfferedFor(c, src, env) /\ changes = Changes(c, src, env) /\ t = Server(o, s)
  BY DEF CatalogRun
<1>2. OnServer(c, src, env, b) /\ Rehearsed = Server(EmptyCatalog, g)
  BY CatalogFaithful
<1>3. HasSettings(s) /\ AsCollected(s, src, changes)
  BY <1>1, ShapesMatched DEF OnServer
<1>4. Kept(s, changes, After(s, changes)) = f /\ Kept(f, changes, Back(f, changes)) = Read(s)
  BY <1>1, <1>3, FixAndBack
<1>5. f # s /\ f # Read(s)
  BY <1>1, FixedDiffers
<1>6. SameSettings(c, f, g, FixNames(c, src, changes))
  BY <1>1, <1>2, FixedAlike
<1>7. Result(c, Reconnected(f), env) = "PASS"
  BY <1>1, FixedPasses
<1> HIDE DEF f, g, b
<1>8. Matches(Server(o, f), Rehearsed)
  <2>1. Server(o, f).s = f /\ Rehearsed.s = g
    BY <1>2, ServerParts
  <2> QED BY <1>1, <1>6, <2>1 DEF Matches
<1> HIDE DEF c, src, s, o
<1>9. OnTarget(t, Done(t)) = Server(o, f)
  BY <1>1, <1>4, CatalogSteps
<1>10. OnTarget(Server(o, f), Restored(Server(o, f))) = Server(o, Read(s))
  BY <1>1, <1>4, CatalogSteps
<1>11. Server(o, f) # t /\ Server(o, Read(s)) # Server(o, f)
  BY <1>1, <1>5, ServerParts
<1> QED BY <1>7, <1>8, <1>9, <1>10, <1>11 DEF c, s, o, f

\* An offered role fix is never about a protected account, and one that removes
\* access never about an account the evidence was collected with.
LEMMA NotExcluded ==
  ASSUME ObjectRun
  PROVE  /\ Object.type \in RoleFixes => Object.on \notin Predefined \cup {Bootstrap}
         /\ Object.type \in {"role_drop_attribute", "role_nologin"} =>
              Object.on \notin {Bootstrap} \cup env.collected_by \cup env.login_role
<1> PICK p : p = Object
  OBVIOUS
<1>1. \/ DropsAttribute(p, source.o, env) \/ DisablesLogin(p, source.o, env) \/ SetsLimit(p, source.o, env)
      \/ MakesInvoker(p, source.o) \/ RevokesExecute(p, source.o) \/ RevokesTable(p, source.o)
  BY Proposed DEF ObjectRun, Possible
<1>2. /\ p.type \in RoleFixes => p.on \notin Predefined \cup {Bootstrap}
      /\ p.type \in {"role_drop_attribute", "role_nologin"} =>
           p.on \notin {Bootstrap} \cup env.collected_by \cup env.login_role
  BY <1>1 DEF DropsAttribute, DisablesLogin, SetsLimit, MakesInvoker, RevokesExecute, RevokesTable,
              RoleFixes, RoleExcluded
<1> QED BY <1>2

\* The runner's reading of the bundle accepts the statements on the collected settings.
LEMMA ReviewPasses ==
  ASSUME CatalogRun, OnServer(fix.control, source.s, env, target.s)
  PROVE  /\ ReviewedStatements /\ Additions \subseteq Tested
         /\ Changed(fix.changes, "preload") => Library(fix.control) \in Additions
<1> DEFINE new(i) == Images(fix.changes[i].apply.value.items) \ Images(target.s.preload.live.items)
<1>1. fix.changes = Changes(fix.control, source.s, env) /\ AllChanges = Len(fix.changes)
  BY DEF CatalogRun, AllChanges
<1>2. ASSUME NEW i \in 1 .. AllChanges, fix.changes[i].param = "preload"
      PROVE  /\ \A act \in {fix.changes[i].apply, fix.changes[i].undo} :
                  \/ act.action = "reset_config"
                  \/ /\ act.value.items # <<>> /\ Writable(act.value)
                     /\ Cardinality(Images(act.value.items)) = Len(act.value.items)
             /\ new(i) = {Library(fix.control)} /\ Library(fix.control) \in Tested
  <2>1. i \in 1 .. Len(fix.changes)
    BY <1>1, <1>2
  <2> QED BY <1>1, <1>2, <2>1, ListReviewed
<1>3. ReviewedStatements
  BY <1>2 DEF ReviewedStatements, Images
<1>4. Additions = UNION {new(i) : i \in {j \in 1 .. AllChanges : fix.changes[j].param = "preload"}}
  BY DEF Additions, Images
<1> HIDE DEF new
<1>5. Additions \subseteq Tested
  BY <1>2, <1>4
<1>6. Changed(fix.changes, "preload") => Library(fix.control) \in Additions
  <2> SUFFICES ASSUME Changed(fix.changes, "preload") PROVE Library(fix.control) \in Additions
    OBVIOUS
  <2>1. PICK i \in DOMAIN fix.changes : fix.changes[i].param = "preload"
    BY DEF Changed
  <2>2. DOMAIN fix.changes = 1 .. AllChanges
    <3>1. \/ CipherFix(fix.control, source.s, fix.changes) \/ ListFix(fix.control, source.s, fix.changes)
          \/ ClassFix(fix.control, source.s, env, fix.changes) \/ BothFix(fix.control, source.s, env, fix.changes)
      BY <1>1, ShapesMatched
    <3>2. \A x, y : DOMAIN <<x>> = 1 .. Len(<<x>>) /\ DOMAIN <<x, y>> = 1 .. Len(<<x, y>>)
      OBVIOUS
    <3> QED BY <1>1, <3>1, <3>2 DEF CipherFix, ListFix, ClassFix, BothFix
  <2>3. new(i) = {Library(fix.control)}
    BY <1>2, <2>1, <2>2
  <2> QED BY <1>4, <2>1, <2>2, <2>3
<1> QED BY <1>3, <1>5, <1>6

\* The runner accepts a target that matches.
LEMMA MatchedTarget ==
  ASSUME CatalogRun, SameAsSource(Reproduced), HasSettings(target.s), Matches(target, source)
  PROVE  OnServer(fix.control, source.s, env, target.s)
<1>1. /\ ~IsObject /\ OfferedFor(fix.control, source.s, env)
      /\ fix.changes = Changes(fix.control, source.s, env)
  BY DEF CatalogRun
<1>2. InForce(source.s, ReconstructionNames(fix.control, source.s))
  BY CatalogReproduced
<1> QED BY <1>1, <1>2 DEF Matches, OnServer

\* A target the runner allows gets the fix.
LEMMA AcceptedOnTarget ==
  ASSUME FInv, ApplyOnTarget, RunnerAllows
  PROVE  held' = "applied" /\ AppliedHere'
<1>1. /\ held = "found" /\ UNCHANGED <<run, pc, exn, box_vars, attempt, status, faulty>>
      /\ dba' = dba /\ found' = found
  BY DEF ApplyOnTarget
<1>2. /\ target = found /\ ServerTyped(target) /\ target.s.hidden = source.s.hidden
  BY <1>1 DEF FInv, TargetFollows
<1>3. /\ Chosen /\ SameAsSource(Reproduced) /\ source' = source /\ fix' = fix /\ env' = env
      /\ IsObject' = IsObject /\ Object' = Object
  BY <1>1, WhileOnTarget
<1>4. Matches(target, source)
  BY DEF RunnerAllows
<1>5. CASE ObjectRun
  <2>1. IsObject /\ ObjectSafe
    BY <1>5 DEF ObjectRun, RunnerAllows
  <2>2. target = Server(target.o, target.s) /\ HasForm(target.o) /\ SameObject(target.o, Object, source.o)
    BY <1>2, <1>4, <2>1 DEF ServerTyped, Matches
  <2>3. /\ ~Refused(target.o, Object) /\ Done(target) = Server(Applied(target.o, Object), target.s)
        /\ Done(target) # target /\ Matches(Done(target), Rehearsed)
    BY <1>5, <2>2, ObjectOnTarget
  <2>4. target' = Done(target) /\ held' = "applied"
    BY <2>1, <2>3 DEF ApplyOnTarget, Committed
  <2>5. ObjectSafe'
    BY <1>1, <1>3, <2>1 DEF ObjectSafe
  <2> QED BY <1>1, <1>2, <1>3, <2>1, <2>2, <2>3, <2>4, <2>5 DEF AppliedHere
<1>6. CASE CatalogRun
  <2> DEFINE f == Fixed(target.s, fix.control, env, fix.changes)
  <2>1. /\ ~IsObject /\ HasSettings(target.s) /\ target = Server(target.o, target.s)
    BY <1>2, <1>6 DEF CatalogRun, ServerTyped
  <2>2. OnServer(fix.control, source.s, env, target.s)
    BY <1>3, <1>4, <1>6, <2>1, MatchedTarget
  <2>3. OnTarget(target, Done(target)) = Server(target.o, f) /\ Server(target.o, f) # target
    BY <1>2, <1>3, <1>6, <2>1, <2>2, CatalogOnTarget
  <2>4. Changed(fix.changes, "preload") => Library(fix.control) \in dba.loadable
    BY <1>6, <2>1, <2>2, ReviewPasses DEF RunnerAllows, PreloadGuard
  <2> HIDE DEF f
  <2>5. target' = Server(target.o, f) /\ held' = "applied"
    BY <2>1, <2>3 DEF ApplyOnTarget
  <2> QED BY <1>1, <1>2, <1>3, <2>1, <2>2, <2>4, <2>5 DEF AppliedHere, f
<1> QED BY <1>3, <1>5, <1>6, ChosenFix

\* A refusal on an unchanged target has a reason of the target's.
LEMMA RefusedOnSource ==
  ASSUME Chosen, SameAsSource(Reproduced), target = source, ServerTyped(target), dba.loadable \subseteq Tested,
         ~RunnerAllows \/ (IsObject /\ Refused(target.o, Object))
  PROVE  IF IsObject THEN Object.on = dba.account ELSE ~(Additions \subseteq dba.loadable)
<1>1. CASE ObjectRun
  <2>1. IsObject /\ target = Server(target.o, target.s) /\ HasForm(target.o)
    BY <1>1 DEF ObjectRun, ServerTyped
  <2>2. SameObject(target.o, Object, source.o)
    BY <1>1, <2>1, ObjectWorks, StandInForm
  <2>3. Matches(target, source) /\ ~Refused(target.o, Object)
    BY <1>1, <2>1, <2>2, ObjectOnTarget
  <2>4. ~ObjectSafe
    BY <2>1, <2>3 DEF RunnerAllows
  <2> QED BY <1>1, <2>1, <2>4, NotExcluded DEF ObjectSafe
<1>2. CASE CatalogRun
  <2>1. ~IsObject
    BY <1>2 DEF CatalogRun
  <2>2. OnServer(fix.control, source.s, env, target.s)
    BY <1>2, CatalogFaithful
  <2>3. Matches(target, source)
    BY <2>1, <2>2 DEF Matches, SameSettings
  <2>4. ReviewedStatements /\ Additions \subseteq Tested
    BY <1>2, <2>2, ReviewPasses
  <2>5. ~PreloadGuard
    BY <2>1, <2>3, <2>4 DEF RunnerAllows
  <2> QED BY <2>1, <2>4, <2>5 DEF PreloadGuard
<1> QED BY <1>1, <1>2, ChosenFix

\* The bundle is refused without a change and for a reason, or applied.
LEMMA ApplyTargetFollows == ASSUME FInv, ApplyOnTarget PROVE FInv'
<1>1. /\ held = "found" /\ UNCHANGED <<run, pc, exn, box_vars, attempt, status, faulty>>
      /\ dba' = dba /\ found' = found
  BY DEF ApplyOnTarget
<1>2. /\ target = found /\ ServerTyped(found) /\ found.s.hidden = source.s.hidden /\ dba.loadable \subseteq Tested
  BY <1>1 DEF FInv, TargetFollows
<1>3. /\ Chosen /\ SameAsSource(Reproduced) /\ Usable' /\ source' = source /\ fix' = fix
      /\ IsObject' = IsObject /\ Object' = Object
      /\ RunTyped' /\ Counted' /\ BoxFollows' /\ Unexcused'
  BY <1>1, WhileOnTarget
<1>4. ServerTyped(found)'
  BY <1>1, <1>2 DEF ServerTyped
<1>5. CASE RunnerAllows
  <2>1. held' = "applied" /\ AppliedHere'
    BY <1>5, AcceptedOnTarget
  <2>2. TargetFollows'
    BY <1>1, <1>2, <1>3, <1>4, <2>1 DEF TargetFollows
  <2> QED BY <1>3, <2>2 DEF FInv
<1>6. CASE ~RunnerAllows
  <2>1. target' = target /\ held' = "refused"
    BY <1>6 DEF ApplyOnTarget
  <2>2. Additions' = Additions
    BY <1>3, <2>1 DEF Additions, AllChanges
  <2>3. found = source => IF IsObject THEN Object.on = dba.account ELSE ~(Additions \subseteq dba.loadable)
    BY <1>2, <1>3, <1>6, RefusedOnSource
  <2>4. TargetFollows'
    BY <1>1, <1>2, <1>3, <1>4, <2>1, <2>2, <2>3 DEF TargetFollows
  <2> QED BY <1>3, <2>4 DEF FInv
<1> QED BY <1>5, <1>6

\* The rollback of an applied fix gives back what the DBA found.
LEMMA UndoneOnTarget ==
  ASSUME FInv, UndoOnTarget
  PROVE  held' = "undone" /\ target' = FilesRead(found)
<1>1. /\ held = "applied" /\ UNCHANGED <<run, pc, exn, box_vars, attempt, status, faulty>>
  BY DEF UndoOnTarget
<1>2. ServerTyped(found) /\ found.s.hidden = source.s.hidden /\ AppliedHere
  BY <1>1 DEF FInv, TargetFollows
<1>3. Chosen /\ SameAsSource(Reproduced)
  BY <1>1, WhileOnTarget
<1>4. found = Server(found.o, found.s) /\ HasForm(found.o)
  BY <1>2 DEF ServerTyped
<1>5. CASE ObjectRun
  <2>1. /\ IsObject /\ SameObject(found.o, Object, source.o) /\ ObjectSafe
        /\ target = Server(Applied(found.o, Object), found.s)
    BY <1>2, <1>5 DEF AppliedHere, ObjectRun
  <2>2. /\ Done(found) = Server(Applied(found.o, Object), found.s) /\ Done(found) # found
        /\ Matches(Done(found), Rehearsed) /\ Restored(Done(found)) = found /\ Matches(found, source)
    BY <1>4, <1>5, <2>1, ObjectOnTarget
  <2>3. target = Done(found)
    BY <2>1, <2>2
  <2>4. Verified(Rehearsed) /\ Committed(Restored(target), source) = found
    BY <2>2, <2>3 DEF Verified, Committed
  <2>5. target' = found /\ held' = "undone"
    BY <2>1, <2>2, <2>3, <2>4 DEF UndoOnTarget
  <2> QED BY <2>1, <2>5 DEF FilesRead
<1>6. CASE CatalogRun
  <2> DEFINE f == Fixed(found.s, fix.control, env, fix.changes)
  <2>1. /\ ~IsObject /\ OnServer(fix.control, source.s, env, found.s) /\ target = Server(found.o, f)
    BY <1>2, <1>6 DEF AppliedHere, CatalogRun
  <2>2. /\ Matches(Server(found.o, f), Rehearsed)
        /\ OnTarget(Server(found.o, f), Restored(Server(found.o, f))) = Server(found.o, Read(found.s))
        /\ Server(found.o, Read(found.s)) # Server(found.o, f)
    BY <1>2, <1>3, <1>4, <1>6, <2>1, CatalogOnTarget
  <2> HIDE DEF f
  <2>3. target' = Server(found.o, Read(found.s)) /\ held' = "undone"
    BY <2>1, <2>2 DEF UndoOnTarget, Verified
  <2>4. FilesRead(found) = Server(found.o, Read(found.s))
    <3> DEFINE a == Audit!Loaded(found.s.audit)
               k == Ciphers!Loaded(found.s.ciphers)
               o == found.o
               s == found.s
    <3>1. FilesRead(found) = [found EXCEPT !.s = [[s EXCEPT !.audit = a] EXCEPT !.ciphers = k]]
      BY <2>1, <1>4 DEF FilesRead, Server
    <3>2. HasSettings(s)
      BY <1>2 DEF ServerTyped
    <3> HIDE DEF a, k, s, o
    <3>3. [[s EXCEPT !.audit = a] EXCEPT !.ciphers = k] = With(s, s.preload, a, k)
      <4>1. [s EXCEPT !.audit = a] = With(s, s.preload, a, s.ciphers)
        <5> DEFINE m == [s EXCEPT !.audit = a]
        <5>1. /\ m = [preload |-> m.preload, audit |-> m.audit, ciphers |-> m.ciphers, path |-> m.path,
                      protocol |-> m.protocol, sessions |-> m.sessions, hidden |-> m.hidden]
              /\ m.preload = s.preload /\ m.audit = a /\ m.ciphers = s.ciphers /\ m.path = s.path
              /\ m.protocol = s.protocol /\ m.sessions = s.sessions /\ m.hidden = s.hidden
          BY <3>2 DEF HasSettings
        <5> HIDE DEF m
        <5>2. m = With(s, s.preload, a, s.ciphers)
          BY <5>1 DEF With
        <5> QED BY <5>2 DEF m
      <4>2. [With(s, s.preload, a, s.ciphers) EXCEPT !.ciphers = k] = With(s, s.preload, a, k)
        BY DEF With
      <4> QED BY <4>1, <4>2
    <3>4. FilesRead(found) = Server(o, With(s, s.preload, a, k))
      BY <1>4, <3>1, <3>3, ServerParts DEF o, s
    <3> QED BY <3>4 DEF Read, a, k, s, o
  <2> QED BY <2>3, <2>4
<1> QED BY <1>3, <1>5, <1>6, ChosenFix

\* The rollback of an applied fix is never refused.
LEMMA UndoTargetFollows == ASSUME FInv, UndoOnTarget PROVE FInv'
<1>1. /\ held = "applied" /\ UNCHANGED <<run, pc, exn, box_vars, attempt, status, faulty>>
      /\ dba' = dba /\ found' = found
  BY DEF UndoOnTarget
<1>2. ServerTyped(found) /\ found.s.hidden = source.s.hidden /\ dba.loadable \subseteq Tested
  BY <1>1 DEF FInv, TargetFollows
<1>3. /\ Usable' /\ source' = source /\ IsObject' = IsObject
      /\ RunTyped' /\ Counted' /\ BoxFollows' /\ Unexcused'
  BY <1>1, WhileOnTarget
<1>4. held' = "undone" /\ target' = FilesRead(found)
  BY UndoneOnTarget
<1>5. ServerTyped(found)' /\ FilesRead(found)' = FilesRead(found)
  BY <1>1, <1>2, <1>3 DEF ServerTyped, FilesRead
<1>6. TargetFollows'
  BY <1>1, <1>2, <1>3, <1>4, <1>5 DEF TargetFollows
<1> QED BY <1>3, <1>6 DEF FInv

\* No step, no change.
LEMMA StutterFollows == ASSUME FInv, UNCHANGED vars PROVE FInv'
<1>1. /\ source' = source /\ env' = env /\ fix' = fix /\ pc' = pc /\ exn' = exn /\ box' = box
      /\ accepted' = accepted /\ containers' = containers /\ attempt' = attempt /\ status' = status
      /\ faulty' = faulty /\ target' = target /\ held' = held /\ dba' = dba /\ found' = found
  BY DEF vars, run, box_vars, target_vars
<1>2. UNCHANGED run
  BY <1>1 DEF run
<1>3. /\ Offered' = Offered /\ Excused' = Excused /\ Reproduced' = Reproduced /\ Rehearsed' = Rehearsed
      /\ SameAsSource(Reproduced)' = SameAsSource(Reproduced) /\ IsObject' = IsObject /\ Object' = Object
  BY <1>2, RunOnly
<1>4. RunTyped' /\ Counted'
  BY <1>1, <1>3 DEF FInv, RunTyped, Counted
<1>5. ServerTyped(box)' /\ ServerTyped(found)' /\ Usable' = Usable
  BY <1>1 DEF FInv, BoxFollows, TargetFollows, ServerTyped, Usable
<1>6. BoxFollows' /\ Unexcused'
  BY <1>1, <1>3, <1>5 DEF FInv, BoxFollows, Unexcused
<1>7. AppliedHere' = AppliedHere /\ Additions' = Additions /\ FilesRead(found)' = FilesRead(found)
  BY <1>1, <1>3 DEF AppliedHere, Additions, AllChanges, FilesRead, ObjectSafe
<1>8. TargetFollows'
  BY <1>1, <1>3, <1>5, <1>7 DEF FInv, TargetFollows
<1> QED BY <1>4, <1>6, <1>8 DEF FInv

\* Every step, and hence every reachable state.
LEMMA StepFollows == FInv /\ [Next]_vars => FInv'
BY BeginFollows, StartFollows, ReproduceFollows, ApplyFollows, ReassessFollows, RollbackFollows,
   CloseFollows, KillFollows, ConnectFollows, ApplyTargetFollows, UndoTargetFollows, StutterFollows DEF Next

LEMMA Follows == Spec => []FInv
BY InitFollows, StepFollows, PTL DEF Spec

----------------------------------------------------------------------------
(* What follows for every reachable state.                                  *)

\* The kind of the fix.
LEMMA Kinds == ASSUME FInv PROVE fix.kind \in {"none", "object", "catalog"}
<1>1. CASE fix = NoFix
  BY <1>1 DEF NoFix
<1>2. CASE fix \in Offered
  <2>1. (\E p : fix = ObjectFix(p)) \/ (\E c : fix = CatalogFix(c))
    BY <1>2 DEF Offered
  <2>2. \A p : ObjectFix(p).kind = "object"
    BY DEF ObjectFix, NoFix
  <2>3. \A c : CatalogFix(c).kind = "catalog"
    <3> SUFFICES ASSUME NEW c PROVE CatalogFix(c).kind = "catalog"
      OBVIOUS
    <3> PICK changes : changes = Changes(c, source.s, env)
      OBVIOUS
    <3> QED BY DEF CatalogFix, NoFix
  <2> QED BY <2>1, <2>2, <2>3
<1> QED BY <1>1, <1>2 DEF FInv, RunTyped

\* Whatever the DBA did, the target is a server.
LEMMA TargetTyped == ASSUME FInv PROVE HasSettings(target.s)
<1>1. HasSettings(found.s) /\ found = Server(found.o, found.s)
  BY DEF FInv, TargetFollows, ServerTyped
<1>2. CASE held \in {"prior", "found", "refused"}
  <2>1. target = found
    BY <1>2 DEF FInv, TargetFollows
  <2> QED BY <1>1, <2>1
<1>3. CASE held = "applied"
  <2>1. AppliedHere
    BY <1>3 DEF FInv, TargetFollows
  <2>2. CASE IsObject
    <3>1. target = Server(Applied(found.o, Object), found.s)
      BY <2>1, <2>2 DEF AppliedHere
    <3> QED BY <1>1, <3>1, ServerParts
  <2>3. CASE ~IsObject
    <3> DEFINE f == Fixed(found.s, fix.control, env, fix.changes)
    <3>1. OnServer(fix.control, source.s, env, found.s) /\ target = Server(found.o, f)
      BY <2>1, <2>3 DEF AppliedHere
    <3>2. Chosen
      BY <1>3 DEF FInv, TargetFollows, Usable, RunTyped, Chosen
    <3>3. fix.changes = Changes(fix.control, source.s, env)
      BY <2>3, <3>2, ChosenFix DEF ObjectRun, CatalogRun
    <3>4. HasSettings(f)
      BY <3>1, <3>3, FixedShape
    <3> HIDE DEF f
    <3> QED BY <3>1, <3>4, ServerParts
  <2> QED BY <2>2, <2>3
<1>4. CASE held = "undone"
  <2>1. target = FilesRead(found)
    BY <1>4 DEF FInv, TargetFollows
  <2>2. CASE IsObject
    BY <1>1, <2>1, <2>2 DEF FilesRead
  <2>3. CASE ~IsObject
    <3> DEFINE s == found.s
               a == Audit!Loaded(s.audit)
               k == Ciphers!Loaded(s.ciphers)
    <3>1. target = [found EXCEPT !.s.audit = a, !.s.ciphers = k]
      BY <1>1, <2>1, <2>3 DEF FilesRead, Server
    <3>2. a \in Audit!Setting /\ k \in Ciphers!Setting /\ HasSettings(s)
      BY <1>1, ClassLoaded, CipherLoaded DEF HasSettings
    <3> HIDE DEF a, k
    <3>3. target.s = [[s EXCEPT !.audit = a] EXCEPT !.ciphers = k]
      BY <1>1, <3>1 DEF Server
    <3> HIDE DEF s
    <3>4. /\ target.s.preload = s.preload /\ target.s.audit = a /\ target.s.ciphers = k
          /\ target.s.hidden = s.hidden
          /\ target.s = [preload |-> target.s.preload, audit |-> target.s.audit, ciphers |-> target.s.ciphers,
                         path |-> target.s.path, protocol |-> target.s.protocol, sessions |-> target.s.sessions, hidden |-> target.s.hidden]
      <4> DEFINE m == [s EXCEPT !.audit = a]
      <4>1. /\ m = [preload |-> m.preload, audit |-> m.audit, ciphers |-> m.ciphers, path |-> m.path,
                    protocol |-> m.protocol, sessions |-> m.sessions, hidden |-> m.hidden]
            /\ m.preload = s.preload /\ m.audit = a /\ m.hidden = s.hidden
        BY <3>2 DEF HasSettings
      <4>2. target.s = [m EXCEPT !.ciphers = k]
        BY <3>3
      <4> HIDE DEF m
      <4> QED BY <4>1, <4>2
    <3> QED BY <3>2, <3>4 DEF HasSettings
  <2> QED BY <2>2, <2>3
<1> QED BY <1>2, <1>3, <1>4 DEF FInv, TargetFollows

\* The types, from the invariant and the one container.
LEMMA TypesHold == ASSUME FInv, containers \subseteq {attempt} PROVE TypeOK
<1>1. box.s.preload.origin \in Lists!Origin /\ target.s.preload.origin \in Lists!Origin
  BY TargetTyped DEF FInv, BoxFollows, ServerTyped, HasSettings, ListSetting
<1>2. \A r \in DOMAIN box.o.role : box.o.role[r].attrs \subseteq Attributes
  <2>1. box.o.role \in [DOMAIN box.o.role -> Account]
    BY DEF FInv, BoxFollows, ServerTyped, HasForm
  <2> QED BY <2>1 DEF Account
<1>3. dba.account = Nobody.account \/ dba.loadable \subseteq Tested
  BY DEF FInv, TargetFollows
<1>4. containers \subseteq 1 .. MaxAttempts
  BY DEF FInv, Counted
<1> QED BY <1>1, <1>2, <1>3, <1>4, Kinds DEF FInv, Counted, TargetFollows, TypeOK

\* What the property says of the loop: nothing but an excuse stops it.
LEMMA OfferedVerifies == ASSUME FInv PROVE OfferedFixVerifies
<1>1. pc = "end" /\ ~faulty /\ status # "VERIFIED" => Excused
  BY DEF FInv, Unexcused
<1>2. ASSUME Usable PROVE Exportable
  <2>1. Chosen /\ SameAsSource(Reproduced)
    BY <1>2 DEF Usable, FInv, RunTyped, Chosen, BoxFollows
  <2> QED BY <1>2, <2>1, RunWorks DEF Exportable
<1> QED BY <1>1, <1>2 DEF OfferedFixVerifies, Excused

\* The applied fix, as the property states it.
LEMMA AppliedUsable ==
  ASSUME FInv, held = "applied"
  PROVE  /\ Verified(Rehearsed)
         /\ IF IsObject THEN Predicate(target.o, Object)
            ELSE Result(fix.control, Reconnected(target.s), env) = "PASS"
         /\ \A i \in DOMAIN target.s.preload.live.items :
              \/ \E j \in DOMAIN found.s.preload.live.items :
                   found.s.preload.live.items[j] = target.s.preload.live.items[i]
              \/ target.s.preload.live.items[i] \in dba.loadable
         /\ \A r \in ({Bootstrap, dba.account} \cup env.collected_by \cup env.login_role) \cap DOMAIN found.o.role :
              /\ target.o.role[r].login = found.o.role[r].login
              /\ target.o.role[r].attrs = found.o.role[r].attrs
<1>1. /\ ServerTyped(found) /\ found.s.hidden = source.s.hidden /\ AppliedHere
      /\ Chosen /\ SameAsSource(Reproduced)
  BY DEF FInv, TargetFollows, Usable, RunTyped, Chosen, BoxFollows
<1>2. found = Server(found.o, found.s) /\ HasForm(found.o) /\ HasSettings(found.s)
  BY <1>1 DEF ServerTyped
<1>3. CASE ObjectRun
  <2>1. /\ IsObject /\ SameObject(found.o, Object, source.o) /\ ObjectSafe
        /\ target = Server(Applied(found.o, Object), found.s)
    BY <1>1, <1>3 DEF AppliedHere, ObjectRun
  <2>2. /\ Done(found) = Server(Applied(found.o, Object), found.s)
        /\ Matches(Done(found), Rehearsed) /\ Predicate(Done(found).o, Object)
    BY <1>2, <1>3, <2>1, ObjectOnTarget
  <2>3. target = Done(found) /\ target.s = found.s /\ target.o = Applied(found.o, Object)
    BY <2>1, <2>2, ServerParts
  <2>4. ASSUME NEW r \in ({Bootstrap, dba.account} \cup env.collected_by \cup env.login_role) \cap DOMAIN found.o.role
        PROVE  /\ target.o.role[r].login = found.o.role[r].login
               /\ target.o.role[r].attrs = found.o.role[r].attrs
    <3>1. r = Object.on => Object.type \notin {"role_drop_attribute", "role_nologin"}
      BY <1>3, <2>1, NotExcluded DEF ObjectSafe, RoleFixes
    <3>2. /\ Object.type \in RoleFixes \cup FunctionFixes \cup {"table_revoke_dml"}
          /\ Object.type \in RoleFixes => Object.on \in DOMAIN found.o.role
      BY <1>2, <1>3, <2>1, ObjectWorks
    <3>3. /\ Applied(found.o, Object).role[r].login = found.o.role[r].login
          /\ Applied(found.o, Object).role[r].attrs = found.o.role[r].attrs
      BY <1>2, <3>1, <3>2, OthersKeepAccess
    <3> QED BY <2>3, <3>3
  <2> QED BY <2>1, <2>2, <2>3, <2>4 DEF Verified
<1>4. CASE CatalogRun
  <2> DEFINE s == found.s
             f == Fixed(s, fix.control, env, fix.changes)
  <2>1. /\ ~IsObject /\ OnServer(fix.control, source.s, env, s) /\ target = Server(found.o, f)
        /\ Changed(fix.changes, "preload") => Library(fix.control) \in dba.loadable
        /\ fix.changes = Changes(fix.control, source.s, env)
    BY <1>1, <1>4 DEF AppliedHere, CatalogRun
  <2>2. Matches(Server(found.o, f), Rehearsed) /\ Result(fix.control, Reconnected(f), env) = "PASS"
    BY <1>1, <1>2, <1>4, <2>1, CatalogOnTarget
  <2>3. \A i \in DOMAIN f.preload.live.items :
          \/ \E j \in DOMAIN s.preload.live.items : s.preload.live.items[j] = f.preload.live.items[i]
          \/ f.preload.live.items[i] \in dba.loadable
    <3>1. /\ \/ CipherFix(fix.control, source.s, fix.changes) \/ ListFix(fix.control, source.s, fix.changes)
             \/ ClassFix(fix.control, source.s, env, fix.changes)
             \/ BothFix(fix.control, source.s, env, fix.changes)
      BY <2>1, ShapesMatched
    <3>2. /\ CipherFix(fix.control, source.s, fix.changes) \/ ClassFix(fix.control, source.s, env, fix.changes)
               => f.preload = s.preload
          /\ ListFix(fix.control, source.s, fix.changes)
               => f.preload = Set(s.preload, Appended(s.preload.live, "passwordcheck"))
          /\ BothFix(fix.control, source.s, env, fix.changes)
               => f.preload = Set(s.preload, Appended(s.preload.live, "pgaudit"))
      BY <2>1, FixedShape
    <3>3. /\ ListFix(fix.control, source.s, fix.changes) => "passwordcheck" \in dba.loadable
          /\ BothFix(fix.control, source.s, env, fix.changes) => "pgaudit" \in dba.loadable
      BY <2>1, ChangedParams DEF ListFix, BothFix, Library
    <3>4. s.preload \in ListSetting
      BY <1>2 DEF HasSettings
    <3>5. ASSUME NEW l \in {"pgaudit", "passwordcheck"}, l \in dba.loadable,
                 f.preload = Set(s.preload, Appended(s.preload.live, l))
          PROVE  \A i \in DOMAIN f.preload.live.items :
                   \/ \E j \in DOMAIN s.preload.live.items : s.preload.live.items[j] = f.preload.live.items[i]
                   \/ f.preload.live.items[i] \in dba.loadable
      <4> DEFINE list == Appended(s.preload.live, l)
                 old == s.preload.live.items
      <4>1. f.preload.live = list
        <5> HIDE DEF list, f, s
        <5>1. f.preload = Set(s.preload, list)
          BY <3>5 DEF list
        <5> QED BY <3>4, <5>1, SetIs
      <4>2. /\ Len(old) \in Nat
            /\ DOMAIN list.items = 1 .. Len(old) + 1 /\ DOMAIN old = 1 .. Len(old)
            /\ \A i \in DOMAIN old : list.items[i] = old[i]
            /\ list.items[Len(old) + 1] = l
        BY <3>4, <3>5, NamesAppended
      <4> HIDE DEF list, old, f, s
      <4>3. \A i \in DOMAIN list.items : i \in DOMAIN old \/ i = Len(old) + 1
        BY <4>2
      <4> QED BY <3>5, <4>1, <4>2, <4>3 DEF old
    <3> HIDE DEF f, s
    <3> QED BY <3>1, <3>2, <3>3, <3>5
  <2> HIDE DEF f
  <2>4. target.s = f /\ target.o = found.o
    BY <2>1, ServerParts
  <2> QED BY <2>1, <2>2, <2>3, <2>4 DEF Verified, s
<1> QED BY <1>1, <1>3, <1>4, ChosenFix

LEMMA TargetUsable == ASSUME FInv PROVE TargetStaysUsable
<1>1. held \in {"prior", "found", "refused", "applied", "undone"}
  BY DEF FInv, TargetFollows
<1>2. /\ held = "refused" =>
           /\ target = found
           /\ \/ found # source
              \/ IF IsObject THEN Object.on = dba.account ELSE ~(Additions \subseteq dba.loadable)
      /\ held = "undone" => target = FilesRead(found)
      /\ held \in {"prior", "found", "refused"} => target = found
  BY DEF FInv, TargetFollows
<1>3. held # "applied" => target.o = found.o
  <2>1. FilesRead(found).o = found.o
    <3>1. found = Server(found.o, found.s)
      BY DEF FInv, TargetFollows, ServerTyped
    <3> QED BY <3>1 DEF FilesRead, Server
  <2> QED BY <1>1, <1>2, <2>1
<1>4. \A r \in ({Bootstrap, dba.account} \cup env.collected_by \cup env.login_role) \cap DOMAIN found.o.role :
        /\ target.o.role[r].login = found.o.role[r].login
        /\ target.o.role[r].attrs = found.o.role[r].attrs
  BY <1>3, AppliedUsable
<1>5. held = "applied" =>
       /\ Verified(Rehearsed)
       /\ IF IsObject THEN Predicate(target.o, Object)
          ELSE Result(fix.control, Reconnected(target.s), env) = "PASS"
       /\ \A i \in DOMAIN target.s.preload.live.items :
            \/ \E j \in DOMAIN found.s.preload.live.items :
                 found.s.preload.live.items[j] = target.s.preload.live.items[i]
            \/ target.s.preload.live.items[i] \in dba.loadable
  BY AppliedUsable
<1>6. held # "stuck"
  BY <1>1
<1> QED BY <1>2, <1>4, <1>5, <1>6 DEF TargetStaysUsable

\* No run leaves the types of the model: the two servers keep their shape through
\* every partial application, and no attempt is counted beyond max_attempts.
THEOREM TypeCorrect == Spec => []TypeOK
<1>1. IInv /\ FInv => TypeOK
  BY TypesHold DEF IInv, OneContainer
<1> QED BY <1>1, Inductive, Follows, PTL

\* A fix the preparation offers goes through attempt(): without a failed call
\* only a file the source has not read, a library that the image lacks, or for 6.10
\* a source on which no TLS 1.2 handshake can be rehearsed keeps it from being
\* verified; and review_bundle exports what is verified.
THEOREM OfferedFixesVerify == Spec => []OfferedFixVerifies
BY Follows, OfferedVerifies, PTL

\* The exported bundle on a target that drifted: refused without a change, or
\* applied with the rehearsed result and undone to what was found, and no account
\* that the DBA or the collector needs loses its login or powers.
THEOREM TargetKeepsUsable == Spec => []TargetStaysUsable
BY Follows, TargetUsable, PTL
=============================================================================
