---------------------------- MODULE BatchRunProofs ----------------------------
(***************************************************************************)
(* The safety properties of BatchRun for any fixes, prerequisites and      *)
(* batch size, and that a batch implements Rehearsal.                      *)
(***************************************************************************)
EXTENDS BatchRun, FiniteSetTheorems, TLAPS

----------------------------------------------------------------------------
(* The inductive invariant. *)

Early == {"validate", "single", "order"}
Applying == {"start", "reproduce", "apply", "sql", "activate", "gate"}
Undo == {"rollback", "reactivate", "check"}
Late == {"export", "deliver", "done"}

\* Where the loops over the order are.
Places ==
    /\ pc \in Early => order = <<>>
    /\ pc \in Applying \cup Undo \cup {"close", "export", "deliver"} => order # <<>>
    /\ pc \in Early \cup Applying => undo = 0 /\ rolled = <<>> /\ status = "FAILED"
    /\ pc \in Early \cup {"start", "reproduce", "apply"} => applied = Len(steps)
    /\ pc \in {"start", "reproduce", "apply"} => applied < Len(order)
    /\ pc \in {"sql", "activate", "gate"} => applied = Len(steps) + 1
    /\ pc \in {"reactivate", "check"} => undo >= 1
    /\ Len(steps) <= applied /\ applied <= Len(steps) + 1
    /\ order = <<>> => ~container /\ status = "FAILED"

\* What the order is: the selected fixes, once each, prerequisites first, every
\* one tested alone and recorded, and no two of them at odds over a setting.
OrderIsSound ==
    order # <<>> =>
        /\ DOMAIN order = DOMAIN requests /\ Len(order) = Len(requests)
        /\ \A i \in DOMAIN order : order[i] \in Selected
        /\ \A i, k \in DOMAIN order : order[i] = order[k] => i = k
        /\ \A i \in DOMAIN order : Depends[order[i]] \subseteq Front(order, i - 1)
        /\ ~SettingConflict

Passed(f) == single[f] = "VERIFIED" /\ f \in history

\* Individual runs that are over, unless one of them ended the batch.
SinglesPassed ==
    /\ pc \in {"validate", "single"} => \A i \in DOMAIN requests :
            single[requests[i]] # "none" => Passed(requests[i])
    /\ pc = "order" \/ order # <<>> => \A i \in DOMAIN requests : Passed(requests[i])

\* The step records are the states of the tested order.
StepsAreTested ==
    \A i \in DOMAIN steps :
        steps[i] = [fix |-> order[i], before |-> Tested(i - 1), after |-> Tested(i)]

\* A kept rollback is derived from the state before its fix, and every catalog
\* fix whose SQL may have run has one.
HasPrior(i) == \E p \in pending : p.fix = order[i]
PendingIsTested ==
    /\ \A p \in pending : \E i \in 1..applied :
            p.fix = order[i] /\ p.prior = Tested(i - 1)
    /\ \A i \in DOMAIN steps : Kind[order[i]] = "catalog" => HasPrior(i)
    /\ pc \in {"sql", "activate", "gate"} /\ Kind[Current] = "catalog" => HasPrior(applied)

\* But for the cells of fix n the server has the fixes before it.
Around(n) ==
    \A c \in Cell \ Cells(order[n]) :
        box.file[c] = InEffect(n - 1)[c] /\ box.live[c] = InEffect(n - 1)[c]

BoxIsNear ==
    /\ pc \in Early \cup {"start", "reproduce", "apply", "sql"} => box = Tested(Len(steps))
    /\ pc = "activate" => box.file = InEffect(applied) /\ Around(applied)
    /\ pc = "gate" => box = Tested(applied)
    /\ pc = "rollback" /\ undo <= Len(steps) => box = Tested(undo)
    /\ pc = "rollback" /\ undo > Len(steps) =>
            /\ Around(undo)
            /\ Kind[order[undo]] = "catalog" /\ ~HasPrior(undo) => box = Tested(undo - 1)
    /\ pc = "reactivate" => box.file = InEffect(undo - 1) /\ Around(undo)
    /\ pc = "check" => box = Tested(undo - 1)

\* As long as the combined test counts as VERIFIED, every fix passed its gate
\* and those behind the rollback loop were undone exactly.
VerifiedSoFar ==
    status = "VERIFIED" =>
        /\ Len(steps) = Len(order)
        /\ Len(rolled) = Len(order) - undo
        /\ \A i \in DOMAIN rolled :
                rolled[i] = [fix |-> order[Len(order) + 1 - i], verified |-> TRUE]
        /\ pc \in Undo \cup {"close"} \cup Late
        /\ pc \in {"close"} \cup Late => undo = 0 /\ box = Source
        /\ pc \in Late => ~container

\* And the other way round: FAILED has a reason.
FailedForAReason ==
    /\ pc \notin Late => status # "CLEANUP_FAILED"
    /\ pc \in Undo /\ Len(steps) = Len(order) => status = "VERIFIED"
    /\ pc = "close" /\ Len(steps) = Len(order) /\ undo = 0 => status = "VERIFIED"

Exported ==
    /\ pc = "export" => status = "VERIFIED"
    /\ export # <<>> => status = "VERIFIED" /\ pc \in {"deliver", "done"}

IInv == /\ TypeOK /\ Places /\ OrderIsSound /\ SinglesPassed
        /\ StepsAreTested /\ PendingIsTested /\ BoxIsNear
        /\ VerifiedSoFar /\ FailedForAReason /\ Exported /\ ExportIsTested /\ NoLeftovers

----------------------------------------------------------------------------
(* Fixes, cells and values. *)

LEMMA Elements ==
    ASSUME NEW S, NEW s \in Seq(S), NEW i \in 1..Len(s)
    PROVE  s[i] \in S
OBVIOUS

LEMMA SequenceOf ==
    ASSUME NEW S, NEW n \in Nat, NEW s \in [1..n -> S]
    PROVE  s \in Seq(S) /\ Len(s) = n
OBVIOUS

LEMMA FixData ==
    ASSUME NEW f \in Fix
    PROVE  /\ Changes[f] \in Seq(Cell)
           /\ Len(Changes[f]) \in Nat /\ DOMAIN Changes[f] = 1..Len(Changes[f])
           /\ \A i \in 1..Len(Changes[f]) : Changes[f][i] \in Cells(f)
           /\ \A c \in Cells(f) : \E i \in 1..Len(Changes[f]) : Changes[f][i] = c
           /\ Cells(f) \subseteq Cell
<1>1. Changes[f] \in Seq(Cell)
  BY BatchAssumption
<1>2. Len(Changes[f]) \in Nat /\ DOMAIN Changes[f] = 1..Len(Changes[f])
  BY <1>1
<1>3. \A i \in 1..Len(Changes[f]) : Changes[f][i] \in Cell
  BY <1>1
<1> QED
  BY <1>1, <1>2, <1>3 DEF Cells

\* A rollback's script has the cells of its fix.
LEMMA ReversedCells ==
    ASSUME NEW f \in Fix
    PROVE  /\ Reversed(Changes[f]) \in Seq(Cell)
           /\ Len(Reversed(Changes[f])) = Len(Changes[f])
           /\ \A c : (\E i \in 1..Len(Changes[f]) : Reversed(Changes[f])[i] = c)
                        <=> c \in Cells(f)
<1> DEFINE s == Changes[f]
           L == Len(s)
           r == Reversed(s)
<1>1. L \in Nat /\ DOMAIN s = 1..L /\ (\A i \in 1..L : s[i] \in Cell)
  BY FixData
<1>2. r = [i \in 1..L |-> s[L + 1 - i]]
  BY <1>1 DEF Reversed
<1>3. \A i \in 1..L : L + 1 - i \in 1..L /\ L + 1 - (L + 1 - i) = i
  BY <1>1
<1>4. r \in [1..L -> Cell]
  BY <1>1, <1>2, <1>3
<1>5. r \in Seq(Cell) /\ Len(r) = L
  BY <1>1, <1>4
<1>6. ASSUME NEW c
      PROVE  (\E i \in 1..L : r[i] = c) <=> c \in Cells(f)
  <2>1. ASSUME NEW i \in 1..L, r[i] = c PROVE c \in Cells(f)
    BY <1>2, <1>3, <2>1, FixData
  <2>2. ASSUME c \in Cells(f) PROVE \E i \in 1..L : r[i] = c
    <3>1. PICK i \in 1..L : s[i] = c
      BY <2>2, FixData
    <3> QED
      BY <1>2, <1>3, <3>1
  <2> QED
    BY <2>1, <2>2
<1> QED
  BY <1>5, <1>6

LEMMA ValueType ==
    ASSUME order \in Seq(Fix), NEW n \in Nat, n <= Len(order)
    PROVE  /\ Front(order, n) \subseteq Fix
           /\ InEffect(n) \in [Cell -> Value]
           /\ Tested(n) \in Box
<1>1. \A k \in 1..n : order[k] \in Fix
  OBVIOUS
<1>2. Front(order, n) \subseteq Fix
  BY <1>1 DEF Front
<1>3. InEffect(n) \in [Cell -> Value]
  BY <1>2 DEF InEffect, Value
<1> QED
  BY <1>2, <1>3 DEF Tested, Box

LEMMA NoneInEffect == Tested(0) = Source
<1>1. Front(order, 0) = {}
  BY DEF Front
<1> QED
  BY <1>1 DEF Tested, InEffect, Source

LEMMA SameOrder ==
    ASSUME order' = order
    PROVE  \A n : InEffect(n)' = InEffect(n) /\ Tested(n)' = Tested(n)
BY DEF InEffect, Tested, Front

\* A fix is added to the cells it changes.
LEMMA OneMore ==
    ASSUME order \in Seq(Fix), NEW n \in 1..Len(order), NEW c \in Cell
    PROVE  /\ c \in Cells(order[n]) => InEffect(n)[c] = InEffect(n - 1)[c] \cup {order[n]}
           /\ c \notin Cells(order[n]) => InEffect(n)[c] = InEffect(n - 1)[c]
<1>1. Front(order, n) = Front(order, n - 1) \cup {order[n]}
  BY DEF Front
<1> QED
  BY <1>1 DEF InEffect

\* Two fixes of the order share a cell only where both append to it.
LEMMA Alone ==
    ASSUME order \in Seq(Fix), order # <<>>, OrderIsSound,
           NEW n \in 1..Len(order), NEW c \in Cells(order[n]),
           ~(Kind[order[n]] = "catalog" /\ c \in Chainable)
    PROVE  InEffect(n - 1)[c] = {}
<1>1. order[n] \in Fix /\ c \in Cell
  BY FixData
<1>2. ASSUME NEW k \in 1..(n - 1), c \in Cells(order[k]) PROVE FALSE
  <2>1. k \in DOMAIN order /\ n \in DOMAIN order /\ k # n
    OBVIOUS
  <2>2. order[k] # order[n] /\ order[k] \in Selected /\ order[n] \in Selected
    BY <2>1 DEF OrderIsSound
  <2> QED
    BY <1>2, <2>2 DEF OrderIsSound, SettingConflict
<1> QED
  BY <1>1, <1>2 DEF InEffect, Front

\* What a fix sets is what is tested after it.
LEMMA NewValue ==
    ASSUME order \in Seq(Fix), OrderIsSound, StepsAreTested,
           steps \in Seq([fix: Fix, before: Box, after: Box]),
           applied = Len(steps) + 1, applied <= Len(order), NEW c \in Cells(Current)
    PROVE  New(Current, c) = InEffect(applied)[c]
<1>1. applied \in 1..Len(order) /\ order # <<>> /\ Current \in Fix
  BY DEF Current
<1>2. c \in Cell
  BY <1>1, FixData
<1>3. Previous = Tested(applied - 1)
  <2>1. CASE steps = <<>>
    BY <2>1, NoneInEffect DEF Previous
  <2>2. CASE steps # <<>>
    BY <2>2 DEF Previous, StepsAreTested
  <2> QED
    BY <2>1, <2>2
<1>4. Previous.file[c] = InEffect(applied - 1)[c]
  BY <1>3 DEF Tested
<1>5. InEffect(applied)[c] = InEffect(applied - 1)[c] \cup {Current}
  BY <1>1, <1>2, OneMore DEF Current
<1>6. CASE Kind[Current] = "catalog" /\ c \in Chainable
  BY <1>4, <1>5, <1>6 DEF New
<1>7. CASE ~(Kind[Current] = "catalog" /\ c \in Chainable)
  <2>1. InEffect(applied - 1)[c] = {}
    BY <1>1, <1>7, Alone DEF Current
  <2> QED
    BY <1>5, <1>7, <2>1 DEF New
<1> QED
  BY <1>6, <1>7

\* What a rollback restores is what was tested before the fix.
LEMMA RestoredValue ==
    ASSUME order \in Seq(Fix), OrderIsSound, PendingIsTested,
           applied \in 0..Len(order), undo \in 1..applied,
           Kind[Undoing] = "catalog" => Priors # {}, NEW c \in Cells(Undoing)
    PROVE  Restores(c) = InEffect(undo - 1)[c]
<1>1. undo \in 1..Len(order) /\ order # <<>> /\ Undoing \in Fix
  BY DEF Undoing
<1>2. c \in Cell
  BY <1>1, FixData
<1>3. CASE Kind[Undoing] = "catalog"
  <2>1. (CHOOSE p \in Priors : TRUE) \in Priors
    BY <1>3
  <2>2. PICK p \in Priors : p = (CHOOSE q \in Priors : TRUE)
    BY <2>1
  <2>3. PICK i \in 1..applied : p.fix = order[i] /\ p.prior = Tested(i - 1)
    BY <2>2 DEF Priors, PendingIsTested
  <2>4. i \in DOMAIN order /\ undo \in DOMAIN order /\ order[i] = order[undo]
    BY <1>1, <2>2, <2>3 DEF Priors, Undoing
  <2>5. i = undo
    BY <1>1, <2>4 DEF OrderIsSound
  <2> QED
    BY <1>3, <2>2, <2>3, <2>5 DEF Restores, Tested
<1>4. CASE Kind[Undoing] # "catalog"
  BY <1>1, <1>2, <1>4, Alone DEF Restores, Source, Undoing
<1> QED
  BY <1>3, <1>4

----------------------------------------------------------------------------
(* Scripts: e is the state a script is to bring about; outside the cells x *)
(* it changes, the server is there already.                                *)

Target(e) == [file |-> e, live |-> e]
Outer(b, x, e) == \A c \in Cell \ x : b.file[c] = e[c] /\ b.live[c] = e[c]

\* cells is a script over exactly the cells x that gives them the values of e.
Script(b, x, e, cells, to) ==
    /\ b \in Box /\ e \in [Cell -> Value] /\ to \in [Cell -> Value]
    /\ cells \in Seq(Cell)
    /\ \A c : (\E i \in 1..Len(cells) : cells[i] = c) <=> c \in x
    /\ \A c \in x : to[c] = e[c]
    /\ Outer(b, x, e)

LEMMA BoxFields ==
    ASSUME NEW b \in Box
    PROVE  /\ b.file \in [Cell -> Value] /\ b.live \in [Cell -> Value]
           /\ b = [file |-> b.file, live |-> b.live]
BY DEF Box

LEMMA BoxUpdate ==
    ASSUME NEW b \in Box, NEW v \in [Cell -> Value]
    PROVE  /\ [b EXCEPT !.file = v] = [file |-> v, live |-> b.live]
           /\ [b EXCEPT !.live = v] = [file |-> b.file, live |-> v]
           /\ [b EXCEPT !.file = v] \in Box /\ [b EXCEPT !.live = v] \in Box
BY DEF Box

\* Where the first n statements of the script leave the files.
LEMMA PartOfScript ==
    ASSUME NEW b, NEW x, NEW e, NEW cells, NEW to, Script(b, x, e, cells, to),
           NEW n \in 0..Len(cells)
    PROVE  /\ Altered(b, cells, n, to) \in Box
           /\ Altered(b, cells, n, to).live = b.live
           /\ \A c \in Cell \ x : Altered(b, cells, n, to).file[c] = e[c]
           /\ n = Len(cells) => Altered(b, cells, n, to).file = e
<1> DEFINE v == [c \in Cell |-> IF \E i \in 1..n : cells[i] = c THEN to[c] ELSE b.file[c]]
<1>1. v \in [Cell -> Value]
  <2>1. b.file \in [Cell -> Value] /\ to \in [Cell -> Value]
    BY BoxFields DEF Script
  <2> QED
    BY <2>1
<1>2. Altered(b, cells, n, to) = [file |-> v, live |-> b.live] /\ b \in Box
  BY <1>1, BoxUpdate DEF Altered, Script
<1>3. \A c \in Cell \ x : v[c] = e[c]
  BY DEF Script, Outer
<1>4. ASSUME n = Len(cells) PROVE v = e
  <2>1. \A c \in Cell : v[c] = e[c]
    BY <1>4 DEF Script, Outer
  <2> QED
    BY <1>1, <2>1 DEF Script
<1> QED
  BY <1>1, <1>2, <1>3, <1>4, BoxFields DEF Box

LEMMA AfterReload ==
    ASSUME NEW b \in Box, NEW x, NEW e, Outer(b, x, e)
    PROVE  /\ Reloaded(b) \in Box /\ Reloaded(b).file = b.file
           /\ Outer(Reloaded(b), x, e)
<1> DEFINE v == [c \in Cell |-> IF c \in RestartOnly THEN b.live[c] ELSE b.file[c]]
<1>1. v \in [Cell -> Value]
  <2>1. b.file \in [Cell -> Value] /\ b.live \in [Cell -> Value]
    BY BoxFields
  <2> QED
    BY <2>1
<1>2. Reloaded(b) = [file |-> b.file, live |-> v]
  BY <1>1, BoxUpdate DEF Reloaded
<1>3. \A c \in Cell \ x : b.file[c] = e[c] /\ v[c] = e[c]
  BY DEF Outer
<1> QED
  BY <1>1, <1>2, <1>3, BoxFields DEF Outer, Box

LEMMA AfterRestart ==
    ASSUME NEW b \in Box
    PROVE  Restarted(b) = Target(b.file) /\ Restarted(b) \in Box
BY BoxFields, BoxUpdate DEF Restarted, Target, Box

LEMMA AfterRun ==
    ASSUME NEW b, NEW x, NEW e, NEW cells, NEW to, Script(b, x, e, cells, to)
    PROVE  /\ Ran(b, cells, to) \in Box /\ Ran(b, cells, to).file = e
           /\ Outer(Ran(b, cells, to), x, e)
<1> DEFINE a == Altered(b, cells, Len(cells), to)
<1>1. Len(cells) \in 0..Len(cells)
  BY DEF Script
<1>2. /\ a \in Box /\ a.file = e /\ a.live = b.live
      /\ \A c \in Cell \ x : a.file[c] = e[c]
  BY <1>1, PartOfScript
<1>3. Ran(b, cells, to) = Reloaded(a)
  BY DEF Ran
<1> HIDE DEF a
<1>4. Outer(a, x, e)
  BY <1>2 DEF Script, Outer
<1> QED
  BY <1>2, <1>3, <1>4, AfterReload

LEMMA AfterBreak ==
    ASSUME NEW b, NEW x, NEW e, NEW cells, NEW to, Script(b, x, e, cells, to),
           NEW z \in Broken(b, cells, to)
    PROVE  z \in Box /\ Outer(z, x, e)
<1>1. PICK n \in 0..Len(cells) : z \in {Altered(b, cells, n, to),
                                        Reloaded(Altered(b, cells, n, to))}
  BY DEF Broken
<1> DEFINE a == Altered(b, cells, n, to)
<1>2. /\ a \in Box /\ a.live = b.live
      /\ \A c \in Cell \ x : a.file[c] = e[c]
  BY PartOfScript
<1>3. z = a \/ z = Reloaded(a)
  BY <1>1
<1> HIDE DEF a
<1>4. Outer(a, x, e)
  BY <1>2 DEF Script, Outer
<1> QED
  BY <1>2, <1>3, <1>4, AfterReload

LEMMA AfterCommit ==
    ASSUME NEW b, NEW x, NEW e, NEW cells, NEW to, Script(b, x, e, cells, to)
    PROVE  Committed(b, cells, to) = Target(e)
<1> DEFINE a == Altered(b, cells, Len(cells), to)
           v == [c \in Cell |-> IF \E i \in DOMAIN cells : cells[i] = c THEN to[c]
                                ELSE a.live[c]]
<1>1. DOMAIN cells = 1..Len(cells) /\ Len(cells) \in 0..Len(cells) /\ b \in Box
  BY DEF Script
<1>2. a \in Box /\ a.file = e /\ a.live = b.live
  BY <1>1, PartOfScript
<1>3. Committed(b, cells, to) = [a EXCEPT !.live = v]
  BY DEF Committed
<1>4. v \in [Cell -> Value] /\ v = e
  <2>1. \A c \in Cell : v[c] = e[c]
    BY <1>1, <1>2 DEF Script, Outer
  <2>2. e \in [Cell -> Value]
    BY DEF Script
  <2> QED
    BY <2>1, <2>2
<1> HIDE DEF a, v
<1> QED
  BY <1>2, <1>3, <1>4, BoxUpdate DEF Target

----------------------------------------------------------------------------
(* The order has every selected fix. *)

LEMMA WholeOrder ==
    ASSUME requests \in Seq(Fix), order \in Seq(Fix), order # <<>>, OrderIsSound
    PROVE  Front(order, Len(order)) = Selected
<1> DEFINE N == Len(order)
<1>1. N \in Nat /\ DOMAIN requests = 1..N /\ DOMAIN order = 1..N
  BY DEF OrderIsSound
<1>2. IsFiniteSet(1..N) /\ Cardinality(1..N) = N
  BY <1>1, FS_Interval
<1>3. requests \in Surjection(1..N, Selected)
  <2>1. requests \in [1..N -> Selected]
    BY <1>1 DEF Selected
  <2>2. \A f \in Selected : \E i \in 1..N : requests[i] = f
    BY <1>1 DEF Selected
  <2> QED
    BY <2>1, <2>2 DEF Surjection
<1>4. order \in Injection(1..N, Selected)
  <2>1. order \in [1..N -> Selected]
    BY <1>1 DEF OrderIsSound
  <2>2. \A i, k \in 1..N : order[i] = order[k] => i = k
    BY <1>1 DEF OrderIsSound
  <2> QED
    BY <1>1, <2>1, <2>2 DEF Injection, IsInjective
<1>5. IsFiniteSet(Selected) /\ Cardinality(Selected) <= N
  BY <1>2, <1>3, FS_Surjection
<1>6. N <= Cardinality(Selected) /\ (N = Cardinality(Selected) <=> order \in Surjection(1..N, Selected))
  BY <1>2, <1>4, <1>5, FS_Injection
<1>7. Cardinality(Selected) \in Nat
  BY <1>5, FS_CardinalityType
<1>8. order \in Surjection(1..N, Selected)
  BY <1>1, <1>5, <1>6, <1>7
<1>9. \A f \in Selected : \E i \in 1..N : order[i] = f
  BY <1>8 DEF Surjection
<1>10. \A i \in 1..N : order[i] \in Selected
  BY <1>1 DEF OrderIsSound
<1> QED
  BY <1>9, <1>10 DEF Front

----------------------------------------------------------------------------
(* What each property of the invariant reads: a step that leaves it alone  *)
(* keeps it.                                                               *)

LEMMA OrderKept ==
    ASSUME OrderIsSound, order' = order, requests' = requests
    PROVE  OrderIsSound'
BY DEF OrderIsSound, Selected, Front, SettingConflict

LEMMA StepsKept ==
    ASSUME StepsAreTested, order' = order, steps' = steps
    PROVE  StepsAreTested'
BY SameOrder DEF StepsAreTested

LEMMA PendingKept ==
    ASSUME PendingIsTested, order' = order, steps' = steps, pending' = pending,
           applied' = applied,
           pc' \in {"sql", "activate", "gate"} => pc \in {"sql", "activate", "gate"}
    PROVE  PendingIsTested'
BY SameOrder DEF PendingIsTested, HasPrior, Current

LEMMA ExportKept ==
    ASSUME ExportIsTested, order' = order, export' = export, requests' = requests
    PROVE  ExportIsTested'
BY SameOrder DEF ExportIsTested

LEMMA SinglesKept ==
    ASSUME SinglesPassed, single' = single, history' = history, order' = order,
           requests' = requests,
           pc' \in {"validate", "single"} => pc \in {"validate", "single"},
           pc' = "order" => pc = "order"
    PROVE  SinglesPassed'
BY DEF SinglesPassed, Passed

LEMMA BoxKept ==
    ASSUME BoxIsNear, order' = order, steps' = steps, box' = box, undo' = undo,
           applied' = applied, pending' = pending,
           pc' = pc \/ (pc \in Early /\ pc' \in Early)
             \/ pc' \in {"close", "export", "deliver", "done"}
    PROVE  BoxIsNear'
BY SameOrder DEF BoxIsNear, Around, HasPrior, Early

----------------------------------------------------------------------------
(* The start and the end of a batch. *)

LEMMA Initial == Init => IInv
<1> SUFFICES ASSUME Init PROVE IInv
  OBVIOUS
<1>1. requests \in Seq(Fix) /\ Len(requests) \in 2..MaxBatch
  <2>1. PICK n \in 2..MaxBatch : requests \in [1..n -> Fix]
    BY DEF Init
  <2> QED
    BY <2>1, BatchAssumption
<1>2. Source \in Box
  BY DEF Source, Box, Value
<1>3. TypeOK
  <2>1. order = <<>> /\ steps = <<>> /\ rolled = <<>> /\ export = <<>>
    BY DEF Init
  <2>2. /\ order \in Seq(Fix) /\ Len(order) = 0 /\ Len(steps) = 0
        /\ steps \in Seq([fix: Fix, before: Box, after: Box])
        /\ rolled \in Seq([fix: Fix, verified: BOOLEAN])
        /\ export \in Seq([fix: Fix, prior: Box, applied: Box])
    BY <2>1
  <2>3. single \in [Fix -> Single]
    BY DEF Init, Single
  <2>4. box \in Box /\ container \in BOOLEAN /\ recorded \in BOOLEAN
    BY <1>2 DEF Init
  <2>5. applied \in 0..Len(order) /\ undo \in 0..applied /\ Len(steps) <= applied
    BY <2>2 DEF Init
  <2>6. /\ pending \subseteq [fix: Fix, prior: Box] /\ history \subseteq Fix
        /\ pc \in Step /\ status \in Status
        /\ answer \in {"none", "refused", "individual"} \cup Status
    BY DEF Init, Status, Step
  <2> QED
    BY <1>1, <2>2, <2>3, <2>4, <2>5, <2>6 DEF TypeOK
<1>4. single = [f \in Fix |-> "none"] /\ \A i \in DOMAIN requests : requests[i] \in Fix
  BY <1>1 DEF Init
<1>5. SinglesPassed
  BY <1>4 DEF Init, SinglesPassed
<1>6. BoxIsNear
  BY NoneInEffect DEF Init, BoxIsNear, Early
<1> QED
  BY <1>3, <1>5, <1>6 DEF Init, IInv, Places, OrderIsSound, StepsAreTested,
     PendingIsTested, VerifiedSoFar, FailedForAReason, Exported, ExportIsTested,
     NoLeftovers, Early, Applying, Undo, Late

LEMMA ValidateKeeps == IInv /\ Validate => IInv'
<1> SUFFICES ASSUME IInv, Validate PROVE IInv'
  OBVIOUS
<1> USE DEF IInv
<1>1. TypeOK'
  BY DEF Validate, Refused, TypeOK, combined, Step
<1>2. Places'
  BY DEF Validate, Refused, Places, combined, Early, Applying, Undo
<1>3. OrderIsSound' /\ StepsAreTested' /\ ExportIsTested' /\ SinglesPassed'
  BY OrderKept, StepsKept, ExportKept, SinglesKept DEF Validate, Refused, combined
<1>4. PendingIsTested' /\ BoxIsNear'
  BY PendingKept, BoxKept DEF Validate, Refused, combined, Early
<1>5. VerifiedSoFar' /\ FailedForAReason' /\ Exported' /\ NoLeftovers'
  BY DEF Validate, Refused, combined, Places, Early, Applying, Undo, Late,
         VerifiedSoFar, FailedForAReason, Exported, NoLeftovers
<1> QED
  BY <1>1, <1>2, <1>3, <1>4, <1>5

\* An individual run that passed is recorded with it.
LEMMA RunSingleKeeps == IInv /\ RunSingle => IInv'
<1> SUFFICES ASSUME IInv, RunSingle PROVE IInv'
  OBVIOUS
<1> USE DEF IInv
<1>1. PICK i \in Unrun :
        LET f == requests[i] IN
        \/ \E s \in Single \ {"none"} :
              /\ single' = [single EXCEPT ![f] = s]
              /\ history' = history \cup {f}
              /\ IF s # "VERIFIED" THEN pc' = "done" /\ answer' = "individual"
                 ELSE /\ pc' = IF Unrun = {i} THEN "order" ELSE "single"
                      /\ UNCHANGED answer
        \/ \E s \in {"none", "VERIFIED"} :
              /\ single' = [single EXCEPT ![f] = s]
              /\ UNCHANGED history
              /\ Refused
  BY DEF RunSingle
<1>2. /\ pc = "single" /\ pc' \in {"single", "order", "done"}
      /\ UNCHANGED <<requests, order, combined, export, recorded>>
  BY <1>1 DEF RunSingle, Refused
<1>3. /\ requests \in Seq(Fix) /\ i \in DOMAIN requests /\ requests[i] \in Fix
      /\ single \in [Fix -> Single] /\ order = <<>>
      /\ \A k \in DOMAIN requests : requests[k] \in Fix
  BY <1>2 DEF Unrun, TypeOK, Places, Early
<1>4. TypeOK'
  <2>1. single' \in [Fix -> Single]
    BY <1>1, <1>3 DEF Single
  <2>2. history' \subseteq Fix
    BY <1>1, <1>3 DEF TypeOK
  <2>3. pc' \in Step /\ answer' \in {"none", "refused", "individual"} \cup Status
    BY <1>1, <1>2 DEF TypeOK, Refused, Step
  <2> QED
    BY <1>2, <2>1, <2>2, <2>3 DEF TypeOK, combined
<1>5. SinglesPassed'
  <2>1. CASE pc' = "done"
    BY <1>2, <1>3, <2>1 DEF SinglesPassed
  <2>2. CASE pc' # "done"
    <3>1. /\ single' = [single EXCEPT ![requests[i]] = "VERIFIED"]
          /\ history' = history \cup {requests[i]}
          /\ pc' = IF Unrun = {i} THEN "order" ELSE "single"
      BY <1>1, <2>2 DEF Refused
    <3>2. \A k \in DOMAIN requests : single'[requests[k]] # "none" => Passed(requests[k])'
      BY <1>2, <1>3, <3>1 DEF SinglesPassed, Passed
    <3>3. Unrun = {i} => \A k \in DOMAIN requests : single'[requests[k]] # "none"
      BY <1>3, <3>1 DEF Unrun
    <3> QED
      BY <1>2, <1>3, <3>1, <3>2, <3>3 DEF SinglesPassed
  <2> QED
    BY <2>1, <2>2
<1>6. Places'
  BY <1>2, <1>3 DEF Places, combined, Early, Applying, Undo
<1>7. OrderIsSound' /\ StepsAreTested' /\ ExportIsTested'
  BY <1>2, OrderKept, StepsKept, ExportKept DEF combined
<1>8. PendingIsTested' /\ BoxIsNear'
  BY <1>2, PendingKept, BoxKept DEF combined, Early
<1>9. VerifiedSoFar' /\ FailedForAReason' /\ Exported' /\ NoLeftovers'
  BY <1>2 DEF combined, Places, Early, Applying, Undo, Late,
         VerifiedSoFar, FailedForAReason, Exported, NoLeftovers
<1> QED
  BY <1>4, <1>5, <1>6, <1>7, <1>8, <1>9

\* Every allowed order is the selected fixes once, prerequisites first.
LEMMA ChooseOrderKeeps == IInv /\ ChooseOrder => IInv'
<1> SUFFICES ASSUME IInv, ChooseOrder PROVE IInv'
  OBVIOUS
<1> USE DEF IInv
<1>1. /\ pc = "order" /\ order = <<>> /\ requests \in Seq(Fix) /\ Len(requests) \in 2..MaxBatch
      /\ UNCHANGED <<requests, single, history, combined, export, recorded>>
  BY DEF ChooseOrder, TypeOK, Places, Early
<1>2. /\ applied = 0 /\ undo = 0 /\ steps = <<>> /\ rolled = <<>> /\ status = "FAILED"
      /\ ~container /\ export = <<>> /\ box = Source
  <2>1. Len(steps) = 0 /\ applied = 0
    BY <1>1 DEF TypeOK, Places, Early
  <2>2. steps = <<>>
    BY <2>1 DEF TypeOK
  <2>3. export = <<>>
    BY <1>1 DEF Exported
  <2> QED
    BY <1>1, <2>1, <2>2, <2>3, NoneInEffect DEF Places, BoxIsNear, Early
<1>3. pending = {}
  BY <1>2 DEF PendingIsTested
<1>4. CASE Refused /\ UNCHANGED order
  <2>1. TypeOK'
    BY <1>1, <1>4 DEF Refused, TypeOK, combined, Step
  <2>2. OrderIsSound' /\ StepsAreTested' /\ ExportIsTested' /\ SinglesPassed'
    BY <1>1, <1>4, OrderKept, StepsKept, ExportKept, SinglesKept DEF Refused, combined
  <2>3. PendingIsTested' /\ BoxIsNear'
    BY <1>1, <1>4, PendingKept, BoxKept DEF Refused, combined
  <2>4. Places' /\ VerifiedSoFar' /\ FailedForAReason' /\ Exported' /\ NoLeftovers'
    BY <1>1, <1>2, <1>4 DEF Refused, combined, Places, Early, Applying, Undo, Late,
       VerifiedSoFar, FailedForAReason, Exported, NoLeftovers
  <2> QED
    BY <2>1, <2>2, <2>3, <2>4
<1>5. CASE ~SettingConflict /\ pc' = "start" /\ UNCHANGED answer
           /\ \E s \in Orders : Recommended(s) /\ order' \in {s} \cup {r \in Orders : Allowed(r)}
  <2>1. order' \in Orders /\ \A i \in DOMAIN order' : Depends[order'[i]] \subseteq Front(order', i - 1)
    BY <1>5 DEF Recommended, Allowed, Ready
  <2>2. /\ DOMAIN order' = DOMAIN requests /\ DOMAIN requests = 1..Len(requests)
        /\ \A i \in DOMAIN requests : order'[i] \in Selected
        /\ \A i \in DOMAIN order' : \A k \in 1..(i - 1) : order'[k] # order'[i]
    BY <1>1, <2>1 DEF Orders
  <2>3. Selected \subseteq Fix
    BY <1>1 DEF Selected
  <2>4. order' \in Seq(Fix) /\ Len(order') = Len(requests) /\ Len(order') >= 2
    <3>1. order' \in [1..Len(requests) -> Selected]
      BY <2>1, <2>2 DEF Orders
    <3>2. order' \in [1..Len(requests) -> Fix]
      BY <2>3, <3>1
    <3>3. Len(requests) \in Nat /\ Len(requests) >= 2
      BY <1>1, BatchAssumption
    <3> QED
      BY <3>2, <3>3
  <2>5. \A i, k \in DOMAIN order' : order'[i] = order'[k] => i = k
    <3>1. ASSUME NEW i \in DOMAIN order', NEW k \in DOMAIN order', order'[i] = order'[k], i # k
          PROVE  FALSE
      <4>1. i \in Nat /\ k \in Nat /\ i >= 1 /\ k >= 1
        BY <1>1, <2>2
      <4>2. i \in 1..(k - 1) \/ k \in 1..(i - 1)
        BY <3>1, <4>1
      <4> QED
        BY <2>2, <3>1, <4>2
    <3> QED
      BY <3>1
  <2>6. Selected' = Selected /\ (SettingConflict' <=> SettingConflict)
    BY <1>1 DEF Selected, SettingConflict
  <2>7. order' # <<>>
    BY <2>4
  <2>8. OrderIsSound'
    BY <1>1, <1>5, <2>1, <2>2, <2>4, <2>5, <2>6 DEF OrderIsSound
  <2>9. TypeOK'
    BY <1>1, <1>2, <1>5, <2>4 DEF TypeOK, combined, Step
  <2>10. Places'
    BY <1>1, <1>2, <1>5, <2>4, <2>7 DEF Places, combined, Early, Applying, Undo
  <2>11. SinglesPassed'
    BY <1>1, <1>5 DEF SinglesPassed, Passed
  <2>12. StepsAreTested' /\ PendingIsTested'
    BY <1>1, <1>2, <1>3, <1>5 DEF StepsAreTested, PendingIsTested, combined
  <2>13. BoxIsNear'
    <3>1. (Tested(0) = Source)'
      BY NoneInEffect, PTL
    <3> QED
      BY <1>1, <1>2, <1>5, <3>1 DEF BoxIsNear, combined, Early
  <2>14. VerifiedSoFar' /\ FailedForAReason' /\ Exported' /\ ExportIsTested' /\ NoLeftovers'
    BY <1>1, <1>2, <1>5 DEF combined, Undo, Late,
       VerifiedSoFar, FailedForAReason, Exported, ExportIsTested, NoLeftovers
  <2> QED
    BY <2>8, <2>9, <2>10, <2>11, <2>12, <2>13, <2>14
<1> QED
  BY <1>4, <1>5 DEF ChooseOrder

\* What a bundle carries is what its fix was tested with.
LEMMA ExportKeeps == IInv /\ Export => IInv'
<1> SUFFICES ASSUME IInv, Export PROVE IInv'
  OBVIOUS
<1> USE DEF IInv
<1>1. /\ pc = "export" /\ pc' \in {"deliver", "done"}
      /\ UNCHANGED <<requests, single, history, order, combined, recorded>>
      /\ \/ export' = export /\ pc' = "done" /\ answer' = "refused"
         \/ export' = Zipped /\ pc' = "deliver" /\ answer' = answer
  BY DEF Export, Refused
<1>2. /\ status = "VERIFIED" /\ ~container /\ Len(steps) = Len(order)
      /\ steps \in Seq([fix: Fix, before: Box, after: Box]) /\ order \in Seq(Fix)
      /\ order # <<>> /\ Len(order) = Len(requests)
  BY <1>1 DEF Exported, VerifiedSoFar, Late, Places, OrderIsSound, TypeOK
<1>3. Zipped \in Seq([fix: Fix, prior: Box, applied: Box]) /\ Len(Zipped) = Len(requests)
  <2>1. DOMAIN steps = 1..Len(order) /\ Len(order) \in Nat
    BY <1>2
  <2>2. \A i \in 1..Len(order) : order[i] \in Fix /\ steps[i].before \in Box /\ steps[i].after \in Box
    <3>1. ASSUME NEW i \in 1..Len(order) PROVE steps[i] \in [fix: Fix, before: Box, after: Box]
      BY <1>2, Elements
    <3>2. \A i \in 1..Len(order) : order[i] \in Fix
      BY <1>2
    <3> QED
      BY <3>1, <3>2
  <2>3. Zipped \in [1..Len(order) -> [fix: Fix, prior: Box, applied: Box]]
    BY <2>1, <2>2 DEF Zipped
  <2>4. Zipped \in Seq([fix: Fix, prior: Box, applied: Box]) /\ Len(Zipped) = Len(order)
    BY <2>1, <2>3, SequenceOf
  <2> QED
    BY <1>2, <2>4
<1>4. \A i \in DOMAIN Zipped :
        Zipped[i] = [fix |-> order[i], prior |-> Tested(i - 1), applied |-> Tested(i)]
  BY DEF Zipped, StepsAreTested
<1>5. TypeOK'
  BY <1>1, <1>3 DEF TypeOK, combined, Step
<1>6. ExportIsTested'
  BY <1>1, <1>3, <1>4, SameOrder DEF ExportIsTested
<1>7. OrderIsSound' /\ StepsAreTested' /\ SinglesPassed'
  BY <1>1, OrderKept, StepsKept, SinglesKept DEF combined
<1>8. PendingIsTested' /\ BoxIsNear'
  BY <1>1, PendingKept, BoxKept DEF combined
<1>9. Places' /\ VerifiedSoFar' /\ FailedForAReason' /\ Exported' /\ NoLeftovers'
  BY <1>1, <1>2 DEF combined, Places, Early, Applying, Undo, Late,
     VerifiedSoFar, FailedForAReason, Exported, NoLeftovers
<1> QED
  BY <1>5, <1>6, <1>7, <1>8, <1>9

LEMMA DeliverKeeps == IInv /\ Deliver => IInv'
<1> SUFFICES ASSUME IInv, Deliver PROVE IInv'
  OBVIOUS
<1> USE DEF IInv
<1>1. /\ pc = "deliver" /\ pc' = "done"
      /\ UNCHANGED <<requests, single, history, order, combined, export>>
  BY DEF Deliver, Refused
<1>2. TypeOK'
  BY <1>1 DEF Deliver, Refused, TypeOK, combined, Step
<1>3. OrderIsSound' /\ StepsAreTested' /\ ExportIsTested' /\ SinglesPassed'
  BY <1>1, OrderKept, StepsKept, ExportKept, SinglesKept DEF combined
<1>4. PendingIsTested' /\ BoxIsNear'
  BY <1>1, PendingKept, BoxKept DEF combined
<1>5. Places' /\ VerifiedSoFar' /\ FailedForAReason' /\ Exported' /\ NoLeftovers'
  BY <1>1 DEF combined, Places, Early, Applying, Undo, Late,
     VerifiedSoFar, FailedForAReason, Exported, NoLeftovers
<1> QED
  BY <1>2, <1>3, <1>4, <1>5

LEMMA StutterKeeps == IInv /\ UNCHANGED vars => IInv'
<1> SUFFICES ASSUME IInv, UNCHANGED vars PROVE IInv'
  OBVIOUS
<1> USE DEF IInv, vars, combined
<1>1. TypeOK' /\ Places' /\ VerifiedSoFar' /\ FailedForAReason' /\ Exported' /\ NoLeftovers'
  BY DEF TypeOK, Places, VerifiedSoFar, FailedForAReason, Exported, NoLeftovers
<1>2. OrderIsSound' /\ StepsAreTested' /\ ExportIsTested' /\ SinglesPassed'
  BY OrderKept, StepsKept, ExportKept, SinglesKept
<1>3. PendingIsTested' /\ BoxIsNear'
  BY PendingKept, BoxKept
<1> QED
  BY <1>1, <1>2, <1>3

----------------------------------------------------------------------------
(* The steps of the combined test. *)

LEMMA OutsideKept ==
    ASSUME OrderIsSound, ExportIsTested, SinglesPassed, Outside, pc' \notin Early
    PROVE  OrderIsSound' /\ ExportIsTested' /\ SinglesPassed'
BY OrderKept, ExportKept, SinglesKept DEF Outside, Early

LEMMA TypeKept ==
    ASSUME TypeOK, Outside, UNCHANGED <<applied, pending, steps, rolled>>,
           pc' \in Step, box' \in Box, container' \in BOOLEAN, undo' \in 0..applied,
           status' \in Status
    PROVE  TypeOK'
BY DEF TypeOK, Outside

\* A failing step leaves a server the rollback can start from: nothing of the
\* fixes before the current one is changed.
LEMMA FailKeeps ==
    ASSUME IInv, Outside, pc \in Applying, Fail,
           UNCHANGED <<applied, pending, steps, rolled>>,
           container' \in BOOLEAN, box' \in Box,
           applied = Len(steps) => box' = Tested(applied),
           applied # Len(steps) => Outer(box', Cells(order[applied]), InEffect(applied - 1))
    PROVE  IInv'
<1> USE DEF IInv
<1>1. /\ pc' = "rollback" /\ undo' = applied /\ status' = "FAILED" /\ order' = order
      /\ export' = export
  BY DEF Fail, FailAt, Outside
<1>2. /\ order # <<>> /\ rolled = <<>> /\ undo = 0 /\ Len(steps) < Len(order)
      /\ applied \in Nat /\ Len(steps) \in Nat /\ Len(order) \in Nat
  BY DEF Places, Applying, TypeOK
<1>3. TypeOK'
  BY <1>1, <1>2, TypeKept DEF Step, Status
<1>4. OrderIsSound' /\ ExportIsTested' /\ SinglesPassed' /\ StepsAreTested' /\ PendingIsTested'
  BY <1>1, OutsideKept, StepsKept, PendingKept DEF Early
<1>5. BoxIsNear'
  <2>1. CASE applied = Len(steps)
    BY <1>1, <1>2, <2>1, SameOrder DEF BoxIsNear, Early
  <2>2. CASE applied # Len(steps)
    <3>1. pc \in {"sql", "activate", "gate"} /\ applied > Len(steps)
      BY <1>2, <2>2 DEF Places, Applying, Early
    <3>2. Around(undo)'
      BY <1>1, <2>2, SameOrder DEF Around, Outer
    <3>3. Kind[order[applied]] = "catalog" => HasPrior(applied)
      BY <3>1 DEF PendingIsTested, Current
    <3>4. (Kind[order[undo]] = "catalog" => HasPrior(undo))'
      BY <1>1, <3>3 DEF HasPrior
    <3> QED
      BY <1>1, <1>2, <3>1, <3>2, <3>4 DEF BoxIsNear, Early
  <2> QED
    BY <2>1, <2>2
<1>6. Places'
  BY <1>1, <1>2 DEF Places, Early, Applying, Undo, TypeOK
<1>7. VerifiedSoFar' /\ FailedForAReason' /\ Exported' /\ NoLeftovers'
  BY <1>1, <1>2 DEF VerifiedSoFar, FailedForAReason, Exported, NoLeftovers, Late, Undo, Applying
<1> QED
  BY <1>3, <1>4, <1>5, <1>6, <1>7

\* A rollback that fails ends the test, whatever it leaves.
LEMMA StopKeeps ==
    ASSUME IInv, Outside, pc \in Undo, undo > 0,
           UNCHANGED <<undo, applied, pending, steps, container>>,
           pc' = "close", status' = "FAILED", box' \in Box,
           rolled' \in Seq([fix: Fix, verified: BOOLEAN])
    PROVE  IInv'
<1> USE DEF IInv
<1>1. order' = order /\ export' = export
  BY DEF Outside
<1>2. order # <<>> /\ undo \in 0..applied /\ undo # 0
  BY DEF Places, Undo, TypeOK
<1>3. TypeOK'
  BY DEF TypeOK, Outside, Step, Status
<1>4. OrderIsSound' /\ ExportIsTested' /\ SinglesPassed' /\ StepsAreTested' /\ PendingIsTested'
  BY <1>1, OutsideKept, StepsKept, PendingKept DEF Early
<1>5. BoxIsNear'
  BY <1>1 DEF BoxIsNear, Early
<1>6. Places'
  BY <1>1, <1>2 DEF Places, Early, Applying, Undo
<1>7. VerifiedSoFar' /\ FailedForAReason' /\ Exported' /\ NoLeftovers'
  BY <1>1, <1>2 DEF VerifiedSoFar, FailedForAReason, Exported, NoLeftovers, Late, Undo
<1> QED
  BY <1>3, <1>4, <1>5, <1>6, <1>7

LEMMA StartKeeps == IInv /\ Start => IInv'
<1> SUFFICES ASSUME IInv, Start PROVE IInv'
  OBVIOUS
<1> USE DEF IInv
<1>1. /\ pc = "start" /\ Outside /\ UNCHANGED <<box, applied, pending, steps, rolled>>
      /\ applied = Len(steps) /\ box = Tested(applied) /\ box \in Box
      /\ applied \in Nat /\ order # <<>>
  BY DEF Start, Places, BoxIsNear, Early, TypeOK
<1>2. CASE container' \in BOOLEAN /\ Fail
  BY <1>1, <1>2, FailKeeps DEF Applying
<1>3. CASE container' = TRUE /\ pc' = "reproduce" /\ UNCHANGED <<undo, status>>
  <2>1. TypeOK'
    BY <1>1, <1>3, TypeKept DEF Step, TypeOK
  <2>2. OrderIsSound' /\ ExportIsTested' /\ SinglesPassed' /\ StepsAreTested' /\ PendingIsTested'
    BY <1>1, <1>3, OutsideKept, StepsKept, PendingKept DEF Early, Outside
  <2>3. BoxIsNear'
    BY <1>1, <1>3, SameOrder DEF BoxIsNear, Early, Outside
  <2>4. Places'
    BY <1>1, <1>3 DEF Places, Early, Applying, Undo, Outside
  <2>5. VerifiedSoFar' /\ FailedForAReason' /\ Exported' /\ NoLeftovers'
    BY <1>1, <1>3 DEF VerifiedSoFar, FailedForAReason, Exported, NoLeftovers, Late, Undo,
       Outside, Places, Applying
  <2> QED
    BY <2>1, <2>2, <2>3, <2>4, <2>5
<1> QED
  BY <1>2, <1>3 DEF Start

LEMMA ReproduceKeeps == IInv /\ Reproduce => IInv'
<1> SUFFICES ASSUME IInv, Reproduce PROVE IInv'
  OBVIOUS
<1> USE DEF IInv
<1>1. /\ pc = "reproduce" /\ Outside
      /\ UNCHANGED <<box, container, applied, pending, steps, rolled>>
      /\ applied = Len(steps) /\ box = Tested(applied) /\ box \in Box
      /\ container \in BOOLEAN /\ applied \in Nat /\ order # <<>>
  BY DEF Reproduce, Places, BoxIsNear, Early, TypeOK
<1>2. CASE Fail
  BY <1>1, <1>2, FailKeeps DEF Applying
<1>3. CASE pc' = "apply" /\ UNCHANGED <<undo, status>>
  <2>1. TypeOK'
    BY <1>1, <1>3, TypeKept DEF Step, TypeOK
  <2>2. OrderIsSound' /\ ExportIsTested' /\ SinglesPassed' /\ StepsAreTested' /\ PendingIsTested'
    BY <1>1, <1>3, OutsideKept, StepsKept, PendingKept DEF Early, Outside
  <2>3. BoxIsNear'
    BY <1>1, <1>3, SameOrder DEF BoxIsNear, Early, Outside
  <2>4. Places'
    BY <1>1, <1>3 DEF Places, Early, Applying, Undo, Outside
  <2>5. VerifiedSoFar' /\ FailedForAReason' /\ Exported' /\ NoLeftovers'
    BY <1>1, <1>3 DEF VerifiedSoFar, FailedForAReason, Exported, NoLeftovers, Late, Undo,
       Outside, Places, Applying
  <2> QED
    BY <2>1, <2>2, <2>3, <2>4, <2>5
<1> QED
  BY <1>2, <1>3 DEF Reproduce

LEMMA PreviousTested ==
    ASSUME StepsAreTested, steps \in Seq([fix: Fix, before: Box, after: Box])
    PROVE  Previous = Tested(Len(steps))
<1>1. CASE steps = <<>>
  BY <1>1, NoneInEffect DEF Previous
<1>2. CASE steps # <<>>
  BY <1>2 DEF Previous, StepsAreTested
<1> QED
  BY <1>1, <1>2

\* What is kept for the rollback of a catalog fix is the state before it.
LEMMA MarkKeeps == IInv /\ Mark => IInv'
<1> SUFFICES ASSUME IInv, Mark PROVE IInv'
  OBVIOUS
<1> USE DEF IInv
<1> DEFINE n == applied + 1
<1>1. /\ pc = "apply" /\ Outside /\ UNCHANGED <<box, container, steps, rolled>>
      /\ applied' = n /\ order' = order /\ export' = export
  BY DEF Mark, Outside
<1>2. /\ order # <<>> /\ order \in Seq(Fix) /\ applied = Len(steps) /\ applied < Len(order)
      /\ applied \in Nat /\ Len(order) \in Nat /\ box = Tested(applied)
      /\ undo = 0 /\ rolled = <<>> /\ status = "FAILED"
  BY <1>1 DEF Places, BoxIsNear, Early, Applying, TypeOK
<1>3. n \in 1..Len(order) /\ order[n] \in Fix /\ n - 1 = applied
  BY <1>2
<1>4. Previous = Tested(applied) /\ Previous \in Box
  BY <1>2, PreviousTested, ValueType DEF TypeOK
<1>5. \/ /\ Kind[order[n]] = "catalog"
         /\ pending' = pending \cup {[fix |-> order[n], prior |-> Previous]}
         /\ pc' = "sql" /\ UNCHANGED <<undo, status>>
      \/ /\ Kind[order[n]] = "catalog"
         /\ pc' = "rollback" /\ undo' = n /\ status' = "FAILED" /\ pending' = pending
      \/ /\ Kind[order[n]] # "catalog"
         /\ pc' = "sql" /\ UNCHANGED <<pending, undo, status>>
  BY DEF Mark, FailAt
<1>6. /\ pc' \in {"sql", "rollback"} /\ undo' \in {0, n} /\ status' = "FAILED"
      /\ pending' \subseteq [fix: Fix, prior: Box]
  <2>1. pending \subseteq [fix: Fix, prior: Box]
    BY DEF TypeOK
  <2>2. [fix |-> order[n], prior |-> Previous] \in [fix: Fix, prior: Box]
    BY <1>3, <1>4
  <2> QED
    BY <1>2, <1>5, <2>1, <2>2
<1>7. TypeOK'
  <2>1. applied' \in 0..Len(order') /\ undo' \in 0..applied' /\ Len(steps') <= applied'
    BY <1>1, <1>2, <1>6
  <2>2. pc' \in Step /\ status' \in Status
    BY <1>6 DEF Step, Status
  <2> QED
    BY <1>1, <1>6, <2>1, <2>2 DEF TypeOK, Outside
<1>8. OrderIsSound' /\ ExportIsTested' /\ SinglesPassed' /\ StepsAreTested'
  BY <1>1, <1>6, OutsideKept, StepsKept DEF Early
<1>9. PendingIsTested'
  <2>1. \A p \in pending : \E i \in 1..n : p.fix = order[i] /\ p.prior = Tested(i - 1)
    BY <1>2 DEF PendingIsTested
  <2>2. \A p \in pending' : \E i \in 1..n : p.fix = order[i] /\ p.prior = Tested(i - 1)
    BY <1>3, <1>4, <1>5, <2>1
  <2>3. \A i \in DOMAIN steps : Kind[order[i]] = "catalog" => \E p \in pending' : p.fix = order[i]
    BY <1>5 DEF PendingIsTested, HasPrior
  <2>4. pc' = "sql" /\ Kind[order[n]] = "catalog" => \E p \in pending' : p.fix = order[n]
    <3>1. SUFFICES ASSUME pc' = "sql", Kind[order[n]] = "catalog"
                   PROVE  \E p \in pending' : p.fix = order[n]
      OBVIOUS
    <3>2. [fix |-> order[n], prior |-> Previous] \in pending'
      BY <1>5, <3>1
    <3>3. [fix |-> order[n], prior |-> Previous].fix = order[n]
      OBVIOUS
    <3> QED
      BY <3>2, <3>3
  <2>5. \A p \in pending' : \E i \in 1..applied' :
            p.fix = order'[i] /\ p.prior = Tested(i - 1)'
    BY <1>1, <2>2, SameOrder
  <2>6. \A i \in DOMAIN steps' : Kind[order'[i]] = "catalog" => HasPrior(i)'
    BY <1>1, <2>3 DEF HasPrior
  <2>7. pc' = "sql" /\ Kind[Current'] = "catalog" => HasPrior(applied)'
    BY <1>1, <2>4 DEF HasPrior, Current
  <2> QED
    BY <1>6, <2>5, <2>6, <2>7 DEF PendingIsTested
<1>10. BoxIsNear'
  <2>1. CASE pc' = "sql"
    BY <1>1, <1>2, <2>1, SameOrder DEF BoxIsNear, Early
  <2>2. CASE pc' = "rollback"
    <3>1. undo' = n
      BY <1>5, <2>2
    <3>2. \A c \in Cell : box'.file[c] = InEffect(n - 1)[c] /\ box'.live[c] = InEffect(n - 1)[c]
      BY <1>1, <1>2, <1>3 DEF Tested
    <3>3. Around(undo)'
      BY <1>1, <3>1, <3>2, SameOrder DEF Around
    <3>4. (box = Tested(undo - 1))' /\ ~(undo' <= Len(steps'))
      BY <1>1, <1>2, <1>3, <3>1, SameOrder
    <3> QED
      BY <1>1, <2>2, <3>3, <3>4 DEF BoxIsNear, Early
  <2> QED
    BY <1>6, <2>1, <2>2
<1>11. Places'
  BY <1>1, <1>2, <1>5 DEF Places, Early, Applying, Undo
<1>12. VerifiedSoFar' /\ FailedForAReason' /\ Exported' /\ NoLeftovers'
  BY <1>1, <1>2, <1>6 DEF VerifiedSoFar, FailedForAReason, Exported, NoLeftovers, Late, Undo
<1> QED
  BY <1>7, <1>8, <1>9, <1>10, <1>11, <1>12

\* The script of a fix leads from the fixes before it to the fixes up to it.
LEMMA ForwardScript ==
    ASSUME IInv, pc = "sql"
    PROVE  /\ Script(box, Cells(Current), InEffect(applied), Changes[Current],
                     [c \in Cell |-> New(Current, c)])
           /\ applied \in 1..Len(order) /\ applied = Len(steps) + 1
<1> USE DEF IInv
<1>1. /\ order # <<>> /\ order \in Seq(Fix) /\ applied = Len(steps) + 1
      /\ applied \in Nat /\ applied <= Len(order) /\ Len(steps) \in Nat
      /\ box = Tested(applied - 1) /\ box \in Box
  BY DEF Places, Applying, BoxIsNear, Early, TypeOK
<1>2. applied \in 1..Len(order) /\ Current \in Fix
  BY <1>1 DEF Current
<1>3. InEffect(applied) \in [Cell -> Value]
  BY <1>1, ValueType
<1>4. \A c \in Cells(Current) : New(Current, c) = InEffect(applied)[c]
  BY <1>1, NewValue DEF TypeOK
<1>5. Cells(Current) \subseteq Cell /\ Changes[Current] \in Seq(Cell)
  BY <1>2, FixData
<1>6. [c \in Cell |-> New(Current, c)] \in [Cell -> Value]
  <2>1. Previous \in Box
    BY <1>1, PreviousTested, ValueType DEF TypeOK
  <2>2. Previous.file \in [Cell -> Value]
    BY <2>1, BoxFields
  <2>3. \A c \in Cell : New(Current, c) \in Value
    BY <1>2, <2>2 DEF New, Value
  <2> QED
    BY <2>3
<1>7. \A c : (\E i \in 1..Len(Changes[Current]) : Changes[Current][i] = c) <=> c \in Cells(Current)
  BY <1>2, FixData
<1>8. Outer(box, Cells(Current), InEffect(applied))
  <2>1. \A c \in Cell \ Cells(Current) : InEffect(applied)[c] = InEffect(applied - 1)[c]
    BY <1>1, <1>2, OneMore DEF Current
  <2> QED
    BY <1>1, <2>1 DEF Outer, Tested
<1>9. \A c \in Cells(Current) : [d \in Cell |-> New(Current, d)][c] = InEffect(applied)[c]
  BY <1>4, <1>5
<1> QED
  BY <1>1, <1>2, <1>3, <1>5, <1>6, <1>7, <1>8, <1>9 DEF Script

\* But for the cells of a fix, before it is the same as after it.
LEMMA OuterBefore ==
    ASSUME order \in Seq(Fix), NEW n \in 1..Len(order), NEW b
    PROVE  Outer(b, Cells(order[n]), InEffect(n)) <=> Outer(b, Cells(order[n]), InEffect(n - 1))
BY OneMore DEF Outer

LEMMA SqlKeeps == IInv /\ Sql => IInv'
<1> SUFFICES ASSUME IInv, Sql PROVE IInv'
  OBVIOUS
<1> USE DEF IInv
<1> DEFINE cells == Changes[Current]
           to == [c \in Cell |-> New(Current, c)]
           x == Cells(Current)
           e == InEffect(applied)
<1>1. /\ pc = "sql" /\ Outside /\ UNCHANGED <<container, applied, pending, steps, rolled>>
      /\ \/ box' = Committed(box, cells, to) /\ pc' = "gate" /\ UNCHANGED <<undo, status>>
         \/ box' \in {box, Committed(box, cells, to)} /\ Fail
         \/ box' = Ran(box, cells, to) /\ pc' = "activate" /\ UNCHANGED <<undo, status>>
         \/ box' \in Broken(box, cells, to) /\ Fail
  BY DEF Sql
<1>2. /\ Script(box, x, e, cells, to) /\ applied \in 1..Len(order)
      /\ applied = Len(steps) + 1 /\ order \in Seq(Fix) /\ Len(steps) \in Nat
      /\ order' = order /\ export' = export
  BY <1>1, ForwardScript DEF TypeOK, Outside
<1>3. Tested(applied) = Target(e) /\ Tested(applied) \in Box /\ Outer(Target(e), x, e)
  BY <1>2, ValueType DEF Tested, Target, Outer
<1>4. box \in Box /\ Outer(box, x, e)
  BY <1>2 DEF Script
<1>5. Committed(box, cells, to) = Tested(applied)
  BY <1>2, <1>3, AfterCommit
<1>6. CASE Fail
  <2>1. box' \in {box, Tested(applied)} \/ box' \in Broken(box, cells, to)
    BY <1>1, <1>5, <1>6 DEF Fail, FailAt
  <2>2. box' \in Box /\ Outer(box', x, e)
    BY <1>2, <1>3, <1>4, <2>1, AfterBreak
  <2>3. Outer(box', Cells(order[applied]), InEffect(applied - 1))
    BY <1>2, <2>2, OuterBefore DEF Current
  <2>4. container' \in BOOLEAN
    BY <1>1 DEF TypeOK
  <2> QED
    BY <1>1, <1>2, <1>6, <2>2, <2>3, <2>4, FailKeeps DEF Applying
<1>7. ASSUME UNCHANGED <<undo, status>>, pc' \in {"activate", "gate"},
             pc' = "gate" => box' = Tested(applied),
             pc' = "activate" => box' = Ran(box, cells, to)
      PROVE  IInv'
  <2>1. box' \in Box /\ (pc' = "activate" => box'.file = e /\ Outer(box', x, e))
    BY <1>2, <1>3, <1>7, AfterRun
  <2>2. TypeOK'
    BY <1>1, <1>7, <2>1, TypeKept DEF Step, TypeOK
  <2>3. OrderIsSound' /\ ExportIsTested' /\ SinglesPassed' /\ StepsAreTested' /\ PendingIsTested'
    BY <1>1, <1>2, <1>7, OutsideKept, StepsKept, PendingKept DEF Early
  <2>4. BoxIsNear'
    <3>1. pc' = "activate" => Outer(box', Cells(order[applied]), InEffect(applied - 1))
      BY <1>2, <2>1, OuterBefore DEF Current
    <3>2. pc' = "activate" => (box.file = InEffect(applied))' /\ Around(applied)'
      BY <1>1, <1>2, <2>1, <3>1, SameOrder DEF Around, Outer
    <3>3. pc' = "gate" => (box = Tested(applied))'
      BY <1>1, <1>2, <1>7, SameOrder
    <3> QED
      BY <1>7, <3>2, <3>3 DEF BoxIsNear, Early
  <2>5. Places'
    BY <1>1, <1>2, <1>7 DEF Places, Early, Applying, Undo
  <2>6. VerifiedSoFar' /\ FailedForAReason' /\ Exported' /\ NoLeftovers'
    BY <1>1, <1>2, <1>7 DEF VerifiedSoFar, FailedForAReason, Exported, NoLeftovers, Late,
       Undo, Places, Applying
  <2> QED
    BY <2>2, <2>3, <2>4, <2>5, <2>6
<1> QED
  BY <1>1, <1>5, <1>6, <1>7

\* The poll leaves the batch with every fix so far in the files and in effect.
LEMMA ActivateKeeps == IInv /\ Activate => IInv'
<1> SUFFICES ASSUME IInv, Activate PROVE IInv'
  OBVIOUS
<1> USE DEF IInv
<1>1. /\ pc = "activate" /\ Outside /\ UNCHANGED <<container, applied, pending, steps, rolled>>
      /\ \/ box' = Restarted(box) /\ pc' = "gate" /\ UNCHANGED <<undo, status>>
         \/ box' \in {box, Reloaded(box), Restarted(box)} /\ Fail
  BY DEF Activate, Activated, Inactive
<1>2. /\ order # <<>> /\ order \in Seq(Fix) /\ applied = Len(steps) + 1
      /\ applied \in 1..Len(order) /\ Len(steps) \in Nat
      /\ order' = order /\ export' = export
      /\ box \in Box /\ box.file = InEffect(applied)
      /\ Outer(box, Cells(order[applied]), InEffect(applied - 1))
  BY <1>1 DEF Places, Applying, BoxIsNear, Around, Outer, Early, TypeOK, Outside
<1>3. Restarted(box) = Tested(applied) /\ Restarted(box) \in Box
  BY <1>2, AfterRestart DEF Tested, Target
<1>4. CASE box' \in {box, Reloaded(box), Restarted(box)} /\ Fail
  <2>1. Outer(Restarted(box), Cells(order[applied]), InEffect(applied - 1))
    BY <1>2, <1>3, OneMore DEF Outer, Tested
  <2>2. box' \in Box /\ Outer(box', Cells(order[applied]), InEffect(applied - 1))
    BY <1>2, <1>3, <1>4, <2>1, AfterReload
  <2>3. container' \in BOOLEAN
    BY <1>1 DEF TypeOK
  <2> QED
    BY <1>1, <1>2, <1>4, <2>2, <2>3, FailKeeps DEF Applying
<1>5. CASE box' = Restarted(box) /\ pc' = "gate" /\ UNCHANGED <<undo, status>>
  <2>1. TypeOK'
    BY <1>1, <1>3, <1>5, TypeKept DEF Step, TypeOK
  <2>2. OrderIsSound' /\ ExportIsTested' /\ SinglesPassed' /\ StepsAreTested' /\ PendingIsTested'
    BY <1>1, <1>2, <1>5, OutsideKept, StepsKept, PendingKept DEF Early
  <2>3. BoxIsNear'
    BY <1>1, <1>2, <1>3, <1>5, SameOrder DEF BoxIsNear, Early
  <2>4. Places'
    BY <1>1, <1>2, <1>5 DEF Places, Early, Applying, Undo
  <2>5. VerifiedSoFar' /\ FailedForAReason' /\ Exported' /\ NoLeftovers'
    BY <1>1, <1>2, <1>5 DEF VerifiedSoFar, FailedForAReason, Exported, NoLeftovers, Late,
       Undo, Places, Applying
  <2> QED
    BY <2>1, <2>2, <2>3, <2>4, <2>5
<1> QED
  BY <1>1, <1>4, <1>5

\* The recorded step is the state before and after the fix.
LEMMA GateKeeps == IInv /\ Gate => IInv'
<1> SUFFICES ASSUME IInv, Gate PROVE IInv'
  OBVIOUS
<1> USE DEF IInv
<1> DEFINE step == [fix |-> Current, before |-> Previous, after |-> box]
<1>1. /\ pc = "gate" /\ Outside /\ UNCHANGED <<box, container, applied, pending, rolled>>
      /\ \/ Fail /\ steps' = steps
         \/ /\ steps' = Append(steps, step)
            /\ IF applied = Len(order)
               THEN status' = "VERIFIED" /\ pc' = "rollback" /\ undo' = applied
               ELSE pc' = "apply" /\ UNCHANGED <<status, undo>>
  BY DEF Gate
<1>2. /\ order # <<>> /\ order \in Seq(Fix) /\ applied = Len(steps) + 1
      /\ applied \in 1..Len(order) /\ Len(steps) \in Nat /\ Len(order) \in Nat
      /\ steps \in Seq([fix: Fix, before: Box, after: Box])
      /\ order' = order /\ export' = export /\ undo = 0 /\ rolled = <<>>
      /\ box \in Box /\ box = Tested(applied) /\ container \in BOOLEAN
  BY <1>1 DEF Places, Applying, BoxIsNear, Early, TypeOK, Outside
<1>3. CASE Fail /\ steps' = steps
  <2>1. Outer(box, Cells(order[applied]), InEffect(applied - 1))
    BY <1>2, OneMore DEF Outer, Tested
  <2> QED
    BY <1>1, <1>2, <1>3, <2>1, FailKeeps DEF Applying
<1>4. ASSUME steps' = Append(steps, step),
             \/ applied = Len(order) /\ status' = "VERIFIED" /\ pc' = "rollback" /\ undo' = applied
             \/ applied # Len(order) /\ pc' = "apply" /\ status' = status /\ undo' = 0
      PROVE  IInv'
  <2>1. Previous = Tested(applied - 1) /\ Previous \in Box
    BY <1>2, PreviousTested, ValueType
  <2>2. /\ step = [fix |-> order[applied], before |-> Tested(applied - 1),
                   after |-> Tested(applied)]
        /\ step \in [fix: Fix, before: Box, after: Box]
    BY <1>2, <2>1 DEF Current
  <2>3. /\ steps' \in Seq([fix: Fix, before: Box, after: Box])
        /\ Len(steps') = applied /\ DOMAIN steps' = 1..applied /\ DOMAIN steps = 1..(applied - 1)
        /\ \A i \in 1..(applied - 1) : steps'[i] = steps[i]
        /\ steps'[applied] = step
    <3> HIDE DEF step
    <3> QED
      BY <1>2, <1>4, <2>2
  <2> HIDE DEF step
  <2>4. TypeOK'
    <3>1. pc' \in Step /\ status' \in Status /\ undo' \in 0..applied
      BY <1>2, <1>4 DEF Step, Status, TypeOK
    <3> QED
      BY <1>1, <1>2, <2>3, <3>1 DEF TypeOK, Outside
  <2>5. OrderIsSound' /\ ExportIsTested' /\ SinglesPassed'
    BY <1>1, <1>4, OutsideKept DEF Early
  <2>6. StepsAreTested'
    <3>1. \A i \in 1..applied : steps'[i] = [fix |-> order[i], before |-> Tested(i - 1),
                                             after |-> Tested(i)]
      BY <1>2, <2>2, <2>3 DEF StepsAreTested
    <3> QED
      BY <1>2, <2>3, <3>1, SameOrder DEF StepsAreTested
  <2>7. PendingIsTested'
    <3>1. \A i \in 1..applied : Kind[order[i]] = "catalog" => HasPrior(i)
      BY <1>1, <1>2, <2>3 DEF PendingIsTested, Current
    <3>2. \A p \in pending' : \E i \in 1..applied' :
              p.fix = order'[i] /\ p.prior = Tested(i - 1)'
      BY <1>1, <1>2, SameOrder DEF PendingIsTested
    <3>3. \A i \in DOMAIN steps' : Kind[order'[i]] = "catalog" => HasPrior(i)'
      BY <1>1, <1>2, <2>3, <3>1 DEF HasPrior
    <3> QED
      BY <1>4, <3>2, <3>3 DEF PendingIsTested
  <2>8. BoxIsNear'
    <3>1. (box = Tested(applied))'
      BY <1>1, <1>2, SameOrder
    <3>2. CASE pc' = "apply"
      BY <1>1, <2>3, <3>1, <3>2 DEF BoxIsNear, Early
    <3>3. CASE pc' = "rollback" /\ undo' = applied
      BY <1>1, <1>2, <2>3, <3>1, <3>3 DEF BoxIsNear, Early
    <3> QED
      BY <1>4, <3>2, <3>3
  <2>9. Places'
    <3>1. Len(steps') = applied' /\ applied' <= Len(order') /\ applied' \in Nat
      BY <1>1, <1>2, <2>3
    <3>2. status = "FAILED"
      BY <1>1 DEF Places, Applying
    <3>3. CASE applied = Len(order) /\ pc' = "rollback"
      BY <1>1, <1>2, <1>4, <3>1, <3>3 DEF Places, Early, Applying, Undo
    <3>4. CASE applied # Len(order) /\ pc' = "apply" /\ status' = status /\ undo' = 0
      BY <1>1, <1>2, <3>1, <3>2, <3>4 DEF Places, Early, Applying, Undo
    <3> QED
      BY <1>4, <3>3, <3>4
  <2>10. VerifiedSoFar' /\ FailedForAReason' /\ Exported' /\ NoLeftovers'
    <3>1. status = "FAILED" /\ export = <<>>
      BY <1>1 DEF Places, Applying, Exported
    <3>2. export' = <<>> /\ Len(steps') = applied' /\ rolled' = <<>> /\ order' = order
      BY <1>1, <1>2, <2>3, <3>1
    <3>3. Exported' /\ NoLeftovers'
      BY <1>4, <3>2 DEF Exported, NoLeftovers
    <3>4. CASE applied = Len(order) /\ status' = "VERIFIED" /\ pc' = "rollback" /\ undo' = applied
      BY <1>1, <1>2, <3>2, <3>3, <3>4 DEF VerifiedSoFar, FailedForAReason, Late, Undo
    <3>5. CASE pc' = "apply" /\ status' = status
      BY <3>1, <3>3, <3>5 DEF VerifiedSoFar, FailedForAReason, Late, Undo
    <3> QED
      BY <1>4, <3>3, <3>4, <3>5
  <2> QED
    BY <2>4, <2>5, <2>6, <2>7, <2>8, <2>9, <2>10
<1>5. undo' = undo => undo' = 0
  BY <1>2
<1> QED
  BY <1>1, <1>3, <1>4, <1>5

----------------------------------------------------------------------------
(* The rollback. *)

\* The script of a rollback leads back to the fixes before it, from wherever
\* its fix got.
LEMMA BackwardScript ==
    ASSUME IInv, pc = "rollback", undo > 0, Kind[Undoing] = "catalog" => Priors # {}
    PROVE  /\ Script(box, Cells(Undoing), InEffect(undo - 1), Reversed(Changes[Undoing]),
                     [c \in Cell |-> Restores(c)])
           /\ undo \in 1..Len(order)
<1> USE DEF IInv
<1>1. /\ order # <<>> /\ order \in Seq(Fix) /\ undo \in 1..applied
      /\ applied \in 0..Len(order) /\ Len(order) \in Nat /\ Len(steps) \in Nat
      /\ box \in Box /\ pending \subseteq [fix: Fix, prior: Box]
  BY DEF Places, Undo, TypeOK
<1>2. undo \in 1..Len(order) /\ Undoing \in Fix
  BY <1>1 DEF Undoing
<1>3. InEffect(undo - 1) \in [Cell -> Value]
  <2>1. undo - 1 \in Nat /\ undo - 1 <= Len(order)
    BY <1>2
  <2> QED
    BY <1>1, <2>1, ValueType
<1>4. \A c \in Cells(Undoing) : Restores(c) = InEffect(undo - 1)[c]
  BY <1>1, RestoredValue
<1>5. Cells(Undoing) \subseteq Cell
  BY <1>2, FixData
<1>6. [c \in Cell |-> Restores(c)] \in [Cell -> Value]
  <2>1. CASE Kind[Undoing] = "catalog"
    <3>1. (CHOOSE p \in Priors : TRUE) \in Priors
      BY <2>1
    <3>2. PICK p \in Priors : p = (CHOOSE q \in Priors : TRUE)
      BY <3>1
    <3>3. p.prior \in Box
      BY <1>1, <3>2 DEF Priors
    <3>4. p.prior.file \in [Cell -> Value]
      BY <3>3, BoxFields
    <3>5. \A c \in Cell : Restores(c) = p.prior.file[c]
      BY <2>1, <3>2 DEF Restores
    <3> QED
      BY <3>4, <3>5
  <2>2. CASE Kind[Undoing] # "catalog"
    BY <2>2 DEF Restores, Source, Value
  <2> QED
    BY <2>1, <2>2
<1>7. Outer(box, Cells(Undoing), InEffect(undo - 1))
  <2>1. CASE undo <= Len(steps)
    <3>1. box = Tested(undo)
      BY <2>1 DEF BoxIsNear
    <3> QED
      BY <1>1, <1>2, <3>1, OneMore DEF Outer, Tested, Undoing
  <2>2. CASE undo > Len(steps)
    <3>1. Around(undo)
      BY <2>2 DEF BoxIsNear
    <3> QED
      BY <3>1 DEF Around, Outer, Undoing
  <2> QED
    BY <1>1, <2>1, <2>2
<1>8. /\ Reversed(Changes[Undoing]) \in Seq(Cell)
      /\ \A c : (\E i \in 1..Len(Reversed(Changes[Undoing])) : Reversed(Changes[Undoing])[i] = c)
                    <=> c \in Cells(Undoing)
  BY <1>2, ReversedCells
<1>9. \A c \in Cells(Undoing) : [d \in Cell |-> Restores(d)][c] = InEffect(undo - 1)[c]
  BY <1>4, <1>5
<1> QED
  BY <1>1, <1>2, <1>3, <1>6, <1>7, <1>8, <1>9 DEF Script

LEMMA RollbackKeeps == IInv /\ Rollback => IInv'
<1> SUFFICES ASSUME IInv, Rollback PROVE IInv'
  OBVIOUS
<1> USE DEF IInv
<1> DEFINE cells == Reversed(Changes[Undoing])
           to == [c \in Cell |-> Restores(c)]
           x == Cells(Undoing)
           e == InEffect(undo - 1)
<1>1. /\ pc = "rollback" /\ undo > 0 /\ (Kind[Undoing] = "catalog" => Priors # {})
      /\ Outside /\ UNCHANGED <<container, applied, pending, steps>>
      /\ \/ box' = Committed(box, cells, to) /\ pc' = "check" /\ UNCHANGED <<undo, rolled, status>>
         \/ box' \in {box, Committed(box, cells, to)} /\ RollbackFails
         \/ box' = Ran(box, cells, to) /\ pc' = "reactivate" /\ UNCHANGED <<undo, rolled, status>>
         \/ box' \in Broken(box, cells, to) /\ RollbackFails
  BY DEF Rollback
<1>2. /\ Script(box, x, e, cells, to) /\ undo \in 1..Len(order)
      /\ order \in Seq(Fix) /\ order' = order /\ export' = export /\ box \in Box
      /\ order # <<>> /\ rolled \in Seq([fix: Fix, verified: BOOLEAN])
  BY <1>1, BackwardScript DEF TypeOK, Outside, Places, Undo
<1>3. Tested(undo - 1) = Target(e) /\ Tested(undo - 1) \in Box
  <2>1. undo - 1 \in Nat /\ undo - 1 <= Len(order)
    BY <1>2
  <2> QED
    BY <1>2, <2>1, ValueType DEF Tested, Target
<1>4. Committed(box, cells, to) = Tested(undo - 1)
  BY <1>2, <1>3, AfterCommit
<1>5. CASE RollbackFails
  <2>1. box' \in {box, Tested(undo - 1)} \/ box' \in Broken(box, cells, to)
    BY <1>1, <1>4, <1>5 DEF RollbackFails
  <2>2. box' \in Box
    BY <1>2, <1>3, <2>1, AfterBreak
  <2>3. /\ pc' = "close" /\ status' = "FAILED" /\ undo' = undo
        /\ rolled' \in Seq([fix: Fix, verified: BOOLEAN])
    BY <1>2, <1>5 DEF RollbackFails
  <2> QED
    BY <1>1, <2>2, <2>3, StopKeeps DEF Undo
<1>6. ASSUME UNCHANGED <<undo, rolled, status>>, pc' \in {"reactivate", "check"},
             pc' = "check" => box' = Tested(undo - 1),
             pc' = "reactivate" => box' = Ran(box, cells, to)
      PROVE  IInv'
  <2>1. box' \in Box /\ (pc' = "reactivate" => box'.file = e /\ Outer(box', x, e))
    BY <1>2, <1>3, <1>6, AfterRun
  <2>2. TypeOK'
    BY <1>1, <1>6, <2>1, TypeKept DEF Step, TypeOK
  <2>3. OrderIsSound' /\ ExportIsTested' /\ SinglesPassed' /\ StepsAreTested' /\ PendingIsTested'
    BY <1>1, <1>2, <1>6, OutsideKept, StepsKept, PendingKept DEF Early
  <2>4. BoxIsNear'
    <3>1. pc' = "reactivate" => (box.file = InEffect(undo - 1))' /\ Around(undo)'
      BY <1>2, <1>6, <2>1, SameOrder DEF Around, Outer, Undoing
    <3>2. pc' = "check" => (box = Tested(undo - 1))'
      BY <1>2, <1>6, SameOrder
    <3> QED
      BY <1>6, <3>1, <3>2 DEF BoxIsNear, Early
  <2>5. Places'
    BY <1>1, <1>2, <1>6 DEF Places, Early, Applying, Undo
  <2>6. VerifiedSoFar' /\ FailedForAReason' /\ Exported' /\ NoLeftovers'
    BY <1>1, <1>2, <1>6 DEF VerifiedSoFar, FailedForAReason, Exported, NoLeftovers, Late, Undo
  <2> QED
    BY <2>2, <2>3, <2>4, <2>5, <2>6
<1> QED
  BY <1>1, <1>4, <1>5, <1>6

\* Only a fix that failed before its SQL has no rollback.
LEMMA SkipKeeps == IInv /\ Skip => IInv'
<1> SUFFICES ASSUME IInv, Skip PROVE IInv'
  OBVIOUS
<1> USE DEF IInv
<1>1. /\ pc = "rollback" /\ pc' = pc /\ undo > 0 /\ Kind[order[undo]] = "catalog"
      /\ undo' = undo - 1 /\ Outside
      /\ UNCHANGED <<box, container, applied, pending, steps, rolled, status>>
      /\ order' = order /\ export' = export
      /\ ~HasPrior(undo)
  BY DEF Skip, Undoing, Priors, HasPrior, Outside
<1>2. /\ order # <<>> /\ undo \in 1..applied /\ applied \in 0..Len(order)
      /\ Len(steps) \in Nat /\ applied <= Len(steps) + 1 /\ applied \in Nat
      /\ box \in Box /\ container \in BOOLEAN /\ Len(order) \in Nat
      /\ DOMAIN steps = 1..Len(steps)
  BY <1>1 DEF Places, Undo, TypeOK
<1>3. undo = Len(steps) + 1
  <2>1. CASE undo <= Len(steps)
    BY <1>1, <1>2, <2>1 DEF PendingIsTested
  <2> QED
    BY <1>2, <2>1
<1>4. box = Tested(undo - 1)
  BY <1>1, <1>2, <1>3 DEF BoxIsNear
<1>5. status # "VERIFIED"
  BY <1>2, <1>3 DEF VerifiedSoFar
<1>6. TypeOK'
  <2>1. pc' \in Step /\ undo' \in 0..applied /\ status' \in Status
    BY <1>1, <1>2 DEF TypeOK
  <2> QED
    BY <1>1, <1>2, <2>1, TypeKept
<1>7. OrderIsSound' /\ ExportIsTested' /\ SinglesPassed' /\ StepsAreTested' /\ PendingIsTested'
  BY <1>1, OutsideKept, StepsKept, PendingKept DEF Early
<1>8. BoxIsNear'
  <2>1. (box = Tested(undo))'
    BY <1>1, <1>4, SameOrder
  <2>2. undo' <= Len(steps') /\ ~(undo' > Len(steps'))
    BY <1>1, <1>2, <1>3
  <2> QED
    BY <1>1, <2>1, <2>2 DEF BoxIsNear, Early
<1>9. Places'
  BY <1>1, <1>2 DEF Places, Early, Applying, Undo
<1>10. VerifiedSoFar' /\ FailedForAReason' /\ Exported' /\ NoLeftovers'
  BY <1>1, <1>2, <1>5 DEF VerifiedSoFar, FailedForAReason, Exported, NoLeftovers, Late, Undo
<1> QED
  BY <1>6, <1>7, <1>8, <1>9, <1>10

LEMMA ReactivateKeeps == IInv /\ Reactivate => IInv'
<1> SUFFICES ASSUME IInv, Reactivate PROVE IInv'
  OBVIOUS
<1> USE DEF IInv
<1>1. /\ pc = "reactivate" /\ Outside /\ UNCHANGED <<container, applied, pending, steps>>
      /\ \/ box' = Restarted(box) /\ pc' = "check" /\ UNCHANGED <<undo, rolled, status>>
         \/ box' \in {box, Reloaded(box), Restarted(box)} /\ RollbackFails
      /\ order' = order /\ export' = export
  BY DEF Reactivate, Activated, Inactive, Outside
<1>2. /\ order # <<>> /\ undo \in 1..applied /\ box \in Box
      /\ box.file = InEffect(undo - 1)
      /\ Outer(box, Cells(order[undo]), InEffect(undo - 1))
      /\ rolled \in Seq([fix: Fix, verified: BOOLEAN])
  BY <1>1 DEF Places, Undo, BoxIsNear, Around, Outer, TypeOK
<1>3. Restarted(box) = Tested(undo - 1) /\ Restarted(box) \in Box
  BY <1>2, AfterRestart DEF Tested, Target
<1>4. CASE box' \in {box, Reloaded(box), Restarted(box)} /\ RollbackFails
  <2>1. box' \in Box
    BY <1>2, <1>3, <1>4, AfterReload
  <2>2. /\ pc' = "close" /\ status' = "FAILED" /\ undo' = undo /\ undo > 0
        /\ rolled' \in Seq([fix: Fix, verified: BOOLEAN])
    BY <1>2, <1>4 DEF RollbackFails, TypeOK
  <2> QED
    BY <1>1, <2>1, <2>2, StopKeeps DEF Undo
<1>5. CASE box' = Restarted(box) /\ pc' = "check" /\ UNCHANGED <<undo, rolled, status>>
  <2>1. TypeOK'
    BY <1>1, <1>3, <1>5, TypeKept DEF Step, TypeOK
  <2>2. OrderIsSound' /\ ExportIsTested' /\ SinglesPassed' /\ StepsAreTested' /\ PendingIsTested'
    BY <1>1, <1>5, OutsideKept, StepsKept, PendingKept DEF Early
  <2>3. BoxIsNear'
    BY <1>1, <1>3, <1>5, SameOrder DEF BoxIsNear, Early
  <2>4. Places'
    BY <1>1, <1>2, <1>5 DEF Places, Early, Applying, Undo
  <2>5. VerifiedSoFar' /\ FailedForAReason' /\ Exported' /\ NoLeftovers'
    BY <1>1, <1>2, <1>5 DEF VerifiedSoFar, FailedForAReason, Exported, NoLeftovers, Late, Undo
  <2> QED
    BY <2>1, <2>2, <2>3, <2>4, <2>5
<1> QED
  BY <1>1, <1>4, <1>5

\* A fix counts as rolled back when the state before it is there again.
LEMMA CheckKeeps == IInv /\ Check => IInv'
<1> SUFFICES ASSUME IInv, Check PROVE IInv'
  OBVIOUS
<1> USE DEF IInv
<1>1. /\ pc = "check" /\ Outside /\ UNCHANGED <<box, container, applied, pending, steps>>
      /\ order' = order /\ export' = export
  BY DEF Check, Outside
<1>2. /\ order # <<>> /\ undo \in 1..applied /\ applied \in 0..Len(order)
      /\ applied <= Len(steps) + 1 /\ applied \in Nat /\ undo > 0
      /\ Len(order) \in Nat /\ Len(steps) \in Nat
      /\ box \in Box /\ box = Tested(undo - 1) /\ container \in BOOLEAN
      /\ rolled \in Seq([fix: Fix, verified: BOOLEAN]) /\ order[undo] \in Fix
  BY <1>1 DEF Places, Undo, BoxIsNear, TypeOK
<1>3. PICK sound \in BOOLEAN :
        LET ok == sound /\ box = ExpectedSnapshot IN
        \/ /\ rolled' = Append(rolled, [fix |-> order[undo], verified |-> ok])
           /\ IF ok THEN pc' = "rollback" /\ undo' = undo - 1 /\ UNCHANGED status
              ELSE pc' = "close" /\ status' = "FAILED" /\ UNCHANGED undo
        \/ RollbackFails
  BY DEF Check, Undoing
<1>4. CASE RollbackFails
  BY <1>1, <1>2, <1>4, StopKeeps DEF RollbackFails, Undo
<1>5. ASSUME NEW ok \in BOOLEAN,
             rolled' = Append(rolled, [fix |-> order[undo], verified |-> ok])
      PROVE  rolled' \in Seq([fix: Fix, verified: BOOLEAN])
  <2>1. [fix |-> order[undo], verified |-> ok] \in [fix: Fix, verified: BOOLEAN]
    BY <1>2
  <2> QED
    BY <1>2, <1>5, <2>1
<1>6. CASE /\ rolled' = Append(rolled, [fix |-> order[undo], verified |-> FALSE])
           /\ pc' = "close" /\ status' = "FAILED" /\ UNCHANGED undo
  <2>1. rolled' \in Seq([fix: Fix, verified: BOOLEAN])
    BY <1>5, <1>6
  <2> QED
    BY <1>1, <1>2, <1>6, <2>1, StopKeeps DEF Undo
<1>7. CASE /\ rolled' = Append(rolled, [fix |-> order[undo], verified |-> TRUE])
           /\ pc' = "rollback" /\ undo' = undo - 1 /\ UNCHANGED status
  <2>1. rolled' \in Seq([fix: Fix, verified: BOOLEAN])
    BY <1>5, <1>7
  <2>2. undo' \in 0..applied /\ undo' <= Len(steps) /\ ~(undo' > Len(steps))
    BY <1>2, <1>7
  <2>3. TypeOK'
    BY <1>1, <1>7, <2>1, <2>2 DEF TypeOK, Outside, Step
  <2>4. OrderIsSound' /\ ExportIsTested' /\ SinglesPassed' /\ StepsAreTested' /\ PendingIsTested'
    BY <1>1, <1>7, OutsideKept, StepsKept, PendingKept DEF Early
  <2>5. BoxIsNear'
    <3>1. (box = Tested(undo))'
      BY <1>1, <1>2, <1>7, SameOrder
    <3> QED
      BY <1>1, <1>7, <2>2, <3>1 DEF BoxIsNear, Early
  <2>6. Places'
    BY <1>1, <1>2, <1>7 DEF Places, Early, Applying, Undo
  <2>7. VerifiedSoFar'
    <3>1. SUFFICES ASSUME status = "VERIFIED" PROVE VerifiedSoFar'
      BY <1>7 DEF VerifiedSoFar
    <3>2. /\ Len(steps) = Len(order) /\ Len(rolled) = Len(order) - undo
          /\ \A i \in DOMAIN rolled :
                rolled[i] = [fix |-> order[Len(order) + 1 - i], verified |-> TRUE]
      BY <3>1 DEF VerifiedSoFar
    <3>3. Len(rolled) \in Nat /\ DOMAIN rolled = 1..Len(rolled)
      BY <1>2
    <3>4. /\ Len(rolled') = Len(rolled) + 1 /\ DOMAIN rolled' = 1..(Len(rolled) + 1)
          /\ \A i \in 1..Len(rolled) : rolled'[i] = rolled[i]
          /\ rolled'[Len(rolled) + 1] = [fix |-> order[undo], verified |-> TRUE]
      BY <1>2, <1>7, <3>3
    <3>5. Len(order) + 1 - (Len(rolled) + 1) = undo
      BY <1>2, <3>2, <3>3
    <3>6. \A i \in DOMAIN rolled' :
            rolled'[i] = [fix |-> order[Len(order) + 1 - i], verified |-> TRUE]
      BY <3>2, <3>3, <3>4, <3>5
    <3>7. Len(rolled') = Len(order) - undo'
      BY <1>2, <1>7, <3>2, <3>3, <3>4
    <3> QED
      BY <1>1, <1>7, <3>2, <3>6, <3>7 DEF VerifiedSoFar, Undo, Late
  <2>8. FailedForAReason' /\ Exported' /\ NoLeftovers'
    BY <1>1, <1>7 DEF FailedForAReason, Exported, NoLeftovers, Late, Undo
  <2> QED
    BY <2>3, <2>4, <2>5, <2>6, <2>7, <2>8
<1>8. \/ /\ rolled' = Append(rolled, [fix |-> order[undo], verified |-> TRUE])
         /\ pc' = "rollback" /\ undo' = undo - 1 /\ UNCHANGED status
      \/ /\ rolled' = Append(rolled, [fix |-> order[undo], verified |-> FALSE])
         /\ pc' = "close" /\ status' = "FAILED" /\ UNCHANGED undo
      \/ RollbackFails
  <2> DEFINE ok == sound /\ box = ExpectedSnapshot
  <2>1. CASE ok = TRUE
    BY <1>3, <2>1
  <2>2. CASE ok = FALSE
    BY <1>3, <2>2
  <2> QED
    BY <2>1, <2>2
<1> QED
  BY <1>4, <1>6, <1>7, <1>8

LEMMA RolledBackKeeps == IInv /\ RolledBack => IInv'
<1> SUFFICES ASSUME IInv, RolledBack PROVE IInv'
  OBVIOUS
<1> USE DEF IInv
<1>1. /\ pc = "rollback" /\ undo = 0 /\ pc' = "close" /\ Outside
      /\ UNCHANGED <<box, container, applied, pending, steps, undo, rolled, status>>
      /\ order' = order /\ export' = export /\ order # <<>>
      /\ Len(steps) \in Nat
  BY DEF RolledBack, Outside, Places, Undo, TypeOK
<1>2. box = Source
  BY <1>1, NoneInEffect DEF BoxIsNear
<1>3. TypeOK'
  BY <1>1, TypeKept DEF Step, TypeOK
<1>4. OrderIsSound' /\ ExportIsTested' /\ SinglesPassed' /\ StepsAreTested' /\ PendingIsTested'
  BY <1>1, OutsideKept, StepsKept, PendingKept DEF Early
<1>5. BoxIsNear' /\ Places'
  BY <1>1 DEF BoxIsNear, Places, Early, Applying, Undo
<1>6. VerifiedSoFar' /\ FailedForAReason' /\ Exported' /\ NoLeftovers'
  BY <1>1, <1>2 DEF VerifiedSoFar, FailedForAReason, Exported, NoLeftovers, Late, Undo
<1> QED
  BY <1>3, <1>4, <1>5, <1>6

\* A server that may still be there takes the verdict away.
LEMMA CloseKeeps == IInv /\ Close => IInv'
<1> SUFFICES ASSUME IInv, Close PROVE IInv'
  OBVIOUS
<1> USE DEF IInv
<1>1. PICK cleaned \in BOOLEAN :
        /\ container' \in IF cleaned THEN {FALSE} ELSE {container, FALSE}
        /\ status' = StatusAfter(cleaned)
        /\ pc' = IF status' = "VERIFIED" THEN "export" ELSE "deliver"
  BY DEF Close
<1>2. /\ pc = "close" /\ Outside /\ UNCHANGED <<box, applied, pending, steps, undo, rolled>>
      /\ order' = order /\ export' = export /\ order # <<>>
      /\ container \in BOOLEAN /\ status \in Status
  BY DEF Close, Outside, Places, TypeOK
<1>3. export = <<>>
  BY <1>2 DEF Exported
<1>4. \/ cleaned = TRUE /\ container' = FALSE /\ status' = status
      \/ cleaned = FALSE /\ container' \in BOOLEAN /\ status' = "CLEANUP_FAILED"
  BY <1>1, <1>2 DEF StatusAfter
<1>5. pc' \in {"export", "deliver"} /\ (pc' = "export" <=> status' = "VERIFIED")
  BY <1>1
<1>6. TypeOK'
  <2>1. pc' \in Step /\ status' \in Status /\ container' \in BOOLEAN /\ undo' \in 0..applied /\ box' \in Box
    BY <1>2, <1>4, <1>5 DEF Step, Status, TypeOK
  <2> QED
    BY <1>2, <2>1, TypeKept
<1>7. OrderIsSound' /\ ExportIsTested' /\ SinglesPassed' /\ StepsAreTested' /\ PendingIsTested'
  BY <1>2, <1>5, OutsideKept, StepsKept, PendingKept DEF Early
<1>8. BoxIsNear' /\ Places'
  BY <1>2, <1>5 DEF BoxIsNear, Places, Early, Applying, Undo
<1>9. VerifiedSoFar'
  BY <1>2, <1>4, <1>5 DEF VerifiedSoFar, Late, Undo
<1>10. FailedForAReason' /\ Exported' /\ NoLeftovers'
  <2>1. NoLeftovers'
    BY <1>2, <1>3, <1>4 DEF NoLeftovers
  <2> QED
    BY <1>2, <1>3, <1>5, <2>1 DEF FailedForAReason, Exported, Late, Undo
<1> QED
  BY <1>6, <1>7, <1>8, <1>9, <1>10

----------------------------------------------------------------------------
(* The theorems. *)

LEMMA NextKeeps == IInv /\ [Next]_vars => IInv'
<1> SUFFICES ASSUME IInv, [Next]_vars PROVE IInv'
  OBVIOUS
<1>1. CASE Validate \/ RunSingle \/ ChooseOrder \/ Export \/ Deliver
  BY <1>1, ValidateKeeps, RunSingleKeeps, ChooseOrderKeeps, ExportKeeps, DeliverKeeps
<1>2. CASE Start \/ Reproduce \/ Mark \/ Sql \/ Activate \/ Gate
  BY <1>2, StartKeeps, ReproduceKeeps, MarkKeeps, SqlKeeps, ActivateKeeps, GateKeeps
<1>3. CASE Rollback \/ Skip \/ Reactivate \/ Check \/ RolledBack \/ Close
  BY <1>3, RollbackKeeps, SkipKeeps, ReactivateKeeps, CheckKeeps, RolledBackKeeps, CloseKeeps
<1>4. CASE Finished \/ UNCHANGED vars
  BY <1>4, StutterKeeps DEF Finished
<1> QED
  BY <1>1, <1>2, <1>3, <1>4 DEF Next, Progress

\* The invariant holds in every state of a batch.
THEOREM Invariance == Spec => []IInv
<1> QED
  BY Initial, NextKeeps, PTL DEF Spec

\* The variables keep their types (BatchRun's TypeOK), whatever fails.
THEOREM TypeCorrect == Spec => []TypeOK
<1>1. IInv => TypeOK
  BY DEF IInv
<1> QED
  BY <1>1, Invariance, PTL

\* For any batch, a combined VERIFIED is the proof the README.txt claims: every
\* selected fix alone and in the tested order, exact steps, exact rollbacks, no
\* server left (run_batch up to the export).
THEOREM VerifiedProven == Spec => []VerifiedIsProven
<1>1. ASSUME IInv, status = "VERIFIED", pc \in {"export", "deliver", "done"}
      PROVE  /\ \A f \in Selected : single[f] = "VERIFIED" /\ f \in history
             /\ Front(order, Len(order)) = Selected /\ Len(order) = Len(requests)
             /\ \A i \in DOMAIN order : Depends[order[i]] \subseteq Front(order, i - 1)
             /\ steps = [i \in DOMAIN order |-> [fix |-> order[i], before |-> Tested(i - 1),
                                                 after |-> Tested(i)]]
             /\ rolled = Reversed([i \in DOMAIN order |-> [fix |-> order[i], verified |-> TRUE]])
             /\ box = Source /\ ~container
  <2>1. /\ order \in Seq(Fix) /\ requests \in Seq(Fix) /\ order # <<>> /\ OrderIsSound
        /\ steps \in Seq([fix: Fix, before: Box, after: Box])
        /\ rolled \in Seq([fix: Fix, verified: BOOLEAN])
    BY <1>1 DEF IInv, Places, TypeOK
  <2>2. /\ Len(steps) = Len(order) /\ Len(rolled) = Len(order)
        /\ \A i \in DOMAIN rolled :
                rolled[i] = [fix |-> order[Len(order) + 1 - i], verified |-> TRUE]
        /\ box = Source /\ ~container
    BY <1>1, <2>1 DEF IInv, VerifiedSoFar, Late
  <2>3. \A f \in Selected : Passed(f)
    BY <1>1, <2>1 DEF IInv, SinglesPassed, Selected
  <2>4. Front(order, Len(order)) = Selected
    BY <2>1, WholeOrder
  <2>5. DOMAIN order = 1..Len(order) /\ DOMAIN steps = 1..Len(order)
        /\ DOMAIN rolled = 1..Len(order) /\ Len(order) \in Nat
    BY <2>1, <2>2
  <2>6. steps = [i \in DOMAIN order |-> [fix |-> order[i], before |-> Tested(i - 1),
                                         after |-> Tested(i)]]
    <3>1. \A i \in DOMAIN order : steps[i] = [fix |-> order[i], before |-> Tested(i - 1),
                                              after |-> Tested(i)]
      BY <1>1, <2>5 DEF IInv, StepsAreTested
    <3> QED
      BY <2>1, <2>5, <3>1
  <2>7. rolled = Reversed([i \in DOMAIN order |-> [fix |-> order[i], verified |-> TRUE]])
    <3> DEFINE s == [i \in DOMAIN order |-> [fix |-> order[i], verified |-> TRUE]]
    <3>1. DOMAIN s = 1..Len(order) /\ Len(s) = Len(order)
      BY <2>5
    <3>2. Reversed(s) = [i \in 1..Len(order) |-> s[Len(order) + 1 - i]]
      <4> HIDE DEF s
      <4> QED
        BY <3>1 DEF Reversed
    <3>3. \A i \in 1..Len(order) : Len(order) + 1 - i \in DOMAIN order
      BY <2>5
    <3>4. \A i \in 1..Len(order) : rolled[i] = s[Len(order) + 1 - i]
      BY <2>2, <2>5, <3>3
    <3>5. rolled = [i \in 1..Len(order) |-> rolled[i]]
      BY <2>1, <2>5
    <3> HIDE DEF s
    <3>6. [i \in 1..Len(order) |-> rolled[i]] = [i \in 1..Len(order) |-> s[Len(order) + 1 - i]]
      BY <3>4, Zenon
    <3>7. rolled = Reversed(s)
      BY <3>2, <3>5, <3>6, Zenon
    <3> QED
      BY <3>7 DEF s
  <2> QED
    BY <2>1, <2>2, <2>3, <2>4, <2>6, <2>7 DEF OrderIsSound, Passed
<1>2. IInv => VerifiedIsProven
  BY <1>1 DEF VerifiedIsProven
<1> QED
  BY <1>2, Invariance, PTL

\* For any batch, a rollback that ran has put the configuration back to exactly
\* the fixes before it, whatever the failed fix had left.
THEOREM RollbackExact == Spec => []RollbackIsExact
<1>1. IInv => RollbackIsExact
  BY DEF IInv, BoxIsNear, RollbackIsExact, Tested
<1> QED
  BY <1>1, Invariance, PTL

\* For any batch, a bundle carries the tested states of its own fix, in the
\* tested order.
THEOREM ExportTested == Spec => []ExportIsTested
<1>1. IInv => ExportIsTested
  BY DEF IInv
<1> QED
  BY <1>1, Invariance, PTL

\* A server that outlived its batch is reported and nothing is exported.
THEOREM NothingLeft == Spec => []NoLeftovers
<1>1. IInv => NoLeftovers
  BY DEF IInv
<1> QED
  BY <1>1, Invariance, PTL

----------------------------------------------------------------------------
(* Rehearsal. *)

\* What the promise sees before the combined test; and that a test that still
\* applies has not passed.
LEMMA Stages ==
    ASSUME IInv
    PROVE  /\ pc \in Early => StageOf = "none" /\ VerdictOf = "open"
           /\ pc \in Applying => Len(steps) < Len(order)
BY DEF IInv, Places, TypeOK, StageOf, VerdictOf, Tried, Early, Applying

LEMMA PromiseStep ==
    ASSUME IInv, IInv', [Next]_vars
    PROVE  [Promise!Next]_(Promise!vars)
<1>1. CASE Validate \/ RunSingle
  <2>1. pc \in Early /\ pc' \in Early \cup {"done"} /\ order' = order /\ order = <<>>
    BY <1>1 DEF Validate, RunSingle, Refused, Early, IInv, Places
  <2>2. StageOf' = StageOf /\ VerdictOf' = VerdictOf
    BY <2>1 DEF StageOf, VerdictOf, Tried, Early
  <2> QED
    BY <2>2 DEF Promise!vars
<1>2. CASE ChooseOrder
  <2>1. pc \in Early /\ (pc' = "start" \/ (pc' = "done" /\ order' = order /\ order = <<>>))
    BY <1>2 DEF ChooseOrder, Refused, Early, IInv, Places
  <2>2. StageOf = "none" /\ VerdictOf = "open"
    BY <2>1, Stages
  <2>3. CASE pc' = "start"
    BY <2>2, <2>3 DEF Promise!Next, Promise!Create, StageOf, VerdictOf, Tried
  <2>4. CASE pc' = "done" /\ order' = <<>>
    BY <2>2, <2>4 DEF Promise!vars, StageOf, VerdictOf, Tried
  <2> QED
    BY <2>1, <2>3, <2>4
<1>3. CASE Start \/ Reproduce
  <2>1. /\ pc \in {"start", "reproduce"} /\ pc' \in {"reproduce", "apply", "rollback"}
        /\ steps' = steps /\ order' = order /\ Len(steps) < Len(order) /\ Len(steps) \in Nat
        /\ Len(order) \in Nat
    BY <1>3, Stages DEF Start, Reproduce, Fail, FailAt, Outside, Applying, IInv, TypeOK
  <2>2. StageOf = "created" /\ VerdictOf = "open" /\ VerdictOf' = "open"
    BY <2>1 DEF StageOf, VerdictOf, Tried
  <2>3. StageOf' \in {"created", "reproduced", "failed"}
    BY <2>1 DEF StageOf
  <2> QED
    BY <2>2, <2>3 DEF Promise!Next, Promise!Reproduce, Promise!Fail, Promise!vars
<1>4. CASE Mark \/ Sql \/ Activate
  <2>1. /\ pc \in {"apply", "sql", "activate"}
        /\ pc' \in {"sql", "activate", "gate", "rollback"}
        /\ steps' = steps /\ order' = order /\ Len(steps) < Len(order) /\ Len(steps) \in Nat
        /\ Len(order) \in Nat
    BY <1>4, Stages DEF Mark, Sql, Activate, Fail, FailAt, Outside, Applying, IInv, TypeOK
  <2>2. StageOf = "reproduced" /\ VerdictOf = "open" /\ VerdictOf' = "open"
    BY <2>1 DEF StageOf, VerdictOf, Tried
  <2>3. StageOf' \in {"reproduced", "failed"}
    BY <2>1 DEF StageOf
  <2> QED
    BY <2>2, <2>3 DEF Promise!Next, Promise!Fail, Promise!vars
<1>5. CASE Gate
  <2>1. pc = "gate" /\ pc' \in {"apply", "rollback"}
    BY <1>5 DEF Gate, Fail, FailAt
  <2>2. StageOf = "reproduced" /\ VerdictOf = "open" /\ VerdictOf' = "open"
    BY <2>1 DEF StageOf, VerdictOf, Tried
  <2>3. StageOf' \in {"reproduced", "accepted", "failed"}
    BY <2>1 DEF StageOf
  <2> QED
    BY <2>2, <2>3 DEF Promise!Next, Promise!Accept, Promise!Fail, Promise!vars
<1>6. CASE Rollback \/ Skip \/ Reactivate \/ Check
  <2>1. /\ pc \in Undo /\ pc' \in Undo \cup {"close"} /\ steps' = steps /\ order' = order
        /\ pc' = "close" => undo' # 0
    <3>1. undo \in Nat /\ (pc \in {"reactivate", "check"} => undo # 0)
      BY DEF IInv, Places, TypeOK
    <3>2. CASE Rollback
      BY <3>1, <3>2 DEF Rollback, RollbackFails, Outside, Undo
    <3>3. CASE Skip
      BY <3>3 DEF Skip, Outside, Undo
    <3>4. CASE Reactivate
      BY <3>1, <3>4 DEF Reactivate, RollbackFails, Outside, Undo
    <3>5. CASE Check
      BY <3>1, <3>5 DEF Check, RollbackFails, Outside, Undo
    <3> QED
      BY <1>6, <3>2, <3>3, <3>4, <3>5
  <2>2. VerdictOf = "open" /\ VerdictOf' = "open"
    BY <2>1 DEF VerdictOf, Tried, Undo
  <2>3. CASE Len(steps) = Len(order)
    <3>1. StageOf = "accepted" /\ StageOf' \in {"accepted", "failed"}
      BY <2>1, <2>3 DEF StageOf, Undo
    <3> QED
      BY <2>2, <3>1 DEF Promise!Next, Promise!Fail, Promise!vars
  <2>4. CASE Len(steps) # Len(order)
    <3>1. StageOf = "failed" /\ StageOf' = "failed"
      BY <2>1, <2>4 DEF StageOf, Undo
    <3> QED
      BY <2>2, <3>1 DEF Promise!vars
  <2> QED
    BY <2>3, <2>4
<1>7. CASE RolledBack
  <2>1. /\ pc = "rollback" /\ pc' = "close" /\ undo' = 0 /\ steps' = steps /\ order' = order
    BY <1>7 DEF RolledBack, Outside
  <2>2. VerdictOf = "open" /\ VerdictOf' = "open"
    BY <2>1 DEF VerdictOf, Tried
  <2>3. (StageOf = "accepted" /\ StageOf' = "undone") \/ (StageOf = "failed" /\ StageOf' = "failed")
    BY <2>1 DEF StageOf
  <2> QED
    BY <2>2, <2>3 DEF Promise!Next, Promise!Undo, Promise!vars
<1>8. CASE Close
  <2>1. PICK cleaned \in BOOLEAN :
            /\ status' = StatusAfter(cleaned)
            /\ pc' = IF status' = "VERIFIED" THEN "export" ELSE "deliver"
    BY <1>8 DEF Close
  <2>2. pc = "close" /\ pc' \in {"export", "deliver"} /\ order' = order /\ order # <<>>
    BY <1>8, <2>1 DEF Close, Outside, IInv, Places
  <2>3. VerdictOf = "open" /\ VerdictOf' = status' /\ StageOf' = "none"
    BY <2>2 DEF VerdictOf, Tried, StageOf
  <2>4. status' = "CLEANUP_FAILED" \/ status' = status
    BY <2>1 DEF StatusAfter
  <2>5. status \in {"VERIFIED", "FAILED"}
    BY <2>2 DEF IInv, FailedForAReason, TypeOK, Status, Late
  <2>6. CASE Len(steps) = Len(order) /\ undo = 0
    <3>1. StageOf = "undone" /\ status = "VERIFIED"
      BY <2>2, <2>6 DEF StageOf, IInv, FailedForAReason
    <3> QED
      BY <2>3, <2>4, <3>1 DEF Promise!Next, Promise!Remove, Promise!Leak
  <2>7. CASE ~(Len(steps) = Len(order) /\ undo = 0)
    <3>1. StageOf = "failed" /\ status = "FAILED"
      BY <2>2, <2>5, <2>7 DEF StageOf, IInv, VerifiedSoFar
    <3> QED
      BY <2>3, <2>4, <3>1 DEF Promise!Next, Promise!Remove, Promise!Leak
  <2> QED
    BY <2>6, <2>7
<1>9. CASE Export \/ Deliver
  <2>1. pc \in Late /\ pc' \in Late /\ order' = order /\ status' = status
    BY <1>9 DEF Export, Deliver, Refused, Late, combined
  <2>2. StageOf' = StageOf /\ VerdictOf' = VerdictOf
    BY <2>1 DEF StageOf, VerdictOf, Tried, Late
  <2> QED
    BY <2>2 DEF Promise!vars
<1>10. CASE Finished \/ UNCHANGED vars
  <2>1. UNCHANGED vars
    BY <1>10 DEF Finished
  <2>2. StageOf' = StageOf /\ VerdictOf' = VerdictOf
    BY <2>1 DEF vars, combined, StageOf, VerdictOf, Tried
  <2> QED
    BY <2>2 DEF Promise!vars
<1> QED
  BY <1>1, <1>2, <1>3, <1>4, <1>5, <1>6, <1>7, <1>8, <1>9, <1>10 DEF Next, Progress

\* A batch, whatever fails in it, keeps what Rehearsal promises of one fix.
THEOREM PromiseKept == Spec => KeepsPromise
<1>1. Init => Promise!Init
  BY DEF Init, Promise!Init, StageOf, VerdictOf, Tried
<1>2. IInv /\ IInv' /\ [Next]_vars => [Promise!Next]_(Promise!vars)
  BY PromiseStep
<1> QED
  BY <1>1, <1>2, Invariance, PTL DEF Spec, KeepsPromise, Promise!Spec
=============================================================================
