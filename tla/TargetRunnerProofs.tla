-------------------------- MODULE TargetRunnerProofs --------------------------
(***************************************************************************)
(* What the runner guarantees for any batch, any number of terminals, and  *)
(* any scopes; and, for batches whose scopes see each other (Linked), that *)
(* the tested order is kept on the target.                                 *)
(***************************************************************************)
EXTENDS TargetRunner, TLAPS

----------------------------------------------------------------------------
(* The inductive invariant. *)

LockHeld == \A r \in Runner : pc[r] \in Connected => lock = r

\* The change of cell k of the fix is among the first n - 1 statements.
Past(j, k, n) ==
    n >= 2 * (IF j.action = "apply" THEN k ELSE Len(Changes[j.bundle]) + 1 - k)

\* The files in the middle of a command: what is past is new, the rest as the
\* guard found it.
FileAt(f, j, n) ==
    \A k \in 1..Len(Changes[j.bundle]) :
        LET c == Changes[j.bundle][k]
        IN  f[c] = IF Past(j, k, n) THEN New(j, c) ELSE Tested(c, Expected(j))

InRun(r) ==
    pc[r] = "run" => /\ job[r].action \in {"apply", "rollback"}
                     /\ FileAt(file, job[r], next[r])

InTransaction(r) ==
    pc[r] = "transaction" => job[r].action \in {"apply", "rollback"}

IInv == /\ TypeOK /\ LockHeld /\ VerifiedStaysTrue
        /\ \A r \in Runner : InRun(r) /\ InTransaction(r)

\* Every guard sees the whole of the earlier fixes and the first cell of the
\* later ones.
Linked ==
    \A a, b \in Bundle :
        a < b => Cells(a) \subseteq Scope[b] /\ Changes[b][1] \in Scope[a]

\* The first change of a fix is the first in the files and the last to go.
FirstIn ==
    \A b \in Bundle : \A c \in Cells(b) : Holds(b, c) => Holds(b, Changes[b][1])

Absent(b) == \A c \in Cells(b) : ~Holds(b, c)

\* While SQL of fix q runs, exactly the fixes before it are in effect.
Around(q) ==
    /\ \A a \in Bundle : a < q => InEffect(a)
    /\ \A b \in Bundle : q < b => Absent(b)

OrderInv == /\ PrecedingInEffect /\ FirstIn
            /\ \A r \in Runner : pc[r] = "run" => Around(job[r].bundle)

----------------------------------------------------------------------------
(* Fixes and cells. *)

LEMMA Batch ==
    ASSUME NEW b \in Bundle
    PROVE  /\ Changes[b] \in Seq(Cell)
           /\ Len(Changes[b]) \in Nat \ {0} /\ DOMAIN Changes[b] = 1..Len(Changes[b])
           /\ \A k \in 1..Len(Changes[b]) : Changes[b][k] \in Cells(b)
           /\ \A c \in Cells(b) : \E k \in 1..Len(Changes[b]) : c = Changes[b][k]
           /\ Cells(b) \subseteq Cell /\ Cells(b) \subseteq Scope[b]
           /\ b \in Nat /\ b >= 1 /\ b <= Fixes /\ Fixes \in Nat
<1>1. Changes[b] \in Seq(Cell) /\ Changes[b] # <<>> /\ Cells(b) \subseteq Scope[b]
  BY BatchAssumption
<1>2. Len(Changes[b]) \in Nat \ {0} /\ DOMAIN Changes[b] = 1..Len(Changes[b])
  BY <1>1
<1>3. \A k \in 1..Len(Changes[b]) : Changes[b][k] \in Cell
  BY <1>1
<1>4. b \in Nat /\ b >= 1 /\ b <= Fixes /\ Fixes \in Nat
  BY BatchAssumption DEF Bundle
<1> QED
  BY <1>1, <1>2, <1>3, <1>4 DEF Cells

\* The values of a cell before and after fix q differ in q only.
LEMMA TestedValue ==
    ASSUME NEW q \in Bundle, NEW b \in Bundle, NEW c \in Cells(b)
    PROVE  /\ b \in Tested(c, q) <=> b <= q
           /\ b \in Tested(c, q - 1) <=> b < q
  BY Batch DEF Tested, Bundle

LEMMA JobType ==
    ASSUME TypeOK, NEW r \in Runner
    PROVE  /\ job[r].bundle \in Bundle /\ job[r].action \in Action
           /\ next[r] \in Nat
  BY DEF TypeOK

\* What the guard of a command that goes on has seen.
LEMMA GuardSeen ==
    ASSUME TypeOK, NEW r \in Runner, Matches(job[r].bundle, Expected(job[r])),
           job[r].action \in {"apply", "rollback"},
           NEW c \in Scope[job[r].bundle], NEW b \in Bundle, c \in Cells(b)
    PROVE  /\ b < job[r].bundle => b \in file[c] /\ b \in live[c]
           /\ job[r].bundle < b => b \notin file[c] /\ b \notin live[c]
           /\ file[c] = Tested(c, Expected(job[r]))
           /\ live[c] = Tested(c, Expected(job[r]))
  BY JobType, TestedValue, Batch DEF Matches, Expected

LEMMA FilesAtStart ==
    ASSUME TypeOK, NEW r \in Runner, Matches(job[r].bundle, Expected(job[r])),
           job[r].action \in {"apply", "rollback"}
    PROVE  FileAt(file, job[r], 1)
<1> DEFINE q == job[r].bundle
<1>1. q \in Bundle
  BY JobType
<1>2. \A k \in 1..Len(Changes[q]) : ~Past(job[r], k, 1)
  BY <1>1, Batch DEF Past
<1>3. \A k \in 1..Len(Changes[q]) : Changes[q][k] \in Scope[q]
  BY <1>1, Batch
<1> QED
  BY <1>2, <1>3 DEF FileAt, Matches

----------------------------------------------------------------------------
(* One statement of a running command. *)

\* The n-th statement changes the cell whose turn it is, or reloads.
StatementAt(r, i) ==
    \/ next[r] = 2 * i - 1 /\ Alter(job[r], i)
    \/ next[r] = 2 * i /\ SignalReload

\* The files follow the statements one by one.
LEMMA FilesFollow ==
    ASSUME TypeOK, NEW r \in Runner, pc[r] = "run", InRun(r),
           NEW i \in 1..Len(Changes[job[r].bundle]), StatementAt(r, i)
    PROVE  FileAt(file', job[r], next[r] + 1)
<1> DEFINE j == job[r]
           L == Len(Changes[j.bundle])
           C(k) == Changes[j.bundle][k]
           turn == IF j.action = "apply" THEN i ELSE L + 1 - i
<1>1. j.bundle \in Bundle /\ next[r] \in Nat /\ L \in Nat /\ FileAt(file, j, next[r])
  BY JobType, Batch DEF InRun
<1>2. CASE next[r] = 2 * i /\ SignalReload
  <2>1. \A k \in 1..L : Past(j, k, next[r] + 1) <=> Past(j, k, next[r])
    BY <1>1, <1>2 DEF Past
  <2> QED
    BY <1>1, <1>2, <2>1 DEF FileAt, SignalReload
<1>3. CASE next[r] = 2 * i - 1 /\ Alter(j, i)
  <2>1. turn \in 1..L /\ Changed(j, i) = C(turn)
    BY <1>1 DEF Changed
  <2>2. C(turn) \in Cell /\ \A k \in 1..L : C(k) = C(turn) => k = turn
    BY <1>1, <2>1, Batch, BatchAssumption
  <2>3. \A k \in 1..L : Past(j, k, next[r] + 1) <=> Past(j, k, next[r]) \/ k = turn
    <3> SUFFICES ASSUME NEW k \in 1..L
                 PROVE  Past(j, k, next[r] + 1) <=> Past(j, k, next[r]) \/ k = turn
      OBVIOUS
    <3>1. next[r] = 2 * i - 1 /\ i \in Nat /\ k \in Nat /\ L \in Nat
      BY <1>1, <1>3
    <3>2. CASE j.action = "apply"
      <4>1. Past(j, k, next[r] + 1) <=> 2 * i >= 2 * k
        BY <3>1, <3>2 DEF Past
      <4>2. Past(j, k, next[r]) <=> 2 * i - 1 >= 2 * k
        BY <3>1, <3>2 DEF Past
      <4> QED
        BY <3>1, <3>2, <4>1, <4>2
    <3>3. CASE j.action # "apply"
      <4>1. Past(j, k, next[r] + 1) <=> 2 * i >= 2 * (L + 1 - k)
        BY <3>1, <3>3 DEF Past
      <4>2. Past(j, k, next[r]) <=> 2 * i - 1 >= 2 * (L + 1 - k)
        BY <3>1, <3>3 DEF Past
      <4> QED
        BY <3>1, <3>3, <4>1, <4>2
    <3> QED
      BY <3>2, <3>3
  <2>4. file' = [file EXCEPT ![C(turn)] = New(j, C(turn))]
    BY <1>3, <2>1 DEF Alter
  <2>5. file'[C(turn)] = New(j, C(turn))
    BY <2>2, <2>4 DEF TypeOK
  <2>6. \A k \in 1..L : k # turn => file'[C(k)] = file[C(k)]
    BY <2>2, <2>4 DEF TypeOK
  <2> QED
    BY <1>1, <2>1, <2>3, <2>5, <2>6 DEF FileAt
<1> QED
  BY <1>2, <1>3 DEF StatementAt

\* A statement of one fix adds nothing to, and takes nothing from, another.
LEMMA OthersKept ==
    ASSUME TypeOK, NEW r \in Runner, pc[r] = "run", InRun(r),
           NEW i \in 1..Len(Changes[job[r].bundle]), StatementAt(r, i),
           NEW b \in Bundle, b # job[r].bundle, NEW c \in Cells(b)
    PROVE  b \in file'[c] <=> b \in file[c]
<1> DEFINE j == job[r]
           q == job[r].bundle
           L == Len(Changes[q])
<1>1. q \in Bundle /\ L \in Nat /\ FileAt(file, j, next[r]) /\ j.action \in {"apply", "rollback"}
  BY JobType, Batch DEF InRun
<1>2. CASE next[r] = 2 * i /\ SignalReload
  BY <1>2 DEF SignalReload
<1>3. CASE next[r] = 2 * i - 1 /\ Alter(j, i)
  <2>1. PICK k \in 1..L : Changed(j, i) = Changes[q][k]
    BY <1>1 DEF Changed
  <2>2. CASE c # Changes[q][k]
    BY <1>3, <2>1, <2>2, Batch DEF Alter, TypeOK
  <2>3. CASE c = Changes[q][k]
    <3>1. file'[c] = New(j, c)
      BY <1>3, <2>1, <2>3, Batch DEF Alter, TypeOK
    <3>2. file[c] = New(j, c) \/ file[c] = Tested(c, Expected(j))
      BY <1>1, <2>3 DEF FileAt
    <3>3. /\ b \in Tested(c, q) <=> b \in Tested(c, q - 1)
      BY <1>1, <2>3, TestedValue, Batch
    <3> QED
      BY <1>1, <3>1, <3>2, <3>3 DEF New, Expected
  <2> QED
    BY <2>2, <2>3
<1> QED
  BY <1>2, <1>3 DEF StatementAt

\* What is in effect is what was, or what the files say.
LEMMA Effect ==
    ASSUME TypeOK, NEW r \in Runner,
           NEW i \in 1..Len(Changes[job[r].bundle]), StatementAt(r, i),
           NEW c \in Cell
    PROVE  live'[c] = live[c] \/ (live'[c] = file[c] /\ file' = file)
  BY DEF StatementAt, Alter, SignalReload, Reloaded, TypeOK

LEMMA StatementTaken ==
    ASSUME NEW r \in Runner, Statement(r)
    PROVE  /\ pc[r] = "run"
           /\ \E i \in 1..Len(Changes[job[r].bundle]) : StatementAt(r, i)
  BY DEF Statement, StatementAt

----------------------------------------------------------------------------
(* Types and the lock. *)

LEMMA TestedType ==
    ASSUME NEW c, NEW n \in Nat, n <= Fixes
    PROVE  Tested(c, n) \in Value
  BY BatchAssumption DEF Tested, Value, Bundle

LEMMA NewType ==
    ASSUME TypeOK, NEW r \in Runner, NEW c
    PROVE  New(job[r], c) \in Value
  BY JobType, TestedType, Batch DEF New

LEMMA ExitType ==
    ASSUME TypeOK, NEW r \in Runner, Exit(r)
    PROVE  /\ lock' \in Runner \cup {Nobody}
           /\ pc' \in [Runner -> Step]
           /\ job' \in [Runner -> [bundle: Bundle, action: Action]]
           /\ next' \in [Runner -> Nat]
           /\ \A q \in Runner :
                 next'[q] \in IF pc'[q] \in {"run", "poll"}
                             THEN 1..Statements(job'[q].bundle) ELSE {1}
<1>1. NoJob \in [bundle: Bundle, action: Action]
  BY BatchAssumption DEF NoJob, Bundle, Action
<1>2. /\ pc' = [pc EXCEPT ![r] = "idle"]
      /\ job' = [job EXCEPT ![r] = NoJob]
      /\ next' = [next EXCEPT ![r] = 1]
  BY DEF Exit, Goto
<1>3. lock' \in Runner \cup {Nobody}
  BY DEF Exit, TypeOK
<1>4. /\ pc' \in [Runner -> Step] /\ next' \in [Runner -> Nat]
      /\ job' \in [Runner -> [bundle: Bundle, action: Action]]
  BY <1>1, <1>2 DEF TypeOK, Step
<1>5. \A q \in Runner :
         next'[q] \in IF pc'[q] \in {"run", "poll"}
                     THEN 1..Statements(job'[q].bundle) ELSE {1}
  BY <1>2 DEF TypeOK
<1> QED
  BY <1>3, <1>4, <1>5

LEMMA VerifiedType ==
    ASSUME TypeOK, NEW r \in Runner, Verified(r)
    PROVE  told' \in [Bundle -> {"nothing", "prior", "applied"}]
  BY JobType DEF TypeOK, Verified

LEMMA LockStep == TypeOK /\ LockHeld /\ [Next]_vars => LockHeld'
<1> SUFFICES ASSUME TypeOK, LockHeld, [Next]_vars, NEW q \in Runner,
                    pc'[q] \in Connected
             PROVE  lock' = q
  BY DEF LockHeld
<1> USE DEF TypeOK, LockHeld, Connected, Goto, Exit
<1>1. ASSUME NEW r \in Runner, NEW b \in Bundle, NEW a \in Action, Command(r, b, a)
      PROVE  lock' = q
  BY <1>1 DEF Command
<1>2. ASSUME NEW r \in Runner, Guard(r) PROVE lock' = q
  BY <1>2, BatchAssumption DEF Guard
<1>3. ASSUME NEW r \in Runner, Read(r) PROVE lock' = q
  BY <1>3 DEF Read
<1>4. ASSUME NEW r \in Runner, Statement(r) PROVE lock' = q
  BY <1>4 DEF Statement
<1>5. ASSUME NEW r \in Runner, Poll(r) PROVE lock' = q
  BY <1>5 DEF Poll
<1>6. ASSUME NEW r \in Runner, Commit(r) PROVE lock' = q
  BY <1>6 DEF Commit
<1>7. ASSUME NEW r \in Runner, Fresh(r) PROVE lock' = q
  BY <1>7 DEF Fresh
<1>8. ASSUME NEW r \in Runner, Break(r) PROVE lock' = q
  BY <1>8 DEF Break
<1>9. CASE OutsideReload \/ UNCHANGED vars
  BY <1>9 DEF OutsideReload, vars
<1>10. CASE Restart
  BY <1>10 DEF Restart
<1>11. ASSUME NEW c \in Cell, Drift(c) PROVE lock' = q
  BY <1>11 DEF Drift
<1> QED
  BY <1>1, <1>2, <1>3, <1>4, <1>5, <1>6, <1>7, <1>8, <1>9, <1>10, <1>11
     DEF Next, Advance

LEMMA TypeStep == TypeOK /\ [Next]_vars => TypeOK'
<1> SUFFICES ASSUME TypeOK, [Next]_vars PROVE TypeOK'
  OBVIOUS
<1>1. ASSUME NEW r \in Runner, NEW b \in Bundle, NEW a \in Action, Command(r, b, a)
      PROVE  TypeOK'
  BY <1>1 DEF TypeOK, Command, Goto, target, Step
<1>2. ASSUME NEW r \in Runner, Guard(r) PROVE TypeOK'
  BY <1>2 DEF TypeOK, Guard, Goto, target, Step
<1>3. ASSUME NEW r \in Runner, Read(r) PROVE TypeOK'
  <2>1. CASE Verified(r) /\ Exit(r)
    BY <1>3, <2>1, ExitType, VerifiedType DEF TypeOK, Read, target
  <2>2. CASE /\ Goto(r, IF job[r].bundle \in Object THEN "transaction" ELSE "run")
             /\ UNCHANGED <<lock, job, next, told>>
    <3>1. Statements(job[r].bundle) \in Nat /\ Statements(job[r].bundle) >= 1
      BY JobType, Batch DEF Statements
    <3>2. next[r] = 1
      BY <1>3 DEF TypeOK, Read
    <3>3. file' = file /\ live' = live
      BY <1>3 DEF Read, target
    <3>4. pc' \in [Runner -> Step]
      BY <2>2 DEF Goto, TypeOK, Step
    <3>5. \A q \in Runner :
             next'[q] \in IF pc'[q] \in {"run", "poll"}
                         THEN 1..Statements(job'[q].bundle) ELSE {1}
      BY <2>2, <3>1, <3>2 DEF TypeOK, Goto
    <3> QED
      BY <2>2, <3>3, <3>4, <3>5 DEF TypeOK
  <2> QED
    BY <1>3, <2>1, <2>2 DEF Read
<1>4. ASSUME NEW r \in Runner, Statement(r) PROVE TypeOK'
  <2> DEFINE j == job[r]
  <2>1. PICK i \in 1..Len(Changes[j.bundle]) : StatementAt(r, i)
    BY <1>4, StatementTaken
  <2>2. pc[r] = "run" /\ next[r] \in 1..Statements(j.bundle) /\ Statements(j.bundle) \in Nat
    BY <1>4, JobType, Batch DEF Statement, TypeOK, Statements
  <2>3. file' \in [Cell -> Value] /\ live' \in [Cell -> Value]
    <3>1. CASE Alter(j, i)
      <4>1. New(j, Changed(j, i)) \in Value
        BY NewType
      <4> QED
        BY <3>1, <4>1 DEF Alter, TypeOK
    <3>2. CASE SignalReload
      <4>1. Reloaded \in [Cell -> Value]
        BY DEF Reloaded, TypeOK
      <4> QED
        BY <3>2, <4>1 DEF SignalReload, TypeOK
    <3> QED
      BY <2>1, <3>1, <3>2 DEF StatementAt
  <2>4. told' \in [Bundle -> {"nothing", "prior", "applied"}]
    BY <1>4, JobType DEF Statement, TypeOK
  <2>5. CASE Exit(r)
    BY <2>3, <2>4, <2>5, ExitType DEF TypeOK
  <2>6. CASE Goto(r, "poll") /\ UNCHANGED <<lock, job, next>>
    BY <2>2, <2>3, <2>4, <2>6 DEF TypeOK, Goto, Step
  <2>7. CASE ~LastOf(r) /\ next' = [next EXCEPT ![r] = @ + 1] /\ UNCHANGED <<pc, lock, job>>
    <3>1. next[r] + 1 \in 1..Statements(j.bundle)
      BY <2>2, <2>7 DEF LastOf
    <3>2. next' \in [Runner -> Nat]
      BY <2>2, <2>7, <3>1 DEF TypeOK
    <3>3. \A q \in Runner :
             next'[q] \in IF pc'[q] \in {"run", "poll"}
                         THEN 1..Statements(job'[q].bundle) ELSE {1}
      BY <2>2, <2>7, <3>1 DEF TypeOK
    <3> QED
      BY <2>3, <2>4, <2>7, <3>2, <3>3 DEF TypeOK
  <2> QED
    BY <1>4, <2>5, <2>6, <2>7 DEF Statement
<1>5. ASSUME NEW r \in Runner, Poll(r) PROVE TypeOK'
  BY <1>5, ExitType, VerifiedType DEF TypeOK, Poll, target
<1>6. ASSUME NEW r \in Runner, Commit(r) PROVE TypeOK'
  <2>1. file' \in [Cell -> Value] /\ live' \in [Cell -> Value]
    BY <1>6, NewType DEF Commit, TypeOK
  <2>2. told' \in [Bundle -> {"nothing", "prior", "applied"}]
    BY <1>6, JobType DEF Commit, TypeOK
  <2>3. pc' = [pc EXCEPT ![r] = "fresh"] /\ job' = job /\ next' = next
    BY <1>6 DEF Commit, Goto
  <2>4. pc[r] = "transaction" /\ lock' \in Runner \cup {Nobody}
    BY <1>6 DEF Commit, TypeOK
  <2> QED
    BY <2>1, <2>2, <2>3, <2>4 DEF TypeOK, Step
<1>7. ASSUME NEW r \in Runner, Fresh(r) PROVE TypeOK'
  BY <1>7, ExitType, VerifiedType DEF TypeOK, Fresh, target
<1>8. ASSUME NEW r \in Runner, Break(r) PROVE TypeOK'
  BY <1>8, ExitType DEF TypeOK, Break, target
<1>9. CASE OutsideReload
  BY <1>9 DEF OutsideReload, Reload, Reloaded, TypeOK
<1>10. CASE Restart
  <2>1. NoJob \in [bundle: Bundle, action: Action]
    BY BatchAssumption DEF NoJob, Bundle, Action
  <2>2. /\ pc' \in [Runner -> Step] /\ next' \in [Runner -> Nat]
        /\ job' \in [Runner -> [bundle: Bundle, action: Action]]
    BY <1>10, <2>1 DEF Restart, TypeOK, Step
  <2>3. \A q \in Runner :
           next'[q] \in IF pc'[q] \in {"run", "poll"}
                       THEN 1..Statements(job'[q].bundle) ELSE {1}
    BY <1>10 DEF Restart, TypeOK, Connected
  <2> QED
    BY <1>10, <2>2, <2>3 DEF Restart, TypeOK
<1>11. ASSUME NEW c \in Cell, Drift(c) PROVE TypeOK'
  <2>1. \A v \in {{}, Drifted} : v \in Value
    BY DEF Value
  <2> QED
    BY <1>11, <2>1 DEF Drift, TypeOK
<1>12. CASE UNCHANGED vars
  BY <1>12 DEF vars, TypeOK
<1> QED
  BY <1>1, <1>2, <1>3, <1>4, <1>5, <1>6, <1>7, <1>8, <1>9, <1>10, <1>11, <1>12
     DEF Next, Advance

----------------------------------------------------------------------------
(* The files during a command. *)

\* The lock lets one command at a time near the target.
LEMMA Exclusive ==
    ASSUME LockHeld, NEW r \in Runner, NEW q \in Runner,
           pc[r] \in Connected, pc[q] \in Connected
    PROVE  r = q
  BY DEF LockHeld

\* Nobody disturbs a command whose files and place stay as they are.
LEMMA RunKept ==
    ASSUME NEW q \in Runner, InRun(q), InTransaction(q),
           pc'[q] \in {"run", "transaction"} =>
               pc'[q] = pc[q] /\ job'[q] = job[q] /\ next'[q] = next[q],
           file' = file
    PROVE  InRun(q)' /\ InTransaction(q)'
  BY DEF InRun, InTransaction, FileAt

LEMMA RunStep ==
    IInv /\ [Next]_vars => \A q \in Runner : InRun(q)' /\ InTransaction(q)'
<1> SUFFICES ASSUME IInv, [Next]_vars, NEW q \in Runner
             PROVE  InRun(q)' /\ InTransaction(q)'
  OBVIOUS
<1> TypeOK /\ LockHeld /\ InRun(q) /\ InTransaction(q)
  BY DEF IInv
<1>1. ASSUME NEW r \in Runner, NEW b \in Bundle, NEW a \in Action, Command(r, b, a)
      PROVE  InRun(q)' /\ InTransaction(q)'
  BY <1>1, RunKept DEF Command, Goto, TypeOK, target
<1>2. ASSUME NEW r \in Runner, Guard(r) PROVE InRun(q)' /\ InTransaction(q)'
  BY <1>2, RunKept DEF Guard, Goto, TypeOK, target
<1>3. ASSUME NEW r \in Runner, Read(r) PROVE InRun(q)' /\ InTransaction(q)'
  <2>1. CASE Exit(r)
    BY <1>3, <2>1, RunKept DEF Read, Exit, Goto, TypeOK, target
  <2>2. CASE q # r
    BY <1>3, <2>2, RunKept DEF Read, Exit, Goto, TypeOK, target
  <2>3. CASE q = r /\ ~Exit(r)
    <3>1. /\ job[q].action \in {"apply", "rollback"}
          /\ Matches(job[q].bundle, Expected(job[q]))
          /\ job' = job /\ next' = next /\ file' = file /\ next[q] = 1
      BY <1>3, <2>3 DEF Read, target, TypeOK
    <3>2. FileAt(file, job[q], 1)
      BY <3>1, FilesAtStart
    <3> QED
      BY <3>1, <3>2 DEF InRun, InTransaction
  <2> QED
    BY <2>1, <2>2, <2>3
<1>4. ASSUME NEW r \in Runner, Statement(r) PROVE InRun(q)' /\ InTransaction(q)'
  <2>1. PICK i \in 1..Len(Changes[job[r].bundle]) : StatementAt(r, i)
    BY <1>4, StatementTaken
  <2>2. pc[r] = "run" /\ FileAt(file', job[r], next[r] + 1)
    BY <1>4, <2>1, FilesFollow DEF Statement, IInv
  <2>3. CASE q = r
    <3>1. SUFFICES ASSUME pc'[q] \in {"run", "transaction"} PROVE InRun(q)' /\ InTransaction(q)'
      BY DEF InRun, InTransaction
    <3>2. pc' = pc /\ job' = job /\ next'[q] = next[q] + 1
      BY <1>4, <2>3, <3>1 DEF Statement, Exit, Goto, TypeOK
    <3> QED
      BY <2>2, <2>3, <3>2 DEF InRun, InTransaction
  <2>4. CASE q # r
    <3>1. pc'[q] = pc[q]
      BY <1>4, <2>4 DEF Statement, Exit, Goto, TypeOK
    <3>2. pc[q] \notin Connected
      BY <2>2, <2>4, Exclusive DEF Connected
    <3> QED
      BY <3>1, <3>2 DEF InRun, InTransaction, Connected
  <2> QED
    BY <2>3, <2>4
<1>5. ASSUME NEW r \in Runner, Poll(r) PROVE InRun(q)' /\ InTransaction(q)'
  BY <1>5, RunKept DEF Poll, Exit, Goto, TypeOK, target
<1>6. ASSUME NEW r \in Runner, Commit(r) PROVE InRun(q)' /\ InTransaction(q)'
  <2>1. pc[r] \in Connected /\ pc' = [pc EXCEPT ![r] = "fresh"]
    BY <1>6 DEF Commit, Goto, Connected
  <2>2. pc'[q] \notin {"run", "transaction"}
    BY <2>1, Exclusive DEF Connected, TypeOK
  <2> QED
    BY <2>2 DEF InRun, InTransaction
<1>7. ASSUME NEW r \in Runner, Fresh(r) PROVE InRun(q)' /\ InTransaction(q)'
  BY <1>7, RunKept DEF Fresh, Exit, Goto, TypeOK, target
<1>8. ASSUME NEW r \in Runner, Break(r) PROVE InRun(q)' /\ InTransaction(q)'
  BY <1>8, RunKept DEF Break, Exit, Goto, TypeOK, target
<1>9. CASE OutsideReload \/ UNCHANGED vars
  BY <1>9, RunKept DEF OutsideReload, Reload, vars, target
<1>10. CASE Restart
  BY <1>10 DEF Restart, InRun, InTransaction, Connected
<1>11. ASSUME NEW c \in Cell, Drift(c) PROVE InRun(q)' /\ InTransaction(q)'
  <2>1. \A d \in Cells(job[q].bundle) : file'[d] = file[d]
    BY <1>11, JobType, Batch DEF Drift, TypeOK
  <2>2. pc' = pc /\ job' = job /\ next' = next
    BY <1>11 DEF Drift
  <2>3. \A k \in 1..Len(Changes[job[q].bundle]) :
           Changes[job[q].bundle][k] \in Cells(job[q].bundle)
    BY JobType, Batch
  <2> QED
    BY <2>1, <2>2, <2>3 DEF InRun, InTransaction, FileAt
<1> QED
  BY <1>1, <1>2, <1>3, <1>4, <1>5, <1>6, <1>7, <1>8, <1>9, <1>10, <1>11
     DEF Next, Advance

----------------------------------------------------------------------------
(* The answers. *)

\* An answer is true when it is given.
LEMMA VerifiedTrue ==
    ASSUME TypeOK, VerifiedStaysTrue, NEW r \in Runner, Verified(r),
           Matches(job[r].bundle, Wanted(job[r])), file' = file, live' = live
    PROVE  VerifiedStaysTrue'
<1> DEFINE q == job[r].bundle
<1> SUFFICES ASSUME NEW b \in Bundle PROVE ToldTrue(b)'
  BY DEF VerifiedStaysTrue
<1>1. q \in Bundle /\ Cells(q) \subseteq Scope[q]
  BY JobType, Batch
<1>2. CASE b # q
  <2>1. told'[b] = told[b]
    BY <1>2 DEF Verified, TypeOK
  <2> QED
    BY <2>1 DEF VerifiedStaysTrue, ToldTrue, Holds
<1>3. CASE b = q
  <2>1. CASE job[r].action \in {"apply", "verify"}
    <3>1. told'[q] = "applied"
      BY <1>1, <2>1 DEF Verified, TypeOK
    <3>2. \A c \in Cells(q) : q \in file[c] /\ q \in live[c]
      BY <1>1, <2>1, TestedValue, Batch DEF Matches, Wanted
    <3> QED
      BY <1>3, <3>1, <3>2 DEF ToldTrue, Holds
  <2>2. CASE job[r].action \notin {"apply", "verify"}
    <3>1. told'[q] = "prior"
      BY <1>1, <2>2 DEF Verified, TypeOK
    <3>2. \A c \in Cells(q) : q \notin file[c] /\ q \notin live[c]
      BY <1>1, <2>2, TestedValue, Batch DEF Matches, Wanted
    <3> QED
      BY <1>3, <3>1, <3>2 DEF ToldTrue, Holds
  <2> QED
    BY <2>1, <2>2
<1> QED
  BY <1>2, <1>3

LEMMA ToldKept ==
    ASSUME VerifiedStaysTrue, file' = file, told' = told,
           \A b \in Bundle : \A c \in Cells(b) : live'[c] \in {live[c], file[c]}
    PROVE  VerifiedStaysTrue'
  BY DEF VerifiedStaysTrue, ToldTrue, Holds

\* The commit of an object fix leaves every other fix where it was.
LEMMA CommitKeeps ==
    ASSUME IInv, NEW r \in Runner, Commit(r), NEW b \in Bundle,
           b # job[r].bundle, NEW c \in Cells(b)
    PROVE  /\ b \in file'[c] <=> b \in file[c]
           /\ b \in live'[c] <=> b \in live[c]
<1> DEFINE j == job[r]
           q == job[r].bundle
<1>1. TypeOK /\ j.action \in {"apply", "rollback"} /\ Matches(q, Expected(j)) /\ q \in Bundle
  BY JobType DEF IInv, InTransaction, Commit
<1>2. c \in Cell
  BY Batch
<1>3. CASE c \notin Cells(q)
  BY <1>2, <1>3 DEF Commit
<1>4. CASE c \in Cells(q)
  <2>1. file'[c] = New(j, c) /\ live'[c] = New(j, c)
    BY <1>2, <1>4 DEF Commit
  <2>2. file[c] = Tested(c, Expected(j)) /\ live[c] = Tested(c, Expected(j))
    BY <1>1, <1>4, Batch DEF Matches
  <2>3. b \in Tested(c, q) <=> b \in Tested(c, q - 1)
    BY <1>1, TestedValue, Batch
  <2> QED
    BY <1>1, <2>1, <2>2, <2>3 DEF New, Expected
<1> QED
  BY <1>3, <1>4

LEMMA ToldStep == IInv /\ [Next]_vars => VerifiedStaysTrue'
<1> SUFFICES ASSUME IInv, [Next]_vars PROVE VerifiedStaysTrue'
  OBVIOUS
<1> TypeOK /\ LockHeld /\ VerifiedStaysTrue /\ \A q \in Runner : InRun(q)
  BY DEF IInv
<1>1. ASSUME NEW r \in Runner, NEW b \in Bundle, NEW a \in Action, Command(r, b, a)
      PROVE  VerifiedStaysTrue'
  BY <1>1, ToldKept DEF Command, target
<1>2. ASSUME NEW r \in Runner, Guard(r) PROVE VerifiedStaysTrue'
  BY <1>2, ToldKept DEF Guard, target
<1>3. ASSUME NEW r \in Runner, Read(r) PROVE VerifiedStaysTrue'
  <2>1. CASE told' = told
    BY <1>3, <2>1, ToldKept DEF Read, target
  <2>2. CASE Verified(r) /\ Matches(job[r].bundle, Wanted(job[r]))
    BY <1>3, <2>2, VerifiedTrue DEF Read, target
  <2> QED
    BY <1>3, <2>1, <2>2 DEF Read
<1>4. ASSUME NEW r \in Runner, Statement(r) PROVE VerifiedStaysTrue'
  <2>1. PICK i \in 1..Len(Changes[job[r].bundle]) : StatementAt(r, i)
    BY <1>4, StatementTaken
  <2>2. told' = [told EXCEPT ![job[r].bundle] = "nothing"] /\ pc[r] = "run"
    BY <1>4 DEF Statement
  <2> SUFFICES ASSUME NEW b \in Bundle PROVE ToldTrue(b)'
    BY DEF VerifiedStaysTrue
  <2>3. CASE b = job[r].bundle
    BY <2>2, <2>3 DEF ToldTrue, TypeOK
  <2>4. CASE b # job[r].bundle
    <3>1. told'[b] = told[b]
      BY <2>2, <2>4 DEF TypeOK
    <3>2. \A c \in Cells(b) : b \in file'[c] <=> b \in file[c]
      BY <2>1, <2>2, <2>4, OthersKept
    <3>3. \A c \in Cells(b) : live'[c] \in {live[c], file[c]}
      BY <2>1, Effect, Batch
    <3> QED
      BY <3>1, <3>2, <3>3 DEF VerifiedStaysTrue, ToldTrue, Holds
  <2> QED
    BY <2>3, <2>4
<1>5. ASSUME NEW r \in Runner, Poll(r) PROVE VerifiedStaysTrue'
  BY <1>5, VerifiedTrue DEF Poll, target
<1>6. ASSUME NEW r \in Runner, Commit(r) PROVE VerifiedStaysTrue'
  <2>1. told' = [told EXCEPT ![job[r].bundle] = "nothing"]
    BY <1>6 DEF Commit
  <2> SUFFICES ASSUME NEW b \in Bundle PROVE ToldTrue(b)'
    BY DEF VerifiedStaysTrue
  <2>2. CASE b = job[r].bundle
    BY <2>1, <2>2 DEF ToldTrue, TypeOK
  <2>3. CASE b # job[r].bundle
    <3>1. told'[b] = told[b]
      BY <2>1, <2>3 DEF TypeOK
    <3>2. \A c \in Cells(b) : /\ b \in file'[c] <=> b \in file[c]
                              /\ b \in live'[c] <=> b \in live[c]
      BY <1>6, <2>3, CommitKeeps
    <3>3. ToldTrue(b)
      BY DEF VerifiedStaysTrue
    <3>4. \A c \in Cells(b) : /\ Holds(b, c)' <=> Holds(b, c)
                              /\ b \in live'[c] <=> b \in live[c]
      BY <3>2 DEF Holds
    <3> QED
      BY <3>1, <3>3, <3>4 DEF ToldTrue
  <2> QED
    BY <2>2, <2>3
<1>7. ASSUME NEW r \in Runner, Fresh(r) PROVE VerifiedStaysTrue'
  BY <1>7, VerifiedTrue DEF Fresh, target
<1>8. ASSUME NEW r \in Runner, Break(r) PROVE VerifiedStaysTrue'
  BY <1>8, ToldKept DEF Break, target
<1>9. CASE OutsideReload
  <2>1. \A b \in Bundle : \A c \in Cells(b) : live'[c] \in {live[c], file[c]}
    BY <1>9, Batch DEF OutsideReload, Reload, Reloaded
  <2> QED
    BY <1>9, <2>1, ToldKept DEF OutsideReload, Reload
<1>10. CASE Restart
  BY <1>10, ToldKept DEF Restart
<1>11. ASSUME NEW c \in Cell, Drift(c) PROVE VerifiedStaysTrue'
  <2>1. \A b \in Bundle : \A d \in Cells(b) : file'[d] = file[d] /\ live'[d] = live[d]
    BY <1>11, Batch DEF Drift, TypeOK
  <2> QED
    BY <1>11, <2>1 DEF Drift, VerifiedStaysTrue, ToldTrue, Holds
<1>12. CASE UNCHANGED vars
  BY <1>12, ToldKept DEF vars, target
<1> QED
  BY <1>1, <1>2, <1>3, <1>4, <1>5, <1>6, <1>7, <1>8, <1>9, <1>10, <1>11, <1>12
     DEF Next, Advance

----------------------------------------------------------------------------
(* The order, for batches whose guards see each other. *)

\* A guard that passes has seen exactly the earlier fixes in effect.
LEMMA GuardAround ==
    ASSUME Linked, TypeOK, FirstIn, NEW r \in Runner,
           Matches(job[r].bundle, Expected(job[r])),
           job[r].action \in {"apply", "rollback"}
    PROVE  Around(job[r].bundle)
<1> DEFINE q == job[r].bundle
<1>1. q \in Bundle
  BY JobType
<1>2. ASSUME NEW a \in Bundle, a < q PROVE InEffect(a)
  <2>1. Cells(a) \subseteq Scope[q]
    BY <1>1, <1>2 DEF Linked
  <2> QED
    BY <1>2, <2>1, GuardSeen DEF InEffect, Holds
<1>3. ASSUME NEW b \in Bundle, q < b PROVE Absent(b)
  <2>1. Changes[b][1] \in Scope[q] /\ Changes[b][1] \in Cells(b)
    BY <1>1, <1>3, Batch DEF Linked
  <2>2. ~Holds(b, Changes[b][1])
    BY <1>3, <2>1, GuardSeen DEF Holds
  <2> QED
    BY <2>2 DEF FirstIn, Absent
<1> QED
  BY <1>2, <1>3 DEF Around

\* The order survives whatever leaves the files of the fixes alone and takes
\* values over from them.
LEMMA OrderKept ==
    ASSUME PrecedingInEffect, FirstIn,
           \A b \in Bundle : \A c \in Cells(b) :
               file'[c] = file[c] /\ live'[c] \in {live[c], file[c]}
    PROVE  /\ PrecedingInEffect' /\ FirstIn'
           /\ \A q \in Bundle : Around(q) => Around(q)'
<1>1. \A b \in Bundle : \A c \in Cells(b) : Holds(b, c)' <=> Holds(b, c)
  BY DEF Holds
<1>2. \A b \in Bundle : InEffect(b) => InEffect(b)'
  BY <1>1 DEF InEffect, Holds
<1>3. \A b \in Bundle : Absent(b) => Absent(b)'
  BY <1>1 DEF Absent
<1>4. PrecedingInEffect'
  BY <1>1, <1>2 DEF PrecedingInEffect
<1>5. FirstIn'
  <2>1. \A b \in Bundle : Changes[b][1] \in Cells(b)
    BY Batch
  <2> QED
    BY <1>1, <2>1 DEF FirstIn
<1> QED
  BY <1>2, <1>3, <1>4, <1>5 DEF Around

\* SQL of fix q, between the fixes before it and after it, keeps the order.
LEMMA OrderWritten ==
    ASSUME NEW q \in Bundle, PrecedingInEffect, FirstIn, Around(q),
           \A b \in Bundle \ {q} : \A c \in Cells(b) :
               /\ b \in file'[c] <=> b \in file[c]
               /\ b \in file[c] /\ b \in live[c] => b \in live'[c],
           \A c \in Cells(q) : Holds(q, c)' => Holds(q, Changes[q][1])'
    PROVE  PrecedingInEffect' /\ FirstIn' /\ Around(q)'
<1>1. \A b \in Bundle \ {q} : \A c \in Cells(b) : Holds(b, c)' <=> Holds(b, c)
  BY DEF Holds
<1>2. \A b \in Bundle \ {q} : InEffect(b) => InEffect(b)'
  BY <1>1 DEF InEffect, Holds
<1>3. \A b \in Bundle \ {q} : Absent(b) => Absent(b)'
  BY <1>1 DEF Absent
<1>4. Around(q)'
  <2>1. \A a \in Bundle : a < q => a \in Bundle \ {q}
    BY Batch
  <2>2. \A b \in Bundle : q < b => b \in Bundle \ {q}
    BY Batch
  <2> QED
    BY <1>2, <1>3, <2>1, <2>2 DEF Around
<1>5. FirstIn'
  <2>1. \A b \in Bundle : Changes[b][1] \in Cells(b)
    BY Batch
  <2> QED
    BY <1>1, <2>1 DEF FirstIn
<1>6. PrecedingInEffect'
  <2> SUFFICES ASSUME NEW a \in Bundle, NEW b \in Bundle, a < b,
                      NEW c \in Cells(b), Holds(b, c)'
               PROVE  InEffect(a)'
    BY DEF PrecedingInEffect
  <2>1. CASE b = q
    BY <1>4, <2>1 DEF Around
  <2>2. CASE b # q
    <3>1. Holds(b, c)
      BY <1>1, <2>2
    <3>2. ~(q < b)
      BY <3>1 DEF Around, Absent
    <3>3. a < q
      BY <2>2, <3>2, Batch
    <3> QED
      BY <1>4, <3>3 DEF Around
  <2> QED
    BY <2>1, <2>2
<1> QED
  BY <1>4, <1>5, <1>6

\* In the middle of a command the first change is in whenever any is.
LEMMA FirstAt ==
    ASSUME NEW j, j.bundle \in Bundle, j.action \in {"apply", "rollback"},
           NEW n \in Nat, NEW f, FileAt(f, j, n), NEW c \in Cells(j.bundle),
           j.bundle \in f[c]
    PROVE  j.bundle \in f[Changes[j.bundle][1]]
<1> DEFINE q == j.bundle
           L == Len(Changes[q])
<1>1. PICK k \in 1..L : c = Changes[q][k]
  BY Batch
<1>2. L \in Nat /\ 1 \in 1..L /\ Changes[q][1] \in Cells(q)
  BY Batch
<1>3. \A d \in Cells(q) : q \in Tested(d, q) /\ q \notin Tested(d, q - 1)
  BY TestedValue, Batch
<1>4. f[c] = IF Past(j, k, n) THEN New(j, c) ELSE Tested(c, Expected(j))
  BY <1>1 DEF FileAt
<1>5. f[Changes[q][1]] = IF Past(j, 1, n) THEN New(j, Changes[q][1])
                         ELSE Tested(Changes[q][1], Expected(j))
  BY <1>2 DEF FileAt
<1>6. CASE j.action = "apply"
  <2>1. Past(j, k, n)
    BY <1>3, <1>4, <1>6 DEF Expected
  <2>2. n >= 2 * k
    BY <1>6, <2>1 DEF Past
  <2>3. Past(j, 1, n)
    BY <1>1, <1>2, <1>6, <2>2 DEF Past
  <2> QED
    BY <1>2, <1>3, <1>5, <1>6, <2>3 DEF New
<1>7. CASE j.action = "rollback"
  <2>1. ~Past(j, k, n)
    BY <1>3, <1>4, <1>7 DEF New
  <2>2. ~(n >= 2 * (L + 1 - k))
    BY <1>7, <2>1 DEF Past
  <2>3. ~(n >= 2 * (L + 1 - 1))
    BY <1>1, <1>2, <2>2
  <2>4. ~Past(j, 1, n)
    BY <1>7, <2>3 DEF Past
  <2> QED
    BY <1>2, <1>3, <1>5, <1>7, <2>4 DEF Expected
<1> QED
  BY <1>6, <1>7

LEMMA OrderStep ==
    ASSUME Linked PROVE IInv /\ OrderInv /\ [Next]_vars => OrderInv'
<1> SUFFICES ASSUME IInv, OrderInv, [Next]_vars PROVE OrderInv'
  OBVIOUS
<1> TypeOK /\ LockHeld /\ PrecedingInEffect /\ FirstIn
  BY DEF IInv, OrderInv
<1>a. ASSUME \A b \in Bundle : \A c \in Cells(b) :
                 file'[c] = file[c] /\ live'[c] \in {live[c], file[c]},
             \A r \in Runner : pc'[r] = "run" =>
                 job'[r] = job[r] /\ Around(job[r].bundle)
      PROVE  OrderInv'
  BY <1>a, OrderKept, JobType DEF OrderInv
<1>b. ASSUME file' = file, live' = live,
             \A r \in Runner : pc'[r] = "run" => pc[r] = "run" /\ job'[r] = job[r]
      PROVE  OrderInv'
  <2>1. \A r \in Runner : pc'[r] = "run" =>
                 job'[r] = job[r] /\ Around(job[r].bundle)
    BY <1>b DEF OrderInv
  <2> QED
    BY <1>a, <1>b, <2>1
<1>1. ASSUME NEW r \in Runner, NEW b \in Bundle, NEW a \in Action, Command(r, b, a)
      PROVE  OrderInv'
  BY <1>1, <1>b DEF Command, Goto, TypeOK, target
<1>2. ASSUME NEW r \in Runner, Guard(r) PROVE OrderInv'
  BY <1>2, <1>b DEF Guard, Goto, TypeOK, target
<1>3. ASSUME NEW r \in Runner, Read(r) PROVE OrderInv'
  <2>1. CASE Exit(r)
    BY <1>3, <1>b, <2>1 DEF Read, Exit, Goto, TypeOK, target
  <2>2. CASE ~Exit(r)
    <3>1. Around(job[r].bundle) /\ job' = job
      BY <1>3, <2>2, GuardAround DEF Read
    <3>2. \A q \in Runner : pc'[q] = "run" => q = r \/ pc[q] = "run"
      BY <1>3, <2>2 DEF Read, Goto, TypeOK
    <3>3. \A q \in Runner : pc'[q] = "run" =>
               job'[q] = job[q] /\ Around(job[q].bundle)
      BY <3>1, <3>2 DEF OrderInv
    <3> QED
      BY <1>3, <1>a, <3>3 DEF Read, target
  <2> QED
    BY <2>1, <2>2
<1>4. ASSUME NEW r \in Runner, Statement(r) PROVE OrderInv'
  <2> PICK q \in Bundle : q = job[r].bundle
    BY JobType
  <2>1. PICK i \in 1..Len(Changes[q]) : StatementAt(r, i)
    BY <1>4, StatementTaken
  <2>2. pc[r] = "run" /\ q \in Bundle /\ InRun(r) /\ Around(q) /\ next[r] + 1 \in Nat
    BY <1>4, JobType DEF Statement, IInv, OrderInv
  <2>3. \A b \in Bundle \ {q} : \A c \in Cells(b) : b \in file'[c] <=> b \in file[c]
    BY <2>1, <2>2, OthersKept
  <2>4. \A b \in Bundle \ {q} : \A c \in Cells(b) : live'[c] \in {live[c], file[c]}
    BY <2>1, Effect, Batch
  <2>5. FileAt(file', job[r], next[r] + 1)
    BY <2>1, <2>2, FilesFollow
  <2>6. \A c \in Cells(q) : Holds(q, c)' => Holds(q, Changes[q][1])'
    <3>1. job[r].action \in {"apply", "rollback"}
      BY <2>2 DEF InRun
    <3> QED
      BY <2>2, <2>5, <3>1, FirstAt DEF Holds
  <2>7. PrecedingInEffect' /\ FirstIn' /\ Around(q)'
    BY <2>2, <2>3, <2>4, <2>6, OrderWritten
  <2>8. \A x \in Runner : pc'[x] = "run" => x = r
    <3>1. \A x \in Runner : pc'[x] = "run" => x = r \/ pc[x] = "run"
      BY <1>4 DEF Statement, Exit, Goto, TypeOK
    <3> QED
      BY <2>2, <3>1, Exclusive DEF Connected
  <2>9. pc'[r] = "run" => job' = job
    BY <1>4 DEF Statement, Exit, Goto, TypeOK
  <2> QED
    BY <2>7, <2>8, <2>9 DEF OrderInv
<1>5. ASSUME NEW r \in Runner, Poll(r) PROVE OrderInv'
  BY <1>5, <1>b DEF Poll, Exit, Goto, TypeOK, target
<1>6. ASSUME NEW r \in Runner, Commit(r) PROVE OrderInv'
  <2> DEFINE j == job[r]
  <2> PICK q \in Bundle : q = j.bundle
    BY JobType
  <2>1. pc[r] = "transaction" /\ q \in Bundle /\ j.action \in {"apply", "rollback"}
    BY <1>6, JobType DEF Commit, IInv, InTransaction
  <2>2. Around(q)
    BY <1>6, <2>1, GuardAround DEF Commit
  <2>3. \A b \in Bundle \ {q} : \A c \in Cells(b) :
            /\ b \in file'[c] <=> b \in file[c]
            /\ b \in file[c] /\ b \in live[c] => b \in live'[c]
    BY <1>6, CommitKeeps
  <2>4. \A c \in Cells(q) : file'[c] = New(j, c)
    BY <1>6, <2>1, Batch DEF Commit
  <2>5. \A c, d \in Cells(q) : q \in New(j, c) => q \in New(j, d)
    BY <2>1, TestedValue, Batch DEF New
  <2>6. \A c \in Cells(q) : Holds(q, c)' => Holds(q, Changes[q][1])'
    BY <2>1, <2>4, <2>5, Batch DEF Holds
  <2>7. PrecedingInEffect' /\ FirstIn'
    BY <2>1, <2>2, <2>3, <2>6, OrderWritten
  <2>8. \A x \in Runner : pc'[x] # "run"
    <3>1. \A x \in Runner : pc'[x] = "run" => x # r /\ pc[x] = "run"
      BY <1>6 DEF Commit, Goto, TypeOK
    <3> QED
      BY <2>1, <3>1, Exclusive DEF Connected
  <2> QED
    BY <2>7, <2>8 DEF OrderInv
<1>7. ASSUME NEW r \in Runner, Fresh(r) PROVE OrderInv'
  BY <1>7, <1>b DEF Fresh, Exit, Goto, TypeOK, target
<1>8. ASSUME NEW r \in Runner, Break(r) PROVE OrderInv'
  BY <1>8, <1>b DEF Break, Exit, Goto, TypeOK, target
<1>9. CASE OutsideReload
  <2>1. \A b \in Bundle : \A c \in Cells(b) :
            file'[c] = file[c] /\ live'[c] \in {live[c], file[c]}
    BY <1>9, Batch DEF OutsideReload, Reload, Reloaded
  <2> QED
    BY <1>9, <1>a, <2>1 DEF OutsideReload, OrderInv
<1>10. CASE Restart
  <2>1. \A r \in Runner : pc'[r] # "run"
    BY <1>10 DEF Restart, Connected
  <2> QED
    BY <1>10, <1>a, <2>1 DEF Restart
<1>11. ASSUME NEW c \in Cell, Drift(c) PROVE OrderInv'
  <2>1. \A b \in Bundle : \A d \in Cells(b) : file'[d] = file[d] /\ live'[d] = live[d]
    BY <1>11, Batch DEF Drift, TypeOK
  <2> QED
    BY <1>11, <1>a, <2>1 DEF Drift, OrderInv
<1>12. CASE UNCHANGED vars
  BY <1>12, <1>b DEF vars, target
<1> QED
  BY <1>1, <1>2, <1>3, <1>4, <1>5, <1>6, <1>7, <1>8, <1>9, <1>10, <1>11, <1>12
     DEF Next, Advance

----------------------------------------------------------------------------
(* The theorems. *)

LEMMA InitInv == Init => IInv /\ OrderInv
<1> SUFFICES ASSUME Init PROVE IInv /\ OrderInv
  OBVIOUS
<1>1. NoJob \in [bundle: Bundle, action: Action] /\ {} \in Value
  BY BatchAssumption DEF NoJob, Bundle, Action, Value
<1>2. TypeOK
  BY <1>1 DEF Init, TypeOK, Step
<1>3. LockHeld /\ VerifiedStaysTrue /\ \A r \in Runner : InRun(r) /\ InTransaction(r)
  BY DEF Init, LockHeld, Connected, VerifiedStaysTrue, ToldTrue, InRun, InTransaction
<1>4. \A b \in Bundle : \A c \in Cells(b) : ~Holds(b, c)
  BY Batch DEF Init, Holds
<1>5. OrderInv
  BY <1>4 DEF OrderInv, PrecedingInEffect, FirstIn, Init
<1> QED
  BY <1>2, <1>3, <1>5 DEF IInv

THEOREM Inductive == Spec => []IInv
<1>1. IInv /\ [Next]_vars => IInv'
  BY TypeStep, LockStep, ToldStep, RunStep DEF IInv
<1> QED
  BY <1>1, InitInv, PTL DEF Spec

\* The variables keep their types, and a command its place in its statements.
THEOREM TypeCorrect == Spec => []TypeOK
  BY Inductive, PTL DEF IInv

\* A "verified" that was told stays true until SQL of the same fix runs again,
\* for any batch, whatever the scopes of the guards.
THEOREM VerifiedStays == Spec => []VerifiedStaysTrue
  BY Inductive, PTL DEF IInv

\* SQL of two commands never mixes.
THEOREM OneWriterAtATime == Spec => []OneWriter
<1>1. IInv => OneWriter
  BY DEF IInv, LockHeld, OneWriter, Connected
<1> QED
  BY <1>1, Inductive, PTL

\* With guards that see each other, no part of a fix is on the target unless
\* every earlier fix is completely in effect.
THEOREM TestedOrderKept == ASSUME Linked PROVE Spec => []PrecedingInEffect
<1>1. IInv /\ OrderInv /\ [Next]_vars => OrderInv'
  BY OrderStep
<1>2. OrderInv => PrecedingInEffect
  BY DEF OrderInv
<1> QED
  BY <1>1, <1>2, InitInv, Inductive, PTL DEF Spec
=============================================================================
