------------------------- MODULE HandoffServiceProofs -------------------------
(***************************************************************************)
(* The safety properties of HandoffService for any number of requests,     *)
(* handles, slots and kept bundles.                                        *)
(***************************************************************************)
EXTENDS HandoffService, TLAPS

----------------------------------------------------------------------------
(* The inductive invariant. *)

\* A request that was let through claimed its handle for good.
Claimed ==
    \A c \in Call : LetThrough(c) /\ target[c] # Direct =>
        /\ status[target[c]] \notin {"UNISSUED", "PREPARED"}
        /\ \A d \in Call : LetThrough(d) /\ target[d] = target[c] => d = c

\* Who works on a handle was let through; who has yet to ask was not.
WorkersClaimed ==
    \A c \in Call :
        /\ pc[c] \in Working /\ target[c] # Direct => LetThrough(c)
        /\ pc[c] \in {"idle", "begin", "lookup"} => ~LetThrough(c)
        /\ pc[c] \in {"begin", "lookup"} => target[c] # Direct

\* The run is in the history, with its bundle if that was announced.
Stored(r) == history[r] = Row(r)

\* A run whose result someone was given: over, stored, and let through.
Settled(r) == /\ pc[r] = "done" /\ Stored(r)
              /\ target[r] # Direct => LetThrough(r)

Finishing == \A c \in Call : pc[c] = "finish" => Stored(c)

SavedIsSettled ==
    \A h \in Handle : saved[h] \in Call => Settled(saved[h]) /\ target[saved[h]] = h

AnsweredIsSettled ==
    \A c \in Call : answer[c] \in Call =>
        /\ pc[c] = "done"
        /\ Settled(answer[c]) /\ target[answer[c]] = target[c]

IInv == /\ TypeOK /\ RunningStays
        /\ Claimed /\ WorkersClaimed /\ Finishing
        /\ SavedIsSettled /\ AnsweredIsSettled

----------------------------------------------------------------------------
\* Removing one element of the store's order and adding another keeps it a
\* sequence of handles of the same length.
LEMMA Replace ==
    ASSUME NEW S, NEW s \in Seq(S), NEW i \in DOMAIN s, NEW x \in S
    PROVE  LET t == Append(SubSeq(s, 1, i - 1) \o SubSeq(s, i + 1, Len(s)), x)
           IN  t \in Seq(S) /\ Len(t) = Len(s)
<1> DEFINE a == SubSeq(s, 1, i - 1)
           b == SubSeq(s, i + 1, Len(s))
<1>1. i \in 1..Len(s) /\ Len(s) \in Nat
  OBVIOUS
<1>2. a \in Seq(S) /\ Len(a) = i - 1
  BY <1>1
<1>3. b \in Seq(S) /\ Len(b) = Len(s) - i
  BY <1>1
<1>4. a \o b \in Seq(S) /\ Len(a \o b) = Len(s) - 1
  <2> HIDE DEF a, b
  <2> QED BY <1>1, <1>2, <1>3
<1> QED BY <1>1, <1>4

\* The bounded list of bundles stays within its capacity.
LEMMA KeptBounded ==
    ASSUME NEW s \in Seq(Call), Len(s) <= Capacity, NEW c \in Call
    PROVE  Kept(Append(s, c)) \in Seq(Call) /\ Len(Kept(Append(s, c))) <= Capacity
<1>1. Append(s, c) \in Seq(Call) /\ Len(Append(s, c)) = Len(s) + 1
  OBVIOUS
<1>2. CASE Len(s) + 1 > Capacity
  BY <1>1, <1>2, BoundsAssumption DEF Kept
<1>3. CASE ~(Len(s) + 1 > Capacity)
  BY <1>1, <1>3, BoundsAssumption DEF Kept
<1> QED BY <1>2, <1>3

----------------------------------------------------------------------------
LEMMA InitInv == Init => IInv
BY BoundsAssumption, AnswerAssumption
   DEF Init, IInv, TypeOK, RunningStays, Claimed, WorkersClaimed, Finishing,
       SavedIsSettled, AnsweredIsSettled, LetThrough, Settled, Status, Pc,
       Working, Answer

LEMMA StepInv == IInv /\ [Next]_vars => IInv'
<1> SUFFICES ASSUME IInv, [Next]_vars PROVE IInv'
  OBVIOUS
<1> USE DirectAssumption, BoundsAssumption, AnswerAssumption
<1>1. ASSUME NEW h \in Handle, Prepare(h) PROVE IInv'
  <2>1. CASE Len(order) < Limit
    <3>1. order' = Append(order, h) /\ status' = [status EXCEPT ![h] = "PREPARED"]
      <4>1. Len(order) \in Nat
        BY DEF IInv, TypeOK
      <4> QED BY <1>1, <2>1, <4>1 DEF Prepare, Queued
    <3>2. order' \in Seq(Handle) /\ Len(order') <= Limit
      <4>1. order \in Seq(Handle) /\ Len(order) \in Nat
        BY DEF IInv, TypeOK
      <4> QED BY <2>1, <3>1, <4>1
    <3>3. TypeOK'
      BY <1>1, <3>1, <3>2 DEF Prepare, IInv, TypeOK, Status, Pc, Answer
    <3>4. RunningStays' /\ Claimed' /\ WorkersClaimed'
      BY <1>1, <3>1
      DEF Prepare, IInv, TypeOK, RunningStays, Claimed, WorkersClaimed,
          LetThrough
    <3>5. Finishing' /\ SavedIsSettled' /\ AnsweredIsSettled'
      BY <1>1
      DEF Prepare, IInv, Finishing, SavedIsSettled, AnsweredIsSettled,
          Settled, Stored, Row, LetThrough
    <3> QED BY <3>3, <3>4, <3>5 DEF IInv
  <2>2. CASE Len(order) >= Limit
    <3>1. PICK i \in DOMAIN order :
            /\ Oldest(i)
            /\ Queued(SubSeq(order, 1, i - 1) \o
                      SubSeq(order, i + 1, Len(order)), h)
            /\ status' = [status EXCEPT ![order[i]] = "EXPIRED",
                                        ![h] = "PREPARED"]
      BY <1>1, <2>2 DEF Prepare, IInv, TypeOK
    <3>2. TypeOK'
      <4>1. order' \in Seq(Handle) /\ Len(order') = Len(order)
        <5>1. order \in Seq(Handle)
          BY DEF IInv, TypeOK
        <5>2. order' = Append(SubSeq(order, 1, i - 1) \o
                              SubSeq(order, i + 1, Len(order)), h)
          BY <3>1 DEF Queued
        <5> QED BY <5>1, <5>2, Replace
      <4>2. status' \in [Handle -> Status]
        BY <3>1 DEF IInv, TypeOK, Status
      <4> QED BY <1>1, <4>1, <4>2 DEF Prepare, IInv, TypeOK
    <3>3. status[order[i]] # "RUNNING" /\ status[h] = "UNISSUED"
      BY <1>1, <3>1 DEF Oldest, Removable, Prepare
    <3>4. RunningStays' /\ Claimed' /\ WorkersClaimed'
      BY <1>1, <3>1, <3>3
      DEF Prepare, IInv, TypeOK, RunningStays, Claimed, WorkersClaimed,
          LetThrough
    <3>5. Finishing' /\ SavedIsSettled' /\ AnsweredIsSettled'
      BY <1>1, <3>1
      DEF Prepare, IInv, Finishing, SavedIsSettled, AnsweredIsSettled,
          Settled, Stored, Row, LetThrough
    <3> QED BY <3>2, <3>4, <3>5 DEF IInv
  <2> QED BY <2>1, <2>2 DEF IInv, TypeOK
<1>2. ASSUME NEW c \in Call, NEW t \in Handle \cup {Direct}, Request(c, t)
      PROVE  IInv'
  <2>1. TypeOK'
    BY <1>2
    DEF IInv, TypeOK, Request, Goto, Started, store, Pc
  <2>2. RunningStays' /\ Claimed' /\ WorkersClaimed'
    BY <1>2
    DEF IInv, TypeOK, RunningStays, Claimed, WorkersClaimed, LetThrough,
        Working, Request, Started, Goto, store
  <2>3. Finishing' /\ SavedIsSettled' /\ AnsweredIsSettled'
    BY <1>2
    DEF IInv, TypeOK, Finishing, SavedIsSettled, AnsweredIsSettled,
        WorkersClaimed, Settled, Stored, Row, LetThrough, Working,
        Request, Started, Goto, store
  <2> QED BY <2>1, <2>2, <2>3 DEF IInv
<1>3. ASSUME NEW c \in Call, Begin(c)
      PROVE  IInv'
  <2>1. /\ target[c] \in Handle /\ status[target[c]] \in Status /\ pc[c] = "begin"
        /\ found' = [found EXCEPT ![c] = status[target[c]]]
        /\ UNCHANGED <<saved, order, bundles, history, target, bundle>>
    BY <1>3 DEF IInv, TypeOK, WorkersClaimed, Begin
  <2>2. CASE /\ status[target[c]] = "EXPIRED"
             /\ pc' = [pc EXCEPT ![c] = "done"]
             /\ answer' = [answer EXCEPT ![c] = "404"]
             /\ UNCHANGED <<status, verdict>>
    <3>1. TypeOK'
      BY <2>1, <2>2 DEF IInv, TypeOK, Pc, Answer
    <3>2. RunningStays' /\ Claimed' /\ WorkersClaimed'
      BY <2>1, <2>2
      DEF IInv, TypeOK, RunningStays, Claimed, WorkersClaimed, LetThrough, Working
    <3>3. Finishing' /\ SavedIsSettled' /\ AnsweredIsSettled'
      BY <2>1, <2>2
      DEF IInv, TypeOK, Finishing, SavedIsSettled, AnsweredIsSettled, Settled,
          Stored, Row, LetThrough
    <3> QED BY <3>1, <3>2, <3>3 DEF IInv
  <2>3. CASE /\ status[target[c]] = "PREPARED"
             /\ pc' = [pc EXCEPT ![c] = "test"]
             /\ status' = [status EXCEPT ![target[c]] = "RUNNING"]
             /\ verdict' = [verdict EXCEPT ![c] = "started"]
             /\ UNCHANGED answer
    <3>1. TypeOK'
      BY <2>1, <2>3 DEF IInv, TypeOK, Pc, Status
    <3>2. RunningStays' /\ Claimed' /\ WorkersClaimed'
      BY <2>1, <2>3
      DEF IInv, TypeOK, RunningStays, Claimed, WorkersClaimed, LetThrough, Working
    <3>3. Finishing' /\ SavedIsSettled' /\ AnsweredIsSettled'
      BY <2>1, <2>3
      DEF IInv, TypeOK, Finishing, SavedIsSettled, AnsweredIsSettled, Settled,
          Stored, Row, LetThrough
    <3> QED BY <3>1, <3>2, <3>3 DEF IInv
  <2>4. CASE /\ pc' = [pc EXCEPT ![c] = "lookup"]
             /\ UNCHANGED <<status, verdict, answer>>
    <3>1. TypeOK'
      BY <2>1, <2>4 DEF IInv, TypeOK, Pc
    <3>2. RunningStays' /\ Claimed' /\ WorkersClaimed'
      BY <2>1, <2>4
      DEF IInv, TypeOK, RunningStays, Claimed, WorkersClaimed, LetThrough, Working
    <3>3. Finishing' /\ SavedIsSettled' /\ AnsweredIsSettled'
      BY <2>1, <2>4
      DEF IInv, TypeOK, Finishing, SavedIsSettled, AnsweredIsSettled, Settled,
          Stored, Row, LetThrough
    <3> QED BY <3>1, <3>2, <3>3 DEF IInv
  <2> QED BY <1>3, <2>2, <2>3, <2>4 DEF Begin, Claimable, Started, Goto, Reply
<1>4. ASSUME NEW c \in Call, Lookup(c)
      PROVE  IInv'
  <2>1. TypeOK'
    <3>1. target[c] \in Handle
      BY <1>4 DEF IInv, TypeOK, WorkersClaimed, Lookup
    <3> QED
      BY <1>4, <3>1 DEF IInv, TypeOK, Lookup, Goto, Reply, store, Pc, Answer
  <2>2. RunningStays' /\ Claimed' /\ WorkersClaimed'
    BY <1>4
    DEF IInv, TypeOK, RunningStays, Claimed, WorkersClaimed, LetThrough,
        Working, Lookup, Goto, Reply, store
  <2>3. Finishing' /\ SavedIsSettled' /\ AnsweredIsSettled'
    BY <1>4
    DEF IInv, TypeOK, Finishing, SavedIsSettled, AnsweredIsSettled,
        WorkersClaimed, Settled, Stored, Row, LetThrough, Working, Lookup,
        Goto, Reply, store
  <2> QED BY <2>1, <2>2, <2>3 DEF IInv
<1>5. ASSUME NEW c \in Call, Test(c)
      PROVE  IInv'
  <2>1. TypeOK'
    <3>1. pc' \in [Call -> Pc]
      BY <1>5 DEF IInv, TypeOK, Test, Goto, Raises, Pc
    <3>2. verdict' \in [Call -> {"none", "started", "VERIFIED", "FAILED"}]
      BY <1>5 DEF IInv, TypeOK, Test
    <3> QED BY <1>5, <3>1, <3>2 DEF IInv, TypeOK, Test, store
  <2>2. RunningStays' /\ Claimed' /\ WorkersClaimed'
    BY <1>5
    DEF IInv, TypeOK, RunningStays, Claimed, WorkersClaimed, LetThrough,
        Working, Test, Goto, Raises, store
  <2>3. Finishing' /\ SavedIsSettled' /\ AnsweredIsSettled'
    BY <1>5
    DEF IInv, TypeOK, Finishing, SavedIsSettled, AnsweredIsSettled,
        WorkersClaimed, Settled, Stored, Row, LetThrough, Working, Test,
        Goto, Raises, store
  <2> QED BY <2>1, <2>2, <2>3 DEF IInv
<1>6. ASSUME NEW c \in Call, Export(c)
      PROVE  IInv'
  <2>1. TypeOK'
    <3>1. bundles' \in Seq(Call) /\ Len(bundles') <= Capacity
      <4>1. Kept(Append(bundles, c)) \in Seq(Call)
            /\ Len(Kept(Append(bundles, c))) <= Capacity
        BY KeptBounded DEF IInv, TypeOK
      <4> QED BY <1>6, <4>1 DEF Export, IInv, TypeOK
    <3> QED BY <1>6, <3>1 DEF IInv, TypeOK, Export, Goto, Raises, store, Pc
  <2>2. RunningStays' /\ Claimed' /\ WorkersClaimed'
    BY <1>6
    DEF IInv, TypeOK, RunningStays, Claimed, WorkersClaimed, LetThrough,
        Working, Export, Goto, Raises, store
  <2>3. Finishing' /\ SavedIsSettled' /\ AnsweredIsSettled'
    BY <1>6
    DEF IInv, TypeOK, Finishing, SavedIsSettled, AnsweredIsSettled,
        WorkersClaimed, Settled, Stored, Row, LetThrough, Working, Export,
        Goto, Raises, store
  <2> QED BY <2>1, <2>2, <2>3 DEF IInv
<1>7. ASSUME NEW c \in Call, Record(c)
      PROVE  IInv'
  <2>1. TypeOK'
    BY <1>7 DEF IInv, TypeOK, Record, Row, Goto, Raises, store, Pc
  <2>2. RunningStays' /\ Claimed' /\ WorkersClaimed'
    BY <1>7
    DEF IInv, TypeOK, RunningStays, Claimed, WorkersClaimed, LetThrough,
        Working, Record, Goto, Raises, store
  <2>3. Finishing' /\ SavedIsSettled' /\ AnsweredIsSettled'
    BY <1>7
    DEF IInv, TypeOK, Finishing, SavedIsSettled, AnsweredIsSettled,
        WorkersClaimed, Settled, Stored, Row, LetThrough, Working, Record,
        Goto, Raises, store
  <2> QED BY <2>1, <2>2, <2>3 DEF IInv
<1>8. ASSUME NEW c \in Call, Finish(c)
      PROVE  IInv'
  <2>1. TypeOK'
    <3>1. status' \in [Handle -> Status] /\ saved' \in [Handle -> Call \cup {"none"}]
      BY <1>8 DEF IInv, TypeOK, Finish, Status
    <3> QED BY <1>8, <3>1 DEF IInv, TypeOK, Finish, Goto, Reply, Pc, Answer
  <2>2. RunningStays' /\ Claimed' /\ WorkersClaimed'
    BY <1>8
    DEF IInv, TypeOK, RunningStays, Claimed, WorkersClaimed, LetThrough,
        Working, Finish, Goto, Reply
  <2>3. Finishing' /\ SavedIsSettled' /\ AnsweredIsSettled'
    BY <1>8
    DEF IInv, TypeOK, Finishing, SavedIsSettled, AnsweredIsSettled,
        WorkersClaimed, Settled, Stored, Row, LetThrough, Working, Finish,
        Goto, Reply
  <2> QED BY <2>1, <2>2, <2>3 DEF IInv
<1>9. ASSUME NEW c \in Call, Fail(c)
      PROVE  IInv'
  <2>1. TypeOK'
    BY <1>9
    DEF IInv, TypeOK, Fail, Goto, Reply, Status, Pc, Answer
  <2>2. RunningStays' /\ Claimed' /\ WorkersClaimed'
    BY <1>9
    DEF IInv, TypeOK, RunningStays, Claimed, WorkersClaimed, LetThrough,
        Working, Fail, Goto, Reply
  <2>3. Finishing' /\ SavedIsSettled' /\ AnsweredIsSettled'
    BY <1>9
    DEF IInv, TypeOK, Finishing, SavedIsSettled, AnsweredIsSettled,
        WorkersClaimed, Settled, Stored, Row, LetThrough, Working, Fail,
        Goto, Reply
  <2> QED BY <2>1, <2>2, <2>3 DEF IInv
<1>10. ASSUME Restart
       PROVE  IInv'
  <2>1. TypeOK'
    BY <1>10
    DEF IInv, TypeOK, Restart, Status, Pc, Answer
  <2>2. RunningStays' /\ Claimed' /\ WorkersClaimed'
    BY <1>10
    DEF IInv, TypeOK, RunningStays, Claimed, WorkersClaimed, LetThrough,
        Working, Restart
  <2>3. Finishing' /\ SavedIsSettled' /\ AnsweredIsSettled'
    BY <1>10
    DEF IInv, TypeOK, Finishing, SavedIsSettled, AnsweredIsSettled,
        WorkersClaimed, Settled, Stored, Row, LetThrough, Working, Restart
  <2> QED BY <2>1, <2>2, <2>3 DEF IInv
<1>11. ASSUME UNCHANGED vars
       PROVE  IInv'
  <2>1. TypeOK'
    BY <1>11
    DEF IInv, TypeOK, vars, store
  <2>2. RunningStays' /\ Claimed' /\ WorkersClaimed'
    BY <1>11
    DEF IInv, TypeOK, RunningStays, Claimed, WorkersClaimed, LetThrough,
        Working, vars, store
  <2>3. Finishing' /\ SavedIsSettled' /\ AnsweredIsSettled'
    BY <1>11
    DEF IInv, TypeOK, Finishing, SavedIsSettled, AnsweredIsSettled,
        WorkersClaimed, Settled, Stored, Row, LetThrough, Working, vars,
        store
  <2> QED BY <2>1, <2>2, <2>3 DEF IInv
<1> QED
  BY <1>1, <1>2, <1>3, <1>4, <1>5, <1>6, <1>7, <1>8, <1>9, <1>10, <1>11
  DEF Next, Work

LEMMA Inductive == Spec => []IInv
<1> QED BY InitInv, StepInv, PTL DEF Spec

----------------------------------------------------------------------------
\* The stores and the requests' bookkeeping keep their types and bounds.
THEOREM TypeCorrect == Spec => []TypeOK
<1>1. IInv => TypeOK
  BY DEF IInv
<1> QED BY <1>1, Inductive, PTL

\* A handle is tested at most once and has one outcome.
THEOREM HandlesRunOnce == Spec => []RunsOnce
<1>1. IInv => RunsOnce
  <2> SUFFICES ASSUME IInv, NEW c \in Call, NEW d \in Call,
                      target[c] = target[d], target[c] # Direct
               PROVE  /\ LetThrough(c) /\ LetThrough(d) => c = d
                      /\ answer[c] \in Call /\ answer[d] \in Call
                            => answer[c] = answer[d]
    BY DEF RunsOnce
  <2>1. LetThrough(c) /\ LetThrough(d) => c = d
    BY DEF IInv, Claimed
  <2>2. answer[c] \in Call /\ answer[d] \in Call => answer[c] = answer[d]
    BY DEF IInv, Claimed, AnsweredIsSettled, Settled
  <2> QED BY <2>1, <2>2
<1> QED BY <1>1, Inductive, PTL

\* The item of a running handoff is never evicted.
THEOREM RunningItemsStay == Spec => []RunningStays
<1>1. IInv => RunningStays
  BY DEF IInv
<1> QED BY <1>1, Inductive, PTL

\* Every bundle announced READY stays downloadable, and every result a client
\* was given is in the history.
THEOREM ResultsAreDurable == Spec => [](ReadyIsDownloadable /\ AnsweredIsRecorded)
<1>1. IInv => ReadyIsDownloadable /\ AnsweredIsRecorded
  BY DEF IInv, AnsweredIsSettled, Settled, Stored, Row, ReadyIsDownloadable,
         AnsweredIsRecorded, Downloadable
<1> QED BY <1>1, Inductive, PTL

\* No client is told a result that the history does not have, whatever came
\* between saving and answering.
THEOREM AnsweredResultsRecorded == Spec => []AnsweredIsRecorded
<1> QED BY ResultsAreDurable, PTL
=============================================================================
