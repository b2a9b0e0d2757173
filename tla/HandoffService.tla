---------------------------- MODULE HandoffService ----------------------------
(***************************************************************************)
(* The synchronous sandbox API as concurrent requests see it               *)
(* (services/sandbox_poc/router.py run_handoff and run_sandbox,            *)
(* upstream.py HandoffStore, review_bundle.py BundleStore, history.py).    *)
(*                                                                         *)
(* Every request runs in a thread of its own, so requests interleave       *)
(* between the locked operations of the two bounded in-memory stores.  A   *)
(* restart of the single API process loses both stores and every request   *)
(* in progress; the sqlite history survives it.                            *)
(***************************************************************************)
EXTENDS Naturals, Sequences, FiniteSets

CONSTANTS
    Call,       \* run requests; a request that tests gives its run its name
    Handle,     \* handoff ids that may be issued
    Direct,     \* "the request carries its handoff": POST /sandbox/runs
    Limit,      \* slots of the HandoffStore (8 in the code)
    Capacity    \* entries of the BundleStore (8 in the code)

ASSUME DirectAssumption == Direct \notin Handle
ASSUME BoundsAssumption == Limit \in Nat \ {0} /\ Capacity \in Nat \ {0}
ASSUME AnswerAssumption == Call \cap {"none", "404", "409", "error", "lost"} = {}

VARIABLES
    status,     \* handle -> status of its item, see Status
    saved,      \* handle -> the run whose summary its item holds, or "none"
    order,      \* the handles in the store, oldest first
    bundles,    \* the runs whose ZIP is in memory, oldest first
    history,    \* run -> what its row in sqlite holds
    pc,         \* request -> its next step
    target,     \* request -> its handle, or Direct
    found,      \* request -> the item status that begin() saw
    verdict,    \* run -> "started" in service.run, then its outcome
    bundle,     \* run -> the review_bundle status in its result
    answer      \* request -> the run whose result it returned, or an error

store == <<status, saved, order>>
vars == <<status, saved, order, bundles, history, pc, target, found, verdict,
          bundle, answer>>

----------------------------------------------------------------------------
\* UNISSUED: the id does not exist yet.  EXPIRED: its item is gone.
Status == {"UNISSUED", "PREPARED", "RUNNING", "FINISHED", "REJECTED", "EXPIRED"}

Pc == {"idle", "begin", "lookup", "test", "export", "record", "finish",
       "fail", "done"}

\* Steps between a successful begin() and the matching finish() or fail().
Working == {"test", "export", "record", "finish", "fail"}

Answer == Call \cup {"none", "404", "409", "error", "lost"}

TypeOK ==
    /\ status \in [Handle -> Status]
    /\ saved \in [Handle -> Call \cup {"none"}]
    /\ order \in Seq(Handle) /\ Len(order) <= Limit
    /\ bundles \in Seq(Call) /\ Len(bundles) <= Capacity
    /\ history \in [Call -> {"absent", "result", "bundle"}]
    /\ pc \in [Call -> Pc]
    /\ target \in [Call -> Handle \cup {Direct}]
    /\ found \in [Call -> Status]
    /\ verdict \in [Call -> {"none", "started", "VERIFIED", "FAILED"}]
    /\ bundle \in [Call -> {"none", "READY", "UNAVAILABLE"}]
    /\ answer \in [Call -> Answer]

Init ==
    /\ status = [h \in Handle |-> "UNISSUED"]
    /\ saved = [h \in Handle |-> "none"]
    /\ order = <<>> /\ bundles = <<>>
    /\ history = [c \in Call |-> "absent"]
    /\ pc = [c \in Call |-> "idle"]
    /\ target = [c \in Call |-> Direct]
    /\ found = [c \in Call |-> "UNISSUED"]
    /\ verdict = [c \in Call |-> "none"]
    /\ bundle = [c \in Call |-> "none"]
    /\ answer = [c \in Call |-> "none"]

Goto(c, step) == pc' = [pc EXCEPT ![c] = step]

Started(c) == verdict' = [verdict EXCEPT ![c] = "started"]

Reply(c, a) == Goto(c, "done") /\ answer' = [answer EXCEPT ![c] = a]

----------------------------------------------------------------------------
(* HandoffStore.put, under prepare_handoff: a full store evicts its oldest *)
(* item that is not running, and refuses when all are.                     *)

AnyRemovable(i) == TRUE                                 \* bug: evicts running items
Removable(i) == status[order[i]] # "RUNNING"

Oldest(i) == Removable(i) /\ \A j \in 1..(i - 1) : ~Removable(j)

Queued(seq, h) == order' = Append(seq, h)

Prepare(h) ==
    /\ status[h] = "UNISSUED"
    /\ \/ /\ Len(order) < Limit
          /\ Queued(order, h)
          /\ status' = [status EXCEPT ![h] = "PREPARED"]
       \/ /\ Len(order) >= Limit
          /\ \E i \in DOMAIN order :
                /\ Oldest(i)
                /\ Queued(SubSeq(order, 1, i - 1) \o
                          SubSeq(order, i + 1, Len(order)), h)
                /\ status' = [status EXCEPT ![order[i]] = "EXPIRED",
                                            ![h] = "PREPARED"]
    /\ UNCHANGED <<saved, bundles, history, pc, target, found, verdict,
                   bundle, answer>>

----------------------------------------------------------------------------
\* A client asks to run a handle it was given, or posts a complete handoff.
Request(c, t) ==
    /\ pc[c] = "idle"
    /\ t # Direct => status[t] # "UNISSUED"
    /\ target' = [target EXCEPT ![c] = t]
    /\ IF t = Direct
       THEN Goto(c, "test") /\ Started(c)
       ELSE Goto(c, "begin") /\ UNCHANGED verdict
    /\ UNCHANGED <<store, bundles, history, found, bundle, answer>>

\* handoffs.begin(): only a PREPARED item is claimed.
ClaimableAgain(s) == s \in {"PREPARED", "REJECTED"}     \* bug: retries a rejection
Claimable(s) == s = "PREPARED"

Begin(c) ==
    LET h == target[c] IN
    /\ pc[c] = "begin"
    /\ found' = [found EXCEPT ![c] = status[h]]
    /\ \/ /\ status[h] = "EXPIRED"
          /\ Reply(c, "404")
          /\ UNCHANGED <<status, verdict>>
       \/ /\ Claimable(status[h])
          /\ Goto(c, "test")
          /\ status' = [status EXCEPT ![h] = "RUNNING"]
          /\ Started(c)
          /\ UNCHANGED answer
       \/ /\ status[h] # "EXPIRED" /\ ~Claimable(status[h])
          /\ Goto(c, "lookup")
          /\ UNCHANGED <<status, verdict, answer>>
    /\ UNCHANGED <<saved, order, bundles, history, target, bundle>>

\* The lock was released since: the item is read again.
Lookup(c) ==
    LET h == target[c] IN
    /\ pc[c] = "lookup"
    /\ Reply(c, IF status[h] = "FINISHED" THEN saved[h] ELSE "409")
    /\ UNCHANGED <<store, bundles, history, target, found, verdict, bundle>>

----------------------------------------------------------------------------
(* run_sandbox, and around it run_handoff's "except BaseException". *)

Raises(c) == Goto(c, "fail")

\* service.run: the rehearsal, minutes long.
Test(c) ==
    /\ pc[c] = "test"
    /\ \/ \E v \in {"VERIFIED", "FAILED"} :
            /\ verdict' = [verdict EXCEPT ![c] = v]
            /\ Goto(c, IF v = "VERIFIED" THEN "export" ELSE "record")
       \/ Raises(c) /\ UNCHANGED verdict
    /\ UNCHANGED <<store, bundles, history, target, found, bundle, answer>>

\* BundleStore.put: append, then drop the oldest beyond the capacity.
KeptOneMore(seq) == IF Len(seq) > Capacity + 1 THEN Tail(seq) ELSE seq   \* bug
Kept(seq) == IF Len(seq) > Capacity THEN Tail(seq) ELSE seq

\* build_review_bundle: a ContractError keeps the result without a bundle.
Export(c) ==
    /\ pc[c] = "export"
    /\ \/ /\ bundles' = Kept(Append(bundles, c))
          /\ bundle' = [bundle EXCEPT ![c] = "READY"]
          /\ Goto(c, "record")
       \/ /\ bundle' = [bundle EXCEPT ![c] = "UNAVAILABLE"]
          /\ Goto(c, "record")
          /\ UNCHANGED bundles
       \/ Raises(c) /\ UNCHANGED <<bundles, bundle>>
    /\ UNCHANGED <<store, history, target, found, verdict, answer>>

RowWithoutBundle(c) == "result"                         \* bug: ZIP not passed on
Row(c) == IF bundle[c] = "READY" THEN "bundle" ELSE "result"

\* bug: a failing history write does not fail the request.
RecordOrIgnore(c) ==
    /\ pc[c] = "record"
    /\ history' \in {history, [history EXCEPT ![c] = Row(c)]}
    /\ Goto(c, "finish")
    /\ UNCHANGED <<store, bundles, target, found, verdict, bundle, answer>>

\* history.record, committed as one sqlite transaction, then record_result.
Record(c) ==
    /\ pc[c] = "record"
    /\ \/ /\ history' = [history EXCEPT ![c] = Row(c)]
          /\ Goto(c, "finish")
       \/ /\ history' \in {history, [history EXCEPT ![c] = Row(c)]}
          /\ Raises(c)
    /\ UNCHANGED <<store, bundles, target, found, verdict, bundle, answer>>

\* handoffs.finish() saves the summary and returns it; a direct request
\* returns the result itself.
Finish(c) ==
    LET h == target[c] IN
    /\ pc[c] = "finish"
    /\ Reply(c, c)
    /\ IF h = Direct
       THEN UNCHANGED <<status, saved>>
       ELSE /\ status' = [status EXCEPT ![h] = "FINISHED"]
            /\ saved' = [saved EXCEPT ![h] = c]
    /\ UNCHANGED <<order, bundles, history, target, found, verdict, bundle>>

\* bug: an exception leaves the item as it is.
FailOnly(c) ==
    /\ pc[c] = "fail"
    /\ Reply(c, "error")
    /\ UNCHANGED <<store, bundles, history, target, found, verdict, bundle>>

\* handoffs.fail(), then the exception becomes 422, 503 or 500.
Fail(c) ==
    LET h == target[c] IN
    /\ pc[c] = "fail"
    /\ Reply(c, "error")
    /\ status' = IF h = Direct THEN status
                 ELSE [status EXCEPT ![h] = "REJECTED"]
    /\ UNCHANGED <<saved, order, bundles, history, target, found, verdict,
                   bundle>>

----------------------------------------------------------------------------
\* The API process stops and starts again: only sqlite is left, and the
\* connections of the requests in progress break.
Restart ==
    /\ status' = [h \in Handle |->
                    IF status[h] = "UNISSUED" THEN "UNISSUED" ELSE "EXPIRED"]
    /\ saved' = [h \in Handle |-> "none"]
    /\ order' = <<>> /\ bundles' = <<>>
    /\ pc' = [c \in Call |-> IF pc[c] = "idle" THEN "idle" ELSE "done"]
    /\ answer' = [c \in Call |->
                    IF pc[c] \in {"idle", "done"} THEN answer[c] ELSE "lost"]
    /\ UNCHANGED <<history, target, found, verdict, bundle>>

Work(c) == \/ Begin(c) \/ Lookup(c)
           \/ Test(c) \/ Export(c) \/ Record(c) \/ Finish(c) \/ Fail(c)

Next ==
    \/ \E h \in Handle : Prepare(h)
    \/ \E c \in Call, t \in Handle \cup {Direct} : Request(c, t)
    \/ \E c \in Call : Work(c)
    \/ Restart

Spec == Init /\ [][Next]_vars

\* A request's thread keeps running: the server's threads are scheduled, and
\* service.run ends because every step of it has a timeout.
FairSpec == Spec /\ \A c \in Call : WF_vars(Work(c))

----------------------------------------------------------------------------
(* What must hold. *)

\* begin() let the request through to service.run.
LetThrough(c) == verdict[c] # "none"

\* A handle is tested at most once, whatever requests, failures, restarts and
\* evictions interleave, and everyone who got a result for it got the same one
\* (HERMES_INTEGRATION.md "A repeated run request returns the previous result
\* instead of starting another three tries").
RunsOnce ==
    \A c, d \in Call :
        target[c] = target[d] /\ target[c] # Direct =>
            /\ LetThrough(c) /\ LetThrough(d) => c = d
            /\ answer[c] \in Call /\ answer[d] \in Call => answer[c] = answer[d]

\* An item being run is never evicted, so finish() and fail() find it
\* (a KeyError there would lose the result of a test already made).
RunningStays ==
    \A c \in Call :
        pc[c] \in Working /\ target[c] # Direct => status[target[c]] = "RUNNING"

\* A bundle announced READY can be downloaded (download_bundle: memory, then
\* history) after any number of later exports and restarts.
Downloadable(r) == r \in {bundles[i] : i \in DOMAIN bundles}
                   \/ history[r] = "bundle"

ReadyIsDownloadable ==
    \A c \in Call :
        answer[c] \in Call /\ bundle[answer[c]] = "READY" => Downloadable(answer[c])

\* No client is told a result that the history does not have.
AnsweredIsRecorded ==
    \A c \in Call : answer[c] \in Call => history[answer[c]] # "absent"

\* A slot is not occupied for ever: a running item ends, or a store full of
\* running items would refuse every later handoff.
SlotsComeFree ==
    \A h \in Handle : status[h] = "RUNNING" ~> status[h] # "RUNNING"

\* "A concurrent request returns 409 ... eviction expires handles"
\* (HERMES_INTEGRATION.md): a request is told "running or was rejected" only
\* of a handle that begin() saw running or rejected.
RefusalIsTrue ==
    \A c \in Call : answer[c] = "409" => found[c] \in {"RUNNING", "REJECTED"}
=============================================================================
