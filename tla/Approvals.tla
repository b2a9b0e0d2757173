----------------------------- MODULE Approvals -----------------------------
(***************************************************************************)
(* Human approvals and the stores that keep them, under concurrent API     *)
(* requests, process and host crashes: policy profiles                     *)
(* (policy_profile_store), imported benchmark releases (benchmarks,        *)
(* router), SQL templates (vector_service) and knowledge documents         *)
(* (rag_service) of the registry, and the handoff that pins registry       *)
(* content and runs it later (templates, upstream, service).               *)
(*                                                                         *)
(* A request handler runs in a thread and is cut where another thread or a *)
(* crash can come between; a database transaction is one step.             *)
(***************************************************************************)
EXTENDS Integers, Sequences, FiniteSets

CONSTANTS
  Threads,      \* concurrent request handlers
  People,       \* named reviewers
  Contents,     \* profile values, SQL texts, document texts
  MaxRequests,  \* bound: API requests served
  MaxCrashes    \* bound: process or host crashes

None == "none"
Nobody == "nobody"

ASSUME PeopleAssumption ==
  Nobody \notin People /\ People # {} /\ None \notin Contents /\ Contents # {}

VARIABLES
  profiles,     \* the <sha256>.yaml objects of the store: [values, by, at]
  log, torn,    \* approval entries of log.jsonl; a line of it was cut off
  lost,         \* history: what a host's death took from profiles and log
  release,      \* the imported release's folder
  versions,     \* the registry's rows of one template name
  document,     \* the registry's row of one knowledge document
  handoff,      \* a prepared handoff with its pins
  thread,       \* where each request handler stands
  now,          \* wall clock, ticks at each approval
  requests, crashes,
  decided, answered, used   \* history: asked for, confirmed to a person, relied on

store == <<profiles, log, torn, lost>>
registry == <<versions, document>>
history == <<decided, answered, used>>
budget == <<requests, crashes>>
vars == <<store, release, registry, handoff, thread, now, budget, history>>

Idle == [step |-> "idle"]
At(t, s) == thread[t].step = s
Go(t, s) == thread' = [thread EXCEPT ![t] = s]
Decision(k, c, p) == [kind |-> k, content |-> c, by |-> p]
----------------------------------------------------------------------------
(* A human's request reaches the API.                                      *)

Request(t, s) ==
  /\ At(t, "idle") /\ requests < MaxRequests
  /\ requests' = requests + 1
  /\ Go(t, s)

Ask(t) ==
  /\ \/ \E c \in Contents : Request(t, [step |-> "draft", values |-> c])
     \/ \E c \in Contents : Request(t, [step |-> "latest", sql |-> c])
     \/ Request(t, [step |-> "import"])
  /\ UNCHANGED <<store, release, registry, handoff, now, crashes, history>>

AskApproval(t, p) ==
  /\ \/ \E ref \in profiles :
          /\ Request(t, [step |-> "profile", ref |-> ref, by |-> p])
          /\ decided' = decided \cup {Decision("profile", ref.values, p)}
     \/ \E v \in DOMAIN versions :
          /\ Request(t, [step |-> "template", version |-> v, by |-> p])
          /\ decided' = decided \cup {Decision("template", versions[v].sql, p)}
     \/ \E hash \in Contents :
          /\ Request(t, [step |-> "release", hash |-> hash, by |-> p])
          /\ decided' = decided \cup {Decision("release", hash, p)}
  /\ UNCHANGED <<store, release, registry, handoff, now, crashes, answered, used>>
----------------------------------------------------------------------------
(* Policy profiles. An object is named by its hash, so it is its content.  *)

Seed == [values |-> CHOOSE c \in Contents : TRUE, by |-> CHOOSE p \in People : TRUE, at |-> 0]

\* get(): the repository's seed, a draft, or an approved object with its entry
\* in the log, which is unreadable as a whole once a line of it is cut off.
Logged(p) == ~torn /\ p \in log
Get(p) == p = Seed \/ (p \in profiles /\ (p.by = Nobody \/ Logged(p)))

\* _LOCK covers a write and its log entry.
\* Mutant of LockFree: no lock.
NeverHeld == TRUE
LockFree == \A t \in Threads : thread[t].step \notin {"write", "log draft"}

CreateDraft(t) ==
  /\ At(t, "draft") /\ LockFree
  /\ profiles' = profiles \cup {[values |-> thread[t].values, by |-> Nobody, at |-> 0]}
  /\ Go(t, [step |-> "log draft"])
  /\ UNCHANGED <<log, torn, lost, release, registry, handoff, now, budget, history>>

LogDraft(t) ==
  /\ At(t, "log draft")
  /\ Go(t, Idle)
  /\ UNCHANGED <<store, release, registry, handoff, now, budget, history>>

\* approve(): the draft is read, and the approved copy made, outside the lock.
ReadDraft(t) ==
  /\ At(t, "profile")
  /\ LET ref == thread[t].ref
     IN IF Get(ref) /\ ref.by = Nobody
        THEN /\ Go(t, [step |-> "log", object |-> [ref EXCEPT !.by = thread[t].by, !.at = now]])
             /\ now' = now + 1
        ELSE Go(t, Idle) /\ UNCHANGED now
  /\ UNCHANGED <<store, release, registry, handoff, budget, history>>

\* Mutant of LogApproval: an approval replaces the earlier entry of its draft.
LogPerDraft(t) ==
  /\ At(t, "log") /\ LockFree
  /\ log' = {e \in log : e.values # thread[t].object.values} \cup {thread[t].object}
  /\ Go(t, [thread[t] EXCEPT !.step = "write"])
  /\ UNCHANGED <<profiles, torn, lost, release, registry, handoff, now, budget, history>>

\* "Log first: an object without its approval entry is refused, never trusted."
LogApproval(t) ==
  /\ At(t, "log") /\ LockFree
  /\ log' = log \cup {thread[t].object}
  /\ Go(t, [thread[t] EXCEPT !.step = "write"])
  /\ UNCHANGED <<profiles, torn, lost, release, registry, handoff, now, budget, history>>

WriteApproved(t) ==
  /\ At(t, "write")
  /\ profiles' = profiles \cup {thread[t].object}
  /\ Go(t, [thread[t] EXCEPT !.step = "confirm"])
  /\ UNCHANGED <<log, torn, lost, release, registry, handoff, now, budget, history>>

Confirm(t) ==
  /\ At(t, "confirm")
  /\ answered' = answered \cup
       (IF Get(thread[t].object) THEN {[kind |-> "profile", object |-> thread[t].object]} ELSE {})
  /\ Go(t, Idle)
  /\ UNCHANGED <<store, release, registry, handoff, now, budget, decided, used>>

\* Somebody puts a file that claims an approval into the store's directory.
DropFile(p) ==
  /\ requests < MaxRequests /\ requests' = requests + 1
  /\ \E c \in Contents : profiles' = profiles \cup {[values |-> c, by |-> p, at |-> now]}
  /\ UNCHANGED <<log, torn, lost, release, registry, handoff, thread, now, crashes, history>>
----------------------------------------------------------------------------
(* Imported releases: a folder per workbook, approved by its spec-set hash. *)

Imported == CHOOSE c \in Contents : TRUE
File(state, hash, by) == [state |-> state, hash |-> hash, by |-> by]
NoRelease == [specs |-> None, receipt |-> None, approval |-> File(None, None, Nobody)]

\* import_workbook: a receipt ends it at once, a cut-off one makes it fail.
Import(t) ==
  /\ At(t, "import")
  /\ Go(t, IF release.receipt = None THEN [step |-> "files"] ELSE Idle)
  /\ UNCHANGED <<store, release, registry, handoff, now, budget, history>>

WriteRelease(t) ==
  /\ \/ /\ At(t, "files")
        /\ release' = [release EXCEPT !.specs = Imported]
        /\ Go(t, [step |-> "receipt"])
     \/ /\ At(t, "receipt")
        /\ release' = [release EXCEPT !.receipt = "whole"]
        /\ Go(t, Idle)
  /\ UNCHANGED <<store, registry, handoff, now, budget, history>>

\* approve_benchmark: the check and the write are two steps.
Unrecorded == release.approval.state = None
CheckRelease(t) ==
  /\ At(t, "release")
  /\ Go(t, IF release.receipt # None /\ release.specs = thread[t].hash /\ Unrecorded
           THEN [thread[t] EXCEPT !.step = "record"] ELSE Idle)
  /\ UNCHANGED <<store, release, registry, handoff, now, budget, history>>

RecordApproval(t) ==
  /\ At(t, "record")
  /\ LET approval == File("whole", thread[t].hash, thread[t].by)
     IN /\ release' = [release EXCEPT !.approval = approval]
        /\ answered' = answered \cup {[kind |-> "release", object |-> approval]}
  /\ Go(t, Idle)
  /\ UNCHANGED <<store, registry, handoff, now, budget, decided, used>>

\* Somebody edits the specs of the imported release on disk.
EditRelease ==
  /\ release.receipt = "whole"
  /\ \E c \in Contents \ {release.specs} : release' = [release EXCEPT !.specs = c]
  /\ UNCHANGED <<store, registry, handoff, thread, now, budget, history>>

\* paths(): the recorded approval must be of the specs as they are now.
Installed == release.approval.state = "whole" /\ release.approval.hash = release.specs
----------------------------------------------------------------------------
(* The registry's templates: rows are never updated, only their status.    *)

Row(c) == [sql |-> c, status |-> "draft", by |-> Nobody]
Active(v) == v \in DOMAIN versions /\ versions[v].status = "active"

\* ingest_template reads the latest row, then inserts the next version ...
ReadLatest(t) ==
  /\ At(t, "latest")
  /\ LET last == Len(versions)
     IN Go(t, IF last > 0 /\ versions[last].sql = thread[t].sql THEN Idle
              ELSE [step |-> "insert", sql |-> thread[t].sql, version |-> last + 1])
  /\ UNCHANGED <<store, release, registry, handoff, now, budget, history>>

\* ... which UNIQUE (template_name, version) refuses when another came first.
\* Mutant of Inserted: ON CONFLICT DO UPDATE.
Upserted(rows, v, c) ==
  IF v \in DOMAIN rows THEN [rows EXCEPT ![v].sql = c] ELSE Append(rows, Row(c))
Inserted(rows, v, c) == IF v \in DOMAIN rows THEN rows ELSE Append(rows, Row(c))
Insert(t) ==
  /\ At(t, "insert")
  /\ versions' = Inserted(versions, thread[t].version, thread[t].sql)
  /\ Go(t, Idle)
  /\ UNCHANGED <<store, release, document, handoff, now, budget, history>>

\* approve_template, one transaction on that exact version: archive, activate.
\* Of two at once the second waits for the first or is rolled back by the
\* unique index on active rows.
Approved(rows, v, p) ==
  [u \in DOMAIN rows |->
     IF u = v THEN [rows[u] EXCEPT !.status = "active", !.by = p]
     ELSE IF rows[u].status = "active" THEN [rows[u] EXCEPT !.status = "archived"]
     ELSE rows[u]]
ApproveTemplate(t) ==
  /\ At(t, "template")
  /\ LET v == thread[t].version
     IN versions' = IF versions[v].status = "draft" THEN Approved(versions, v, thread[t].by)
                    ELSE versions
  /\ Go(t, Idle)
  /\ UNCHANGED <<store, release, document, handoff, now, budget, history>>
----------------------------------------------------------------------------
(* Knowledge documents: one row per id, every call one transaction.        *)

Document(c, status, p) == [text |-> c, status |-> status, by |-> p, expired |-> FALSE]
NoDocument == Document(None, None, Nobody)

\* ingest_document replaces the row, its status and its chunks under the same
\* id; "active" needs an approver. It does so even when every embedding failed.
IngestDocument(c, p) ==
  /\ requests < MaxRequests /\ requests' = requests + 1
  /\ document' = Document(c, IF p = Nobody THEN "draft" ELSE "active", p)
  /\ UNCHANGED <<store, release, versions, handoff, thread, now, crashes, history>>

\* approve_document: by the document's id, while it is a draft.
ApproveDocument(p) ==
  /\ requests < MaxRequests /\ requests' = requests + 1
  /\ document.status = "draft"
  /\ document' = [document EXCEPT !.status = "active", !.by = p]
  /\ UNCHANGED <<store, release, versions, handoff, thread, now, crashes, history>>

\* supersede_document asks nothing of the status; the expiry date passes.
Retire ==
  /\ document.status # None
  /\ document' \in {[document EXCEPT !.status = "superseded"], [document EXCEPT !.expired = TRUE]}
  /\ UNCHANGED <<store, release, versions, handoff, thread, now, budget, history>>
----------------------------------------------------------------------------
(* A handoff pins template and evidence when prepared, and resolves the    *)
(* exact pins again when it runs.                                          *)

NoHandoff == [step |-> None]
Resolves(h) ==
  /\ Active(h.version) /\ versions[h.version].sql = h.sql
  /\ document.status = "active" /\ ~document.expired /\ document.text = h.text

\* export_reference, first transaction: what is active now is pinned.
Pin(v) ==
  /\ handoff.step = None /\ Active(v) /\ document.status = "active"
  /\ handoff' = [step |-> "pinned", version |-> v, sql |-> versions[v].sql, text |-> document.text]
  /\ UNCHANGED <<store, release, registry, thread, now, budget, history>>

\* export_reference, second transaction: from_registry with those pins.
Verify ==
  /\ handoff.step = "pinned"
  /\ handoff' = IF Resolves(handoff) THEN [handoff EXCEPT !.step = "prepared"] ELSE NoHandoff
  /\ UNCHANGED <<store, release, registry, thread, now, budget, history>>

\* SandboxService.run: from_registry once more; any change refuses the run.
Run ==
  /\ handoff.step = "prepared"
  /\ IF Resolves(handoff)
     THEN /\ used' = used \cup {Decision("template", handoff.sql, versions[handoff.version].by)}
          /\ handoff' = [handoff EXCEPT !.step = "ran"]
     ELSE handoff' = NoHandoff /\ UNCHANGED used
  /\ UNCHANGED <<store, release, registry, thread, now, budget, decided, answered>>
----------------------------------------------------------------------------
(* The process dies between two steps, alone or with its host. Handoffs    *)
(* live in memory and the registry is transactional.                       *)

Restart ==
  /\ crashes < MaxCrashes /\ crashes' = crashes + 1
  /\ thread' = [t \in Threads |-> Idle]
  /\ handoff' = NoHandoff
  /\ UNCHANGED <<registry, now, requests, history>>

\* A log line, a receipt or an approval that was being written may be cut off.
Writing(s) == \E t \in Threads : At(t, s)
CutOff == File("torn", None, Nobody)
Lines == {torn} \cup IF Writing("log draft") \/ (Writing("log") /\ LockFree) THEN {TRUE} ELSE {}
Receipts == {release.receipt} \cup IF Writing("receipt") THEN {"torn"} ELSE {}
Records == {release.approval} \cup IF Writing("record") THEN {CutOff} ELSE {}

Crash ==
  /\ Restart
  /\ \E t \in Threads : ~At(t, "idle")
  /\ torn' \in Lines
  /\ release' \in [specs : {release.specs}, receipt : Receipts, approval : Records]
  /\ UNCHANGED <<profiles, log, lost>>

\* _write and _append_log flush a file but never its directory: the host may
\* forget a renamed object, or the log it created, long after the answer. The
\* files of a release are not flushed at all.
Unflushed(files, none, cut) == IF files = {none} THEN files ELSE files \cup {none, cut}

HostCrash ==
  /\ Restart
  /\ profiles' \in SUBSET profiles
  /\ \/ log' = log /\ torn' \in Lines
     \/ log' = {} /\ torn' = FALSE
  /\ lost' = lost \cup (profiles \ profiles') \cup (log \ log')
  /\ release' \in [specs : {release.specs, None},
                   receipt : Unflushed(Receipts, None, "torn"),
                   approval : Unflushed(Records, File(None, None, Nobody), CutOff)]
----------------------------------------------------------------------------
\* A fresh installation, or one whose registry holds approved content already.
Init ==
  /\ profiles = {} /\ log = {} /\ torn = FALSE /\ lost = {}
  /\ release = NoRelease
  /\ \/ versions = <<>> /\ document = NoDocument
     \/ /\ versions = Approved(<<Row(Seed.values)>>, 1, Seed.by)
        /\ document = Document(Seed.values, "active", Seed.by)
  /\ handoff = NoHandoff
  /\ thread = [t \in Threads |-> Idle]
  /\ now = 1 /\ requests = 0 /\ crashes = 0
  /\ decided = {Decision(k, Seed.values, Seed.by) :
                   k \in {"profile"} \cup {"template" : v \in DOMAIN versions}}
  /\ answered = {} /\ used = {}

Next ==
  \/ \E t \in Threads :
       \/ Ask(t) \/ \E p \in People : AskApproval(t, p)
       \/ CreateDraft(t) \/ LogDraft(t) \/ ReadDraft(t) \/ LogApproval(t)
       \/ WriteApproved(t) \/ Confirm(t)
       \/ Import(t) \/ WriteRelease(t) \/ CheckRelease(t) \/ RecordApproval(t)
       \/ ReadLatest(t) \/ Insert(t) \/ ApproveTemplate(t)
  \/ \E p \in People : DropFile(p) \/ ApproveDocument(p)
  \/ EditRelease \/ Retire
  \/ \E c \in Contents, p \in People \cup {Nobody} : IngestDocument(c, p)
  \/ \E v \in DOMAIN versions : Pin(v)
  \/ Verify \/ Run \/ Crash \/ HostCrash

Spec == Init /\ [][Next]_vars
----------------------------------------------------------------------------
(* Properties.                                                             *)

\* Rows, objects, log and answers have their form; at most one thread is in
\* the section _LOCK protects, at most one template version is active, and
\* nothing but a draft is in the store without a person's name.
Steps == {"idle", "draft", "log draft", "profile", "log", "write", "confirm", "import", "files",
          "receipt", "release", "record", "latest", "insert", "template"}
TypeOK ==
  /\ \A p \in profiles \cup log : p.values \in Contents /\ p.by \in People \cup {Nobody}
  /\ \A p \in log : p.by \in People
  /\ torn \in BOOLEAN
  /\ release.specs \in Contents \cup {None} /\ release.receipt \in {None, "whole", "torn"}
  /\ \A v \in DOMAIN versions : versions[v].status \in {"draft", "active", "archived"}
  /\ \A u, v \in DOMAIN versions : Active(u) /\ Active(v) => u = v
  /\ document.status \in {None, "draft", "active", "superseded"}
  /\ \A t \in Threads : thread[t].step \in Steps
  /\ Cardinality({t \in Threads : thread[t].step \in {"write", "log draft"}}) <= 1

\* An approval of a profile that was confirmed to its reviewer stays usable
\* through any requests and any death of the process alone. What can take it:
\* a cut-off line, which makes the whole log unreadable, or the death of the
\* host, which may forget the object or the log that nothing made durable.
ConfirmedProfileStays ==
  \A a \in answered : a.kind = "profile" => torn \/ a.object \in lost \/ Get(a.object)

\* What every reader takes for approved: the profiles get() returns, the
\* release paths() opens, the active template.
InForce ==
  {Decision("profile", p.values, p.by) :
     p \in {q \in profiles \cup {Seed} : q.by # Nobody /\ Get(q)}}
  \cup {Decision("release", a.hash, a.by) : a \in {b \in {release.approval} : Installed}}
  \cup {Decision("template", versions[v].sql, versions[v].by) : v \in {u \in DOMAIN versions : Active(u)}}

Ledger == INSTANCE ApprovalLedger WITH usable <- InForce

\* The stores keep the promise of ApprovalLedger: nothing is in force that its
\* named person did not decide on, and a run relies only on what is in force.
KeepsLedger == Ledger!Spec
=============================================================================
