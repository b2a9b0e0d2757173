-------------------------- MODULE ApprovalsProofs --------------------------
(***************************************************************************)
(* The safety of Approvals for any number of request threads, reviewers    *)
(* and texts: its types, the confirmed profile, and that the stores        *)
(* implement ApprovalLedger.                                               *)
(***************************************************************************)
EXTENDS Approvals, FiniteSetTheorems, SequenceTheorems, TLAPS

----------------------------------------------------------------------------
(* The inductive invariant.                                                *)

Objects == [values : Contents, by : People \cup {Nobody}, at : Nat]
Rows == [sql : Contents, status : {"draft", "active", "archived"}, by : People \cup {Nobody}]
Documents == [text : Contents \cup {None}, status : {None, "draft", "active", "superseded"},
              by : People \cup {Nobody}, expired : BOOLEAN]
ApprovalFiles == [state : {None, "whole", "torn"}, hash : Contents \cup {None}, by : People \cup {Nobody}]

\* Where a request handler can stand, with what it carries.
Plain == [step : {"idle", "log draft", "import", "files", "receipt"}]
Drafting == [step : {"draft"}, values : Contents]
Reviewing == [step : {"profile"}, ref : Objects, by : People]
Recording == [step : {"log", "write", "confirm"}, object : Objects]
Releasing == [step : {"release", "record"}, hash : Contents, by : People]
Ingesting == [step : {"latest"}, sql : Contents]
Inserting == [step : {"insert"}, sql : Contents, version : Nat]
Activating == [step : {"template"}, version : Nat, by : People]
Forms == Plain \cup Drafting \cup Reviewing \cup Recording \cup Releasing
           \cup Ingesting \cup Inserting \cup Activating

StoreTypes ==
  /\ profiles \subseteq Objects /\ log \subseteq Objects /\ torn \in BOOLEAN
  /\ release \in [specs : Contents \cup {None}, receipt : {None, "whole", "torn"}, approval : ApprovalFiles]
  /\ versions \in Seq(Rows)
  /\ document \in Documents
  /\ now \in Nat

\* _LOCK: at most one thread is between a write and the end of its section.
Section == {"write", "log draft"}
OneInSection ==
  \A t, u \in Threads : thread[t].step \in Section /\ thread[u].step \in Section => t = u

OneActive == \A u, v \in DOMAIN versions : Active(u) /\ Active(v) => u = v

\* Somebody decided on what a handler is about to record; an approved object
\* that is about to be written has its log entry, one to be confirmed both.
HandlerOk(s) ==
  /\ s.step = "profile" => Decision("profile", s.ref.values, s.by) \in decided
  /\ s.step \in {"log", "write", "confirm"} =>
       s.object.by \in People /\ Decision("profile", s.object.values, s.object.by) \in decided
  /\ s.step \in {"write", "confirm"} => s.object \in log
  /\ s.step = "confirm" => s.object \in profiles
  /\ s.step \in {"release", "record"} => Decision("release", s.hash, s.by) \in decided
  /\ s.step = "template" =>
       s.version \in DOMAIN versions /\ Decision("template", versions[s.version].sql, s.by) \in decided

HandlersOk == \A t \in Threads : HandlerOk(thread[t])

LogDecided ==
  \A e \in log : e.by \in People /\ Decision("profile", e.values, e.by) \in decided

ReleaseDecided ==
  release.approval.state = "whole" =>
    release.approval.hash \in Contents /\ Decision("release", release.approval.hash, release.approval.by) \in decided

ConfirmedRecorded == \A a \in answered : a.kind = "profile" => a.object \in (log \cap profiles) \cup lost

StoresOk == StoreTypes /\ OneActive /\ LogDecided /\ ReleaseDecided /\ ConfirmedRecorded

IInv == /\ StoresOk
        /\ thread \in [Threads -> Forms] /\ OneInSection /\ HandlersOk

\* What no step takes away: decisions, entries, objects, the text of a version.
Grows ==
  /\ decided \subseteq decided' /\ log \subseteq log' /\ profiles \subseteq profiles'
  /\ \A v \in DOMAIN versions : v \in DOMAIN versions' /\ versions'[v].sql = versions[v].sql
----------------------------------------------------------------------------
(* The forms of a handler.                                                 *)

LEMMA IdleForms ==
  /\ Idle \in Forms
  /\ \A st \in {"idle", "log draft", "import", "files", "receipt"} : [step |-> st] \in Forms
BY DEF Forms, Plain, Idle

LEMMA DraftForms ==
  /\ \A c \in Contents : [step |-> "draft", values |-> c] \in Forms
  /\ \A f \in Forms : f.step = "draft" => f.values \in Contents
BY DEF Forms, Plain, Drafting, Reviewing, Recording, Releasing, Ingesting, Inserting, Activating

LEMMA ReviewForms ==
  /\ \A o \in Objects, p \in People : [step |-> "profile", ref |-> o, by |-> p] \in Forms
  /\ \A f \in Forms : f.step = "profile" => f.ref \in Objects /\ f.by \in People
BY DEF Forms, Plain, Drafting, Reviewing, Recording, Releasing, Ingesting, Inserting, Activating

LEMMA RecordForms ==
  /\ \A o \in Objects : [step |-> "log", object |-> o] \in Forms
  /\ \A f \in Forms : f.step \in {"log", "write", "confirm"} => f.object \in Objects
  /\ \A f \in Forms, st \in {"log", "write", "confirm"} :
       f.step \in {"log", "write", "confirm"} =>
         LET g == [f EXCEPT !.step = st] IN g \in Forms /\ g.step = st /\ g.object = f.object
<1>1. \A f \in Forms : f.step \in {"log", "write", "confirm"} => f \in Recording
  BY DEF Forms, Plain, Drafting, Reviewing, Recording, Releasing, Ingesting, Inserting, Activating
<1>2. \A f \in Recording, st \in {"log", "write", "confirm"} :
         LET g == [f EXCEPT !.step = st] IN g \in Recording /\ g.step = st /\ g.object = f.object
  BY DEF Recording
<1>3. Recording \subseteq Forms /\ \A f \in Recording : f.object \in Objects
  BY DEF Forms, Recording
<1>4. \A o \in Objects : [step |-> "log", object |-> o] \in Recording
  BY DEF Recording
<1> QED BY <1>1, <1>2, <1>3, <1>4

LEMMA ReleaseForms ==
  /\ \A c \in Contents, p \in People : [step |-> "release", hash |-> c, by |-> p] \in Forms
  /\ \A f \in Forms : f.step \in {"release", "record"} => f.hash \in Contents /\ f.by \in People
  /\ \A f \in Forms : f.step = "release" =>
       LET g == [f EXCEPT !.step = "record"]
       IN  g \in Forms /\ g.step = "record" /\ g.hash = f.hash /\ g.by = f.by
<1>1. \A f \in Forms : f.step \in {"release", "record"} => f \in Releasing
  BY DEF Forms, Plain, Drafting, Reviewing, Recording, Releasing, Ingesting, Inserting, Activating
<1>2. \A f \in Releasing :
         LET g == [f EXCEPT !.step = "record"]
         IN  g \in Releasing /\ g.step = "record" /\ g.hash = f.hash /\ g.by = f.by
  BY DEF Releasing
<1>3. Releasing \subseteq Forms /\ \A f \in Releasing : f.hash \in Contents /\ f.by \in People
  BY DEF Forms, Releasing
<1>4. \A c \in Contents, p \in People : [step |-> "release", hash |-> c, by |-> p] \in Releasing
  BY DEF Releasing
<1> QED BY <1>1, <1>2, <1>3, <1>4

LEMMA TemplateForms ==
  /\ \A c \in Contents : [step |-> "latest", sql |-> c] \in Forms
  /\ \A c \in Contents, v \in Nat : [step |-> "insert", sql |-> c, version |-> v] \in Forms
  /\ \A v \in Nat, p \in People : [step |-> "template", version |-> v, by |-> p] \in Forms
  /\ \A f \in Forms : f.step \in {"latest", "insert"} => f.sql \in Contents
  /\ \A f \in Forms : f.step = "insert" => f.version \in Nat
  /\ \A f \in Forms : f.step = "template" => f.version \in Nat /\ f.by \in People
<1>1. \A f \in Forms : /\ f.step = "latest" => f \in Ingesting
                       /\ f.step = "insert" => f \in Inserting
                       /\ f.step = "template" => f \in Activating
  BY DEF Forms, Plain, Drafting, Reviewing, Recording, Releasing, Ingesting, Inserting, Activating
<1>2. /\ \A f \in Ingesting : f.sql \in Contents
      /\ \A f \in Inserting : f.sql \in Contents /\ f.version \in Nat
      /\ \A f \in Activating : f.version \in Nat /\ f.by \in People
  BY DEF Ingesting, Inserting, Activating
<1>3. /\ \A c \in Contents : [step |-> "latest", sql |-> c] \in Ingesting
      /\ \A c \in Contents, v \in Nat : [step |-> "insert", sql |-> c, version |-> v] \in Inserting
      /\ \A v \in Nat, p \in People : [step |-> "template", version |-> v, by |-> p] \in Activating
  BY DEF Ingesting, Inserting, Activating
<1>4. Ingesting \subseteq Forms /\ Inserting \subseteq Forms /\ Activating \subseteq Forms
  BY DEF Forms
<1> QED BY <1>1, <1>2, <1>3, <1>4

\* A handler that carries nothing has nothing to answer for.
LEMMA PlainOk ==
  ASSUME NEW s, s.step \notin {"profile", "log", "write", "confirm", "release", "record", "template"}
  PROVE  HandlerOk(s)'
BY DEF HandlerOk

\* A step of one handler.
LEMMA HandlerMoves ==
  ASSUME IInv, NEW t \in Threads, NEW s \in Forms, Go(t, s), Grows, StoresOk',
         HandlerOk(s)', s.step \in Section => LockFree
  PROVE  IInv'
<1>1. /\ thread' \in [Threads -> Forms] /\ thread'[t] = s
      /\ \A u \in Threads : u # t => thread'[u] = thread[u]
  BY DEF IInv, Go
<1>2. OneInSection'
  BY <1>1 DEF IInv, OneInSection, Section, LockFree
<1>3. HandlersOk'
  <2> SUFFICES ASSUME NEW u \in Threads PROVE HandlerOk(thread[u])'
    BY DEF HandlersOk
  <2>1. CASE u = t
    BY <1>1, <2>1 DEF HandlerOk
  <2>2. CASE u # t
    <3>1. HandlerOk(thread[u]) /\ thread'[u] = thread[u]
      BY <1>1, <2>2 DEF IInv, HandlersOk
    <3> QED BY <3>1 DEF HandlerOk, Grows
  <2> QED BY <2>1, <2>2
<1> QED BY <1>1, <1>2, <1>3 DEF IInv

\* A step of nobody's handler.
LEMMA HandlersStay ==
  ASSUME IInv, Grows, StoresOk', UNCHANGED thread
  PROVE  IInv'
<1>1. OneInSection'
  BY DEF IInv, OneInSection
<1>2. HandlersOk'
  BY DEF IInv, HandlersOk, HandlerOk, Grows
<1> QED BY <1>1, <1>2 DEF IInv

----------------------------------------------------------------------------
LEMMA SeedIsObject == Seed \in Objects /\ Seed.by \in People /\ Seed.values \in Contents
BY PeopleAssumption DEF Seed, Objects

LEMMA InitInv == Init => IInv
<1> SUFFICES ASSUME Init PROVE IInv
  OBVIOUS
<1> USE SeedIsObject, PeopleAssumption
<1>1. versions \in Seq(Rows) /\ OneActive
  <2>1. CASE versions = <<>>
    BY <2>1 DEF OneActive
  <2>2. CASE versions = Approved(<<Row(Seed.values)>>, 1, Seed.by)
    <3> DEFINE one == <<Row(Seed.values)>>
    <3>1. DOMAIN one = 1 .. 1 /\ one[1] = Row(Seed.values)
      OBVIOUS
    <3>2. [Row(Seed.values) EXCEPT !.status = "active", !.by = Seed.by] \in Rows
      BY DEF Row, Rows
    <3>3. \A u \in 1 .. 1 : u = 1
      OBVIOUS
    <3>4. versions \in [1 .. 1 -> Rows]
      <4> HIDE DEF one
      <4>1. versions = [u \in 1 .. 1 |-> IF u = 1 THEN [one[u] EXCEPT !.status = "active", !.by = Seed.by]
                          ELSE IF one[u].status = "active" THEN [one[u] EXCEPT !.status = "archived"]
                          ELSE one[u]]
        BY <2>2, <3>1 DEF Approved, one
      <4> QED BY <4>1, <3>1, <3>2, <3>3
    <3>5. DOMAIN versions = 1 .. 1 /\ versions \in Seq(Rows)
      BY <3>4, SeqDef
    <3> QED BY <3>5 DEF OneActive
  <2> QED BY <2>1, <2>2 DEF Init
<1>2. document \in Documents
  <2>1. \A c \in Contents \cup {None}, st \in {None, "active"}, p \in People \cup {Nobody} :
           Document(c, st, p) \in Documents
    BY DEF Document, Documents
  <2>2. document = Document(None, None, Nobody) \/ document = Document(Seed.values, "active", Seed.by)
    BY DEF Init, NoDocument
  <2> QED BY <2>1, <2>2
<1>3. thread \in [Threads -> Forms] /\ \A t \in Threads : thread[t].step = "idle"
  BY IdleForms DEF Init, Idle
<1>4. release = [specs |-> None, receipt |-> None,
                 approval |-> [state |-> None, hash |-> None, by |-> Nobody]]
  BY DEF Init, NoRelease, File
<1>5. StoreTypes
  <2>1. release \in [specs : Contents \cup {None}, receipt : {None, "whole", "torn"}, approval : ApprovalFiles]
    BY <1>4 DEF ApprovalFiles
  <2> QED BY <1>1, <1>2, <2>1 DEF Init, StoreTypes
<1>6. OneInSection
  BY <1>3 DEF OneInSection, Section
<1>7. HandlersOk
  BY <1>3, Zenon DEF HandlersOk, HandlerOk
<1>8. LogDecided /\ ReleaseDecided /\ ConfirmedRecorded
  BY <1>4 DEF Init, LogDecided, ReleaseDecided, ConfirmedRecorded, None
<1> QED BY <1>1, <1>3, <1>5, <1>6, <1>7, <1>8 DEF IInv, StoresOk

----------------------------------------------------------------------------
(* The steps.                                                              *)

LEMMA StoresUnchanged ==
  ASSUME IInv, UNCHANGED <<store, release, registry>>, UNCHANGED answered, now' \in Nat, decided \subseteq decided'
  PROVE  StoresOk' /\ Grows
<1>1. StoreTypes'
  BY DEF IInv, StoresOk, StoreTypes, store, registry
<1>2. OneActive'
  BY DEF IInv, StoresOk, OneActive, Active, registry
<1>3. LogDecided' /\ ReleaseDecided' /\ ConfirmedRecorded'
  BY DEF IInv, StoresOk, LogDecided, ReleaseDecided, ConfirmedRecorded, store
<1>4. Grows
  BY DEF Grows, store, registry
<1> QED BY <1>1, <1>2, <1>3, <1>4 DEF StoresOk

LEMMA AskInv == ASSUME IInv, NEW t \in Threads, Ask(t) PROVE IInv'
<1>1. PICK s \in Forms : Go(t, s) /\ s.step \in {"draft", "latest", "import"}
  BY IdleForms, DraftForms, TemplateForms DEF Ask, Request
<1>2. StoresOk' /\ Grows
  BY StoresUnchanged DEF Ask, Request, history, IInv, StoresOk, StoreTypes
<1>3. HandlerOk(s)'
  BY <1>1, PlainOk
<1> QED BY <1>1, <1>2, <1>3, HandlerMoves DEF Section

LEMMA AskApprovalInv ==
  ASSUME IInv, NEW t \in Threads, NEW p \in People, AskApproval(t, p) PROVE IInv'
<1>1. StoresOk' /\ Grows
  BY StoresUnchanged DEF AskApproval, IInv, StoresOk, StoreTypes
<1>2. PICK s \in Forms : Go(t, s) /\ HandlerOk(s)' /\ s.step \in {"profile", "template", "release"}
  <2>1. ASSUME NEW ref \in profiles, Request(t, [step |-> "profile", ref |-> ref, by |-> p]),
               decided' = decided \cup {Decision("profile", ref.values, p)}
        PROVE  \E s \in Forms : Go(t, s) /\ HandlerOk(s)' /\ s.step = "profile"
    <3>1. [step |-> "profile", ref |-> ref, by |-> p] \in Forms
      BY ReviewForms DEF IInv, StoresOk, StoreTypes
    <3>2. HandlerOk([step |-> "profile", ref |-> ref, by |-> p])'
      BY <2>1 DEF HandlerOk
    <3> QED BY <2>1, <3>1, <3>2 DEF Request
  <2>2. ASSUME NEW v \in DOMAIN versions, Request(t, [step |-> "template", version |-> v, by |-> p]),
               decided' = decided \cup {Decision("template", versions[v].sql, p)}
        PROVE  \E s \in Forms : Go(t, s) /\ HandlerOk(s)' /\ s.step = "template"
    <3>1. v \in Nat
      BY DEF IInv, StoresOk, StoreTypes
    <3>2. [step |-> "template", version |-> v, by |-> p] \in Forms
      BY <3>1, TemplateForms
    <3>3. HandlerOk([step |-> "template", version |-> v, by |-> p])'
      BY <2>2 DEF HandlerOk, AskApproval, registry
    <3> QED BY <2>2, <3>2, <3>3 DEF Request
  <2>3. ASSUME NEW hash \in Contents, Request(t, [step |-> "release", hash |-> hash, by |-> p]),
               decided' = decided \cup {Decision("release", hash, p)}
        PROVE  \E s \in Forms : Go(t, s) /\ HandlerOk(s)' /\ s.step = "release"
    <3>1. [step |-> "release", hash |-> hash, by |-> p] \in Forms
      BY ReleaseForms
    <3>2. HandlerOk([step |-> "release", hash |-> hash, by |-> p])'
      BY <2>3 DEF HandlerOk
    <3> QED BY <2>3, <3>1, <3>2 DEF Request
  <2> QED BY <2>1, <2>2, <2>3 DEF AskApproval
<1> QED BY <1>1, <1>2, HandlerMoves DEF Section

LEMMA CreateDraftInv == ASSUME IInv, NEW t \in Threads, CreateDraft(t) PROVE IInv'
<1> DEFINE s == [step |-> "log draft"]
           draft == [values |-> thread[t].values, by |-> Nobody, at |-> 0]
<1>1. s \in Forms /\ Go(t, s) /\ s.step \notin {"profile", "log", "write", "confirm", "release", "record", "template"}
  BY IdleForms DEF CreateDraft
<1>2. draft \in Objects
  BY DraftForms DEF CreateDraft, At, IInv, Objects
<1>3. StoresOk' /\ Grows
  <2>1. profiles' = profiles \cup {draft} /\ UNCHANGED <<log, torn, lost, release, registry, now, history>>
    BY DEF CreateDraft
  <2> HIDE DEF draft
  <2>2. StoreTypes' /\ OneActive'
    BY <1>2, <2>1 DEF IInv, StoresOk, StoreTypes, OneActive, Active, registry
  <2>3. LogDecided' /\ ReleaseDecided' /\ ConfirmedRecorded'
    BY <2>1 DEF IInv, StoresOk, LogDecided, ReleaseDecided, ConfirmedRecorded, history
  <2>4. Grows
    BY <2>1 DEF Grows, registry, history
  <2> QED BY <2>2, <2>3, <2>4 DEF StoresOk
<1>4. LockFree
  BY DEF CreateDraft
<1> HIDE DEF s
<1>5. HandlerOk(s)'
  BY <1>1, PlainOk
<1> QED BY <1>1, <1>3, <1>4, <1>5, HandlerMoves

LEMMA LogDraftInv == ASSUME IInv, NEW t \in Threads, LogDraft(t) PROVE IInv'
<1>1. StoresOk' /\ Grows
  BY StoresUnchanged DEF LogDraft, history, IInv, StoresOk, StoreTypes
<1>2. Idle \in Forms /\ Go(t, Idle) /\ Idle.step = "idle"
  BY IdleForms DEF LogDraft, Idle
<1>3. HandlerOk(Idle)'
  BY <1>2, PlainOk
<1> QED BY <1>1, <1>2, <1>3, HandlerMoves DEF Section

LEMMA ReadDraftInv == ASSUME IInv, NEW t \in Threads, ReadDraft(t) PROVE IInv'
<1> DEFINE ref == thread[t].ref
           object == [ref EXCEPT !.by = thread[t].by, !.at = now]
<1>1. StoresOk' /\ Grows
  BY StoresUnchanged DEF ReadDraft, history, IInv, StoresOk, StoreTypes
<1>2. CASE Go(t, Idle)
  <2>1. Idle \in Forms /\ Idle.step = "idle"
    BY IdleForms DEF Idle
  <2>2. HandlerOk(Idle)'
    BY <2>1, PlainOk
  <2> QED BY <1>1, <1>2, <2>1, <2>2, HandlerMoves DEF Section
<1>3. CASE Go(t, [step |-> "log", object |-> object])
  <2>1. ref \in Objects /\ thread[t].by \in People /\ now \in Nat
    BY ReviewForms DEF ReadDraft, At, IInv, StoresOk, StoreTypes
  <2>2. object \in Objects /\ object.by = thread[t].by /\ object.values = ref.values
    BY <2>1 DEF Objects
  <2>3. Decision("profile", ref.values, thread[t].by) \in decided
    BY DEF ReadDraft, At, IInv, HandlersOk, HandlerOk
  <2>4. decided' = decided
    BY DEF ReadDraft, history
  <2> HIDE DEF object
  <2>5. [step |-> "log", object |-> object] \in Forms
    BY <2>2, RecordForms
  <2>6. PICK s \in Forms : s = [step |-> "log", object |-> object]
    BY <2>5
  <2>7. HandlerOk(s)'
    BY <2>1, <2>2, <2>3, <2>4, <2>6 DEF HandlerOk
  <2>8. s.step \notin Section
    BY <2>6 DEF Section
  <2> QED BY <1>1, <1>3, <2>6, <2>7, <2>8, HandlerMoves
<1> QED BY <1>2, <1>3 DEF ReadDraft

LEMMA LogApprovalInv == ASSUME IInv, NEW t \in Threads, LogApproval(t) PROVE IInv'
<1>1. thread[t] \in Forms /\ thread[t].step = "log" /\ thread[t].object \in Objects
  BY RecordForms DEF LogApproval, At, IInv
<1>2. PICK s \in Forms : Go(t, s) /\ s.step = "write" /\ s.object = thread[t].object
  BY <1>1, RecordForms DEF LogApproval
<1>3. /\ s.object \in Objects /\ s.object.by \in People
      /\ Decision("profile", s.object.values, s.object.by) \in decided
  BY <1>1, <1>2 DEF IInv, HandlersOk, HandlerOk
<1>4. log' = log \cup {s.object} /\ UNCHANGED <<profiles, torn, lost, release, registry, now, history>>
  BY <1>2 DEF LogApproval
<1>5. StoresOk' /\ Grows
  <2>1. StoreTypes' /\ OneActive'
    BY <1>3, <1>4 DEF IInv, StoresOk, StoreTypes, OneActive, Active, registry
  <2>2. LogDecided' /\ ReleaseDecided' /\ ConfirmedRecorded'
    BY <1>3, <1>4 DEF IInv, StoresOk, LogDecided, ReleaseDecided, ConfirmedRecorded, history
  <2>3. Grows
    BY <1>4 DEF Grows, registry, history
  <2> QED BY <2>1, <2>2, <2>3 DEF StoresOk
<1>6. HandlerOk(s)'
  BY <1>2, <1>3, <1>4 DEF HandlerOk, history
<1>7. LockFree
  BY DEF LogApproval
<1> QED BY <1>2, <1>5, <1>6, <1>7, HandlerMoves

LEMMA WriteApprovedInv == ASSUME IInv, NEW t \in Threads, WriteApproved(t) PROVE IInv'
<1>1. thread[t] \in Forms /\ thread[t].step = "write" /\ thread[t].object \in Objects
  BY RecordForms DEF WriteApproved, At, IInv
<1>2. PICK s \in Forms : Go(t, s) /\ s.step = "confirm" /\ s.object = thread[t].object
  BY <1>1, RecordForms DEF WriteApproved
<1>3. /\ s.object \in Objects /\ s.object.by \in People /\ s.object \in log
      /\ Decision("profile", s.object.values, s.object.by) \in decided
  BY <1>1, <1>2 DEF IInv, HandlersOk, HandlerOk
<1>4. profiles' = profiles \cup {s.object} /\ UNCHANGED <<log, torn, lost, release, registry, now, history>>
  BY <1>2 DEF WriteApproved
<1>5. StoresOk' /\ Grows
  <2>1. StoreTypes' /\ OneActive'
    BY <1>3, <1>4 DEF IInv, StoresOk, StoreTypes, OneActive, Active, registry
  <2>2. LogDecided' /\ ReleaseDecided' /\ ConfirmedRecorded'
    BY <1>4 DEF IInv, StoresOk, LogDecided, ReleaseDecided, ConfirmedRecorded, history
  <2>3. Grows
    BY <1>4 DEF Grows, registry, history
  <2> QED BY <2>1, <2>2, <2>3 DEF StoresOk
<1>6. HandlerOk(s)'
  BY <1>2, <1>3, <1>4 DEF HandlerOk, history
<1>7. s.step \notin Section
  BY <1>2 DEF Section
<1> QED BY <1>2, <1>5, <1>6, <1>7, HandlerMoves

LEMMA ConfirmInv == ASSUME IInv, NEW t \in Threads, Confirm(t) PROVE IInv'
<1>1. thread[t].object \in log /\ thread[t].object \in profiles
  BY DEF Confirm, At, IInv, HandlersOk, HandlerOk
<1>2. UNCHANGED <<store, release, registry, now, decided>>
  BY DEF Confirm
<1>3. StoresOk' /\ Grows
  <2>1. StoreTypes' /\ OneActive' /\ Grows
    BY <1>2 DEF IInv, StoresOk, StoreTypes, OneActive, Active, Grows, store, registry
  <2>2. LogDecided' /\ ReleaseDecided'
    BY <1>2 DEF IInv, StoresOk, LogDecided, ReleaseDecided, store
  <2>3. ConfirmedRecorded'
    <3>1. answered' \subseteq answered \cup {[kind |-> "profile", object |-> thread[t].object]}
      BY DEF Confirm
    <3> QED BY <1>1, <1>2, <3>1 DEF IInv, StoresOk, ConfirmedRecorded, store
  <2> QED BY <2>1, <2>2, <2>3 DEF StoresOk
<1>4. Idle \in Forms /\ Go(t, Idle) /\ Idle.step = "idle"
  BY IdleForms DEF Confirm, Idle
<1>5. HandlerOk(Idle)'
  BY <1>4, PlainOk
<1> QED BY <1>3, <1>4, <1>5, HandlerMoves DEF Section

LEMMA DropFileInv == ASSUME IInv, NEW p \in People, DropFile(p) PROVE IInv'
<1>1. PICK c \in Contents : profiles' = profiles \cup {[values |-> c, by |-> p, at |-> now]}
  BY DEF DropFile
<1>2. [values |-> c, by |-> p, at |-> now] \in Objects
  BY DEF Objects, IInv, StoresOk, StoreTypes
<1>3. UNCHANGED <<log, torn, lost, release, registry, now, history, thread>>
  BY DEF DropFile
<1>4. StoreTypes' /\ OneActive'
  BY <1>1, <1>2, <1>3 DEF IInv, StoresOk, StoreTypes, OneActive, Active, registry
<1>5. LogDecided' /\ ReleaseDecided' /\ ConfirmedRecorded'
  BY <1>1, <1>3 DEF IInv, StoresOk, LogDecided, ReleaseDecided, ConfirmedRecorded, history
<1>6. Grows
  BY <1>1, <1>3 DEF Grows, registry, history
<1> QED BY <1>3, <1>4, <1>5, <1>6, HandlersStay DEF StoresOk

LEMMA ImportInv == ASSUME IInv, NEW t \in Threads, Import(t) PROVE IInv'
<1>1. StoresOk' /\ Grows
  BY StoresUnchanged DEF Import, history, IInv, StoresOk, StoreTypes
<1>2. PICK s \in Forms : Go(t, s) /\ s.step \in {"idle", "files"}
  BY IdleForms DEF Import, Idle
<1>3. HandlerOk(s)'
  BY <1>2, PlainOk
<1> QED BY <1>1, <1>2, <1>3, HandlerMoves DEF Section

\* A new state of the release folder whose approval, if whole, is decided on.
LEMMA ReleaseStored ==
  ASSUME IInv, UNCHANGED <<store, registry, now, decided>>,
         release' \in [specs : Contents \cup {None}, receipt : {None, "whole", "torn"}, approval : ApprovalFiles],
         ReleaseDecided',
         \A a \in answered' : a \in answered \/ a.kind = "release"
  PROVE  StoresOk' /\ Grows
<1>1. StoreTypes' /\ OneActive' /\ Grows
  BY DEF IInv, StoresOk, StoreTypes, OneActive, Active, Grows, store, registry
<1>2. LogDecided' /\ ConfirmedRecorded'
  BY DEF IInv, StoresOk, LogDecided, ConfirmedRecorded, store
<1> QED BY <1>1, <1>2 DEF StoresOk

LEMMA WriteReleaseInv == ASSUME IInv, NEW t \in Threads, WriteRelease(t) PROVE IInv'
<1>1. PICK s \in Forms : Go(t, s) /\ s.step \in {"idle", "receipt"}
  BY IdleForms DEF WriteRelease, Idle
<1>2. StoresOk' /\ Grows
  <2>1. Imported \in Contents
    BY PeopleAssumption DEF Imported
  <2>2. /\ release' \in [specs : Contents \cup {None}, receipt : {None, "whole", "torn"}, approval : ApprovalFiles]
        /\ release'.approval = release.approval
    BY <2>1 DEF WriteRelease, IInv, StoresOk, StoreTypes
  <2>3. UNCHANGED <<store, registry, now, decided, answered>>
    BY DEF WriteRelease, history
  <2>4. ReleaseDecided'
    BY <2>2, <2>3 DEF IInv, StoresOk, ReleaseDecided
  <2> QED BY <2>2, <2>3, <2>4, ReleaseStored
<1>3. HandlerOk(s)'
  BY <1>1, PlainOk
<1> QED BY <1>1, <1>2, <1>3, HandlerMoves DEF Section

LEMMA CheckReleaseInv == ASSUME IInv, NEW t \in Threads, CheckRelease(t) PROVE IInv'
<1>1. StoresOk' /\ Grows
  BY StoresUnchanged DEF CheckRelease, history, IInv, StoresOk, StoreTypes
<1>2. CASE Go(t, Idle)
  <2>1. Idle \in Forms /\ Idle.step = "idle"
    BY IdleForms DEF Idle
  <2>2. HandlerOk(Idle)'
    BY <2>1, PlainOk
  <2> QED BY <1>1, <1>2, <2>1, <2>2, HandlerMoves DEF Section
<1>3. CASE Go(t, [thread[t] EXCEPT !.step = "record"])
  <2>1. thread[t] \in Forms /\ thread[t].step = "release"
    BY DEF CheckRelease, At, IInv
  <2>2. PICK s \in Forms : /\ Go(t, s) /\ s.step = "record"
                           /\ s.hash = thread[t].hash /\ s.by = thread[t].by
    BY <1>3, <2>1, ReleaseForms
  <2>3. Decision("release", s.hash, s.by) \in decided
    BY <2>1, <2>2 DEF IInv, HandlersOk, HandlerOk
  <2>4. HandlerOk(s)'
    BY <2>2, <2>3 DEF HandlerOk, CheckRelease, history
  <2> QED BY <1>1, <2>2, <2>4, HandlerMoves DEF Section
<1> QED BY <1>2, <1>3 DEF CheckRelease

LEMMA RecordApprovalInv == ASSUME IInv, NEW t \in Threads, RecordApproval(t) PROVE IInv'
<1> DEFINE approval == File("whole", thread[t].hash, thread[t].by)
<1>1. /\ thread[t].hash \in Contents /\ thread[t].by \in People
      /\ Decision("release", thread[t].hash, thread[t].by) \in decided
  BY ReleaseForms DEF RecordApproval, At, IInv, HandlersOk, HandlerOk
<1>2. approval \in ApprovalFiles /\ approval.hash = thread[t].hash /\ approval.by = thread[t].by
  BY <1>1 DEF File, ApprovalFiles
<1>3. /\ release' = [release EXCEPT !.approval = approval]
      /\ answered' = answered \cup {[kind |-> "release", object |-> approval]}
      /\ UNCHANGED <<store, registry, now, decided>>
  BY DEF RecordApproval
<1> HIDE DEF approval
<1>4. /\ release' \in [specs : Contents \cup {None}, receipt : {None, "whole", "torn"}, approval : ApprovalFiles]
      /\ release'.approval = approval
  BY <1>2, <1>3 DEF IInv, StoresOk, StoreTypes
<1>5. ReleaseDecided'
  BY <1>1, <1>2, <1>3, <1>4 DEF ReleaseDecided
<1>6. StoresOk' /\ Grows
  BY <1>3, <1>4, <1>5, ReleaseStored
<1>7. Idle \in Forms /\ Go(t, Idle) /\ Idle.step = "idle"
  BY IdleForms DEF RecordApproval, Idle
<1>8. HandlerOk(Idle)'
  BY <1>7, PlainOk
<1> QED BY <1>6, <1>7, <1>8, HandlerMoves DEF Section

LEMMA EditReleaseInv == ASSUME IInv, EditRelease PROVE IInv'
<1>1. /\ release' \in [specs : Contents \cup {None}, receipt : {None, "whole", "torn"}, approval : ApprovalFiles]
      /\ release'.approval = release.approval
  BY DEF EditRelease, IInv, StoresOk, StoreTypes
<1>2. UNCHANGED <<store, registry, now, decided, answered, thread>>
  BY DEF EditRelease, history
<1>3. ReleaseDecided'
  BY <1>1, <1>2 DEF IInv, StoresOk, ReleaseDecided
<1>4. StoresOk' /\ Grows
  BY <1>1, <1>2, <1>3, ReleaseStored
<1> QED BY <1>2, <1>4, HandlersStay

LEMMA ReadLatestInv == ASSUME IInv, NEW t \in Threads, ReadLatest(t) PROVE IInv'
<1>1. StoresOk' /\ Grows
  BY StoresUnchanged DEF ReadLatest, history, IInv, StoresOk, StoreTypes
<1>2. PICK s \in Forms : Go(t, s) /\ s.step \in {"idle", "insert"}
  <2>1. Len(versions) \in Nat /\ thread[t].sql \in Contents
    BY TemplateForms DEF ReadLatest, At, IInv, StoresOk, StoreTypes
  <2>2. CASE Go(t, Idle)
    BY <2>2, IdleForms DEF Idle
  <2>3. CASE Go(t, [step |-> "insert", sql |-> thread[t].sql, version |-> Len(versions) + 1])
    <3>1. [step |-> "insert", sql |-> thread[t].sql, version |-> Len(versions) + 1] \in Forms
      BY <2>1, TemplateForms
    <3> QED BY <2>3, <3>1
  <2> QED BY <2>2, <2>3 DEF ReadLatest
<1>3. HandlerOk(s)'
  BY <1>2, PlainOk
<1> QED BY <1>1, <1>2, <1>3, HandlerMoves DEF Section

\* New rows of the registry that keep every row's text and one active version.
LEMMA RowsStored ==
  ASSUME IInv, UNCHANGED <<store, release, document, now, decided, answered>>,
         versions' \in Seq(Rows), OneActive',
         \A v \in DOMAIN versions : v \in DOMAIN versions' /\ versions'[v].sql = versions[v].sql
  PROVE  StoresOk' /\ Grows
<1>1. StoreTypes' /\ Grows
  BY DEF IInv, StoresOk, StoreTypes, Grows, store
<1>2. LogDecided' /\ ReleaseDecided' /\ ConfirmedRecorded'
  BY DEF IInv, StoresOk, LogDecided, ReleaseDecided, ConfirmedRecorded, store
<1> QED BY <1>1, <1>2 DEF StoresOk

LEMMA InsertInv == ASSUME IInv, NEW t \in Threads, Insert(t) PROVE IInv'
<1>1. thread[t].sql \in Contents /\ versions \in Seq(Rows) /\ OneActive
  BY TemplateForms DEF Insert, At, IInv, StoresOk, StoreTypes
<1>2. UNCHANGED <<store, release, document, now, decided, answered>>
  BY DEF Insert, history
<1>3. StoresOk' /\ Grows
  <2>1. CASE versions' = versions
    BY <1>1, <1>2, <2>1, RowsStored DEF OneActive, Active
  <2>2. CASE versions' = Append(versions, Row(thread[t].sql))
    <3> DEFINE row == Row(thread[t].sql)
    <3>1. row \in Rows /\ row.status = "draft"
      BY <1>1 DEF Row, Rows
    <3> HIDE DEF row
    <3>2. /\ versions' \in Seq(Rows) /\ DOMAIN versions' = 1 .. Len(versions) + 1
          /\ DOMAIN versions = 1 .. Len(versions) /\ Len(versions) \in Nat
          /\ \A v \in DOMAIN versions : versions'[v] = versions[v]
          /\ versions'[Len(versions) + 1] = row
      BY <1>1, <2>2, <3>1 DEF row
    <3>3. \A v \in DOMAIN versions' : versions'[v].status = "active" => Active(v)
      BY <3>1, <3>2 DEF Active
    <3>4. OneActive'
      BY <1>1, <3>3 DEF OneActive, Active
    <3> QED BY <1>2, <3>2, <3>4, RowsStored
  <2> QED BY <2>1, <2>2 DEF Insert, Inserted
<1>4. Idle \in Forms /\ Go(t, Idle) /\ Idle.step = "idle"
  BY IdleForms DEF Insert, Idle
<1>5. HandlerOk(Idle)'
  BY <1>4, PlainOk
<1> QED BY <1>3, <1>4, <1>5, HandlerMoves DEF Section

\* Approving one version archives the active one and changes no text.
LEMMA ApprovedRows ==
  ASSUME NEW rows \in Seq(Rows), NEW v \in DOMAIN rows, NEW p \in People
  PROVE  LET new == Approved(rows, v, p)
         IN  /\ new \in Seq(Rows) /\ DOMAIN new = DOMAIN rows
             /\ new[v].status = "active" /\ new[v].by = p
             /\ \A u \in DOMAIN rows : new[u].sql = rows[u].sql
             /\ \A u \in DOMAIN rows : u # v => new[u].status # "active"
<1> DEFINE new == Approved(rows, v, p)
<1>1. DOMAIN rows = 1 .. Len(rows) /\ Len(rows) \in Nat /\ \A u \in DOMAIN rows : rows[u] \in Rows
  OBVIOUS
<1>2. DOMAIN new = DOMAIN rows
  BY DEF Approved
<1>3. \A u \in DOMAIN rows :
         /\ u = v => new[u] = [rows[u] EXCEPT !.status = "active", !.by = p]
         /\ u # v => new[u] = IF rows[u].status = "active" THEN [rows[u] EXCEPT !.status = "archived"]
                              ELSE rows[u]
  BY DEF Approved
<1> HIDE DEF new
<1>4. \A u \in DOMAIN rows : new[u] \in Rows /\ new[u].sql = rows[u].sql
  <2>1. \A r \in Rows : LET a == [r EXCEPT !.status = "active", !.by = p]
                          b == [r EXCEPT !.status = "archived"]
                      IN  a \in Rows /\ b \in Rows /\ a.sql = r.sql /\ b.sql = r.sql
    BY DEF Rows
  <2> QED BY <1>1, <1>3, <2>1
<1>5. new[v].status = "active" /\ new[v].by = p
  BY <1>1, <1>3 DEF Rows
<1>6. \A u \in DOMAIN rows : u # v => new[u].status # "active"
  BY <1>1, <1>3 DEF Rows
<1>7. new = [u \in 1 .. Len(rows) |-> new[u]]
  BY <1>1 DEF new, Approved
<1>8. new \in Seq(Rows)
  BY <1>1, <1>4, <1>7, SeqDef
<1> QED BY <1>2, <1>4, <1>5, <1>6, <1>8 DEF new

LEMMA ApproveTemplateInv == ASSUME IInv, NEW t \in Threads, ApproveTemplate(t) PROVE IInv'
<1> DEFINE v == thread[t].version
           p == thread[t].by
<1>1. versions \in Seq(Rows) /\ v \in DOMAIN versions /\ p \in People /\ OneActive
  BY TemplateForms DEF ApproveTemplate, At, IInv, StoresOk, StoreTypes, HandlersOk, HandlerOk
<1>2. UNCHANGED <<store, release, document, now, decided, answered>>
  BY DEF ApproveTemplate, history
<1>3. StoresOk' /\ Grows
  <2>1. CASE versions' = versions
    BY <1>1, <1>2, <2>1, RowsStored DEF OneActive, Active
  <2>2. CASE versions' = Approved(versions, v, p)
    <3> HIDE DEF v, p
    <3>1. /\ versions' \in Seq(Rows) /\ DOMAIN versions' = DOMAIN versions
          /\ \A u \in DOMAIN versions : versions'[u].sql = versions[u].sql
          /\ \A u \in DOMAIN versions : u # v => versions'[u].status # "active"
      BY <1>1, <2>2, ApprovedRows
    <3>2. OneActive'
      BY <3>1 DEF OneActive, Active
    <3> QED BY <1>2, <3>1, <3>2, RowsStored
  <2> QED BY <2>1, <2>2 DEF ApproveTemplate
<1>4. Idle \in Forms /\ Go(t, Idle) /\ Idle.step = "idle"
  BY IdleForms DEF ApproveTemplate, Idle
<1>5. HandlerOk(Idle)'
  BY <1>4, PlainOk
<1> QED BY <1>3, <1>4, <1>5, HandlerMoves DEF Section

\* The document's row, the handoff and what was relied on are nobody's handler.
LEMMA ElsewhereInv ==
  ASSUME IInv, UNCHANGED <<store, release, versions, thread, now, decided, answered>>,
         document' \in Documents
  PROVE  IInv'
<1>1. StoreTypes' /\ OneActive' /\ Grows
  BY DEF IInv, StoresOk, StoreTypes, OneActive, Active, Grows, store
<1>2. LogDecided' /\ ReleaseDecided' /\ ConfirmedRecorded'
  BY DEF IInv, StoresOk, LogDecided, ReleaseDecided, ConfirmedRecorded, store
<1> QED BY <1>1, <1>2, HandlersStay DEF StoresOk

LEMMA IngestDocumentInv ==
  ASSUME IInv, NEW c \in Contents, NEW p \in People \cup {Nobody}, IngestDocument(c, p) PROVE IInv'
<1>1. document' \in Documents
  BY DEF IngestDocument, Document, Documents
<1> QED BY <1>1, ElsewhereInv DEF IngestDocument, history

LEMMA DocumentInv ==
  ASSUME IInv, (\E p \in People : ApproveDocument(p)) \/ Retire PROVE IInv'
<1>1. UNCHANGED <<store, release, versions, thread, now, decided, answered>>
  BY DEF ApproveDocument, Retire, history
<1>2. document' \in Documents
  BY DEF ApproveDocument, Retire, IInv, StoresOk, StoreTypes, Documents
<1> QED BY <1>1, <1>2, ElsewhereInv

LEMMA HandoffInv ==
  ASSUME IInv, (\E v \in DOMAIN versions : Pin(v)) \/ Verify \/ Run PROVE IInv'
<1>1. UNCHANGED <<store, release, versions, document, thread, now, decided, answered>>
  BY DEF Pin, Verify, Run, registry, history
<1>2. document' \in Documents
  BY <1>1 DEF IInv, StoresOk, StoreTypes
<1> QED BY <1>1, <1>2, ElsewhereInv

\* What may have become of the release's files.
LEMMA ReleaseAfterDeath ==
  ASSUME IInv, Crash \/ HostCrash
  PROVE  /\ release' \in [specs : Contents \cup {None}, receipt : {None, "whole", "torn"}, approval : ApprovalFiles]
         /\ release'.specs \in {release.specs, None}
         /\ release'.approval = release.approval \/ release'.approval.state \in {None, "torn"}
<1> DEFINE blank == File(None, None, Nobody)
<1>1. /\ release.specs \in Contents \cup {None} /\ release.receipt \in {None, "whole", "torn"}
      /\ release.approval \in ApprovalFiles
  BY DEF IInv, StoresOk, StoreTypes
<1>2. /\ blank \in ApprovalFiles /\ blank.state = None
      /\ CutOff \in ApprovalFiles /\ CutOff.state = "torn"
  BY DEF CutOff, File, ApprovalFiles
<1>3. /\ Receipts \subseteq {release.receipt, "torn"}
      /\ Records \subseteq {release.approval, CutOff}
  BY DEF Receipts, Records
<1>4. /\ Unflushed(Receipts, None, "torn") \subseteq {release.receipt, None, "torn"}
      /\ Unflushed(Records, blank, CutOff) \subseteq {release.approval, blank, CutOff}
  BY <1>3 DEF Unflushed
<1> HIDE DEF blank
<1>5. release' \in [specs : {release.specs, None}, receipt : {release.receipt, None, "torn"},
                   approval : {release.approval, blank, CutOff}]
  <2>1. CASE Crash
    BY <2>1, <1>3 DEF Crash
  <2>2. CASE HostCrash
    BY <2>2, <1>4 DEF HostCrash, blank
  <2> QED BY <2>1, <2>2
<1>6. /\ release'.specs \in {release.specs, None} /\ release'.receipt \in {release.receipt, None, "torn"}
      /\ release'.approval \in {release.approval, blank, CutOff}
      /\ release' = [specs |-> release'.specs, receipt |-> release'.receipt, approval |-> release'.approval]
  BY <1>5
<1>7. /\ release'.specs \in Contents \cup {None} /\ release'.receipt \in {None, "whole", "torn"}
      /\ release'.approval \in ApprovalFiles
  BY <1>1, <1>2, <1>6
<1> QED BY <1>2, <1>6, <1>7

\* A death takes no entry and no object but those the host forgets, and leaves no handler.
LEMMA CrashInv == ASSUME IInv, Crash \/ HostCrash PROVE IInv'
<1>1. /\ UNCHANGED <<registry, now, decided, answered>> /\ thread' = [t \in Threads |-> Idle]
      /\ profiles' \subseteq profiles /\ log' \subseteq log /\ torn' \in BOOLEAN
      /\ log \cap profiles \subseteq (log' \cap profiles') \cup lost' /\ lost \subseteq lost'
  <2>1. Lines \subseteq BOOLEAN
    BY DEF Lines, IInv, StoresOk, StoreTypes
  <2>2. Restart
    BY DEF Crash, HostCrash
  <2>3. CASE Crash
    BY <2>1, <2>2, <2>3 DEF Crash, Restart, history
  <2>4. CASE HostCrash
    BY <2>1, <2>2, <2>4 DEF HostCrash, Restart, history
  <2> QED BY <2>3, <2>4
<1>2. StoreTypes' /\ OneActive'
  <2>1. release' \in [specs : Contents \cup {None}, receipt : {None, "whole", "torn"}, approval : ApprovalFiles]
    BY ReleaseAfterDeath
  <2> QED BY <1>1, <2>1 DEF IInv, StoresOk, StoreTypes, OneActive, Active, registry
<1>3. LogDecided' /\ ConfirmedRecorded'
  BY <1>1 DEF IInv, StoresOk, LogDecided, ConfirmedRecorded
<1>4. ReleaseDecided'
  BY <1>1, ReleaseAfterDeath DEF IInv, StoresOk, ReleaseDecided, None
<1>5. thread' \in [Threads -> Forms] /\ \A t \in Threads : thread'[t].step = "idle"
  BY <1>1, IdleForms DEF Idle
<1>6. OneInSection'
  BY <1>5 DEF OneInSection, Section
<1>7. HandlersOk'
  BY <1>5, Zenon DEF HandlersOk, HandlerOk
<1> QED BY <1>2, <1>3, <1>4, <1>5, <1>6, <1>7 DEF IInv, StoresOk

LEMMA StutterInv == ASSUME IInv, UNCHANGED vars PROVE IInv'
<1>1. UNCHANGED <<store, release, versions, document, thread, now, decided, answered>>
  BY DEF vars, registry, history
<1>2. document' \in Documents
  BY <1>1 DEF IInv, StoresOk, StoreTypes
<1> QED BY <1>1, <1>2, ElsewhereInv

LEMMA StepInv == IInv /\ [Next]_vars => IInv'
<1> SUFFICES ASSUME IInv, [Next]_vars PROVE IInv'
  OBVIOUS
<1>1. ASSUME NEW t \in Threads,
             \/ Ask(t) \/ \E p \in People : AskApproval(t, p)
             \/ CreateDraft(t) \/ LogDraft(t) \/ ReadDraft(t) \/ LogApproval(t)
             \/ WriteApproved(t) \/ Confirm(t)
      PROVE  IInv'
  BY <1>1, AskInv, AskApprovalInv, CreateDraftInv, LogDraftInv, ReadDraftInv, LogApprovalInv,
     WriteApprovedInv, ConfirmInv
<1>2. ASSUME NEW t \in Threads,
             \/ Import(t) \/ WriteRelease(t) \/ CheckRelease(t) \/ RecordApproval(t)
             \/ ReadLatest(t) \/ Insert(t) \/ ApproveTemplate(t)
      PROVE  IInv'
  BY <1>2, ImportInv, WriteReleaseInv, CheckReleaseInv, RecordApprovalInv, ReadLatestInv, InsertInv,
     ApproveTemplateInv
<1>3. CASE \E p \in People : DropFile(p) \/ ApproveDocument(p)
  BY <1>3, DropFileInv, DocumentInv
<1>4. CASE EditRelease \/ Retire
  BY <1>4, EditReleaseInv, DocumentInv
<1>5. CASE \E c \in Contents, p \in People \cup {Nobody} : IngestDocument(c, p)
  BY <1>5, IngestDocumentInv
<1>6. CASE (\E v \in DOMAIN versions : Pin(v)) \/ Verify \/ Run
  BY <1>6, HandoffInv
<1>7. CASE Crash \/ HostCrash
  BY <1>7, CrashInv
<1>8. CASE UNCHANGED vars
  BY <1>8, StutterInv
<1> QED BY <1>1, <1>2, <1>3, <1>4, <1>5, <1>6, <1>7, <1>8 DEF Next

LEMMA Inductive == Spec => []IInv
BY InitInv, StepInv, PTL DEF Spec

----------------------------------------------------------------------------
(* What the invariant gives.                                               *)

LEMMA InvGivesTypeOK == IInv => TypeOK
<1> SUFFICES ASSUME IInv PROVE TypeOK
  OBVIOUS
<1>1. \A p \in profiles \cup log : p.values \in Contents /\ p.by \in People \cup {Nobody}
  BY DEF IInv, StoresOk, StoreTypes, Objects
<1>2. \A p \in log : p.by \in People
  BY DEF IInv, StoresOk, LogDecided
<1>3. torn \in BOOLEAN /\ release.specs \in Contents \cup {None} /\ release.receipt \in {None, "whole", "torn"}
  BY DEF IInv, StoresOk, StoreTypes
<1>4. \A v \in DOMAIN versions : versions[v].status \in {"draft", "active", "archived"}
  <2>1. \A v \in DOMAIN versions : versions[v] \in Rows
    BY DEF IInv, StoresOk, StoreTypes
  <2> QED BY <2>1 DEF Rows
<1>5. \A u, v \in DOMAIN versions : Active(u) /\ Active(v) => u = v
  BY DEF IInv, StoresOk, OneActive
<1>6. document.status \in {None, "draft", "active", "superseded"}
  BY DEF IInv, StoresOk, StoreTypes, Documents
<1>7. \A t \in Threads : thread[t].step \in Steps
  <2>1. \A f \in Forms : f.step \in Steps
    BY DEF Forms, Plain, Drafting, Reviewing, Recording, Releasing, Ingesting, Inserting, Activating, Steps
  <2> QED BY <2>1 DEF IInv
<1>8. Cardinality({t \in Threads : thread[t].step \in {"write", "log draft"}}) <= 1
  <2> DEFINE inside == {t \in Threads : thread[t].step \in {"write", "log draft"}}
  <2>1. inside = {} \/ \E t \in Threads : inside = {t}
    BY DEF IInv, OneInSection, Section
  <2>2. Cardinality({}) = 0 /\ \A t : Cardinality({t}) = 1
    BY FS_EmptySet, FS_Singleton, Zenon
  <2>3. Cardinality(inside) <= 1
    <3> HIDE DEF inside
    <3>1. Cardinality(inside) \in {0, 1}
      BY <2>1, <2>2, Zenon
    <3> QED BY <3>1
  <2> QED BY <2>3
<1> QED BY <1>1, <1>2, <1>3, <1>4, <1>5, <1>6, <1>7, <1>8 DEF TypeOK

\* The stores keep their form, one thread at a time writes profiles under the
\* lock, and one version of a template is active: for any number of threads,
\* reviewers, texts, requests and crashes.
THEOREM TypeCorrect == Spec => []TypeOK
BY Inductive, InvGivesTypeOK, PTL

LEMMA InvGivesConfirmed == IInv => ConfirmedProfileStays
BY DEF IInv, StoresOk, StoreTypes, ConfirmedRecorded, ConfirmedProfileStays, Get, Logged

\* An approval that approve() confirmed to its reviewer is usable for good, as
\* far as the process goes: no request, no race and no death of the process
\* makes get() refuse it again. Two things can: a log line cut off, and the
\* death of the host, which may forget an object, or the log, whose directory
\* was never flushed; nothing else is ever among what is lost.
THEOREM ConfirmedProfilesStay == Spec => []ConfirmedProfileStays
BY Inductive, InvGivesConfirmed, PTL

----------------------------------------------------------------------------
(* The refinement of ApprovalLedger, store by store.                       *)

ProfilesInForce ==
  {Decision("profile", p.values, p.by) : p \in {q \in profiles \cup {Seed} : q.by # Nobody /\ Get(q)}}
ReleaseInForce ==
  {Decision("release", a.hash, a.by) : a \in {b \in {release.approval} : Installed}}
TemplateInForce ==
  {Decision("template", versions[v].sql, versions[v].by) : v \in {u \in DOMAIN versions : Active(u)}}

LEMMA InForceParts ==
  /\ InForce = ProfilesInForce \cup ReleaseInForce \cup TemplateInForce
  /\ \A d \in ProfilesInForce : d.kind = "profile"
  /\ \A d \in ReleaseInForce : d.kind = "release"
  /\ \A d \in TemplateInForce : d.kind = "template"
BY DEF InForce, ProfilesInForce, ReleaseInForce, TemplateInForce, Decision

LEMMA InForcePartsNext ==
  InForce' = ProfilesInForce' \cup ReleaseInForce' \cup TemplateInForce'
BY DEF InForce, ProfilesInForce, ReleaseInForce, TemplateInForce

\* What each part depends on.
LEMMA ProfilesKept == ASSUME UNCHANGED store PROVE UNCHANGED ProfilesInForce
BY DEF store, ProfilesInForce, Get, Logged

LEMMA ReleaseKept == ASSUME UNCHANGED release PROVE UNCHANGED ReleaseInForce
BY DEF ReleaseInForce, Installed

LEMMA TemplateKept == ASSUME UNCHANGED versions PROVE UNCHANGED TemplateInForce
BY DEF TemplateInForce, Active

\* Publishing one more decision next to the others, or nothing new.
LEMMA PublishProfile ==
  ASSUME NEW d \in decided, d.kind = "profile",
         ProfilesInForce' \in {ProfilesInForce, ProfilesInForce \cup {d}},
         UNCHANGED <<ReleaseInForce, TemplateInForce, decided, used>>
  PROVE  [Ledger!Next]_(Ledger!vars)
<1>1. InForce' = InForce \/ InForce' = InForce \cup {d}
  BY InForceParts, InForcePartsNext
<1>2. {e \in InForce : ~Ledger!Replaces(d, e)} = InForce
  BY DEF Ledger!Replaces
<1>3. CASE InForce' = InForce
  BY <1>3 DEF Ledger!vars
<1>4. CASE InForce' = InForce \cup {d}
  BY <1>2, <1>4 DEF Ledger!Next, Ledger!Publish
<1> QED BY <1>1, <1>3, <1>4

\* One decision in the place of those of its kind.
LEMMA PublishInstead ==
  ASSUME NEW d \in decided, UNCHANGED <<ProfilesInForce, decided, used>>,
         \/ /\ d.kind = "release" /\ ReleaseInForce' = {d} /\ UNCHANGED TemplateInForce
         \/ /\ d.kind = "template" /\ TemplateInForce' = {d} /\ UNCHANGED ReleaseInForce
  PROVE  Ledger!Next
<1>1. InForce' = {e \in InForce : ~Ledger!Replaces(d, e)} \cup {d}
  BY InForceParts, InForcePartsNext DEF Ledger!Replaces
<1> QED BY <1>1 DEF Ledger!Next, Ledger!Publish

LEMMA WithdrawSome ==
  ASSUME UNCHANGED <<decided, used>>, ProfilesInForce' \subseteq ProfilesInForce,
         ReleaseInForce' \subseteq ReleaseInForce, TemplateInForce' \subseteq TemplateInForce
  PROVE  Ledger!Next
<1>1. InForce' \subseteq InForce
  BY InForceParts, InForcePartsNext
<1> QED BY <1>1 DEF Ledger!Next, Ledger!Withdraw

LEMMA NothingNew ==
  ASSUME UNCHANGED <<store, release, versions, decided, used>>
  PROVE  UNCHANGED Ledger!vars
<1>1. UNCHANGED <<ProfilesInForce, ReleaseInForce, TemplateInForce>>
  BY ProfilesKept, ReleaseKept, TemplateKept
<1> QED BY <1>1, InForceParts, InForcePartsNext DEF Ledger!vars

LEMMA FirstRow ==
  ASSUME NEW c \in Contents, NEW p \in People
  PROVE  LET rows == Approved(<<Row(c)>>, 1, p)
         IN  DOMAIN rows = {1} /\ rows[1].sql = c /\ rows[1].by = p
<1> DEFINE one == <<Row(c)>>
<1>1. one \in Seq(Rows) /\ 1 \in DOMAIN one /\ DOMAIN one = {1} /\ one[1].sql = c
  <2>1. Row(c) \in Rows /\ Row(c).sql = c
    BY DEF Row, Rows
  <2> QED BY <2>1
<1> HIDE DEF one
<1>2. ASSUME NEW v, v = 1
      PROVE  DOMAIN Approved(one, v, p) = {1} /\ Approved(one, v, p)[v].sql = c /\ Approved(one, v, p)[v].by = p
  BY <1>1, <1>2, ApprovedRows
<1>3. DOMAIN Approved(one, 1, p) = {1} /\ Approved(one, 1, p)[1].sql = c /\ Approved(one, 1, p)[1].by = p
  BY <1>2, Zenon
<1> QED BY <1>3 DEF one

LEMMA InitKept == Init => Ledger!Init
<1> SUFFICES ASSUME Init PROVE Ledger!Init
  OBVIOUS
<1>1. ProfilesInForce \subseteq decided
  <2>1. \A q \in profiles \cup {Seed} : q = Seed
    BY DEF Init
  <2>2. Decision("profile", Seed.values, Seed.by) \in decided
    BY DEF Init
  <2> QED BY <2>1, <2>2 DEF ProfilesInForce
<1>2. ReleaseInForce = {}
  BY DEF Init, NoRelease, File, None, Installed, ReleaseInForce
<1>3. TemplateInForce \subseteq decided
  <2>1. CASE versions = <<>>
    BY <2>1 DEF TemplateInForce
  <2>2. CASE versions = Approved(<<Row(Seed.values)>>, 1, Seed.by)
    <3>3. DOMAIN versions = {1} /\ versions[1].sql = Seed.values /\ versions[1].by = Seed.by
      BY <2>2, SeedIsObject, FirstRow
    <3>4. Decision("template", Seed.values, Seed.by) \in decided
      BY <3>3 DEF Init
    <3> QED BY <3>3, <3>4 DEF TemplateInForce
  <2> QED BY <2>1, <2>2 DEF Init
<1> QED BY <1>1, <1>2, <1>3, InForceParts DEF Init, Ledger!Init

\* Of the profiles, a new object or a new log entry brings at most one into force.
LEMMA OneMoreProfile ==
  ASSUME NEW o, o.by # Nobody, UNCHANGED torn,
         profiles \subseteq profiles', profiles' \subseteq profiles \cup {o},
         log \subseteq log', log' \subseteq log \cup {o}
  PROVE  ProfilesInForce' \in {ProfilesInForce, ProfilesInForce \cup {Decision("profile", o.values, o.by)}}
<1> DEFINE d == Decision("profile", o.values, o.by)
<1>1. \A q \in profiles \cup {Seed} : Get(q) => q \in profiles' \cup {Seed} /\ Get(q)'
  BY DEF Get, Logged
<1>2. \A q \in profiles' \cup {Seed} : Get(q)' => (q \in profiles \cup {Seed} /\ Get(q)) \/ q = o \/ q.by = Nobody
  BY DEF Get, Logged
<1>3. ProfilesInForce \subseteq ProfilesInForce'
  BY <1>1 DEF ProfilesInForce
<1>4. ProfilesInForce' \subseteq ProfilesInForce \cup {d}
  BY <1>2 DEF ProfilesInForce
<1> QED BY <1>3, <1>4

LEMMA ProfileStep ==
  ASSUME IInv, NEW t \in Threads, CreateDraft(t) \/ LogApproval(t) \/ WriteApproved(t)
  PROVE  [Ledger!Next]_(Ledger!vars)
<1>1. UNCHANGED <<torn, release, versions, decided, used>>
  BY DEF CreateDraft, LogApproval, WriteApproved, registry, history
<1>2. UNCHANGED <<ReleaseInForce, TemplateInForce>>
  BY <1>1, ReleaseKept, TemplateKept
<1>3. CASE CreateDraft(t)
  <2> DEFINE draft == [values |-> thread[t].values, by |-> Nobody, at |-> 0]
  <2>1. profiles' = profiles \cup {draft} /\ log' = log /\ draft.by = Nobody
    BY <1>3 DEF CreateDraft
  <2> HIDE DEF draft
  <2>2. UNCHANGED ProfilesInForce
    BY <1>1, <2>1 DEF ProfilesInForce, Get, Logged
  <2> QED BY <1>1, <1>2, <2>2, InForceParts, InForcePartsNext DEF Ledger!vars
<1>4. CASE LogApproval(t) \/ WriteApproved(t)
  <2> DEFINE o == thread[t].object
             d == Decision("profile", o.values, o.by)
  <2>1. o.by \in People /\ d \in decided
    BY <1>4 DEF LogApproval, WriteApproved, At, IInv, HandlersOk, HandlerOk
  <2>2. o.by # Nobody /\ d.kind = "profile"
    BY <2>1, PeopleAssumption DEF Decision
  <2>3. /\ profiles \subseteq profiles' /\ profiles' \subseteq profiles \cup {o}
        /\ log \subseteq log' /\ log' \subseteq log \cup {o}
    BY <1>4 DEF LogApproval, WriteApproved
  <2>4. ProfilesInForce' \in {ProfilesInForce, ProfilesInForce \cup {d}}
    BY <1>1, <2>2, <2>3, OneMoreProfile
  <2> QED BY <1>1, <1>2, <2>1, <2>2, <2>4, PublishProfile
<1> QED BY <1>3, <1>4

\* A file dropped into the store is in force only with an entry in the log.
LEMMA DropStep ==
  ASSUME IInv, NEW p \in People, DropFile(p)
  PROVE  [Ledger!Next]_(Ledger!vars)
<1>1. PICK c \in Contents : profiles' = profiles \cup {[values |-> c, by |-> p, at |-> now]}
  BY DEF DropFile
<1> DEFINE o == [values |-> c, by |-> p, at |-> now]
           d == Decision("profile", o.values, o.by)
<1>2. UNCHANGED <<log, torn, release, versions, decided, used>>
  BY DEF DropFile, registry, history
<1>3. UNCHANGED <<ReleaseInForce, TemplateInForce>>
  BY <1>2, ReleaseKept, TemplateKept
<1>4. o.by \in People /\ o.by # Nobody /\ d.kind = "profile"
  BY PeopleAssumption DEF Decision
<1> HIDE DEF o
<1>5. profiles' = profiles \cup {o}
  BY <1>1 DEF o
<1>6. CASE o \in log
  <2>1. d \in decided
    BY <1>6 DEF IInv, StoresOk, LogDecided
  <2>2. ProfilesInForce' \in {ProfilesInForce, ProfilesInForce \cup {d}}
    BY <1>2, <1>4, <1>5, OneMoreProfile
  <2> QED BY <1>2, <1>3, <1>4, <2>1, <2>2, PublishProfile
<1>7. CASE o \notin log
  <2>1. UNCHANGED ProfilesInForce
    BY <1>2, <1>4, <1>5, <1>7 DEF ProfilesInForce, Get, Logged
  <2> QED BY <1>2, <1>3, <2>1, InForceParts, InForcePartsNext DEF Ledger!vars
<1> QED BY <1>6, <1>7

\* Whatever happens in the release's folder, the approval that is in force
\* after it is the recorded one, which somebody decided on.
LEMMA ReleaseStep ==
  ASSUME IInv', UNCHANGED <<store, versions, decided, used>>
  PROVE  Ledger!Next
<1> DEFINE d == Decision("release", release'.approval.hash, release'.approval.by)
<1>1. UNCHANGED <<ProfilesInForce, TemplateInForce>>
  BY ProfilesKept, TemplateKept
<1>2. CASE Installed'
  <2>1. d \in decided /\ d.kind = "release"
    BY <1>2 DEF IInv, StoresOk, ReleaseDecided, Installed, Decision
  <2>2. ReleaseInForce' = {d}
    BY <1>2 DEF ReleaseInForce
  <2> QED BY <1>1, <2>1, <2>2, PublishInstead
<1>3. CASE ~Installed'
  <2>1. ReleaseInForce' = {}
    BY <1>3 DEF ReleaseInForce
  <2> QED BY <1>1, <2>1, WithdrawSome
<1> QED BY <1>2, <1>3

LEMMA RowsStep ==
  ASSUME IInv, NEW t \in Threads, Insert(t) \/ ApproveTemplate(t)
  PROVE  [Ledger!Next]_(Ledger!vars)
<1>1. UNCHANGED <<store, release, decided, used>> /\ versions \in Seq(Rows)
  BY DEF Insert, ApproveTemplate, history, IInv, StoresOk, StoreTypes
<1>2. UNCHANGED <<ProfilesInForce, ReleaseInForce>>
  BY <1>1, ProfilesKept, ReleaseKept
<1>3. CASE versions' = versions
  BY <1>1, <1>3, NothingNew
<1>4. CASE Insert(t) /\ versions' = Append(versions, Row(thread[t].sql))
  <2> DEFINE row == Row(thread[t].sql)
  <2>1. row \in Rows /\ row.status = "draft"
    BY <1>4, TemplateForms DEF Insert, At, IInv, Row, Rows
  <2> HIDE DEF row
  <2>2. /\ DOMAIN versions' = 1 .. Len(versions) + 1 /\ DOMAIN versions = 1 .. Len(versions)
        /\ Len(versions) \in Nat
        /\ \A v \in DOMAIN versions : versions'[v] = versions[v]
        /\ versions'[Len(versions) + 1] = row
    BY <1>1, <1>4, <2>1 DEF row
  <2>3. {u \in DOMAIN versions' : Active(u)'} = {u \in DOMAIN versions : Active(u)}
    BY <2>1, <2>2 DEF Active
  <2>4. UNCHANGED TemplateInForce
    BY <2>2, <2>3 DEF TemplateInForce
  <2> QED BY <1>1, <1>2, <2>4, InForceParts, InForcePartsNext DEF Ledger!vars
<1>5. CASE ApproveTemplate(t) /\ versions' = Approved(versions, thread[t].version, thread[t].by)
  <2> DEFINE v == thread[t].version
             p == thread[t].by
             d == Decision("template", versions[v].sql, p)
  <2>1. v \in DOMAIN versions /\ p \in People /\ d \in decided /\ d.kind = "template"
    BY <1>5, TemplateForms DEF ApproveTemplate, At, IInv, HandlersOk, HandlerOk, Decision
  <2>2. versions' = Approved(versions, v, p)
    BY <1>5
  <2> HIDE DEF v, p
  <2>3. /\ DOMAIN versions' = DOMAIN versions
        /\ versions'[v].status = "active" /\ versions'[v].by = p /\ versions'[v].sql = versions[v].sql
        /\ \A u \in DOMAIN versions : u # v => versions'[u].status # "active"
    BY <1>1, <2>1, <2>2, ApprovedRows
  <2>4. {u \in DOMAIN versions' : Active(u)'} = {v}
    BY <2>1, <2>3 DEF Active
  <2>5. TemplateInForce' = {d}
    BY <2>3, <2>4 DEF TemplateInForce
  <2> QED BY <1>1, <1>2, <2>1, <2>5, PublishInstead
<1> QED BY <1>3, <1>4, <1>5 DEF Insert, Inserted, ApproveTemplate

LEMMA RunStep == ASSUME IInv, Run PROVE [Ledger!Next]_(Ledger!vars)
<1>1. UNCHANGED <<store, release, versions, decided>>
  BY DEF Run, registry
<1>2. CASE used' = used
  BY <1>1, <1>2, NothingNew
<1>3. CASE Resolves(handoff) /\ used' = used \cup {Decision("template", handoff.sql, versions[handoff.version].by)}
  <2>1. Decision("template", handoff.sql, versions[handoff.version].by) \in TemplateInForce
    BY <1>3 DEF Resolves, TemplateInForce, Active
  <2>2. UNCHANGED <<ProfilesInForce, ReleaseInForce, TemplateInForce>>
    BY <1>1, ProfilesKept, ReleaseKept, TemplateKept
  <2>3. UNCHANGED InForce
    BY <2>2, InForceParts, InForcePartsNext
  <2>4. Decision("template", handoff.sql, versions[handoff.version].by) \in InForce
    BY <2>1, InForceParts
  <2> QED BY <1>1, <1>3, <2>3, <2>4 DEF Ledger!Next, Ledger!Rely
<1> QED BY <1>2, <1>3 DEF Run

LEMMA CrashStep == ASSUME IInv, Crash \/ HostCrash PROVE Ledger!Next
<1>1. UNCHANGED <<versions, decided, used>>
  BY DEF Crash, HostCrash, Restart, registry, history
<1>2. /\ profiles' \subseteq profiles /\ log' \subseteq log
      /\ log' = {} \/ (torn => torn')
  BY DEF Crash, HostCrash, Lines
<1>3. ProfilesInForce' \subseteq ProfilesInForce
  BY <1>2 DEF ProfilesInForce, Get, Logged
<1>4. ReleaseInForce' \subseteq ReleaseInForce
  <2>1. CASE ~Installed'
    BY <2>1 DEF ReleaseInForce
  <2>2. CASE Installed'
    <3>1. release'.approval = release.approval
      BY <2>2, ReleaseAfterDeath DEF Installed, None
    <3>2. CASE release'.specs = release.specs
      BY <3>1, <3>2 DEF ReleaseInForce, Installed
    <3>3. CASE release'.specs = None
      BY <2>2, <3>1, <3>3, PeopleAssumption DEF Installed, IInv, StoresOk, ReleaseDecided
    <3> QED BY <3>2, <3>3, ReleaseAfterDeath
  <2> QED BY <2>1, <2>2
<1>5. UNCHANGED TemplateInForce
  BY <1>1, TemplateKept
<1> QED BY <1>1, <1>3, <1>4, <1>5, WithdrawSome

LEMMA DecideStep ==
  ASSUME NEW t \in Threads, NEW p \in People, AskApproval(t, p)
  PROVE  [Ledger!Next]_(Ledger!vars)
<1>1. UNCHANGED <<store, release, versions, used>>
  BY DEF AskApproval, registry
<1>2. UNCHANGED InForce
  <2>1. UNCHANGED <<ProfilesInForce, ReleaseInForce, TemplateInForce>>
    BY <1>1, ProfilesKept, ReleaseKept, TemplateKept
  <2> QED BY <2>1, InForceParts, InForcePartsNext
<1>3. \E d \in decided' : decided' = decided \cup {d}
  BY DEF AskApproval
<1> QED BY <1>1, <1>2, <1>3 DEF Ledger!Next, Ledger!Decide

LEMMA LedgerStep == IInv /\ IInv' /\ [Next]_vars => [Ledger!Next]_(Ledger!vars)
<1> SUFFICES ASSUME IInv, IInv', [Next]_vars PROVE [Ledger!Next]_(Ledger!vars)
  OBVIOUS
<1>1. ASSUME NEW t \in Threads,
             \/ Ask(t) \/ LogDraft(t) \/ ReadDraft(t) \/ Confirm(t)
             \/ Import(t) \/ CheckRelease(t) \/ ReadLatest(t)
      PROVE  [Ledger!Next]_(Ledger!vars)
  <2>1. UNCHANGED <<store, release, versions, decided, used>>
    BY <1>1 DEF Ask, LogDraft, ReadDraft, Confirm, Import, CheckRelease, ReadLatest, registry, history
  <2> QED BY <2>1, NothingNew
<1>2. ASSUME NEW t \in Threads, CreateDraft(t) \/ LogApproval(t) \/ WriteApproved(t)
      PROVE  [Ledger!Next]_(Ledger!vars)
  BY <1>2, ProfileStep
<1>3. ASSUME NEW t \in Threads, WriteRelease(t) \/ RecordApproval(t)
      PROVE  [Ledger!Next]_(Ledger!vars)
  <2>1. UNCHANGED <<store, versions, decided, used>>
    BY <1>3 DEF WriteRelease, RecordApproval, registry, history
  <2> QED BY <2>1, ReleaseStep
<1>4. ASSUME NEW t \in Threads, Insert(t) \/ ApproveTemplate(t)
      PROVE  [Ledger!Next]_(Ledger!vars)
  BY <1>4, RowsStep
<1>5. ASSUME NEW t \in Threads, NEW p \in People, AskApproval(t, p)
      PROVE  [Ledger!Next]_(Ledger!vars)
  BY <1>5, DecideStep
<1>6. ASSUME NEW p \in People, DropFile(p)
      PROVE  [Ledger!Next]_(Ledger!vars)
  BY <1>6, DropStep
<1>7. CASE EditRelease
  <2>1. UNCHANGED <<store, versions, decided, used>>
    BY <1>7 DEF EditRelease, registry, history
  <2> QED BY <2>1, ReleaseStep
<1>8. ASSUME \/ \E p \in People : ApproveDocument(p)
             \/ \E c \in Contents, p \in People \cup {Nobody} : IngestDocument(c, p)
             \/ \E v \in DOMAIN versions : Pin(v)
             \/ Retire \/ Verify
      PROVE  [Ledger!Next]_(Ledger!vars)
  <2>1. UNCHANGED <<store, release, versions, decided, used>>
    BY <1>8 DEF ApproveDocument, IngestDocument, Retire, Pin, Verify, registry, history
  <2> QED BY <2>1, NothingNew
<1>9. CASE Run
  BY <1>9, RunStep
<1>10. CASE Crash \/ HostCrash
  BY <1>10, CrashStep
<1>11. CASE UNCHANGED vars
  <2>1. UNCHANGED <<store, release, versions, decided, used>>
    BY <1>11 DEF vars, registry, history
  <2> QED BY <2>1, NothingNew
<1>12. CASE \E t \in Threads :
              \/ Ask(t) \/ \E p \in People : AskApproval(t, p)
              \/ CreateDraft(t) \/ LogDraft(t) \/ ReadDraft(t) \/ LogApproval(t)
              \/ WriteApproved(t) \/ Confirm(t)
              \/ Import(t) \/ WriteRelease(t) \/ CheckRelease(t) \/ RecordApproval(t)
              \/ ReadLatest(t) \/ Insert(t) \/ ApproveTemplate(t)
  <2>1. PICK t \in Threads :
              \/ Ask(t) \/ \E p \in People : AskApproval(t, p)
              \/ CreateDraft(t) \/ LogDraft(t) \/ ReadDraft(t) \/ LogApproval(t)
              \/ WriteApproved(t) \/ Confirm(t)
              \/ Import(t) \/ WriteRelease(t) \/ CheckRelease(t) \/ RecordApproval(t)
              \/ ReadLatest(t) \/ Insert(t) \/ ApproveTemplate(t)
    BY <1>12
  <2> QED BY <2>1, <1>1, <1>2, <1>3, <1>4, <1>5
<1>13. CASE \E p \in People : DropFile(p) \/ ApproveDocument(p)
  BY <1>13, <1>6, <1>8
<1>14. CASE Next
  <2> HIDE DEF Next
  <2>1. \/ EditRelease \/ Retire \/ Verify \/ Run \/ Crash \/ HostCrash
        \/ \E p \in People : DropFile(p) \/ ApproveDocument(p)
        \/ \E c \in Contents, p \in People \cup {Nobody} : IngestDocument(c, p)
        \/ \E v \in DOMAIN versions : Pin(v)
        \/ \E t \in Threads :
              \/ Ask(t) \/ \E p \in People : AskApproval(t, p)
              \/ CreateDraft(t) \/ LogDraft(t) \/ ReadDraft(t) \/ LogApproval(t)
              \/ WriteApproved(t) \/ Confirm(t)
              \/ Import(t) \/ WriteRelease(t) \/ CheckRelease(t) \/ RecordApproval(t)
              \/ ReadLatest(t) \/ Insert(t) \/ ApproveTemplate(t)
    BY <1>14, Zenon DEF Next
  <2> QED BY <2>1, <1>7, <1>8, <1>9, <1>10, <1>12, <1>13, Zenon
<1> QED BY <1>11, <1>14

\* The four stores, with their races, torn files and edits behind the system's
\* back, implement ApprovalLedger: nothing is ever in force that the named
\* person did not decide on, of a template and of an imported release one
\* approval is in force at a time, and a run relies only on one in force.
THEOREM LedgerKept == Spec => KeepsLedger
BY InitKept, LedgerStep, Inductive, PTL DEF Spec, KeepsLedger, Ledger!Spec

=============================================================================
