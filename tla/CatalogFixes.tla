---------------------------- MODULE CatalogFixes ----------------------------
(***************************************************************************)
(* The catalog-linked setting fixes (services/sandbox_poc/catalog_fixes.py *)
(* ): CIS 3.2 pgaudit, 5.6 passwordcheck and 6.10 cipher suites.  The fix  *)
(* values are derived from the evidence and the approved profile, and the  *)
(* proof is the catalog evaluator itself (CatalogChecks).                  *)
(*                                                                         *)
(* A server s is the part these fixes read and change: the settings        *)
(* shared_preload_libraries (postmaster context), pgaudit.log (a row only  *)
(* while pgaudit is loaded) and ssl_ciphers, the values of                 *)
(* dynamic_library_path and ssl_min_protocol_version (protocol) and the    *)
(* established sessions.  Classes of pgaudit are sets: the order of the    *)
(* words is left out.                                                      *)
(***************************************************************************)
EXTENDS CatalogChecks

FixControls == {"3.2", "5.6", "6.10"}

\* A library list: its items, and how it is written.  "canonical" is the text
\* ALTER SYSTEM writes; "unparseable" is one preload_items refuses to read.
List(items, form) == [items |-> items, form |-> form]
NoList == List(<<>>, "absent")
EmptyList == List(<<>>, "canonical")
Lists   == INSTANCE ServerSetting WITH Value <- {EmptyList}, Default <- EmptyList, Absent <- NoList
Audit   == INSTANCE ServerSetting WITH Value <- SUBSET Classes, Default <- {}, Absent <- {"absent"}
Ciphers == INSTANCE ServerSetting WITH Value <- {"other", "cis", "empty"}, Default <- "other",
                                       Absent <- "absent"

Library(c) == CASE c = "3.2" -> "pgaudit" [] c = "5.6" -> "passwordcheck" [] OTHER -> "none"

\* names_library: the bare name and its $libdir form; preload_library_error
\* refuses every other path.
Forms(library) ==
  {library} \cup CASE library = "pgaudit"       -> {"$libdir/pgaudit"}
                   [] library = "passwordcheck" -> {"$libdir/passwordcheck"}
                   [] OTHER                     -> {}
Writable(list) == \A i \in DOMAIN list.items : list.items[i] # "./other"
Names(list, library) == {i \in DOMAIN list.items : list.items[i] \in Forms(library)}

OtherLibrary == "stat"   \* one that no fix is about

\* pg_settings and pg_file_settings, and the sessions, of a server.  The names this
\* project writes itself are listed: no prover takes a literal for a STRING.
Item == STRING \cup {Library(c) : c \in FixControls} \cup {OtherLibrary}
ListValue == [items: Seq(Item), form: {"canonical", "loose", "unparseable"}]
ListLine == ListValue \cup {NoList}
ListSetting == [shadow: ListLine, conf: ListLine, auto: ListLine, live: ListValue, origin: Lists!Origin]
HasSettings(s) ==
  /\ s = [preload |-> s.preload, audit |-> s.audit, ciphers |-> s.ciphers, path |-> s.path,
          protocol |-> s.protocol, sessions |-> s.sessions, hidden |-> s.hidden]
  /\ s.preload \in ListSetting /\ s.audit \in Audit!Setting /\ s.ciphers \in Ciphers!Setting
  /\ s.hidden \in BOOLEAN

\* pgaudit.log has a pg_settings row only while the library is loaded.
AuditShown(s) == Names(s.preload.live, "pgaudit") # {}
AuditInFiles(s) == s.audit.shadow # {"absent"} \/ s.audit.conf # {"absent"} \/ s.audit.auto # {"absent"}
----------------------------------------------------------------------------
(* The evidence a collection of the server gives the evaluators.            *)

LogWords(classes) ==
  CHOOSE q \in [1 .. Cardinality(classes) -> [class: classes, minus: {FALSE}]] :
    {q[i].class : i \in DOMAIN q} = classes

Evidence(c, s) ==
  LET items == s.preload.live.items
      named == Names(s.preload.live, Library(c))
      state(x) == CASE x = "connections" /\ s.hidden -> "hidden"
                    [] x = "pgaudit.log" /\ ~AuditShown(s) -> "absent"
                    [] OTHER -> "ok"
  IN [pg17 |-> TRUE,
      sec |-> [x \in Required(c) \cup Further(c) |-> state(x)],
      f |-> [preload |-> IF s.preload.live.form = "unparseable" THEN "unparseable"
                         ELSE IF named = {} THEN "absent"
                         ELSE IF \E i \in named : items[i] = Library(c) THEN "bare" ELSE "qualified",
             path |-> s.path, log |-> LogWords(s.audit.live),
             ciphers |-> s.ciphers.live, connections |-> s.sessions]]

Result(c, s, policy) == Evaluate(c, Evidence(c, s), policy)

\* hypothetical: the sessions on other ciphers are left out of the planning proof.
Reconnected(s) == [s EXCEPT !.sessions = {}]
----------------------------------------------------------------------------
(* The changes of a fix: one statement per changed setting, in this order.  *)

Change(param, value, undo) ==
  [param |-> param, apply |-> [action |-> "set_config", value |-> value], undo |-> undo]

\* appended_preload: the current items in order plus the library.
Appended(list, library) == List(Append(list.items, library), "canonical")

\* preload_rollback: the same list again when it was set in postgresql.auto.conf.
PreloadRollback(s) == Lists!DeriveRollback(s.preload)

PreloadChanges(c, s) ==
  IF c = "6.10" \/ Names(s.preload.live, Library(c)) # {} THEN <<>>
  ELSE <<Change("preload", Appended(s.preload.live, Library(c)), PreloadRollback(s))>>

\* A pgaudit.log that is not there is removed again by RESET.
AuditChanges(c, s, policy) ==
  IF c # "3.2" \/ (AuditShown(s) /\ s.audit.live = policy.classes) THEN <<>>
  ELSE <<Change("audit", policy.classes,
                IF AuditShown(s) THEN Audit!DeriveRollback(s.audit) ELSE Audit!ResetConfig)>>

CipherChanges(c, s) ==
  IF c = "6.10" THEN <<Change("ciphers", "cis", Ciphers!DeriveRollback(s.ciphers))>> ELSE <<>>

Changes(c, s, policy) == PreloadChanges(c, s) \o AuditChanges(c, s, policy) \o CipherChanges(c, s)

Changed(changes, param) == \E i \in DOMAIN changes : changes[i].param = param
----------------------------------------------------------------------------
(* PostgreSQL and DisposablePostgres.activate on the three settings.        *)

\* ALTER SYSTEM, one setting.
Altered(s, param, act) == [s EXCEPT ![param] = Lists!AlterSystem(@, act)]

\* The first n statements.
AppliedUpTo(s, changes, n) ==
  LET after[i \in 0 .. n] == IF i = 0 THEN s
                             ELSE Altered(after[i - 1], changes[i].param, changes[i].apply)
  IN  after[n]

\* rollback_sql: all of them, last change first.
RolledBack(s, changes) ==
  LET n == Len(changes)
      after[i \in 0 .. n] == IF i = 0 THEN s
        ELSE Altered(after[i - 1], changes[n + 1 - i].param, changes[n + 1 - i].undo)
  IN  after[n]

\* A reload, and a restart when the list changed: everything is read again.
Activate(s) ==
  [s EXCEPT !.preload = Lists!Activated(@, TRUE),
            !.audit = Audit!Loaded(@), !.ciphers = Ciphers!Loaded(@)]

\* The restart that activate asks for cannot bring the server back.
CannotStart(s, installed) ==
  /\ Lists!PendingRestart(s.preload, TRUE)
  /\ LET items == Lists!FileValue(s.preload).items IN
     \E i \in DOMAIN items : items[i] \notin UNION {Forms(l) : l \in installed}
----------------------------------------------------------------------------
(* catalog_fix_scope: which controls get a fix on this evidence.            *)

\* Reading and writing the library list.
PreloadFixable(c, s) ==
  /\ s.preload.live.form # "unparseable"
  /\ c = "5.6" => s.path = "$libdir"
  /\ Names(s.preload.live, Library(c)) = {} =>
       LET list == s.preload.live IN
       /\ Writable(list)
       /\ Cardinality({list.items[i] : i \in DOMAIN list.items}) = Len(list.items)
       /\ s.preload.origin = "postgresql.auto.conf" => list.items # <<>> /\ list.form = "canonical"

\* pgaudit.log: an approved profile, and a state the sandbox can reproduce.
AuditFixable(s, policy) ==
  /\ policy.approved /\ policy.classes # {}
  /\ AuditShown(s) \/ (Names(s.preload.live, "pgaudit") = {} /\ ~AuditInFiles(s))

\* Not when only established sessions fail, nor when some cannot be seen.
CiphersFixable(s) == s.ciphers.live = "other" /\ ~s.hidden

OffersFix(c, s, policy) ==
  /\ Result(c, s, policy) = "FAIL"
  /\ c \in {"3.2", "5.6"} => PreloadFixable(c, s)
  /\ c = "3.2" => AuditFixable(s, policy)
  /\ c = "6.10" => CiphersFixable(s)
  /\ LET changes == Changes(c, s, policy)
         fixed == Activate(AppliedUpTo(s, changes, Len(changes)))
     IN  changes # <<>> /\ Result(c, Reconnected(fixed), policy) = "PASS"

\* reconstruction_names and reconstruction_plan: what the sandbox reproduces.
ReconstructionNames(c, s) ==
  CASE c = "3.2" -> {"preload"} \cup IF AuditShown(s) THEN {"audit"} ELSE {}
    [] c = "5.6" -> {"preload", "path"}
    [] OTHER     -> {"ciphers", "protocol"}

Plannable(c, s) ==
  LET names == ReconstructionNames(c, s) IN
  /\ "preload" \in names => Lists!Reconstructible(s.preload, TRUE)
  /\ "audit" \in names => Audit!Reconstructible(s.audit, FALSE)
  /\ "ciphers" \in names => Ciphers!Reconstructible(s.ciphers, FALSE)
----------------------------------------------------------------------------
(* The sandbox: the image sets none of these, no session but the loop's own. *)

ImageServer ==
  [preload |-> Lists!ImageSetting(NoList), audit |-> Audit!ImageSetting({"absent"}),
   ciphers |-> Ciphers!ImageSetting("absent"), path |-> "$libdir", protocol |-> "TLSv1.2",
   sessions |-> {}, hidden |-> FALSE]

\* reconstruct, for the settings of the plan.
StandInServer(c, source) ==
  LET names == ReconstructionNames(c, source)
      rebuilt(param, value) == IF param \in names THEN value ELSE ImageServer[param] IN
  [ImageServer EXCEPT
     !.preload = rebuilt("preload", Lists!Reconstructed(@, source.preload, TRUE)),
     !.audit = rebuilt("audit", Audit!Reconstructed(@, source.audit, FALSE)),
     !.ciphers = rebuilt("ciphers", Ciphers!Reconstructed(@, source.ciphers, FALSE)),
     !.path = rebuilt("path", source.path),
     !.protocol = rebuilt("protocol", source.protocol)]

\* The library list reconstruct has to start with.
BeforeStart(c, source) ==
  [ImageServer EXCEPT !.preload =
     IF "preload" \in ReconstructionNames(c, source) THEN Lists!Written(@, source.preload) ELSE @]

\* catalog_signature: file lines and running values; without a row only the lines.
CatalogSignature(c, s) ==
  [preload |-> s.preload, ciphers |-> s.ciphers, path |-> s.path,
   protocol |-> s.protocol, shown |-> AuditShown(s),
   audit |-> IF AuditShown(s) THEN s.audit
             ELSE [s.audit EXCEPT !.live = {}, !.origin = "default"]]

\* Compared on the names of the fix only.
SameSettings(c, s, t, names) ==
  /\ \A n \in names : CatalogSignature(c, s)[n] = CatalogSignature(c, t)[n]
  /\ "audit" \in names => AuditShown(s) = AuditShown(t)

\* The files say what the server runs, for these settings.
InForce(s, names) ==
  /\ "preload" \in names => s.preload = Lists!Loaded(s.preload)
  /\ "audit" \in names => s.audit = Audit!Loaded(s.audit)
  /\ "ciphers" \in names => s.ciphers = Ciphers!Loaded(s.ciphers)

FixNames(c, s, changes) == ReconstructionNames(c, s) \cup {changes[i].param : i \in DOMAIN changes}

\* catalog_regressions: another control that reads a changed setting.
Regressed(c, s, t, policy) ==
  \E d \in {"3.2", "5.6"} \ {c} :
    c # "6.10" /\ Result(d, s, policy) = "PASS" /\ Result(d, t, policy) # "PASS"

Accepted(c, before, after, changes, policy) ==
  /\ Result(c, after, policy) = "PASS"
  /\ ~Regressed(c, before, after, policy)
  /\ ~Lists!PendingRestart(after.preload, TRUE)
  /\ Changed(changes, "audit") => AuditShown(after)
=============================================================================
