----------------------------- MODULE Assessment -----------------------------
(***************************************************************************)
(* Collection, assessment and target reassessment.                         *)
(*                                                                         *)
(* A server changes; the read-only collector brings back a snapshot of it  *)
(* that may lack sections, entries, rows or sessions; the SpecEngine       *)
(* assesses what was brought back.  When a sandbox run was recorded for a  *)
(* failing control, the operator applies the fix by hand and uploads fresh *)
(* evidence, and history.compare decides whether the target is confirmed.  *)
(*                                                                         *)
(* The topic names what the server's facts are about: "logging" (three     *)
(* settings, one of them the condition of a control), "listening" (plain   *)
(* and parameterised settings) or one catalog check.                       *)
(***************************************************************************)
EXTENDS CatalogChecks, PolicyValues

CONSTANTS
  Topics,        \* the topics of this instance
  RunTopics,     \* those with a recorded run and a reassessment
  Documents,     \* per topic, the profile documents somebody may save
  MaxSnapshots,  \* how many snapshots are taken on a run topic
  MaxTime        \* bound on the clock

SettingTopics == {"logging", "listening"}
CatalogTopics == {"3.2", "4.3", "4.4", "4.5", "4.6", "4.7", "4.8", "4.9", "4.10", "5.3", "5.4",
                  "5.5", "5.6", "6.8", "6.10", "6.11", "7.1", "7.4"}

\* "listening" has no control whose fix is recorded; a policy names classes that
\* pgaudit has.
ASSUME AssessmentAssumption ==
  /\ Topics \subseteq SettingTopics \cup CatalogTopics
  /\ RunTopics \subseteq {"logging"} \cup CatalogTopics
  /\ MaxSnapshots \in Nat \ {0} /\ MaxTime \in Nat
  /\ Recommended \subseteq Classes

VARIABLES
  topic,     \* what the facts are about
  truth,     \* the server: [value |-> setting values, cat |-> catalog facts]
  now,       \* the clock that stamps collected_at
  snaps,     \* the snapshots taken, in order of upload
  profile,   \* the policy profile the user chose
  run,       \* the recorded run, or NoRun
  verdict    \* what the last reassessment answered

vars == <<topic, truth, now, snaps, profile, run, verdict>>

NoRun == [old |-> 0, pin |-> {}]
NoVerdict == [fresh |-> 0, status |-> "none"]
----------------------------------------------------------------------------
(* The installed specs and the profiles that matter here.                   *)

Automated(setting, op, expected, when) ==
  [tier |-> "automated", setting |-> setting, op |-> op, expected |-> expected, when |-> when]

\* "3.1.2" is the control whose fix was rehearsed; "3.1.12" applies only when
\* the same setting includes syslog.
Specs ==
  IF topic = "listening"
  THEN [c \in {"5.2", "3.1.14", "3.1.8", "6.x"} |->
          CASE c = "5.2"    -> Automated("addresses", "no_item_in", {"*", "0.0.0.0"}, {})
            [] c = "3.1.14" -> Automated("level", "at_or_more_verbose", {"warning"}, {})
            [] c = "3.1.8"  -> [Automated("age", "in", {}, {}) EXCEPT !.tier = "parameterised"]
            [] c = "6.x"    -> [Automated("level", "equals", {}, {}) EXCEPT !.tier = "manual"]]
  ELSE [c \in {"3.1.2", "3.1.12"} |->
          CASE c = "3.1.2"  -> Automated("destination", "contains_items", {"csvlog"}, {})
            [] c = "3.1.12" -> Automated("facility", "equals", {"local0"},
                                         {[setting |-> "destination", op |-> "contains_items",
                                           expected |-> {"syslog"}]})]

FixedControl == "3.1.2"

\* load_profile and the engine's own check: what is malformed, or does not fit
\* the specs, is refused as a whole.
Profiles == {p \in {Profile(d) : d \in {x \in Documents[topic] : Parses(x)}} : ValuesFit(p, Specs)}

\* The recorded run names its profile by hash.
Pinned == CHOOSE p \in run.pin : TRUE
----------------------------------------------------------------------------
(* The facts a server can have.                                             *)

Settled == [destination |-> {"csvlog"}, facility |-> {"local0"}]

SettingTruths(t) ==
  CASE t = "logging" ->
         [destination : SUBSET {"csvlog", "syslog"}, facility : {{"local0"}, {"local1"}}]
    [] t = "listening" ->
         [addresses : (SUBSET {"*", "0x0", "localhost"}) \cup {{"?"}},
          level : {{l} : l \in {"info", "warning", "error", "?"}}, age : {{"1d"}, {"9d"}}]
    [] OTHER -> {Settled}

Words ==
  LET w(m, c) == [minus |-> m, class |-> c]
  IN  {<<w(FALSE, "odd")>>, <<w(FALSE, "none"), w(FALSE, "read")>>,
       <<w(FALSE, "all"), w(TRUE, "read")>>, <<w(TRUE, "read"), w(FALSE, "all")>>}

Members == {m \in SUBSET {<<"boot", "dba">>, <<"dba", "app">>, <<"app", "dba">>, <<"pg_sys", "app">>} :
              ~({<<"dba", "app">>, <<"app", "dba">>} \subseteq m)}

Superusers == {{"boot"}, {"boot", "dba"}}
Rules == SUBSET {"local", "hostssl", "host", "hostgssenc", "broken"}

CatalogTruths(t) ==
  CASE t = "4.5"  -> {f \in [functions : SUBSET {"pgaudit", "app_f"}, others : BOOLEAN, elsewhere : BOOLEAN] :
                        f.elsewhere => f.others}
    [] t = "4.8"  -> [available : BOOLEAN, roles : {Roles}, login : SUBSET UserRoles,
                      super : Superusers, members : Members]
    [] t = "4.10" -> [roles : {Roles}, login : SUBSET UserRoles, listed : {Roles},
                      nopassword : SUBSET UserRoles]
    [] t = "5.5"  -> [roles : {Roles}, login : SUBSET {"app", "dba", "pg_sys"},
                      limit : [Roles -> {-1, 0}]]
    [] t = "7.4"  -> [enabled : BOOLEAN, command : BOOLEAN, library : BOOLEAN, standby : BOOLEAN,
                      archived : {None} \cup (-(MaxAge + 1) .. Tolerance + 1),
                      failed : {None} \cup (-(MaxAge + 1) .. 0)]
    [] t = "3.2"  -> {f \in [preload : {"absent", "named", "unparseable"}, log : Words \cup {<<>>}, row : BOOLEAN] :
                        f.row <=> f.log # <<>>}
    [] t = "5.6"  -> [preload : {"absent", "bare", "libdir", "unparseable"}, path : {"$libdir", "custom"}]
    [] t = "6.8"  -> [ssl : BOOLEAN, hba : Rules, connections : SUBSET {"plain", "strong", "socket"}]
    [] t = "6.10" -> [ciphers : {"cis", "other", "empty"}, connections : SUBSET {"plain", "weak", "strong", "socket"}]
    [] t = "4.6"  -> [roles : {Roles}, grantees : SUBSET {"PUBLIC", "boot", "app", "dba"},
                      super : Superusers, members : Members]
    [] t = "4.7"  -> [roles : {Roles}, bypass : SUBSET {"app", "dba"}, super : Superusers,
                      owned : [UserRoles -> {"none", "enabled", "forced"}]]
    [] t \in {"4.3", "4.4", "4.9", "7.1"} -> [roles : {Roles}, marked : SUBSET Roles]
    [] t \in {"5.3", "5.4"} -> [hba : Rules]
    [] OTHER -> {[none |-> TRUE]}

Truths(t) == [value : SettingTruths(t), cat : CatalogTruths(t)]
----------------------------------------------------------------------------
(* What the collector may bring back from a server with these facts.        *)

SettingOf(k) == IF k[2] = "check" THEN Specs[k[1]].setting
                ELSE (CHOOSE w \in Specs[k[1]].when : TRUE).setting

Clean(v) == [entry |-> [k \in ManifestKeys(Specs) |-> "ok"],
             value |-> [k \in ManifestKeys(Specs) |-> v[SettingOf(k)]],
             session |-> {}, provenance |-> TRUE, gaps |-> {}]

\* Snapshots of another collector or spec set, or with gap records.
Refusable(v) ==
  {[Clean(v) EXCEPT !.provenance = FALSE]} \cup {[Clean(v) EXCEPT !.gaps = {g}] : g \in {"roles", "functions"}}

\* An entry with a problem, or a value whose source is a session, shows anything.
EntryWrong(v, k, state, seen) == [Clean(v) EXCEPT !.entry[k] = state, !.value[k] = seen]
SessionValue(v, n, seen) ==
  [Clean(v) EXCEPT !.session = {n}, !.value = [k \in DOMAIN @ |-> IF SettingOf(k) = n THEN seen ELSE @[k]]]

\* At most one thing is wrong with the setting part of a snapshot.
SettingEvidence(v) ==
  LET values(n) == {w[n] : w \in SettingTruths(topic)}
  IN  UNION {{Clean(v)},
             UNION {{EntryWrong(v, k, state, seen) : state \in EntryStates \ {"ok"}, seen \in values(SettingOf(k))} :
                      k \in ManifestKeys(Specs)},
             UNION {{SessionValue(v, n, seen) : seen \in values(n)} : n \in DOMAIN v}}

SectionsOf(c) == IF c \in {"logging", "listening"} THEN {} ELSE Required(c) \cup Further(c)

\* At most two sections or rows are missing or unreadable.  A server without a
\* pgaudit.log row shows none, and only such a server.
SectionStates(f) ==
  LET wrong(s) == IF s = "connections" THEN {"gap", "bad", "hidden"} ELSE {"gap", "bad"}
      states == [SectionsOf(topic) -> {"ok", "gap", "bad", "hidden"}]
  IN  {[s \in DOMAIN q |-> IF topic = "3.2" /\ s = "pgaudit.log" /\ ~f.row THEN "absent" ELSE q[s]] :
         q \in {q \in states : /\ \A s \in DOMAIN q : q[s] \in {"ok"} \cup wrong(s)
                               /\ Cardinality({s \in DOMAIN q : q[s] # "ok"}) <= 2}}

RoleLists == {Roles, Roles \ {"boot"}}

\* The facts as they show in a snapshot whose sections are in state q: role and
\* password lists may be incomplete, a role created meanwhile shows in the
\* memberships only, hidden sessions are missing, a value that the session or a
\* role sets may be any value.
Views(f, q) ==
  CASE topic = "4.10" -> {[f EXCEPT !.roles = r, !.listed = l, !.nopassword = @ \cap l] :
                             r \in RoleLists, l \in {Roles, Roles \ {"app"}}}
    [] topic = "4.8"  ->
         {[f EXCEPT !.roles = r, !.login = @ \cap r, !.super = @ \cap r] :
            r \in RoleLists \cup IF "app" \in MembersOfAll(f.members, f.super) THEN {Roles \ {"app"}} ELSE {}}
    [] topic \in {"4.3", "4.4", "4.9", "7.1", "5.5", "4.6", "4.7"} -> {[f EXCEPT !.roles = r] : r \in RoleLists}
    [] topic = "6.8"  -> {[f EXCEPT !.connections = c, !.ssl = s] :
                             c \in IF q["connections"] = "ok" THEN {f.connections} ELSE SUBSET f.connections,
                             s \in IF q["ssl"] = "ok" THEN {f.ssl} ELSE BOOLEAN}
    [] topic = "6.10" -> {[f EXCEPT !.connections = c, !.ciphers = s] :
                             c \in IF q["connections"] = "ok" THEN {f.connections} ELSE SUBSET f.connections,
                             s \in IF q["ssl_ciphers"] = "ok" THEN {f.ciphers} ELSE {"cis", "other"}}
    [] topic = "3.2"  -> {[f EXCEPT !.preload = p, !.log = l] :
                             p \in IF q["preload"] = "ok" THEN {f.preload} ELSE {"absent", "named"},
                             l \in IF q["pgaudit.log"] \in {"ok", "absent"} THEN {f.log}
                                   ELSE {<<>>, <<[minus |-> FALSE, class |-> "all"]>>}}
    [] topic = "5.6"  -> {[f EXCEPT !.preload = p, !.path = d] :
                             p \in IF q["preload"] = "ok" THEN {f.preload} ELSE {"absent", "bare"},
                             d \in IF q["path"] = "ok" THEN {f.path} ELSE {"$libdir", "custom"}}
    [] OTHER -> {f}

CatalogEvidence(f) ==
  UNION {{[pg17 |-> v, sec |-> q, f |-> g] : g \in Views(f, q), v \in IF topic = "4.5" THEN BOOLEAN ELSE {TRUE}} :
           q \in SectionStates(f)}

Complete(f) ==
  [pg17 |-> TRUE, f |-> f, sec |-> [s \in SectionsOf(topic) |-> IF topic = "3.2" /\ s = "pgaudit.log" /\ ~f.row
                                                               THEN "absent" ELSE "ok"]]

\* The snapshots that may be taken of server t at time n: something is wrong with
\* the setting part, with the catalog part, or with the provenance, the gap
\* records or the identity of the cluster.
SnapshotsOf(t, n) ==
  LET stamp(i, v, c) == [at |-> n, truth |-> t, ident |-> i, set |-> v, cat |-> c]
  IN  UNION {{stamp(1, v, Complete(t.cat)) : v \in SettingEvidence(t.value)},
             {stamp(1, Clean(t.value), c) : c \in CatalogEvidence(t.cat)},
             {stamp(i, v, Complete(t.cat)) : i \in {1, 2}, v \in Refusable(t.value) \cup {Clean(t.value)}}}

Snapshots == SnapshotsOf(truth, now)
----------------------------------------------------------------------------
Init ==
  /\ topic \in Topics
  /\ truth \in Truths(topic)
  /\ now = 0
  /\ snaps = <<>>
  /\ profile \in Profiles
  /\ run = NoRun
  /\ verdict = NoVerdict

\* The collector runs and the snapshot is uploaded.  On a run topic the second
\* snapshot is the one taken to confirm the recorded run.
Collect ==
  /\ Len(snaps) < IF topic \in RunTopics THEN MaxSnapshots ELSE 1
  /\ snaps # <<>> => run # NoRun
  /\ \E s \in Snapshots :
       /\ snaps = <<>> => s.ident = 1 /\ (topic \in RunTopics \ {"logging"} => s.cat = Complete(truth.cat))
       /\ snaps' = Append(snaps, s)
  /\ UNCHANGED <<topic, truth, now, profile, run, verdict>>

CatalogResult(s, p) == Evaluate(topic, s.cat, p)
FindingsOf(s, p) == Findings(Specs, s.set, p)

\* The result the run's fix is about: a setting control, or for the catalog
\* topic the catalog check of the full report.
FixedResult(s, p) ==
  IF topic = "logging" THEN FindingsOf(s, p)[FixedControl] ELSE CatalogResult(s, p)

\* Mutant: the record points past the snapshot it was prepared from.
RecordNext(i) ==
  /\ topic \in RunTopics /\ run = NoRun
  /\ FixedResult(snaps[i], profile) = "FAIL"
  /\ run' = [old |-> i + 1, pin |-> {profile}]
  /\ UNCHANGED <<topic, truth, now, snaps, profile, verdict>>

\* The value the control's fix would set; a catalog fix derives its own.
OfferedFix(c, p) == FixScope(Specs, c, p)

\* validate_handoff: the evidence is accepted, the selected control fails, nothing
\* is unknown, and the control has a reviewed fix.
ValidHandoff(i, p) ==
  /\ Accepted(Specs, snaps[i].set)
  /\ GappedSettings(FindingsOf(snaps[i], p)) = {}
  /\ BlockingGaps(snaps[i].set) = {}
  /\ FixedResult(snaps[i], p) = "FAIL"
  /\ topic = "logging" => OfferedFix(FixedControl, p) # {}

\* A rehearsal that was prepared from the snapshot and the chosen policy is
\* recorded with both.
RecordRun(i) ==
  /\ topic \in RunTopics /\ run = NoRun
  /\ ValidHandoff(i, profile)
  /\ run' = [old |-> i, pin |-> {profile}]
  /\ UNCHANGED <<topic, truth, now, snaps, profile, verdict>>

\* The operator, or anybody else, changes the server.
Change ==
  /\ run # NoRun /\ Len(snaps) < MaxSnapshots
  /\ \E t \in Truths(topic) : truth' = t
  /\ UNCHANGED <<topic, now, snaps, profile, run, verdict>>

Tick ==
  /\ run # NoRun /\ Len(snaps) < MaxSnapshots
  /\ now < MaxTime
  /\ now' = now + 1
  /\ UNCHANGED <<topic, truth, snaps, profile, run, verdict>>

\* Another profile is picked for the next assessment.
ChooseProfile ==
  /\ topic = "3.2" /\ Len(snaps) = MaxSnapshots /\ verdict = NoVerdict
  /\ profile' \in Profiles
  /\ UNCHANGED <<topic, truth, now, snaps, run, verdict>>

\* history.compare: specs are the recorded ones, both snapshots are accepted, of
\* the same cluster, and the fresh one is strictly newer.
Comparable(old, new, installed) ==
  /\ installed
  /\ Accepted(Specs, old.set) /\ Accepted(Specs, new.set)
  /\ new.ident = old.ident
  /\ new.at > old.at

Regressions(old, new, p) ==
  {c \in DOMAIN Specs : IsRegression(FindingsOf(old, p)[c], FindingsOf(new, p)[c])}

Verified(old, new, p) ==
  /\ FixedResult(new, p) = "PASS"
  /\ Regressions(old, new, p) = {}
  /\ GappedSettings(FindingsOf(new, p)) = {}
  /\ BlockingGaps(new.set) = {}

\* The reassess route loads the engine with the recorded policy, whatever
\* profile is chosen now, and answers for any uploaded snapshot.
Reassess(i, installed) ==
  /\ run # NoRun /\ verdict = NoVerdict
  /\ verdict' = [fresh |-> i,
                 status |-> IF ~Comparable(snaps[run.old], snaps[i], installed) THEN "REFUSED"
                            ELSE IF Verified(snaps[run.old], snaps[i], Pinned)
                            THEN "CONFIRMED" ELSE "FAILED"]
  /\ UNCHANGED <<topic, truth, now, snaps, profile, run>>

Next ==
  \/ Collect
  \/ \E i \in DOMAIN snaps : RecordRun(i)
  \/ Change
  \/ Tick
  \/ ChooseProfile
  \/ \E i \in DOMAIN snaps, installed \in BOOLEAN : Reassess(i, installed)

Spec == Init /\ [][Next]_vars
----------------------------------------------------------------------------
(* What is true of a server, said without looking at evidence.              *)

\* r holds everything a member of S holds: it is in every set that contains S
\* and is closed under membership.
Reaches(members, S, r) ==
  \A T \in SUBSET Roles : (S \subseteq T /\ \A m \in members : m[1] \in T => m[2] \in T) => r \in T

\* Who can write the table of 4.6: whoever holds what its owner, a superuser,
\* pg_write_all_data or a grantee holds.  PUBLIC is everybody and no role.
Writers(f) ==
  LET entitled == {Owner, "pg_sys"} \cup f.super \cup (f.grantees \ {"PUBLIC"})
  IN  {r \in Roles : Reaches(f.members, entitled, r)}

\* The writers a list of 4.6 may leave out: the owner and the members of the
\* owner or of a superuser, where no grant to another and no pg_write_all_data
\* makes them writers too.
Unpromised(f, r) ==
  /\ Reaches(f.members, {Owner} \cup f.super, r) /\ r \notin f.super
  /\ ~Reaches(f.members, {"pg_sys"}, r)
  /\ r = Owner \/ ~Reaches(f.members, f.grantees \ {Owner, "PUBLIC"}, r)

\* pgaudit.log names the class: the last word about it adds it.
Logs(words, class) ==
  \E i \in DOMAIN words :
     /\ words[i].class \in {class, "all"} /\ ~words[i].minus
     /\ \A j \in i + 1 .. Len(words) : words[j].minus => words[j].class \notin {class, "all"}

\* The last archive attempt succeeded, lately.
Archives(f) ==
  /\ f.enabled /\ f.command # f.library
  /\ f.archived # None
  /\ f.failed # None => f.failed <= f.archived

Good(c, f, p) ==
  CASE c = "4.5"  -> "app_f" \notin f.functions /\ ~f.elsewhere
    [] c = "4.8"  -> f.available /\ \A r \in f.login : ~Reaches(f.members, f.super, r)
    [] c = "4.10" -> f.login \cap f.nopassword = {}
    [] c = "5.5"  -> \A r \in f.login \cap UserRoles : f.limit[r] # -1
    [] c = "7.4"  -> Archives(f) /\ ~f.standby /\ f.archived >= -MaxAge
    [] c = "3.2"  -> f.preload = "named" /\ f.row /\ \A k \in p.classes : Logs(f.log, k)
    [] c = "5.6"  -> f.preload = "libdir" \/ (f.preload = "bare" /\ f.path = "$libdir")
    [] c = "6.8"  -> f.ssl /\ f.hba \subseteq {"local", "hostssl"} /\ "plain" \notin f.connections
    [] c = "6.10" -> f.ciphers = "cis" /\ "weak" \notin f.connections

\* What is wrong beyond doubt: a list that cannot be read as PostgreSQL reads it,
\* a broken rule, an old success or a path outside $libdir are for a person.
Wrong(c, f, p) ==
  CASE c = "4.8"  -> ~f.available
    [] c = "5.5"  -> ~Good(c, f, p)
    [] c = "7.4"  -> IF f.enabled /\ f.command # f.library
                     THEN ~f.standby /\ ~Archives(f) /\ f.failed # None ELSE TRUE
    [] c = "3.2"  -> f.preload # "unparseable" /\ ~Good(c, f, p)
    [] c = "5.6"  -> f.preload = "absent" \/ (f.preload = "bare" /\ f.path # "$libdir")
    [] c = "6.8"  -> ~f.ssl \/ f.hba \cap {"host", "hostnossl"} # {} \/ "plain" \in f.connections
    [] c = "6.10" -> f.ciphers = "other" \/ "weak" \in f.connections
    [] OTHER -> FALSE

\* What a setting control asks of the server's values, and a policy's control of
\* those the profile accepts.
Meets(c, v, p) ==
  CASE c = "5.2"    -> v.addresses \cap {"*", "0.0.0.0", "0x0", "?"} = {}
    [] c = "3.1.14" -> v.level \in {{"info"}, {"warning"}}
    [] c = "3.1.8"  -> "3.1.8" \in DOMAIN p.values /\ v.age \subseteq p.values["3.1.8"].expected
    [] c = "3.1.2"  -> "csvlog" \in v.destination
    [] c = "3.1.12" -> "syslog" \in v.destination => v.facility = {"local0"}
    [] OTHER -> FALSE

\* What the topic's fixed control asks of a whole server.
Fixed(t, p) == IF topic = "logging" THEN Meets(FixedControl, t.value, p) ELSE Good(topic, t.cat, p)
----------------------------------------------------------------------------
(* Properties.                                                              *)

\* The state has the types the code gives it; a run and a verdict refer to
\* snapshots that were uploaded.
TypeOK ==
  /\ topic \in Topics /\ truth \in Truths(topic) /\ profile.approved \in BOOLEAN
  /\ now \in 0 .. MaxTime
  /\ Len(snaps) <= MaxSnapshots
  /\ run.old \in 0 .. Len(snaps) /\ Cardinality(run.pin) <= 1
  /\ verdict.fresh \in 0 .. Len(snaps)
  /\ verdict.status \in {"none", "REFUSED", "CONFIRMED", "FAILED"}

\* A setting control passes only on a server that meets it, fails only on one
\* that does not, and is inapplicable only where its condition is really false,
\* whatever entry is missing, stale, redacted or set by a session
\* (assess._decide, operators.evaluate, sources.session_override).  The fix that
\* is offered for a failing control really makes this server meet it, leaves it
\* listening on loopback and nowhere but on what is listed, and is a reviewed
\* constant unless somebody approved the policy (planning.fix_scope).
SettingVerdictsTrue ==
  \A i \in DOMAIN snaps : \A c \in DOMAIN Specs :
    LET result == Decide(Specs, c, snaps[i].set, profile)
        v == snaps[i].truth.value
    IN  /\ result = "PASS" => Meets(c, v, profile)
        /\ result = "FAIL" => ~Meets(c, v, profile)
        /\ result = "NOT_APPLICABLE" => c = "3.1.12" /\ "syslog" \notin v.destination
        /\ result = "FAIL" => \A f \in OfferedFix(c, profile) :
             /\ Meets(c, [v EXCEPT ![Specs[c].setting] = f], profile)
             /\ c = "5.2" => "localhost" \in f /\ f \cap {"::", "1host"} = {}
             /\ "';--" \notin f
             /\ ~profile.approved => c = "3.1.14"

\* A catalog check passes only on a server that is right, and fails only on one
\* that is wrong beyond doubt, whatever section, row, role, session or other
\* database the evidence lacks (catalog_checks.py: an unknown is never PASS).
CatalogVerdictsTrue ==
  topic \notin {"logging", "listening"} =>
    \A i \in DOMAIN snaps :
      LET result == CatalogResult(snaps[i], profile)
          f == snaps[i].truth.cat
      IN  /\ result = "PASS" => Good(topic, f, profile)
          /\ result = "FAIL" => Wrong(topic, f, profile)

\* What a review check that answers MANUAL puts before a person (catalog_checks.py:
\* 4.3-4.9, 5.3, 5.4, 7.1).  4.6: a grant to PUBLIC, and every role that can write
\* the table at any remove, except the owner and those who write only as members
\* of the owner or of a superuser, whom the code does not look for.  4.7: every
\* role that itself has BYPASSRLS, is superuser or owns a table whose row security
\* is not forced; its members are not looked for.  The others: every role that
\* carries the attribute, every rule of the kind and every broken line.
ReviewListComplete ==
  topic \in ReviewChecks =>
    \A i \in DOMAIN snaps :
      LET f == snaps[i].truth.cat
          listed == Review(topic, snaps[i].cat)
      IN  CatalogResult(snaps[i], profile) = "MANUAL" =>
            CASE topic = "4.6" -> /\ "PUBLIC" \in f.grantees => "PUBLIC" \in listed
                                  /\ \A r \in Writers(f) \ {"pg_sys"} : r \in listed \/ Unpromised(f, r)
              [] topic = "4.7" -> \A r \in UserRoles :
                                    (r \in f.bypass \cup f.super \/ f.owned[r] = "enabled") => r \in listed
              [] topic = "5.3" -> f.hba \cap {"local", "broken"} \subseteq listed
              [] topic = "5.4" -> f.hba \ {"local"} \subseteq listed
              [] OTHER -> f.marked \ {"pg_sys"} \subseteq listed

\* A confirmed target is fixed: the server the fresh snapshot was taken from is
\* the recorded one at a later time, it meets the control whose fix was tested
\* under the recorded policy, and whatever the older server met it still meets
\* (history.compare and the reassess route).
ConfirmedMeansFixed ==
  verdict.status = "CONFIRMED" =>
    LET old == snaps[run.old]
        new == snaps[verdict.fresh]
    IN  /\ new.ident = old.ident /\ new.at > old.at
        /\ ~Fixed(old.truth, Pinned) /\ Fixed(new.truth, Pinned)
        /\ \A c \in DOMAIN Specs : Meets(c, old.truth.value, Pinned) => Meets(c, new.truth.value, Pinned)
=============================================================================
