--------------------------- MODULE CatalogChecks ---------------------------
(***************************************************************************)
(* The catalog checks of the SpecEngine                                    *)
(* (backend/app/services/spec_engine/catalog_checks.py): fixed evaluators  *)
(* over the sections of one collected snapshot.                            *)
(*                                                                         *)
(* Evidence e is a record: pg17 (the major version matches), sec (the      *)
(* state of each section or setting row: "ok", "gap" for not collected,    *)
(* "bad" for a row that lacks a needed field, is redacted, or comes from a *)
(* role, database or session; the session list may also be "hidden") and   *)
(* f, the facts as the collector saw them.  An evaluator answers PASS,     *)
(* FAIL, MANUAL or GAPPED (a raised _Gapped).  Names, texts, counts and    *)
(* explanations are left out.                                              *)
(***************************************************************************)
EXTENDS Integers, Sequences, FiniteSets

CONSTANTS
  MaxAge,     \* WAL_ARCHIVE_MAX_AGE_HOURS, in the model's hours
  Tolerance   \* ARCHIVE_FUTURE_TOLERANCE_SECONDS, in the model's hours

ASSUME CatalogAssumption == MaxAge \in Nat /\ Tolerance \in Nat

None == -100  \* a null timestamp; every other one is relative to collected_at = 0

Roles == {"boot", "app", "dba", "pg_sys"}  \* initdb's superuser, two roles, a pg_ role
UserRoles == Roles \ {"pg_sys"}            \* names without the literal prefix pg_
Owner == "dba"                             \* the owner of the one table of 4.6
Classes == {"read", "ddl"}                 \* pgaudit.log classes
HostRules == {"host", "hostssl", "hostnossl", "hostgssenc"}  \* pg_hba types for TCP

\* REGISTRY: the sections an evaluator cannot do without.
Required(c) ==
  CASE c \in {"4.3", "4.4", "4.9", "5.5", "7.1"} -> {"roles"}
    [] c = "4.5"  -> {"functions", "databases"}
    [] c = "4.6"  -> {"object_acls", "roles", "role_memberships", "databases"}
    [] c = "4.7"  -> {"object_acls", "rls_policies", "roles", "databases"}
    [] c \in {"4.8", "6.11"} -> {"available_extensions"}
    [] c = "4.10" -> {"roles", "password_types"}
    [] c = "7.4"  -> {"archiving"}
    [] c \in {"3.2", "5.6", "6.8", "6.10"} -> {"settings"}
    [] c \in {"5.3", "5.4"} -> {"hba_rules"}

\* The sections and setting rows an evaluator reads when it has them, or from
\* some step on.
Further(c) ==
  CASE c = "4.4"  -> {"password_types"}
    [] c = "4.8"  -> {"roles", "role_memberships"}
    [] c = "4.10" -> {"hba_rules"}
    [] c = "7.1"  -> {"hba_rules", "replication"}
    [] c = "7.4"  -> {"replication", "stat_archiver", "collected_at"}
    [] c = "3.2"  -> {"preload", "pgaudit.log"}
    [] c = "5.6"  -> {"preload", "path"}
    [] c = "6.8"  -> {"ssl", "hba_rules", "connections"}
    [] c = "6.10" -> {"ssl_ciphers", "connections"}
    [] c = "5.3"  -> {"ident_mappings"}
    [] OTHER -> {}
----------------------------------------------------------------------------
(* Reading evidence: _Context.section, optional, rows, _need, _setting.    *)

Readable(e, s) == e.sec[s] = "ok"

AllReadable(e, S) == \A s \in S : Readable(e, s)

\* optional(): a section that was not collected is skipped, a malformed row stops.
Skippable(e, s) == e.sec[s] # "bad"

\* _role_index: the list is incomplete without the bootstrap superuser.
RolesKnown(e) == Readable(e, "roles") /\ "boot" \in e.f.roles

\* Mutant: direct members only.
DirectMembersOf(memberships, role) == {m[2] : m \in {p \in memberships : p[1] = role}} \ {role}

\* _members_of: the breadth-first search over role_memberships, layer by layer.
MembersOf(memberships, role) ==
  LET layer[n \in Nat] ==
        IF n = 0 THEN {role}
        ELSE layer[n - 1] \cup {m[2] : m \in {p \in memberships : p[1] \in layer[n - 1]}}
  IN  layer[Cardinality(memberships)] \ {role}

MembersOfAll(memberships, S) == UNION {MembersOf(memberships, r) : r \in S}

\* Mutant: sessions whose TLS state is hidden are not counted as unknown.
HiddenIsKnown(e) == e.sec["connections"] \notin {"gap", "bad"}

\* _read_connections and _Connections.unknown: the TLS facts are complete only
\* when the section was collected, every row was readable and visible, and the
\* collector recorded no connections.tls gap.
ConnectionsKnown(e) == e.sec["connections"] \notin {"gap", "bad", "hidden"}

\* What can be said when nothing readable failed.
IfKnown(known, result) == IF known THEN result ELSE "GAPPED"
----------------------------------------------------------------------------
(* The evaluators that can PASS or FAIL.                                    *)

\* 4.5 functions that run with their owner's rights, pgaudit's own excepted.
ElevatedFunctions(e) ==
  IfKnown(AllReadable(e, Required("4.5")),
          IF e.f.functions \subseteq {"pgaudit"} /\ ~e.f.others THEN "PASS" ELSE "MANUAL")

\* 4.8 set_user, and the logins that are superuser or below one.
SuperuserLogins(e) == e.f.login \cap (e.f.super \cup MembersOfAll(e.f.members, e.f.super))

SetUserExtension(e) ==
  IF ~Readable(e, "available_extensions") THEN "GAPPED"
  ELSE IF ~e.f.available THEN "FAIL"
  ELSE IfKnown(/\ RolesKnown(e) /\ Readable(e, "role_memberships")
               /\ MembersOfAll(e.f.members, e.f.super) \subseteq e.f.roles,
               IF SuperuserLogins(e) = {} THEN "PASS" ELSE "MANUAL")

\* 4.10 login roles without a password: a login role that password_types does
\* not list is unknown.
LoginRolesWithoutPassword(e) ==
  IfKnown(/\ RolesKnown(e) /\ Readable(e, "password_types") /\ Skippable(e, "hba_rules")
          /\ e.f.login \subseteq e.f.listed,
          IF e.f.listed \cap e.f.nopassword = {} THEN "PASS" ELSE "MANUAL")

\* 5.5 connection limits of the login roles whose name does not start with pg_.
RoleConnectionLimits(e) ==
  IfKnown(RolesKnown(e),
          IF \E r \in e.f.login \cap UserRoles : e.f.limit[r] = -1 THEN "FAIL" ELSE "PASS")

\* 7.4 WAL archiving: the configuration is decided before replication and the
\* archiver's counters are read at all; a failure after the last success
\* outweighs every question about the age of that success.
WalArchiving(e) ==
  LET a == e.f IN
  IF ~Readable(e, "archiving") THEN "GAPPED"
  ELSE IF ~a.enabled \/ a.command = a.library THEN "FAIL"
  ELSE IF ~Readable(e, "replication") THEN "GAPPED"
  ELSE IF a.standby THEN "MANUAL"
  ELSE IF ~Readable(e, "stat_archiver") THEN "GAPPED"
  ELSE IF a.failed # None /\ (a.archived = None \/ a.failed > a.archived) THEN "FAIL"
  ELSE IfKnown(Readable(e, "collected_at"),
               IF a.archived # None /\ a.archived \in -MaxAge .. Tolerance
               THEN "PASS" ELSE "MANUAL")

\* pgaudit_log_classes: words from left to right, "-" removes.
EffectiveClasses(words) ==
  LET bits(w) == IF w.class = "all" THEN Classes ELSE {w.class} \cap Classes
      found[n \in 0 .. Len(words)] ==
        IF n = 0 THEN {}
        ELSE IF words[n].minus THEN found[n - 1] \ bits(words[n])
                               ELSE found[n - 1] \cup bits(words[n])
  IN  found[Len(words)]

ParseableClasses(words) == \A i \in DOMAIN words : words[i].class \in Classes \cup {"all", "none"}

\* 3.2 pgaudit: preloaded, and every class of the APPROVED profile is logged.
PgauditEnabled(e, profile) ==
  IF ~Readable(e, "preload") THEN "GAPPED"
  ELSE IF e.f.preload = "unparseable" THEN "MANUAL"
  ELSE IF e.f.preload = "absent" THEN "FAIL"
  ELSE IF e.sec["pgaudit.log"] = "absent" THEN "FAIL"   \* the server has no such row
  ELSE IF ~Readable(e, "pgaudit.log") THEN "GAPPED"
  ELSE IF ~profile.approved \/ profile.classes = {} \/ ~ParseableClasses(e.f.log) THEN "MANUAL"
  ELSE IF profile.classes \subseteq EffectiveClasses(e.f.log) THEN "PASS" ELSE "FAIL"

\* 5.6 passwordcheck: a bare name is looked up on dynamic_library_path.
PasswordComplexityModule(e) ==
  IF ~Readable(e, "preload") THEN "GAPPED"
  ELSE IF e.f.preload = "unparseable" THEN "MANUAL"
  ELSE IF e.f.preload = "absent" THEN "FAIL"
  ELSE IF ~Readable(e, "path") THEN "GAPPED"
  ELSE IF e.f.path = "$libdir" THEN "PASS"
  ELSE IF e.f.preload = "bare" THEN "FAIL" ELSE "MANUAL"

\* 6.10 cipher suites: what fails is reported before what is unknown.
TlsCipherSuites(e) ==
  IF ~Readable(e, "ssl_ciphers") THEN "GAPPED"
  ELSE IF e.f.ciphers = "other" \/ "weak" \in e.f.connections THEN "FAIL"
  ELSE IfKnown(ConnectionsKnown(e), IF e.f.ciphers = "empty" THEN "MANUAL" ELSE "PASS")

\* 6.8 TLS enabled and enforced: the parts are read one by one; a failing part
\* outweighs an unknown one, an unknown one outweighs the manual reasons.
TlsEnabledAndEnforced(e) ==
  LET rules == IF Readable(e, "hba_rules") THEN e.f.hba ELSE {} IN
  IF \/ Readable(e, "ssl") /\ ~e.f.ssl
     \/ rules \cap {"host", "hostnossl"} # {}
     \/ "plain" \in e.f.connections
  THEN "FAIL"
  ELSE IfKnown(AllReadable(e, {"ssl", "hba_rules"}) /\ ConnectionsKnown(e),
               IF rules \cap {"hostgssenc", "broken"} # {} THEN "MANUAL" ELSE "PASS")
----------------------------------------------------------------------------
(* The review checks: MANUAL, with the rows a person must look at.          *)

\* 4.6 table grants: each grantee but the owner, the members below it but the
\* owner, every superuser and every member of pg_write_all_data (here pg_sys).
\* Members of the owner or of a superuser are not looked for.
TableWriters(e) ==
  LET grantees == e.f.grantees \ {Owner} IN
  UNION {grantees, MembersOfAll(e.f.members, grantees \ {"PUBLIC"}) \ {Owner},
         e.f.super, MembersOf(e.f.members, "pg_sys")}

\* 4.7 row security: who bypasses it by attribute, as superuser, or as the owner
\* of a table whose row security is enabled but not forced.
BypassRoles(e) == e.f.bypass \cup e.f.super \cup {o \in UserRoles : e.f.owned[o] = "enabled"}

\* 4.3, 4.4, 4.9 and 7.1: the roles that carry an attribute; 4.3 and 4.4 leave
\* the pg_ roles out.
ListedRoles(c, e) == e.f.marked \cap (IF c \in {"4.3", "4.4"} THEN UserRoles ELSE Roles)

\* 5.3 and 5.4: the rules of the connection type, and every broken line.
ListedRules(c, e) ==
  e.f.hba \cap ({"broken"} \cup IF c = "5.3" THEN {"local"} ELSE HostRules)

Review(c, e) ==
  CASE c = "4.6" -> TableWriters(e)
    [] c = "4.7" -> BypassRoles(e)
    [] c \in {"5.3", "5.4"} -> ListedRules(c, e)
    [] OTHER -> ListedRoles(c, e)

ReviewChecks == {"4.3", "4.4", "4.6", "4.7", "4.9", "5.3", "5.4", "7.1"}

\* 6.11 shows one row, of the extension, and always answers MANUAL.
ManualReview(c, e) ==
  IfKnown(/\ AllReadable(e, Required(c))
          /\ "roles" \in Required(c) => RolesKnown(e)
          /\ \A s \in Further(c) : Skippable(e, s),
          "MANUAL")
----------------------------------------------------------------------------
(* evaluate and _evaluate: another major version, or a required section that *)
(* was not collected, is GAPPED before the evaluator runs.                   *)
Evaluate(c, e, profile) ==
  IF ~e.pg17 \/ \E s \in Required(c) : e.sec[s] = "gap" THEN "GAPPED"
  ELSE CASE c = "4.5"  -> ElevatedFunctions(e)
         [] c = "4.8"  -> SetUserExtension(e)
         [] c = "4.10" -> LoginRolesWithoutPassword(e)
         [] c = "5.5"  -> RoleConnectionLimits(e)
         [] c = "7.4"  -> WalArchiving(e)
         [] c = "3.2"  -> PgauditEnabled(e, profile)
         [] c = "5.6"  -> PasswordComplexityModule(e)
         [] c = "6.8"  -> TlsEnabledAndEnforced(e)
         [] c = "6.10" -> TlsCipherSuites(e)
         [] OTHER      -> ManualReview(c, e)
=============================================================================
