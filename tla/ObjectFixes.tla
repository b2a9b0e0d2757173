---------------------------- MODULE ObjectFixes ----------------------------
(***************************************************************************)
(* The per-object fixes (services/sandbox_poc/object_fixes.py), the stand- *)
(* in they are rehearsed on (catalog_skeleton.py), and what PostgreSQL     *)
(* does with the one statement each of them is (ALTER ROLE, ALTER          *)
(* FUNCTION, GRANT, REVOKE).                                               *)
(*                                                                         *)
(* A catalog o is the part of a server these fixes read: its accounts, the *)
(* ACL of one table and one function.  Names, quoting, argument types and  *)
(* texts are left out.                                                     *)
(***************************************************************************)
EXTENDS Integers, FiniteSets

Bootstrap == "postgres"             \* the role with BOOTSTRAP_SUPERUSER_OID
Predefined == {"pg_monitor"}        \* names that start with pg_
TableOwner == "owner"               \* owns the table and the function
Public == "PUBLIC"
Outsider == "c"                     \* an account that no fix is about
Attributes == {"SUPERUSER", "CREATEROLE"}   \* of the five in ATTRIBUTE_COLUMNS

\* One aclitem is granted by one role to one grantee; each privilege in it is
\* plain or with grant option.
Grant(to, by, priv, option) == [to |-> to, by |-> by, priv |-> priv, option |-> option]

\* One shape for every kind of fix: on is the role or the grantee it is about.
Fix(type, on, what, level, option) ==
  [type |-> type, on |-> on, what |-> what, level |-> level, option |-> option]

RoleFixes == {"role_drop_attribute", "role_nologin", "role_connection_limit"}
FunctionFixes == {"function_security_invoker", "function_revoke_public_execute"}

NoLimit == -1

\* pg_roles, an aclitem of an ACL, and a catalog made of them; the names this
\* project writes itself are listed, as no prover takes a literal for a STRING.
Account == [attrs: SUBSET Attributes, login: BOOLEAN, limit: Int]
Name == STRING \cup {Public, TableOwner, Outsider}
Privilege == STRING \cup {"UPDATE", "EXECUTE"}
AclEntry == [to: Name, by: Name, priv: Privilege, option: BOOLEAN]
HasForm(o) ==
  /\ o = [role |-> o.role, acl |-> o.acl, definer |-> o.definer, exec |-> o.exec]
  /\ o.role \in [DOMAIN o.role -> Account]
  /\ o.acl \subseteq AclEntry /\ o.definer \in BOOLEAN /\ o.exec \subseteq AclEntry

\* PostgreSQL keeps one entry per grantee, grantor and privilege; EXECUTE is the one
\* privilege on a function, and PUBLIC never has its grant option.
Possible(o) ==
  /\ HasForm(o)
  /\ \A a, b \in o.acl : a.to = b.to /\ a.by = b.by /\ a.priv = b.priv => a = b
  /\ \A a \in o.exec : a.priv = "EXECUTE" /\ (a.to = Public => ~a.option)
----------------------------------------------------------------------------
(* Proposals (_Plan and the builders of each check).                        *)

\* Mutant: only the collecting account itself is protected, not the account
\* that logged in before SET ROLE.
OnlyCurrentUserKept(o, env, r, removesAccess) ==
  \/ r \in Predefined \/ r \notin DOMAIN o.role \/ r = Bootstrap
  \/ removesAccess /\ (env.collected_by = {} \/ r \in env.collected_by)

\* role_excluded, the safety list.  The collectors are current_user and the
\* login account; without a usable name nothing that removes access is offered.
RoleExcluded(o, env, r, removesAccess) ==
  \/ r \in Predefined \/ r \notin DOMAIN o.role \/ r = Bootstrap
  \/ removesAccess /\ (env.collected_by = {} \/ r \in env.collected_by \cup env.login_role)

\* 4.3 and 4.9: an attribute the evidence shows.
AttributeFixes(o, env) ==
  {Fix("role_drop_attribute", r, {a}, 0, FALSE) :
     r \in {q \in DOMAIN o.role : ~RoleExcluded(o, env, q, TRUE)}, a \in Attributes}
    \cap UNION {{Fix("role_drop_attribute", r, {a}, 0, FALSE) : a \in o.role[r].attrs} : r \in DOMAIN o.role}

\* 4.4 and 4.10.
NologinFixes(o, env) ==
  {Fix("role_nologin", r, {}, 0, FALSE) :
     r \in {q \in DOMAIN o.role : ~RoleExcluded(o, env, q, TRUE) /\ o.role[q].login}}

\* 5.5: unlimited accounts, superusers excepted, and only with a limit from an
\* approved profile.
LimitFixes(o, env) ==
  IF ~env.approved \/ env.limit < 0 THEN {}
  ELSE {Fix("role_connection_limit", r, {}, env.limit, FALSE) :
          r \in {q \in DOMAIN o.role : /\ ~RoleExcluded(o, env, q, FALSE)
                                       /\ o.role[q].login /\ o.role[q].limit = NoLimit
                                       /\ "SUPERUSER" \notin o.role[q].attrs}}

\* 4.5: a SECURITY DEFINER function outside the system schemas and extensions.
FunctionFixesOf(o) ==
  IF ~o.definer THEN {}
  ELSE {Fix("function_security_invoker", "f", {}, 0, FALSE)} \cup
       IF {g.by : g \in {h \in o.exec : h.to = Public}} = {TableOwner}
       THEN {Fix("function_revoke_public_execute", "f", {}, 0, FALSE)} ELSE {}

\* 4.6: per grantee the privileges held plainly and those held with grant
\* option; never another grantor's grant, never one that was passed on.
TableFixes(o) ==
  LET of(g) == {a \in o.acl : a.to = g}
      offered == {g \in {a.to : a \in o.acl} \ (Predefined \cup {TableOwner}) :
                    /\ \A a \in of(g) : a.by = TableOwner
                    /\ \A a \in of(g), b \in o.acl : a.priv = b.priv => b.by # g}
      held(g, option) == {a.priv : a \in {b \in of(g) : b.option = option}}
  IN  {Fix("table_revoke_dml", g, held(g, option), 0, option) : g \in offered, option \in BOOLEAN}

Proposals(o, env) ==
  {p \in UNION {AttributeFixes(o, env), NologinFixes(o, env), LimitFixes(o, env),
                FunctionFixesOf(o), TableFixes(o)} :
     p.type = "table_revoke_dml" => p.what # {}}
----------------------------------------------------------------------------
(* PostgreSQL, executing as a superuser: a GRANT or REVOKE acts as the      *)
(* owner; REVOKE without CASCADE refuses when the grantee passed it on.     *)

Refused(o, p) ==
  /\ p.type = "table_revoke_dml"
  /\ \E a \in o.acl : a.by = p.on /\ a.priv \in p.what

Granted(acl, to, privs, option) ==
  LET kept(priv) == \E a \in acl : a.to = to /\ a.by = TableOwner /\ a.priv = priv /\ a.option
  IN  {a \in acl : ~(a.to = to /\ a.by = TableOwner /\ a.priv \in privs)}
        \cup {Grant(to, TableOwner, priv, option \/ kept(priv)) : priv \in privs}

\* The apply statement of a fix.
Applied(o, p) ==
  CASE p.type = "role_drop_attribute"   -> [o EXCEPT !.role[p.on].attrs = @ \ p.what]
    [] p.type = "role_nologin"          -> [o EXCEPT !.role[p.on].login = FALSE]
    [] p.type = "role_connection_limit" -> [o EXCEPT !.role[p.on].limit = p.level]
    [] p.type = "function_security_invoker"      -> [o EXCEPT !.definer = FALSE]
    [] p.type = "function_revoke_public_execute" ->
         [o EXCEPT !.exec = {a \in @ : ~(a.to = Public /\ a.by = TableOwner)}]
    [] p.type = "table_revoke_dml" ->
         [o EXCEPT !.acl = {a \in @ : ~(a.to = p.on /\ a.by = TableOwner /\ a.priv \in p.what)}]

\* Mutant: the privileges come back without their grant option.
UndoneWithoutOption(o, p) ==
  CASE p.type = "role_drop_attribute"   -> [o EXCEPT !.role[p.on].attrs = @ \cup p.what]
    [] p.type = "role_nologin"          -> [o EXCEPT !.role[p.on].login = TRUE]
    [] p.type = "role_connection_limit" -> [o EXCEPT !.role[p.on].limit = NoLimit]
    [] p.type = "function_security_invoker"      -> [o EXCEPT !.definer = TRUE]
    [] p.type = "function_revoke_public_execute" ->
         [o EXCEPT !.exec = Granted(@, Public, {"EXECUTE"}, FALSE)]
    [] p.type = "table_revoke_dml" -> [o EXCEPT !.acl = Granted(@, p.on, p.what, FALSE)]

\* The rollback statement; a limit fix is only offered for an unlimited account.
Undone(o, p) ==
  CASE p.type = "role_drop_attribute"   -> [o EXCEPT !.role[p.on].attrs = @ \cup p.what]
    [] p.type = "role_nologin"          -> [o EXCEPT !.role[p.on].login = TRUE]
    [] p.type = "role_connection_limit" -> [o EXCEPT !.role[p.on].limit = NoLimit]
    [] p.type = "function_security_invoker"      -> [o EXCEPT !.definer = TRUE]
    [] p.type = "function_revoke_public_execute" ->
         [o EXCEPT !.exec = Granted(@, Public, {"EXECUTE"}, FALSE)]
    [] p.type = "table_revoke_dml" -> [o EXCEPT !.acl = Granted(@, p.on, p.what, p.option)]
----------------------------------------------------------------------------
(* Evidence checks on a collected catalog.                                  *)

Predicate(o, p) ==
  \/ /\ p.type \in RoleFixes /\ p.on \in DOMAIN o.role
     /\ CASE p.type = "role_drop_attribute"   -> o.role[p.on].attrs \cap p.what = {}
          [] p.type = "role_nologin"          -> ~o.role[p.on].login
          [] p.type = "role_connection_limit" -> o.role[p.on].limit = p.level
  \/ p.type = "function_security_invoker" /\ ~o.definer
  \/ p.type = "function_revoke_public_execute" /\ Public \notin {a.to : a \in o.exec}
  \/ p.type = "table_revoke_dml" /\ {a.priv : a \in {b \in o.acl : b.to = p.on}} \cap p.what = {}

\* object_signature: the whole object the fix changes, compared with the source's.
SameObject(o, p, source) ==
  CASE p.type \in RoleFixes     -> p.on \in DOMAIN o.role /\ o.role[p.on] = source.role[p.on]
    [] p.type \in FunctionFixes -> o.definer = source.definer /\ o.exec = source.exec
    [] OTHER                    -> o.acl = source.acl

\* prior_holds: the object is as the proposal recorded it on the source; a role
\* is compared in the changed field only, a table and EXECUTE in the whole ACL.
PriorHolds(o, p, source) ==
  \/ /\ p.type \in RoleFixes /\ p.on \in DOMAIN o.role
     /\ CASE p.type = "role_drop_attribute"   -> p.what \subseteq o.role[p.on].attrs
          [] p.type = "role_nologin"          -> o.role[p.on].login
          [] p.type = "role_connection_limit" -> o.role[p.on].limit = source.role[p.on].limit
  \/ p.type = "function_security_invoker" /\ o.definer
  \/ p.type = "function_revoke_public_execute" /\ o.exec = source.exec
  \/ p.type = "table_revoke_dml" /\ o.acl = source.acl

\* fingerprints of everything recreated but the target.
OthersUnchanged(o, p, before) == p.type \in RoleFixes \/ o.role = before.role
----------------------------------------------------------------------------
(* catalog_skeleton: the stand-in of one proposal.                          *)

\* plan: the acl can be granted again only when the owner granted all of it.
Rehearsable(o, p) ==
  CASE p.type \in RoleFixes -> TRUE
    [] p.type \in FunctionFixes -> \A a \in o.exec : a.by = TableOwner
    [] OTHER -> \A a \in o.acl : a.by = TableOwner

\* A role the target needs: NOLOGIN and nothing else.
BareRole == [attrs |-> {}, login |-> FALSE, limit |-> NoLimit]

\* build: a target role with its exact attributes, or the table or function with
\* its owner and exact ACL and bare roles for owner and grantees.
StandIn(o, p) ==
  LET needed(acl) == ({TableOwner} \cup {a.to : a \in acl}) \ {Public}
      bare(S) == [r \in S |-> BareRole]
  IN  CASE p.type \in RoleFixes ->
             [role |-> [r \in {p.on} |-> o.role[r]], acl |-> {}, definer |-> FALSE, exec |-> {}]
        [] p.type \in FunctionFixes ->
             [role |-> bare(needed(o.exec)), acl |-> {}, definer |-> o.definer, exec |-> o.exec]
        [] OTHER ->
             [role |-> bare(needed(o.acl)), acl |-> o.acl, definer |-> FALSE, exec |-> {}]
=============================================================================
