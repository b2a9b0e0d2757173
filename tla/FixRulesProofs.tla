--------------------------- MODULE FixRulesProofs ---------------------------
(***************************************************************************)
(* The rules of the object and catalog-linked fixes, on any server: what   *)
(* is offered and why, what the statements and their rollback make of a    *)
(* server whose object or settings are the collected ones, and that the    *)
(* stand-in is such a server.  The loops that follow these rules are in    *)
(* FixLoopsProofs.                                                         *)
(***************************************************************************)
EXTENDS ObjectFixes, CatalogFixes, FiniteSetTheorems, SequenceTheorems, TLAPS

----------------------------------------------------------------------------
(* What is offered for an object.                                          *)

DropsAttribute(p, o, e) ==
  /\ p.type = "role_drop_attribute" /\ p.on \in DOMAIN o.role
  /\ ~RoleExcluded(o, e, p.on, TRUE)
  /\ p.what # {} /\ p.what \subseteq o.role[p.on].attrs

DisablesLogin(p, o, e) ==
  /\ p.type = "role_nologin" /\ p.on \in DOMAIN o.role
  /\ ~RoleExcluded(o, e, p.on, TRUE)
  /\ o.role[p.on].login

SetsLimit(p, o, e) ==
  /\ p.type = "role_connection_limit" /\ p.on \in DOMAIN o.role
  /\ ~RoleExcluded(o, e, p.on, FALSE)
  /\ o.role[p.on].limit = NoLimit /\ p.level \in Int /\ p.level # NoLimit

MakesInvoker(p, o) == p.type = "function_security_invoker" /\ o.definer

RevokesExecute(p, o) ==
  /\ p.type = "function_revoke_public_execute"
  /\ {g.by : g \in {h \in o.exec : h.to = Public}} = {TableOwner}

RevokesTable(p, o) ==
  /\ p.type = "table_revoke_dml" /\ p.on # TableOwner /\ p.option \in BOOLEAN
  /\ p.what = {a.priv : a \in {b \in o.acl : b.to = p.on /\ b.option = p.option}} /\ p.what # {}

\* A role fix is offered for a role that may be changed and has what the fix removes.
LEMMA ProposedRole ==
  ASSUME NEW o, NEW e, NEW p, HasForm(o), e.limit \in Int,
         p \in UNION {AttributeFixes(o, e), NologinFixes(o, e), LimitFixes(o, e)}
  PROVE  DropsAttribute(p, o, e) \/ DisablesLogin(p, o, e) \/ SetsLimit(p, o, e)
<1>1. CASE p \in AttributeFixes(o, e)
  <2> DEFINE made(r, a) == Fix("role_drop_attribute", r, {a}, 0, FALSE)
             kept == {q \in DOMAIN o.role : ~RoleExcluded(o, e, q, TRUE)}
             shown(r) == {made(r, a) : a \in o.role[r].attrs}
  <2>1. /\ p \in {made(r, a) : r \in kept, a \in Attributes}
        /\ p \in UNION {shown(r) : r \in DOMAIN o.role}
    <3>1. AttributeFixes(o, e) = {made(r, a) : r \in kept, a \in Attributes}
                                   \cap UNION {shown(r) : r \in DOMAIN o.role}
      BY DEF AttributeFixes
    <3> HIDE DEF made, kept, shown
    <3> QED BY <1>1, <3>1
  <2>2. PICK r \in kept, a \in Attributes : p = made(r, a)
    <3> HIDE DEF made, kept, shown
    <3> QED BY <2>1
  <2>3. PICK q \in DOMAIN o.role : p \in shown(q)
    <3> HIDE DEF made, kept, shown
    <3> QED BY <2>1
  <2>4. PICK b \in o.role[q].attrs : p = made(q, b)
    <3> HIDE DEF made
    <3> QED BY <2>3
  <2>5. p.type = "role_drop_attribute" /\ p.on = r /\ p.what = {a} /\ p.on = q /\ p.what = {b}
    BY <2>2, <2>4 DEF Fix
  <2> QED BY <2>2, <2>4, <2>5 DEF DropsAttribute
<1>2. CASE p \in NologinFixes(o, e)
  <2> DEFINE made(r) == Fix("role_nologin", r, {}, 0, FALSE)
             kept == {q \in DOMAIN o.role : ~RoleExcluded(o, e, q, TRUE) /\ o.role[q].login}
  <2>1. PICK r \in kept : p = made(r)
    BY <1>2 DEF NologinFixes
  <2> QED BY <2>1 DEF DisablesLogin, Fix
<1>3. CASE p \in LimitFixes(o, e)
  <2> DEFINE made(r) == Fix("role_connection_limit", r, {}, e.limit, FALSE)
             kept == {q \in DOMAIN o.role : /\ ~RoleExcluded(o, e, q, FALSE)
                                            /\ o.role[q].login /\ o.role[q].limit = NoLimit
                                            /\ "SUPERUSER" \notin o.role[q].attrs}
  <2>1. ~(e.limit < 0) /\ p \in {made(r) : r \in kept}
    <3>1. CASE ~e.approved \/ e.limit < 0
      BY <1>3, <3>1, Zenon DEF LimitFixes
    <3>2. CASE ~(~e.approved \/ e.limit < 0)
      <4>1. LimitFixes(o, e) = {made(r) : r \in kept}
        BY <3>2, Zenon DEF LimitFixes
      <4> QED BY <1>3, <3>2, <4>1
    <3> QED BY <3>1, <3>2
  <2>2. PICK r \in kept : p = made(r)
    BY <2>1
  <2>3. p.type = "role_connection_limit" /\ p.on = r /\ p.level = e.limit
    BY <2>2 DEF Fix
  <2>4. p.level \in Int /\ p.level # NoLimit
    BY <2>1, <2>3 DEF NoLimit
  <2> HIDE DEF made
  <2> QED BY <2>2, <2>3, <2>4 DEF SetsLimit
<1> QED BY <1>1, <1>2, <1>3

\* A table fix takes from one grantee what it holds, with one grant option.
LEMMA ProposedTable ==
  ASSUME NEW o, NEW p \in TableFixes(o)
  PROVE  p.type = "table_revoke_dml" /\ (p.what # {} => RevokesTable(p, o))
<1> DEFINE of(g) == {a \in o.acl : a.to = g}
           offered == {g \in {a.to : a \in o.acl} \ (Predefined \cup {TableOwner}) :
                         /\ \A a \in of(g) : a.by = TableOwner
                         /\ \A a \in of(g), b \in o.acl : a.priv = b.priv => b.by # g}
           privs(g, option) == {a.priv : a \in {b \in of(g) : b.option = option}}
           made(g, option) == Fix("table_revoke_dml", g, privs(g, option), 0, option)
<1>1. p \in {made(g, option) : g \in offered, option \in BOOLEAN}
  BY DEF TableFixes
<1>2. PICK g \in offered, option \in BOOLEAN : p = made(g, option)
  <2> HIDE DEF made, offered
  <2> QED BY <1>1
<1>3. /\ p.type = "table_revoke_dml" /\ p.on = g /\ p.option = option
      /\ p.what = privs(g, option)
  BY <1>2 DEF Fix
<1>4. g # TableOwner
  BY <1>2
<1>5. {b \in of(g) : b.option = option} = {b \in o.acl : b.to = g /\ b.option = option}
  OBVIOUS
<1> QED BY <1>3, <1>4, <1>5 DEF RevokesTable

\* Every proposal has a reason in the evidence.
LEMMA Proposed ==
  ASSUME NEW o, NEW e, NEW p \in Proposals(o, e), HasForm(o), e.limit \in Int
  PROVE  \/ DropsAttribute(p, o, e) \/ DisablesLogin(p, o, e) \/ SetsLimit(p, o, e)
         \/ MakesInvoker(p, o) \/ RevokesExecute(p, o) \/ RevokesTable(p, o)
<1>1. CASE p \in UNION {AttributeFixes(o, e), NologinFixes(o, e), LimitFixes(o, e)}
  BY <1>1, ProposedRole
<1>2. CASE p \in FunctionFixesOf(o)
  BY <1>2 DEF FunctionFixesOf, MakesInvoker, RevokesExecute, Fix
<1>3. CASE p \in TableFixes(o)
  <2>1. p.what # {}
    BY <1>3, ProposedTable DEF Proposals
  <2> QED BY <1>3, <2>1, ProposedTable
<1>4. p \in UNION {AttributeFixes(o, e), NologinFixes(o, e), LimitFixes(o, e), FunctionFixesOf(o), TableFixes(o)}
  BY DEF Proposals
<1> QED BY <1>1, <1>2, <1>3, <1>4
----------------------------------------------------------------------------
(* What the statement of an object fix does to any catalog whose object is *)
(* the collected one, and what its rollback makes of that.                 *)

\* The statement runs, the check passes, the object is another one, and the
\* rollback gives back the catalog.
Works(o, p, source_o) ==
  /\ ~Refused(o, p)
  /\ HasForm(Applied(o, p)) /\ Predicate(Applied(o, p), p)
  /\ p.type \notin RoleFixes => Applied(o, p).role = o.role
  /\ ~SameObject(Applied(o, p), p, source_o)
  /\ Undone(Applied(o, p), p) = o

RoleSet(o, r, account) == [o EXCEPT !.role = [@ EXCEPT ![r] = account]]

\* An account that is written and written back is the account that was.
LEMMA RoleSetBack ==
  ASSUME NEW o, HasForm(o), NEW r \in DOMAIN o.role, NEW account \in Account
  PROVE  LET a == RoleSet(o, r, account)
         IN  /\ HasForm(a) /\ DOMAIN a.role = DOMAIN o.role /\ a.role[r] = account
             /\ RoleSet(a, r, o.role[r]) = o
<1> DEFINE a == RoleSet(o, r, account)
<1>1. /\ a.role = [o.role EXCEPT ![r] = account] /\ a.acl = o.acl
      /\ a.definer = o.definer /\ a.exec = o.exec
      /\ a = [role |-> a.role, acl |-> a.acl, definer |-> a.definer, exec |-> a.exec]
  BY DEF RoleSet, HasForm
<1> HIDE DEF a
<1>2. a.role \in [DOMAIN o.role -> Account] /\ DOMAIN a.role = DOMAIN o.role /\ a.role[r] = account
  BY <1>1 DEF HasForm
<1>3. [a.role EXCEPT ![r] = o.role[r]] = o.role
  BY <1>1, <1>2 DEF HasForm
<1>4. RoleSet(a, r, o.role[r]) = o
  BY <1>1, <1>3 DEF RoleSet, HasForm
<1> QED BY <1>1, <1>2, <1>4 DEF HasForm, a

\* The six fixes, each on any catalog with the collected object.
LEMMA AttributeWorks ==
  ASSUME NEW o, NEW src, NEW e, NEW p, HasForm(o), HasForm(src),
         SameObject(o, p, src), DropsAttribute(p, src, e)
  PROVE  Works(o, p, src)
<1> DEFINE was == o.role[p.on]
           new == [was EXCEPT !.attrs = @ \ p.what]
           a == Applied(o, p)
<1>1. p.type = "role_drop_attribute" /\ p.on \in DOMAIN o.role /\ was = src.role[p.on]
  BY DEF DropsAttribute, SameObject, RoleFixes, FunctionFixes
<1>2. was \in Account /\ p.what \subseteq was.attrs /\ p.what # {}
  BY <1>1 DEF HasForm, DropsAttribute
<1>3. a = RoleSet(o, p.on, new)
  BY <1>1 DEF Applied, RoleSet
<1>4. /\ new \in Account /\ new.attrs = was.attrs \ p.what /\ new # was
      /\ [new EXCEPT !.attrs = @ \cup p.what] = was
  BY <1>2 DEF Account
<1> HIDE DEF new, a
<1>5. HasForm(a) /\ p.on \in DOMAIN a.role /\ a.role[p.on] = new /\ RoleSet(a, p.on, was) = o
  BY <1>1, <1>3, <1>4, RoleSetBack
<1>6. Undone(a, p) = RoleSet(a, p.on, [a.role[p.on] EXCEPT !.attrs = @ \cup p.what])
  BY <1>1, <1>5 DEF Undone, RoleSet, HasForm
<1>7. Predicate(a, p) /\ ~SameObject(a, p, src) /\ ~Refused(o, p)
  BY <1>1, <1>4, <1>5 DEF Predicate, SameObject, RoleFixes, FunctionFixes, Refused
<1> QED BY <1>1, <1>4, <1>5, <1>6, <1>7 DEF Works, RoleFixes, a

LEMMA LoginWorks ==
  ASSUME NEW o, NEW src, NEW e, NEW p, HasForm(o), HasForm(src),
         SameObject(o, p, src), DisablesLogin(p, src, e)
  PROVE  Works(o, p, src)
<1> DEFINE was == o.role[p.on]
           new == [was EXCEPT !.login = FALSE]
           a == Applied(o, p)
<1>1. p.type = "role_nologin" /\ p.on \in DOMAIN o.role /\ was = src.role[p.on]
  BY DEF DisablesLogin, SameObject, RoleFixes, FunctionFixes
<1>2. was \in Account /\ was.login = TRUE
  BY <1>1 DEF HasForm, DisablesLogin, Account
<1>3. a = RoleSet(o, p.on, new)
  BY <1>1 DEF Applied, RoleSet
<1>4. new \in Account /\ new.login = FALSE /\ new # was /\ [new EXCEPT !.login = TRUE] = was
  BY <1>2 DEF Account
<1> HIDE DEF new, a
<1>5. HasForm(a) /\ p.on \in DOMAIN a.role /\ a.role[p.on] = new /\ RoleSet(a, p.on, was) = o
  BY <1>1, <1>3, <1>4, RoleSetBack
<1>6. Undone(a, p) = RoleSet(a, p.on, [a.role[p.on] EXCEPT !.login = TRUE])
  BY <1>1, <1>5 DEF Undone, RoleSet, HasForm
<1>7. Predicate(a, p) /\ ~SameObject(a, p, src) /\ ~Refused(o, p)
  BY <1>1, <1>4, <1>5 DEF Predicate, SameObject, RoleFixes, FunctionFixes, Refused
<1> QED BY <1>1, <1>4, <1>5, <1>6, <1>7 DEF Works, RoleFixes, a

LEMMA LimitWorks ==
  ASSUME NEW o, NEW src, NEW e, NEW p, HasForm(o), HasForm(src),
         SameObject(o, p, src), SetsLimit(p, src, e)
  PROVE  Works(o, p, src)
<1> DEFINE was == o.role[p.on]
           new == [was EXCEPT !.limit = p.level]
           a == Applied(o, p)
<1>1. p.type = "role_connection_limit" /\ p.on \in DOMAIN o.role /\ was = src.role[p.on]
  BY DEF SetsLimit, SameObject, RoleFixes, FunctionFixes
<1>2. was \in Account /\ was.limit = NoLimit /\ p.level \in Int /\ p.level # NoLimit
  BY <1>1 DEF HasForm, SetsLimit
<1>3. a = RoleSet(o, p.on, new)
  BY <1>1 DEF Applied, RoleSet
<1>4. /\ new \in Account /\ new.limit = p.level /\ new # was
      /\ [new EXCEPT !.limit = NoLimit] = was
  BY <1>2 DEF Account
<1> HIDE DEF new, a
<1>5. HasForm(a) /\ p.on \in DOMAIN a.role /\ a.role[p.on] = new /\ RoleSet(a, p.on, was) = o
  BY <1>1, <1>3, <1>4, RoleSetBack
<1>6. Undone(a, p) = RoleSet(a, p.on, [a.role[p.on] EXCEPT !.limit = NoLimit])
  BY <1>1, <1>5 DEF Undone, RoleSet, HasForm
<1>7. Predicate(a, p) /\ ~SameObject(a, p, src) /\ ~Refused(o, p)
  BY <1>1, <1>4, <1>5 DEF Predicate, SameObject, RoleFixes, FunctionFixes, Refused
<1> QED BY <1>1, <1>4, <1>5, <1>6, <1>7 DEF Works, RoleFixes, a

LEMMA InvokerWorks ==
  ASSUME NEW o, NEW src, NEW p, HasForm(o), HasForm(src),
         SameObject(o, p, src), MakesInvoker(p, src)
  PROVE  Works(o, p, src)
<1> DEFINE a == Applied(o, p)
<1>1. /\ p.type = "function_security_invoker" /\ o.definer = TRUE
      /\ src.definer = TRUE /\ o.exec = src.exec
  BY DEF MakesInvoker, SameObject, RoleFixes, FunctionFixes, HasForm
<1>2. a = [o EXCEPT !.definer = FALSE]
  BY <1>1 DEF Applied
<1>3. a = [role |-> o.role, acl |-> o.acl, definer |-> FALSE, exec |-> o.exec]
  BY <1>2 DEF HasForm
<1> HIDE DEF a
<1>4. Undone(a, p) = [a EXCEPT !.definer = TRUE]
  BY <1>1 DEF Undone
<1>5. Undone(a, p) = o
  BY <1>1, <1>3, <1>4 DEF HasForm
<1>6. HasForm(a) /\ Predicate(a, p) /\ ~SameObject(a, p, src) /\ ~Refused(o, p)
  BY <1>1, <1>3 DEF HasForm, Predicate, SameObject, RoleFixes, FunctionFixes, Refused
<1> QED BY <1>3, <1>5, <1>6 DEF Works, a

\* Granting again what was revoked gives back the ACL, when every revoked
\* privilege had its one entry with that grant option.
LEMMA RegrantedBack ==
  ASSUME NEW acl, acl \subseteq AclEntry, NEW to, NEW privs, NEW option \in BOOLEAN,
         NEW rest, rest \subseteq acl,
         \A a \in acl : a \in rest <=> ~(a.to = to /\ a.by = TableOwner /\ a.priv \in privs),
         \A a \in acl : a.to = to /\ a.by = TableOwner /\ a.priv \in privs => a.option = option,
         \A priv \in privs : Grant(to, TableOwner, priv, option) \in acl
  PROVE  Granted(rest, to, privs, option) = acl
<1> DEFINE kept(priv) == \E a \in rest : a.to = to /\ a.by = TableOwner /\ a.priv = priv /\ a.option
           back(priv) == Grant(to, TableOwner, priv, option \/ kept(priv))
           old == {a \in rest : ~(a.to = to /\ a.by = TableOwner /\ a.priv \in privs)}
<1>1. Granted(rest, to, privs, option) = old \cup {back(priv) : priv \in privs}
  BY DEF Granted
<1>2. old = rest
  OBVIOUS
<1>3. \A priv \in privs : ~kept(priv)
  OBVIOUS
<1>4. \A priv \in privs : (option \/ kept(priv)) = option
  BY <1>3
<1>5. \A priv \in privs : back(priv) = Grant(to, TableOwner, priv, option)
  BY <1>4 DEF Grant
<1> HIDE DEF kept, back, old
<1>6. \A a \in acl : a \notin rest => a.priv \in privs /\ a = Grant(to, TableOwner, a.priv, option)
  <2> SUFFICES ASSUME NEW a \in acl, a \notin rest
               PROVE  a.priv \in privs /\ a = Grant(to, TableOwner, a.priv, option)
    OBVIOUS
  <2>1. a.to = to /\ a.by = TableOwner /\ a.priv \in privs /\ a.option = option
    OBVIOUS
  <2>2. a = [to |-> a.to, by |-> a.by, priv |-> a.priv, option |-> a.option]
    BY DEF AclEntry
  <2> QED BY <2>1, <2>2 DEF Grant
<1>7. old \cup {back(priv) : priv \in privs} \subseteq acl
  BY <1>2, <1>5
<1>8. acl \subseteq old \cup {back(priv) : priv \in privs}
  BY <1>2, <1>5, <1>6
<1> QED BY <1>1, <1>7, <1>8

LEMMA ExecuteWorks ==
  ASSUME NEW o, NEW src, NEW p, HasForm(o), Possible(src),
         SameObject(o, p, src), RevokesExecute(p, src)
  PROVE  Works(o, p, src)
<1> DEFINE a == Applied(o, p)
           rest == {x \in o.exec : ~(x.to = Public /\ x.by = TableOwner)}
<1>1. /\ p.type = "function_revoke_public_execute"
      /\ o.definer = src.definer /\ o.exec = src.exec /\ o.exec \subseteq AclEntry
  BY DEF RevokesExecute, SameObject, RoleFixes, FunctionFixes, HasForm
<1>2. \A x \in o.exec : x.priv = "EXECUTE" /\ (x.to = Public => x.option = FALSE /\ x.by = TableOwner)
  <2>1. \A x \in o.exec : x.to = Public => x.by \in {g.by : g \in {h \in src.exec : h.to = Public}}
    BY <1>1
  <2> QED BY <1>1, <2>1 DEF Possible, RevokesExecute, AclEntry
<1>3. Grant(Public, TableOwner, "EXECUTE", FALSE) \in o.exec
  <2>1. TableOwner \in {g.by : g \in {h \in src.exec : h.to = Public}}
    BY DEF RevokesExecute
  <2>2. PICK g \in o.exec : g.to = Public
    BY <1>1, <2>1
  <2>3. g = [to |-> g.to, by |-> g.by, priv |-> g.priv, option |-> g.option]
    BY <1>1 DEF AclEntry
  <2> QED BY <1>2, <2>2, <2>3 DEF Grant
<1>4. a = [o EXCEPT !.exec = rest]
  BY <1>1 DEF Applied
<1>5. a = [role |-> o.role, acl |-> o.acl, definer |-> o.definer, exec |-> rest]
  <2> HIDE DEF rest
  <2> QED BY <1>4 DEF HasForm
<1>6. Granted(rest, Public, {"EXECUTE"}, FALSE) = o.exec
  <2>1. /\ rest \subseteq o.exec
        /\ \A x \in o.exec : x \in rest <=> ~(x.to = Public /\ x.by = TableOwner /\ x.priv \in {"EXECUTE"})
    BY <1>2
  <2> HIDE DEF rest
  <2>2. PICK plain \in BOOLEAN : plain = FALSE
    OBVIOUS
  <2>3. \A x \in o.exec : x.to = Public /\ x.by = TableOwner /\ x.priv \in {"EXECUTE"} => x.option = plain
    BY <1>2, <2>2
  <2>4. \A priv \in {"EXECUTE"} : Grant(Public, TableOwner, priv, plain) \in o.exec
    BY <1>3, <2>2
  <2>5. Granted(rest, Public, {"EXECUTE"}, plain) = o.exec
    BY <1>1, <2>1, <2>3, <2>4, RegrantedBack
  <2> QED BY <2>2, <2>5
<1>7. \A x \in rest : x.to # Public
  BY <1>2
<1>8. rest # o.exec /\ rest \subseteq AclEntry
  BY <1>1, <1>3 DEF Grant
<1> HIDE DEF a, rest
<1>9. Undone(a, p) = [a EXCEPT !.exec = Granted(@, Public, {"EXECUTE"}, FALSE)]
  BY <1>1 DEF Undone
<1>10. Undone(a, p) = o
  BY <1>5, <1>6, <1>9 DEF HasForm
<1>11. HasForm(a) /\ Predicate(a, p) /\ ~SameObject(a, p, src) /\ ~Refused(o, p)
  BY <1>1, <1>5, <1>7, <1>8 DEF HasForm, Predicate, SameObject, RoleFixes, FunctionFixes, Refused
<1> QED BY <1>5, <1>10, <1>11 DEF Works, a

LEMMA TableWorks ==
  ASSUME NEW o, NEW src, NEW p, HasForm(o), Possible(src), Rehearsable(src, p),
         SameObject(o, p, src), RevokesTable(p, src)
  PROVE  Works(o, p, src)
<1> DEFINE a == Applied(o, p)
           rest == {x \in o.acl : ~(x.to = p.on /\ x.by = TableOwner /\ x.priv \in p.what)}
<1>1. /\ p.type = "table_revoke_dml" /\ o.acl = src.acl /\ o.acl \subseteq AclEntry
      /\ \A x \in o.acl : x.by = TableOwner
  BY DEF RevokesTable, SameObject, RoleFixes, FunctionFixes, HasForm, Rehearsable
<1>2. \A priv \in p.what : \E x \in o.acl :
        x.to = p.on /\ x.option = p.option /\ x.priv = priv /\ x.by = TableOwner
  BY <1>1 DEF RevokesTable
<1>3. \A x \in o.acl : x.to = p.on /\ x.by = TableOwner /\ x.priv \in p.what => x.option = p.option
  BY <1>1, <1>2 DEF Possible
<1>4. \A priv \in p.what : Grant(p.on, TableOwner, priv, p.option) \in o.acl
  <2> SUFFICES ASSUME NEW priv \in p.what PROVE Grant(p.on, TableOwner, priv, p.option) \in o.acl
    OBVIOUS
  <2>1. PICK x \in o.acl : x.to = p.on /\ x.option = p.option /\ x.priv = priv /\ x.by = TableOwner
    BY <1>2
  <2>2. x = [to |-> x.to, by |-> x.by, priv |-> x.priv, option |-> x.option]
    BY <1>1 DEF AclEntry
  <2> QED BY <2>1, <2>2 DEF Grant
<1>5. a = [o EXCEPT !.acl = rest]
  BY <1>1 DEF Applied
<1>6. a = [role |-> o.role, acl |-> rest, definer |-> o.definer, exec |-> o.exec]
  <2> HIDE DEF rest
  <2> QED BY <1>5 DEF HasForm
<1>7. Granted(rest, p.on, p.what, p.option) = o.acl
  <2>1. /\ rest \subseteq o.acl
        /\ \A x \in o.acl : x \in rest <=> ~(x.to = p.on /\ x.by = TableOwner /\ x.priv \in p.what)
    OBVIOUS
  <2>2. PICK option \in BOOLEAN : option = p.option
    BY DEF RevokesTable
  <2> HIDE DEF rest
  <2>3. /\ \A x \in o.acl : x.to = p.on /\ x.by = TableOwner /\ x.priv \in p.what => x.option = option
        /\ \A priv \in p.what : Grant(p.on, TableOwner, priv, option) \in o.acl
    BY <1>3, <1>4, <2>2
  <2>4. Granted(rest, p.on, p.what, option) = o.acl
    BY <1>1, <2>1, <2>3, RegrantedBack
  <2> QED BY <2>2, <2>4
<1>8. \A x \in rest : x.to = p.on => x.priv \notin p.what
  BY <1>1
<1>9. rest # o.acl /\ rest \subseteq AclEntry
  BY <1>1, <1>4 DEF RevokesTable, Grant
<1> HIDE DEF a, rest
<1>10. Undone(a, p) = [a EXCEPT !.acl = Granted(@, p.on, p.what, p.option)]
  BY <1>1 DEF Undone
<1>11. Undone(a, p) = o
  BY <1>6, <1>7, <1>10 DEF HasForm
<1>12. Predicate(a, p)
  BY <1>1, <1>6, <1>8 DEF Predicate
<1>13. HasForm(a) /\ ~SameObject(a, p, src)
  BY <1>1, <1>6, <1>9 DEF HasForm, SameObject, RoleFixes, FunctionFixes
<1>14. ~Refused(o, p)
  BY <1>1 DEF Refused, RevokesTable
<1> QED BY <1>6, <1>11, <1>12, <1>13, <1>14 DEF Works, a

\* Any proposed fix, on any catalog with the collected object.
LEMMA FixWorks ==
  ASSUME NEW o, NEW src, NEW e, NEW p \in Proposals(src, e), e.limit \in Int,
         HasForm(o), Possible(src), Rehearsable(src, p), SameObject(o, p, src)
  PROVE  Works(o, p, src)
<1>1. HasForm(src)
  BY DEF Possible
<1> QED BY <1>1, Proposed, AttributeWorks, LoginWorks, LimitWorks, InvokerWorks, ExecuteWorks, TableWorks

\* A proposal has one of six types, and a role fix an account of the evidence.
LEMMA ProposedType ==
  ASSUME NEW o, NEW e, NEW p \in Proposals(o, e), HasForm(o), e.limit \in Int
  PROVE  /\ p.type \in RoleFixes \cup FunctionFixes \cup {"table_revoke_dml"}
         /\ p.type \in RoleFixes => p.on \in DOMAIN o.role
BY Proposed DEF DropsAttribute, DisablesLogin, SetsLimit, MakesInvoker, RevokesExecute, RevokesTable,
                RoleFixes, FunctionFixes

\* The stand-in has the collected object.
LEMMA StandInLike ==
  ASSUME NEW o, HasForm(o), NEW p, p.type \in RoleFixes => p.on \in DOMAIN o.role
  PROVE  HasForm(StandIn(o, p)) /\ SameObject(StandIn(o, p), p, o)
<1> DEFINE b(S) == [r \in S |-> BareRole]
           made(role, acl, definer, exec) == [role |-> role, acl |-> acl, definer |-> definer, exec |-> exec]
           needed(acl) == ({TableOwner} \cup {a.to : a \in acl}) \ {Public}
           one == [r \in {p.on} |-> o.role[r]]
<1>1. \A S : b(S) \in [DOMAIN b(S) -> Account]
  BY DEF BareRole, Account, NoLimit
<1>2. \A role, acl, definer, exec : role \in [DOMAIN role -> Account] /\ acl \subseteq AclEntry
        /\ definer \in BOOLEAN /\ exec \subseteq AclEntry => HasForm(made(role, acl, definer, exec))
  BY DEF HasForm
<1>3. CASE p.type \in RoleFixes
  <2>1. StandIn(o, p) = made(one, {}, FALSE, {})
    BY <1>3 DEF StandIn, RoleFixes, FunctionFixes
  <2>2. one \in [DOMAIN one -> Account] /\ one[p.on] = o.role[p.on] /\ p.on \in DOMAIN one
    BY <1>3 DEF HasForm
  <2>3. HasForm(made(one, {}, FALSE, {}))
    <3> HIDE DEF made, one
    <3> QED BY <1>2, <2>2
  <2>4. StandIn(o, p).role = one
    BY <2>1
  <2> HIDE DEF one, made
  <2>5. HasForm(StandIn(o, p))
    BY <2>1, <2>3
  <2>6. SameObject(StandIn(o, p), p, o)
    BY <1>3, <2>2, <2>4 DEF SameObject, RoleFixes, FunctionFixes
  <2> QED BY <2>5, <2>6
<1>4. CASE p.type \in FunctionFixes
  <2>1. StandIn(o, p) = made(b(needed(o.exec)), {}, o.definer, o.exec)
    BY <1>4 DEF StandIn, RoleFixes, FunctionFixes
  <2>2. HasForm(made(b(needed(o.exec)), {}, o.definer, o.exec))
    <3> HIDE DEF made, b, needed
    <3> QED BY <1>1, <1>2 DEF HasForm
  <2> HIDE DEF b, needed
  <2> QED BY <1>4, <2>1, <2>2 DEF SameObject, RoleFixes, FunctionFixes
<1>5. CASE p.type \notin RoleFixes \cup FunctionFixes
  <2>1. StandIn(o, p) = made(b(needed(o.acl)), o.acl, FALSE, {})
    BY <1>5 DEF StandIn
  <2>2. HasForm(made(b(needed(o.acl)), o.acl, FALSE, {}))
    <3> HIDE DEF made, b, needed
    <3> QED BY <1>1, <1>2 DEF HasForm
  <2>3. StandIn(o, p).acl = o.acl
    BY <2>1
  <2> HIDE DEF made, b, needed
  <2>4. HasForm(StandIn(o, p))
    BY <2>1, <2>2
  <2>5. SameObject(StandIn(o, p), p, o)
    BY <1>5, <2>3 DEF SameObject
  <2> QED BY <2>4, <2>5
<1> QED BY <1>3, <1>4, <1>5

\* What is judged of an object depends on that object alone.
LEMMA JudgedAlike ==
  ASSUME NEW o, NEW src, HasForm(o), HasForm(src), NEW p,
         p.type \in RoleFixes \cup FunctionFixes \cup {"table_revoke_dml"},
         p.type \in RoleFixes => p.on \in DOMAIN src.role,
         SameObject(o, p, src)
  PROVE  PriorHolds(o, p, src) = PriorHolds(src, p, src) /\ Predicate(o, p) = Predicate(src, p)
<1>1. CASE p.type \in RoleFixes
  <2>1. p.on \in DOMAIN o.role /\ p.on \in DOMAIN src.role /\ o.role[p.on] = src.role[p.on]
    BY <1>1 DEF SameObject, RoleFixes, FunctionFixes
  <2> QED BY <1>1, <2>1 DEF PriorHolds, Predicate, RoleFixes
<1>2. CASE p.type \in FunctionFixes
  <2>1. o.definer = src.definer /\ o.exec = src.exec
    BY <1>2 DEF SameObject, RoleFixes, FunctionFixes
  <2> QED BY <1>2, <2>1 DEF PriorHolds, Predicate, RoleFixes, FunctionFixes
<1>3. CASE p.type = "table_revoke_dml"
  <2>1. o.acl = src.acl
    BY <1>3 DEF SameObject, RoleFixes, FunctionFixes
  <2> QED BY <1>3, <2>1 DEF PriorHolds, Predicate, RoleFixes
<1> QED BY <1>1, <1>2, <1>3

\* The same statement makes the same of the same object.
LEMMA AppliedAlike ==
  ASSUME NEW o, NEW b, NEW src, HasForm(o), HasForm(b), HasForm(src), NEW p,
         p.type \in RoleFixes \cup FunctionFixes \cup {"table_revoke_dml"},
         SameObject(o, p, src), SameObject(b, p, src)
  PROVE  SameObject(Applied(o, p), p, Applied(b, p))
<1>1. CASE p.type \in RoleFixes
  <2> DEFINE new(account) == CASE p.type = "role_drop_attribute" -> [account EXCEPT !.attrs = @ \ p.what]
                               [] p.type = "role_nologin" -> [account EXCEPT !.login = FALSE]
                               [] p.type = "role_connection_limit" -> [account EXCEPT !.limit = p.level]
  <2>1. p.on \in DOMAIN o.role /\ p.on \in DOMAIN b.role /\ o.role[p.on] = b.role[p.on]
    BY <1>1 DEF SameObject, RoleFixes, FunctionFixes
  <2>2. \A x : HasForm(x) /\ p.on \in DOMAIN x.role
               => p.on \in DOMAIN Applied(x, p).role /\ Applied(x, p).role[p.on] = new(x.role[p.on])
    BY <1>1 DEF Applied, RoleFixes, HasForm
  <2> HIDE DEF new
  <2>3. p.on \in DOMAIN Applied(o, p).role /\ Applied(o, p).role[p.on] = Applied(b, p).role[p.on]
    BY <2>1, <2>2
  <2> QED BY <1>1, <2>3 DEF SameObject, RoleFixes, FunctionFixes
<1>2. CASE p.type \in FunctionFixes
  <2>1. o.definer = b.definer /\ o.exec = b.exec
    BY <1>2 DEF SameObject, RoleFixes, FunctionFixes
  <2>2. Applied(o, p).definer = Applied(b, p).definer /\ Applied(o, p).exec = Applied(b, p).exec
    BY <1>2, <2>1 DEF Applied, FunctionFixes, HasForm
  <2> QED BY <1>2, <2>2 DEF SameObject, RoleFixes, FunctionFixes
<1>3. CASE p.type = "table_revoke_dml"
  <2>1. o.acl = b.acl
    BY <1>3 DEF SameObject, RoleFixes, FunctionFixes
  <2>2. Applied(o, p).acl = Applied(b, p).acl
    BY <1>3, <2>1 DEF Applied, HasForm
  <2> QED BY <1>3, <2>2 DEF SameObject, RoleFixes, FunctionFixes
<1> QED BY <1>1, <1>2, <1>3

\* Nobody but the account of a fix that removes access loses login or powers.
LEMMA OthersKeepAccess ==
  ASSUME NEW o, HasForm(o), NEW p,
         p.type \in RoleFixes \cup FunctionFixes \cup {"table_revoke_dml"},
         p.type \in RoleFixes => p.on \in DOMAIN o.role,
         NEW r \in DOMAIN o.role, r = p.on => p.type \notin {"role_drop_attribute", "role_nologin"}
  PROVE  /\ Applied(o, p).role[r].login = o.role[r].login
         /\ Applied(o, p).role[r].attrs = o.role[r].attrs
<1>1. CASE p.type = "role_drop_attribute"
  BY <1>1 DEF Applied, HasForm
<1>2. CASE p.type = "role_nologin"
  BY <1>2 DEF Applied, HasForm
<1>3. CASE p.type = "role_connection_limit"
  <2>1. o.role[r] \in Account
    BY DEF HasForm
  <2>2. Applied(o, p).role = [o.role EXCEPT ![p.on] = [@ EXCEPT !.limit = p.level]]
    BY <1>3 DEF Applied, HasForm
  <2> QED BY <2>1, <2>2 DEF HasForm, Account
<1>4. CASE p.type \in FunctionFixes \cup {"table_revoke_dml"}
  BY <1>4 DEF Applied, HasForm, FunctionFixes
<1> QED BY <1>1, <1>2, <1>3, <1>4 DEF RoleFixes

----------------------------------------------------------------------------
(* The changes of a catalog fix.                                           *)

\* What the evidence of the source says of an offered fix.
OfferedFor(c, src, policy) ==
  /\ c \in FixControls /\ HasSettings(src) /\ policy.classes \subseteq Classes
  /\ OffersFix(c, src, policy) /\ Plannable(c, src)

\* One statement for the cipher list, for the library list, for the audit classes of
\* a loaded pgaudit, or for the library list and the classes of one that is not.
CipherFix(c, src, changes) ==
  /\ c = "6.10"
  /\ changes = <<Change("ciphers", "cis", Ciphers!DeriveRollback(src.ciphers))>>
ListFix(c, src, changes) ==
  /\ c = "5.6" /\ Names(src.preload.live, "passwordcheck") = {}
  /\ changes = <<Change("preload", Appended(src.preload.live, "passwordcheck"), PreloadRollback(src))>>
ClassFix(c, src, policy, changes) ==
  /\ c = "3.2" /\ AuditShown(src) /\ src.audit.live # policy.classes
  /\ changes = <<Change("audit", policy.classes, Audit!DeriveRollback(src.audit))>>
BothFix(c, src, policy, changes) ==
  /\ c = "3.2" /\ ~AuditShown(src) /\ ~AuditInFiles(src)
  /\ changes = <<Change("preload", Appended(src.preload.live, "pgaudit"), PreloadRollback(src)),
                 Change("audit", policy.classes, Audit!ResetConfig)>>

\* Two small facts of sequences, for changes of one or two statements.
LEMMA Pair == ASSUME NEW S, NEW x \in S, NEW y \in S PROVE <<x>> \o <<y>> = <<x, y>>
<1>1. PICK q \in Seq(S) : q = <<x>> /\ Len(q) = 1 /\ q[1] = x
  <2>1. <<x>> \in Seq(S) /\ Len(<<x>>) = 1 /\ <<x>>[1] = x
    OBVIOUS
  <2> DEFINE q == <<x>>
  <2>2. q \in Seq(S) /\ q = <<x>>
    BY <2>1
  <2> QED BY <2>1, <2>2
<1>2. PICK r \in Seq(S) : r = <<x, y>> /\ Len(r) = 2 /\ r[1] = x /\ r[2] = y
  <2>1. <<x, y>> \in Seq(S) /\ Len(<<x, y>>) = 2 /\ <<x, y>>[1] = x /\ <<x, y>>[2] = y
    OBVIOUS
  <2> QED BY <2>1
<1>3. PICK t \in Seq(S) : t = Append(q, y)
  BY AppendProperties
<1>4. Len(t) = 2 /\ t[1] = x /\ t[2] = y
  <2>1. /\ Len(Append(q, y)) = Len(q) + 1 /\ \A i \in 1 .. Len(q) : Append(q, y)[i] = q[i]
        /\ Append(q, y)[Len(q) + 1] = y
    BY AppendProperties
  <2> QED BY <1>1, <1>3, <2>1
<1>5. \A i \in 1 .. Len(t) : t[i] = r[i]
  BY <1>2, <1>4
<1>6. t = r
  BY <1>2, <1>4, <1>5, SeqEqual
<1>7. Append(q, y) = q \o <<y>>
  BY AppendIsConcat
<1> QED BY <1>1, <1>2, <1>3, <1>6, <1>7

LEMMA Joined ==
  ASSUME NEW x, NEW y
  PROVE  /\ <<>> \o <<>> \o <<x>> = <<x>> /\ <<>> \o <<x>> \o <<>> = <<x>>
         /\ <<x>> \o <<>> \o <<>> = <<x>> /\ <<x>> \o <<y>> \o <<>> = <<x, y>>
<1> DEFINE S == {x, y}
<1>1. <<>> \in Seq(S) /\ <<x>> \in Seq(S) /\ <<y>> \in Seq(S) /\ <<x, y>> \in Seq(S)
  OBVIOUS
<1>2. \A q \in Seq(S) : <<>> \o q = q /\ q \o <<>> = q
  <2> HIDE DEF S
  <2> QED BY ConcatEmptySeq
<1>3. <<x>> \o <<y>> = <<x, y>>
  <2>1. x \in S /\ y \in S
    OBVIOUS
  <2> HIDE DEF S
  <2> QED BY <2>1, Pair
<1> HIDE DEF S
<1> QED BY <1>1, <1>2, <1>3

\* An offered fix has one of four shapes.
LEMMA ChangesShape ==
  ASSUME NEW c, NEW src, NEW policy, OfferedFor(c, src, policy)
  PROVE  LET changes == Changes(c, src, policy)
         IN \/ CipherFix(c, src, changes) \/ ListFix(c, src, changes)
            \/ ClassFix(c, src, policy, changes) \/ BothFix(c, src, policy, changes)
<1> DEFINE P == PreloadChanges(c, src)
           A == AuditChanges(c, src, policy)
           K == CipherChanges(c, src)
<1>1. Changes(c, src, policy) = P \o A \o K /\ Changes(c, src, policy) # <<>>
  BY DEF Changes, OfferedFor, OffersFix
<1>2. CASE c = "6.10"
  <2>1. P = <<>> /\ A = <<>> /\ K = <<Change("ciphers", "cis", Ciphers!DeriveRollback(src.ciphers))>>
    BY <1>2 DEF PreloadChanges, AuditChanges, CipherChanges
  <2> QED BY <1>1, <1>2, <2>1, Joined DEF CipherFix
<1>3. CASE c = "5.6"
  <2>1. A = <<>> /\ K = <<>> /\ Library(c) = "passwordcheck"
    BY <1>3 DEF AuditChanges, CipherChanges, Library
  <2>2. P # <<>>
    BY <1>1, <2>1
  <2>3. /\ Names(src.preload.live, "passwordcheck") = {}
        /\ P = <<Change("preload", Appended(src.preload.live, "passwordcheck"), PreloadRollback(src))>>
    BY <1>3, <2>1, <2>2 DEF PreloadChanges
  <2> QED BY <1>1, <1>3, <2>1, <2>3, Joined DEF ListFix
<1>4. CASE c = "3.2" /\ AuditShown(src)
  <2>1. P = <<>> /\ K = <<>>
    BY <1>4 DEF PreloadChanges, CipherChanges, Library, AuditShown
  <2>2. A # <<>>
    BY <1>1, <2>1
  <2>3. src.audit.live # policy.classes /\ A = <<Change("audit", policy.classes, Audit!DeriveRollback(src.audit))>>
    BY <1>4, <2>2 DEF AuditChanges
  <2> QED BY <1>1, <1>4, <2>1, <2>3, Joined DEF ClassFix
<1>5. CASE c = "3.2" /\ ~AuditShown(src)
  <2>1. K = <<>> /\ P = <<Change("preload", Appended(src.preload.live, "pgaudit"), PreloadRollback(src))>>
    BY <1>5 DEF PreloadChanges, CipherChanges, Library, AuditShown
  <2>2. A = <<Change("audit", policy.classes, Audit!ResetConfig)>>
    BY <1>5 DEF AuditChanges
  <2>3. ~AuditInFiles(src)
    BY <1>5 DEF OfferedFor, OffersFix, AuditFixable
  <2> QED BY <1>1, <1>5, <2>1, <2>2, <2>3, Joined DEF BothFix
<1> QED BY <1>2, <1>3, <1>4, <1>5 DEF OfferedFor, FixControls

\* The recursive functions of AppliedUpTo and RolledBack.
Statements(s, changes, n) ==
  CHOOSE after : after = [i \in 0 .. n |-> IF i = 0 THEN s
                            ELSE Altered(after[i - 1], changes[i].param, changes[i].apply)]
Rollbacks(s, changes, n) ==
  CHOOSE after : after = [i \in 0 .. n |-> IF i = 0 THEN s
                            ELSE Altered(after[i - 1], changes[n + 1 - i].param, changes[n + 1 - i].undo)]

\* The folds over the statements are recursive functions, unrolled twice.
LEMMA StatementsAre ==
  /\ \A s, changes, n : AppliedUpTo(s, changes, n) = Statements(s, changes, n)[n]
  /\ \A s, changes : RolledBack(s, changes) = Rollbacks(s, changes, Len(changes))[Len(changes)]
BY DEF AppliedUpTo, RolledBack, Statements, Rollbacks

LEMMA NoStatement == ASSUME NEW s, NEW changes PROVE AppliedUpTo(s, changes, 0) = s
<1>1. \E f : f = [i \in 0 .. 0 |-> IF i = 0 THEN s
                     ELSE Altered(f[i - 1], changes[i].param, changes[i].apply)]
  <2>1. [i \in 0 .. 0 |-> s] = [i \in 0 .. 0 |-> IF i = 0 THEN s
           ELSE Altered([j \in 0 .. 0 |-> s][i - 1], changes[i].param, changes[i].apply)]
    OBVIOUS
  <2> QED BY <2>1
<1>2. Statements(s, changes, 0) = [i \in 0 .. 0 |-> IF i = 0 THEN s
        ELSE Altered(Statements(s, changes, 0)[i - 1], changes[i].param, changes[i].apply)]
  BY <1>1 DEF Statements
<1> QED BY <1>2, StatementsAre

LEMMA OneStatement ==
  ASSUME NEW s, NEW changes
  PROVE  /\ AppliedUpTo(s, changes, 1) = Altered(s, changes[1].param, changes[1].apply)
         /\ Len(changes) = 1 => RolledBack(s, changes) = Altered(s, changes[1].param, changes[1].undo)
<1> DEFINE a == Altered(s, changes[1].param, changes[1].apply)
           u == Altered(s, changes[1].param, changes[1].undo)
           A == [i \in 0 .. 1 |-> IF i = 0 THEN s ELSE a]
           U == [i \in 0 .. 1 |-> IF i = 0 THEN s ELSE u]
<1>1. A = [i \in 0 .. 1 |-> IF i = 0 THEN s ELSE Altered(A[i - 1], changes[i].param, changes[i].apply)]
  OBVIOUS
<1>2. U = [i \in 0 .. 1 |-> IF i = 0 THEN s ELSE Altered(U[i - 1], changes[1 + 1 - i].param, changes[1 + 1 - i].undo)]
  OBVIOUS
<1> HIDE DEF A, U, a, u
<1>3. Statements(s, changes, 1) =
        [i \in 0 .. 1 |-> IF i = 0 THEN s
           ELSE Altered(Statements(s, changes, 1)[i - 1], changes[i].param, changes[i].apply)]
  BY <1>1 DEF Statements
<1>4. Rollbacks(s, changes, 1) =
        [i \in 0 .. 1 |-> IF i = 0 THEN s
           ELSE Altered(Rollbacks(s, changes, 1)[i - 1], changes[1 + 1 - i].param, changes[1 + 1 - i].undo)]
  BY <1>2 DEF Rollbacks
<1>5. Statements(s, changes, 1)[0] = s /\ Statements(s, changes, 1)[1] = a
  BY <1>3 DEF a
<1>6. Rollbacks(s, changes, 1)[0] = s /\ Rollbacks(s, changes, 1)[1] = u
  BY <1>4 DEF u
<1> QED BY <1>5, <1>6, StatementsAre DEF a, u

LEMMA TwoStatements ==
  ASSUME NEW s, NEW changes
  PROVE  /\ AppliedUpTo(s, changes, 2) =
              Altered(Altered(s, changes[1].param, changes[1].apply), changes[2].param, changes[2].apply)
         /\ Len(changes) = 2 => RolledBack(s, changes) =
              Altered(Altered(s, changes[2].param, changes[2].undo), changes[1].param, changes[1].undo)
<1> DEFINE a == Altered(s, changes[1].param, changes[1].apply)
           b == Altered(a, changes[2].param, changes[2].apply)
           u == Altered(s, changes[2].param, changes[2].undo)
           v == Altered(u, changes[1].param, changes[1].undo)
           A == [i \in 0 .. 2 |-> IF i = 0 THEN s ELSE IF i = 1 THEN a ELSE b]
           U == [i \in 0 .. 2 |-> IF i = 0 THEN s ELSE IF i = 1 THEN u ELSE v]
<1>1. A = [i \in 0 .. 2 |-> IF i = 0 THEN s ELSE Altered(A[i - 1], changes[i].param, changes[i].apply)]
  <2>1. A[0] = s /\ A[1] = a
    OBVIOUS
  <2>2. \A i \in 0 .. 2 : (IF i = 0 THEN s ELSE Altered(A[i - 1], changes[i].param, changes[i].apply)) = A[i]
    <3> HIDE DEF A
    <3>1. A[2] = b
      BY DEF A
    <3> QED BY <2>1, <3>1
  <2> QED BY <2>2
<1>2. U = [i \in 0 .. 2 |-> IF i = 0 THEN s ELSE Altered(U[i - 1], changes[2 + 1 - i].param, changes[2 + 1 - i].undo)]
  <2>1. U[0] = s /\ U[1] = u
    OBVIOUS
  <2>2. \A i \in 0 .. 2 :
          (IF i = 0 THEN s ELSE Altered(U[i - 1], changes[2 + 1 - i].param, changes[2 + 1 - i].undo)) = U[i]
    <3> HIDE DEF U
    <3>1. U[2] = v
      BY DEF U
    <3> QED BY <2>1, <3>1
  <2> QED BY <2>2
<1> HIDE DEF A, U, a, b, u, v
<1>3. Statements(s, changes, 2) =
        [i \in 0 .. 2 |-> IF i = 0 THEN s
           ELSE Altered(Statements(s, changes, 2)[i - 1], changes[i].param, changes[i].apply)]
  BY <1>1 DEF Statements
<1>4. Rollbacks(s, changes, 2) =
        [i \in 0 .. 2 |-> IF i = 0 THEN s
           ELSE Altered(Rollbacks(s, changes, 2)[i - 1], changes[2 + 1 - i].param, changes[2 + 1 - i].undo)]
  BY <1>2 DEF Rollbacks
<1>5. Statements(s, changes, 2)[0] = s /\ Statements(s, changes, 2)[1] = a /\ Statements(s, changes, 2)[2] = b
  BY <1>3 DEF a, b
<1>6. Rollbacks(s, changes, 2)[0] = s /\ Rollbacks(s, changes, 2)[1] = u /\ Rollbacks(s, changes, 2)[2] = v
  BY <1>4 DEF u, v
<1> QED BY <1>5, <1>6, StatementsAre DEF a, b, u, v
----------------------------------------------------------------------------
(* One setting: set, activated and set back.                               *)

\* The setting with another line in postgresql.auto.conf.
AutoLine(x, line) == [x EXCEPT !.auto = line]
\* A setting that runs with the value of that line.
Set(x, value) == [x EXCEPT !.auto = value, !.live = value, !.origin = "postgresql.auto.conf"]

\* A missing line is none of the lists.
LEMMA NoListIsNoValue == NoList \notin ListValue /\ EmptyList \in ListValue /\ ListValue \subseteq ListLine
<1>1. EmptyList \in ListValue
  <2>1. <<>> \in Seq(Item)
    OBVIOUS
  <2> QED BY <2>1 DEF ListValue, EmptyList, List
<1>2. NoList \notin ListValue
  <2>1. NoList.form = "absent"
    BY DEF NoList, List
  <2> QED BY <2>1 DEF ListValue
<1> QED BY <1>1, <1>2 DEF ListLine

\* A restart reads the library list: typed, and a list in force stays as it is.
LEMMA ListActivates ==
  ASSUME NEW x \in ListSetting
  PROVE  /\ Lists!Loaded(x) \in ListSetting /\ Lists!Activated(x, TRUE) \in ListSetting
         /\ \A line \in ListLine : AutoLine(x, line) \in ListSetting
         /\ x = Lists!Loaded(x) => Lists!Activated(x, TRUE) = x
         /\ Lists!Loaded(Lists!Loaded(x)) = Lists!Loaded(x)
<1>1. Lists!FileValue(x) \in ListValue /\ Lists!FileOrigin(x) \in Lists!Origin
  BY NoListIsNoValue DEF ListSetting, ListLine, Lists!FileValue, Lists!FileOrigin, Lists!Origin
<1> DEFINE y == Lists!Loaded(x)
<1>2. y = [x EXCEPT !.live = Lists!FileValue(x), !.origin = Lists!FileOrigin(x)]
  BY DEF Lists!Loaded
<1>3. /\ y \in ListSetting /\ y.live = Lists!FileValue(x) /\ y.origin = Lists!FileOrigin(x)
      /\ y.auto = x.auto /\ y.conf = x.conf
  BY <1>1, <1>2 DEF ListSetting
<1> HIDE DEF y
<1>4. x = y => ~Lists!PendingRestart(x, TRUE)
  BY <1>3 DEF Lists!PendingRestart
<1>5. Lists!Activated(x, TRUE) = x \/ Lists!Activated(x, TRUE) = y
  BY DEF Lists!Activated, y
<1>6. x = y => Lists!Activated(x, TRUE) = x
  BY <1>4 DEF Lists!Activated
<1>7. \A line \in ListLine : AutoLine(x, line) \in ListSetting
  BY DEF AutoLine, ListSetting
<1>8. Lists!Loaded(y) = y
  <2>1. Lists!FileValue(y) = y.live /\ Lists!FileOrigin(y) = y.origin
    BY <1>3 DEF Lists!FileValue, Lists!FileOrigin
  <2> QED BY <1>3, <2>1 DEF Lists!Loaded, ListSetting
<1> QED BY <1>3, <1>5, <1>6, <1>7, <1>8 DEF y

\* The restart that a new list needs, and the one that takes it back.
LEMMA ListSetBack ==
  ASSUME NEW x \in ListSetting, NEW value \in ListValue, value # x.live
  PROVE  LET y == Lists!Activated(AutoLine(x, value), TRUE)
         IN  /\ y = Set(x, value) /\ y \in ListSetting /\ ~Lists!PendingRestart(y, TRUE)
             /\ x = Lists!Loaded(x) => Lists!Activated(AutoLine(y, x.auto), TRUE) = x
<1> DEFINE z == AutoLine(x, value)
           y == Lists!Activated(z, TRUE)
           b == AutoLine(y, x.auto)
<1>1. z \in ListSetting /\ z.auto = value /\ z.live = x.live
  BY NoListIsNoValue DEF AutoLine, ListSetting
<1>2. Lists!FileValue(z) = value /\ Lists!FileOrigin(z) = "postgresql.auto.conf"
  BY <1>1, NoListIsNoValue DEF Lists!FileValue, Lists!FileOrigin
<1>3. y = Lists!Loaded(z)
  BY <1>1, <1>2 DEF Lists!Activated, Lists!PendingRestart
<1>4. y = Set(x, value)
  <2>1. y = [z EXCEPT !.live = value, !.origin = "postgresql.auto.conf"]
    BY <1>2, <1>3 DEF Lists!Loaded
  <2> QED BY <2>1 DEF Set, AutoLine, ListSetting
<1> HIDE DEF y, z
<1>5. /\ y \in ListSetting /\ y.auto = value /\ y.live = value /\ y.conf = x.conf
      /\ y.shadow = x.shadow
  BY <1>4, NoListIsNoValue DEF Set, ListSetting, Lists!Origin
<1>6. ~Lists!PendingRestart(y, TRUE)
  BY <1>5, NoListIsNoValue DEF Lists!PendingRestart, Lists!FileValue
<1>7. ASSUME x = Lists!Loaded(x) PROVE Lists!Activated(b, TRUE) = x
  <2>1. /\ b \in ListSetting /\ b.auto = x.auto /\ b.conf = x.conf /\ b.shadow = x.shadow
        /\ b.live = value
    BY <1>5 DEF AutoLine, ListSetting
  <2> HIDE DEF b
  <2>2. Lists!FileValue(b) = Lists!FileValue(x) /\ Lists!FileOrigin(b) = Lists!FileOrigin(x)
    BY <2>1 DEF Lists!FileValue, Lists!FileOrigin
  <2>3. x.live = Lists!FileValue(x) /\ x.origin = Lists!FileOrigin(x)
    BY <1>7 DEF Lists!Loaded, ListSetting
  <2>4. Lists!Activated(b, TRUE) = Lists!Loaded(b)
    BY <2>1, <2>2, <2>3 DEF Lists!Activated, Lists!PendingRestart
  <2>5. Lists!Loaded(b) = [b EXCEPT !.live = x.live, !.origin = x.origin]
    BY <2>2, <2>3 DEF Lists!Loaded
  <2> QED BY <2>1, <2>4, <2>5 DEF ListSetting
<1> QED BY <1>4, <1>5, <1>6, <1>7 DEF y, z

\* The line that the derived rollback writes is the one that was there.
LEMMA ListUndoLine ==
  ASSUME NEW x \in ListSetting, x = Lists!Loaded(x)
  PROVE  Lists!DeriveRollback(x).value = x.auto
<1>1. x.live = Lists!FileValue(x) /\ x.origin = Lists!FileOrigin(x)
  BY DEF Lists!Loaded, ListSetting
<1> QED BY <1>1 DEF Lists!FileValue, Lists!FileOrigin, Lists!DeriveRollback, Lists!SetConfig,
                    Lists!ResetConfig

\* The audit classes: set and read, set back and read, is as only read.
LEMMA ClassSetBack ==
  ASSUME NEW x \in Audit!Setting, NEW value \in SUBSET Classes
  PROVE  /\ Audit!Loaded(x) \in Audit!Setting /\ Audit!Loaded(Audit!Loaded(x)) = Audit!Loaded(x)
         /\ \A line \in Audit!Line : AutoLine(x, line) \in Audit!Setting
         /\ Audit!Loaded(AutoLine(x, value)) = Set(x, value) /\ Set(x, value) \in Audit!Setting
         /\ Audit!Loaded(AutoLine(Set(x, value), x.auto)) = Audit!Loaded(x)
         /\ Audit!Loaded(Set(x, value)) = Set(x, value)
         /\ x = Audit!Loaded(x) => Audit!DeriveRollback(x).value = x.auto
<1>0. value \in SUBSET Classes /\ {} \in SUBSET Classes /\ {"absent"} \notin SUBSET Classes
  BY DEF Classes
<1>alike. \A y, z \in Audit!Setting :
        y.shadow = z.shadow /\ y.conf = z.conf /\ y.auto = z.auto /\ y.live = z.live /\ y.origin = z.origin => y = z
  BY DEF Audit!Setting
<1>1. ASSUME NEW y \in Audit!Setting
      PROVE  /\ Audit!Loaded(y) \in Audit!Setting
             /\ Audit!Loaded(y).live = Audit!FileValue(y) /\ Audit!Loaded(y).origin = Audit!FileOrigin(y)
             /\ Audit!Loaded(y).auto = y.auto /\ Audit!Loaded(y).conf = y.conf /\ Audit!Loaded(y).shadow = y.shadow
  <2>1. Audit!FileValue(y) \in SUBSET Classes /\ Audit!FileOrigin(y) \in Audit!Origin
    BY <1>0 DEF Audit!Setting, Audit!Line, Audit!FileValue, Audit!FileOrigin, Audit!Origin
  <2> QED BY <2>1 DEF Audit!Loaded, Audit!Setting
<1>2. \A y \in Audit!Setting : y.live = Audit!FileValue(y) /\ y.origin = Audit!FileOrigin(y) => Audit!Loaded(y) = y
  BY <1>1, <1>alike
<1>3. Audit!Loaded(Audit!Loaded(x)) = Audit!Loaded(x)
  <2> DEFINE y == Audit!Loaded(x)
  <2>1. /\ y \in Audit!Setting /\ y.live = Audit!FileValue(x) /\ y.origin = Audit!FileOrigin(x)
        /\ y.auto = x.auto /\ y.conf = x.conf
    BY <1>1
  <2> HIDE DEF y
  <2>2. Audit!FileValue(y) = Audit!FileValue(x) /\ Audit!FileOrigin(y) = Audit!FileOrigin(x)
    BY <2>1 DEF Audit!FileValue, Audit!FileOrigin
  <2>3. Audit!Loaded(y) = y
    BY <1>2, <2>1, <2>2
  <2> QED BY <2>3 DEF y
<1>4. \A line \in Audit!Line : AutoLine(x, line) \in Audit!Setting
  BY DEF AutoLine, Audit!Setting
<1>5. Audit!Loaded(AutoLine(x, value)) = Set(x, value)
  <2>1. /\ AutoLine(x, value) \in Audit!Setting /\ Audit!FileValue(AutoLine(x, value)) = value
        /\ Audit!FileOrigin(AutoLine(x, value)) = "postgresql.auto.conf"
    BY <1>0 DEF AutoLine, Audit!Setting, Audit!Line, Audit!FileValue, Audit!FileOrigin
  <2> QED BY <1>1, <2>1 DEF AutoLine, Set, Audit!Setting
<1>6. Set(x, value) \in Audit!Setting
  BY <1>0 DEF Set, Audit!Setting, Audit!Line, Audit!Origin
<1>7. Audit!Loaded(Set(x, value)) = Set(x, value)
  BY <1>0, <1>2, <1>6 DEF Set, Audit!Setting, Audit!FileValue, Audit!FileOrigin
<1>8. Audit!Loaded(AutoLine(Set(x, value), x.auto)) = Audit!Loaded(x)
  <2> DEFINE b == AutoLine(Set(x, value), x.auto)
  <2>1. /\ b \in Audit!Setting /\ b.auto = x.auto /\ b.conf = x.conf /\ b.shadow = x.shadow
    BY <1>6 DEF AutoLine, Set, Audit!Setting
  <2> HIDE DEF b
  <2>2. Audit!FileValue(b) = Audit!FileValue(x) /\ Audit!FileOrigin(b) = Audit!FileOrigin(x)
    BY <2>1 DEF Audit!FileValue, Audit!FileOrigin
  <2>3. /\ Audit!Loaded(b) \in Audit!Setting /\ Audit!Loaded(x) \in Audit!Setting
        /\ Audit!Loaded(b).live = Audit!Loaded(x).live /\ Audit!Loaded(b).origin = Audit!Loaded(x).origin
        /\ Audit!Loaded(b).auto = Audit!Loaded(x).auto /\ Audit!Loaded(b).conf = Audit!Loaded(x).conf
        /\ Audit!Loaded(b).shadow = Audit!Loaded(x).shadow
    BY <1>1, <2>1, <2>2
  <2>4. Audit!Loaded(b) = Audit!Loaded(x)
    BY <1>alike, <2>3
  <2> QED BY <2>4 DEF b
<1>9. x = Audit!Loaded(x) => Audit!DeriveRollback(x).value = x.auto
  BY <1>1 DEF Audit!FileValue, Audit!FileOrigin, Audit!DeriveRollback, Audit!SetConfig, Audit!ResetConfig
<1> QED BY <1>1, <1>3, <1>4, <1>5, <1>6, <1>7, <1>8, <1>9

\* The cipher list likewise.
LEMMA CipherSetBack ==
  ASSUME NEW x \in Ciphers!Setting
  PROVE  /\ Ciphers!Loaded(x) \in Ciphers!Setting /\ Ciphers!Loaded(Ciphers!Loaded(x)) = Ciphers!Loaded(x)
         /\ \A line \in Ciphers!Line : AutoLine(x, line) \in Ciphers!Setting
         /\ Ciphers!Loaded(AutoLine(x, "cis")) = Set(x, "cis") /\ Set(x, "cis") \in Ciphers!Setting
         /\ Ciphers!Loaded(AutoLine(Set(x, "cis"), x.auto)) = Ciphers!Loaded(x)
         /\ Ciphers!Loaded(Set(x, "cis")) = Set(x, "cis")
         /\ x = Ciphers!Loaded(x) => Ciphers!DeriveRollback(x).value = x.auto
<1>0. "cis" # "absent"
  OBVIOUS
<1>alike. \A y, z \in Ciphers!Setting :
        y.shadow = z.shadow /\ y.conf = z.conf /\ y.auto = z.auto /\ y.live = z.live /\ y.origin = z.origin => y = z
  BY DEF Ciphers!Setting
<1>1. ASSUME NEW y \in Ciphers!Setting
      PROVE  /\ Ciphers!Loaded(y) \in Ciphers!Setting
             /\ Ciphers!Loaded(y).live = Ciphers!FileValue(y) /\ Ciphers!Loaded(y).origin = Ciphers!FileOrigin(y)
             /\ Ciphers!Loaded(y).auto = y.auto /\ Ciphers!Loaded(y).conf = y.conf /\ Ciphers!Loaded(y).shadow = y.shadow
  <2>1. Ciphers!FileValue(y) \in {"other", "cis", "empty"} /\ Ciphers!FileOrigin(y) \in Ciphers!Origin
    BY <1>0 DEF Ciphers!Setting, Ciphers!Line, Ciphers!FileValue, Ciphers!FileOrigin, Ciphers!Origin
  <2> QED BY <2>1 DEF Ciphers!Loaded, Ciphers!Setting
<1>2. \A y \in Ciphers!Setting : y.live = Ciphers!FileValue(y) /\ y.origin = Ciphers!FileOrigin(y) => Ciphers!Loaded(y) = y
  BY <1>1, <1>alike
<1>3. Ciphers!Loaded(Ciphers!Loaded(x)) = Ciphers!Loaded(x)
  <2> DEFINE y == Ciphers!Loaded(x)
  <2>1. /\ y \in Ciphers!Setting /\ y.live = Ciphers!FileValue(x) /\ y.origin = Ciphers!FileOrigin(x)
        /\ y.auto = x.auto /\ y.conf = x.conf
    BY <1>1
  <2> HIDE DEF y
  <2>2. Ciphers!FileValue(y) = Ciphers!FileValue(x) /\ Ciphers!FileOrigin(y) = Ciphers!FileOrigin(x)
    BY <2>1 DEF Ciphers!FileValue, Ciphers!FileOrigin
  <2>3. Ciphers!Loaded(y) = y
    BY <1>2, <2>1, <2>2
  <2> QED BY <2>3 DEF y
<1>4. \A line \in Ciphers!Line : AutoLine(x, line) \in Ciphers!Setting
  BY DEF AutoLine, Ciphers!Setting
<1>5. Ciphers!Loaded(AutoLine(x, "cis")) = Set(x, "cis")
  <2>1. /\ AutoLine(x, "cis") \in Ciphers!Setting /\ Ciphers!FileValue(AutoLine(x, "cis")) = "cis"
        /\ Ciphers!FileOrigin(AutoLine(x, "cis")) = "postgresql.auto.conf"
    BY <1>0 DEF AutoLine, Ciphers!Setting, Ciphers!Line, Ciphers!FileValue, Ciphers!FileOrigin
  <2> QED BY <1>1, <2>1 DEF AutoLine, Set, Ciphers!Setting
<1>6. Set(x, "cis") \in Ciphers!Setting
  BY <1>0 DEF Set, Ciphers!Setting, Ciphers!Line, Ciphers!Origin
<1>7. Ciphers!Loaded(Set(x, "cis")) = Set(x, "cis")
  BY <1>0, <1>2, <1>6 DEF Set, Ciphers!Setting, Ciphers!FileValue, Ciphers!FileOrigin
<1>8. Ciphers!Loaded(AutoLine(Set(x, "cis"), x.auto)) = Ciphers!Loaded(x)
  <2> DEFINE b == AutoLine(Set(x, "cis"), x.auto)
  <2>1. /\ b \in Ciphers!Setting /\ b.auto = x.auto /\ b.conf = x.conf /\ b.shadow = x.shadow
    BY <1>6 DEF AutoLine, Set, Ciphers!Setting
  <2> HIDE DEF b
  <2>2. Ciphers!FileValue(b) = Ciphers!FileValue(x) /\ Ciphers!FileOrigin(b) = Ciphers!FileOrigin(x)
    BY <2>1 DEF Ciphers!FileValue, Ciphers!FileOrigin
  <2>3. /\ Ciphers!Loaded(b) \in Ciphers!Setting /\ Ciphers!Loaded(x) \in Ciphers!Setting
        /\ Ciphers!Loaded(b).live = Ciphers!Loaded(x).live /\ Ciphers!Loaded(b).origin = Ciphers!Loaded(x).origin
        /\ Ciphers!Loaded(b).auto = Ciphers!Loaded(x).auto /\ Ciphers!Loaded(b).conf = Ciphers!Loaded(x).conf
        /\ Ciphers!Loaded(b).shadow = Ciphers!Loaded(x).shadow
    BY <1>1, <2>1, <2>2
  <2>4. Ciphers!Loaded(b) = Ciphers!Loaded(x)
    BY <1>alike, <2>3
  <2> QED BY <2>4 DEF b
<1>9. x = Ciphers!Loaded(x) => Ciphers!DeriveRollback(x).value = x.auto
  BY <1>1 DEF Ciphers!FileValue, Ciphers!FileOrigin, Ciphers!DeriveRollback, Ciphers!SetConfig, Ciphers!ResetConfig
<1> QED BY <1>1, <1>3, <1>4, <1>5, <1>6, <1>7, <1>8, <1>9
----------------------------------------------------------------------------
(* A server: what the statements of a fix make of it, and their rollback.  *)

With(t, p, a, k) == [preload |-> p, audit |-> a, ciphers |-> k, path |-> t.path,
                     protocol |-> t.protocol, sessions |-> t.sessions, hidden |-> t.hidden]

\* A server is what its three settings are; the rest of it no fix writes.
LEMMA WithParts ==
  ASSUME NEW t, HasSettings(t),
         NEW p \in ListSetting, NEW a \in Audit!Setting, NEW k \in Ciphers!Setting
  PROVE  /\ HasSettings(With(t, p, a, k))
         /\ With(t, p, a, k).preload = p /\ With(t, p, a, k).audit = a /\ With(t, p, a, k).ciphers = k
         /\ \A q, b, l : With(With(t, p, a, k), q, b, l) = With(t, q, b, l)
         /\ With(t, t.preload, t.audit, t.ciphers) = t
<1>1. With(t, t.preload, t.audit, t.ciphers) = t
  BY DEF HasSettings, With
<1> HIDE DEF ListSetting
<1> QED BY <1>1 DEF HasSettings, With

\* ALTER SYSTEM writes one line.
LEMMA AlteredIs ==
  ASSUME NEW t, HasSettings(t), NEW act
  PROVE  /\ Altered(t, "preload", act) = With(t, AutoLine(t.preload, act.value), t.audit, t.ciphers)
         /\ Altered(t, "audit", act) = With(t, t.preload, AutoLine(t.audit, act.value), t.ciphers)
         /\ Altered(t, "ciphers", act) = With(t, t.preload, t.audit, AutoLine(t.ciphers, act.value))
<1> DEFINE r == [preload |-> t.preload, audit |-> t.audit, ciphers |-> t.ciphers, path |-> t.path,
                 protocol |-> t.protocol, sessions |-> t.sessions, hidden |-> t.hidden]
           p == Lists!AlterSystem(t.preload, act)
           a == Lists!AlterSystem(t.audit, act)
           k == Lists!AlterSystem(t.ciphers, act)
<1>1. t = r
  BY DEF HasSettings
<1>2. /\ Altered(t, "preload", act) = [t EXCEPT !["preload"] = p]
      /\ Altered(t, "audit", act) = [t EXCEPT !["audit"] = a]
      /\ Altered(t, "ciphers", act) = [t EXCEPT !["ciphers"] = k]
  BY DEF Altered
<1>3. p = AutoLine(t.preload, act.value) /\ a = AutoLine(t.audit, act.value) /\ k = AutoLine(t.ciphers, act.value)
  BY DEF Lists!AlterSystem, AutoLine
<1> HIDE DEF p, a, k
<1>4. [r EXCEPT !["preload"] = p] = With(t, p, t.audit, t.ciphers)
  BY DEF With
<1>5. [r EXCEPT !["audit"] = a] = With(t, t.preload, a, t.ciphers)
  BY DEF With
<1>6. [r EXCEPT !["ciphers"] = k] = With(t, t.preload, t.audit, k)
  BY DEF With
<1> HIDE DEF r
<1> QED BY <1>1, <1>2, <1>3, <1>4, <1>5, <1>6

\* The activation, setting by setting.
LEMMA ActivateIs ==
  ASSUME NEW t, HasSettings(t)
  PROVE  Activate(t) = With(t, Lists!Activated(t.preload, TRUE), Audit!Loaded(t.audit), Ciphers!Loaded(t.ciphers))
<1> DEFINE p == Lists!Activated(t.preload, TRUE)
           a == Audit!Loaded(t.audit)
           k == Ciphers!Loaded(t.ciphers)
<1>1. Activate(t) = [[[t EXCEPT !.preload = p] EXCEPT !.audit = a] EXCEPT !.ciphers = k]
  BY DEF Activate
<1> HIDE DEF p, a, k
<1>2. [t EXCEPT !.preload = p] = With(t, p, t.audit, t.ciphers)
  BY DEF HasSettings, With
<1>3. [With(t, p, t.audit, t.ciphers) EXCEPT !.audit = a] = With(t, p, a, t.ciphers)
  BY DEF With
<1>4. [With(t, p, a, t.ciphers) EXCEPT !.ciphers = k] = With(t, p, a, k)
  BY DEF With
<1> QED BY <1>1, <1>2, <1>3, <1>4 DEF p, a, k

LEMMA ActivateWith ==
  ASSUME NEW t, HasSettings(t),
         NEW p \in ListSetting, NEW a \in Audit!Setting, NEW k \in Ciphers!Setting
  PROVE  Activate(With(t, p, a, k)) = With(t, Lists!Activated(p, TRUE), Audit!Loaded(a), Ciphers!Loaded(k))
<1>1. PICK w : w = With(t, p, a, k)
  OBVIOUS
<1>2. /\ HasSettings(w) /\ w.preload = p /\ w.audit = a /\ w.ciphers = k
      /\ \A q, b, l : With(w, q, b, l) = With(t, q, b, l)
  BY <1>1, WithParts
<1>3. Activate(w) = With(w, Lists!Activated(w.preload, TRUE), Audit!Loaded(w.audit), Ciphers!Loaded(w.ciphers))
  BY <1>2, ActivateIs
<1>4. Activate(w) = With(w, Lists!Activated(p, TRUE), Audit!Loaded(a), Ciphers!Loaded(k))
  BY <1>2, <1>3
<1>5. \A q, b, l : With(w, q, b, l) = With(t, q, b, l)
  BY <1>2
<1> QED BY <1>1, <1>4, <1>5

\* The settings with the fix, and after its rollback.
After(t, changes) == Activate(AppliedUpTo(t, changes, Len(changes)))
Back(t, changes) == Activate(RolledBack(t, changes))

\* Without a new list nobody restarts the server.
Kept(t, changes, result) == IF Changed(changes, "preload") THEN result ELSE [result EXCEPT !.preload = t.preload]

\* The result of the fix by its values.
Fixed(t, c, policy, changes) ==
  With(t, IF Changed(changes, "preload") THEN Set(t.preload, Appended(t.preload.live, Library(c))) ELSE t.preload,
          IF Changed(changes, "audit") THEN Set(t.audit, policy.classes) ELSE Audit!Loaded(t.audit),
          IF Changed(changes, "ciphers") THEN Set(t.ciphers, "cis") ELSE Ciphers!Loaded(t.ciphers))

\* The server with its files read once more.
Read(t) == With(t, t.preload, Audit!Loaded(t.audit), Ciphers!Loaded(t.ciphers))

\* The settings the fix changes are those of the source, and in force there.
AsCollected(t, src, changes) ==
  /\ Changed(changes, "preload") => t.preload = src.preload /\ src.preload = Lists!Loaded(src.preload)
  /\ Changed(changes, "audit") =>
       IF AuditShown(src) THEN t.audit = src.audit /\ src.audit = Audit!Loaded(src.audit)
       ELSE t.audit.auto = {"absent"}
  /\ Changed(changes, "ciphers") => t.ciphers = src.ciphers /\ src.ciphers = Ciphers!Loaded(src.ciphers)

\* Which settings each shape changes.
LEMMA ChangedParams ==
  ASSUME NEW c, NEW src, NEW policy, NEW changes
  PROVE  /\ CipherFix(c, src, changes) =>
              ~Changed(changes, "preload") /\ ~Changed(changes, "audit") /\ Changed(changes, "ciphers")
         /\ ListFix(c, src, changes) =>
              Changed(changes, "preload") /\ ~Changed(changes, "audit") /\ ~Changed(changes, "ciphers")
         /\ ClassFix(c, src, policy, changes) =>
              ~Changed(changes, "preload") /\ Changed(changes, "audit") /\ ~Changed(changes, "ciphers")
         /\ BothFix(c, src, policy, changes) =>
              Changed(changes, "preload") /\ Changed(changes, "audit") /\ ~Changed(changes, "ciphers")
BY DEF CipherFix, ListFix, ClassFix, BothFix, Changed, Change

\* The new list is the old one with the library at its end.
LEMMA AppendedIs ==
  ASSUME NEW x \in ListSetting, NEW library \in Item
  PROVE  LET list == Appended(x.live, library)
         IN  /\ list \in ListValue /\ list # x.live
             /\ list.form = "canonical" /\ list.items = Append(x.live.items, library)
<1>1. x.live.items \in Seq(Item)
  BY DEF ListSetting, ListValue
<1>2. PICK q \in Seq(Item) : q = x.live.items
  BY <1>1
<1>3. Append(q, library) \in Seq(Item) /\ Append(q, library) # q
  <2> DEFINE S == Item
  <2>1. \A r \in Seq(S), e \in S : Append(r, e) \in Seq(S) /\ Len(Append(r, e)) = Len(r) + 1 /\ Len(r) \in Nat
    <3> HIDE DEF S
    <3> QED BY AppendProperties, LenProperties
  <2>2. Append(q, library) \in Seq(Item) /\ Len(Append(q, library)) = Len(q) + 1 /\ Len(q) \in Nat
    BY <2>1
  <2>3. Len(Append(q, library)) # Len(q)
    BY <2>2
  <2> QED BY <2>2, <2>3, Zenon
<1> QED BY <1>2, <1>3 DEF Appended, List, ListValue

\* The lines that a fix writes, and those that its rollback writes.
Lined(t, changes, p, a, k) ==
  With(t, IF Changed(changes, "preload") THEN AutoLine(t.preload, p) ELSE t.preload,
          IF Changed(changes, "audit") THEN AutoLine(t.audit, a) ELSE t.audit,
          IF Changed(changes, "ciphers") THEN AutoLine(t.ciphers, k) ELSE t.ciphers)

\* The list a fix sets, and the line of the classes its rollback leaves.
ListValueOf(c, src) == Appended(src.preload.live, Library(c))
ClassUndo(src) == IF AuditShown(src) THEN Audit!DeriveRollback(src.audit).value ELSE {"absent"}

\* What a fix writes can be a line of the file.
LEMMA ValuesAreLines ==
  ASSUME NEW c \in FixControls, NEW src, HasSettings(src)
  PROVE  /\ ListValueOf(c, src) \in ListValue /\ ListValueOf(c, src) # src.preload.live
         /\ PreloadRollback(src).value \in ListLine
         /\ ClassUndo(src) \in Audit!Line /\ Ciphers!DeriveRollback(src.ciphers).value \in Ciphers!Line
<1>1. src.preload \in ListSetting /\ src.audit \in Audit!Setting /\ src.ciphers \in Ciphers!Setting
  BY DEF HasSettings
<1>2. Library(c) \in Item
  BY DEF Item
<1>3. ListValueOf(c, src) \in ListValue /\ ListValueOf(c, src) # src.preload.live
  BY <1>1, <1>2, AppendedIs DEF ListValueOf
<1>4. PreloadRollback(src).value \in ListLine
  BY <1>1, NoListIsNoValue DEF PreloadRollback, Lists!DeriveRollback, Lists!SetConfig, Lists!ResetConfig, ListSetting, ListLine
<1>5. ClassUndo(src) \in Audit!Line
  BY <1>1 DEF ClassUndo, Audit!DeriveRollback, Audit!SetConfig, Audit!ResetConfig, Audit!Setting, Audit!Line
<1>6. Ciphers!DeriveRollback(src.ciphers).value \in Ciphers!Line
  BY <1>1 DEF Ciphers!DeriveRollback, Ciphers!SetConfig, Ciphers!ResetConfig, Ciphers!Setting, Ciphers!Line
<1> QED BY <1>3, <1>4, <1>5, <1>6

\* A server with other lines is a server.
LEMMA LinesTyped ==
  ASSUME NEW t, HasSettings(t), NEW changes,
         NEW p \in ListLine, NEW a \in Audit!Line, NEW k \in Ciphers!Line
  PROVE  HasSettings(Lined(t, changes, p, a, k))
<1>1. t.preload \in ListSetting /\ t.audit \in Audit!Setting /\ t.ciphers \in Ciphers!Setting
  BY DEF HasSettings
<1>2. AutoLine(t.preload, p) \in ListSetting
  BY <1>1, ListActivates
<1>3. AutoLine(t.audit, a) \in Audit!Setting
  BY <1>1 DEF AutoLine, Audit!Setting
<1>4. AutoLine(t.ciphers, k) \in Ciphers!Setting
  BY <1>1 DEF AutoLine, Ciphers!Setting
<1> QED BY <1>1, <1>2, <1>3, <1>4, WithParts DEF Lined

\* All statements of a fix write the lines of its values, all rollbacks the old lines.
LEMMA LinesWritten ==
  ASSUME NEW t, HasSettings(t), NEW c, NEW src, NEW policy, OfferedFor(c, src, policy)
  PROVE  LET changes == Changes(c, src, policy)
         IN  /\ Len(changes) \in {1, 2}
             /\ AppliedUpTo(t, changes, Len(changes)) =
                  Lined(t, changes, ListValueOf(c, src), policy.classes, "cis")
             /\ RolledBack(t, changes) =
                  Lined(t, changes, PreloadRollback(src).value, ClassUndo(src),
                        Ciphers!DeriveRollback(src.ciphers).value)
<1> DEFINE changes == Changes(c, src, policy)
           P == ListValueOf(c, src)
           UP == PreloadRollback(src)
           UA == IF AuditShown(src) THEN Audit!DeriveRollback(src.audit) ELSE Audit!ResetConfig
           UK == Ciphers!DeriveRollback(src.ciphers)
<1>1. UA.value = ClassUndo(src)
  BY DEF ClassUndo, Audit!ResetConfig
<1>2. \A param, value, undo : /\ Change(param, value, undo).param = param
        /\ Change(param, value, undo).apply.value = value /\ Change(param, value, undo).undo = undo
  BY DEF Change
<1>3. /\ P \in ListLine /\ UP.value \in ListLine /\ UA.value \in Audit!Line /\ policy.classes \in Audit!Line
  BY <1>1, ValuesAreLines, NoListIsNoValue DEF OfferedFor, Audit!Line
<1>4. t.preload \in ListSetting /\ t.audit \in Audit!Setting /\ t.ciphers \in Ciphers!Setting
  BY DEF HasSettings
<1>5. CASE CipherFix(c, src, changes)
  <2>1. changes = <<Change("ciphers", "cis", UK)>>
    BY <1>5 DEF CipherFix
  <2>2. /\ Len(changes) = 1 /\ changes[1].param = "ciphers" /\ changes[1].apply.value = "cis"
        /\ changes[1].undo = UK
    BY <1>2, <2>1
  <2>3. ~Changed(changes, "preload") /\ ~Changed(changes, "audit") /\ Changed(changes, "ciphers")
    BY <1>5, ChangedParams
  <2> HIDE DEF changes, UK
  <2>4. /\ AppliedUpTo(t, changes, 1) = With(t, t.preload, t.audit, AutoLine(t.ciphers, "cis"))
        /\ RolledBack(t, changes) = With(t, t.preload, t.audit, AutoLine(t.ciphers, UK.value))
    BY <2>2, OneStatement, AlteredIs
  <2> QED BY <2>2, <2>3, <2>4 DEF Lined, changes, UK
<1>6. CASE ListFix(c, src, changes)
  <2>1. changes = <<Change("preload", P, UP)>>
    BY <1>6 DEF ListFix, ListValueOf, Library
  <2>2. /\ Len(changes) = 1 /\ changes[1].param = "preload" /\ changes[1].apply.value = P
        /\ changes[1].undo = UP
    BY <1>2, <2>1
  <2>3. Changed(changes, "preload") /\ ~Changed(changes, "audit") /\ ~Changed(changes, "ciphers")
    BY <1>6, ChangedParams
  <2> HIDE DEF changes, P, UP
  <2>4. /\ AppliedUpTo(t, changes, 1) = With(t, AutoLine(t.preload, P), t.audit, t.ciphers)
        /\ RolledBack(t, changes) = With(t, AutoLine(t.preload, UP.value), t.audit, t.ciphers)
    BY <2>2, OneStatement, AlteredIs
  <2> QED BY <2>2, <2>3, <2>4 DEF Lined, changes, P, UP
<1>7. CASE ClassFix(c, src, policy, changes)
  <2>1. changes = <<Change("audit", policy.classes, UA)>>
    BY <1>7 DEF ClassFix
  <2>2. /\ Len(changes) = 1 /\ changes[1].param = "audit" /\ changes[1].apply.value = policy.classes
        /\ changes[1].undo = UA
    BY <1>2, <2>1
  <2>3. ~Changed(changes, "preload") /\ Changed(changes, "audit") /\ ~Changed(changes, "ciphers")
    BY <1>7, ChangedParams
  <2> HIDE DEF changes, UA
  <2>4. /\ AppliedUpTo(t, changes, 1) = With(t, t.preload, AutoLine(t.audit, policy.classes), t.ciphers)
        /\ RolledBack(t, changes) = With(t, t.preload, AutoLine(t.audit, UA.value), t.ciphers)
    BY <2>2, OneStatement, AlteredIs
  <2> QED BY <1>1, <2>2, <2>3, <2>4 DEF Lined, changes
<1>8. CASE BothFix(c, src, policy, changes)
  <2>1. changes = <<Change("preload", P, UP), Change("audit", policy.classes, UA)>>
    BY <1>8 DEF BothFix, ListValueOf, Library
  <2>2. /\ Len(changes) = 2 /\ changes[1].param = "preload" /\ changes[1].apply.value = P
        /\ changes[1].undo = UP
        /\ changes[2].param = "audit" /\ changes[2].apply.value = policy.classes /\ changes[2].undo = UA
    BY <1>2, <2>1
  <2>3. Changed(changes, "preload") /\ Changed(changes, "audit") /\ ~Changed(changes, "ciphers")
    BY <1>8, ChangedParams
  <2> HIDE DEF changes, UA, P, UP
  <2>4. /\ AutoLine(t.preload, P) \in ListSetting /\ AutoLine(t.audit, UA.value) \in Audit!Setting
    BY <1>3, <1>4, ListActivates DEF AutoLine, Audit!Setting
  <2>5. /\ HasSettings(With(t, AutoLine(t.preload, P), t.audit, t.ciphers))
        /\ HasSettings(With(t, t.preload, AutoLine(t.audit, UA.value), t.ciphers))
    BY <1>4, <2>4, WithParts
  <2>6. AppliedUpTo(t, changes, 2) = With(t, AutoLine(t.preload, P), AutoLine(t.audit, policy.classes), t.ciphers)
    BY <1>4, <2>2, <2>4, <2>5, TwoStatements, AlteredIs, WithParts
  <2>7. RolledBack(t, changes) = With(t, AutoLine(t.preload, UP.value), AutoLine(t.audit, UA.value), t.ciphers)
    <3>1. PICK f : f = With(t, t.preload, AutoLine(t.audit, UA.value), t.ciphers)
      OBVIOUS
    <3>2. RolledBack(t, changes) = Altered(f, "preload", UP)
      BY <2>2, <3>1, TwoStatements, AlteredIs
    <3>3. /\ HasSettings(f) /\ f.preload = t.preload /\ f.audit = AutoLine(t.audit, UA.value)
          /\ f.ciphers = t.ciphers
      BY <1>4, <2>4, <2>5, <3>1, WithParts
    <3>4. Altered(f, "preload", UP) = With(f, AutoLine(t.preload, UP.value), AutoLine(t.audit, UA.value), t.ciphers)
      BY <3>3, AlteredIs
    <3> QED BY <1>4, <2>4, <3>1, <3>2, <3>4, WithParts
  <2> QED BY <1>1, <2>2, <2>3, <2>6, <2>7 DEF Lined, changes, P, UP
<1> QED BY <1>5, <1>6, <1>7, <1>8, ChangesShape

\* The parts of the fixed server.
LEMMA FixedParts ==
  ASSUME NEW t, HasSettings(t), NEW c \in FixControls, NEW policy, policy.classes \subseteq Classes, NEW changes
  PROVE  LET f == Fixed(t, c, policy, changes)
         IN  /\ HasSettings(f) /\ f.path = t.path /\ f.protocol = t.protocol
             /\ f.sessions = t.sessions /\ f.hidden = t.hidden
             /\ f.preload = IF Changed(changes, "preload")
                            THEN Set(t.preload, Appended(t.preload.live, Library(c))) ELSE t.preload
             /\ f.audit = IF Changed(changes, "audit") THEN Set(t.audit, policy.classes) ELSE Audit!Loaded(t.audit)
             /\ f.ciphers = IF Changed(changes, "ciphers") THEN Set(t.ciphers, "cis") ELSE Ciphers!Loaded(t.ciphers)
             /\ \A q, b, l : With(f, q, b, l) = With(t, q, b, l)
<1> DEFINE p == IF Changed(changes, "preload")
                THEN Set(t.preload, Appended(t.preload.live, Library(c))) ELSE t.preload
           a == IF Changed(changes, "audit") THEN Set(t.audit, policy.classes) ELSE Audit!Loaded(t.audit)
           k == IF Changed(changes, "ciphers") THEN Set(t.ciphers, "cis") ELSE Ciphers!Loaded(t.ciphers)
<1>1. t.preload \in ListSetting /\ t.audit \in Audit!Setting /\ t.ciphers \in Ciphers!Setting
  BY DEF HasSettings
<1>2. p \in ListSetting
  <2>1. Appended(t.preload.live, Library(c)) \in ListValue /\ Appended(t.preload.live, Library(c)) # t.preload.live
    BY <1>1, AppendedIs DEF Item
  <2>2. Set(t.preload, Appended(t.preload.live, Library(c))) \in ListSetting
    BY <1>1, <2>1, ListSetBack
  <2> QED BY <1>1, <2>2
<1>3. a \in Audit!Setting
  BY <1>1, ClassSetBack
<1>4. k \in Ciphers!Setting
  BY <1>1, CipherSetBack
<1>5. Fixed(t, c, policy, changes) = With(t, p, a, k)
  BY DEF Fixed
<1>6. /\ With(t, p, a, k).path = t.path /\ With(t, p, a, k).protocol = t.protocol
      /\ With(t, p, a, k).sessions = t.sessions /\ With(t, p, a, k).hidden = t.hidden
  BY DEF With
<1> HIDE DEF p, a, k
<1>7. /\ HasSettings(With(t, p, a, k)) /\ With(t, p, a, k).preload = p /\ With(t, p, a, k).audit = a
      /\ With(t, p, a, k).ciphers = k /\ \A q, b, l : With(With(t, p, a, k), q, b, l) = With(t, q, b, l)
  BY <1>1, <1>2, <1>3, <1>4, WithParts
<1> QED BY <1>5, <1>6, <1>7 DEF p, a, k

\* The target without a restart keeps its library list.
LEMMA KeptIs ==
  ASSUME NEW t, NEW u, NEW p, NEW a, NEW k, NEW changes
  PROVE  /\ Changed(changes, "preload") => Kept(u, changes, With(t, p, a, k)) = With(t, p, a, k)
         /\ ~Changed(changes, "preload") => Kept(u, changes, With(t, p, a, k)) = With(t, u.preload, a, k)
<1>1. [With(t, p, a, k) EXCEPT !.preload = u.preload] = With(t, u.preload, a, k)
  BY DEF With
<1> QED BY <1>1 DEF Kept

\* The fix on a server that has the source's settings: what its statements and
\* the activation make of it, and what the rollback makes of that.
LEMMA FixAndBack ==
  ASSUME NEW t, HasSettings(t), NEW c, NEW src, NEW policy, OfferedFor(c, src, policy),
         AsCollected(t, src, Changes(c, src, policy))
  PROVE  LET changes == Changes(c, src, policy)
             f == Fixed(t, c, policy, changes)
         IN  /\ Kept(t, changes, After(t, changes)) = f
             /\ Kept(f, changes, Back(f, changes)) = Read(t)
             /\ t.preload = Lists!Loaded(t.preload) => After(t, changes) = f /\ Back(f, changes) = Read(t)
<1> DEFINE changes == Changes(c, src, policy)
           f == Fixed(t, c, policy, changes)
           P == ListValueOf(c, src)
           UP == PreloadRollback(src).value
           UA == ClassUndo(src)
           UK == Ciphers!DeriveRollback(src.ciphers).value
           p == IF Changed(changes, "preload") THEN AutoLine(t.preload, P) ELSE t.preload
           a == IF Changed(changes, "audit") THEN AutoLine(t.audit, policy.classes) ELSE t.audit
           k == IF Changed(changes, "ciphers") THEN AutoLine(t.ciphers, "cis") ELSE t.ciphers
           bp == IF Changed(changes, "preload") THEN AutoLine(f.preload, UP) ELSE f.preload
           ba == IF Changed(changes, "audit") THEN AutoLine(f.audit, UA) ELSE f.audit
           bk == IF Changed(changes, "ciphers") THEN AutoLine(f.ciphers, UK) ELSE f.ciphers
<1>1. /\ c \in FixControls /\ HasSettings(src) /\ policy.classes \in SUBSET Classes
      /\ t.preload \in ListSetting /\ t.audit \in Audit!Setting /\ t.ciphers \in Ciphers!Setting
      /\ src.preload \in ListSetting /\ src.audit \in Audit!Setting /\ src.ciphers \in Ciphers!Setting
  BY DEF OfferedFor, HasSettings
<1>2. /\ P \in ListValue /\ P \in ListLine /\ P # src.preload.live /\ UP \in ListLine
      /\ UA \in Audit!Line /\ UK \in Ciphers!Line /\ policy.classes \in Audit!Line /\ "cis" \in Ciphers!Line
  BY <1>1, ValuesAreLines, NoListIsNoValue DEF Audit!Line, Ciphers!Line
<1>3. /\ HasSettings(f) /\ \A q, b, l : With(f, q, b, l) = With(t, q, b, l)
      /\ f.preload = IF Changed(changes, "preload")
                     THEN Set(t.preload, Appended(t.preload.live, Library(c))) ELSE t.preload
      /\ f.audit = IF Changed(changes, "audit") THEN Set(t.audit, policy.classes) ELSE Audit!Loaded(t.audit)
      /\ f.ciphers = IF Changed(changes, "ciphers") THEN Set(t.ciphers, "cis") ELSE Ciphers!Loaded(t.ciphers)
  <2> HIDE DEF changes
  <2> QED BY <1>1, FixedParts
<1>4. /\ AppliedUpTo(t, changes, Len(changes)) = Lined(t, changes, P, policy.classes, "cis")
      /\ RolledBack(f, changes) = Lined(f, changes, UP, UA, UK)
  BY <1>3, LinesWritten
<1>5. /\ Lined(t, changes, P, policy.classes, "cis") = With(t, p, a, k)
      /\ Lined(f, changes, UP, UA, UK) = With(f, bp, ba, bk)
  BY DEF Lined
<1>6. AsCollected(t, src, changes)
  OBVIOUS
<1>7. Changed(changes, "preload") => /\ P = Appended(t.preload.live, Library(c)) /\ P # t.preload.live
                                    /\ t.preload = Lists!Loaded(t.preload) /\ UP = t.preload.auto
  <2> HIDE DEF changes
  <2> QED BY <1>1, <1>2, <1>6, ListUndoLine DEF AsCollected, ListValueOf, PreloadRollback
<1>8. Changed(changes, "audit") => UA = t.audit.auto
  <2> HIDE DEF changes
  <2> QED BY <1>1, <1>6, ClassSetBack DEF AsCollected, ClassUndo
<1>9. Changed(changes, "ciphers") => UK = t.ciphers.auto
  <2> HIDE DEF changes
  <2> QED BY <1>1, <1>6, CipherSetBack DEF AsCollected
<1>10. /\ p \in ListSetting
       /\ Changed(changes, "preload") => Lists!Activated(p, TRUE) = f.preload /\ Lists!Activated(bp, TRUE) = t.preload
       /\ ~Changed(changes, "preload") => p = t.preload /\ bp = t.preload
  <2>1. CASE Changed(changes, "preload")
    <3> HIDE DEF changes, f, P, UP
    <3>1. P # t.preload.live /\ f.preload = Set(t.preload, P) /\ UP = t.preload.auto
      BY <1>3, <1>7, <2>1
    <3>2. /\ Lists!Activated(AutoLine(t.preload, P), TRUE) = Set(t.preload, P)
          /\ Lists!Activated(AutoLine(Set(t.preload, P), t.preload.auto), TRUE) = t.preload
      BY <1>1, <1>2, <1>7, <2>1, <3>1, ListSetBack
    <3>3. AutoLine(t.preload, P) \in ListSetting
      BY <1>1, <1>2, ListActivates
    <3> QED BY <2>1, <3>1, <3>2, <3>3
  <2>2. CASE ~Changed(changes, "preload")
    <3> HIDE DEF changes, f, P, UP
    <3> QED BY <1>1, <1>3, <2>2
  <2> QED BY <2>1, <2>2
<1>11. a \in Audit!Setting /\ Audit!Loaded(a) = f.audit /\ Audit!Loaded(ba) = Audit!Loaded(t.audit)
  <2> HIDE DEF changes, f, UA
  <2> QED BY <1>1, <1>2, <1>3, <1>8, ClassSetBack
<1>12. k \in Ciphers!Setting /\ Ciphers!Loaded(k) = f.ciphers /\ Ciphers!Loaded(bk) = Ciphers!Loaded(t.ciphers)
  <2> HIDE DEF changes, f, UK
  <2> QED BY <1>1, <1>2, <1>3, <1>9, CipherSetBack
<1>13. /\ f.preload \in ListSetting /\ bp \in ListSetting /\ ba \in Audit!Setting /\ bk \in Ciphers!Setting
  <2>1. f.preload \in ListSetting /\ f.audit \in Audit!Setting /\ f.ciphers \in Ciphers!Setting
    BY <1>3 DEF HasSettings
  <2> HIDE DEF changes, f, UP, UA, UK
  <2> QED BY <1>2, <2>1, ListActivates DEF AutoLine, Audit!Setting, Ciphers!Setting
<1> HIDE DEF changes, f, P, UP, UA, UK, p, a, k, bp, ba, bk
<1>14. After(t, changes) = With(t, Lists!Activated(p, TRUE), f.audit, f.ciphers)
  <2>1. Activate(With(t, p, a, k)) = With(t, Lists!Activated(p, TRUE), Audit!Loaded(a), Ciphers!Loaded(k))
    BY <1>10, <1>11, <1>12, ActivateWith
  <2> QED BY <1>4, <1>5, <1>11, <1>12, <2>1 DEF After
<1>15. Back(f, changes) = With(t, Lists!Activated(bp, TRUE), Audit!Loaded(t.audit), Ciphers!Loaded(t.ciphers))
  <2>1. With(f, bp, ba, bk) = With(t, bp, ba, bk)
    BY <1>3
  <2>2. Activate(With(t, bp, ba, bk)) = With(t, Lists!Activated(bp, TRUE), Audit!Loaded(ba), Ciphers!Loaded(bk))
    BY <1>13, ActivateWith
  <2> QED BY <1>4, <1>5, <1>11, <1>12, <2>1, <2>2 DEF Back
<1>16. f = With(t, f.preload, f.audit, f.ciphers)
  <2>1. With(f, f.preload, f.audit, f.ciphers) = f
    BY <1>3 DEF HasSettings, With
  <2> QED BY <1>3, <2>1
<1>17. Kept(t, changes, After(t, changes)) = f
  <2>1. Changed(changes, "preload") => Lists!Activated(p, TRUE) = f.preload
    BY <1>10
  <2>2. ~Changed(changes, "preload") => t.preload = f.preload
    BY <1>3
  <2>3. PICK q : q = Lists!Activated(p, TRUE)
    OBVIOUS
  <2>4. /\ Changed(changes, "preload") => Kept(t, changes, With(t, q, f.audit, f.ciphers)) = With(t, q, f.audit, f.ciphers)
        /\ ~Changed(changes, "preload") =>
             Kept(t, changes, With(t, q, f.audit, f.ciphers)) = With(t, t.preload, f.audit, f.ciphers)
    BY KeptIs
  <2> QED BY <1>14, <1>16, <2>1, <2>2, <2>3, <2>4
<1>18. Kept(f, changes, Back(f, changes)) = Read(t)
  <2>1. Changed(changes, "preload") => Lists!Activated(bp, TRUE) = t.preload
    BY <1>10
  <2>2. ~Changed(changes, "preload") => f.preload = t.preload
    BY <1>3
  <2>3. PICK q, b, l : q = Lists!Activated(bp, TRUE) /\ b = Audit!Loaded(t.audit) /\ l = Ciphers!Loaded(t.ciphers)
    OBVIOUS
  <2>4. /\ Changed(changes, "preload") => Kept(f, changes, With(t, q, b, l)) = With(t, q, b, l)
        /\ ~Changed(changes, "preload") => Kept(f, changes, With(t, q, b, l)) = With(t, f.preload, b, l)
    BY KeptIs
  <2> QED BY <1>15, <2>1, <2>2, <2>3, <2>4 DEF Read
<1>19. ASSUME t.preload = Lists!Loaded(t.preload)
       PROVE  After(t, changes) = f /\ Back(f, changes) = Read(t)
  <2>1. Lists!Activated(t.preload, TRUE) = t.preload
    BY <1>1, <1>19, ListActivates
  <2>2. Lists!Activated(p, TRUE) = f.preload /\ Lists!Activated(bp, TRUE) = t.preload
    BY <1>3, <1>10, <2>1
  <2> QED BY <1>14, <1>15, <1>16, <2>2 DEF Read
<1> QED BY <1>17, <1>18, <1>19 DEF changes, f
----------------------------------------------------------------------------
(* What the three evaluators read of a server.                             *)

\* The classes a server logs satisfy the policy.
Logs(live, policy) ==
  /\ policy.approved /\ policy.classes # {} /\ ParseableClasses(LogWords(live))
  /\ policy.classes \subseteq EffectiveClasses(LogWords(live))

\* The sections of the evidence the three evaluators ask for.
LEMMA SectionsRead ==
  ASSUME NEW s
  PROVE  /\ Required("3.2") = {"settings"} /\ Required("5.6") = {"settings"} /\ Required("6.10") = {"settings"}
         /\ LET e == Evidence("3.2", s)
            IN  /\ e.pg17 /\ e.sec["settings"] = "ok" /\ e.sec["preload"] = "ok"
                /\ e.sec["pgaudit.log"] = IF AuditShown(s) THEN "ok" ELSE "absent"
         /\ LET e == Evidence("5.6", s)
            IN  e.pg17 /\ e.sec["settings"] = "ok" /\ e.sec["preload"] = "ok" /\ e.sec["path"] = "ok"
         /\ LET e == Evidence("6.10", s)
            IN  /\ e.pg17 /\ e.sec["settings"] = "ok" /\ e.sec["ssl_ciphers"] = "ok"
                /\ e.sec["connections"] = IF s.hidden THEN "hidden" ELSE "ok"
<1>1. /\ Required("3.2") = {"settings"} /\ Required("5.6") = {"settings"} /\ Required("6.10") = {"settings"}
  BY DEF Required
<1>2. /\ Further("3.2") = {"preload", "pgaudit.log"} /\ Further("5.6") = {"preload", "path"}
      /\ Further("6.10") = {"ssl_ciphers", "connections"}
  BY DEF Further
<1>3. /\ Evidence("3.2", s).pg17 /\ Evidence("3.2", s).sec["settings"] = "ok"
      /\ Evidence("3.2", s).sec["preload"] = "ok"
      /\ Evidence("3.2", s).sec["pgaudit.log"] = IF AuditShown(s) THEN "ok" ELSE "absent"
  BY <1>1, <1>2 DEF Evidence
<1>4. /\ Evidence("5.6", s).pg17 /\ Evidence("5.6", s).sec["settings"] = "ok"
      /\ Evidence("5.6", s).sec["preload"] = "ok" /\ Evidence("5.6", s).sec["path"] = "ok"
  BY <1>1, <1>2 DEF Evidence
<1>5. /\ Evidence("6.10", s).pg17 /\ Evidence("6.10", s).sec["settings"] = "ok"
      /\ Evidence("6.10", s).sec["ssl_ciphers"] = "ok"
      /\ Evidence("6.10", s).sec["connections"] = IF s.hidden THEN "hidden" ELSE "ok"
  BY <1>1, <1>2 DEF Evidence
<1> QED BY <1>1, <1>3, <1>4, <1>5

\* 5.6 fails without passwordcheck in the list, and passes with it.
LEMMA ListVerdict ==
  ASSUME NEW s, NEW policy
  PROVE  /\ s.preload.live.form # "unparseable" /\ Names(s.preload.live, "passwordcheck") = {}
              => Result("5.6", s, policy) = "FAIL"
         /\ Result("5.6", s, policy) = "PASS" <=>
              /\ s.preload.live.form # "unparseable" /\ Names(s.preload.live, "passwordcheck") # {}
              /\ s.path = "$libdir"
<1> DEFINE e == Evidence("5.6", s)
<1>1. Result("5.6", s, policy) = PasswordComplexityModule(e)
  BY SectionsRead DEF Result, Evaluate
<1>2. /\ e.f.path = s.path
      /\ e.f.preload = IF s.preload.live.form = "unparseable" THEN "unparseable"
                       ELSE IF Names(s.preload.live, "passwordcheck") = {} THEN "absent"
                       ELSE IF \E i \in Names(s.preload.live, "passwordcheck") :
                                 s.preload.live.items[i] = "passwordcheck" THEN "bare" ELSE "qualified"
  <2>1. Library("5.6") = "passwordcheck"
    BY DEF Library
  <2> QED BY <2>1 DEF Evidence
<1>3. Readable(e, "preload") /\ Readable(e, "path")
  BY SectionsRead DEF Readable
<1> HIDE DEF e
<1> QED BY <1>1, <1>2, <1>3 DEF PasswordComplexityModule

\* 3.2 fails without pgaudit, and passes with it and its classes; it reads nothing else.
LEMMA AuditVerdict ==
  ASSUME NEW s, NEW policy
  PROVE  /\ s.preload.live.form # "unparseable" /\ ~AuditShown(s) => Result("3.2", s, policy) = "FAIL"
         /\ Result("3.2", s, policy) = "PASS" <=>
              s.preload.live.form # "unparseable" /\ AuditShown(s) /\ Logs(s.audit.live, policy)
         /\ \A t : s.preload.live = t.preload.live /\ s.audit.live = t.audit.live
                   => Result("3.2", s, policy) = Result("3.2", t, policy)
<1> DEFINE words(u) == LogWords(u.audit.live)
           verdict(u) == IF u.preload.live.form = "unparseable" THEN "MANUAL"
                         ELSE IF ~AuditShown(u) THEN "FAIL"
                         ELSE IF ~policy.approved \/ policy.classes = {} \/ ~ParseableClasses(words(u)) THEN "MANUAL"
                         ELSE IF policy.classes \subseteq EffectiveClasses(words(u)) THEN "PASS" ELSE "FAIL"
<1>1. ASSUME NEW u PROVE Result("3.2", u, policy) = verdict(u)
  <2> DEFINE e == Evidence("3.2", u)
  <2>1. Result("3.2", u, policy) = PgauditEnabled(e, policy)
    BY SectionsRead DEF Result, Evaluate
  <2>2. /\ e.f.log = LogWords(u.audit.live)
        /\ e.f.preload = IF u.preload.live.form = "unparseable" THEN "unparseable"
                         ELSE IF ~AuditShown(u) THEN "absent"
                         ELSE IF \E i \in Names(u.preload.live, "pgaudit") :
                                   u.preload.live.items[i] = "pgaudit" THEN "bare" ELSE "qualified"
    <3>1. Library("3.2") = "pgaudit"
      BY DEF Library
    <3> QED BY <3>1 DEF Evidence, AuditShown
  <2>3. /\ Readable(e, "preload")
        /\ AuditShown(u) => Readable(e, "pgaudit.log")
        /\ AuditShown(u) => e.sec["pgaudit.log"] # "absent"
    BY SectionsRead DEF Readable
  <2> HIDE DEF e
  <2>4. CASE u.preload.live.form = "unparseable"
    <3>1. e.f.preload = "unparseable"
      BY <2>2, <2>4
    <3>2. PgauditEnabled(e, policy) = "MANUAL"
      BY <2>3, <3>1, Zenon DEF PgauditEnabled
    <3>3. verdict(u) = "MANUAL"
      BY <2>4, Zenon
    <3> QED BY <2>1, <3>2, <3>3
  <2>5. CASE u.preload.live.form # "unparseable" /\ ~AuditShown(u)
    <3>1. e.f.preload = "absent" /\ e.f.preload # "unparseable"
      BY <2>2, <2>5
    <3>2. PgauditEnabled(e, policy) = "FAIL"
      BY <2>3, <3>1, Zenon DEF PgauditEnabled
    <3>3. verdict(u) = "FAIL"
      BY <2>5, Zenon
    <3> QED BY <2>1, <3>2, <3>3
  <2>6. CASE u.preload.live.form # "unparseable" /\ AuditShown(u)
    <3>1. e.f.preload # "unparseable" /\ e.f.preload # "absent"
      BY <2>2, <2>6
    <3>2. PgauditEnabled(e, policy) =
            IF ~policy.approved \/ policy.classes = {} \/ ~ParseableClasses(e.f.log) THEN "MANUAL"
            ELSE IF policy.classes \subseteq EffectiveClasses(e.f.log) THEN "PASS" ELSE "FAIL"
      BY <2>3, <2>6, <3>1, Zenon DEF PgauditEnabled
    <3>3. verdict(u) =
            IF ~policy.approved \/ policy.classes = {} \/ ~ParseableClasses(LogWords(u.audit.live)) THEN "MANUAL"
            ELSE IF policy.classes \subseteq EffectiveClasses(LogWords(u.audit.live)) THEN "PASS" ELSE "FAIL"
      BY <2>6, Zenon
    <3>4. e.f.log = LogWords(u.audit.live)
      BY <2>2
    <3> HIDE DEF verdict
    <3> QED BY <2>1, <3>2, <3>3, <3>4, Zenon
  <2> QED BY <2>4, <2>5, <2>6
<1>2. \A t : s.preload.live = t.preload.live /\ s.audit.live = t.audit.live => verdict(s) = verdict(t)
  BY DEF AuditShown
<1>3. s.preload.live.form # "unparseable" /\ ~AuditShown(s) => Result("3.2", s, policy) = "FAIL"
  BY <1>1
<1>4. Result("3.2", s, policy) = "PASS" <=>
        s.preload.live.form # "unparseable" /\ AuditShown(s) /\ Logs(s.audit.live, policy)
  BY <1>1 DEF Logs
<1> HIDE DEF verdict
<1> QED BY <1>1, <1>2, <1>3, <1>4

\* 6.10 fails on another cipher list, and passes on the reviewed one.
LEMMA CipherVerdict ==
  ASSUME NEW s, NEW policy
  PROVE  /\ s.ciphers.live = "other" => Result("6.10", s, policy) = "FAIL"
         /\ s.ciphers.live = "cis" /\ s.sessions = {} /\ s.hidden = FALSE => Result("6.10", s, policy) = "PASS"
<1> DEFINE e == Evidence("6.10", s)
<1>1. Result("6.10", s, policy) = TlsCipherSuites(e)
  BY SectionsRead DEF Result, Evaluate
<1>2. e.f.ciphers = s.ciphers.live /\ e.f.connections = s.sessions
  BY DEF Evidence
<1>3. Readable(e, "ssl_ciphers") /\ (s.hidden = FALSE => ConnectionsKnown(e))
  BY SectionsRead DEF Readable, ConnectionsKnown
<1> HIDE DEF e
<1> QED BY <1>1, <1>2, <1>3 DEF TlsCipherSuites, IfKnown

----------------------------------------------------------------------------
(* The stand-in server.                                                    *)

\* A reload keeps the lines and takes value and source from them (the library list).
LEMMA ListLoaded ==
  /\ \A y, z \in ListSetting :
        y.shadow = z.shadow /\ y.conf = z.conf /\ y.auto = z.auto /\ y.live = z.live /\ y.origin = z.origin => y = z
  /\ \A y \in ListSetting :
       /\ Lists!Loaded(y) \in ListSetting
       /\ Lists!Loaded(y).live = Lists!FileValue(y) /\ Lists!Loaded(y).origin = Lists!FileOrigin(y)
       /\ Lists!Loaded(y).auto = y.auto /\ Lists!Loaded(y).conf = y.conf /\ Lists!Loaded(y).shadow = y.shadow
       /\ y = Lists!Loaded(y) <=> y.live = Lists!FileValue(y) /\ y.origin = Lists!FileOrigin(y)
<1>1. \A y, z \in ListSetting :
        y.shadow = z.shadow /\ y.conf = z.conf /\ y.auto = z.auto /\ y.live = z.live /\ y.origin = z.origin => y = z
  BY DEF ListSetting
<1>2. ASSUME NEW y \in ListSetting
      PROVE  /\ Lists!Loaded(y) \in ListSetting
             /\ Lists!Loaded(y).live = Lists!FileValue(y) /\ Lists!Loaded(y).origin = Lists!FileOrigin(y)
             /\ Lists!Loaded(y).auto = y.auto /\ Lists!Loaded(y).conf = y.conf /\ Lists!Loaded(y).shadow = y.shadow
  <2>1. Lists!FileValue(y) \in ListValue /\ Lists!FileOrigin(y) \in Lists!Origin
    BY NoListIsNoValue DEF ListSetting, ListLine, Lists!FileValue, Lists!FileOrigin, Lists!Origin
  <2> QED BY <2>1 DEF Lists!Loaded, ListSetting
<1> QED BY <1>1, <1>2

\* The same for the audit classes.
LEMMA ClassLoaded ==
  /\ \A y, z \in Audit!Setting :
        y.shadow = z.shadow /\ y.conf = z.conf /\ y.auto = z.auto /\ y.live = z.live /\ y.origin = z.origin => y = z
  /\ \A y \in Audit!Setting :
       /\ Audit!Loaded(y) \in Audit!Setting
       /\ Audit!Loaded(y).live = Audit!FileValue(y) /\ Audit!Loaded(y).origin = Audit!FileOrigin(y)
       /\ Audit!Loaded(y).auto = y.auto /\ Audit!Loaded(y).conf = y.conf /\ Audit!Loaded(y).shadow = y.shadow
       /\ y = Audit!Loaded(y) <=> y.live = Audit!FileValue(y) /\ y.origin = Audit!FileOrigin(y)
<1>1. \A y, z \in Audit!Setting :
        y.shadow = z.shadow /\ y.conf = z.conf /\ y.auto = z.auto /\ y.live = z.live /\ y.origin = z.origin => y = z
  BY DEF Audit!Setting
<1>2. ASSUME NEW y \in Audit!Setting
      PROVE  /\ Audit!Loaded(y) \in Audit!Setting
             /\ Audit!Loaded(y).live = Audit!FileValue(y) /\ Audit!Loaded(y).origin = Audit!FileOrigin(y)
             /\ Audit!Loaded(y).auto = y.auto /\ Audit!Loaded(y).conf = y.conf /\ Audit!Loaded(y).shadow = y.shadow
  <2>1. {} \in SUBSET Classes /\ {"absent"} \notin SUBSET Classes
    BY DEF Classes
  <2>2. Audit!FileValue(y) \in SUBSET Classes /\ Audit!FileOrigin(y) \in Audit!Origin
    BY <2>1 DEF Audit!Setting, Audit!Line, Audit!FileValue, Audit!FileOrigin, Audit!Origin
  <2> QED BY <2>2 DEF Audit!Loaded, Audit!Setting
<1> QED BY <1>1, <1>2

\* The same for the cipher list.
LEMMA CipherLoaded ==
  /\ \A y, z \in Ciphers!Setting :
        y.shadow = z.shadow /\ y.conf = z.conf /\ y.auto = z.auto /\ y.live = z.live /\ y.origin = z.origin => y = z
  /\ \A y \in Ciphers!Setting :
       /\ Ciphers!Loaded(y) \in Ciphers!Setting
       /\ Ciphers!Loaded(y).live = Ciphers!FileValue(y) /\ Ciphers!Loaded(y).origin = Ciphers!FileOrigin(y)
       /\ Ciphers!Loaded(y).auto = y.auto /\ Ciphers!Loaded(y).conf = y.conf
       /\ Ciphers!Loaded(y).shadow = y.shadow
       /\ y = Ciphers!Loaded(y) <=> y.live = Ciphers!FileValue(y) /\ y.origin = Ciphers!FileOrigin(y)
<1>1. \A y, z \in Ciphers!Setting :
        y.shadow = z.shadow /\ y.conf = z.conf /\ y.auto = z.auto /\ y.live = z.live /\ y.origin = z.origin => y = z
  BY DEF Ciphers!Setting
<1>2. ASSUME NEW y \in Ciphers!Setting
      PROVE  /\ Ciphers!Loaded(y) \in Ciphers!Setting
             /\ Ciphers!Loaded(y).live = Ciphers!FileValue(y) /\ Ciphers!Loaded(y).origin = Ciphers!FileOrigin(y)
             /\ Ciphers!Loaded(y).auto = y.auto /\ Ciphers!Loaded(y).conf = y.conf
             /\ Ciphers!Loaded(y).shadow = y.shadow
  <2>1. Ciphers!FileValue(y) \in {"other", "cis", "empty"} /\ Ciphers!FileOrigin(y) \in Ciphers!Origin
    BY DEF Ciphers!Setting, Ciphers!Line, Ciphers!FileValue, Ciphers!FileOrigin, Ciphers!Origin
  <2> QED BY <2>1 DEF Ciphers!Loaded, Ciphers!Setting
<1> QED BY <1>1, <1>2

\* A setting of the sandbox image: no line anywhere, the default in force.
Unset(none, default) == [shadow |-> none, conf |-> none, auto |-> none, live |-> default, origin |-> "default"]

\* The three settings of the sandbox image are unset, and in force.
LEMMA ListImage ==
  LET i == Lists!ImageSetting(NoList)
  IN  i = Unset(NoList, EmptyList) /\ i \in ListSetting /\ i = Lists!Loaded(i)
<1> DEFINE i == Unset(NoList, EmptyList)
<1>1. i \in ListSetting
  BY NoListIsNoValue DEF ListSetting, ListLine, Lists!Origin, Unset
<1>2. i.live = Lists!FileValue(i) /\ i.origin = Lists!FileOrigin(i)
  BY DEF Unset, Lists!FileValue, Lists!FileOrigin
<1>3. Lists!ImageSetting(NoList) = Lists!Loaded(i)
  BY DEF Lists!ImageSetting, Unset
<1> HIDE DEF i
<1> QED BY <1>1, <1>2, <1>3, ListLoaded DEF i

LEMMA ClassImage ==
  LET i == Audit!ImageSetting({"absent"})
  IN  i = Unset({"absent"}, {}) /\ i \in Audit!Setting /\ i = Audit!Loaded(i)
<1> DEFINE i == Unset({"absent"}, {})
<1>1. i \in Audit!Setting
  BY DEF Audit!Setting, Audit!Line, Audit!Origin, Unset
<1>2. i.live = Audit!FileValue(i) /\ i.origin = Audit!FileOrigin(i)
  BY DEF Unset, Audit!FileValue, Audit!FileOrigin
<1>3. Audit!ImageSetting({"absent"}) = Audit!Loaded(i)
  BY DEF Audit!ImageSetting, Unset
<1> HIDE DEF i
<1> QED BY <1>1, <1>2, <1>3, ClassLoaded DEF i

LEMMA CipherImage ==
  LET i == Ciphers!ImageSetting("absent")
  IN  i = Unset("absent", "other") /\ i \in Ciphers!Setting /\ i = Ciphers!Loaded(i)
<1> DEFINE i == Unset("absent", "other")
<1>1. i \in Ciphers!Setting
  BY DEF Ciphers!Setting, Ciphers!Line, Ciphers!Origin, Unset
<1>2. i.live = Ciphers!FileValue(i) /\ i.origin = Ciphers!FileOrigin(i)
  BY DEF Unset, Ciphers!FileValue, Ciphers!FileOrigin
<1>3. Ciphers!ImageSetting("absent") = Ciphers!Loaded(i)
  BY DEF Ciphers!ImageSetting, Unset
<1> HIDE DEF i
<1> QED BY <1>1, <1>2, <1>3, CipherLoaded DEF i

\* Both configuration files with the source's lines, before any of it is read.
LEMMA ListWritten ==
  ASSUME NEW x \in ListSetting
  PROVE  LET w == Lists!Written(Lists!ImageSetting(NoList), x)
         IN  /\ w \in ListSetting /\ w.shadow = NoList /\ w.conf = x.conf /\ w.auto = x.auto
             /\ w.live = EmptyList /\ w.origin = "default"
<1> DEFINE i == Lists!ImageSetting(NoList)
           s == IF x.conf \in {NoList, i.conf} THEN i.shadow ELSE i.conf
           f == IF x.conf = NoList THEN i.conf ELSE x.conf
<1>1. /\ i \in ListSetting /\ i.shadow = NoList /\ i.conf = NoList /\ i.live = EmptyList
      /\ i.origin = "default"
  BY ListImage DEF Unset
<1>2. s = NoList /\ f = x.conf
  BY <1>1
<1>3. x.conf \in ListLine /\ x.auto \in ListLine /\ NoList \in ListLine
  BY DEF ListSetting, ListLine
<1>4. Lists!Written(i, x) = [i EXCEPT !.shadow = s, !.conf = f, !.auto = x.auto]
  BY DEF Lists!Written
<1> HIDE DEF i, s, f
<1>5. Lists!Written(i, x) = [i EXCEPT !.shadow = NoList, !.conf = x.conf, !.auto = x.auto]
  BY <1>2, <1>4
<1>6. LET w == [i EXCEPT !.shadow = NoList, !.conf = x.conf, !.auto = x.auto]
      IN  /\ w \in ListSetting /\ w.shadow = NoList /\ w.conf = x.conf /\ w.auto = x.auto
          /\ w.live = i.live /\ w.origin = i.origin
  BY <1>1, <1>3 DEF ListSetting
<1> QED BY <1>1, <1>5, <1>6 DEF i

\* Written carries the lines of the source to the image.
LEMMA ClassWritten ==
  ASSUME NEW x \in Audit!Setting
  PROVE  LET w == Audit!Written(Audit!ImageSetting({"absent"}), x)
         IN  /\ w \in Audit!Setting /\ w.shadow = {"absent"} /\ w.conf = x.conf /\ w.auto = x.auto
             /\ w.live = {} /\ w.origin = "default"
<1> DEFINE i == Audit!ImageSetting({"absent"})
           s == IF x.conf \in {{"absent"}, i.conf} THEN i.shadow ELSE i.conf
           f == IF x.conf = {"absent"} THEN i.conf ELSE x.conf
<1>1. /\ i \in Audit!Setting /\ i.shadow = {"absent"} /\ i.conf = {"absent"} /\ i.live = {}
      /\ i.origin = "default"
  BY ClassImage DEF Unset
<1>2. s = {"absent"} /\ f = x.conf
  BY <1>1
<1>3. x.conf \in Audit!Line /\ x.auto \in Audit!Line /\ {"absent"} \in Audit!Line
  BY DEF Audit!Setting, Audit!Line
<1>4. Audit!Written(i, x) = [i EXCEPT !.shadow = s, !.conf = f, !.auto = x.auto]
  BY DEF Audit!Written
<1> HIDE DEF i, s, f
<1>5. Audit!Written(i, x) = [i EXCEPT !.shadow = {"absent"}, !.conf = x.conf, !.auto = x.auto]
  BY <1>2, <1>4
<1>6. LET w == [i EXCEPT !.shadow = {"absent"}, !.conf = x.conf, !.auto = x.auto]
      IN  /\ w \in Audit!Setting /\ w.shadow = {"absent"} /\ w.conf = x.conf /\ w.auto = x.auto
          /\ w.live = i.live /\ w.origin = i.origin
  BY <1>1, <1>3 DEF Audit!Setting
<1> QED BY <1>1, <1>5, <1>6 DEF i

LEMMA CipherWritten ==
  ASSUME NEW x \in Ciphers!Setting
  PROVE  LET w == Ciphers!Written(Ciphers!ImageSetting("absent"), x)
         IN  /\ w \in Ciphers!Setting /\ w.shadow = "absent" /\ w.conf = x.conf /\ w.auto = x.auto
             /\ w.live = "other" /\ w.origin = "default"
<1> DEFINE i == Ciphers!ImageSetting("absent")
           s == IF x.conf \in {"absent", i.conf} THEN i.shadow ELSE i.conf
           f == IF x.conf = "absent" THEN i.conf ELSE x.conf
<1>1. /\ i \in Ciphers!Setting /\ i.shadow = "absent" /\ i.conf = "absent" /\ i.live = "other"
      /\ i.origin = "default"
  BY CipherImage DEF Unset
<1>2. s = "absent" /\ f = x.conf
  BY <1>1
<1>3. x.conf \in Ciphers!Line /\ x.auto \in Ciphers!Line /\ "absent" \in Ciphers!Line
  BY DEF Ciphers!Setting, Ciphers!Line
<1>4. Ciphers!Written(i, x) = [i EXCEPT !.shadow = s, !.conf = f, !.auto = x.auto]
  BY DEF Ciphers!Written
<1> HIDE DEF i, s, f
<1>5. Ciphers!Written(i, x) = [i EXCEPT !.shadow = "absent", !.conf = x.conf, !.auto = x.auto]
  BY <1>2, <1>4
<1>6. LET w == [i EXCEPT !.shadow = "absent", !.conf = x.conf, !.auto = x.auto]
      IN  /\ w \in Ciphers!Setting /\ w.shadow = "absent" /\ w.conf = x.conf /\ w.auto = x.auto
          /\ w.live = i.live /\ w.origin = i.origin
  BY <1>1, <1>3 DEF Ciphers!Setting
<1> QED BY <1>1, <1>5, <1>6 DEF i

\* A reconstructed setting is in force, and the one of the source when that is.
LEMMA ListRebuilt ==
  ASSUME NEW x \in ListSetting, Lists!Reconstructible(x, TRUE)
  PROVE  LET y == Lists!Reconstructed(Lists!ImageSetting(NoList), x, TRUE)
         IN  y \in ListSetting /\ y = Lists!Loaded(y) /\ (x = Lists!Loaded(x) => y = x)
<1> DEFINE w == Lists!Written(Lists!ImageSetting(NoList), x)
           y == Lists!Reconstructed(Lists!ImageSetting(NoList), x, TRUE)
<1>1. /\ w \in ListSetting /\ w.shadow = NoList /\ w.conf = x.conf /\ w.auto = x.auto
      /\ w.live = EmptyList /\ w.origin = "default"
  BY ListWritten
<1>2. y = IF (x.conf # NoList \/ x.auto # NoList) /\ Lists!Activated(w, TRUE).origin # x.origin
          THEN Lists!Loaded(Lists!Activated(w, TRUE)) ELSE Lists!Activated(w, TRUE)
  BY DEF Lists!Reconstructed
<1> HIDE DEF w, y
<1>4. /\ Lists!Activated(w, TRUE) = w \/ Lists!Activated(w, TRUE) = Lists!Loaded(w)
      /\ Lists!Activated(w, TRUE) # Lists!Loaded(w) => Lists!FileValue(w) = w.live
  BY DEF Lists!Activated, Lists!PendingRestart
<1>5. Lists!Loaded(w) \in ListSetting /\ Lists!Loaded(Lists!Loaded(w)) = Lists!Loaded(w)
  BY <1>1, ListActivates
<1>6. y = w \/ y = Lists!Loaded(w)
  BY <1>2, <1>4, <1>5
<1>7. y = w => w = Lists!Loaded(w)
  <2> SUFFICES ASSUME y = w, w # Lists!Loaded(w) PROVE FALSE
    OBVIOUS
  <2>1. Lists!Activated(w, TRUE) = w /\ Lists!FileValue(w) = w.live
    BY <1>2, <1>4, <1>5
  <2>2. CASE x.conf = NoList /\ x.auto = NoList
    <3>1. Lists!FileOrigin(w) = w.origin
      BY <1>1, <2>2 DEF Lists!FileOrigin
    <3> QED BY <1>1, <2>1, <3>1, ListLoaded
  <2>3. CASE ~(x.conf = NoList /\ x.auto = NoList)
    <3>1. x.origin # "default"
      BY <2>3 DEF Lists!Reconstructible
    <3> QED BY <1>1, <1>2, <2>1, <2>3, <3>1
  <2> QED BY <2>2, <2>3
<1>8. y = Lists!Loaded(w)
  BY <1>6, <1>7
<1>9. ASSUME x = Lists!Loaded(x) PROVE y = x
  <2>1. Lists!FileValue(w) = Lists!FileValue(x) /\ Lists!FileOrigin(w) = Lists!FileOrigin(x)
    BY <1>1 DEF Lists!FileValue, Lists!FileOrigin
  <2>2. x.shadow = NoList
    BY DEF Lists!Reconstructible
  <2>3. x.live = Lists!FileValue(x) /\ x.origin = Lists!FileOrigin(x)
    BY <1>9, ListLoaded
  <2>4. /\ y \in ListSetting /\ y.live = Lists!FileValue(w) /\ y.origin = Lists!FileOrigin(w)
        /\ y.auto = w.auto /\ y.conf = w.conf /\ y.shadow = w.shadow
    BY <1>1, <1>8, ListLoaded
  <2> QED BY <1>1, <2>1, <2>2, <2>3, <2>4, ListLoaded
<1> QED BY <1>5, <1>8, <1>9 DEF y

LEMMA ClassRebuilt ==
  ASSUME NEW x \in Audit!Setting, Audit!Reconstructible(x, FALSE)
  PROVE  LET y == Audit!Reconstructed(Audit!ImageSetting({"absent"}), x, FALSE)
         IN  y \in Audit!Setting /\ y = Audit!Loaded(y) /\ (x = Audit!Loaded(x) => y = x)
<1> DEFINE w == Audit!Written(Audit!ImageSetting({"absent"}), x)
           y == Audit!Reconstructed(Audit!ImageSetting({"absent"}), x, FALSE)
<1>1. /\ w \in Audit!Setting /\ w.shadow = {"absent"} /\ w.conf = x.conf /\ w.auto = x.auto
  BY ClassWritten
<1>2. y = Audit!Loaded(w)
  BY DEF Audit!Reconstructed, Audit!Activated
<1> HIDE DEF w, y
<1>3. y \in Audit!Setting /\ y = Audit!Loaded(y)
  <2>1. {} \in SUBSET Classes
    OBVIOUS
  <2> QED BY <1>1, <1>2, <2>1, ClassSetBack
<1>4. ASSUME x = Audit!Loaded(x) PROVE y = x
  <2>1. Audit!FileValue(w) = Audit!FileValue(x) /\ Audit!FileOrigin(w) = Audit!FileOrigin(x)
    BY <1>1 DEF Audit!FileValue, Audit!FileOrigin
  <2>2. x.shadow = {"absent"}
    BY DEF Audit!Reconstructible
  <2>3. x.live = Audit!FileValue(x) /\ x.origin = Audit!FileOrigin(x)
    BY <1>4, ClassLoaded
  <2>4. /\ y.live = Audit!FileValue(w) /\ y.origin = Audit!FileOrigin(w)
        /\ y.auto = w.auto /\ y.conf = w.conf /\ y.shadow = w.shadow
    BY <1>1, <1>2, ClassLoaded
  <2>5. y.shadow = x.shadow /\ y.conf = x.conf /\ y.auto = x.auto /\ y.live = x.live /\ y.origin = x.origin
    BY <1>1, <2>1, <2>2, <2>3, <2>4
  <2> QED BY <1>3, <2>5, ClassLoaded
<1> QED BY <1>3, <1>4 DEF y

LEMMA CipherRebuilt ==
  ASSUME NEW x \in Ciphers!Setting, Ciphers!Reconstructible(x, FALSE)
  PROVE  LET y == Ciphers!Reconstructed(Ciphers!ImageSetting("absent"), x, FALSE)
         IN  y \in Ciphers!Setting /\ y = Ciphers!Loaded(y) /\ (x = Ciphers!Loaded(x) => y = x)
<1> DEFINE w == Ciphers!Written(Ciphers!ImageSetting("absent"), x)
           y == Ciphers!Reconstructed(Ciphers!ImageSetting("absent"), x, FALSE)
<1>1. /\ w \in Ciphers!Setting /\ w.shadow = "absent" /\ w.conf = x.conf /\ w.auto = x.auto
  BY CipherWritten
<1>2. y = Ciphers!Loaded(w)
  BY DEF Ciphers!Reconstructed, Ciphers!Activated
<1> HIDE DEF w, y
<1>3. y \in Ciphers!Setting /\ y = Ciphers!Loaded(y)
  BY <1>1, <1>2, CipherSetBack
<1>4. ASSUME x = Ciphers!Loaded(x) PROVE y = x
  <2>1. Ciphers!FileValue(w) = Ciphers!FileValue(x) /\ Ciphers!FileOrigin(w) = Ciphers!FileOrigin(x)
    BY <1>1 DEF Ciphers!FileValue, Ciphers!FileOrigin
  <2>2. x.shadow = "absent"
    BY DEF Ciphers!Reconstructible
  <2>3. x.live = Ciphers!FileValue(x) /\ x.origin = Ciphers!FileOrigin(x)
    BY <1>4, CipherLoaded
  <2>4. /\ y.live = Ciphers!FileValue(w) /\ y.origin = Ciphers!FileOrigin(w)
        /\ y.auto = w.auto /\ y.conf = w.conf /\ y.shadow = w.shadow
    BY <1>1, <1>2, CipherLoaded
  <2> QED BY <1>1, <1>3, <2>1, <2>2, <2>3, <2>4, CipherLoaded
<1> QED BY <1>3, <1>4 DEF y

\* What the loop makes of the image's server for a plan.
LEMMA StandInIs ==
  ASSUME NEW c \in FixControls, NEW src, HasSettings(src), Plannable(c, src)
  PROVE  LET b == StandInServer(c, src)
             names == ReconstructionNames(c, src)
         IN  /\ HasSettings(b) /\ b.sessions = {} /\ b.hidden = FALSE
             /\ b.preload = Lists!Loaded(b.preload) /\ b.audit = Audit!Loaded(b.audit)
             /\ b.ciphers = Ciphers!Loaded(b.ciphers)
             /\ "preload" \in names /\ src.preload = Lists!Loaded(src.preload) => b.preload = src.preload
             /\ "audit" \in names /\ src.audit = Audit!Loaded(src.audit) => b.audit = src.audit
             /\ "ciphers" \in names /\ src.ciphers = Ciphers!Loaded(src.ciphers) => b.ciphers = src.ciphers
             /\ "audit" \notin names => b.audit = Unset({"absent"}, {})
             /\ "path" \in names => b.path = src.path
             /\ "protocol" \in names => b.protocol = src.protocol
<1> DEFINE b == StandInServer(c, src)
           names == ReconstructionNames(c, src)
           ip == Lists!ImageSetting(NoList)
           ia == Audit!ImageSetting({"absent"})
           ik == Ciphers!ImageSetting("absent")
           p == IF "preload" \in names THEN Lists!Reconstructed(ip, src.preload, TRUE) ELSE ip
           a == IF "audit" \in names THEN Audit!Reconstructed(ia, src.audit, FALSE) ELSE ia
           k == IF "ciphers" \in names THEN Ciphers!Reconstructed(ik, src.ciphers, FALSE) ELSE ik
           d == IF "path" \in names THEN src.path ELSE "$libdir"
           v == IF "protocol" \in names THEN src.protocol ELSE "TLSv1.2"
           r(q, u, l, w, z) == [preload |-> q, audit |-> u, ciphers |-> l, path |-> w, protocol |-> z,
                                sessions |-> ImageServer.sessions, hidden |-> ImageServer.hidden]
<1>1. b = [[[[[ImageServer EXCEPT !.preload = p] EXCEPT !.audit = a] EXCEPT !.ciphers = k] EXCEPT !.path = d]
             EXCEPT !.protocol = v]
  BY DEF StandInServer, ImageServer
<1>2. ImageServer = r(ip, ia, ik, "$libdir", "TLSv1.2") /\ ImageServer.sessions = {} /\ ImageServer.hidden = FALSE
  BY DEF ImageServer
<1>3. /\ p \in ListSetting /\ p = Lists!Loaded(p)
      /\ "preload" \in names /\ src.preload = Lists!Loaded(src.preload) => p = src.preload
  <2>1. "preload" \in names => Lists!Reconstructible(src.preload, TRUE)
    BY DEF Plannable
  <2>2. src.preload \in ListSetting
    BY DEF HasSettings
  <2>3. ip \in ListSetting /\ ip = Lists!Loaded(ip)
    BY ListImage
  <2> HIDE DEF names, ip
  <2>4. ASSUME "preload" \in names
        PROVE  LET y == Lists!Reconstructed(ip, src.preload, TRUE)
               IN y \in ListSetting /\ y = Lists!Loaded(y) /\ (src.preload = Lists!Loaded(src.preload) => y = src.preload)
    BY <2>1, <2>2, <2>4, ListRebuilt DEF ip
  <2> QED BY <2>3, <2>4
<1>4. /\ a \in Audit!Setting /\ a = Audit!Loaded(a)
      /\ "audit" \in names /\ src.audit = Audit!Loaded(src.audit) => a = src.audit
      /\ "audit" \notin names => a = Unset({"absent"}, {})
  <2>1. "audit" \in names => Audit!Reconstructible(src.audit, FALSE)
    BY DEF Plannable
  <2>2. src.audit \in Audit!Setting
    BY DEF HasSettings
  <2>3. ia \in Audit!Setting /\ ia = Audit!Loaded(ia) /\ ia = Unset({"absent"}, {})
    BY ClassImage
  <2> HIDE DEF names, ia
  <2>4. ASSUME "audit" \in names
        PROVE  LET y == Audit!Reconstructed(ia, src.audit, FALSE)
               IN y \in Audit!Setting /\ y = Audit!Loaded(y) /\ (src.audit = Audit!Loaded(src.audit) => y = src.audit)
    BY <2>1, <2>2, <2>4, ClassRebuilt DEF ia
  <2> QED BY <2>3, <2>4
<1>5. /\ k \in Ciphers!Setting /\ k = Ciphers!Loaded(k)
      /\ "ciphers" \in names /\ src.ciphers = Ciphers!Loaded(src.ciphers) => k = src.ciphers
  <2>1. "ciphers" \in names => Ciphers!Reconstructible(src.ciphers, FALSE)
    BY DEF Plannable
  <2>2. src.ciphers \in Ciphers!Setting
    BY DEF HasSettings
  <2>3. ik \in Ciphers!Setting /\ ik = Ciphers!Loaded(ik)
    BY CipherImage
  <2> HIDE DEF names, ik
  <2>4. ASSUME "ciphers" \in names
        PROVE  LET y == Ciphers!Reconstructed(ik, src.ciphers, FALSE)
               IN y \in Ciphers!Setting /\ y = Ciphers!Loaded(y) /\ (src.ciphers = Ciphers!Loaded(src.ciphers) => y = src.ciphers)
    BY <2>1, <2>2, <2>4, CipherRebuilt DEF ik
  <2> QED BY <2>3, <2>4
<1>6. ("path" \in names => d = src.path) /\ ("protocol" \in names => v = src.protocol)
  OBVIOUS
<1> HIDE DEF b, p, a, k, d, v, ip, ia, ik, names
<1>8. b = r(p, a, k, d, v)
  <2>1. [r(ip, ia, ik, "$libdir", "TLSv1.2") EXCEPT !.preload = p] = r(p, ia, ik, "$libdir", "TLSv1.2")
    OBVIOUS
  <2>2. [r(p, ia, ik, "$libdir", "TLSv1.2") EXCEPT !.audit = a] = r(p, a, ik, "$libdir", "TLSv1.2")
    OBVIOUS
  <2>3. [r(p, a, ik, "$libdir", "TLSv1.2") EXCEPT !.ciphers = k] = r(p, a, k, "$libdir", "TLSv1.2")
    OBVIOUS
  <2>4. [r(p, a, k, "$libdir", "TLSv1.2") EXCEPT !.path = d] = r(p, a, k, d, "TLSv1.2")
    OBVIOUS
  <2>5. [r(p, a, k, d, "TLSv1.2") EXCEPT !.protocol = v] = r(p, a, k, d, v)
    OBVIOUS
  <2> HIDE DEF r
  <2>6. [[ImageServer EXCEPT !.preload = p] EXCEPT !.audit = a] = r(p, a, ik, "$libdir", "TLSv1.2")
    BY <1>2, <2>1, <2>2
  <2>7. [[[ImageServer EXCEPT !.preload = p] EXCEPT !.audit = a] EXCEPT !.ciphers = k] = r(p, a, k, "$libdir", "TLSv1.2")
    BY <2>3, <2>6
  <2> QED BY <1>1, <2>4, <2>5, <2>7
<1>9. /\ b.preload = p /\ b.audit = a /\ b.ciphers = k /\ b.path = d /\ b.protocol = v
      /\ b.sessions = {} /\ b.hidden = FALSE
      /\ b = [preload |-> b.preload, audit |-> b.audit, ciphers |-> b.ciphers, path |-> b.path,
              protocol |-> b.protocol, sessions |-> b.sessions, hidden |-> b.hidden]
  BY <1>2, <1>8
<1>10. HasSettings(b)
  BY <1>3, <1>4, <1>5, <1>9 DEF HasSettings
<1> QED BY <1>3, <1>4, <1>5, <1>6, <1>9, <1>10 DEF b, names

\* The settings that a fix is compared on.
SameAudit(t, u) ==
  IF AuditShown(t) THEN t.audit = u.audit
  ELSE t.audit.shadow = u.audit.shadow /\ t.audit.conf = u.audit.conf /\ t.audit.auto = u.audit.auto

\* The settings of each shape that reconstruction and comparison read.
LEMMA NamesAre ==
  ASSUME NEW c, NEW src, NEW policy, NEW changes
  PROVE  /\ CipherFix(c, src, changes) =>
              ReconstructionNames(c, src) = {"ciphers", "protocol"} /\ FixNames(c, src, changes) = {"ciphers", "protocol"}
         /\ ListFix(c, src, changes) =>
              /\ ReconstructionNames(c, src) = {"preload", "path"}
              /\ FixNames(c, src, changes) = {"preload", "path"}
         /\ ClassFix(c, src, policy, changes) =>
              /\ ReconstructionNames(c, src) = {"preload", "audit"}
              /\ FixNames(c, src, changes) = {"preload", "audit"}
         /\ BothFix(c, src, policy, changes) =>
              /\ ReconstructionNames(c, src) = {"preload"}
              /\ FixNames(c, src, changes) = {"preload", "audit"}
<1>1. \A x : {<<x>>[i].param : i \in DOMAIN <<x>>} = {x.param}
  OBVIOUS
<1>2. \A x, y : {<<x, y>>[i].param : i \in DOMAIN <<x, y>>} = {x.param, y.param}
  OBVIOUS
<1>3. \A p, v, u : Change(p, v, u).param = p
  BY DEF Change
<1>4. CipherFix(c, src, changes) =>
        ReconstructionNames(c, src) = {"ciphers", "protocol"} /\ {changes[i].param : i \in DOMAIN changes} = {"ciphers"}
  BY <1>1, <1>3 DEF CipherFix, ReconstructionNames
<1>5. ListFix(c, src, changes) =>
        ReconstructionNames(c, src) = {"preload", "path"} /\ {changes[i].param : i \in DOMAIN changes} = {"preload"}
  BY <1>1, <1>3 DEF ListFix, ReconstructionNames
<1>6. ClassFix(c, src, policy, changes) =>
        ReconstructionNames(c, src) = {"preload", "audit"} /\ {changes[i].param : i \in DOMAIN changes} = {"audit"}
  BY <1>1, <1>3 DEF ClassFix, ReconstructionNames
<1>7. BothFix(c, src, policy, changes) =>
        ReconstructionNames(c, src) = {"preload"} /\ {changes[i].param : i \in DOMAIN changes} = {"preload", "audit"}
  BY <1>2, <1>3 DEF BothFix, ReconstructionNames
<1> QED BY <1>4, <1>5, <1>6, <1>7 DEF FixNames

\* What the comparison of the settings with their sources says.
LEMMA SameSettingsAre ==
  ASSUME NEW c, NEW t, HasSettings(t), NEW u, HasSettings(u)
  PROVE  /\ SameSettings(c, t, u, {"ciphers", "protocol"}) <=> t.ciphers = u.ciphers /\ t.protocol = u.protocol
         /\ SameSettings(c, t, u, {"preload", "path"}) <=> t.preload = u.preload /\ t.path = u.path
         /\ SameSettings(c, t, u, {"preload", "audit"}) <=> t.preload = u.preload /\ SameAudit(t, u)
<1> DEFINE S == CatalogSignature(c, t)
           U == CatalogSignature(c, u)
           blank(x) == [x.audit EXCEPT !.live = {}, !.origin = "default"]
<1>1. /\ S["preload"] = t.preload /\ S["ciphers"] = t.ciphers /\ S["path"] = t.path
      /\ S["protocol"] = t.protocol /\ U["protocol"] = u.protocol
      /\ S["audit"] = IF AuditShown(t) THEN t.audit ELSE blank(t)
      /\ U["preload"] = u.preload /\ U["ciphers"] = u.ciphers /\ U["path"] = u.path
      /\ U["audit"] = IF AuditShown(u) THEN u.audit ELSE blank(u)
  BY DEF CatalogSignature
<1>2. blank(t) = blank(u) <=> /\ t.audit.shadow = u.audit.shadow /\ t.audit.conf = u.audit.conf
                              /\ t.audit.auto = u.audit.auto
  <2> DEFINE x == t.audit
             y == u.audit
  <2>1. x \in Audit!Setting /\ y \in Audit!Setting
    BY DEF HasSettings
  <2> HIDE DEF x, y
  <2>2. [x EXCEPT !.live = {}, !.origin = "default"] = [y EXCEPT !.live = {}, !.origin = "default"]
          <=> x.shadow = y.shadow /\ x.conf = y.conf /\ x.auto = y.auto
    BY <2>1 DEF Audit!Setting
  <2> QED BY <2>2 DEF x, y
<1>3. t.preload = u.preload => AuditShown(t) = AuditShown(u)
  BY DEF AuditShown
<1> HIDE DEF S, U, blank
<1>4. \A names : SameSettings(c, t, u, names) <=> /\ \A n \in names : S[n] = U[n]
                                                  /\ "audit" \in names => AuditShown(t) = AuditShown(u)
  BY DEF SameSettings, S, U
<1>5. SameSettings(c, t, u, {"ciphers", "protocol"}) <=> t.ciphers = u.ciphers /\ t.protocol = u.protocol
  BY <1>1, <1>4
<1>6. SameSettings(c, t, u, {"preload", "path"}) <=> t.preload = u.preload /\ t.path = u.path
  BY <1>1, <1>4
<1>7. SameSettings(c, t, u, {"preload", "audit"}) <=>
        t.preload = u.preload /\ S["audit"] = U["audit"] /\ AuditShown(t) = AuditShown(u)
  BY <1>1, <1>4
<1>8. ASSUME t.preload = u.preload PROVE S["audit"] = U["audit"] <=> SameAudit(t, u)
  BY <1>1, <1>2, <1>3, <1>8 DEF SameAudit
<1> QED BY <1>3, <1>5, <1>6, <1>7, <1>8

\* With the files of the compared settings read, the stand-in is like the source, and
\* the other way round.
LEMMA StandInServerLike ==
  ASSUME NEW c, NEW src, NEW policy, OfferedFor(c, src, policy)
  PROVE  LET b == StandInServer(c, src)
             names == FixNames(c, src, Changes(c, src, policy))
         IN  SameSettings(c, b, src, names) <=> InForce(src, ReconstructionNames(c, src))
<1> DEFINE b == StandInServer(c, src)
           changes == Changes(c, src, policy)
           plan == ReconstructionNames(c, src)
           names == FixNames(c, src, changes)
<1>1. c \in FixControls /\ HasSettings(src) /\ Plannable(c, src)
  BY DEF OfferedFor
<1>2. /\ HasSettings(b)
      /\ b.preload = Lists!Loaded(b.preload) /\ b.audit = Audit!Loaded(b.audit)
      /\ b.ciphers = Ciphers!Loaded(b.ciphers)
      /\ "preload" \in plan /\ src.preload = Lists!Loaded(src.preload) => b.preload = src.preload
      /\ "audit" \in plan /\ src.audit = Audit!Loaded(src.audit) => b.audit = src.audit
      /\ "ciphers" \in plan /\ src.ciphers = Ciphers!Loaded(src.ciphers) => b.ciphers = src.ciphers
      /\ "audit" \notin plan => b.audit = Unset({"absent"}, {})
      /\ "path" \in plan => b.path = src.path
      /\ "protocol" \in plan => b.protocol = src.protocol
  BY <1>1, StandInIs
<1>3. /\ SameSettings(c, b, src, {"ciphers", "protocol"}) <=>
           b.ciphers = src.ciphers /\ b.protocol = src.protocol
      /\ SameSettings(c, b, src, {"preload", "path"}) <=> b.preload = src.preload /\ b.path = src.path
      /\ SameSettings(c, b, src, {"preload", "audit"}) <=> b.preload = src.preload /\ SameAudit(b, src)
  BY <1>1, <1>2, SameSettingsAre
<1>4. /\ CipherFix(c, src, changes) => plan = {"ciphers", "protocol"} /\ names = {"ciphers", "protocol"}
      /\ ListFix(c, src, changes) => plan = {"preload", "path"} /\ names = {"preload", "path"}
      /\ ClassFix(c, src, policy, changes) => plan = {"preload", "audit"} /\ names = {"preload", "audit"}
      /\ BothFix(c, src, policy, changes) => plan = {"preload"} /\ names = {"preload", "audit"}
  BY NamesAre
<1>5. CipherFix(c, src, changes) \/ ListFix(c, src, changes) \/ ClassFix(c, src, policy, changes)
      \/ BothFix(c, src, policy, changes)
  BY ChangesShape
<1>6. b.preload = src.preload => AuditShown(b) = AuditShown(src)
  BY DEF AuditShown
<1>7. ClassFix(c, src, policy, changes) => AuditShown(src)
  BY DEF ClassFix
<1>8. BothFix(c, src, policy, changes) => /\ ~AuditShown(src) /\ src.audit.shadow = {"absent"}
                                          /\ src.audit.conf = {"absent"} /\ src.audit.auto = {"absent"}
  BY DEF BothFix, AuditInFiles
<1>9. Unset({"absent"}, {}).shadow = {"absent"} /\ Unset({"absent"}, {}).conf = {"absent"}
      /\ Unset({"absent"}, {}).auto = {"absent"}
  BY DEF Unset
<1> HIDE DEF b, changes, plan, names
<1> DEFINE listRead == src.preload = Lists!Loaded(src.preload)
           classRead == src.audit = Audit!Loaded(src.audit)
           cipherRead == src.ciphers = Ciphers!Loaded(src.ciphers)
<1>14. InForce(src, plan) <=> /\ "preload" \in plan => listRead
                              /\ "audit" \in plan => classRead
                              /\ "ciphers" \in plan => cipherRead
  BY DEF InForce
<1>15. /\ "preload" \in plan => (listRead <=> b.preload = src.preload)
       /\ "audit" \in plan => (classRead <=> b.audit = src.audit)
       /\ "ciphers" \in plan => (cipherRead <=> b.ciphers = src.ciphers)
  BY <1>2
<1> HIDE DEF listRead, classRead, cipherRead
<1>10. CASE CipherFix(c, src, changes)
  <2>1. plan = {"ciphers", "protocol"} /\ names = {"ciphers", "protocol"} /\ b.protocol = src.protocol
    BY <1>2, <1>4, <1>10
  <2>2. SameSettings(c, b, src, names) <=> b.ciphers = src.ciphers
    BY <1>3, <2>1, Zenon
  <2>3. "preload" \notin plan /\ "audit" \notin plan /\ "ciphers" \in plan
    BY <2>1
  <2> QED BY <1>14, <1>15, <2>2, <2>3, Zenon DEF b, changes, plan, names
<1>11. CASE ListFix(c, src, changes)
  <2>1. plan = {"preload", "path"} /\ names = {"preload", "path"} /\ b.path = src.path
    BY <1>2, <1>4, <1>11
  <2>2. SameSettings(c, b, src, names) <=> b.preload = src.preload
    BY <1>3, <2>1, Zenon
  <2>3. "preload" \in plan /\ "audit" \notin plan /\ "ciphers" \notin plan
    BY <2>1
  <2> QED BY <1>14, <1>15, <2>2, <2>3, Zenon DEF b, changes, plan, names
<1>12. CASE ClassFix(c, src, policy, changes)
  <2>1. plan = {"preload", "audit"} /\ names = {"preload", "audit"}
    BY <1>4, <1>12
  <2>2. b.preload = src.preload => (SameAudit(b, src) <=> b.audit = src.audit)
    BY <1>6, <1>7, <1>12 DEF SameAudit
  <2>3. SameSettings(c, b, src, names) <=> b.preload = src.preload /\ b.audit = src.audit
    BY <1>3, <2>1, <2>2, Zenon
  <2>4. "preload" \in plan /\ "audit" \in plan /\ "ciphers" \notin plan
    BY <2>1
  <2> QED BY <1>14, <1>15, <2>3, <2>4, Zenon DEF b, changes, plan, names
<1>13. CASE BothFix(c, src, policy, changes)
  <2>1. "audit" \notin plan
    BY <1>4, <1>13
  <2>2. b.audit.shadow = {"absent"} /\ b.audit.conf = {"absent"} /\ b.audit.auto = {"absent"}
    BY <1>2, <1>9, <2>1
  <2>3. b.preload = src.preload => SameAudit(b, src)
    BY <1>6, <1>8, <1>13, <2>2 DEF SameAudit
  <2>4. plan = {"preload"} /\ names = {"preload", "audit"}
    BY <1>4, <1>13
  <2>5. SameSettings(c, b, src, names) <=> b.preload = src.preload
    BY <1>3, <2>3, <2>4, Zenon
  <2>6. "preload" \in plan /\ "audit" \notin plan /\ "ciphers" \notin plan
    BY <2>4
  <2> QED BY <1>14, <1>15, <2>5, <2>6, Zenon DEF b, changes, plan, names
<1> QED BY <1>5, <1>10, <1>11, <1>12, <1>13 DEF b, changes, plan, names

\* A server that shows the settings of a source in force is as collected.
LEMMA CollectedAlike ==
  ASSUME NEW c, NEW src, NEW policy, OfferedFor(c, src, policy), InForce(src, ReconstructionNames(c, src)),
         NEW t, HasSettings(t), SameSettings(c, t, src, FixNames(c, src, Changes(c, src, policy)))
  PROVE  AsCollected(t, src, Changes(c, src, policy))
<1> DEFINE changes == Changes(c, src, policy)
<1>1. HasSettings(src)
  BY DEF OfferedFor
<1>2. CipherFix(c, src, changes) \/ ListFix(c, src, changes) \/ ClassFix(c, src, policy, changes)
      \/ BothFix(c, src, policy, changes)
  BY ChangesShape
<1>3. AuditShown(src) /\ t.preload = src.preload => AuditShown(t)
  BY DEF AuditShown
<1> HIDE DEF changes
<1>4. CASE CipherFix(c, src, changes)
  <2>1. FixNames(c, src, changes) = {"ciphers", "protocol"} /\ SameSettings(c, t, src, FixNames(c, src, changes))
    BY <1>4, NamesAre DEF changes
  <2>2. t.ciphers = src.ciphers
    BY <1>1, <2>1, SameSettingsAre
  <2> QED BY <1>4, <2>2, NamesAre, ChangedParams DEF AsCollected, InForce, changes
<1>5. CASE ListFix(c, src, changes)
  <2>1. FixNames(c, src, changes) = {"preload", "path"} /\ SameSettings(c, t, src, FixNames(c, src, changes))
    BY <1>5, NamesAre DEF changes
  <2>2. t.preload = src.preload
    BY <1>1, <2>1, SameSettingsAre
  <2> QED BY <1>5, <2>2, NamesAre, ChangedParams DEF AsCollected, InForce, changes
<1>6. CASE ClassFix(c, src, policy, changes)
  <2>1. t.preload = src.preload /\ SameAudit(t, src)
    BY <1>1, <1>6, NamesAre, SameSettingsAre DEF changes
  <2>2. AuditShown(src) /\ t.audit = src.audit
    BY <1>3, <1>6, <2>1 DEF ClassFix, SameAudit
  <2> QED BY <1>6, <2>2, NamesAre, ChangedParams DEF AsCollected, InForce, changes
<1>7. CASE BothFix(c, src, policy, changes)
  <2>1. t.preload = src.preload /\ SameAudit(t, src)
    BY <1>1, <1>7, NamesAre, SameSettingsAre DEF changes
  <2>2. ~AuditShown(src) /\ ~AuditShown(t) /\ src.audit.auto = {"absent"}
    BY <1>7, <2>1 DEF BothFix, AuditInFiles, AuditShown
  <2>3. t.audit.auto = {"absent"}
    BY <2>1, <2>2 DEF SameAudit
  <2> QED BY <1>7, <2>1, <2>2, <2>3, NamesAre, ChangedParams DEF AsCollected, InForce, changes
<1> QED BY <1>2, <1>4, <1>5, <1>6, <1>7 DEF changes

----------------------------------------------------------------------------
(* A catalog fix on any server with the settings of the source.            *)

\* The new list has the library, and loses no name and no position.
LEMMA NamesAppended ==
  ASSUME NEW x \in ListSetting, NEW library \in {"pgaudit", "passwordcheck"}
  PROVE  LET list == Appended(x.live, library)
         IN  /\ Names(list, library) # {}
             /\ \A other : Names(x.live, other) \subseteq Names(list, other)
             /\ Len(list.items) = Len(x.live.items) + 1 /\ Len(x.live.items) \in Nat
             /\ DOMAIN list.items = 1 .. Len(x.live.items) + 1 /\ DOMAIN x.live.items = 1 .. Len(x.live.items)
             /\ \A i \in DOMAIN x.live.items : list.items[i] = x.live.items[i]
             /\ list.items[Len(x.live.items) + 1] = library
<1> DEFINE list == Appended(x.live, library)
<1>1. x.live.items \in Seq(Item) /\ list.items = Append(x.live.items, library)
  BY DEF ListSetting, ListValue, Appended, List
<1>2. library \in Item
  BY DEF Item, Library, FixControls
<1>3. PICK q \in Seq(Item) : q = x.live.items
  BY <1>1
<1>4. /\ Append(q, library) \in Seq(Item) /\ Len(Append(q, library)) = Len(q) + 1 /\ Len(q) \in Nat
      /\ \A i \in 1 .. Len(q) : Append(q, library)[i] = q[i]
      /\ Append(q, library)[Len(q) + 1] = library
      /\ DOMAIN q = 1 .. Len(q) /\ DOMAIN Append(q, library) = 1 .. Len(q) + 1
  <2> DEFINE S == Item
  <2>1. \A r \in Seq(S), e \in S : /\ Append(r, e) \in Seq(S) /\ Len(Append(r, e)) = Len(r) + 1 /\ Len(r) \in Nat
                                   /\ \A i \in 1 .. Len(r) : Append(r, e)[i] = r[i]
                                   /\ Append(r, e)[Len(r) + 1] = e
    <3> HIDE DEF S
    <3> QED BY AppendProperties, LenProperties
  <2>2. \A r \in Seq(S) : DOMAIN r = 1 .. Len(r)
    <3> HIDE DEF S
    <3> QED BY LenProperties
  <2>3. q \in Seq(S) /\ library \in S
    BY <1>2
  <2> HIDE DEF S
  <2>4. /\ Append(q, library) \in Seq(S) /\ Len(Append(q, library)) = Len(q) + 1 /\ Len(q) \in Nat
        /\ \A i \in 1 .. Len(q) : Append(q, library)[i] = q[i]
        /\ Append(q, library)[Len(q) + 1] = library
    BY <2>1, <2>3
  <2>5. DOMAIN q = 1 .. Len(q) /\ DOMAIN Append(q, library) = 1 .. Len(Append(q, library))
    BY <2>2, <2>3, <2>4
  <2> QED BY <2>4, <2>5 DEF S
<1> HIDE DEF list
<1>5. /\ Len(list.items) = Len(x.live.items) + 1 /\ Len(x.live.items) \in Nat
      /\ DOMAIN list.items = 1 .. Len(x.live.items) + 1 /\ DOMAIN x.live.items = 1 .. Len(x.live.items)
      /\ \A i \in DOMAIN x.live.items : list.items[i] = x.live.items[i]
      /\ list.items[Len(x.live.items) + 1] = library
  BY <1>1, <1>3, <1>4
<1>6. library \in Forms(library)
  BY DEF Forms
<1>7. Len(x.live.items) + 1 \in Names(list, library)
  BY <1>5, <1>6 DEF Names
<1>8. \A other : Names(x.live, other) \subseteq Names(list, other)
  BY <1>5 DEF Names
<1> QED BY <1>5, <1>7, <1>8 DEF list

\* New sessions read the same settings.
LEMMA ReconnectedIs ==
  ASSUME NEW s, HasSettings(s)
  PROVE  LET r == Reconnected(s)
         IN  /\ r.preload = s.preload /\ r.audit = s.audit /\ r.ciphers = s.ciphers /\ r.path = s.path
             /\ r.protocol = s.protocol /\ r.sessions = {} /\ r.hidden = s.hidden
             /\ s.sessions = {} => r = s
<1>1. Reconnected(s) = [preload |-> s.preload, audit |-> s.audit, ciphers |-> s.ciphers, path |-> s.path,
                        protocol |-> s.protocol, sessions |-> {}, hidden |-> s.hidden]
  BY DEF Reconnected, HasSettings
<1> QED BY <1>1 DEF HasSettings

\* A source whose fix the loop can reproduce, and a server with its settings.
OnServer(c, src, policy, t) ==
  /\ OfferedFor(c, src, policy) /\ InForce(src, ReconstructionNames(c, src))
  /\ HasSettings(t) /\ SameSettings(c, t, src, FixNames(c, src, Changes(c, src, policy)))

\* What a matching server is, shape by shape.
LEMMA ShapesMatched ==
  ASSUME NEW c, NEW src, NEW policy, NEW t, OnServer(c, src, policy, t)
  PROVE  LET changes == Changes(c, src, policy)
         IN  /\ HasSettings(src) /\ AsCollected(t, src, changes)
             /\ CipherFix(c, src, changes) =>
                  /\ t.ciphers = src.ciphers /\ src.ciphers = Ciphers!Loaded(src.ciphers)
                  /\ t.protocol = src.protocol
             /\ ListFix(c, src, changes) =>
                  t.preload = src.preload /\ t.path = src.path /\ src.preload = Lists!Loaded(src.preload)
             /\ ClassFix(c, src, policy, changes) =>
                  /\ t.preload = src.preload /\ src.preload = Lists!Loaded(src.preload)
                  /\ t.audit = src.audit /\ src.audit = Audit!Loaded(src.audit)
             /\ BothFix(c, src, policy, changes) =>
                  /\ t.preload = src.preload /\ src.preload = Lists!Loaded(src.preload)
                  /\ t.audit.shadow = {"absent"} /\ t.audit.conf = {"absent"} /\ t.audit.auto = {"absent"}
             /\ \/ CipherFix(c, src, changes) \/ ListFix(c, src, changes)
                \/ ClassFix(c, src, policy, changes) \/ BothFix(c, src, policy, changes)
<1> DEFINE changes == Changes(c, src, policy)
<1>1. /\ OfferedFor(c, src, policy) /\ InForce(src, ReconstructionNames(c, src))
      /\ HasSettings(t) /\ SameSettings(c, t, src, FixNames(c, src, changes)) /\ HasSettings(src)
  BY DEF OnServer, OfferedFor
<1>2. AsCollected(t, src, changes)
  BY <1>1, CollectedAlike
<1>3. /\ CipherFix(c, src, changes) \/ ListFix(c, src, changes)
         \/ ClassFix(c, src, policy, changes) \/ BothFix(c, src, policy, changes)
  BY <1>1, ChangesShape
<1> HIDE DEF changes
<1>4. ASSUME CipherFix(c, src, changes)
      PROVE  /\ t.ciphers = src.ciphers /\ src.ciphers = Ciphers!Loaded(src.ciphers)
             /\ t.protocol = src.protocol
  <2>1. SameSettings(c, t, src, {"ciphers", "protocol"})
    BY <1>1, <1>4, NamesAre
  <2>2. t.protocol = src.protocol
    BY <1>1, <2>1, SameSettingsAre
  <2> QED BY <1>2, <1>4, <2>2, ChangedParams DEF AsCollected
<1>5. ASSUME ListFix(c, src, changes)
      PROVE  t.preload = src.preload /\ t.path = src.path /\ src.preload = Lists!Loaded(src.preload)
  <2>1. SameSettings(c, t, src, {"preload", "path"})
    BY <1>1, <1>5, NamesAre
  <2>2. t.path = src.path
    BY <1>1, <2>1, SameSettingsAre
  <2> QED BY <1>2, <1>5, <2>2, ChangedParams DEF AsCollected
<1>6. ASSUME ClassFix(c, src, policy, changes)
      PROVE  /\ t.preload = src.preload /\ src.preload = Lists!Loaded(src.preload)
             /\ t.audit = src.audit /\ src.audit = Audit!Loaded(src.audit)
  <2>1. SameSettings(c, t, src, {"preload", "audit"}) /\ InForce(src, {"preload", "audit"})
    BY <1>1, <1>6, NamesAre
  <2>2. t.preload = src.preload /\ src.preload = Lists!Loaded(src.preload)
    BY <1>1, <2>1, SameSettingsAre DEF InForce
  <2>3. AuditShown(src)
    BY <1>6 DEF ClassFix
  <2> QED BY <1>2, <1>6, <2>2, <2>3, ChangedParams DEF AsCollected
<1>7. ASSUME BothFix(c, src, policy, changes)
      PROVE  /\ t.preload = src.preload /\ src.preload = Lists!Loaded(src.preload)
             /\ t.audit.shadow = {"absent"} /\ t.audit.conf = {"absent"} /\ t.audit.auto = {"absent"}
  <2>1. SameSettings(c, t, src, {"preload", "audit"}) /\ InForce(src, {"preload"})
    BY <1>1, <1>7, NamesAre
  <2>2. t.preload = src.preload /\ src.preload = Lists!Loaded(src.preload) /\ SameAudit(t, src)
    BY <1>1, <2>1, SameSettingsAre DEF InForce
  <2>3. ~AuditShown(src) /\ ~AuditShown(t)
    BY <1>7, <2>2 DEF BothFix, AuditShown
  <2>4. src.audit.shadow = {"absent"} /\ src.audit.conf = {"absent"} /\ src.audit.auto = {"absent"}
    BY <1>7 DEF BothFix, AuditInFiles
  <2>5. /\ t.audit.shadow = src.audit.shadow /\ t.audit.conf = src.audit.conf /\ t.audit.auto = src.audit.auto
    BY <2>2, <2>3 DEF SameAudit
  <2> QED BY <2>2, <2>4, <2>5
<1> QED BY <1>1, <1>2, <1>3, <1>4, <1>5, <1>6, <1>7 DEF changes

\* What the evaluators need of the source for its fix to be offered.
LEMMA OfferedSays ==
  ASSUME NEW c, NEW src, NEW policy, OfferedFor(c, src, policy), InForce(src, ReconstructionNames(c, src))
  PROVE  LET changes == Changes(c, src, policy)
         IN  /\ CipherFix(c, src, changes) => src.ciphers.live = "other" /\ src.hidden = FALSE
             /\ ListFix(c, src, changes) => src.path = "$libdir" /\ src.preload.live.form # "unparseable"
             /\ ClassFix(c, src, policy, changes) \/ BothFix(c, src, policy, changes) =>
                  src.preload.live.form # "unparseable" /\ Logs(policy.classes, policy)
<1> DEFINE changes == Changes(c, src, policy)
           f == Fixed(src, c, policy, changes)
<1>1. /\ c \in FixControls /\ HasSettings(src) /\ policy.classes \subseteq Classes
      /\ OffersFix(c, src, policy) /\ Plannable(c, src)
  BY DEF OfferedFor
<1>2. SameSettings(c, src, src, FixNames(c, src, changes))
  BY DEF SameSettings
<1>3. OnServer(c, src, policy, src)
  BY <1>1, <1>2 DEF OnServer
<1>4. /\ AsCollected(src, src, changes)
      /\ ClassFix(c, src, policy, changes) \/ BothFix(c, src, policy, changes) => src.preload = Lists!Loaded(src.preload)
  <2> HIDE DEF changes
  <2> QED BY <1>3, ShapesMatched DEF changes
<1>5. CipherFix(c, src, changes) => src.ciphers.live = "other" /\ src.hidden = FALSE
  BY <1>1 DEF CipherFix, OffersFix, CiphersFixable, HasSettings
<1>6. ListFix(c, src, changes) => src.path = "$libdir" /\ src.preload.live.form # "unparseable"
  BY <1>1 DEF ListFix, OffersFix, PreloadFixable
<1>7. ASSUME ClassFix(c, src, policy, changes) \/ BothFix(c, src, policy, changes)
      PROVE  src.preload.live.form # "unparseable" /\ Logs(policy.classes, policy)
  <2>1. c = "3.2" /\ src.preload.live.form # "unparseable"
    BY <1>1, <1>7 DEF ClassFix, BothFix, OffersFix, PreloadFixable
  <2>2. After(src, changes) = f
    BY <1>1, <1>4, <1>7, FixAndBack
  <2>3. Result(c, Reconnected(After(src, changes)), policy) = "PASS"
    BY <1>1 DEF OffersFix, After
  <2>4. HasSettings(f) /\ (Changed(changes, "audit") => f.audit = Set(src.audit, policy.classes))
    <3> HIDE DEF changes
    <3> QED BY <1>1, FixedParts
  <2>5. Changed(changes, "audit")
    BY <1>7, ChangedParams
  <2> HIDE DEF changes, f
  <2>6. Reconnected(f).audit = Set(src.audit, policy.classes)
    BY <2>4, <2>5, ReconnectedIs
  <2>7. Logs(Reconnected(f).audit.live, policy)
    BY <2>1, <2>2, <2>3, AuditVerdict
  <2>8. Set(src.audit, policy.classes).live = policy.classes
    BY <1>1 DEF Set, HasSettings, Audit!Setting
  <2> QED BY <2>1, <2>6, <2>7, <2>8
<1> QED BY <1>5, <1>6, <1>7 DEF changes

\* The parts of the fixed server that its shape changes.
LEMMA FixedShape ==
  ASSUME NEW c, NEW src, NEW policy, NEW t, OnServer(c, src, policy, t)
  PROVE  LET changes == Changes(c, src, policy)
             f == Fixed(t, c, policy, changes)
         IN  /\ HasSettings(f) /\ f.path = t.path /\ f.protocol = t.protocol
             /\ f.sessions = t.sessions /\ f.hidden = t.hidden
             /\ CipherFix(c, src, changes) =>
                  f.preload = t.preload /\ f.audit = Audit!Loaded(t.audit) /\ f.ciphers = Set(t.ciphers, "cis")
             /\ ListFix(c, src, changes) =>
                  /\ f.preload = Set(t.preload, Appended(t.preload.live, "passwordcheck"))
                  /\ f.audit = Audit!Loaded(t.audit) /\ f.ciphers = Ciphers!Loaded(t.ciphers)
             /\ ClassFix(c, src, policy, changes) =>
                  /\ f.preload = t.preload /\ f.audit = Set(t.audit, policy.classes)
                  /\ f.ciphers = Ciphers!Loaded(t.ciphers)
             /\ BothFix(c, src, policy, changes) =>
                  /\ f.preload = Set(t.preload, Appended(t.preload.live, "pgaudit"))
                  /\ f.audit = Set(t.audit, policy.classes)
                  /\ f.ciphers = Ciphers!Loaded(t.ciphers)
<1> DEFINE changes == Changes(c, src, policy)
           f == Fixed(t, c, policy, changes)
<1>1. HasSettings(t) /\ c \in FixControls /\ policy.classes \subseteq Classes
  BY DEF OnServer, OfferedFor
<1>2. /\ HasSettings(f) /\ f.path = t.path /\ f.protocol = t.protocol
      /\ f.sessions = t.sessions /\ f.hidden = t.hidden
      /\ f.preload = IF Changed(changes, "preload")
                     THEN Set(t.preload, Appended(t.preload.live, Library(c))) ELSE t.preload
      /\ f.audit = IF Changed(changes, "audit") THEN Set(t.audit, policy.classes) ELSE Audit!Loaded(t.audit)
      /\ f.ciphers = IF Changed(changes, "ciphers") THEN Set(t.ciphers, "cis") ELSE Ciphers!Loaded(t.ciphers)
  <2> HIDE DEF changes
  <2> QED BY <1>1, FixedParts
<1> HIDE DEF f, changes
<1>3. ASSUME CipherFix(c, src, changes)
      PROVE  f.preload = t.preload /\ f.audit = Audit!Loaded(t.audit) /\ f.ciphers = Set(t.ciphers, "cis")
  BY <1>2, <1>3, ChangedParams
<1>4. ASSUME ListFix(c, src, changes)
      PROVE  /\ f.preload = Set(t.preload, Appended(t.preload.live, "passwordcheck"))
             /\ f.audit = Audit!Loaded(t.audit) /\ f.ciphers = Ciphers!Loaded(t.ciphers)
  <2>1. Library(c) = "passwordcheck"
    BY <1>4 DEF ListFix, Library
  <2> QED BY <1>2, <1>4, <2>1, ChangedParams
<1>5. ASSUME ClassFix(c, src, policy, changes)
      PROVE  /\ f.preload = t.preload /\ f.audit = Set(t.audit, policy.classes)
             /\ f.ciphers = Ciphers!Loaded(t.ciphers)
  BY <1>2, <1>5, ChangedParams
<1>6. ASSUME BothFix(c, src, policy, changes)
      PROVE  /\ f.preload = Set(t.preload, Appended(t.preload.live, "pgaudit"))
             /\ f.audit = Set(t.audit, policy.classes)
             /\ f.ciphers = Ciphers!Loaded(t.ciphers)
  <2>1. Library(c) = "pgaudit"
    BY <1>6 DEF BothFix, Library
  <2> QED BY <1>2, <1>6, <2>1, ChangedParams
<1> QED BY <1>2, <1>3, <1>4, <1>5, <1>6 DEF changes, f

\* A setting that is set shows the value.
LEMMA SetIs ==
  /\ \A x \in ListSetting : \A v : Set(x, v).live = v /\ Set(x, v).auto = v
  /\ \A x \in Audit!Setting : \A v : Set(x, v).live = v /\ Set(x, v).auto = v
  /\ \A x \in Ciphers!Setting : \A v : Set(x, v).live = v /\ Set(x, v).auto = v
  /\ \A x, y \in Audit!Setting : \A v \in SUBSET Classes :
       x.conf = y.conf /\ x.shadow = y.shadow => Set(x, v) = Set(y, v)
<1>1. \A x \in ListSetting : \A v : Set(x, v).live = v /\ Set(x, v).auto = v
  BY DEF Set, ListSetting
<1>2. \A x \in Audit!Setting : \A v : /\ Set(x, v).live = v /\ Set(x, v).auto = v /\ Set(x, v).conf = x.conf
                                      /\ Set(x, v).shadow = x.shadow /\ Set(x, v).origin = "postgresql.auto.conf"
  BY DEF Set, Audit!Setting
<1>3. \A x \in Ciphers!Setting : \A v : Set(x, v).live = v /\ Set(x, v).auto = v
  BY DEF Set, Ciphers!Setting
<1>4. ASSUME NEW x \in Audit!Setting, NEW y \in Audit!Setting, NEW v \in SUBSET Classes,
             x.conf = y.conf, x.shadow = y.shadow
      PROVE  Set(x, v) = Set(y, v)
  <2>1. Set(x, v) \in Audit!Setting /\ Set(y, v) \in Audit!Setting
    BY ClassSetBack
  <2> QED BY <1>2, <1>4, <2>1, ClassLoaded
<1> QED BY <1>1, <1>2, <1>3, <1>4

\* The fix passes its check there, once the sessions are new.
LEMMA FixedPasses ==
  ASSUME NEW c, NEW src, NEW policy, NEW t, OnServer(c, src, policy, t), t.hidden = src.hidden \/ t.hidden = FALSE
  PROVE  Result(c, Reconnected(Fixed(t, c, policy, Changes(c, src, policy))), policy) = "PASS"
<1> DEFINE changes == Changes(c, src, policy)
           f == Fixed(t, c, policy, changes)
           r == Reconnected(f)
<1>1. /\ HasSettings(t) /\ t.preload \in ListSetting /\ t.audit \in Audit!Setting /\ t.ciphers \in Ciphers!Setting
      /\ OfferedFor(c, src, policy) /\ InForce(src, ReconstructionNames(c, src))
  BY DEF OnServer, HasSettings
<1>2. HasSettings(f) /\ f.path = t.path /\ f.hidden = t.hidden
  BY FixedShape
<1>3. /\ r.preload = f.preload /\ r.audit = f.audit /\ r.ciphers = f.ciphers /\ r.path = f.path
      /\ r.sessions = {} /\ r.hidden = f.hidden
  <2> HIDE DEF f
  <2> QED BY <1>2, ReconnectedIs
<1>9. /\ CipherFix(c, src, changes) => src.ciphers.live = "other" /\ src.hidden = FALSE
      /\ ListFix(c, src, changes) => src.path = "$libdir" /\ t.path = src.path
  <2>1. /\ CipherFix(c, src, changes) => src.ciphers.live = "other" /\ src.hidden = FALSE
        /\ ListFix(c, src, changes) => src.path = "$libdir"
    BY <1>1, OfferedSays
  <2>2. ListFix(c, src, changes) => t.path = src.path
    BY ShapesMatched
  <2> HIDE DEF changes
  <2> QED BY <2>1, <2>2
<1>10. /\ CipherFix(c, src, changes) => f.ciphers = Set(t.ciphers, "cis")
       /\ ListFix(c, src, changes) => f.preload = Set(t.preload, Appended(t.preload.live, "passwordcheck"))
  BY FixedShape
<1>11. \A l \in {"pgaudit", "passwordcheck"} :
         Names(Appended(t.preload.live, l), l) # {} /\ Appended(t.preload.live, l).form = "canonical"
  BY <1>1, NamesAppended DEF Appended, List
<1> HIDE DEF f, r, changes
<1>4. CASE CipherFix(c, src, changes)
  <2>1. r.ciphers.live = "cis" /\ r.hidden = FALSE
    BY <1>1, <1>2, <1>3, <1>4, <1>9, <1>10, SetIs
  <2> QED BY <1>3, <1>4, <2>1, CipherVerdict DEF CipherFix, r, f, changes
<1>5. CASE ListFix(c, src, changes)
  <2>1. r.preload = Set(t.preload, Appended(t.preload.live, "passwordcheck"))
    BY <1>3, <1>5, <1>10
  <2>2. r.preload.live = Appended(t.preload.live, "passwordcheck")
    BY <1>1, <2>1, SetIs
  <2>3. r.preload.live.form # "unparseable" /\ Names(r.preload.live, "passwordcheck") # {}
    BY <1>11, <2>2
  <2>4. r.path = "$libdir"
    BY <1>2, <1>3, <1>5, <1>9
  <2> QED BY <1>5, <2>3, <2>4, ListVerdict DEF ListFix, r, f, changes
<1>6. CASE ClassFix(c, src, policy, changes)
  <2>1. r.preload = src.preload /\ r.audit = Set(t.audit, policy.classes)
    BY <1>3, <1>6, FixedShape, ShapesMatched DEF f, changes
  <2>2. r.audit.live = policy.classes
    BY <1>1, <2>1, SetIs
  <2>3. r.preload.live.form # "unparseable" /\ Logs(policy.classes, policy)
    BY <1>1, <1>6, <2>1, OfferedSays DEF changes
  <2>4. c = "3.2" /\ AuditShown(r)
    BY <1>6, <2>1 DEF ClassFix, AuditShown
  <2> QED BY <2>2, <2>3, <2>4, AuditVerdict DEF r, f, changes
<1>7. CASE BothFix(c, src, policy, changes)
  <2>1. r.preload = Set(t.preload, Appended(t.preload.live, "pgaudit")) /\ r.audit = Set(t.audit, policy.classes)
    BY <1>3, <1>7, FixedShape DEF f, changes
  <2>2. r.preload.live = Appended(t.preload.live, "pgaudit") /\ r.audit.live = policy.classes
    BY <1>1, <2>1, SetIs
  <2>3. r.preload.live.form # "unparseable" /\ Names(r.preload.live, "pgaudit") # {}
    BY <1>11, <2>2
  <2>4. c = "3.2" /\ AuditShown(r) /\ Logs(policy.classes, policy)
    BY <1>1, <1>7, <2>3, OfferedSays DEF BothFix, AuditShown, changes
  <2> QED BY <2>2, <2>3, <2>4, AuditVerdict DEF r, f, changes
<1>8. CipherFix(c, src, changes) \/ ListFix(c, src, changes)
      \/ ClassFix(c, src, policy, changes) \/ BothFix(c, src, policy, changes)
  BY ShapesMatched DEF changes
<1> QED BY <1>4, <1>5, <1>6, <1>7, <1>8 DEF r, f, changes

\* Two servers with the settings of the source have those of each other after the fix.
LEMMA FixedAlike ==
  ASSUME NEW c, NEW src, NEW policy, NEW t, OnServer(c, src, policy, t), NEW u, OnServer(c, src, policy, u)
  PROVE  LET changes == Changes(c, src, policy)
         IN  SameSettings(c, Fixed(t, c, policy, changes), Fixed(u, c, policy, changes), FixNames(c, src, changes))
<1> DEFINE changes == Changes(c, src, policy)
           f == Fixed(t, c, policy, changes)
           g == Fixed(u, c, policy, changes)
<1>1. /\ t.audit \in Audit!Setting /\ u.audit \in Audit!Setting /\ policy.classes \in SUBSET Classes
      /\ HasSettings(f) /\ HasSettings(g) /\ f.path = t.path /\ g.path = u.path
      /\ f.protocol = t.protocol /\ g.protocol = u.protocol
  BY FixedShape DEF OnServer, OfferedFor, HasSettings
<1>2. /\ CipherFix(c, src, changes) \/ ListFix(c, src, changes)
         \/ ClassFix(c, src, policy, changes) \/ BothFix(c, src, policy, changes)
  BY ShapesMatched
<1> HIDE DEF changes, f, g
<1>3. CASE CipherFix(c, src, changes)
  <2>1. f.ciphers = g.ciphers /\ f.protocol = g.protocol
    BY <1>1, <1>3, FixedShape, ShapesMatched DEF changes, f, g
  <2>2. SameSettings(c, f, g, {"ciphers", "protocol"})
    BY <1>1, <2>1, SameSettingsAre
  <2> QED BY <1>3, <2>2, NamesAre DEF changes, f, g
<1>4. CASE ListFix(c, src, changes)
  <2>1. f.preload = g.preload /\ f.path = g.path
    BY <1>1, <1>4, FixedShape, ShapesMatched DEF changes, f, g
  <2>2. SameSettings(c, f, g, {"preload", "path"})
    BY <1>1, <2>1, SameSettingsAre
  <2> QED BY <1>4, <2>2, NamesAre DEF changes, f, g
<1>5. CASE ClassFix(c, src, policy, changes) \/ BothFix(c, src, policy, changes)
  <2>1. /\ f.preload = g.preload /\ t.audit.conf = u.audit.conf /\ t.audit.shadow = u.audit.shadow
        /\ f.audit = Set(t.audit, policy.classes) /\ g.audit = Set(u.audit, policy.classes)
    <3>1. CASE ClassFix(c, src, policy, changes)
      BY <3>1, FixedShape, ShapesMatched DEF changes, f, g
    <3>2. CASE BothFix(c, src, policy, changes)
      <4>1. /\ f.preload = Set(t.preload, Appended(t.preload.live, "pgaudit"))
            /\ f.audit = Set(t.audit, policy.classes)
            /\ t.preload = src.preload /\ t.audit.shadow = {"absent"} /\ t.audit.conf = {"absent"}
        BY <3>2, FixedShape, ShapesMatched DEF changes, f
      <4>2. /\ g.preload = Set(u.preload, Appended(u.preload.live, "pgaudit"))
            /\ g.audit = Set(u.audit, policy.classes)
            /\ u.preload = src.preload /\ u.audit.shadow = {"absent"} /\ u.audit.conf = {"absent"}
        BY <3>2, FixedShape, ShapesMatched DEF changes, g
      <4> QED BY <4>1, <4>2
    <3> QED BY <1>5, <3>1, <3>2
  <2>2. f.audit = g.audit
    BY <1>1, <2>1, SetIs
  <2>3. SameSettings(c, f, g, {"preload", "audit"})
    BY <1>1, <2>1, <2>2, SameSettingsAre DEF SameAudit
  <2> QED BY <1>5, <2>3, NamesAre DEF changes, f, g
<1> QED BY <1>2, <1>3, <1>4, <1>5 DEF changes, f, g

\* The fix is seen in a running value: it is neither what was there nor what the
\* rollback makes, and every changed setting runs with the value of its statement.
LEMMA FixedDiffers ==
  ASSUME NEW c, NEW src, NEW policy, NEW t, OnServer(c, src, policy, t)
  PROVE  LET changes == Changes(c, src, policy)
             f == Fixed(t, c, policy, changes)
         IN  /\ f # t /\ f # Read(t)
             /\ \A i \in 1 .. Len(changes) : f[changes[i].param].live = changes[i].apply.value
<1> DEFINE changes == Changes(c, src, policy)
           f == Fixed(t, c, policy, changes)
<1>1. /\ t.preload \in ListSetting /\ t.audit \in Audit!Setting /\ t.ciphers \in Ciphers!Setting
      /\ OfferedFor(c, src, policy) /\ InForce(src, ReconstructionNames(c, src)) /\ src.preload \in ListSetting
  BY DEF OnServer, OfferedFor, HasSettings
<1>2. /\ CipherFix(c, src, changes) \/ ListFix(c, src, changes)
         \/ ClassFix(c, src, policy, changes) \/ BothFix(c, src, policy, changes)
  BY ShapesMatched
<1>3. Read(t).preload = t.preload /\ Read(t).audit = Audit!Loaded(t.audit) /\ Read(t).ciphers = Ciphers!Loaded(t.ciphers)
  BY DEF Read, With
<1>4. \A p, v, u : Change(p, v, u).param = p /\ Change(p, v, u).apply.value = v
  BY DEF Change
<1>5. \A x : Len(<<x>>) = 1 /\ <<x>>[1] = x
  OBVIOUS
<1>6. \A x, y : Len(<<x, y>>) = 2 /\ <<x, y>>[1] = x /\ <<x, y>>[2] = y
  OBVIOUS
<1> HIDE DEF f, changes
<1>7. CASE CipherFix(c, src, changes)
  <2>1. f.ciphers = Set(t.ciphers, "cis") /\ t.ciphers = Ciphers!Loaded(t.ciphers) /\ t.ciphers.live = "other"
    <3>1. f.ciphers = Set(t.ciphers, "cis") /\ t.ciphers = src.ciphers /\ src.ciphers = Ciphers!Loaded(src.ciphers)
      BY <1>7, FixedShape, ShapesMatched DEF changes, f
    <3>2. src.ciphers.live = "other"
      BY <1>1, <1>7, OfferedSays DEF changes
    <3> QED BY <3>1, <3>2
  <2>2. f.ciphers.live = "cis" /\ f.ciphers # t.ciphers
    BY <1>1, <2>1, SetIs
  <2>3. Len(changes) = 1 /\ changes[1].param = "ciphers" /\ changes[1].apply.value = "cis"
    BY <1>4, <1>5, <1>7 DEF CipherFix
  <2> QED BY <1>3, <2>1, <2>2, <2>3 DEF changes, f
<1>8. CASE ListFix(c, src, changes)
  <2> DEFINE list == Appended(src.preload.live, "passwordcheck")
  <2>1. f.preload = Set(t.preload, list) /\ t.preload = src.preload
    BY <1>8, FixedShape, ShapesMatched DEF changes, f
  <2>2. "passwordcheck" \in Item /\ Library("5.6") = "passwordcheck"
    BY DEF Item, Library, FixControls
  <2>3. list # src.preload.live
    <3> HIDE DEF list
    <3> QED BY <1>1, <2>2, AppendedIs DEF list
  <2>4. f.preload.live = list /\ f.preload # t.preload
    <3> HIDE DEF list
    <3> QED BY <1>1, <2>1, <2>3, SetIs
  <2>5. Len(changes) = 1 /\ changes[1].param = "preload" /\ changes[1].apply.value = list
    BY <1>4, <1>5, <1>8 DEF ListFix
  <2> HIDE DEF list
  <2> QED BY <1>3, <2>4, <2>5 DEF changes, f
<1>9. CASE ClassFix(c, src, policy, changes)
  <2>1. /\ f.audit = Set(t.audit, policy.classes) /\ t.audit = Audit!Loaded(t.audit)
        /\ t.audit.live # policy.classes
    BY <1>9, FixedShape, ShapesMatched DEF changes, f, ClassFix
  <2>2. f.audit.live = policy.classes /\ f.audit # t.audit
    BY <1>1, <2>1, SetIs
  <2>3. Len(changes) = 1 /\ changes[1].param = "audit" /\ changes[1].apply.value = policy.classes
    BY <1>4, <1>5, <1>9 DEF ClassFix
  <2> QED BY <1>3, <2>1, <2>2, <2>3 DEF changes, f
<1>10. CASE BothFix(c, src, policy, changes)
  <2> DEFINE list == Appended(src.preload.live, "pgaudit")
  <2>1. /\ f.preload = Set(t.preload, list) /\ t.preload = src.preload
        /\ f.audit = Set(t.audit, policy.classes)
    BY <1>10, FixedShape, ShapesMatched DEF changes, f
  <2>2. "pgaudit" \in Item
    BY DEF Item, Library, FixControls
  <2>3. list # src.preload.live
    <3> HIDE DEF list
    <3> QED BY <1>1, <2>2, AppendedIs DEF list
  <2>4. f.preload.live = list /\ f.preload # t.preload /\ f.audit.live = policy.classes
    <3> HIDE DEF list
    <3> QED BY <1>1, <2>1, <2>3, SetIs
  <2>5. /\ Len(changes) = 2 /\ changes[1].param = "preload" /\ changes[1].apply.value = list
        /\ changes[2].param = "audit" /\ changes[2].apply.value = policy.classes
    BY <1>4, <1>6, <1>10 DEF BothFix
  <2> HIDE DEF list
  <2>6. \A i \in 1 .. Len(changes) : i = 1 \/ i = 2
    BY <2>5
  <2> QED BY <1>3, <2>4, <2>5, <2>6 DEF changes, f
<1> QED BY <1>2, <1>7, <1>8, <1>9, <1>10 DEF changes, f

\* The rehearsal on the stand-in, when it is like the source.
LEMMA RehearsalWorks ==
  ASSUME NEW c, NEW src, NEW policy, OfferedFor(c, src, policy), InForce(src, ReconstructionNames(c, src))
  PROVE  LET b == StandInServer(c, src)
             changes == Changes(c, src, policy)
             f == Fixed(b, c, policy, changes)
         IN  /\ OnServer(c, src, policy, b)
             /\ After(b, changes) = f /\ Back(f, changes) = b
             /\ Result(c, b, policy) = "FAIL" /\ Accepted(c, b, f, changes, policy)
<1> DEFINE b == StandInServer(c, src)
           changes == Changes(c, src, policy)
           f == Fixed(b, c, policy, changes)
<1>1. c \in FixControls /\ HasSettings(src) /\ OffersFix(c, src, policy) /\ Plannable(c, src)
  BY DEF OfferedFor
<1>2. /\ HasSettings(b) /\ b.sessions = {} /\ b.hidden = FALSE /\ b.preload = Lists!Loaded(b.preload)
      /\ b.audit = Audit!Loaded(b.audit) /\ b.ciphers = Ciphers!Loaded(b.ciphers)
  BY <1>1, StandInIs
<1>3. OnServer(c, src, policy, b)
  BY <1>2, StandInServerLike DEF OnServer
<1>4. AsCollected(b, src, changes)
  BY <1>3, ShapesMatched
<1>5. After(b, changes) = f /\ Back(f, changes) = Read(b)
  BY <1>2, <1>4, FixAndBack
<1>6. Read(b) = b
  <2> HIDE DEF b
  <2> QED BY <1>2 DEF Read, HasSettings, With
<1>7. /\ CipherFix(c, src, changes) \/ ListFix(c, src, changes)
         \/ ClassFix(c, src, policy, changes) \/ BothFix(c, src, policy, changes)
      /\ CipherFix(c, src, changes) => b.ciphers = src.ciphers
      /\ ListFix(c, src, changes) => b.preload = src.preload
      /\ ClassFix(c, src, policy, changes) => b.preload = src.preload /\ b.audit = src.audit
      /\ BothFix(c, src, policy, changes) => b.preload = src.preload
  BY <1>3, ShapesMatched
<1>8. /\ CipherFix(c, src, changes) => src.ciphers.live = "other"
      /\ ListFix(c, src, changes) => src.preload.live.form # "unparseable"
      /\ ClassFix(c, src, policy, changes) \/ BothFix(c, src, policy, changes) =>
           src.preload.live.form # "unparseable"
  BY OfferedSays
<1>9. /\ HasSettings(f) /\ f.path = b.path /\ f.sessions = b.sessions
      /\ CipherFix(c, src, changes) => f.preload = b.preload
      /\ ListFix(c, src, changes) =>
           /\ f.preload = Set(b.preload, Appended(b.preload.live, "passwordcheck"))
           /\ f.audit = Audit!Loaded(b.audit)
      /\ ClassFix(c, src, policy, changes) => f.preload = b.preload
      /\ BothFix(c, src, policy, changes) => f.preload = Set(b.preload, Appended(b.preload.live, "pgaudit"))
  BY <1>3, FixedShape
<1>10. Result(c, Reconnected(f), policy) = "PASS"
  BY <1>2, <1>3, FixedPasses
<1>11. b.preload \in ListSetting
  BY <1>2 DEF HasSettings
<1>12. /\ CipherFix(c, src, changes) => ~Changed(changes, "preload") /\ ~Changed(changes, "audit") /\ c = "6.10"
       /\ ListFix(c, src, changes) => ~Changed(changes, "audit") /\ c = "5.6"
       /\ ClassFix(c, src, policy, changes) => c = "3.2" /\ AuditShown(src)
       /\ BothFix(c, src, policy, changes) => c = "3.2" /\ ~AuditShown(src)
  BY ChangedParams DEF CipherFix, ListFix, ClassFix, BothFix
<1>13. ListFix(c, src, changes) => Names(src.preload.live, "passwordcheck") = {}
  BY DEF ListFix
<1>14. OffersFix(c, src, policy) => Result(c, src, policy) = "FAIL"
  BY DEF OffersFix
<1> HIDE DEF b, changes, f
<1>15. Result(c, b, policy) = "FAIL"
  <2>1. CASE CipherFix(c, src, changes)
    BY <1>7, <1>8, <1>12, <2>1, CipherVerdict
  <2>2. CASE ListFix(c, src, changes)
    BY <1>7, <1>8, <1>12, <1>13, <2>2, ListVerdict
  <2>3. CASE ClassFix(c, src, policy, changes)
    <3>1. Result("3.2", b, policy) = Result("3.2", src, policy)
      BY <1>7, <2>3, AuditVerdict
    <3> QED BY <1>1, <1>12, <1>14, <2>3, <3>1
  <2>4. CASE BothFix(c, src, policy, changes)
    <3>1. c = "3.2" /\ ~AuditShown(b) /\ b.preload.live.form # "unparseable"
      BY <1>7, <1>8, <1>12, <2>4 DEF AuditShown
    <3> QED BY <3>1, AuditVerdict
  <2> QED BY <1>7, <2>1, <2>2, <2>3, <2>4
<1>16. Result(c, f, policy) = "PASS"
  <2>1. Reconnected(f) = f
    BY <1>2, <1>9, ReconnectedIs
  <2> QED BY <1>10, <2>1
<1>17. \A l \in {"pgaudit", "passwordcheck"} :
         LET y == Set(b.preload, Appended(b.preload.live, l))
         IN  /\ y.live.form = "canonical" /\ Names(y.live, l) # {}
             /\ \A other : Names(b.preload.live, other) \subseteq Names(y.live, other)
             /\ ~Lists!PendingRestart(y, TRUE)
  <2> SUFFICES ASSUME NEW l \in {"pgaudit", "passwordcheck"}
               PROVE  LET y == Set(b.preload, Appended(b.preload.live, l))
                      IN  /\ y.live.form = "canonical" /\ Names(y.live, l) # {}
                          /\ \A other : Names(b.preload.live, other) \subseteq Names(y.live, other)
                          /\ ~Lists!PendingRestart(y, TRUE)
    OBVIOUS
  <2> DEFINE list == Appended(b.preload.live, l)
             y == Set(b.preload, list)
  <2>1. l \in Item
    BY DEF Item, Library, FixControls
  <2>2. list \in ListValue /\ list # b.preload.live /\ list.form = "canonical"
    BY <1>11, <2>1, AppendedIs
  <2>3. Names(list, l) # {} /\ \A other : Names(b.preload.live, other) \subseteq Names(list, other)
    BY <1>11, NamesAppended
  <2> HIDE DEF list
  <2>4. y.live = list
    BY <1>11, SetIs
  <2>5. ~Lists!PendingRestart(y, TRUE)
    BY <1>11, <2>2, ListSetBack
  <2> QED BY <2>2, <2>3, <2>4, <2>5 DEF list
<1>18. ~Lists!PendingRestart(f.preload, TRUE)
  <2>1. ~Lists!PendingRestart(b.preload, TRUE)
    BY <1>2, <1>11, ListLoaded DEF Lists!PendingRestart
  <2> QED BY <1>7, <1>9, <1>17, <2>1
<1>19. Changed(changes, "audit") => AuditShown(f)
  <2>1. ClassFix(c, src, policy, changes) => AuditShown(f)
    BY <1>7, <1>9, <1>12 DEF AuditShown
  <2>2. BothFix(c, src, policy, changes) => AuditShown(f)
    BY <1>9, <1>17 DEF AuditShown
  <2> QED BY <1>7, <1>12, <2>1, <2>2
<1>20. ~Regressed(c, b, f, policy)
  <2>1. ASSUME ListFix(c, src, changes), Result("3.2", b, policy) = "PASS" PROVE Result("3.2", f, policy) = "PASS"
    <3>1. AuditShown(b) /\ Logs(b.audit.live, policy)
      BY <2>1, AuditVerdict
    <3>2. f.preload.live.form # "unparseable" /\ AuditShown(f) /\ f.audit = b.audit
      BY <1>2, <1>9, <1>17, <2>1, <3>1 DEF AuditShown
    <3> QED BY <3>1, <3>2, AuditVerdict
  <2>2. ASSUME ClassFix(c, src, policy, changes) \/ BothFix(c, src, policy, changes),
               Result("5.6", b, policy) = "PASS"
        PROVE  Result("5.6", f, policy) = "PASS"
    <3>1. /\ b.preload.live.form # "unparseable" /\ Names(b.preload.live, "passwordcheck") # {}
          /\ b.path = "$libdir"
      BY <2>2, ListVerdict
    <3>2. f.preload.live.form # "unparseable" /\ Names(f.preload.live, "passwordcheck") # {}
      BY <1>9, <1>17, <2>2, <3>1
    <3> QED BY <1>9, <3>1, <3>2, ListVerdict
  <2> QED BY <1>7, <1>12, <2>1, <2>2 DEF Regressed
<1>21. Accepted(c, b, f, changes, policy)
  BY <1>16, <1>18, <1>19, <1>20 DEF Accepted
<1> QED BY <1>3, <1>5, <1>6, <1>15, <1>21 DEF b, changes, f

AppendsLibrary(c, src, t, changes, i) ==
  /\ Changed(changes, "preload") /\ Library(c) \in {"pgaudit", "passwordcheck"}
  /\ changes[i].apply = [action |-> "set_config", value |-> Appended(t.preload.live, Library(c))]
  /\ changes[i].undo = PreloadRollback(src)
  /\ Names(src.preload.live, Library(c)) = {} /\ t.preload = src.preload

\* A change of the library list appends the one library to what the server loads.
LEMMA ListChange ==
  ASSUME NEW c, NEW src, NEW policy, NEW t, OnServer(c, src, policy, t),
         NEW changes, changes = Changes(c, src, policy),
         NEW i \in 1 .. Len(changes), changes[i].param = "preload"
  PROVE  AppendsLibrary(c, src, t, changes, i)
<1>1. /\ CipherFix(c, src, changes) \/ ListFix(c, src, changes)
         \/ ClassFix(c, src, policy, changes) \/ BothFix(c, src, policy, changes)
      /\ ListFix(c, src, changes) \/ BothFix(c, src, policy, changes) => t.preload = src.preload
  BY ShapesMatched
<1>2. i \in 1 .. Len(changes) /\ changes[i].param = "preload"
  OBVIOUS
<1>3. \A p, v, u : /\ Change(p, v, u).param = p /\ Change(p, v, u).apply = [action |-> "set_config", value |-> v]
                   /\ Change(p, v, u).undo = u
  BY DEF Change
<1>4. \A x : Len(<<x>>) = 1 /\ <<x>>[1] = x
  OBVIOUS
<1>5. \A x, y : Len(<<x, y>>) = 2 /\ <<x, y>>[1] = x /\ <<x, y>>[2] = y
  OBVIOUS
<1>6. Library("5.6") = "passwordcheck" /\ Library("3.2") = "pgaudit"
  BY DEF Library
<1>7. ~CipherFix(c, src, changes)
  BY <1>2, <1>3, <1>4 DEF CipherFix
<1>8. ~ClassFix(c, src, policy, changes)
  BY <1>2, <1>3, <1>4 DEF ClassFix
<1>9. CASE ListFix(c, src, changes)
  <2>1. i = 1 /\ c = "5.6" /\ Names(src.preload.live, "passwordcheck") = {}
    BY <1>2, <1>4, <1>9 DEF ListFix
  <2>2. changes[1] = Change("preload", Appended(src.preload.live, "passwordcheck"), PreloadRollback(src))
    BY <1>4, <1>9 DEF ListFix
  <2> QED BY <1>1, <1>3, <1>6, <1>9, <2>1, <2>2, ChangedParams DEF AppendsLibrary
<1>10. CASE BothFix(c, src, policy, changes)
  <2>1. i = 1 /\ c = "3.2" /\ Names(src.preload.live, "pgaudit") = {}
    <3>1. Len(changes) = 2 /\ changes[2].param = "audit"
      BY <1>3, <1>5, <1>10 DEF BothFix
    <3> QED BY <1>2, <1>10, <3>1 DEF BothFix, AuditShown
  <2>2. changes[1] = Change("preload", Appended(src.preload.live, "pgaudit"), PreloadRollback(src))
    BY <1>5, <1>10 DEF BothFix
  <2> QED BY <1>1, <1>3, <1>6, <1>10, <2>1, <2>2, ChangedParams DEF AppendsLibrary
<1> QED BY <1>1, <1>7, <1>8, <1>9, <1>10
=============================================================================
