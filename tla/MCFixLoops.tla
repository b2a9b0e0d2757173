----------------------------- MODULE MCFixLoops -----------------------------
(***************************************************************************)
(* Model-checking instance of FixLoops: one server whose accounts, grants  *)
(* and function vary with stock settings, and one with stock accounts      *)
(* whose library list, audit classes, cipher list and sessions vary.       *)
(***************************************************************************)
EXTENDS FixLoops

Role(attrs, login, limit) == [attrs |-> attrs, login |-> login, limit |-> limit]

StockRoles == [r \in {"postgres", "dba", "collector"} |->
  IF r = "collector" THEN Role({}, TRUE, NoLimit) ELSE Role({"SUPERUSER"}, TRUE, NoLimit)]

StockObjects == [role |-> StockRoles, acl |-> {}, definer |-> FALSE, exec |-> {}]

\* One more account, the first superuser under its two jobs.
Accounts ==
  {[StockObjects EXCEPT !.role = [r \in {"postgres", "dba", "collector", "app"} |->
      IF r = "app" THEN Role(attrs, login, limit) ELSE StockRoles[r]]] :
   attrs \in SUBSET Attributes, login \in BOOLEAN, limit \in {NoLimit, 1}}

\* Grants of the owner, and one privilege the grantee passed on or gave to all.
Own == Grant(TableOwner, TableOwner, "INSERT", FALSE)
Grants == {Grant("a", TableOwner, priv, option) : priv \in {"INSERT", "UPDATE"}, option \in BOOLEAN}
            \cup {Grant("b", TableOwner, "INSERT", TRUE), Grant(Public, TableOwner, "UPDATE", FALSE),
                  Grant("b", "a", "UPDATE", FALSE), Grant(Public, "a", "UPDATE", FALSE)}
\* PostgreSQL keeps one entry per grantee, grantor and privilege, and only a
\* grantee with the grant option passes on.
PossibleAcl(acl) ==
  /\ \A g \in acl : g.by = "a" => Grant("a", TableOwner, g.priv, TRUE) \in acl
  /\ \A priv \in {"INSERT", "UPDATE"} :
       ~({Grant("a", TableOwner, priv, option) : option \in BOOLEAN} \subseteq acl)
Tables == {[StockObjects EXCEPT !.acl = acl \cup {Own}] : acl \in {x \in SUBSET Grants : PossibleAcl(x)}}

Executes == {Grant(to, by, "EXECUTE", FALSE) : to \in {Public, "a"}, by \in {TableOwner}}
              \cup {Grant(Public, "a", "EXECUTE", FALSE)}
Functions == {[StockObjects EXCEPT !.definer = d, !.exec = x] : d \in BOOLEAN, x \in SUBSET Executes}

Plain(items) == List(items, "canonical")
PreloadLines == {NoList, Plain(<<"stat">>), Plain(<<"pgaudit">>)}
PreloadAutoLines ==
  PreloadLines \cup {EmptyList, List(<<"stat">>, "loose"), Plain(<<"./other">>),
                     List(<<>>, "unparseable"), Plain(<<"$libdir/pgaudit", "lost">>)}
Server(preload, audit, ciphers, path, protocol, sessions, hidden) ==
  [preload |-> preload, audit |-> audit, ciphers |-> ciphers, path |-> path,
   protocol |-> protocol, sessions |-> sessions, hidden |-> hidden]
\* In force, edited before the server started with its defaults, and once with
\* ALTER SYSTEM SET to the list that runs from postgresql.conf.
Preloads ==
  UNION {LET files == [Lists!ImageSetting(NoList) EXCEPT !.conf = conf, !.auto = auto]
         IN {Lists!Loaded(files), files} : conf \in PreloadLines, auto \in PreloadAutoLines}
    \cup {[Lists!ImageSetting(list) EXCEPT !.auto = list] : list \in PreloadLines \ {NoList}}
    \cup {Lists!ImageSetting(EmptyList)}   \* a line with the built-in default
Audits == {Audit!Loaded([Audit!ImageSetting({"absent"}) EXCEPT !.conf = conf, !.auto = auto]) :
             conf \in {{"absent"}, {"read"}}, auto \in {{"absent"}, {"ddl"}}}
            \cup {[Audit!ImageSetting({"read"}) EXCEPT !.auto = {"ddl"}]}   \* not reloaded
CipherSettings == {Ciphers!Loaded([Ciphers!ImageSetting("absent") EXCEPT !.conf = conf, !.auto = auto]) :
             conf \in {"absent", "other"}, auto \in {"absent", "other", "cis", "empty"}}
            \cup {[Ciphers!ImageSetting("other") EXCEPT !.auto = "cis"]}

StockServer == ImageServer
Libraries == {Server(p, a, StockServer.ciphers, path, "TLSv1.2", {}, FALSE) :
                p \in Preloads, a \in Audits, path \in {"$libdir", "/opt"}}
Sessions == {Server(StockServer.preload, StockServer.audit, c, "$libdir", protocol, sessions, hidden) :
                c \in CipherSettings, protocol \in {"TLSv1.2", "TLSv1.3"},
                sessions \in {{}, {"weak"}}, hidden \in BOOLEAN}

MCSources == {[o |-> o, s |-> StockServer] : o \in Accounts \cup Tables \cup Functions}
               \cup {[o |-> StockObjects, s |-> s] : s \in Libraries \cup Sessions}

Env(collected_by, login_role, approved, limit, classes, installed) ==
  [collected_by |-> collected_by, login_role |-> login_role, approved |-> approved,
   limit |-> limit, classes |-> classes, installed |-> installed,
   others_in_force |-> TRUE, reads_ssl |-> FALSE, handshake |-> TRUE]
\* The collector after SET ROLE, an unusable collector name, no approved profile;
\* an image without passwordcheck; and what else stops a rehearsal.
First == Env({"collector"}, {"dba"}, TRUE, 0, {"ddl"}, {"stat", "pgaudit"})
MCEnvs == {First,
           Env({}, {}, TRUE, 1, {"read", "ddl"}, {"stat", "pgaudit", "passwordcheck"}),
           Env({"collector"}, {}, FALSE, -1, {}, {"stat", "pgaudit", "passwordcheck"}),
           [First EXCEPT !.others_in_force = FALSE],
           [First EXCEPT !.reads_ssl = TRUE, !.handshake = FALSE]}
=============================================================================
