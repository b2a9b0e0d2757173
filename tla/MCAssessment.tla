---------------------------- MODULE MCAssessment ----------------------------
(***************************************************************************)
(* Assessment on one cluster: every topic is assessed from one snapshot;   *)
(* the topics with a recorded run, a setting control and the pgaudit       *)
(* check, from a second one as well.  Profile documents differ from a      *)
(* good one in one field.                                                  *)
(***************************************************************************)
EXTENDS Assessment, TLC

MCTopics == {"logging", "listening", "5.5", "7.4", "3.2", "5.6", "6.8", "6.10",
             "4.5", "4.8", "4.10", "6.11"} \cup ReviewChecks
MCRunTopics == {"logging", "3.2"}

Entry(expected, fix, break) == [expected |-> expected, fix |-> fix, break |-> break]
Nothing == [c \in {} |-> {}]

Base == [by |-> "reviewer", at |-> TRUE, values |-> Nothing, fixes |-> Nothing,
         limit |-> 0, classes |-> {"ddl"}]

Approvals(doc) ==
  {[doc EXCEPT !.by = by, !.at = at] : by \in {"reviewer", "nobody", "agent", ""}, at \in BOOLEAN}

\* The rotation age of 3.1.8 and the site values of 5.2 and 3.1.14.
Ages == {Entry(expected, fix, break) : expected \in {{}, {"1d"}, {"1d", "9d"}},
                                       fix \in {{}, {"1d"}, {"9d"}}, break \in {{"9d"}, {"1d"}, {"?"}, {"30d"}}}
Addresses == {{}, {"localhost"}, {"10.0.0.5"}, {"?"}, {"localhost", "';--"}} \cup
             {{"localhost", a} : a \in {"10.0.0.5", "db.site", "*", "0.0.0.0", "0x0", "::", "1host"}}

Listening == [Base EXCEPT !.values = "3.1.8" :> Entry({"1d"}, {"1d"}, {"9d"}),
                          !.fixes = "5.2" :> {"localhost"}]
ListeningDocuments ==
  Approvals(Listening)
    \cup {[Listening EXCEPT !.values = Nothing]}
    \cup {[Listening EXCEPT !.values = "3.1.8" :> e] : e \in Ages}
    \cup {[Listening EXCEPT !.values = "5.2" :> Entry({"*"}, {"localhost"}, {"*"}), !.fixes = Nothing]}
    \cup {[Listening EXCEPT !.fixes = "5.2" :> a] : a \in Addresses}
    \cup {[Listening EXCEPT !.fixes = "3.1.14" :> l] : l \in {{"info"}, {"error"}, {"loud"}}}
    \cup {[Listening EXCEPT !.fixes = "3.1.8" :> {"1d"}], [Listening EXCEPT !.limit = -2]}

Logging == [Base EXCEPT !.fixes = "3.1.2" :> {"csvlog"}]

MCDocuments ==
  [t \in MCTopics |->
     CASE t = "listening" -> ListeningDocuments
       [] t = "logging"   -> {Logging, Base}
       [] t = "3.2"       -> Approvals(Base) \cup {[Base EXCEPT !.classes = c] : c \in {{}, {"read"}, {"all"}}}
       [] OTHER           -> {Base}]

MCRecommended == Classes
=============================================================================
