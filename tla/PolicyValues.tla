---------------------------- MODULE PolicyValues ----------------------------
(***************************************************************************)
(* The values a person writes into a policy profile and the fixes DBGuard  *)
(* derives from them: reading a profile (spec_engine/policy.py), the       *)
(* reviewed value rules (setting_values.py), the proof that a fix passes   *)
(* and a break fails its control (spec_engine/validate.py), and the fix    *)
(* value of a control (sandbox_poc/planning.py: fix_scope).                *)
(*                                                                         *)
(* A document is [by, at, values, fixes, limit, classes]: values and fixes *)
(* are functions from controls, 0 <= limit and the pgaudit classes may be  *)
(* absent.  A value is the set of its items, {} the empty text; "?" stands *)
(* for text no list parser reads and "';--" for a forbidden fragment.      *)
(***************************************************************************)
EXTENDS SettingChecks

CONSTANTS Recommended   \* the pgaudit classes a policy may name

NoLimitSet == -1
NoClasses == {"absent"}

\* Names a profile or the UI accepts for an approval; "agent" is one of the
\* words that mark an automated identity.
ApproverOk(name) == name \notin {"", "agent"}

ConnectionLimitOk(limit) == limit = NoLimitSet \/ limit >= 0

\* parse_profile: the approval fields agree, entries are complete, a control
\* takes its fix from values or from fixes.
Parses(doc) ==
  /\ doc.by # "nobody" => ApproverOk(doc.by)
  /\ doc.at <=> doc.by # "nobody"
  /\ \A c \in DOMAIN doc.values : doc.values[c].fix # {} /\ doc.values[c].break # {}
  /\ \A c \in DOMAIN doc.fixes : doc.fixes[c] # {} /\ c \notin DOMAIN doc.values
  /\ ConnectionLimitOk(doc.limit)
  /\ doc.classes # NoClasses => doc.classes # {} /\ doc.classes \subseteq Recommended

Profile(doc) ==
  [approved |-> doc.by # "nobody", values |-> doc.values, fixes |-> doc.fixes,
   classes |-> IF doc.classes = NoClasses THEN {} ELSE doc.classes]
----------------------------------------------------------------------------
(* The reviewed value rules.                                                *)

Forbidden == {"';--"}
AllInterfaces == {"*", "0.0.0.0"}

\* Every label of a host name starts with a letter.
HostNames == {"db.site"}
StrictAddresses == {"10.0.0.5", "127.0.0.1"}

\* listen_addresses_error: localhost is listed, no item listens everywhere, and
\* every other item is a specific address or a host name; "0x0", "::" and
\* "1host" are neither.
ListenOk(value) ==
  /\ "?" \notin value
  /\ value \cap AllInterfaces = {}
  /\ "localhost" \in value
  /\ value \ {"localhost"} \subseteq StrictAddresses \cup HostNames

\* SETTING_ALLOWED_VALUES and SETTING_VALUE_RULES of the settings used here.
AllowedValues ==
  [level |-> {{Levels[i]} : i \in DOMAIN Levels}, facility |-> {{"local0"}, {"local1"}}]

Spelled(setting, value) ==
  IF setting \in DOMAIN AllowedValues THEN value \in AllowedValues[setting] ELSE "?" \notin value

\* check_setting_value.
SettingValueOk(setting, value) ==
  /\ value # {} /\ value \cap Forbidden = {}
  /\ setting = "addresses" => ListenOk(value)
  /\ Spelled(setting, value)
----------------------------------------------------------------------------
(* A profile against the specs it is used with.                             *)

\* expected_errors: a level of the scale, or a list that is not empty.
ExpectedOk(check, expected) ==
  IF check.op \in {"at_or_more_verbose", "at_or_less_verbose"}
  THEN \E i \in DOMAIN Levels : expected = {Levels[i]}
  ELSE expected # {}

\* proof_value_errors: a value that cannot be evaluated proves nothing.
ProofOk(check, phase, value, expected) ==
  Apply(check, value, expected) = IF phase = "fix" THEN "true" ELSE "false"

UsesPolicy(spec) == spec.tier = "parameterised"

\* profile_value_errors, for the controls that are installed.
ValuesFit(profile, specs) ==
  /\ \A c \in DOMAIN profile.values \cap DOMAIN specs :
       LET spec == specs[c]  entry == profile.values[c] IN
       /\ UsesPolicy(spec)
       /\ ExpectedOk(spec, entry.expected)
       /\ \A phase \in {"fix", "break"} :
            /\ ProofOk(spec, phase, entry[phase], entry.expected)
            /\ SettingValueOk(spec.setting, entry[phase])
  /\ \A c \in DOMAIN profile.fixes \cap DOMAIN specs :
       LET spec == specs[c] IN
       /\ spec.tier = "automated"
       /\ SettingValueOk(spec.setting, profile.fixes[c])
       /\ ProofOk(spec, "fix", profile.fixes[c], spec.expected)
----------------------------------------------------------------------------
(* The fix of a control.                                                    *)

\* site_fix.
SiteFix(c, profile) ==
  IF profile.approved /\ c \in DOMAIN profile.fixes THEN {profile.fixes[c]} ELSE {}

\* POLICIES: a reviewed literal, or the value comes from the approved profile.
FromProfile == {"<from approved policy profile>"}
Policies ==
  [level |-> {"warning"}, addresses |-> FromProfile, age |-> FromProfile,
   destination |-> FromProfile, facility |-> FromProfile]

\* The value a fix would set, and what it is judged by.
Candidates(specs, c, profile) ==
  LET spec == specs[c]  policy == Policies[spec.setting] IN
  IF UsesPolicy(spec)
  THEN IF policy = FromProfile
       THEN {[value |-> e.fix, expected |-> e.expected] : e \in PolicyEntry(c, profile)} ELSE {}
  ELSE {[value |-> v, expected |-> spec.expected] :
          v \in IF policy = FromProfile THEN SiteFix(c, profile) ELSE {policy}}

\* fix_scope: one value or none (every refusal is "no fix").
FixScope(specs, c, profile) ==
  IF specs[c].tier = "manual" THEN {}
  ELSE {k.value : k \in {x \in Candidates(specs, c, profile) :
                           /\ SettingValueOk(specs[c].setting, x.value)
                           /\ Apply(specs[c], x.value, x.expected) = "true"}}
=============================================================================
