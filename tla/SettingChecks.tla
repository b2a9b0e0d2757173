--------------------------- MODULE SettingChecks ---------------------------
(***************************************************************************)
(* How one setting check is decided: the operators                         *)
(* (spec_engine/operators.py), the order of the decision                   *)
(* (spec_engine/assess.py), the rule for values that come from a role,     *)
(* database or session (spec_engine/sources.py), and the projection and    *)
(* regression rules the sandbox builds on it (sandbox_poc/shared.py).      *)
(*                                                                         *)
(* A SHOW value is the set of its items: one for a plain setting, any      *)
(* number for a list.  The item "?" stands for text that is no list and no *)
(* level; "0x0" for a numeric form that only the operating system can      *)
(* read.  Spelling, quoting and case are left out.                         *)
(***************************************************************************)
EXTENDS Integers, Sequences

\* SERVER_MESSAGE_LEVELS, most verbose first (shortened).
Levels == <<"info", "warning", "error", "panic">>

Position(level) == CHOOSE i \in DOMAIN Levels : {Levels[i]} = level

Answer(b) == IF b THEN "true" ELSE "false"

\* contains_items reads the value as a list first.
ContainsItems(actual, expected) ==
  IF "?" \in actual THEN "error" ELSE Answer(expected \subseteq actual)

\* no_item_in reads the list first, decides on a forbidden item then, and
\* refuses a non-standard numeric form after that.
NoItemIn(actual, expected) ==
  IF "?" \in actual THEN "error"
  ELSE IF expected \cap actual # {} THEN "false"
  ELSE IF "0x0" \in actual THEN "error" ELSE "true"

\* severity; a level that is not on the scale is not comparable.
Severity(op, actual, expected) ==
  IF ~\E i \in DOMAIN Levels : {Levels[i]} = actual THEN "error"
  ELSE Answer(IF op = "at_or_more_verbose" THEN Position(actual) <= Position(expected)
                                          ELSE Position(actual) >= Position(expected))

\* operators.evaluate: "true", "false", or "error" for a value the operator
\* cannot interpret; equals, not_equals and in just compare texts.
Apply(check, actual, expected) ==
  CASE check.op = "equals"         -> Answer(actual = expected)
    [] check.op = "not_equals"     -> Answer(actual # expected)
    [] check.op = "in"             -> Answer(actual \subseteq expected)
    [] check.op = "contains_items" -> ContainsItems(actual, expected)
    [] check.op = "no_item_in"     -> NoItemIn(actual, expected)
    [] OTHER                       -> Severity(check.op, actual, expected)
----------------------------------------------------------------------------
(* A snapshot carries, per check, an entry: the state of the collected      *)
(* result and its value; a condition has an entry of its own.  Per setting  *)
(* it carries the source of the value.                                      *)

EntryStates == {"ok", "no_entry", "stale", "not_collected", "error", "non_string", "redacted"}

\* _entry_problem.
Problem(state) ==
  CASE state \in {"no_entry", "not_collected", "redacted"} -> "NOT_COLLECTED"
    [] state = "stale" -> "STALE"
    [] state \in {"error", "non_string"} -> "ERROR"

\* Mutant: the condition is read from the entry of the check itself.
ConditionFromCheck(c) == <<c, "check">>

ConditionKey(c) == <<c, "applies_when">>
CheckKey(c) == <<c, "check">>

\* policy_entry: the approved values of a parameterised control, or none.
PolicyEntry(c, profile) ==
  IF profile.approved /\ c \in DOMAIN profile.values THEN {profile.values[c]} ELSE {}

\* _decide: every evidence problem is decided before the condition, the
\* condition before the value; a missing policy before everything.
Decide(specs, c, snap, profile) ==
  LET spec     == specs[c]
      entry    == snap.entry[CheckKey(c)]
      when     == spec.when
      cond     == IF when # {} THEN snap.entry[ConditionKey(c)] ELSE "ok"
      policy   == PolicyEntry(c, profile)
      expected == IF spec.tier = "parameterised" THEN (CHOOSE e \in policy : TRUE).expected
                  ELSE spec.expected
  IN
  IF spec.tier = "manual" THEN "MANUAL"
  ELSE IF spec.tier = "parameterised" /\ policy = {} THEN "MANUAL"
  ELSE IF entry # "ok" THEN Problem(entry)
  ELSE IF spec.setting \in snap.session THEN "NOT_COLLECTED"
  ELSE IF cond # "ok" THEN Problem(cond)
  ELSE IF \E w \in when : w.setting \in snap.session THEN "NOT_COLLECTED"
  ELSE IF \E w \in when : Apply(w, snap.value[ConditionKey(c)], w.expected) = "error" THEN "ERROR"
  ELSE IF \E w \in when : Apply(w, snap.value[ConditionKey(c)], w.expected) = "false" THEN "NOT_APPLICABLE"
  ELSE CASE Apply(spec, snap.value[CheckKey(c)], expected) = "error" -> "ERROR"
         [] Apply(spec, snap.value[CheckKey(c)], expected) = "true"  -> "PASS"
         [] Apply(spec, snap.value[CheckKey(c)], expected) = "false" -> "FAIL"

\* manifest_from_specs: the checks the collector is asked for.
ManifestKeys(specs) ==
  {CheckKey(c) : c \in {d \in DOMAIN specs : specs[d].tier # "manual"}}
    \cup {ConditionKey(c) : c \in {d \in DOMAIN specs : specs[d].when # {}}}
----------------------------------------------------------------------------
(* SpecEngine of the sandbox.                                               *)

\* assess: a snapshot whose checks are not exactly the pinned ones, or whose
\* collector, manifest, hashes or major version differ, is refused as a whole.
Accepted(specs, snap) ==
  /\ snap.provenance
  /\ \A k \in ManifestKeys(specs) : snap.entry[k] \notin {"no_entry", "stale"}

UiStatus(result) ==
  CASE result \in {"PASS", "FAIL", "NOT_APPLICABLE"} -> result
    [] result = "MANUAL" -> "MANUAL_REVIEW"
    [] OTHER -> "GAPPED"

Findings(specs, snap, profile) ==
  [c \in DOMAIN specs |-> UiStatus(Decide(specs, c, snap, profile))]

\* Mutant: only a control that passed can get worse.
OnlyPassRegresses(before, after) == before = "PASS" /\ after # "PASS"

\* is_regression: PASS must stay PASS; NOT_APPLICABLE may only become PASS.
IsRegression(before, after) ==
  \/ before = "PASS" /\ after # "PASS"
  \/ before = "NOT_APPLICABLE" /\ after \notin {"NOT_APPLICABLE", "PASS"}

GappedSettings(findings) == {c \in DOMAIN findings : findings[c] = "GAPPED"}

\* blocking_gaps: gaps of sections that only catalog checks read do not block.
BlockingGaps(snap) == snap.gaps \ {"functions", "archiving", "connections.tls"}
=============================================================================
