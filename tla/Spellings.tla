------------------------------- MODULE Spellings -------------------------------
(***************************************************************************)
(* The texts a CR's parameters are made of, as far as the controllers tell *)
(* them apart: a GUID and a number can be spelled in more than one way,    *)
(* Azure DevOps answers with one of them, and some comparisons are of the  *)
(* texts and others of what they stand for.                                *)
(***************************************************************************)
EXTENDS Integers

CONSTANTS
  Guids,     \* ids of projects, repositories and service endpoints
  Numbers,   \* ids of variable groups, and numbers of reviewers
  Texts,     \* names, paths and values
  None       \* a nil pointer, a missing object

Empty == ""

ASSUME SpellingsAssumption ==
  /\ Numbers \subseteq Nat \ {0}
  /\ Empty \notin Texts
  /\ None \notin Texts \cup {Empty}

\* uuid.Parse takes all of these, uuid.String returns the canonical one.
GuidForms == {"canonical", "upper", "braced"}
GuidTexts == [guid : Guids, form : GuidForms]
\* Those of 36 characters, which is what some of the CRDs ask for.
GuidTexts36 == {t \in GuidTexts : t.form # "braced"}

ParseUUID(t) == t.guid
GuidString(g) == [guid |-> g, form |-> "canonical"]

\* strings.EqualFold of a GUID's canonical text with t.
EqualFold(g, t) == t.guid = g /\ t.form # "braced"

\* "1", "01", and a text strconv.Atoi refuses.
NumberTexts == [value : Numbers, form : {"plain", "padded"}] \cup {[value |-> 0, form |-> "word"]}

IsNumber(t) == t.form # "word"
Atoi(t) == t.value
Itoa(n) == [value |-> n, form |-> "plain"]

\* The records that differ from r in one field, which has one of its values.
Changed(r, values) == UNION {{[r EXCEPT ![f] = v] : v \in values[f]} : f \in DOMAIN values}

\* r is a record with the fields of values, each of which has one of its values.
IsRecord(r, values) ==
  /\ r = [f \in DOMAIN values |-> r[f]]
  /\ \A f \in DOMAIN values : r[f] \in values[f]
================================================================================
