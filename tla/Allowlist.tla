------------------------------ MODULE Allowlist ------------------------------
(***************************************************************************)
(* The operator's allowlist (src/src/allowlist.rs): which files load, and  *)
(* which findings a loaded file suppresses.  A key a record omits is Unset *)
(* and an empty predicate is <<>>.  A field path is a sequence of steps,   *)
(* so that a scope admits a path exactly when it is a prefix of it.  A     *)
(* digest is represented by the value it is the digest of.                 *)
(***************************************************************************)
EXTENDS ScannedText

CONSTANTS
    Unset,          \* a key the record does not have
    Blank,          \* a key the record has with nothing in it
    ProjectOf(_)    \* project key of an issue

-----------------------------------------------------------------------------
(* Loading is strict: one useless record refuses the file.                 *)

Predicates == {"value", "sha256", "pattern", "ruleId", "issueKey", "projectKey"}
Keys == Predicates \cup {"field"}

\* It has a predicate, no key of it is blank, the pattern compiles and the
\* digest is one.
RecordUsable(record) ==
    /\ \A key \in Keys : record[key] # Blank
    /\ \E key \in Predicates : record[key] # Unset
    /\ record.pattern # Unset => record.pattern.compiles
    /\ record.sha256 # Unset => record.sha256.isDigest

Loads(records) == \A i \in 1..Len(records) : RecordUsable(records[i])

-----------------------------------------------------------------------------
(* Matching: the scope narrows the whole record, and any predicate that    *)
(* matches suppresses.                                                     *)

ScopeAdmits(record, path) ==
    \/ record.field = Unset
    \/ /\ Len(record.field) <= Len(path)
       /\ \A i \in 1..Len(record.field) : path[i] = record.field[i]

\* A pattern is searched in the value; a value longer than its budget exhausts
\* the backtracking limit, and the pattern then does not match.
PatternMatches(pattern, value) ==
    /\ Len(value) <= pattern.budget
    /\ Includes(value, pattern.word)

NamesValue(record, value) ==
    \/ record.value = value
    \/ record.sha256 # Unset /\ record.sha256.of = value
    \/ record.pattern # Unset /\ PatternMatches(record.pattern, value)

NamesPlace(record, rule, issue) ==
    \/ record.ruleId = rule
    \/ record.issueKey = issue
    \/ record.projectKey = ProjectOf(issue)

\* Mutant: the scope narrows the predicates on the value only.
EntryMatchesAnyField(record, value, rule, issue, path) ==
    \/ ScopeAdmits(record, path) /\ NamesValue(record, value)
    \/ NamesPlace(record, rule, issue)
EntryMatches(record, value, rule, issue, path) ==
    /\ ScopeAdmits(record, path)
    /\ NamesValue(record, value) \/ NamesPlace(record, rule, issue)

\* AllowlistFilter::check
Allowlisted(records, value, rule, issue, path) ==
    \E i \in 1..Len(records) : EntryMatches(records[i], value, rule, issue, path)
=============================================================================
