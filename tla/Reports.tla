-------------------------------- MODULE Reports --------------------------------
(***************************************************************************)
(* The report formats (src/src/report): which of them --format selects and *)
(* in which order they are written, the directory they go to, and what the *)
(* document of each tells its reader.                                      *)
(*                                                                         *)
(* A document is what can be learned from it: what it claims of the run,   *)
(* which findings it shows as leaks and which as settled.  Layout, escaping *)
(* and the columns that only repeat a finding are left out.                *)
(***************************************************************************)
EXTENDS Naturals, Sequences, FiniteSets

CONSTANTS Unset,     \* an option that was not given
          Kept       \* function: a token of the query -> its leading characters
                     \* that may stand in a path, "" for none

-----------------------------------------------------------------------------
(* The formats.                                                            *)

Catalogue == <<"json", "ndjson", "csv", "sarif", "summary", "defectdojo">>
FormatNames == {Catalogue[k] : k \in DOMAIN Catalogue}

\* parse_formats: `--format` is a list of names, none of them unknown or empty.
Accepted(spec) ==
    spec # <<>> /\ \A k \in DOMAIN spec : spec[k] \in FormatNames \cup {"all"}

\* resolve_formats: what the list selects, each once.
Selected(spec) ==
    {f \in FormatNames : \E k \in DOMAIN spec : spec[k] \in {f, "all"}}

\* Formats come in the order in which the list mentions them; `all` mentions
\* those that are left in the order of the catalogue.
Mention(spec, f) ==
    CHOOSE k \in DOMAIN spec :
        /\ spec[k] \in {f, "all"}
        /\ \A j \in 1..(k - 1) : spec[j] \notin {f, "all"}
Place(f) == CHOOSE k \in DOMAIN Catalogue : Catalogue[k] = f
Before(spec, f, g) ==
    \/ Mention(spec, f) < Mention(spec, g)
    \/ Mention(spec, f) = Mention(spec, g) /\ Place(f) < Place(g)

\* The next format of the list after those already written.
IsNext(spec, written, f) ==
    /\ f \in Selected(spec) \ written
    /\ \A g \in Selected(spec) \ written : g = f \/ Before(spec, f, g)

-----------------------------------------------------------------------------
(* The directory.                                                          *)

\* project_segment: the one project the query names.  A query is the operator
\* after the word `project` ("other" if there is none) and the tokens after it.
ProjectSegment(jql) ==
    IF jql = Unset \/ jql.operator = "other"
    THEN "_default"
    ELSE LET named == {k \in DOMAIN jql.tokens :
                          /\ Kept[jql.tokens[k]] # ""
                          /\ jql.operator = "equals" => k = 1}
         IN CASE named = {} -> "_default"
              [] Cardinality(named) = 1 -> Kept[jql.tokens[CHOOSE k \in named : TRUE]]
              [] OTHER -> "_multi"

\* secure_join: a segment that is not a plain name is refused.
Segments == {"_default", "_multi"} \cup ({Kept[t] : t \in DOMAIN Kept} \ {""})
Confined(layout, jql) == layout = "nested" => ProjectSegment(jql) \in Segments

-----------------------------------------------------------------------------
(* The documents.                                                          *)

Statuses == {"new", "recurring", "closed", "confirmed", "false_positive", "resolved"}
Severities == {"critical", "high", "medium", "low", "info"}

\* What a label tells: the finding is a leak still, or it is settled.
Settled(f) == f.status \in {"closed", "resolved", "false_positive"}

\* Formats that carry the label of each finding.
Labelled(claim, findings) ==
    [claim |-> claim,
     leaks |-> {f \in findings : ~Settled(f)},
     settled |-> {f \in findings : Settled(f)}]

Json(run, findings) == Labelled(run, findings)
\* One line per finding, nothing of the run.
Ndjson(findings) == Labelled("none", findings)
Csv(findings) == Labelled("none", findings)
\* The status of the run, its counters, and the details of every finding.
Summary(run, findings) == Labelled(run, findings)

\* Mutant: every run that wrote a report calls itself successful.
ExecutionSuccessfulAlways(run) == TRUE
\* SARIF says of a run whether it was successful, and how much it saw if not.
ExecutionSuccessful(run) == run = "Success"

SarifLevel(severity) ==
    CASE severity \in {"critical", "high"} -> "error"
      [] severity = "medium" -> "warning"
      [] severity \in {"low", "info"} -> "note"

MostSevere(levels) ==
    IF "error" \in levels THEN "error"
    ELSE IF "warning" \in levels THEN "warning" ELSE "note"

\* collect_rules: an entry for every rule a result refers to, with the most severe
\* of the levels of its results.
SarifRules(findings) ==
    {[id |-> r,
      level |-> MostSevere({SarifLevel(f.severity) : f \in {g \in findings : g.rule = r}})] :
        r \in {f.rule : f \in findings}}

\* sarif_tags: a result carries the label of its finding.
Sarif(run, findings) ==
    Labelled(IF ExecutionSuccessful(run) THEN "Success" ELSE "Partial", findings)

\* Mutant: a finding that was closed is imported as one to be worked on.
ActiveAlthoughClosed(f) == f.status \notin {"resolved", "false_positive"}
\* map_finding: DefectDojo is not given the label but what follows from it.
Active(f) == f.status \notin {"closed", "resolved", "false_positive"}
FalsePositive(f) == f.status = "false_positive"

DefectDojo(findings) ==
    [claim |-> "none",
     leaks |-> {f \in findings : Active(f)},
     settled |-> {f \in findings : ~Active(f)}]

\* The dispatch over the catalogue.
Document(format, run, findings) ==
    CASE format = "json" -> Json(run, findings)
      [] format = "ndjson" -> Ndjson(findings)
      [] format = "csv" -> Csv(findings)
      [] format = "sarif" -> Sarif(run, findings)
      [] format = "summary" -> Summary(run, findings)
      [] format = "defectdojo" -> DefectDojo(findings)
================================================================================
