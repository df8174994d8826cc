------------------------------ MODULE Redaction ------------------------------
(***************************************************************************)
(* How a snippet is masked before it reaches a report, the store or an     *)
(* alert (src/src/redact.rs).  The marker is one cell that occurs in no    *)
(* value, so replacing a value can neither bring it back nor form another; *)
(* marker_for works to keep that true of the real markers.                 *)
(***************************************************************************)
EXTENDS ScannedText

CONSTANT Marker

ASSUME MarkerAssumption == Marker \notin Cells

\* text.replace(value, marker): the occurrences from the left, none overlapping.
MaskAll(text, value) ==
    LET masked[at \in 0..Len(text)] ==
            IF at = Len(text) THEN <<>>
            ELSE IF StandsAt(text, value, at)
                 THEN <<Marker>> \o masked[at + Len(value)]
                 ELSE <<text[at + 1]>> \o masked[at + 1]
    IN  IF value = <<>> THEN text ELSE masked[0]

\* A span outside the snippet, or of no width, is no span.
UsableSpan(snippet, span) == span[1] < span[2] /\ span[2] <= Len(snippet)

\* The match itself is replaced where it stands.
Splice(snippet, span) ==
    IF UsableSpan(snippet, span)
    THEN Slice(snippet, 0, span[1]) \o <<Marker>> \o Slice(snippet, span[2], Len(snippet))
    ELSE snippet

\* The values are replaced one after the other.  (Each result is kept as a set
\* of one text, which TLC evaluates once.)
MaskEach(text, values) ==
    LET without[n \in 0..Len(values)] ==
            IF n = 0 THEN {text} ELSE {MaskAll(t, values[n]) : t \in without[n - 1]}
    IN  CHOOSE masked \in without[Len(values)] : TRUE

\* Mutant: the neighbours of a finding are forgotten.
RedactedSnippetOwn(snippet, value, span, others) == MaskAll(Splice(snippet, span), value)
\* redact_snippet_with: the match where it stands, then every other value, then
\* a sweep over all of them.  An empty value masks nothing.
RedactedSnippet(snippet, value, span, others) ==
    LET neighbours == [i \in 1..Len(others) |-> IF others[i] = value THEN <<>> ELSE others[i]]
    IN  MaskEach(MaskEach(Splice(snippet, span), neighbours), <<value>> \o others)
=============================================================================
