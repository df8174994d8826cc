------------------------------ MODULE Detection ------------------------------
(***************************************************************************)
(* From the fields of the issues to the findings of a scan: the scanning   *)
(* loop of process_issue (src/src/pipeline.rs) over the extracted texts    *)
(* (TextExtraction), with the rules engine (src/src/rules.rs), the verdict *)
(* on each hit (CandidateVerdict, Allowlist), the masking of snippets      *)
(* (Redaction) and the credential pair detector (CredentialPairs), and     *)
(* then the deduplication of what the issues gave (src/src/dedup.rs).      *)
(*                                                                         *)
(* The tasks of a scan share nothing they write, so an issue is processed  *)
(* in one go; what is left of their concurrency is the order in which      *)
(* issues are collected, and that is any order.  The rules pass through a  *)
(* hash map when the program starts, so their order is any order too.      *)
(***************************************************************************)
EXTENDS TextExtraction, Allowlist, Redaction, CredentialPairs

CONSTANTS
    Issues, NoIssue,
    Contents,       \* what the issues may hold: the leaves of their fields, with
                    \* the fetched comments and attachments
    BuiltinRules,   \* the rules of the corpus, enabled ones and others
    UserRules,      \* those of the operator's file
    Files,          \* the allowlists an operator may write
    Floors,         \* values of min_confidence
    Caps,           \* values of max_findings_per_issue
    SnippetRadius,  \* cells of context on each side of a snippet's value
    MaxScans        \* bound on the number of scans

\* Rules are loaded into a map by their id, the operator's after the builtin ones.
LoadedRules ==
    LET listed == BuiltinRules \o UserRules
    IN  {listed[i] : i \in {i \in 1..Len(listed) :
            \A j \in 1..Len(listed) : listed[i].id = listed[j].id => j <= i}}

\* A disabled rule is dropped only then, so it also takes a builtin rule away.
Rules == {r \in LoadedRules : r.enabled}
RuleOrders == {o \in [1..Cardinality(Rules) -> Rules] :
                  \A i, j \in DOMAIN o : o[i] = o[j] => i = j}

\* A word a rule matches, the part of it that is captured, if any, and what must
\* follow it.
Alternative == [word : Texts, group : {<<>>} \cup (Nat \X Nat), ahead : Texts]

ASSUME DetectionAssumption ==
    /\ MaxScans \in Nat /\ SnippetRadius \in Nat
    /\ Caps \subseteq Nat
    /\ \A r \in Rules :
          /\ r.alternatives \in Seq(Alternative) /\ r.budget \in Nat
          /\ \A k \in 1..Len(r.alternatives) :
                LET a == r.alternatives[k]
                IN  a.group # <<>> => a.group[1] <= a.group[2] /\ a.group[2] <= Len(a.word)
    /\ NoIssue \notin Issues
    /\ BuiltinRules \in Seq(ToSet(BuiltinRules)) /\ UserRules \in Seq(ToSet(UserRules))
    /\ \A c \in Contents, i \in Issues :
          /\ Len(Extract(c[i])) \in Nat
          /\ \A k \in 1..Len(Extract(c[i])) :
                LET found == Extract(c[i])[k]
                IN  found.text \in SegmentTexts /\ found.path \in Seq(ToSet(found.path))

\* The records of a file; a scope is a path.
ASSUME FilesAssumption ==
    /\ Unset \notin Texts
    /\ \A file \in Files :
          /\ file \in Seq(ToSet(file))
          /\ \A k \in 1..Len(file) :
                file[k].field \notin {Unset, Blank} => file[k].field \in Seq(ToSet(file[k].field))

VARIABLES
    content,        \* Jira: the leaves of each issue
    records,        \* the allowlist
    floor, cap,     \* min_confidence, max_findings_per_issue
    order,          \* the rules as the engine holds them
    stage,          \* where the scan stands
    todo,           \* issues not processed yet
    issue,          \* the issue at hand
    segments,       \* its texts
    segment,        \* the segment at hand
    before,         \* history: how many findings the segments before it gave
    rule, cursor,   \* the rule that scans the segment, and where it is
    taken,          \* history: the matches the rules took in this segment
    hits,           \* hits of the segment
    judged,         \* hits, and then pairs, of the segment that were judged
    findings,       \* findings of the issue
    all,            \* findings of the collected issues
    cut,            \* history: an issue of this scan reached the cap
    merged,         \* findings after deduplication
    earlier         \* history: what the scans before this one reported

configVars == <<content, records, floor, cap>>
placeVars == <<order, todo, issue, segments, segment, before>>
ruleVars == <<rule, cursor, taken, hits>>
outVars == <<all, cut, merged, earlier>>
vars == <<configVars, placeVars, stage, ruleVars, judged, findings, outVars, pairVars>>

Init ==
    /\ content \in Contents
    /\ records \in Files
    /\ floor \in Floors
    /\ cap \in Caps
    /\ order \in RuleOrders
    /\ stage = "load"
    /\ todo = Issues
    /\ issue = NoIssue /\ segments = <<>> /\ segment = 1 /\ before = 0
    /\ rule = 1 /\ cursor = 0 /\ taken = {} /\ hits = <<>>
    /\ judged = 0 /\ findings = <<>>
    /\ all = <<>> /\ cut = FALSE /\ merged = <<>> /\ earlier = <<>>
    /\ PairInit

Text == segments[segment].text
Path == segments[segment].path
Here == [issue |-> issue, path |-> Path, source |-> segments[segment].source]

\* Mutant: the cap is noticed one finding too late.
FullLate == Len(findings) > cap
\* max_findings_per_issue is reached.
Full == Len(findings) >= cap

\* A misconfigured allowlist ends the program before it scans anything.
Load ==
    /\ stage = "load"
    /\ stage' = IF Loads(records) THEN "pick" ELSE "refused"
    /\ UNCHANGED <<configVars, placeVars, ruleVars, judged, findings, outVars, pairVars>>

\* The next issue.
Pick(i) ==
    /\ stage = "pick"
    /\ i \in todo
    /\ issue' = i
    /\ segments' = Extract(content[i])
    /\ todo' = todo \ {i}
    /\ segment' = 1
    /\ before' = 0
    /\ findings' = <<>>
    /\ stage' = "segment"
    /\ UNCHANGED <<configVars, order, ruleVars, judged, outVars, pairVars>>

\* The next segment, unless there is none or the cap is reached.
OpenSegment ==
    /\ stage = "segment"
    /\ segment <= Len(segments)
    /\ ~Full
    /\ stage' = "rules"
    /\ rule' = 1 /\ cursor' = 0 /\ taken' = {} /\ hits' = <<>>
    /\ UNCHANGED <<configVars, placeVars, judged, findings, outVars, pairVars>>

\* The task ends and its findings are collected.
Collect ==
    /\ stage = "segment"
    /\ segment > Len(segments) \/ Full
    /\ all' = all \o findings
    /\ cut' = (cut \/ Full)
    /\ stage' = "pick"
    /\ UNCHANGED <<configVars, placeVars, ruleVars, judged, findings, merged,
                   earlier, pairVars>>

-----------------------------------------------------------------------------
(* RulesEngine::scan.  A regular expression is a sequence of alternatives; *)
(* the leftmost match wins, and at one place the first alternative.        *)

\* The alternative matches the text from this place on.
MatchesAt(alternative, text, from) ==
    StandsAt(text, alternative.word \o alternative.ahead, from)

\* The value is the captured part, or the whole match when nothing is captured.
MatchOf(alternative, from) ==
    LET whole == <<from, from + Len(alternative.word)>>
    IN  [span |-> whole,
         value |-> IF alternative.group = <<>> THEN whole
                   ELSE <<from + alternative.group[1], from + alternative.group[2]>>]

\* At every place, the match that begins there.
Occurrences(r, text) ==
    {MatchOf(r.alternatives[c[1]], c[2]) : c \in
        {c \in (1..Len(r.alternatives)) \X (0..Len(text)) :
            /\ MatchesAt(r.alternatives[c[1]], text, c[2])
            /\ \A a \in 1..(c[1] - 1) : ~MatchesAt(r.alternatives[a], text, c[2])}}

\* regex.find(&text[cursor..])
Found(r, text, from) ==
    {m \in Occurrences(r, text) : m.span[1] >= from}
Leftmost(matches) == {m \in matches : \A n \in matches : m.span[1] <= n.span[1]}

\* The backtracking limit of the expression is exhausted.
GivesUp(r, text, from) == Len(text) - from > r.budget

\* Mutant: one cell is left between two matches.
AfterMatchGap(m) == m.span[2] + 1
AfterMatch(m) == m.span[2]

\* Mutant: the scan stays where an empty match was found.
AfterEmptyStuck(from) == from
AfterEmpty(from) == from + 1

\* The text around a value, and the span of the value in it.
Snippet(text, value) == ContextWindow(text, value, SnippetRadius)
SpanInSnippet(value) ==
    LET start == IF value[1] <= SnippetRadius THEN 0 ELSE value[1] - SnippetRadius
    IN  <<value[1] - start, value[2] - start>>

HitOf(r, m) ==
    [rule |-> r.id, secret |-> Slice(Text, m.value[1], m.value[2]), span |-> m.span,
     snippet |-> Snippet(Text, m.value), inSnippet |-> SpanInSnippet(m.value)]

Searches(r) == cursor < Len(Text) /\ ~GivesUp(r, Text, cursor)

\* A match that ends where the search began consumes nothing.
SkipEmpty(r, m) ==
    /\ m.span[2] <= cursor
    /\ cursor' = AfterEmpty(cursor)
    /\ UNCHANGED <<rule, taken, hits>>

\* Any other match is a hit if it passes the filters of the rule.
TakeMatch(r, m) ==
    /\ m.span[2] > cursor
    /\ taken' = taken \cup {[rule |-> r.id, match |-> m]}
    /\ hits' = IF RuleFilters(r, Text, m.value) THEN Append(hits, HitOf(r, m)) ELSE hits
    /\ cursor' = AfterMatch(m)
    /\ UNCHANGED rule

NextRule(r) ==
    /\ Searches(r) => Found(r, Text, cursor) = {}
    /\ rule' = rule + 1
    /\ cursor' = 0
    /\ UNCHANGED <<taken, hits>>

ScanText ==
    /\ stage = "rules"
    /\ rule <= Len(order)
    /\ LET r == order[rule]
       IN  \/ /\ Searches(r)
              /\ \E m \in Leftmost(Found(r, Text, cursor)) : SkipEmpty(r, m) \/ TakeMatch(r, m)
           \/ NextRule(r)
    /\ UNCHANGED <<configVars, placeVars, stage, judged, findings, outVars, pairVars>>

RulesDone ==
    /\ stage = "rules"
    /\ rule > Len(order)
    /\ stage' = "judge"
    /\ judged' = 0
    /\ UNCHANGED <<configVars, placeVars, ruleVars, findings, outVars, pairVars>>

-----------------------------------------------------------------------------
(* The verdict on the hits, and the findings.                              *)

RuleOf(id) == CHOOSE r \in Rules : r.id = id
\* Finding::username is optional: a set of at most one.
NoUser == {}

FindingOf(h) ==
    [secret |-> h.secret, rule |-> h.rule,
     confidence |-> AdjustedConfidence(RuleOf(h.rule), Text, h.secret, h.span),
     snippet |-> RedactedSnippet(h.snippet, h.secret, h.inSnippet,
                                 [i \in 1..Len(hits) |-> hits[i].secret]),
     username |-> NoUser, locations |-> <<Here>>]

Reportable(h) ==
    /\ ~Allowlisted(records, h.secret, h.rule, issue, Path)
    /\ Kept(RuleOf(h.rule), Text, h.secret, h.span, floor)

JudgeHit ==
    /\ stage = "judge"
    /\ judged < Len(hits)
    /\ ~Full
    /\ judged' = judged + 1
    /\ LET h == hits[judged + 1]
       IN  findings' = IF Reportable(h) THEN Append(findings, FindingOf(h)) ELSE findings
    /\ UNCHANGED <<configVars, placeVars, stage, ruleVars, outVars, pairVars>>

\* The pair detector is called once the hits are judged or the cap is reached.
HitsJudged ==
    /\ stage = "judge"
    /\ judged = Len(hits) \/ Full
    /\ Detect(Text)
    /\ stage' = "pairs"
    /\ judged' = 0
    /\ UNCHANGED <<configVars, placeVars, ruleVars, findings, outVars>>

SearchPairs ==
    /\ stage = "pairs"
    /\ Search
    /\ UNCHANGED <<configVars, placeVars, stage, ruleVars, judged, findings, outVars>>

\* A pair is a finding of high confidence, whatever the allowlist says.
PairFinding(pair) ==
    [secret |-> pair.password, rule |-> "credential_pair", confidence |-> "high",
     snippet |-> pair.username \o <<Marker>>, username |-> {pair.username},
     locations |-> <<Here>>]

TakePair ==
    /\ stage = "pairs"
    /\ pairStage = "found"
    /\ judged < Len(pairs)
    /\ ~Full
    /\ judged' = judged + 1
    /\ findings' = IF BelowFloor("high", ParsedConfidence(floor)) THEN findings
                   ELSE Append(findings, PairFinding(pairs[judged + 1]))
    /\ UNCHANGED <<configVars, placeVars, stage, ruleVars, outVars, pairVars>>

CloseSegment ==
    /\ stage = "pairs"
    /\ judged = Len(pairs) \/ Full
    /\ Return
    /\ segment' = segment + 1
    /\ before' = Len(findings)
    /\ stage' = "segment"
    /\ UNCHANGED <<configVars, order, todo, issue, segments, ruleVars, judged, findings, outVars>>

-----------------------------------------------------------------------------
(* Deduplicator::insert, for every finding in the order of collection.     *)

StartDedup ==
    /\ stage = "pick"
    /\ todo = {}
    /\ stage' = "dedup"
    /\ UNCHANGED <<configVars, placeVars, ruleVars, judged, findings, outVars, pairVars>>

\* Finding::merge_key: the issue does not count.
MergeKey(f) == <<f.secret, f.rule>>

\* The locations of a finding, with those of another it does not have yet.
WithLocations(known, new) ==
    LET grown[n \in 0..Len(new)] ==
            IF n = 0 THEN known
            ELSE IF new[n] \in ToSet(grown[n - 1]) THEN grown[n - 1]
            ELSE Append(grown[n - 1], new[n])
    IN  grown[Len(new)]

\* Mutant: a finding that is known gains no location.
MergedKeepingFirst(f) ==
    IF \E k \in 1..Len(merged) : MergeKey(merged[k]) = MergeKey(f) THEN merged
    ELSE Append(merged, f)
\* Mutant: findings of different issues are not merged.
MergedIntoSameIssue(f) ==
    LET same == {k \in 1..Len(merged) :
                    MergeKey(merged[k]) = MergeKey(f)
                    /\ merged[k].locations[1].issue = f.locations[1].issue}
    IN  IF same = {} THEN Append(merged, f)
        ELSE [k \in 1..Len(merged) |->
                 IF k \in same
                 THEN [merged[k] EXCEPT !.locations = WithLocations(@, f.locations)]
                 ELSE merged[k]]
\* A finding that is known gains the locations it does not have yet, and keeps
\* everything else; a new one is added as it is.
MergedWith(f) ==
    LET same == {k \in 1..Len(merged) : MergeKey(merged[k]) = MergeKey(f)}
    IN  IF same = {} THEN Append(merged, f)
        ELSE [k \in 1..Len(merged) |->
                 IF k \in same
                 THEN [merged[k] EXCEPT !.locations = WithLocations(@, f.locations)]
                 ELSE merged[k]]

Insert ==
    /\ stage = "dedup"
    /\ all # <<>>
    /\ merged' = MergedWith(Head(all))
    /\ all' = Tail(all)
    /\ UNCHANGED <<configVars, placeVars, stage, ruleVars, judged, findings, cut,
                   earlier, pairVars>>

Report ==
    /\ stage = "dedup"
    /\ all = <<>>
    /\ stage' = "done"
    /\ UNCHANGED <<configVars, placeVars, ruleVars, judged, findings, outVars, pairVars>>

\* Another run of the program finds everything in Jira as it was.
Rescan(newOrder) ==
    /\ stage = "done"
    /\ Len(earlier) + 1 < MaxScans
    /\ earlier' = Append(earlier, [findings |-> merged, cut |-> cut])
    /\ merged' = <<>> /\ cut' = FALSE
    /\ order' = newOrder
    /\ todo' = Issues
    /\ stage' = "pick"
    /\ UNCHANGED <<configVars, issue, segments, segment, before, ruleVars, judged, findings, all,
                   pairVars>>

Scan ==
    \/ Load
    \/ \E i \in Issues : Pick(i)
    \/ OpenSegment \/ ScanText \/ RulesDone
    \/ JudgeHit \/ HitsJudged
    \/ SearchPairs \/ TakePair \/ CloseSegment
    \/ Collect
    \/ StartDedup \/ Insert \/ Report

Next == Scan \/ \E newOrder \in RuleOrders : Rescan(newOrder)

Spec == Init /\ [][Next]_vars

\* A program that was started goes on.
FairSpec == Spec /\ WF_vars(Scan)

-----------------------------------------------------------------------------
(* The id of a DefectDojo record (src/src/report/defectdojo.rs).           *)

\* Finding::location_keys
LocationKeys(f) ==
    [i \in 1..Len(f.locations) |-> <<f.secret, f.rule, f.locations[i].issue>>]

\* The fingerprint of the primary location, and its ordinal.
UniqueIdFromTool(f) == <<Head(LocationKeys(f)), 0>>

-----------------------------------------------------------------------------
(* Properties.                                                             *)

Stages == {"load", "refused", "pick", "segment", "rules", "judge", "pairs", "dedup", "done"}

\* Every variable keeps its type.
TypeOK ==
    /\ content \in Contents /\ records \in Files
    /\ order \in RuleOrders
    /\ stage \in Stages
    /\ todo \subseteq Issues /\ issue \in Issues \cup {NoIssue}
    /\ issue # NoIssue => segments = Extract(content[issue])
    /\ segment \in 1..(Len(segments) + 1)
    /\ rule \in 1..(Len(order) + 1)
    /\ stage = "rules" => cursor \in 0..Len(Text)
    /\ stage = "judge" => judged \in 0..Len(hits)
    /\ stage = "pairs" => judged \in 0..Len(pairs)
    /\ Len(findings) <= cap
    /\ PairTypeOK

\* The segment at hand has been scanned up to the cursor of the rule at hand.
InSegment == stage \in {"rules", "judge", "pairs"}
ScannedBy(k, at0) == k < rule \/ (k = rule /\ at0 < cursor)

\* The scan misses nothing: where the expression of a rule matches something,
\* the rule took a match that begins there or that covers the place; it took no
\* place twice; and the hits are exactly the matches that pass the filters of
\* their rule.
NothingMissed ==
    InSegment =>
        /\ \A k \in 1..Len(order) : \A m \in Occurrences(order[k], Text) :
              /\ m.span[1] < m.span[2]
              /\ ScannedBy(k, m.span[1])
              /\ ~GivesUp(order[k], Text, 0)
              => \E t \in taken : /\ t.rule = order[k].id
                                  /\ t.match.span[1] <= m.span[1]
                                  /\ m.span[1] < t.match.span[2]
        /\ \A t, u \in taken :
              t.rule = u.rule /\ t # u =>
                  t.match.span[2] <= u.match.span[1] \/ u.match.span[2] <= t.match.span[1]
        /\ {<<hits[i].rule, hits[i].span>> : i \in 1..Len(hits)} =
              {<<t.rule, t.match.span>> :
                  t \in {t \in taken : RuleFilters(RuleOf(t.rule), Text, t.match.value)}}

\* What the rules found in the segment at hand; the findings with a username are
\* those of the pair detector.
OfRules == {i \in (before + 1)..Len(findings) : findings[i].username = NoUser}

\* The snippet of a rule's finding shows none of the values the rules found in
\* its segment: neither its own nor those of its neighbours (rules.rs:159).  It is
\* less than "every other secret found in the same snippet window" (README.md:575):
\* the mask is given the hits of the rules alone (pipeline.rs:569), so the password
\* of a credential pair stays readable in it, and a pair's own snippet prints its
\* username as it is (pipeline.rs:626), even one that a rule found.
RuleValuesMasked ==
    stage \in {"judge", "pairs"} =>
        \A i \in OfRules, j \in 1..Len(hits) :
            hits[j].secret # <<>> => ~Includes(findings[i].snippet, hits[j].secret)

\* Whether a record of the allowlist speaks of a hit: its field holds the path, and
\* one of its keys names the hit, for "predicates are OR-ed inside a record"
\* (README.md:315).  The example a few lines on (README.md:325, allowlist.rs:12)
\* reads a rule and a project as "a whole rule only in one project"; allowlist.rs:194
\* suppresses the rule in every project, and every rule in the project.
Speaks(record, h) ==
    /\ record.field # Unset => IsPrefix(record.field, Path)
    /\ \/ h.secret \in {record.value, IF record.sha256 = Unset THEN Unset ELSE record.sha256.of}
       \/ record.pattern # Unset /\ Len(h.secret) <= record.pattern.budget
                                 /\ Includes(h.secret, record.pattern.word)
       \/ h.rule = record.ruleId \/ issue = record.issueKey
       \/ ProjectOf(issue) = record.projectKey

\* The grade a hit has earned: its rule's, one more for both signals together,
\* one less for neither; a placeholder, or a rule of low confidence, has none.  The
\* context is that of the whole match (rules.rs:341, and the test at rules.rs:539),
\* where rules.rs:112 and candidate.rs:166 say it is that of the captured value.
Earned(h) ==
    LET base == Grade[ParsedConfidence(RuleOf(h.rule).confidence)]
        near == HasContextWord(Text, h.span)
        random == Entropy(h.secret) > EntropyBoost
    IN  IF IsPlaceholder(h.secret) \/ base = 1 THEN 1
        ELSE Min({3, base + (IF near /\ random THEN 1 ELSE 0)
                          - (IF near \/ random THEN 0 ELSE 1)})

\* When the pairs are looked for, the findings of the segment are the hits no
\* record of the allowlist speaks of, under the reading of Speaks, and that earned
\* the floor, with what they earned; only the cap may cut them short.
VerdictsHonoured ==
    stage = "pairs" =>
        LET due == {i \in 1..Len(hits) :
                       /\ \A k \in 1..Len(records) : ~Speaks(records[k], hits[i])
                       /\ Earned(hits[i]) >= Grade[ParsedConfidence(floor)]}
            Seen(i) == <<findings[i].secret, findings[i].rule, Grade[findings[i].confidence]>>
            Due(i) == <<hits[i].secret, hits[i].rule, Earned(hits[i])>>
        IN  /\ {Seen(i) : i \in OfRules} \subseteq {Due(i) : i \in due}
            /\ ~Full => /\ {Seen(i) : i \in OfRules} = {Due(i) : i \in due}
                        /\ Cardinality(OfRules) = Cardinality(due)

\* What a scan reports: every secret of every rule with every place it is at.
Emitted(list) == UNION {{<<MergeKey(list[i]), l>> : l \in ToSet(list[i].locations)} :
                           i \in 1..Len(list)}

\* Deduplication loses no location and invents none, and leaves one finding per
\* secret and rule.
MergeKeepsAll ==
    [][stage = "dedup" =>
          /\ Emitted(merged') \cup Emitted(all') = Emitted(merged) \cup Emitted(all)
          /\ \A i, j \in 1..Len(merged') :
                MergeKey(merged'[i]) = MergeKey(merged'[j]) => i = j]_vars

\* Two scans of the same content that no cap cut short report the same secrets
\* at the same places, whatever the order of the tasks and of the rules.
SameFindingsEveryScan ==
    stage = "done" /\ ~cut =>
        \A k \in 1..Len(earlier) :
            ~earlier[k].cut => Emitted(earlier[k].findings) = Emitted(merged)

\* "identical on every scan of the same state" (defectdojo.rs:76): a secret has
\* the same DefectDojo id in two scans of the same content.
SameIdEveryScan ==
    stage = "done" /\ ~cut =>
        \A k \in 1..Len(earlier) : ~earlier[k].cut =>
            {UniqueIdFromTool(earlier[k].findings[i]) : i \in 1..Len(earlier[k].findings)} =
                {UniqueIdFromTool(merged[i]) : i \in 1..Len(merged)}

\* Every scan ends, empty matches and exhausted budgets included.
EveryScanEnds == []<>(stage \in {"done", "refused"})
=============================================================================
