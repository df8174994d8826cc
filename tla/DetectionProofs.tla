---------------------------- MODULE DetectionProofs ----------------------------
(***************************************************************************)
(* Proofs about Detection, for any rules, texts, allowlists and caps: the  *)
(* types, that the calls of the pair detector are its own steps, that the  *)
(* scan of a segment misses no match of a rule, that its findings are the  *)
(* hits due under the allowlist and the floor, that their snippets show no *)
(* value a rule found, that deduplication keeps every location, and that   *)
(* what a scan reports depends neither on the order of the rules nor on    *)
(* that of the issues.                                                     *)
(***************************************************************************)
EXTENDS Detection, CredentialPairsProofs, RedactionProofs, FiniteSetTheorems,
        FunctionTheorems, SequenceTheorems, TLAPS

USE DetectionAssumption, PairAssumption

-----------------------------------------------------------------------------
(* The rules.                                                              *)

LEMMA RuleIdsDiffer ==
    ASSUME NEW r \in Rules, NEW s \in Rules, r.id = s.id
    PROVE  r = s
<1> DEFINE listed == BuiltinRules \o UserRules
<1>1. PICK i \in 1..Len(listed) : r = listed[i]
          /\ \A j \in 1..Len(listed) : listed[i].id = listed[j].id => j <= i
      BY DEF Rules, LoadedRules
<1>2. PICK k \in 1..Len(listed) : s = listed[k]
          /\ \A j \in 1..Len(listed) : listed[k].id = listed[j].id => j <= k
      BY DEF Rules, LoadedRules
<1>3. k <= i /\ i <= k
      BY <1>1, <1>2
<1>4. Len(listed) \in Nat
      BY LenProperties, ConcatProperties, SeqMonotonic DEF DetectionAssumption
<1>5. QED
      BY <1>1, <1>2, <1>3, <1>4

LEMMA RuleOfId ==
    ASSUME NEW r \in Rules
    PROVE  RuleOf(r.id) = r
BY RuleIdsDiffer DEF RuleOf

LEMMA RulesFinite == IsFiniteSet(Rules) /\ Cardinality(Rules) \in Nat
<1> DEFINE listed == BuiltinRules \o UserRules
           last == {i \in 1..Len(listed) :
                       \A j \in 1..Len(listed) : listed[i].id = listed[j].id => j <= i}
           f == [i \in last |-> listed[i]]
<1>1. Len(listed) \in Nat
      BY LenProperties, ConcatProperties, SeqMonotonic DEF DetectionAssumption
<1>2. IsFiniteSet(last)
      <2>1. IsFiniteSet(1..Len(listed))
            BY <1>1, FS_Interval
      <2>2. last \in SUBSET (1..Len(listed))
            OBVIOUS
      <2>3. QED BY <2>1, <2>2, FS_Subset
<1>3. f \in Surjection(last, LoadedRules)
      BY DEF Surjection, LoadedRules
<1>4. IsFiniteSet(LoadedRules)
      BY <1>2, <1>3, FS_Surjection
<1>5. QED
      BY <1>4, FS_Subset, FS_CardinalityType DEF Rules

\* The engine holds every rule, each in one place.
LEMMA RulesInOrder ==
    ASSUME NEW o \in RuleOrders
    PROVE  /\ Len(o) \in Nat
           /\ \A k \in 1..Len(o) : o[k] \in Rules
           /\ \A k, l \in 1..Len(o) : o[k].id = o[l].id => k = l
           /\ \A r \in Rules : \E k \in 1..Len(o) : o[k] = r
<1>1. /\ o \in [1..Cardinality(Rules) -> Rules]
      /\ \A i, j \in DOMAIN o : o[i] = o[j] => i = j
      BY DEF RuleOrders
<1>2. o \in Seq(Rules)
      BY <1>1, RulesFinite, SeqDef
<1>3. Len(o) = Cardinality(Rules) /\ DOMAIN o = 1..Cardinality(Rules)
      BY <1>1, <1>2, LenProperties, RulesFinite
<1>4. \A r \in Rules : \E k \in 1..Len(o) : o[k] = r
      <2> DEFINE N == Cardinality(Rules)
      <2>1. o \in Injection(1..N, Rules)
            BY <1>1, <1>3, Fun_IsInj
      <2>2. Cardinality(1..N) = N
            BY RulesFinite, FS_Interval
      <2>3. o \in Surjection(1..N, Rules)
            BY <2>1, <2>2, RulesFinite, FS_Injection
      <2>4. QED BY <1>3, <2>3, Fun_SurjectionProperties
<1>5. QED
      BY <1>1, <1>2, <1>3, <1>4, LenProperties, RuleIdsDiffer

-----------------------------------------------------------------------------
(* The matches of a rule.                                                  *)

\* A match lies inside its text.
LEMMA OccurrenceShape ==
    ASSUME NEW r \in Rules, NEW text \in Texts, NEW m \in Occurrences(r, text)
    PROVE  /\ m.span[1] \in 0..Len(text)
           /\ m.span[2] \in 0..Len(text)
           /\ m.span[1] <= m.span[2]
<1>1. PICK a \in 1..Len(r.alternatives), from \in 0..Len(text) :
          /\ MatchesAt(r.alternatives[a], text, from)
          /\ m = MatchOf(r.alternatives[a], from)
      BY DEF Occurrences
<1> DEFINE alternative == r.alternatives[a]
<1>2. alternative.word \in Texts /\ alternative.ahead \in Texts
      <2>1. alternative \in Alternative
            BY ElementOfSeq DEF DetectionAssumption
      <2>2. QED BY <2>1 DEF Alternative
<1> DEFINE wordLen == Len(alternative.word)
           aheadLen == Len(alternative.ahead)
           textLen == Len(text)
<1>3. wordLen \in Nat /\ aheadLen \in Nat /\ textLen \in Nat
      BY <1>2, LenProperties DEF Texts
<1>4. from + (wordLen + aheadLen) <= textLen
      <2>1. from + Len(alternative.word \o alternative.ahead) <= Len(text)
            BY <1>1 DEF MatchesAt, StandsAt
      <2>2. Len(alternative.word \o alternative.ahead) = wordLen + aheadLen
            BY <1>2, ConcatProperties DEF Texts
      <2>3. QED BY <2>1, <2>2
<1>5. m.span[1] = from /\ m.span[2] = from + wordLen
      BY <1>1 DEF MatchOf
<1>6. from \in 0..textLen
      OBVIOUS
<1> HIDE DEF wordLen, aheadLen, textLen
<1>7. /\ m.span[1] \in 0..textLen /\ m.span[2] \in 0..textLen
      /\ m.span[1] <= m.span[2]
      BY <1>3, <1>4, <1>5, <1>6
<1>8. QED
      BY <1>7 DEF textLen

\* At one place a rule matches in one way.
LEMMA OneMatchPerPlace ==
    ASSUME NEW r \in Rules, NEW text \in Texts,
           NEW m \in Occurrences(r, text), NEW n \in Occurrences(r, text),
           m.span[1] = n.span[1]
    PROVE  m = n
<1>1. PICK a \in 1..Len(r.alternatives), from \in 0..Len(text) :
          /\ MatchesAt(r.alternatives[a], text, from)
          /\ \A k \in 1..(a - 1) : ~MatchesAt(r.alternatives[k], text, from)
          /\ m = MatchOf(r.alternatives[a], from)
      BY DEF Occurrences
<1>2. PICK b \in 1..Len(r.alternatives), at0 \in 0..Len(text) :
          /\ MatchesAt(r.alternatives[b], text, at0)
          /\ \A k \in 1..(b - 1) : ~MatchesAt(r.alternatives[k], text, at0)
          /\ n = MatchOf(r.alternatives[b], at0)
      BY DEF Occurrences
<1>3. from = at0
      BY <1>1, <1>2 DEF MatchOf
<1>4. Len(r.alternatives) \in Nat
      BY LenProperties DEF DetectionAssumption
<1>5. a = b
      BY <1>1, <1>2, <1>3, <1>4
<1>6. QED
      BY <1>1, <1>2, <1>3, <1>5

-----------------------------------------------------------------------------
(* Types, and where the scan stands.                                       *)

IsList(list) == \E S : list \in Seq(S)

LEMMA ListGrows ==
    ASSUME NEW list, IsList(list), NEW element
    PROVE  /\ IsList(Append(list, element))
           /\ Len(list) \in Nat
           /\ Len(Append(list, element)) = Len(list) + 1
           /\ Append(list, element)[Len(list) + 1] = element
           /\ \A i \in 1..Len(list) : Append(list, element)[i] = list[i]
<1>1. PICK S : list \in Seq(S)
      BY DEF IsList
<1>2. list \in Seq(S \cup {element})
      BY <1>1, SeqMonotonic
<1>3. Append(list, element) \in Seq(S \cup {element})
      BY <1>2
<1>4. QED
      BY <1>2, <1>3 DEF IsList

\* The configuration, the place in the issue, and the lists.
PlaceInv ==
    /\ content \in Contents /\ records \in Files /\ cap \in Caps
    /\ order \in RuleOrders
    /\ stage \in Stages
    /\ todo \subseteq Issues /\ issue \in Issues \cup {NoIssue}
    /\ issue # NoIssue => segments = Extract(content[issue])
    /\ issue = NoIssue => segments = <<>>
    /\ segment \in 1..(Len(segments) + 1)
    /\ InSegment => segment <= Len(segments)
    /\ rule \in 1..(Len(order) + 1)
    /\ stage = "rules" => cursor \in 0..Len(Text)
    /\ stage \in {"judge", "pairs"} => rule = Len(order) + 1

\* How far the hits and the pairs were judged; pairs are judged once all are there.
JudgedInv ==
    /\ IsList(hits) /\ IsList(findings)
    /\ Len(findings) <= cap
    /\ stage = "judge" => judged \in 0..Len(hits)
    /\ stage = "pairs" => judged \in 0..Len(pairs) /\ (pairStage # "found" => judged = 0)

ScanInv == PlaceInv /\ JudgedInv /\ PairsInv

LEMMA SegmentsListed == PlaceInv => Len(segments) \in Nat
BY DEF PlaceInv, DetectionAssumption

\* The text at hand is one that may be scanned.
LEMMA SegmentText ==
    ASSUME PlaceInv, segment <= Len(segments)
    PROVE  Text \in SegmentTexts /\ Text \in Texts /\ Len(Text) \in Nat
<1>1. Len(segments) \in Nat /\ segment \in 1..Len(segments)
      BY SegmentsListed DEF PlaceInv
<1>2. issue \in Issues /\ segments = Extract(content[issue]) /\ content \in Contents
      BY <1>1 DEF PlaceInv
<1>3. Text \in SegmentTexts
      BY <1>1, <1>2 DEF Text, DetectionAssumption
<1>4. QED
      BY <1>3, LenProperties DEF PairAssumption, Texts

LEMMA TextAtHand ==
    ASSUME PlaceInv, InSegment
    PROVE  Text \in SegmentTexts /\ Text \in Texts /\ Len(Text) \in Nat
BY SegmentText DEF PlaceInv

\* The pair detector is called with a text that may be scanned, and nothing but
\* its own steps touches its state.
LEMMA PairCalls ==
    ASSUME PlaceInv, [Next]_vars
    PROVE  [PairNext]_pairVars
<1>1. CASE HitsJudged
      <2>1. Text \in SegmentTexts
            BY <1>1, TextAtHand DEF HitsJudged, InSegment
      <2>2. Detect(Text)
            BY <1>1 DEF HitsJudged
      <2>3. QED BY <2>1, <2>2 DEF PairNext
<1>2. CASE SearchPairs
      BY <1>2 DEF SearchPairs, PairNext
<1>3. CASE CloseSegment
      BY <1>3 DEF CloseSegment, PairNext
<1>4. CASE UNCHANGED pairVars
      BY <1>4
<1>5. QED
      BY <1>1, <1>2, <1>3, <1>4
      DEF Next, Scan, Load, Pick, OpenSegment, ScanText, RulesDone, JudgeHit,
          TakePair, Collect, StartDedup, Insert, Report, Rescan, vars

LEMMA ScanInit == Init => ScanInv
<1> SUFFICES ASSUME Init PROVE ScanInv
    OBVIOUS
<1>1. Len(order) \in Nat
      BY RulesInOrder DEF Init
<1>2. IsList(<<>>)
      BY DEF IsList
<1>3. PlaceInv
      BY <1>1 DEF Init, PlaceInv, Stages, InSegment
<1>4. JudgedInv
      BY <1>2 DEF Init, JudgedInv, DetectionAssumption
<1>5. PairsInv
      BY PairsInit DEF Init
<1>6. QED
      BY <1>3, <1>4, <1>5 DEF ScanInv

\* Where a search of a rule takes the cursor.
LEMMA CursorStays ==
    ASSUME PlaceInv, ScanText
    PROVE  /\ rule' \in 1..(Len(order) + 1)
           /\ cursor' \in 0..Len(Text)
<1> DEFINE r == order[rule]
<1>1. /\ stage = "rules" /\ rule \in 1..Len(order) /\ cursor \in 0..Len(Text)
      /\ Text \in Texts /\ Len(Text) \in Nat /\ Len(order) \in Nat /\ r \in Rules
      BY RulesInOrder, TextAtHand DEF ScanText, PlaceInv, InSegment
<1>2. CASE \E m \in Leftmost(Found(r, Text, cursor)) : SkipEmpty(r, m) /\ Searches(r)
      BY <1>1, <1>2 DEF SkipEmpty, Searches, AfterEmpty
<1>3. CASE \E m \in Leftmost(Found(r, Text, cursor)) : TakeMatch(r, m)
      <2>1. PICK m \in Occurrences(r, Text) : TakeMatch(r, m)
            BY <1>3 DEF Leftmost, Found
      <2>2. m.span[2] \in 0..Len(Text)
            BY <1>1, OccurrenceShape
      <2>3. QED BY <1>1, <2>1, <2>2 DEF TakeMatch, AfterMatch
<1>4. CASE NextRule(r)
      BY <1>1, <1>4 DEF NextRule
<1>5. QED
      BY <1>2, <1>3, <1>4 DEF ScanText

LEMMA PlaceStep == PlaceInv /\ [Next]_vars => PlaceInv'
<1> SUFFICES ASSUME PlaceInv, [Next]_vars PROVE PlaceInv'
    OBVIOUS
<1> USE DEF PlaceInv, Stages, InSegment, configVars, placeVars, ruleVars, outVars
<1>0. Len(segments) \in Nat /\ Len(order) \in Nat
      BY SegmentsListed, RulesInOrder
<1>1. CASE Load BY <1>1 DEF Load, Text
<1>2. CASE \E i \in Issues : Pick(i)
      <2>1. PICK i \in Issues : Pick(i)
            BY <1>2
      <2>2. /\ issue' = i /\ segments' = Extract(content[i]) /\ content \in Contents
            /\ i # NoIssue
            BY <2>1 DEF Pick, DetectionAssumption
      <2>3. Len(segments') \in Nat
            BY <2>2 DEF DetectionAssumption
      <2>4. QED
            BY <2>1, <2>2, <2>3 DEF Pick
<1>3. CASE OpenSegment
      <2>1. segment \in 1..Len(segments)
            BY <1>0, <1>3 DEF OpenSegment
      <2>2. issue # NoIssue
            BY <2>1
      <2>3. Text' = Text /\ Len(Text) \in Nat
            BY <2>1, <2>2, <1>3, LenProperties
            DEF OpenSegment, Text, DetectionAssumption, PairAssumption, Texts
      <2>4. QED
            BY <1>0, <1>3, <2>1, <2>3 DEF OpenSegment
<1>4. CASE ScanText
      <2>1. Text' = Text
            BY <1>4 DEF ScanText, Text
      <2>2. QED
            BY <1>0, <1>4, <2>1, CursorStays DEF ScanText
<1>5. CASE RulesDone BY <1>0, <1>5 DEF RulesDone
<1>6. CASE JudgeHit BY <1>6 DEF JudgeHit
<1>7. CASE HitsJudged BY <1>7 DEF HitsJudged
<1>8. CASE SearchPairs BY <1>8 DEF SearchPairs
<1>9. CASE TakePair BY <1>9 DEF TakePair
<1>10. CASE CloseSegment
       BY <1>0, <1>10 DEF CloseSegment
<1>11. CASE Collect BY <1>11 DEF Collect
<1>12. CASE StartDedup BY <1>12 DEF StartDedup
<1>13. CASE Insert BY <1>13 DEF Insert
<1>14. CASE Report BY <1>14 DEF Report
<1>15. CASE \E newOrder \in RuleOrders : Rescan(newOrder)
       <2>1. /\ Len(order') = Len(order)
             BY <1>15 DEF Rescan, RuleOrders
       <2>2. QED
             BY <1>0, <1>15, <2>1 DEF Rescan
<1>16. CASE UNCHANGED vars
       BY <1>16 DEF vars, Text
<1>17. QED
       BY <1>1, <1>2, <1>3, <1>4, <1>5, <1>6, <1>7, <1>8, <1>9, <1>10, <1>11,
          <1>12, <1>13, <1>14, <1>15, <1>16 DEF Next, Scan

\* Nothing is found beyond the cap.
LEMMA FindingsCapped ==
    ASSUME JudgedInv, cap \in Nat, ~Full, NEW f,
           findings' = findings \/ findings' = Append(findings, f)
    PROVE  IsList(findings') /\ Len(findings') <= cap
<1>1. Len(findings) \in Nat /\ Len(findings) < cap
      BY ListGrows DEF JudgedInv, Full
<1>2. CASE findings' = findings
      BY <1>1, <1>2 DEF JudgedInv
<1>3. CASE findings' = Append(findings, f)
      <2>1. IsList(Append(findings, f)) /\ Len(Append(findings, f)) = Len(findings) + 1
            BY ListGrows DEF JudgedInv
      <2>2. QED BY <1>1, <1>3, <2>1
<1>4. QED
      BY <1>2, <1>3

LEMMA JudgedStep == ScanInv /\ [Next]_vars => JudgedInv'
<1> SUFFICES ASSUME ScanInv, [Next]_vars PROVE JudgedInv'
    OBVIOUS
<1> USE DEF ScanInv, JudgedInv, configVars, placeVars, ruleVars, outVars
<1>0. /\ cap \in Nat /\ cap' = cap /\ Len(hits) \in Nat
      /\ pairs \in Seq(Hit) /\ Len(pairs) \in Nat
      <2>1. cap' = cap
            BY DEF Next, Scan, Load, Pick, OpenSegment, ScanText, RulesDone, JudgeHit,
                   HitsJudged, SearchPairs, TakePair, CloseSegment, Collect,
                   StartDedup, Insert, Report, Rescan, vars
      <2>2. cap \in Nat
            BY DEF PlaceInv, DetectionAssumption
      <2>3. Len(hits) \in Nat
            BY ListGrows
      <2>4. pairs \in Seq(Hit) /\ Len(pairs) \in Nat
            BY DEF PairsInv, CapturesInv
      <2>5. QED BY <2>1, <2>2, <2>3, <2>4
<1>1. IsList(<<>>) /\ Len(<<>>) = 0
      BY DEF IsList
<1>2. CASE Load \/ Collect \/ StartDedup \/ Insert \/ Report \/ UNCHANGED vars
      BY <1>0, <1>2 DEF Load, Collect, StartDedup, Insert, Report, vars, pairVars
<1>3. CASE \E i \in Issues : Pick(i)
      BY <1>0, <1>1, <1>3 DEF Pick
<1>4. CASE OpenSegment
      BY <1>0, <1>1, <1>4 DEF OpenSegment
<1>5. CASE ScanText
      <2>1. IsList(hits')
            <3>1. \A r, m : TakeMatch(r, m) =>
                      hits' = hits \/ hits' = Append(hits, HitOf(r, m))
                  BY DEF TakeMatch
            <3>2. \A r, m : SkipEmpty(r, m) => hits' = hits
                  BY DEF SkipEmpty
            <3>3. \A r : NextRule(r) => hits' = hits
                  BY DEF NextRule
            <3>4. \/ \E r, m : SkipEmpty(r, m) \/ TakeMatch(r, m)
                  \/ \E r : NextRule(r)
                  BY <1>5 DEF ScanText
            <3>5. hits' = hits \/ \E e : hits' = Append(hits, e)
                  BY <3>1, <3>2, <3>3, <3>4
            <3>6. IsList(hits)
                  BY <1>0
            <3>7. \A e : IsList(Append(hits, e))
                  BY <3>6, ListGrows
            <3>8. QED BY <3>5, <3>6, <3>7
      <2>2. QED
            BY <1>0, <1>5, <2>1 DEF ScanText
<1>6. CASE RulesDone
      BY <1>0, <1>6 DEF RulesDone
<1>7. CASE JudgeHit
      <2>1. ~Full /\ (findings' = findings \/ \E f : findings' = Append(findings, f))
            BY <1>7 DEF JudgeHit
      <2>2. IsList(findings') /\ Len(findings') <= cap'
            BY <1>0, <2>1, FindingsCapped
      <2>3. QED
            BY <1>0, <1>7, <2>2 DEF JudgeHit
<1>8. CASE HitsJudged
      <2>1. judged' = 0 /\ pairs' = <<>> /\ stage' = "pairs" /\ UNCHANGED <<hits, findings>>
            BY <1>8 DEF HitsJudged, Detect
      <2>2. QED
            BY <1>0, <1>1, <2>1
<1>9. CASE SearchPairs
      <2>1. stage = "pairs" /\ UNCHANGED <<stage, judged, hits, findings>>
            BY <1>9 DEF SearchPairs
      <2>2. pairStage # "found"
            BY <1>9 DEF SearchPairs, Search, LinkStep, LinksDone, Slide, SkipPassword,
                        PairUp, WindowDone, FieldStep, FieldsDone
      <2>3. PairsInv'
            BY <1>9, PairsStep DEF SearchPairs, PairNext
      <2>4. Len(pairs') \in Nat
            BY <2>3 DEF PairsInv, CapturesInv
      <2>5. QED
            BY <1>0, <2>1, <2>2, <2>4
<1>10. CASE TakePair
       <2>1. ~Full /\ (findings' = findings \/ \E f : findings' = Append(findings, f))
             BY <1>10 DEF TakePair
       <2>2. IsList(findings') /\ Len(findings') <= cap'
             BY <1>0, <2>1, FindingsCapped
       <2>3. QED
             BY <1>0, <1>10, <2>2 DEF TakePair, pairVars
<1>11. CASE CloseSegment
       BY <1>0, <1>11 DEF CloseSegment
<1>12. CASE \E newOrder \in RuleOrders : Rescan(newOrder)
       BY <1>0, <1>12 DEF Rescan
<1>13. QED
       BY <1>2, <1>3, <1>4, <1>5, <1>6, <1>7, <1>8, <1>9, <1>10, <1>11, <1>12
       DEF Next, Scan

LEMMA ScanStep == ScanInv /\ [Next]_vars => ScanInv'
BY PlaceStep, JudgedStep, PairCalls, PairsStep DEF ScanInv

\* Every variable keeps its type: the place in the segments and the cursor in
\* the text are real ones, and no issue has more findings than the cap.
THEOREM TypeCorrect == Spec => []TypeOK
<1>1. ScanInv => TypeOK
      BY DEF ScanInv, PlaceInv, JudgedInv, PairsInv, CapturesInv, TypeOK
<1>2. QED
      BY ScanInit, ScanStep, <1>1, PTL DEF Spec

\* Within a scan, on any segment of any issue, the sliding window of the pair
\* detector forms exactly the pairs that belong together, each of them once.
THEOREM PairsExactInScan == Spec => []PairsExact
<1>1. ScanInv => PairsExact
      BY DEF ScanInv, PairsInv
<1>2. QED
      BY ScanInit, ScanStep, <1>1, PTL DEF Spec

-----------------------------------------------------------------------------
(* The scan of a segment.                                                  *)

\* The three parts of NothingMissed.
Covered ==
    \A k \in 1..Len(order) : \A m \in Occurrences(order[k], Text) :
        /\ m.span[1] < m.span[2]
        /\ ScannedBy(k, m.span[1])
        /\ ~GivesUp(order[k], Text, 0)
        => \E t \in taken : /\ t.rule = order[k].id
                            /\ t.match.span[1] <= m.span[1]
                            /\ m.span[1] < t.match.span[2]
Apart ==
    \A t, u \in taken :
        t.rule = u.rule /\ t # u =>
            t.match.span[2] <= u.match.span[1] \/ u.match.span[2] <= t.match.span[1]
HitsExact ==
    {<<hits[i].rule, hits[i].span>> : i \in 1..Len(hits)} =
        {<<t.rule, t.match.span>> :
            t \in {t \in taken : RuleFilters(RuleOf(t.rule), Text, t.match.value)}}

\* A match was taken by a rule that has scanned the text up to its end.
TakenBehind ==
    \A t \in taken :
        /\ t.match.span[1] \in Nat /\ t.match.span[2] \in Nat
        /\ \E k \in 1..Len(order) :
              /\ t.rule = order[k].id
              /\ k <= rule
              /\ k = rule => t.match.span[2] <= cursor

TakenInv == InSegment => Covered /\ Apart /\ HitsExact /\ TakenBehind

scanVars == <<order, segments, segment, rule, cursor, taken, hits>>

\* Judging changes nothing about the scan.
LEMMA TakenKept ==
    ASSUME TakenInv, InSegment, UNCHANGED scanVars
    PROVE  TakenInv'
<1> USE DEF TakenInv, scanVars
<1>1. Text' = Text
      BY DEF Text
<1>2. Covered'
      BY <1>1 DEF Covered, ScannedBy
<1>3. Apart' /\ TakenBehind'
      BY DEF Apart, TakenBehind
<1>4. HitsExact'
      BY <1>1 DEF HitsExact
<1>5. QED
      BY <1>2, <1>3, <1>4

\* A segment is opened with nothing scanned.
LEMMA TakenOpened ==
    ASSUME PlaceInv, OpenSegment
    PROVE  TakenInv'
<1>1. /\ rule' = 1 /\ cursor' = 0 /\ taken' = {} /\ hits' = <<>>
      /\ UNCHANGED <<order, segments, segment>>
      /\ segment <= Len(segments)
      BY DEF OpenSegment, placeVars
<1>2. Text' = Text /\ Text \in Texts
      BY <1>1, SegmentText DEF Text
<1>3. Len(order) \in Nat /\ \A k \in 1..Len(order) : order[k] \in Rules
      BY RulesInOrder DEF PlaceInv
<1>4. Covered'
      <2>1. ASSUME NEW k \in 1..Len(order), NEW m \in Occurrences(order[k], Text)
            PROVE  ~ScannedBy(k, m.span[1])'
            <3>1. m.span[1] \in 0..Len(Text)
                  BY <1>2, <1>3, OccurrenceShape
            <3>2. QED
                  BY <1>1, <1>3, <3>1 DEF ScannedBy
      <2>2. QED
            BY <1>1, <1>2, <2>1 DEF Covered
<1>5. Apart' /\ TakenBehind'
      BY <1>1 DEF Apart, TakenBehind
<1>6. HitsExact'
      BY <1>1 DEF HitsExact
<1>7. QED
      BY <1>4, <1>5, <1>6 DEF TakenInv

\* The rule at hand, and what is known of its place in the text.
LEMMA RuleAtHand ==
    ASSUME PlaceInv, ScanText
    PROVE  /\ rule \in 1..Len(order) /\ Len(order) \in Nat
           /\ \A k \in 1..Len(order) : order[k] \in Rules
           /\ \A k, l \in 1..Len(order) : order[k].id = order[l].id => k = l
           /\ cursor \in 0..Len(Text) /\ Len(Text) \in Nat /\ Text \in Texts
           /\ InSegment /\ UNCHANGED <<order, segments, segment, stage>> /\ Text' = Text
<1>1. stage = "rules" /\ rule <= Len(order)
      /\ UNCHANGED <<order, segments, segment, stage>>
      BY DEF ScanText, placeVars
<1>2. InSegment
      BY <1>1 DEF InSegment
<1>3. /\ rule \in 1..(Len(order) + 1) /\ order \in RuleOrders
      /\ cursor \in 0..Len(Text)
      BY <1>1 DEF PlaceInv
<1>4. /\ Len(order) \in Nat
      /\ \A k \in 1..Len(order) : order[k] \in Rules
      /\ \A k, l \in 1..Len(order) : order[k].id = order[l].id => k = l
      BY <1>3, RulesInOrder
<1>5. Text' = Text
      BY <1>1 DEF Text
<1>6. rule \in 1..Len(order)
      BY <1>1, <1>3, <1>4
<1>7. QED
      BY <1>1, <1>2, <1>3, <1>4, <1>5, <1>6, TextAtHand

\* An empty match is passed over; nothing else begins at its place.
LEMMA TakenSkipped ==
    ASSUME PlaceInv, TakenInv, ScanText,
           NEW m \in Leftmost(Found(order[rule], Text, cursor)),
           Searches(order[rule]), SkipEmpty(order[rule], m)
    PROVE  TakenInv'
<1>1. /\ cursor' = cursor + 1 /\ m.span[2] <= cursor
      /\ UNCHANGED <<rule, taken, hits>>
      BY DEF SkipEmpty, AfterEmpty
<1>2. m \in Occurrences(order[rule], Text) /\ m.span[1] >= cursor
      BY DEF Leftmost, Found
<1>3. m.span[1] = cursor /\ m.span[2] = cursor
      <2>1. /\ m.span[1] \in 0..Len(Text) /\ m.span[2] \in 0..Len(Text)
            /\ m.span[1] <= m.span[2]
            BY <1>2, RuleAtHand, OccurrenceShape
      <2>2. cursor \in Nat /\ Len(Text) \in Nat
            BY RuleAtHand
      <2>3. QED BY <1>1, <1>2, <2>1, <2>2
<1>4. Covered'
      <2>1. ASSUME NEW k \in 1..Len(order), NEW n \in Occurrences(order[k], Text),
                   n.span[1] < n.span[2], ScannedBy(k, n.span[1])'
            PROVE  ScannedBy(k, n.span[1])
            <3>1. n.span[1] \in 0..Len(Text) /\ n.span[2] \in 0..Len(Text)
                  BY RuleAtHand, OccurrenceShape
            <3>2. CASE k = rule /\ n.span[1] = cursor
                  <4>1. n = m
                        BY <1>2, <1>3, <3>2, RuleAtHand, OneMatchPerPlace
                  <4>2. QED BY <1>3, <2>1, <3>1, <4>1
            <3>3. CASE k < rule
                  BY <3>3 DEF ScannedBy
            <3>4. CASE k = rule /\ n.span[1] # cursor
                  BY <1>1, <2>1, <3>1, <3>4, RuleAtHand DEF ScannedBy
            <3>5. QED BY <1>1, <2>1, <3>2, <3>3, <3>4 DEF ScannedBy
      <2>2. QED
            BY <1>1, <2>1, RuleAtHand DEF Covered, TakenInv
<1>5. Apart' /\ HitsExact'
      <2>1. Text' = Text /\ UNCHANGED <<taken, hits>>
            BY <1>1, RuleAtHand
      <2>2. Apart /\ HitsExact
            BY RuleAtHand DEF TakenInv
      <2>3. Apart'
            BY <2>1, <2>2 DEF Apart
      <2>4. QED BY <2>1, <2>2, <2>3 DEF HitsExact
<1>6. TakenBehind'
      <2>1. ASSUME NEW t \in taken
            PROVE  /\ t.match.span[1] \in Nat /\ t.match.span[2] \in Nat
                   /\ \E k \in 1..Len(order) :
                         /\ t.rule = order[k].id /\ k <= rule
                         /\ k = rule => t.match.span[2] <= cursor + 1
            <3>1. PICK k \in 1..Len(order) :
                         /\ t.rule = order[k].id /\ k <= rule
                         /\ k = rule => t.match.span[2] <= cursor
                  BY RuleAtHand DEF TakenInv, TakenBehind
            <3>2. t.match.span[1] \in Nat /\ t.match.span[2] \in Nat
                  BY RuleAtHand DEF TakenInv, TakenBehind
            <3>3. k = rule => t.match.span[2] <= cursor + 1
                  BY <3>1, <3>2, RuleAtHand
            <3>4. QED BY <3>1, <3>2, <3>3
      <2>2. QED
            BY <1>1, <2>1, RuleAtHand DEF TakenBehind
<1>7. QED
      BY <1>4, <1>5, <1>6 DEF TakenInv

\* The next rule begins when nothing of this one is left in the text.
LEMMA TakenFinished ==
    ASSUME PlaceInv, TakenInv, ScanText, NextRule(order[rule])
    PROVE  TakenInv'
<1>1. /\ rule' = rule + 1 /\ cursor' = 0 /\ UNCHANGED <<taken, hits>>
      /\ Searches(order[rule]) => Found(order[rule], Text, cursor) = {}
      BY DEF NextRule
<1>2. Covered'
      <2>1. ASSUME NEW k \in 1..Len(order), NEW n \in Occurrences(order[k], Text),
                   n.span[1] < n.span[2], ScannedBy(k, n.span[1])',
                   ~GivesUp(order[k], Text, 0)
            PROVE  ScannedBy(k, n.span[1])
            <3>1. n.span[1] \in 0..Len(Text) /\ n.span[2] \in 0..Len(Text)
                  BY RuleAtHand, OccurrenceShape
            <3>2. k <= rule
                  BY <1>1, <2>1, <3>1, RuleAtHand DEF ScannedBy
            <3>3. CASE k = rule
                  <4>1. CASE cursor >= Len(Text)
                        BY <2>1, <3>1, <3>3, <4>1, RuleAtHand DEF ScannedBy
                  <4>2. CASE cursor < Len(Text)
                        <5>1. order[k].budget \in Nat
                              BY RuleAtHand DEF DetectionAssumption
                        <5>2. ~GivesUp(order[k], Text, cursor)
                              BY <2>1, <5>1, RuleAtHand DEF GivesUp
                        <5>3. Found(order[k], Text, cursor) = {}
                              BY <1>1, <3>3, <4>2, <5>2 DEF Searches
                        <5>4. ~(n.span[1] >= cursor)
                              BY <5>3 DEF Found
                        <5>5. QED BY <3>1, <3>3, <5>4, RuleAtHand DEF ScannedBy
                  <4>3. QED BY <4>1, <4>2, RuleAtHand
            <3>4. CASE k < rule
                  BY <3>4 DEF ScannedBy
            <3>5. QED BY <3>2, <3>3, <3>4, RuleAtHand
      <2>2. ASSUME NEW k \in 1..Len(order), NEW n \in Occurrences(order[k], Text),
                   n.span[1] < n.span[2], ScannedBy(k, n.span[1])',
                   ~GivesUp(order[k], Text, 0)
            PROVE  \E u \in taken : /\ u.rule = order[k].id
                                    /\ u.match.span[1] <= n.span[1]
                                    /\ n.span[1] < u.match.span[2]
            <3>1. ScannedBy(k, n.span[1])
                  BY <2>1, <2>2
            <3>2. QED
                  BY <2>2, <3>1, RuleAtHand DEF Covered, TakenInv
      <2>3. order' = order /\ Text' = Text /\ taken' = taken
            BY <1>1, RuleAtHand
      <2>4. QED
            BY <2>2, <2>3 DEF Covered
<1>3. Apart' /\ HitsExact'
      <2>1. Text' = Text /\ UNCHANGED <<taken, hits>>
            BY <1>1, RuleAtHand
      <2>2. Apart /\ HitsExact
            BY RuleAtHand DEF TakenInv
      <2>3. Apart'
            BY <2>1, <2>2 DEF Apart
      <2>4. QED BY <2>1, <2>2, <2>3 DEF HitsExact
<1>4. TakenBehind'
      <2>1. order' = order /\ rule \in 1..Len(order) /\ Len(order) \in Nat
            BY RuleAtHand
      <2>2. ASSUME NEW t \in taken
            PROVE  /\ t.match.span[1] \in Nat /\ t.match.span[2] \in Nat
                   /\ \E k \in 1..Len(order) :
                         t.rule = order[k].id /\ k <= rule' /\ k # rule'
            <3>1. TakenBehind
                  BY RuleAtHand DEF TakenInv
            <3>2. QED BY <1>1, <2>1, <2>2, <3>1 DEF TakenBehind
      <2>3. QED BY <1>1, <2>1, <2>2 DEF TakenBehind
<1>5. QED
      BY <1>2, <1>3, <1>4 DEF TakenInv

LEMMA UpTo ==
    ASSUME NEW a \in Nat, NEW b \in Nat, NEW c \in Nat, a <= b, b <= c
    PROVE  a <= c
OBVIOUS

\* The match at hand is the leftmost that is left, so it covers every place up
\* to its end at which the rule matches, and overlaps none of the earlier ones.
LEMMA TakenMatch ==
    ASSUME PlaceInv, JudgedInv, TakenInv, ScanText,
           NEW m \in Leftmost(Found(order[rule], Text, cursor)),
           TakeMatch(order[rule], m)
    PROVE  TakenInv'
<1> DEFINE r == order[rule]
           new == [rule |-> r.id, match |-> m]
<1>1. /\ m.span[2] > cursor /\ cursor' = m.span[2] /\ rule' = rule
      /\ taken' = taken \cup {new}
      /\ hits' = IF RuleFilters(r, Text, m.value) THEN Append(hits, HitOf(r, m)) ELSE hits
      BY DEF TakeMatch, AfterMatch
<1>2. /\ m \in Occurrences(r, Text) /\ m.span[1] >= cursor
      /\ \A n \in Occurrences(r, Text) : n.span[1] >= cursor => m.span[1] <= n.span[1]
      BY DEF Leftmost, Found
<1>3. /\ m.span[1] \in 0..Len(Text) /\ m.span[2] \in 0..Len(Text)
      /\ m.span[1] \in Nat /\ m.span[2] \in Nat /\ cursor \in Nat
      /\ rule \in Nat
      BY <1>2, RuleAtHand, OccurrenceShape
<1>4. order' = order /\ Text' = Text
      BY RuleAtHand
<1>5. Covered'
      <2>1. ASSUME NEW k \in 1..Len(order), NEW n \in Occurrences(order[k], Text),
                   n.span[1] < n.span[2], ScannedBy(k, n.span[1])',
                   ~GivesUp(order[k], Text, 0)
            PROVE  \E u \in taken' : /\ u.rule = order[k].id
                                     /\ u.match.span[1] <= n.span[1]
                                     /\ n.span[1] < u.match.span[2]
            <3>1. n.span[1] \in Nat
                  BY RuleAtHand, OccurrenceShape
            <3>2. CASE ScannedBy(k, n.span[1])
                  <4>1. \E u \in taken : /\ u.rule = order[k].id
                                         /\ u.match.span[1] <= n.span[1]
                                         /\ n.span[1] < u.match.span[2]
                        BY <2>1, <3>2, RuleAtHand DEF Covered, TakenInv
                  <4>2. QED BY <1>1, <4>1
            <3>3. CASE ~ScannedBy(k, n.span[1])
                  <4>1. k = rule /\ n.span[1] >= cursor /\ n.span[1] < m.span[2]
                        BY <1>1, <1>3, <2>1, <3>1, <3>3 DEF ScannedBy
                  <4>2. m.span[1] <= n.span[1]
                        BY <1>2, <4>1
                  <4>3. new \in taken' /\ new.rule = order[k].id /\ new.match = m
                        BY <1>1, <4>1
                  <4>4. QED BY <4>1, <4>2, <4>3
            <3>4. QED BY <3>2, <3>3
      <2>2. QED
            BY <1>4, <2>1 DEF Covered
<1>6. \A u \in taken : u.rule = r.id =>
          u.match.span[2] <= m.span[1] /\ u.match.span[2] <= m.span[2]
      <2> TAKE u \in taken
      <2> HAVE u.rule = r.id
      <2>1. PICK k \in 1..Len(order) :
                /\ u.rule = order[k].id
                /\ k = rule => u.match.span[2] <= cursor
            BY RuleAtHand DEF TakenInv, TakenBehind
      <2>2. k = rule
            BY <2>1, RuleAtHand
      <2>3. u.match.span[2] \in Nat
            BY RuleAtHand DEF TakenInv, TakenBehind
      <2>4. u.match.span[2] <= cursor
            BY <2>1, <2>2
      <2>5. cursor <= m.span[1] /\ cursor <= m.span[2]
            BY <1>1, <1>2, <1>3
      <2>6. QED BY <1>3, <2>3, <2>4, <2>5, UpTo
<1>7. Apart'
      <2>1. ASSUME NEW t \in taken', NEW u \in taken', t.rule = u.rule, t # u
            PROVE  t.match.span[2] <= u.match.span[1] \/ u.match.span[2] <= t.match.span[1]
            <3>1. CASE t \in taken /\ u \in taken
                  BY <2>1, <3>1, RuleAtHand DEF Apart, TakenInv
            <3>2. CASE t = new /\ u \in taken
                  BY <1>6, <2>1, <3>2
            <3>3. CASE u = new /\ t \in taken
                  BY <1>6, <2>1, <3>3
            <3>4. QED BY <1>1, <2>1, <3>1, <3>2, <3>3
      <2>2. QED BY <2>1 DEF Apart
<1>8. HitsExact'
      <2> DEFINE filtered(T) == {t \in T : RuleFilters(RuleOf(t.rule), Text, t.match.value)}
                 places(T) == {<<t.rule, t.match.span>> : t \in filtered(T)}
                 shown == {<<hits[i].rule, hits[i].span>> : i \in 1..Len(hits)}
                 shownNext == {<<hits'[i].rule, hits'[i].span>> : i \in 1..Len(hits')}
      <2>1. RuleOf(new.rule) = r
            BY RuleAtHand, RuleOfId
      <2>2. shown = places(taken)
            BY RuleAtHand DEF HitsExact, TakenInv
      <2>3. CASE RuleFilters(r, Text, m.value)
            <3> DEFINE h == HitOf(r, m)
            <3>1. h.rule = r.id /\ h.span = m.span
                  BY DEF HitOf
            <3>2. /\ hits' = Append(hits, h) /\ Len(hits) \in Nat
                  /\ Len(hits') = Len(hits) + 1 /\ hits'[Len(hits) + 1] = h
                  /\ \A i \in 1..Len(hits) : hits'[i] = hits[i]
                  BY <1>1, <2>3, ListGrows DEF JudgedInv
            <3> HIDE DEF h
            <3>3. shownNext = shown \cup {<<r.id, m.span>>}
                  <4>1. \A i \in 1..Len(hits') : i \in 1..Len(hits) \/ i = Len(hits) + 1
                        BY <3>2
                  <4>2. ASSUME NEW c \in shownNext
                        PROVE  c \in shown \cup {<<r.id, m.span>>}
                        <5>1. PICK i \in 1..Len(hits') : c = <<hits'[i].rule, hits'[i].span>>
                              BY <4>2
                        <5>2. CASE i \in 1..Len(hits)
                              BY <3>2, <5>1, <5>2
                        <5>3. CASE i = Len(hits) + 1
                              BY <3>1, <3>2, <5>1, <5>3
                        <5>4. QED BY <4>1, <5>2, <5>3
                  <4>3. ASSUME NEW c \in shown PROVE c \in shownNext
                        <5>1. PICK i \in 1..Len(hits) : c = <<hits[i].rule, hits[i].span>>
                              BY <4>3
                        <5>2. i \in 1..Len(hits') /\ hits'[i] = hits[i]
                              BY <3>2
                        <5>3. QED BY <5>1, <5>2
                  <4>4. <<r.id, m.span>> \in shownNext
                        <5>1. Len(hits) + 1 \in 1..Len(hits')
                              BY <3>2
                        <5>2. QED BY <3>1, <3>2, <5>1
                  <4>5. QED BY <4>2, <4>3, <4>4
            <3>4. filtered(taken') = filtered(taken) \cup {new}
                  BY <1>1, <2>1, <2>3
            <3>5. places(taken') = places(taken) \cup {<<r.id, m.span>>}
                  <4>1. new.rule = r.id /\ new.match.span = m.span
                        OBVIOUS
                  <4> HIDE DEF filtered, new
                  <4>2. QED BY <3>4, <4>1
            <3>6. shownNext = places(taken')
                  BY <2>2, <3>3, <3>5
            <3>7. QED BY <1>4, <3>6 DEF HitsExact
      <2>4. CASE ~RuleFilters(r, Text, m.value)
            <3>1. hits' = hits
                  BY <1>1, <2>4
            <3>2. filtered(taken') = filtered(taken)
                  BY <1>1, <2>1, <2>4
            <3>3. shownNext = places(taken')
                  BY <2>2, <3>1, <3>2
            <3>4. QED BY <1>4, <3>3 DEF HitsExact
      <2>5. QED BY <2>3, <2>4
<1>9. TakenBehind'
      <2>1. ASSUME NEW t \in taken
            PROVE  /\ t.match.span[1] \in Nat /\ t.match.span[2] \in Nat
                   /\ \E k \in 1..Len(order) :
                         /\ t.rule = order[k].id /\ k <= rule
                         /\ k = rule => t.match.span[2] <= m.span[2]
            BY <1>6, RuleAtHand DEF TakenInv, TakenBehind
      <2>2. rule \in 1..Len(order) /\ rule <= rule
            BY <1>3, RuleAtHand
      <2>3. new.rule = order[rule].id /\ new.match = m /\ m.span[2] <= m.span[2]
            BY <1>3
      <2>4. QED
            BY <1>1, <1>3, <1>4, <2>1, <2>2, <2>3 DEF TakenBehind
<1>10. QED
       BY <1>5, <1>7, <1>8, <1>9 DEF TakenInv

MissInv == ScanInv /\ TakenInv

LEMMA MissInit == Init => MissInv
<1>1. Init => TakenInv
      BY DEF Init, TakenInv, InSegment
<1>2. QED
      BY <1>1, ScanInit DEF MissInv

LEMMA TakenStep == MissInv /\ [Next]_vars => TakenInv'
<1> SUFFICES ASSUME MissInv, [Next]_vars PROVE TakenInv'
    OBVIOUS
<1> USE DEF MissInv, ScanInv
<1>1. CASE OpenSegment
      BY <1>1, TakenOpened
<1>2. CASE ScanText
      <2> DEFINE r == order[rule]
      <2>1. CASE NextRule(r)
            BY <1>2, <2>1, TakenFinished
      <2>2. CASE Searches(r) /\ \E m \in Leftmost(Found(r, Text, cursor)) :
                     SkipEmpty(r, m) \/ TakeMatch(r, m)
            BY <1>2, <2>2, TakenSkipped, TakenMatch
      <2>3. QED BY <1>2, <2>1, <2>2 DEF ScanText
<1>3. CASE RulesDone \/ JudgeHit \/ HitsJudged \/ SearchPairs \/ TakePair
      <2>1. InSegment /\ UNCHANGED scanVars
            BY <1>3 DEF RulesDone, JudgeHit, HitsJudged, SearchPairs, TakePair,
                        InSegment, scanVars, ruleVars, placeVars
      <2>2. QED BY <2>1, TakenKept
<1>4. CASE UNCHANGED vars
      <2>1. InSegment' = InSegment /\ UNCHANGED scanVars
            BY <1>4 DEF vars, InSegment, scanVars, ruleVars, placeVars
      <2>2. QED BY <2>1, TakenKept DEF TakenInv
<1>5. CASE Load \/ (\E i \in Issues : Pick(i)) \/ CloseSegment \/ Collect \/ StartDedup
           \/ Insert \/ Report \/ (\E newOrder \in RuleOrders : Rescan(newOrder))
      <2>1. ~InSegment'
            BY <1>5 DEF Load, Pick, CloseSegment, Collect, StartDedup, Insert, Report,
                        Rescan, InSegment
      <2>2. QED BY <2>1 DEF TakenInv
<1>6. QED
      BY <1>1, <1>2, <1>3, <1>4, <1>5 DEF Next, Scan

\* For any rules and any text, once a rule has scanned past a place at which its
\* expression matches, it has taken a match that covers the place; it takes no
\* place twice; and the hits are exactly the matches that pass its filters.
THEOREM NoMatchMissed == Spec => []NothingMissed
<1>1. MissInv => NothingMissed
      BY DEF MissInv, TakenInv, NothingMissed, Covered, Apart, HitsExact
<1>2. MissInv /\ [Next]_vars => MissInv'
      BY ScanStep, TakenStep DEF MissInv
<1>3. QED
      BY MissInit, <1>1, <1>2, PTL DEF Spec

-----------------------------------------------------------------------------
(* The hits.                                                               *)

LEMMA SliceOfText ==
    ASSUME NEW text \in Texts, NEW from \in Nat, NEW to \in 0..Len(text)
    PROVE  Slice(text, from, to) \in Texts
<1>1. Len(text) \in Nat
      BY LenProperties DEF Texts
<1>2. \A i \in (from + 1)..to : i \in 1..Len(text)
      BY <1>1
<1>3. \A i \in (from + 1)..to : text[i] \in Cells
      BY <1>2, ElementOfSeq DEF Texts
<1>4. from + 1 \in Int /\ to \in Int
      BY <1>1
<1>5. QED
      BY <1>3, <1>4, SubSeqProperties DEF Slice, Texts

\* The value of a match lies inside the text.
LEMMA ValueShape ==
    ASSUME NEW r \in Rules, NEW text \in Texts, NEW m \in Occurrences(r, text)
    PROVE  /\ m.value[1] \in 0..Len(text)
           /\ m.value[2] \in 0..Len(text)
           /\ m.value[1] <= m.value[2]
<1>1. PICK a \in 1..Len(r.alternatives), from \in 0..Len(text) :
          m = MatchOf(r.alternatives[a], from)
      BY DEF Occurrences
<1> DEFINE alternative == r.alternatives[a]
           wordLen == Len(alternative.word)
           textLen == Len(text)
<1>2. alternative \in Alternative
      BY ElementOfSeq DEF DetectionAssumption
<1>3. textLen \in Nat /\ wordLen \in Nat
      BY <1>2, LenProperties DEF Texts, Alternative
<1>4. m.span = <<from, from + wordLen>>
      BY <1>1 DEF MatchOf
<1>5. from + wordLen \in 0..textLen /\ from \in 0..textLen
      BY <1>4, OccurrenceShape
<1>6. CASE alternative.group = <<>>
      <2>1. m.value = <<from, from + wordLen>>
            BY <1>1, <1>6 DEF MatchOf
      <2> HIDE DEF wordLen, textLen
      <2>2. m.value[1] \in 0..textLen /\ m.value[2] \in 0..textLen /\ m.value[1] <= m.value[2]
            BY <1>3, <1>5, <2>1
      <2>3. QED BY <2>2 DEF textLen
<1>7. CASE alternative.group # <<>>
      <2> DEFINE g == alternative.group
      <2>1. m.value = <<from + g[1], from + g[2]>>
            BY <1>1, <1>7 DEF MatchOf
      <2>2. g[1] \in Nat /\ g[2] \in Nat /\ g[1] <= g[2] /\ g[2] <= wordLen
            BY <1>2, <1>7 DEF Alternative, DetectionAssumption
      <2> HIDE DEF wordLen, textLen, g
      <2>3. /\ from + g[1] \in 0..textLen /\ from + g[2] \in 0..textLen
            /\ from + g[1] <= from + g[2]
            <3> DEFINE a1 == g[1]
                       a2 == g[2]
            <3>1. /\ a1 \in Nat /\ a2 \in Nat /\ a1 <= a2 /\ a2 <= wordLen
                  /\ from \in Nat /\ from + wordLen <= textLen
                  BY <1>3, <1>5, <2>2
            <3> HIDE DEF a1, a2
            <3>2. /\ from + a1 \in 0..textLen /\ from + a2 \in 0..textLen
                  /\ from + a1 <= from + a2
                  BY <1>3, <3>1
            <3>3. QED BY <3>2 DEF a1, a2
      <2>4. m.value[1] = from + g[1] /\ m.value[2] = from + g[2]
            BY <2>1
      <2>5. QED BY <2>3, <2>4 DEF textLen
<1>8. QED
      BY <1>6, <1>7

\* A hit holds texts, and the place of the value in its snippet.
HitTyped(h) ==
    /\ h.secret \in Texts /\ h.snippet \in Texts
    /\ h.inSnippet[1] \in Nat /\ h.inSnippet[2] \in Nat

LEMMA HitOfTyped ==
    ASSUME Text \in Texts, NEW r \in Rules, NEW m \in Occurrences(r, Text)
    PROVE  HitTyped(HitOf(r, m))
<1> DEFINE v1 == m.value[1]
           v2 == m.value[2]
           N == Len(Text)
<1>1. v1 \in 0..N /\ v2 \in 0..N /\ v1 <= v2
      BY ValueShape
<1>2. N \in Nat /\ SnippetRadius \in Nat
      BY LenProperties DEF Texts, DetectionAssumption
<1> DEFINE lo0 == IF v1 <= SnippetRadius THEN 0 ELSE v1 - SnippetRadius
           hi0 == IF v2 + SnippetRadius >= N THEN N ELSE v2 + SnippetRadius
<1>3. /\ lo0 \in Nat /\ hi0 \in 0..N /\ v1 \in Nat
      /\ v1 - lo0 \in Nat /\ v2 - lo0 \in Nat
      <2> HIDE DEF v1, v2, N
      <2> QED BY <1>1, <1>2
<1>4. Slice(Text, v1, v2) \in Texts /\ Slice(Text, lo0, hi0) \in Texts
      <2> HIDE DEF lo0, hi0
      <2> QED BY <1>1, <1>3, SliceOfText
<1>5. Snippet(Text, m.value) = Slice(Text, lo0, hi0)
      BY DEF Snippet, ContextWindow
<1>6. SpanInSnippet(m.value) = <<v1 - lo0, v2 - lo0>>
      BY DEF SpanInSnippet
<1> HIDE DEF lo0, hi0
<1>7. QED
      BY <1>3, <1>4, <1>5, <1>6 DEF HitTyped, HitOf

-----------------------------------------------------------------------------
(* The findings of the rules.                                              *)

\* The hits among the first n that are to be reported.
DueTo(n) == {j \in 1..n : Reportable(hits[j])}

\* The first n hits were judged: each of those that are to be reported gave one
\* finding, and the findings of the segment without a username are those.
VerdictsUpTo(n) ==
    \E f \in Bijection(OfRules, DueTo(n)) : \A i \in OfRules : findings[i] = FindingOf(hits[f[i]])

\* What a verdict depends on.
verdictVars == <<records, floor, issue, segments, segment, before, hits>>

LEMMA VerdictsKept ==
    ASSUME UNCHANGED <<verdictVars, findings>>, NEW n, VerdictsUpTo(n)
    PROVE  VerdictsUpTo(n)'
<1>1. OfRules' = OfRules /\ findings' = findings
      BY DEF OfRules, verdictVars
<1>2. \A h : FindingOf(h)' = FindingOf(h) /\ Reportable(h)' = Reportable(h)
      BY DEF FindingOf, Reportable, verdictVars, Here, Text, Path
<1>3. DueTo(n)' = DueTo(n)
      BY <1>2 DEF DueTo, verdictVars
<1>4. hits' = hits
      BY DEF verdictVars
<1>5. QED
      BY <1>1, <1>2, <1>3, <1>4 DEF VerdictsUpTo

\* When a segment is opened, or when nothing of it was judged, it has no findings.
LEMMA NothingJudged ==
    ASSUME before \in Nat, before = Len(findings)
    PROVE  VerdictsUpTo(0)
<1>1. OfRules = {}
      BY DEF OfRules
<1>2. DueTo(0) = {}
      BY DEF DueTo
<1> DEFINE f == [i \in {} |-> 0]
<1>3. f \in Bijection({}, {})
      BY Fun_IsBij
<1>4. QED
      BY <1>1, <1>2, <1>3 DEF VerdictsUpTo

\* What an appended finding does to those of the rules.
LEMMA OfRulesGrows ==
    ASSUME before \in 0..Len(findings), IsList(findings), UNCHANGED before, NEW f,
           findings' = Append(findings, f)
    PROVE  LET new == Len(findings) + 1
           IN  /\ OfRules' = IF f.username = NoUser THEN OfRules \cup {new} ELSE OfRules
               /\ new \notin OfRules
               /\ findings'[new] = f
               /\ \A i \in OfRules : findings'[i] = findings[i]
<1> DEFINE new == Len(findings) + 1
<1>1. /\ Len(findings) \in Nat /\ Len(findings') = new /\ findings'[new] = f
      /\ \A i \in 1..Len(findings) : findings'[i] = findings[i]
      BY ListGrows
<1>2. /\ (before + 1)..new = ((before + 1)..Len(findings)) \cup {new}
      /\ \A i \in (before + 1)..Len(findings) : i \in 1..Len(findings) /\ i # new
      BY <1>1
<1> HIDE DEF new
<1>3. OfRules' = {i \in (before + 1)..new : findings'[i].username = NoUser}
      BY <1>1 DEF OfRules
<1>4. ASSUME NEW i \in (before + 1)..Len(findings) PROVE findings'[i] = findings[i] /\ i # new
      BY <1>1, <1>2
<1>5. QED
      BY <1>1, <1>2, <1>3, <1>4 DEF OfRules, new

\* The next hit is judged.
LEMMA NextVerdict ==
    ASSUME before \in 0..Len(findings), IsList(findings), UNCHANGED verdictVars,
           NEW n \in Nat, VerdictsUpTo(n),
           findings' = IF Reportable(hits[n + 1]) THEN Append(findings, FindingOf(hits[n + 1]))
                       ELSE findings
    PROVE  VerdictsUpTo(n + 1)'
<1> DEFINE h == hits[n + 1]
           new == Len(findings) + 1
<1>1. PICK f \in Bijection(OfRules, DueTo(n)) :
          \A i \in OfRules : findings[i] = FindingOf(hits[f[i]])
      BY DEF VerdictsUpTo
<1>2. /\ f \in [OfRules -> DueTo(n)]
      /\ \A i, j \in OfRules : f[i] = f[j] => i = j
      /\ \A t \in DueTo(n) : \E i \in OfRules : f[i] = t
      BY <1>1, Fun_BijectionProperties
<1>3. \A k : FindingOf(k)' = FindingOf(k) /\ Reportable(k)' = Reportable(k)
      BY DEF FindingOf, Reportable, verdictVars, Here, Text, Path
<1>4. hits' = hits /\ before' = before
      BY DEF verdictVars
<1>5. /\ DueTo(n + 1)' = IF Reportable(h) THEN DueTo(n) \cup {n + 1} ELSE DueTo(n)
      /\ n + 1 \notin DueTo(n)
      <2>1. 1..(n + 1) = (1..n) \cup {n + 1} /\ n + 1 \notin 1..n
            OBVIOUS
      <2>2. DueTo(n + 1)' = {j \in 1..(n + 1) : Reportable(hits[j])}
            BY <1>3, <1>4 DEF DueTo
      <2>3. QED BY <2>1, <2>2 DEF DueTo
<1>6. CASE Reportable(h)
      <2>1. findings' = Append(findings, FindingOf(h))
            BY <1>6
      <2>2. FindingOf(h).username = NoUser
            BY DEF FindingOf
      <2>3. /\ OfRules' = OfRules \cup {new} /\ new \notin OfRules
            /\ findings'[new] = FindingOf(h)
            /\ \A i \in OfRules : findings'[i] = findings[i]
            BY <1>4, <2>1, <2>2, OfRulesGrows
      <2>4. DueTo(n + 1)' = DueTo(n) \cup {n + 1}
            BY <1>5, <1>6
      <2> DEFINE g == [i \in OfRules \cup {new} |-> IF i = new THEN n + 1 ELSE f[i]]
      <2> HIDE DEF new, h
      <2>5. g \in Bijection(OfRules \cup {new}, DueTo(n) \cup {n + 1})
            <3>1. g \in [OfRules \cup {new} -> DueTo(n) \cup {n + 1}]
                  BY <1>2
            <3>2. ASSUME NEW i \in OfRules \cup {new}, NEW j \in OfRules \cup {new}, g[i] = g[j]
                  PROVE  i = j
                  BY <1>2, <1>5, <3>2
            <3>3. ASSUME NEW t \in DueTo(n) \cup {n + 1}
                  PROVE  \E i \in OfRules \cup {new} : g[i] = t
                  BY <1>2, <2>3
            <3> HIDE DEF g
            <3>4. QED BY <3>1, <3>2, <3>3, Fun_IsBij
      <2>6. ASSUME NEW i \in OfRules \cup {new}
            PROVE  findings'[i] = FindingOf(hits[g[i]])
            <3>1. CASE i = new
                  BY <2>3, <3>1 DEF h
            <3>2. CASE i \in OfRules
                  BY <1>1, <2>3, <3>2
            <3>3. QED BY <3>1, <3>2
      <2> HIDE DEF g
      <2>7. QED
            BY <1>3, <1>4, <2>3, <2>4, <2>5, <2>6 DEF VerdictsUpTo
<1>7. CASE ~Reportable(h)
      <2>1. findings' = findings /\ OfRules' = OfRules
            BY <1>4, <1>7 DEF OfRules
      <2>2. DueTo(n + 1)' = DueTo(n)
            BY <1>5, <1>7
      <2>3. QED
            BY <1>1, <1>3, <1>4, <2>1, <2>2 DEF VerdictsUpTo
<1>8. QED
      BY <1>6, <1>7

\* A pair is none of them.
LEMMA PairIsNoVerdict ==
    ASSUME before \in 0..Len(findings), IsList(findings), UNCHANGED verdictVars,
           NEW n, VerdictsUpTo(n), NEW pair, findings' = Append(findings, PairFinding(pair))
    PROVE  VerdictsUpTo(n)'
<1>1. PairFinding(pair).username # NoUser
      BY DEF PairFinding, NoUser
<1>2. before' = before /\ hits' = hits
      BY DEF verdictVars
<1>3. OfRules' = OfRules /\ \A i \in OfRules : findings'[i] = findings[i]
      BY <1>1, <1>2, OfRulesGrows
<1>4. \A h : FindingOf(h)' = FindingOf(h) /\ Reportable(h)' = Reportable(h)
      BY DEF FindingOf, Reportable, verdictVars, Here, Text, Path
<1>5. DueTo(n)' = DueTo(n)
      BY <1>2, <1>4 DEF DueTo
<1>6. PICK f \in Bijection(OfRules, DueTo(n)) :
          \A i \in OfRules : findings[i] = FindingOf(hits[f[i]])
      BY DEF VerdictsUpTo
<1>7. \A i \in OfRules : findings'[i] = FindingOf(hits[f[i]])'
      BY <1>2, <1>3, <1>4, <1>6
<1>8. QED
      BY <1>2, <1>3, <1>5, <1>6, <1>7 DEF VerdictsUpTo

\* The allowlist was loaded, and what the judging of a segment works on.
LoadedInv == stage \notin {"load", "refused"} => Loads(records)
HitsInv == InSegment => \A i \in 1..Len(hits) : HitTyped(hits[i])
BeforeInv ==
    /\ before \in 0..Len(findings)
    /\ stage \in {"segment", "rules"} => before = Len(findings)
JudgingInv ==
    /\ stage = "judge" => VerdictsUpTo(judged)
    /\ stage = "pairs" =>
          \E n \in 0..Len(hits) : VerdictsUpTo(n) /\ (~Full => n = Len(hits))

VerdictInv == ScanInv /\ LoadedInv /\ HitsInv /\ BeforeInv /\ JudgingInv

LEMMA VerdictInit == Init => VerdictInv
<1> SUFFICES ASSUME Init PROVE VerdictInv
    OBVIOUS
<1>1. ScanInv
      BY ScanInit
<1>2. LoadedInv /\ HitsInv /\ JudgingInv
      BY DEF Init, LoadedInv, HitsInv, JudgingInv, InSegment
<1>3. BeforeInv
      BY EmptySeq DEF Init, BeforeInv
<1>4. QED
      BY <1>1, <1>2, <1>3 DEF VerdictInv

LEMMA LoadedStep == LoadedInv /\ [Next]_vars => LoadedInv'
<1> SUFFICES ASSUME LoadedInv, [Next]_vars PROVE LoadedInv'
    OBVIOUS
<1> USE DEF LoadedInv
<1>1. records' = records
      BY DEF Next, Scan, Load, Pick, OpenSegment, ScanText, RulesDone, JudgeHit, HitsJudged,
             SearchPairs, TakePair, CloseSegment, Collect, StartDedup, Insert, Report,
             Rescan, vars, configVars
<1>2. CASE Load
      BY <1>1, <1>2 DEF Load
<1>3. CASE ~Load
      <2>1. stage' \notin {"load", "refused"} => stage \notin {"load", "refused"}
            BY <1>3 DEF Next, Scan, Load, Pick, OpenSegment, ScanText, RulesDone, JudgeHit,
                   HitsJudged, SearchPairs, TakePair, CloseSegment, Collect, StartDedup,
                   Insert, Report, Rescan, vars
      <2>2. QED BY <1>1, <2>1
<1>4. QED
      BY <1>2, <1>3

LEMMA HitsStep == ScanInv /\ HitsInv /\ [Next]_vars => HitsInv'
<1> SUFFICES ASSUME ScanInv, HitsInv, [Next]_vars PROVE HitsInv'
    OBVIOUS
<1>1. CASE OpenSegment
      BY <1>1, EmptySeq DEF OpenSegment, HitsInv
<1>2. CASE ScanText
      <2>1. InSegment /\ \A i \in 1..Len(hits) : HitTyped(hits[i])
            BY <1>2, RuleAtHand DEF ScanInv, HitsInv
      <2> DEFINE r == order[rule]
      <2>2. ASSUME NEW m, m \in Leftmost(Found(r, Text, cursor)), TakeMatch(r, m),
                   RuleFilters(r, Text, m.value)
            PROVE  \A i \in 1..Len(hits') : HitTyped(hits'[i])
            <3>1. hits' = Append(hits, HitOf(r, m))
                  BY <2>2 DEF TakeMatch
            <3>2. HitTyped(HitOf(r, m))
                  <4>1. r \in Rules /\ m \in Occurrences(r, Text) /\ Text \in Texts
                        BY <1>2, <2>2, RuleAtHand DEF ScanInv, Leftmost, Found
                  <4>2. QED BY <4>1, HitOfTyped
            <3>3. /\ Len(hits) \in Nat /\ Len(hits') = Len(hits) + 1
                  /\ hits'[Len(hits) + 1] = HitOf(r, m)
                  /\ \A i \in 1..Len(hits) : hits'[i] = hits[i]
                  BY <3>1, ListGrows DEF ScanInv, JudgedInv
            <3>4. \A i \in 1..Len(hits') : i \in 1..Len(hits) \/ i = Len(hits) + 1
                  BY <3>3
            <3>5. QED BY <2>1, <3>2, <3>3, <3>4
      <2>3. \/ hits' = hits
            \/ \E m \in Leftmost(Found(r, Text, cursor)) :
                  TakeMatch(r, m) /\ RuleFilters(r, Text, m.value)
            BY <1>2 DEF ScanText, SkipEmpty, TakeMatch, NextRule
      <2>4. QED BY <2>1, <2>2, <2>3 DEF HitsInv
<1>3. CASE RulesDone \/ JudgeHit \/ HitsJudged \/ SearchPairs \/ TakePair \/ UNCHANGED vars
      BY <1>3 DEF RulesDone, JudgeHit, HitsJudged, SearchPairs, TakePair, vars, ruleVars,
                  HitsInv, InSegment
<1>4. CASE Load \/ (\E i \in Issues : Pick(i)) \/ CloseSegment \/ Collect \/ StartDedup
           \/ Insert \/ Report \/ (\E newOrder \in RuleOrders : Rescan(newOrder))
      BY <1>4 DEF Load, Pick, CloseSegment, Collect, StartDedup, Insert, Report, Rescan,
                  InSegment, HitsInv
<1>5. QED
      BY <1>1, <1>2, <1>3, <1>4 DEF Next, Scan

LEMMA BeforeStep == ScanInv /\ BeforeInv /\ [Next]_vars => BeforeInv'
<1> SUFFICES ASSUME ScanInv, BeforeInv, [Next]_vars PROVE BeforeInv'
    OBVIOUS
<1> USE DEF BeforeInv
<1>0. IsList(findings) /\ Len(findings) \in Nat
      BY ListGrows DEF ScanInv, JudgedInv
<1>1. CASE \E i \in Issues : Pick(i)
      BY <1>1, EmptySeq DEF Pick
<1>2. CASE CloseSegment
      BY <1>0, <1>2 DEF CloseSegment
<1>3. CASE JudgeHit \/ TakePair
      <2>1. findings' = findings \/ \E f : findings' = Append(findings, f)
            BY <1>3 DEF JudgeHit, TakePair
      <2>2. Len(findings') \in Nat /\ Len(findings) <= Len(findings')
            BY <1>0, <2>1, ListGrows
      <2>3. before' = before /\ stage' \notin {"segment", "rules"}
            BY <1>3 DEF JudgeHit, TakePair, placeVars
      <2>4. QED BY <1>0, <2>2, <2>3
<1>4. CASE OpenSegment
      BY <1>4 DEF OpenSegment, placeVars
<1>5. CASE Load \/ ScanText \/ RulesDone \/ HitsJudged \/ SearchPairs \/ Collect \/ StartDedup
           \/ Insert \/ Report \/ (\E newOrder \in RuleOrders : Rescan(newOrder))
           \/ UNCHANGED vars
      BY <1>5 DEF Load, ScanText, RulesDone, HitsJudged, SearchPairs, Collect, StartDedup,
                  Insert, Report, Rescan, vars, placeVars
<1>6. QED
      BY <1>1, <1>2, <1>3, <1>4, <1>5 DEF Next, Scan

LEMMA JudgingStep == VerdictInv /\ [Next]_vars => JudgingInv'
<1> SUFFICES ASSUME VerdictInv, [Next]_vars PROVE JudgingInv'
    OBVIOUS
<1> USE DEF VerdictInv
<1>0. /\ IsList(findings) /\ IsList(hits) /\ Len(hits) \in Nat /\ Len(findings) \in Nat
      /\ before \in 0..Len(findings) /\ before \in Nat
      BY ListGrows DEF ScanInv, JudgedInv, BeforeInv
<1>1. CASE RulesDone
      <2>1. before = Len(findings) /\ UNCHANGED <<verdictVars, findings>>
            BY <1>1 DEF RulesDone, BeforeInv, verdictVars, configVars, placeVars, ruleVars
      <2>2. VerdictsUpTo(0)'
            BY <1>0, <2>1, NothingJudged, VerdictsKept
      <2>3. QED BY <1>1, <2>2 DEF RulesDone, JudgingInv
<1>2. CASE JudgeHit
      <2>1. /\ judged' = judged + 1 /\ stage = "judge" /\ stage' = "judge"
            /\ UNCHANGED verdictVars
            /\ findings' = IF Reportable(hits[judged + 1])
                           THEN Append(findings, FindingOf(hits[judged + 1])) ELSE findings
            BY <1>2 DEF JudgeHit, verdictVars, configVars, placeVars, ruleVars
      <2>2. judged \in Nat
            BY <2>1 DEF ScanInv, JudgedInv
      <2>3. VerdictsUpTo(judged)
            BY <2>1 DEF JudgingInv
      <2>4. \A n \in Nat : n = judged => VerdictsUpTo(n + 1)'
            BY <1>0, <2>1, <2>2, <2>3, NextVerdict
      <2>5. QED BY <2>1, <2>2, <2>4 DEF JudgingInv
<1>3. CASE HitsJudged
      <2>1. /\ stage = "judge" /\ stage' = "pairs" /\ (judged = Len(hits) \/ Full)
            /\ UNCHANGED <<verdictVars, findings, cap>>
            BY <1>3 DEF HitsJudged, verdictVars, configVars, placeVars, ruleVars
      <2>2. judged \in 0..Len(hits) /\ VerdictsUpTo(judged)
            BY <2>1 DEF ScanInv, JudgedInv, JudgingInv
      <2>3. \A n \in 0..Len(hits) : n = judged => VerdictsUpTo(n)'
            BY <2>1, <2>2, VerdictsKept
      <2>4. Len(hits') = Len(hits) /\ Full' = Full
            BY <2>1 DEF verdictVars, Full
      <2>5. QED BY <2>1, <2>2, <2>3, <2>4 DEF JudgingInv
<1>4. CASE TakePair
      <2>1. /\ stage = "pairs" /\ stage' = "pairs" /\ ~Full
            /\ UNCHANGED verdictVars
            /\ \/ findings' = findings
               \/ \E pair : findings' = Append(findings, PairFinding(pair))
            BY <1>4 DEF TakePair, verdictVars, configVars, placeVars, ruleVars
      <2>2. VerdictsUpTo(Len(hits))
            BY <2>1 DEF JudgingInv
      <2>3. \A n : n = Len(hits) => VerdictsUpTo(n)'
            <3>1. CASE findings' = findings
                  BY <2>1, <2>2, <3>1, VerdictsKept
            <3>2. CASE \E pair : findings' = Append(findings, PairFinding(pair))
                  BY <1>0, <2>1, <2>2, <3>2, PairIsNoVerdict
            <3>3. QED BY <2>1, <3>1, <3>2
      <2>4. Len(hits') = Len(hits)
            BY <2>1 DEF verdictVars
      <2>5. QED BY <1>0, <2>1, <2>3, <2>4 DEF JudgingInv
<1>5. CASE SearchPairs \/ UNCHANGED vars
      <2>1. UNCHANGED <<stage, judged, cap, verdictVars, findings>>
            BY <1>5 DEF SearchPairs, verdictVars, vars, configVars, placeVars, ruleVars
      <2>2. \A n : VerdictsUpTo(n) => VerdictsUpTo(n)'
            BY <2>1, VerdictsKept
      <2>3. stage = "judge" => VerdictsUpTo(judged)'
            <3>1. \A n : n = judged /\ VerdictsUpTo(n) => VerdictsUpTo(n)'
                  BY <2>2
            <3>2. QED BY <2>1, <3>1 DEF JudgingInv
      <2>4. Len(hits') = Len(hits) /\ Full' = Full
            BY <2>1 DEF verdictVars, Full
      <2>5. QED BY <2>1, <2>2, <2>3, <2>4 DEF JudgingInv
<1>6. CASE Load \/ (\E i \in Issues : Pick(i)) \/ OpenSegment \/ ScanText \/ CloseSegment
           \/ Collect \/ StartDedup \/ Insert \/ Report
           \/ (\E newOrder \in RuleOrders : Rescan(newOrder))
      BY <1>6 DEF Load, Pick, OpenSegment, ScanText, CloseSegment, Collect, StartDedup,
                  Insert, Report, Rescan, JudgingInv
<1>7. QED
      BY <1>1, <1>2, <1>3, <1>4, <1>5, <1>6 DEF Next, Scan

LEMMA VerdictStep == VerdictInv /\ [Next]_vars => VerdictInv'
BY ScanStep, LoadedStep, HitsStep, BeforeStep, JudgingStep DEF VerdictInv

-----------------------------------------------------------------------------
(* The verdicts, in the words of the documentation.                        *)

LEMMA PrefixSteps ==
    ASSUME NEW field, NEW path, IsList(field), IsList(path)
    PROVE  IsPrefix(field, path) <=> /\ Len(field) <= Len(path)
                                     /\ \A i \in 1..Len(field) : path[i] = field[i]
<1>1. PICK A : field \in Seq(A)
      BY DEF IsList
<1>2. PICK B : path \in Seq(B)
      BY DEF IsList
<1> DEFINE C == A \cup B
           n == Len(field)
<1>3. field \in Seq(C) /\ path \in Seq(C)
      BY <1>1, <1>2, SeqMonotonic
<1> HIDE DEF C
<1>4. n \in Nat /\ Len(path) \in Nat
      BY <1>3, LenProperties
<1>5. SubSeq(field, 1, n) = field
      BY <1>3, SubSeqFull
<1>6. ASSUME n <= Len(path)
      PROVE  SubSeq(field, 1, n) = SubSeq(path, 1, n) <=> \A i \in 1..n : path[i] = field[i]
      <2> DEFINE sub == SubSeq(path, 1, n)
      <2>1. \A i \in 1..n : i \in 1..Len(path)
            BY <1>4, <1>6
      <2>2. \A i \in 1..n : path[i] \in C
            BY <1>3, <2>1, ElementOfSeq
      <2>3. 1 \in Int /\ n \in Int
            BY <1>4
      <2>4. /\ sub \in Seq(C)
            /\ Len(sub) = IF 1 <= n THEN n - 1 + 1 ELSE 0
            /\ \A i \in 1..(n - 1 + 1) : sub[i] = path[1 + i - 1]
            BY <2>2, <2>3, SubSeqProperties
      <2> HIDE DEF sub, n
      <2>5. Len(sub) = n /\ \A i \in 1..n : sub[i] = path[i]
            <3>1. (IF 1 <= n THEN n - 1 + 1 ELSE 0) = n /\ n - 1 + 1 = n
                  BY <1>4
            <3>2. \A i \in 1..n : 1 + i - 1 = i
                  BY <1>4
            <3>3. QED BY <2>4, <3>1, <3>2
      <2>6. (\A i \in 1..n : path[i] = field[i]) => sub = field
            BY <1>3, <2>4, <2>5, SeqEqual DEF n
      <2>7. sub = field => \A i \in 1..n : path[i] = field[i]
            BY <2>5
      <2>8. QED BY <1>5, <2>6, <2>7 DEF sub
<1>7. QED
      BY <1>6 DEF IsPrefix, n

\* A record of a loaded file suppresses a hit exactly when it speaks of it.
LEMMA MatchesIfSpeaks ==
    ASSUME NEW h, HitTyped(h), IsList(Path), records \in Files, Loads(records),
           NEW k \in 1..Len(records)
    PROVE  EntryMatches(records[k], h.secret, h.rule, issue, Path) <=> Speaks(records[k], h)
<1> DEFINE record == records[k]
<1>1. h.secret # Unset
      BY FilesAssumption DEF HitTyped, FilesAssumption
<1>2. RecordUsable(record)
      BY DEF Loads
<1>3. record.field # Blank
      BY <1>2 DEF RecordUsable, Keys
<1>4. ScopeAdmits(record, Path) <=> (record.field # Unset => IsPrefix(record.field, Path))
      <2>1. CASE record.field = Unset
            BY <2>1 DEF ScopeAdmits
      <2>2. CASE record.field # Unset
            <3>1. record.field \in Seq(ToSet(record.field))
                  BY <1>3, <2>2, FilesAssumption DEF FilesAssumption
            <3>2. IsList(record.field)
                  BY <3>1 DEF IsList
            <3>3. QED BY <2>2, <3>2, PrefixSteps DEF ScopeAdmits
      <2>3. QED BY <2>1, <2>2
<1>5. NamesValue(record, h.secret) <=>
         \/ h.secret \in {record.value,
                          IF record.sha256 = Unset THEN Unset ELSE record.sha256.of}
         \/ record.pattern # Unset /\ Len(h.secret) <= record.pattern.budget
                                   /\ Includes(h.secret, record.pattern.word)
      BY <1>1 DEF NamesValue, PatternMatches
<1> HIDE DEF record
<1>6. EntryMatches(record, h.secret, h.rule, issue, Path) <=> Speaks(record, h)
      BY <1>4, <1>5 DEF EntryMatches, NamesPlace, Speaks
<1>7. QED
      BY <1>6 DEF record

LEMMA LowerOfTwo ==
    ASSUME NEW n \in 1..4
    PROVE  Min({3, n}) = IF n <= 3 THEN n ELSE 3
BY DEF Min

\* The confidence of the verdict is what the hit has earned.
LEMMA EarnedGrade ==
    ASSUME NEW h
    PROVE  /\ Grade[AdjustedConfidence(RuleOf(h.rule), Text, h.secret, h.span)] = Earned(h)
           /\ Earned(h) \in 1..3
<1> DEFINE base == ParsedConfidence(RuleOf(h.rule).confidence)
           near == HasContextWord(Text, h.span)
           random == Entropy(h.secret) > EntropyBoost
           placeholder == IsPlaceholder(h.secret)
           adjusted == AdjustConfidence(base, near, random, placeholder)
           sum == Grade[base] + (IF near /\ random THEN 1 ELSE 0)
                              - (IF near \/ random THEN 0 ELSE 1)
<1>1. base \in {"low", "medium", "high"}
      BY DEF ParsedConfidence, Confidences
<1>2. /\ AdjustedConfidence(RuleOf(h.rule), Text, h.secret, h.span) = adjusted
      /\ Earned(h) = IF placeholder \/ Grade[base] = 1 THEN 1 ELSE Min({3, sum})
      BY DEF AdjustedConfidence, Earned
<1>3. Grade["low"] = 1 /\ Grade["medium"] = 2 /\ Grade["high"] = 3
      BY DEF Grade
<1> HIDE DEF base, near, random, placeholder, adjusted, sum
<1>4. Grade[adjusted] = (IF placeholder \/ Grade[base] = 1 THEN 1 ELSE Min({3, sum}))
      /\ Grade[adjusted] \in 1..3
      <2>1. CASE placeholder
            <3>1. adjusted = "low"
                  BY <2>1 DEF adjusted, AdjustConfidence
            <3>2. QED BY <1>3, <2>1, <3>1
      <2>2. CASE ~placeholder /\ base = "low"
            <3>1. adjusted = "low"
                  BY <2>2 DEF adjusted, AdjustConfidence
            <3>2. QED BY <1>3, <2>2, <3>1
      <2>3. CASE ~placeholder /\ base = "medium"
            <3>1. CASE near /\ random
                  <4>1. adjusted = "high"
                        BY <2>3, <3>1 DEF adjusted, AdjustConfidence
                  <4>2. sum = 3
                        BY <1>3, <2>3, <3>1 DEF sum
                  <4>3. QED BY <1>3, <2>3, <4>1, <4>2, LowerOfTwo
            <3>2. CASE (near \/ random) /\ ~(near /\ random)
                  <4>1. adjusted = "medium"
                        BY <2>3, <3>2 DEF adjusted, AdjustConfidence
                  <4>2. sum = 2
                        BY <1>3, <2>3, <3>2 DEF sum
                  <4>3. QED BY <1>3, <2>3, <4>1, <4>2, LowerOfTwo
            <3>3. CASE ~(near \/ random)
                  <4>1. adjusted = "low"
                        BY <2>3, <3>3 DEF adjusted, AdjustConfidence
                  <4>2. sum = 1
                        BY <1>3, <2>3, <3>3 DEF sum
                  <4>3. QED BY <1>3, <2>3, <4>1, <4>2, LowerOfTwo
            <3>4. QED BY <3>1, <3>2, <3>3
      <2>4. CASE ~placeholder /\ base = "high"
            <3>1. CASE near \/ random
                  <4>1. adjusted = "high"
                        BY <2>4, <3>1 DEF adjusted, AdjustConfidence
                  <4>2. sum \in {3, 4}
                        BY <1>3, <2>4, <3>1 DEF sum
                  <4>3. sum \in 1..4 /\ (sum <= 3 => sum = 3)
                        BY <4>2
                  <4>4. Min({3, sum}) = 3
                        BY <4>3, LowerOfTwo
                  <4>5. QED BY <1>3, <2>4, <4>1, <4>4
            <3>2. CASE ~(near \/ random)
                  <4>1. adjusted = "medium"
                        BY <2>4, <3>2 DEF adjusted, AdjustConfidence
                  <4>2. sum = 2
                        BY <1>3, <2>4, <3>2 DEF sum
                  <4>3. QED BY <1>3, <2>4, <4>1, <4>2, LowerOfTwo
            <3>3. QED BY <3>1, <3>2
      <2>5. QED BY <1>1, <2>1, <2>2, <2>3, <2>4
<1>5. QED
      BY <1>2, <1>4

\* A hit is reported when nobody speaks of it and it earned the floor.
LEMMA ReportableIsDue ==
    ASSUME NEW h, HitTyped(h), IsList(Path), records \in Files, Loads(records)
    PROVE  Reportable(h) <=> /\ \A k \in 1..Len(records) : ~Speaks(records[k], h)
                             /\ Earned(h) >= Grade[ParsedConfidence(floor)]
<1>1. Allowlisted(records, h.secret, h.rule, issue, Path) <=>
         \E k \in 1..Len(records) : Speaks(records[k], h)
      BY MatchesIfSpeaks DEF Allowlisted
<1>2. Kept(RuleOf(h.rule), Text, h.secret, h.span, floor) <=>
         Earned(h) >= Grade[ParsedConfidence(floor)]
      <2>1. Grade[ParsedConfidence(floor)] \in 1..3
            BY DEF ParsedConfidence, Confidences, Grade
      <2>2. QED BY <2>1, EarnedGrade DEF Kept, BelowFloor
<1>3. QED
      BY <1>1, <1>2 DEF Reportable

LEMMA PathListed ==
    ASSUME PlaceInv, InSegment
    PROVE  IsList(Path)
<1>1. Len(segments) \in Nat /\ segment \in 1..Len(segments)
      BY SegmentsListed DEF PlaceInv
<1>2. issue \in Issues /\ segments = Extract(content[issue]) /\ content \in Contents
      BY <1>1 DEF PlaceInv
<1>3. Path \in Seq(ToSet(Path))
      BY <1>1, <1>2 DEF Path, DetectionAssumption
<1>4. QED
      BY <1>3 DEF IsList

\* For any rules, texts, allowlist and floor, the findings a segment has when its
\* pairs are looked for are the hits no record of the allowlist speaks of and that
\* earned the floor, one finding each; only the cap cuts them short.
THEOREM VerdictsExact == Spec => []VerdictsHonoured
<1>1. VerdictInv => VerdictsHonoured
      <2> SUFFICES ASSUME VerdictInv, stage = "pairs" PROVE VerdictsHonoured
          BY DEF VerdictsHonoured
      <2> DEFINE due == {i \in 1..Len(hits) :
                            /\ \A k \in 1..Len(records) : ~Speaks(records[k], hits[i])
                            /\ Earned(hits[i]) >= Grade[ParsedConfidence(floor)]}
                 Seen(i) == <<findings[i].secret, findings[i].rule, Grade[findings[i].confidence]>>
                 Due(i) == <<hits[i].secret, hits[i].rule, Earned(hits[i])>>
      <2>1. InSegment /\ PlaceInv /\ records \in Files /\ Loads(records)
            BY DEF InSegment, VerdictInv, ScanInv, PlaceInv, LoadedInv
      <2>2. due = DueTo(Len(hits))
            <3>1. \A i \in 1..Len(hits) : HitTyped(hits[i])
                  BY <2>1 DEF VerdictInv, HitsInv
            <3>2. IsList(Path)
                  BY <2>1, PathListed
            <3>3. \A i \in 1..Len(hits) : Reportable(hits[i]) <=> i \in due
                  BY <2>1, <3>1, <3>2, ReportableIsDue
            <3>4. QED BY <3>3 DEF DueTo
      <2> HIDE DEF due
      <2>3. PICK n \in 0..Len(hits) : VerdictsUpTo(n) /\ (~Full => n = Len(hits))
            BY DEF VerdictInv, JudgingInv
      <2>4. PICK f \in Bijection(OfRules, DueTo(n)) :
                \A i \in OfRules : findings[i] = FindingOf(hits[f[i]])
            BY <2>3 DEF VerdictsUpTo
      <2>5. DueTo(n) \subseteq due
            <3>1. Len(hits) \in Nat
                  BY ListGrows DEF VerdictInv, ScanInv, JudgedInv
            <3>2. \A i \in 1..n : i \in 1..Len(hits)
                  BY <3>1
            <3>3. QED BY <2>2, <3>2 DEF DueTo
      <2>6. /\ f \in [OfRules -> DueTo(n)]
            /\ \A t \in DueTo(n) : \E i \in OfRules : f[i] = t
            BY <2>4, Fun_BijectionProperties
      <2>7. \A i \in OfRules : Seen(i) = Due(f[i])
            <3> TAKE i \in OfRules
            <3>1. findings[i] = FindingOf(hits[f[i]])
                  BY <2>4
            <3>2. /\ findings[i].secret = hits[f[i]].secret
                  /\ findings[i].rule = hits[f[i]].rule
                  /\ findings[i].confidence =
                        AdjustedConfidence(RuleOf(hits[f[i]].rule), Text, hits[f[i]].secret,
                                           hits[f[i]].span)
                  BY <3>1 DEF FindingOf
            <3>3. QED BY <3>2, EarnedGrade
      <2> HIDE DEF Seen, Due
      <2>8. {Seen(i) : i \in OfRules} \subseteq {Due(i) : i \in due}
            BY <2>5, <2>6, <2>7
      <2>9. ~Full => /\ {Seen(i) : i \in OfRules} = {Due(i) : i \in due}
                     /\ Cardinality(OfRules) = Cardinality(due)
            <3> SUFFICES ASSUME ~Full
                         PROVE  /\ {Seen(i) : i \in OfRules} = {Due(i) : i \in due}
                                /\ Cardinality(OfRules) = Cardinality(due)
                OBVIOUS
            <3>1. DueTo(n) = due
                  BY <2>2, <2>3
            <3>2. {Seen(i) : i \in OfRules} = {Due(i) : i \in due}
                  BY <2>6, <2>7, <2>8, <3>1
            <3>3. IsFiniteSet(OfRules)
                  <4>1. before + 1 \in Int /\ Len(findings) \in Int
                        BY ListGrows DEF VerdictInv, BeforeInv, ScanInv, JudgedInv
                  <4>2. IsFiniteSet((before + 1)..Len(findings))
                        BY <4>1, FS_Interval
                  <4>3. OfRules \in SUBSET ((before + 1)..Len(findings))
                        BY DEF OfRules
                  <4>4. QED BY <4>2, <4>3, FS_Subset
            <3>4. ExistsBijection(OfRules, due)
                  BY <2>4, <3>1 DEF ExistsBijection
            <3>5. Cardinality(OfRules) = Cardinality(due)
                  BY <3>3, <3>4, FS_Bijection
            <3>6. QED BY <3>2, <3>5
      <2>10. QED
             BY <2>8, <2>9 DEF VerdictsHonoured, due, Seen, Due
<1>2. QED
      BY VerdictInit, VerdictStep, <1>1, PTL DEF Spec

\* For any texts and any rules, the snippet of a finding of the rules shows no
\* value the rules found in its segment, its own or another's.
THEOREM SnippetsHideRuleValues == Spec => []RuleValuesMasked
<1>1. VerdictInv => RuleValuesMasked
      <2> SUFFICES ASSUME VerdictInv, stage \in {"judge", "pairs"}, NEW i \in OfRules,
                          NEW j \in 1..Len(hits), hits[j].secret # <<>>
                   PROVE  ~Includes(findings[i].snippet, hits[j].secret)
          BY DEF RuleValuesMasked
      <2>1. \A k \in 1..Len(hits) : HitTyped(hits[k])
            BY DEF VerdictInv, HitsInv, InSegment
      <2>2. Len(hits) \in Nat
            BY ListGrows DEF VerdictInv, ScanInv, JudgedInv
      <2>3. PICK n \in 0..Len(hits) : VerdictsUpTo(n)
            BY DEF VerdictInv, JudgingInv, ScanInv, JudgedInv
      <2>4. PICK k \in 1..Len(hits) : findings[i] = FindingOf(hits[k])
            <3>1. PICK f \in Bijection(OfRules, DueTo(n)) : findings[i] = FindingOf(hits[f[i]])
                  BY <2>3 DEF VerdictsUpTo
            <3>2. f[i] \in DueTo(n)
                  BY <3>1, Fun_BijectionProperties
            <3>3. f[i] \in 1..Len(hits)
                  BY <2>2, <3>2 DEF DueTo
            <3>4. QED BY <3>1, <3>3
      <2> DEFINE h == hits[k]
                 others == [l \in 1..Len(hits) |-> hits[l].secret]
      <2>5. findings[i].snippet = RedactedSnippet(h.snippet, h.secret, h.inSnippet, others)
            BY <2>4 DEF FindingOf
      <2>6. others \in [1..Len(hits) -> Texts]
            BY <2>1 DEF HitTyped
      <2>7. others \in Seq(Texts) /\ Len(others) = Len(hits) /\ others[j] = hits[j].secret
            BY <2>2, <2>6
      <2>8. HitTyped(h)
            BY <2>1
      <2> HIDE DEF h, others
      <2>9. hits[j].secret \in {h.secret} \cup {others[l] : l \in 1..Len(others)}
            BY <2>7
      <2>10. QED
             BY <2>5, <2>7, <2>8, <2>9, RedactionIsComplete DEF HitTyped
<1>2. QED
      BY VerdictInit, VerdictStep, <1>1, PTL DEF Spec

-----------------------------------------------------------------------------
(* Deduplication.                                                          *)

LEMMA ToSetOfList ==
    ASSUME NEW list, IsList(list)
    PROVE  ToSet(list) = {list[i] : i \in 1..Len(list)}
BY LenProperties DEF IsList, ToSet

LEMMA ToSetAppend ==
    ASSUME NEW list, IsList(list), NEW element
    PROVE  ToSet(Append(list, element)) = ToSet(list) \cup {element}
<1> DEFINE longer == Append(list, element)
           N == Len(list)
<1>1. /\ IsList(longer) /\ N \in Nat /\ Len(longer) = N + 1
      /\ longer[N + 1] = element /\ \A i \in 1..N : longer[i] = list[i]
      BY ListGrows
<1>2. /\ ToSet(longer) = {longer[i] : i \in 1..Len(longer)}
      /\ ToSet(list) = {list[i] : i \in 1..N}
      BY <1>1, ToSetOfList
<1>3. 1..(N + 1) = (1..N) \cup {N + 1}
      BY <1>1
<1> HIDE DEF longer, N
<1>4. {longer[i] : i \in (1..N) \cup {N + 1}} = {list[i] : i \in 1..N} \cup {element}
      BY <1>1
<1>5. QED
      BY <1>1, <1>2, <1>3, <1>4 DEF longer

\* The lists as the new locations are added to the known ones.
GrownBy(grown, known, new, N) ==
    [n \in 0..N |-> IF n = 0 THEN known
                    ELSE IF new[n] \in ToSet(grown[n - 1]) THEN grown[n - 1]
                    ELSE Append(grown[n - 1], new[n])]

LEMMA GrowingExists ==
    ASSUME NEW known, NEW new, NEW N \in Nat
    PROVE  \E grown : grown = GrownBy(grown, known, new, N)
<1> DEFINE Next0(f, n) == IF n = 0 THEN known
                          ELSE IF new[n] \in ToSet(f[n - 1]) THEN f[n - 1]
                          ELSE Append(f[n - 1], new[n])
           T == {k \in Nat : \E f : f = [n \in 0..k |-> Next0(f, n)]}
<1>1. 0 \in T
      <2> DEFINE f == [n \in 0..0 |-> known]
      <2>1. f = [n \in 0..0 |-> Next0(f, n)]
            OBVIOUS
      <2>2. QED BY <2>1
<1>2. ASSUME NEW k \in Nat, k \in T
      PROVE  k + 1 \in T
      <2>1. PICK f : f = [n \in 0..k |-> Next0(f, n)]
            BY <1>2
      <2> DEFINE g == [n \in 0..(k + 1) |-> IF n = k + 1 THEN Next0(f, n) ELSE f[n]]
      <2>2. \A n \in 0..k : n \in 0..(k + 1) /\ n # k + 1 /\ g[n] = f[n]
            OBVIOUS
      <2>3. ASSUME NEW n \in 0..(k + 1)
            PROVE  Next0(f, n) = Next0(g, n)
            <3>1. CASE n = 0
                  BY <3>1
            <3>2. CASE n # 0
                  <4>1. n - 1 \in 0..k
                        BY <3>2
                  <4>2. g[n - 1] = f[n - 1]
                        BY <2>2, <4>1
                  <4> HIDE DEF g
                  <4>3. QED BY <3>2, <4>2
            <3>3. QED BY <3>1, <3>2
      <2>4. ASSUME NEW n \in 0..(k + 1)
            PROVE  g[n] = Next0(f, n)
            <3>1. CASE n = k + 1
                  BY <3>1
            <3>2. CASE n \in 0..k
                  <4> HIDE DEF Next0
                  <4>1. f[n] = Next0(f, n)
                        BY <2>1, <3>2
                  <4>2. QED BY <2>2, <3>2, <4>1
            <3>3. QED BY <3>1, <3>2
      <2>5. g = [n \in 0..(k + 1) |-> Next0(g, n)]
            <3>1. \A n \in 0..(k + 1) : g[n] = Next0(g, n)
                  <4> HIDE DEF g, Next0
                  <4> QED BY <2>3, <2>4
            <3> HIDE DEF Next0
            <3>2. QED BY <3>1
      <2> HIDE DEF g, Next0
      <2>6. QED BY <2>5
<1>3. N \in T
      <2> HIDE DEF T
      <2>1. 0..N \subseteq T
            BY <1>1, <1>2, UpToBound
      <2>2. QED BY <2>1
<1>4. PICK f : f = [n \in 0..N |-> Next0(f, n)]
      BY <1>3
<1>5. f = GrownBy(f, known, new, N)
      BY <1>4 DEF GrownBy
<1>6. QED
      BY <1>5

\* Adding locations loses none and invents none.
LEMMA WithLocationsAdds ==
    ASSUME NEW known, IsList(known), NEW new, IsList(new)
    PROVE  /\ IsList(WithLocations(known, new))
           /\ ToSet(WithLocations(known, new)) = ToSet(known) \cup ToSet(new)
<1> DEFINE N == Len(new)
           w == CHOOSE grown : grown = GrownBy(grown, known, new, N)
           T == {n \in Nat : n <= N =>
                    IsList(w[n]) /\ ToSet(w[n]) = ToSet(known) \cup {new[i] : i \in 1..n}}
<1>0. N \in Nat
      BY ListGrows
<1>1. w = GrownBy(w, known, new, N)
      BY <1>0, GrowingExists
<1>2. WithLocations(known, new) = w[N]
      BY DEF WithLocations, GrownBy
<1> HIDE DEF w, N
<1>3. /\ w[0] = known
      /\ \A n \in 1..N : w[n] = IF new[n] \in ToSet(w[n - 1]) THEN w[n - 1]
                                ELSE Append(w[n - 1], new[n])
      <2>1. \A n \in 0..N : w[n] = IF n = 0 THEN known
                                   ELSE IF new[n] \in ToSet(w[n - 1]) THEN w[n - 1]
                                   ELSE Append(w[n - 1], new[n])
            BY <1>1 DEF GrownBy
      <2>2. 0 \in 0..N /\ \A n \in 1..N : n \in 0..N /\ n # 0
            BY <1>0
      <2>3. QED BY <2>1, <2>2
<1>4. 0 \in T
      BY <1>3
<1>5. ASSUME NEW n \in Nat, n \in T, n < N
      PROVE  n + 1 \in T
      <2> DEFINE e == new[n + 1]
      <2>1. n + 1 \in 1..N /\ (n + 1) - 1 = n /\ 1..(n + 1) = (1..n) \cup {n + 1}
            BY <1>0, <1>5
      <2>2. IsList(w[n]) /\ ToSet(w[n]) = ToSet(known) \cup {new[i] : i \in 1..n}
            BY <1>0, <1>5
      <2>3. w[n + 1] = IF e \in ToSet(w[n]) THEN w[n] ELSE Append(w[n], e)
            BY <1>3, <2>1
      <2>4. IsList(w[n + 1]) /\ ToSet(w[n + 1]) = ToSet(w[n]) \cup {e}
            <3>1. CASE e \in ToSet(w[n])
                  <4>1. w[n + 1] = w[n]
                        BY <2>3, <3>1
                  <4>2. QED BY <2>2, <3>1, <4>1
            <3>2. CASE e \notin ToSet(w[n])
                  <4>1. w[n + 1] = Append(w[n], e)
                        BY <2>3, <3>2
                  <4>2. QED BY <2>2, <4>1, ListGrows, ToSetAppend
            <3>3. QED BY <3>1, <3>2
      <2>5. {new[i] : i \in (1..n) \cup {n + 1}} = {new[i] : i \in 1..n} \cup {e}
            OBVIOUS
      <2>6. QED BY <2>1, <2>2, <2>4, <2>5
<1>6. N \in T
      <2> HIDE DEF T
      <2>1. 0..N \subseteq T
            BY <1>0, <1>4, <1>5, UpToBound
      <2>2. QED BY <1>0, <2>1
<1>7. ToSet(new) = {new[i] : i \in 1..N}
      BY ToSetOfList DEF N
<1>8. QED
      BY <1>0, <1>2, <1>6, <1>7

\* A finding, and the places it is reported at.
IsFinding(f) ==
    /\ f = [secret |-> f.secret, rule |-> f.rule, confidence |-> f.confidence,
            snippet |-> f.snippet, username |-> f.username, locations |-> f.locations]
    /\ IsList(f.locations)

Places(f) == {<<MergeKey(f), l>> : l \in ToSet(f.locations)}

\* A list of findings.
IsFindings(list) == IsList(list) /\ \A i \in 1..Len(list) : IsFinding(list[i])

LEMMA EmittedIs ==
    ASSUME NEW list
    PROVE  \A c : c \in Emitted(list) <=> \E i \in 1..Len(list) : c \in Places(list[i])
BY DEF Emitted, Places

LEMMA FindingsAppend ==
    ASSUME NEW list, IsFindings(list), NEW f, IsFinding(f)
    PROVE  /\ IsFindings(Append(list, f))
           /\ Emitted(Append(list, f)) = Emitted(list) \cup Places(f)
<1> DEFINE longer == Append(list, f)
           N == Len(list)
<1>1. /\ IsList(longer) /\ N \in Nat /\ Len(longer) = N + 1
      /\ longer[N + 1] = f /\ \A i \in 1..N : longer[i] = list[i]
      BY ListGrows DEF IsFindings
<1>2. 1..(N + 1) = (1..N) \cup {N + 1}
      BY <1>1
<1> HIDE DEF longer
<1>3. \A i \in 1..Len(longer) : IsFinding(longer[i])
      BY <1>1, <1>2 DEF IsFindings
<1>4. \A c : c \in Emitted(longer) <=> c \in Emitted(list) \cup Places(f)
      <2> TAKE c
      <2>1. c \in Emitted(longer) <=> \E i \in (1..N) \cup {N + 1} : c \in Places(longer[i])
            BY <1>1, <1>2, EmittedIs
      <2>2. c \in Emitted(list) <=> \E i \in 1..N : c \in Places(list[i])
            BY EmittedIs
      <2>3. QED BY <1>1, <2>1, <2>2
<1>5. QED
      BY <1>1, <1>3, <1>4 DEF IsFindings, longer

LEMMA FindingsTail ==
    ASSUME NEW list, IsFindings(list), list # <<>>
    PROVE  /\ IsFinding(Head(list)) /\ IsFindings(Tail(list))
           /\ Emitted(list) = Places(Head(list)) \cup Emitted(Tail(list))
<1> DEFINE N == Len(list)
           tail == Tail(list)
<1>1. PICK S : list \in Seq(S)
      BY DEF IsFindings, IsList
<1>2. N \in Nat \ {0} /\ Head(list) = list[1]
      BY <1>1, EmptySeq
<1>3. /\ tail \in Seq(S) /\ Len(tail) = N - 1
      /\ \A i \in 1..Len(tail) : tail[i] = list[i + 1]
      BY <1>1, HeadTailProperties
<1> HIDE DEF tail, N
<1>4. /\ 1 \in 1..N
      /\ \A i \in 1..(N - 1) : i + 1 \in 1..N
      /\ \A i \in 1..N : i # 1 => i - 1 \in 1..(N - 1) /\ (i - 1) + 1 = i
      BY <1>2
<1>5. \A i \in 1..N : IsFinding(list[i])
      BY DEF IsFindings, N
<1>6. IsFinding(Head(list)) /\ \A i \in 1..Len(tail) : IsFinding(tail[i])
      BY <1>2, <1>3, <1>4, <1>5
<1>7. \A c : c \in Emitted(list) <=> c \in Places(Head(list)) \cup Emitted(tail)
      <2> TAKE c
      <2>1. c \in Emitted(list) <=> \E i \in 1..N : c \in Places(list[i])
            BY EmittedIs DEF N
      <2>2. c \in Emitted(tail) <=> \E i \in 1..(N - 1) : c \in Places(list[i + 1])
            BY <1>3, EmittedIs
      <2>3. (\E i \in 1..N : c \in Places(list[i])) <=>
               c \in Places(list[1]) \/ \E i \in 1..(N - 1) : c \in Places(list[i + 1])
            BY <1>4
      <2>4. QED BY <1>2, <2>1, <2>2, <2>3
<1>8. QED
      BY <1>3, <1>6, <1>7 DEF IsFindings, IsList, tail

LEMMA FindingsJoin ==
    ASSUME NEW a, IsFindings(a), NEW b, IsFindings(b)
    PROVE  IsFindings(a \o b) /\ Emitted(a \o b) = Emitted(a) \cup Emitted(b)
<1> DEFINE M == Len(a)
           N == Len(b)
           both == a \o b
<1>1. PICK S : a \in Seq(S)
      BY DEF IsFindings, IsList
<1>2. PICK R : b \in Seq(R)
      BY DEF IsFindings, IsList
<1>3. a \in Seq(S \cup R) /\ b \in Seq(S \cup R)
      BY <1>1, <1>2, SeqMonotonic
<1>4. /\ M \in Nat /\ N \in Nat
      /\ both \in Seq(S \cup R) /\ Len(both) = M + N
      /\ \A i \in 1..(M + N) : both[i] = IF i <= M THEN a[i] ELSE b[i - M]
      BY <1>3, ConcatProperties, LenProperties
<1> HIDE DEF both, M, N
<1>5. /\ \A i \in 1..M : i \in 1..(M + N) /\ both[i] = a[i]
      /\ \A i \in 1..N : i + M \in 1..(M + N) /\ both[i + M] = b[i]
      <2>1. \A i \in 1..M : i \in 1..(M + N) /\ i <= M
            BY <1>4
      <2>2. \A i \in 1..N : i + M \in 1..(M + N) /\ ~(i + M <= M) /\ (i + M) - M = i
            BY <1>4
      <2>3. QED BY <1>4, <2>1, <2>2
<1>6. \A i \in 1..(M + N) : i \in 1..M \/ \E k \in 1..N : i = k + M
      <2> TAKE i \in 1..(M + N)
      <2>1. i \in 1..M \/ (i - M \in 1..N /\ i = (i - M) + M)
            BY <1>4
      <2>2. QED BY <2>1
<1>7. \A i \in 1..Len(both) : IsFinding(both[i])
      BY <1>4, <1>5, <1>6 DEF IsFindings, M, N
<1>8. \A c : c \in Emitted(both) <=> c \in Emitted(a) \cup Emitted(b)
      <2> TAKE c
      <2>1. c \in Emitted(both) <=> \E i \in 1..(M + N) : c \in Places(both[i])
            BY <1>4, EmittedIs
      <2>2. /\ c \in Emitted(a) <=> \E i \in 1..M : c \in Places(a[i])
            /\ c \in Emitted(b) <=> \E i \in 1..N : c \in Places(b[i])
            BY EmittedIs DEF M, N
      <2>3. QED BY <1>5, <1>6, <2>1, <2>2
<1>9. QED
      BY <1>4, <1>7, <1>8 DEF IsFindings, IsList, both

\* No two findings of the list have the same key.
KeysDiffer(list) ==
    \A i, j \in 1..Len(list) : MergeKey(list[i]) = MergeKey(list[j]) => i = j

\* Merging a finding into a list with one finding per key keeps it that, and adds
\* the places of the finding to those of the list.
LEMMA MergedAdds ==
    ASSUME IsFindings(merged), KeysDiffer(merged), NEW f, IsFinding(f)
    PROVE  /\ IsFindings(MergedWith(f)) /\ KeysDiffer(MergedWith(f))
           /\ Emitted(MergedWith(f)) = Emitted(merged) \cup Places(f)
<1> DEFINE N == Len(merged)
           same == {k \in 1..N : MergeKey(merged[k]) = MergeKey(f)}
<1>0. N \in Nat /\ IsList(merged) /\ \A k \in 1..N : IsFinding(merged[k])
      BY ListGrows DEF IsFindings
<1>1. CASE same = {}
      <2>1. MergedWith(f) = Append(merged, f)
            BY <1>1 DEF MergedWith
      <2>2. IsFindings(Append(merged, f))
            /\ Emitted(Append(merged, f)) = Emitted(merged) \cup Places(f)
            BY FindingsAppend
      <2> DEFINE longer == Append(merged, f)
      <2>3. /\ Len(longer) = N + 1 /\ longer[N + 1] = f
            /\ \A i \in 1..N : longer[i] = merged[i]
            BY <1>0, ListGrows
      <2> HIDE DEF longer
      <2>4. ASSUME NEW i \in 1..Len(longer), NEW j \in 1..Len(longer),
                   MergeKey(longer[i]) = MergeKey(longer[j])
            PROVE  i = j
            <3>1. /\ i \in 1..N \/ i = N + 1
                  /\ j \in 1..N \/ j = N + 1
                  BY <1>0, <2>3
            <3>2. CASE i \in 1..N /\ j \in 1..N
                  BY <2>3, <2>4, <3>2 DEF KeysDiffer
            <3>3. CASE i \in 1..N /\ j = N + 1
                  <4>1. MergeKey(merged[i]) = MergeKey(f)
                        BY <2>3, <2>4, <3>3
                  <4>2. QED BY <1>1, <3>3, <4>1
            <3>4. CASE i = N + 1 /\ j \in 1..N
                  <4>1. MergeKey(merged[j]) = MergeKey(f)
                        BY <2>3, <2>4, <3>4
                  <4>2. QED BY <1>1, <3>4, <4>1
            <3>5. QED BY <2>3, <3>1, <3>2, <3>3, <3>4
      <2>5. KeysDiffer(longer)
            BY <2>4 DEF KeysDiffer
      <2>6. QED BY <2>1, <2>2, <2>5 DEF longer
<1>2. CASE same # {}
      <2> DEFINE new(k) == [merged[k] EXCEPT !.locations = WithLocations(@, f.locations)]
                 result == [k \in 1..N |-> IF k \in same THEN new(k) ELSE merged[k]]
      <2>1. MergedWith(f) = result
            BY <1>2 DEF MergedWith
      <2>2. ASSUME NEW k \in 1..N
            PROVE  /\ IsFinding(new(k)) /\ MergeKey(new(k)) = MergeKey(merged[k])
                   /\ k \in same => Places(new(k)) = Places(merged[k]) \cup Places(f)
            <3> DEFINE m == merged[k]
                       grown == WithLocations(m.locations, f.locations)
            <3>1. /\ m = [secret |-> m.secret, rule |-> m.rule, confidence |-> m.confidence,
                          snippet |-> m.snippet, username |-> m.username,
                          locations |-> m.locations]
                  /\ IsList(m.locations) /\ IsList(f.locations)
                  BY <1>0 DEF IsFinding
            <3>2. IsList(grown) /\ ToSet(grown) = ToSet(m.locations) \cup ToSet(f.locations)
                  BY <3>1, WithLocationsAdds
            <3>3. new(k) = [m EXCEPT !.locations = grown]
                  OBVIOUS
            <3> HIDE DEF new, m, grown
            <3>4. new(k) = [secret |-> m.secret, rule |-> m.rule, confidence |-> m.confidence,
                            snippet |-> m.snippet, username |-> m.username,
                            locations |-> grown]
                  BY <3>1, <3>3
            <3>5. IsFinding(new(k)) /\ MergeKey(new(k)) = MergeKey(m)
                  BY <3>2, <3>4 DEF IsFinding, MergeKey
            <3>6. k \in same => Places(new(k)) = Places(m) \cup Places(f)
                  <4>1. k \in same => MergeKey(m) = MergeKey(f)
                        BY DEF m
                  <4>2. new(k).locations = grown
                        BY <3>4
                  <4>3. QED BY <3>2, <3>5, <4>1, <4>2 DEF Places
            <3>7. QED BY <3>5, <3>6 DEF m
      <2> HIDE DEF new
      <2>3. Len(result) = N /\ \A k \in 1..N : result[k] = IF k \in same THEN new(k) ELSE merged[k]
            BY <1>0
      <2>4. \A k \in 1..N : IsFinding(result[k]) /\ MergeKey(result[k]) = MergeKey(merged[k])
            BY <1>0, <2>2, <2>3
      <2>5. IsFindings(result)
            <3> DEFINE S == {IF k \in same THEN new(k) ELSE merged[k] : k \in 1..N}
            <3>1. result \in [1..N -> S]
                  OBVIOUS
            <3> HIDE DEF S, result
            <3>2. result \in Seq(S)
                  BY <1>0, <3>1
            <3>3. QED BY <2>3, <2>4, <3>2 DEF IsFindings, IsList
      <2>6. KeysDiffer(result)
            BY <2>3, <2>4 DEF KeysDiffer
      <2>7. \A c : c \in Emitted(result) <=> c \in Emitted(merged) \cup Places(f)
            <3> TAKE c
            <3>1. c \in Emitted(result) <=> \E k \in 1..N : c \in Places(result[k])
                  BY <2>3, EmittedIs
            <3>2. c \in Emitted(merged) <=> \E k \in 1..N : c \in Places(merged[k])
                  BY EmittedIs
            <3>3. \A k \in 1..N : Places(result[k]) = IF k \in same THEN Places(merged[k]) \cup Places(f)
                                                      ELSE Places(merged[k])
                  BY <2>2, <2>3
            <3>4. PICK k \in 1..N : k \in same
                  BY <1>2
            <3> HIDE DEF same, result
            <3>5. QED BY <3>1, <3>2, <3>3, <3>4
      <2>8. QED BY <2>1, <2>5, <2>6, <2>7
<1>3. QED
      BY <1>1, <1>2

-----------------------------------------------------------------------------
(* The lists of a scan.                                                    *)

ListsInv == IsFindings(findings) /\ IsFindings(all) /\ IsFindings(merged) /\ KeysDiffer(merged)

LEMMA EmptyFindings == IsFindings(<<>>) /\ KeysDiffer(<<>>) /\ Emitted(<<>>) = {}
<1>1. IsList(<<>>) /\ Len(<<>>) = 0
      BY DEF IsList
<1>2. Emitted(<<>>) = {}
      BY <1>1, EmittedIs
<1>3. QED
      BY <1>1, <1>2 DEF IsFindings, KeysDiffer

LEMMA ListsInit == Init => ListsInv
BY EmptyFindings DEF Init, ListsInv

LEMMA NewFinding ==
    /\ \A h : IsFinding(FindingOf(h))
    /\ \A pair : IsFinding(PairFinding(pair))
<1>1. IsList(<<Here>>)
      <2>1. <<Here>> \in Seq({Here})
            OBVIOUS
      <2>2. QED BY <2>1 DEF IsList
<1>2. QED
      BY <1>1 DEF IsFinding, FindingOf, PairFinding

LEMMA ListsStep == ListsInv /\ [Next]_vars => ListsInv'
<1> SUFFICES ASSUME ListsInv, [Next]_vars PROVE ListsInv'
    OBVIOUS
<1> USE DEF ListsInv, outVars
<1>1. CASE \E i \in Issues : Pick(i)
      BY <1>1, EmptyFindings DEF Pick, IsFindings, KeysDiffer
<1>2. CASE JudgeHit
      <2>1. findings' = findings \/ \E h : findings' = Append(findings, FindingOf(h))
            BY <1>2 DEF JudgeHit
      <2>2. IsFindings(findings')
            BY <2>1, NewFinding, FindingsAppend
      <2>3. UNCHANGED <<all, merged>>
            BY <1>2 DEF JudgeHit
      <2>4. QED BY <2>2, <2>3 DEF IsFindings, KeysDiffer
<1>3. CASE TakePair
      <2>1. findings' = findings \/ \E pair : findings' = Append(findings, PairFinding(pair))
            BY <1>3 DEF TakePair
      <2>2. IsFindings(findings')
            BY <2>1, NewFinding, FindingsAppend
      <2>3. UNCHANGED <<all, merged>>
            BY <1>3 DEF TakePair
      <2>4. QED BY <2>2, <2>3 DEF IsFindings, KeysDiffer
<1>4. CASE Collect
      <2>1. all' = all \o findings /\ UNCHANGED <<findings, merged>>
            BY <1>4 DEF Collect
      <2>2. IsFindings(all')
            BY <2>1, FindingsJoin
      <2>3. QED BY <2>1, <2>2 DEF IsFindings, KeysDiffer
<1>5. CASE Insert
      <2>1. all # <<>> /\ merged' = MergedWith(Head(all)) /\ all' = Tail(all)
            /\ UNCHANGED findings
            BY <1>5 DEF Insert
      <2>2. IsFinding(Head(all)) /\ IsFindings(Tail(all))
            BY <2>1, FindingsTail
      <2>3. IsFindings(MergedWith(Head(all))) /\ KeysDiffer(MergedWith(Head(all)))
            BY <2>2, MergedAdds
      <2>4. QED BY <2>1, <2>2, <2>3
<1>6. CASE \E newOrder \in RuleOrders : Rescan(newOrder)
      BY <1>6, EmptyFindings DEF Rescan
<1>7. CASE Load \/ OpenSegment \/ ScanText \/ RulesDone \/ HitsJudged \/ SearchPairs
           \/ CloseSegment \/ StartDedup \/ Report \/ UNCHANGED vars
      <2>1. UNCHANGED <<findings, all, merged>>
            BY <1>7 DEF Load, OpenSegment, ScanText, RulesDone, HitsJudged, SearchPairs,
                        CloseSegment, StartDedup, Report, vars
      <2>2. QED BY <2>1 DEF IsFindings, KeysDiffer
<1>8. QED
      BY <1>1, <1>2, <1>3, <1>4, <1>5, <1>6, <1>7 DEF Next, Scan

\* Whatever the findings of the issues and their order, deduplication loses no
\* location of a secret and invents none, and leaves one finding per secret and rule.
THEOREM DedupKeepsAll == Spec => MergeKeepsAll
<1> DEFINE Kept0 == stage = "dedup" =>
                      /\ Emitted(merged') \cup Emitted(all') = Emitted(merged) \cup Emitted(all)
                      /\ \A i, j \in 1..Len(merged') :
                            MergeKey(merged'[i]) = MergeKey(merged'[j]) => i = j
<1>1. ASSUME ListsInv, [Next]_vars
      PROVE  [Kept0]_vars
      <2> SUFFICES ASSUME stage = "dedup", [Next]_vars
                   PROVE  Emitted(merged') \cup Emitted(all') = Emitted(merged) \cup Emitted(all)
          BY <1>1, ListsStep DEF ListsInv, KeysDiffer
      <2>1. CASE Insert
            <3>1. all # <<>> /\ merged' = MergedWith(Head(all)) /\ all' = Tail(all)
                  BY <2>1 DEF Insert
            <3>2. /\ IsFinding(Head(all))
                  /\ Emitted(all) = Places(Head(all)) \cup Emitted(Tail(all))
                  BY <1>1, <3>1, FindingsTail DEF ListsInv
            <3>3. Emitted(MergedWith(Head(all))) = Emitted(merged) \cup Places(Head(all))
                  BY <1>1, <3>2, MergedAdds DEF ListsInv
            <3>4. QED BY <3>1, <3>2, <3>3
      <2>2. CASE ~Insert
            <3>1. UNCHANGED <<merged, all>>
                  BY <2>2 DEF Next, Scan, Load, Pick, OpenSegment, ScanText, RulesDone,
                              JudgeHit, HitsJudged, SearchPairs, TakePair, CloseSegment,
                              Collect, StartDedup, Insert, Report, Rescan, vars, outVars
            <3>2. QED BY <3>1
      <2>3. QED BY <2>1, <2>2
<1>2. QED
      BY ListsInit, ListsStep, <1>1, PTL DEF Spec, MergeKeepsAll

-----------------------------------------------------------------------------
(* What the rules find depends on nothing but the text.                    *)

\* The steps of a rule over a text: a state is the cursor and what was taken.
ScanStates(r, text) == (0..Len(text)) \X SUBSET Occurrences(r, text)
ScanSteps(r, text) ==
    {e \in ScanStates(r, text) \X ScanStates(r, text) :
        LET from == e[1][1]
        IN  /\ from < Len(text) /\ ~GivesUp(r, text, from)
            /\ \E m \in Leftmost(Found(r, text, from)) :
                  e[2] = IF m.span[2] <= from THEN <<from + 1, e[1][2]>>
                         ELSE <<m.span[2], e[1][2] \cup {m}>>}

\* What a rule takes in a text.
MatchesOf(r, text) ==
    CHOOSE M : \E s \in ScanStates(r, text) :
                  /\ Leads(ScanSteps(r, text), <<0, {}>>, s)
                  /\ LastState(ScanSteps(r, text), s)
                  /\ s[2] = M

\* The leftmost match is one, so a rule has one way to go.
LEMMA OneWayToScan ==
    ASSUME NEW r \in Rules, NEW text \in Texts
    PROVE  /\ Steps(ScanSteps(r, text), ScanStates(r, text))
           /\ OneStep(ScanSteps(r, text))
<1>1. ASSUME NEW from, NEW m \in Leftmost(Found(r, text, from)),
             NEW n \in Leftmost(Found(r, text, from))
      PROVE  m = n
      <2>1. /\ m \in Occurrences(r, text) /\ n \in Occurrences(r, text)
            /\ m.span[1] <= n.span[1] /\ n.span[1] <= m.span[1]
            BY DEF Leftmost, Found
      <2>2. m.span[1] \in 0..Len(text) /\ n.span[1] \in 0..Len(text)
            BY <2>1, OccurrenceShape
      <2>3. m.span[1] = n.span[1]
            BY <2>1, <2>2
      <2>4. QED BY <2>1, <2>3, OneMatchPerPlace
<1>2. OneStep(ScanSteps(r, text))
      <2> SUFFICES ASSUME NEW d \in ScanSteps(r, text), NEW e \in ScanSteps(r, text), d[1] = e[1]
                   PROVE  d[2] = e[2]
          BY DEF OneStep
      <2> DEFINE from == d[1][1]
                 To(m) == IF m.span[2] <= from THEN <<from + 1, d[1][2]>>
                          ELSE <<m.span[2], d[1][2] \cup {m}>>
      <2>1. PICK m \in Leftmost(Found(r, text, from)) : d[2] = To(m)
            BY DEF ScanSteps
      <2>2. PICK n \in Leftmost(Found(r, text, from)) : e[2] = To(n)
            BY DEF ScanSteps
      <2> HIDE DEF To, from
      <2>3. QED BY <1>1, <2>1, <2>2
<1>3. QED
      BY <1>2 DEF Steps, ScanSteps

\* Wherever its scan ends, a rule has taken the same.
LEMMA ScanEnds ==
    ASSUME NEW r \in Rules, NEW text \in Texts, NEW s \in ScanStates(r, text),
           Leads(ScanSteps(r, text), <<0, {}>>, s), LastState(ScanSteps(r, text), s)
    PROVE  s[2] = MatchesOf(r, text)
<1> DEFINE Ends(t) == /\ Leads(ScanSteps(r, text), <<0, {}>>, t)
                      /\ LastState(ScanSteps(r, text), t)
<1>1. <<0, {}>> \in ScanStates(r, text)
      BY LenProperties DEF ScanStates, Texts
<1>2. ASSUME NEW t \in ScanStates(r, text), Ends(t) PROVE t = s
      BY <1>1, <1>2, OneWayToScan, OneEnd
<1>3. MatchesOf(r, text) = CHOOSE M : \E t \in ScanStates(r, text) : Ends(t) /\ t[2] = M
      BY DEF MatchesOf
<1>4. Ends(s)
      OBVIOUS
<1> HIDE DEF Ends
<1>5. QED
      BY <1>2, <1>3, <1>4

\* The matches a rule took in the segment.
TakenOf(r) == {t.match : t \in {t \in taken : t.rule = r.id}}
\* The hits the matches that were taken give.
GivenHits == {HitOf(RuleOf(t.rule), t.match) :
                 t \in {t \in taken : RuleFilters(RuleOf(t.rule), Text, t.match.value)}}

\* The rules before the one at hand took what they take in such a text, the one
\* at hand is on its way, and the others took nothing.
ProgressInv ==
    InSegment =>
        /\ \A t \in taken : \E r \in Rules : \E m \in Occurrences(r, Text) :
              t = [rule |-> r.id, match |-> m]
        /\ \A k \in 1..Len(order) :
              /\ k < rule => TakenOf(order[k]) = MatchesOf(order[k], Text)
              /\ k = rule => Leads(ScanSteps(order[k], Text), <<0, {}>>,
                                   <<cursor, TakenOf(order[k])>>)
              /\ k > rule => TakenOf(order[k]) = {}
        /\ {hits[i] : i \in 1..Len(hits)} = GivenHits

LEMMA ProgressKept ==
    ASSUME ProgressInv, InSegment, UNCHANGED scanVars
    PROVE  ProgressInv'
<1> USE DEF ProgressInv, scanVars
<1>1. Text' = Text
      BY DEF Text
<1>2. \A r : TakenOf(r)' = TakenOf(r)
      BY DEF TakenOf
<1>3. \A r, m : HitOf(r, m)' = HitOf(r, m)
      BY <1>1 DEF HitOf
<1>4. GivenHits' = GivenHits
      BY <1>1, <1>3 DEF GivenHits
<1>5. QED
      BY <1>1, <1>2, <1>4

LEMMA LeadsHere == \A E, a : Leads(E, a, a)
BY DEF Leads

LEMMA ProgressOpened ==
    ASSUME PlaceInv, OpenSegment
    PROVE  ProgressInv'
<1>1. rule' = 1 /\ cursor' = 0 /\ taken' = {} /\ hits' = <<>> /\ order' = order
      BY DEF OpenSegment, placeVars
<1>2. Len(order) \in Nat
      BY RulesInOrder DEF PlaceInv
<1>3. \A r : TakenOf(r)' = {}
      BY <1>1 DEF TakenOf
<1>4. GivenHits' = {} /\ {hits'[i] : i \in 1..Len(hits')} = {}
      BY <1>1, EmptySeq DEF GivenHits
<1>5. \A k \in 1..Len(order) : ~(k < 1)
      BY <1>2
<1>6. QED
      BY <1>1, <1>3, <1>4, <1>5, LeadsHere DEF ProgressInv

\* What a rule took lies in the text at hand.
LEMMA TakenOfRule ==
    ASSUME PlaceInv, ProgressInv, InSegment, NEW r \in Rules
    PROVE  TakenOf(r) \in SUBSET Occurrences(r, Text)
<1> SUFFICES ASSUME NEW t \in taken, t.rule = r.id PROVE t.match \in Occurrences(r, Text)
    BY DEF TakenOf
<1>1. PICK s \in Rules : \E m \in Occurrences(s, Text) : t = [rule |-> s.id, match |-> m]
      BY DEF ProgressInv
<1>2. s = r
      BY <1>1, RuleIdsDiffer
<1>3. QED
      BY <1>1, <1>2

LEMMA ProgressSearched ==
    ASSUME PlaceInv, JudgedInv, ProgressInv, ScanText, Searches(order[rule]),
           NEW m \in Leftmost(Found(order[rule], Text, cursor)),
           SkipEmpty(order[rule], m) \/ TakeMatch(order[rule], m)
    PROVE  ProgressInv'
<1> DEFINE r == order[rule]
           new == [rule |-> r.id, match |-> m]
           E == ScanSteps(r, Text)
<1>1. /\ rule' = rule /\ r \in Rules /\ m \in Occurrences(r, Text)
      /\ cursor < Len(Text) /\ ~GivesUp(r, Text, cursor)
      /\ cursor \in 0..Len(Text) /\ Len(Text) \in Nat
      BY RuleAtHand DEF SkipEmpty, TakeMatch, Leftmost, Found, Searches
<1>2. /\ m.span[2] \in 0..Len(Text)
      /\ cursor' = (IF m.span[2] <= cursor THEN cursor + 1 ELSE m.span[2])
      /\ taken' = (IF m.span[2] <= cursor THEN taken ELSE taken \cup {new})
      <2>1. m.span[2] \in 0..Len(Text)
            BY <1>1, RuleAtHand, OccurrenceShape
      <2>2. QED BY <1>1, <2>1 DEF SkipEmpty, TakeMatch, AfterEmpty, AfterMatch
<1>3. order' = order /\ Text' = Text /\ InSegment
      BY RuleAtHand
<1>4. TakenOf(r)' = IF m.span[2] <= cursor THEN TakenOf(r) ELSE TakenOf(r) \cup {m}
      <2>1. new.rule = r.id /\ new.match = m
            OBVIOUS
      <2>2. r' = r
            BY <1>1, <1>3
      <2> HIDE DEF new, r
      <2>3. QED BY <1>2, <2>1, <2>2 DEF TakenOf
<1>5. \A k \in 1..Len(order) : k # rule => TakenOf(order[k])' = TakenOf(order[k])
      <2> TAKE k \in 1..Len(order)
      <2> HAVE k # rule
      <2>1. new.rule # order[k].id
            BY RuleAtHand
      <2> HIDE DEF new
      <2>2. QED BY <1>2, <1>3, <2>1 DEF TakenOf
<1>6. \A t \in taken' : \E s \in Rules : \E n \in Occurrences(s, Text) :
         t = [rule |-> s.id, match |-> n]
      BY <1>1, <1>2, <1>3 DEF ProgressInv
<1>7. Leads(E, <<0, {}>>, <<cursor, TakenOf(r)>>')
      <2> DEFINE here == <<cursor, TakenOf(r)>>
                 there == <<cursor', TakenOf(r)'>>
      <2>1. TakenOf(r) \in SUBSET Occurrences(r, Text)
            BY <1>1, <1>3, TakenOfRule
      <2>2. here \in ScanStates(r, Text)
            BY <1>1, <2>1 DEF ScanStates
      <2>3. there \in ScanStates(r, Text)
            <3>1. cursor' \in 0..Len(Text)
                  BY <1>1, <1>2
            <3>2. TakenOf(r)' \in SUBSET Occurrences(r, Text)
                  BY <1>1, <1>4, <2>1
            <3>3. QED BY <3>1, <3>2 DEF ScanStates
      <2>4. there = IF m.span[2] <= cursor THEN <<cursor + 1, TakenOf(r)>>
                    ELSE <<m.span[2], TakenOf(r) \cup {m}>>
            BY <1>2, <1>4
      <2>5. <<here, there>> \in E
            <3> HIDE DEF there, r
            <3>1. QED BY <1>1, <2>2, <2>3, <2>4 DEF ScanSteps, r
      <2>6. Leads(E, <<0, {}>>, here)
            BY <1>3, RuleAtHand DEF ProgressInv
      <2>7. QED BY <2>5, <2>6, LeadsOn
<1>8. {hits'[i] : i \in 1..Len(hits')} = GivenHits'
      <2> DEFINE passed(T) == {t \in T : RuleFilters(RuleOf(t.rule), Text, t.match.value)}
                 given(T) == {HitOf(RuleOf(t.rule), t.match) : t \in passed(T)}
                 h == HitOf(r, m)
      <2>1. \A s, n : HitOf(s, n)' = HitOf(s, n)
            BY <1>3 DEF HitOf
      <2>2. GivenHits = given(taken) /\ GivenHits' = given(taken')
            BY <1>3, <2>1 DEF GivenHits
      <2>3. {hits[i] : i \in 1..Len(hits)} = GivenHits
            BY <1>3 DEF ProgressInv
      <2>4. new.rule = r.id /\ new.match = m /\ RuleOf(new.rule) = r
            BY <1>1, RuleOfId
      <2>5. CASE m.span[2] > cursor /\ RuleFilters(r, Text, m.value)
            <3>1. hits' = Append(hits, h) /\ taken' = taken \cup {new}
                  BY <1>1, <1>2, <2>5 DEF SkipEmpty, TakeMatch
            <3>2. ToSet(hits') = ToSet(hits) \cup {h} /\ IsList(hits) /\ IsList(hits')
                  BY <3>1, ToSetAppend, ListGrows DEF JudgedInv
            <3>3. passed(taken') = passed(taken) \cup {new}
                  BY <2>4, <2>5, <3>1
            <3>4. given(taken') = given(taken) \cup {h}
                  <4> HIDE DEF passed, new
                  <4> QED BY <2>4, <3>3
            <3>5. QED BY <2>2, <2>3, <3>2, <3>4, ToSetOfList
      <2>6. CASE ~(m.span[2] > cursor /\ RuleFilters(r, Text, m.value))
            <3>1. hits' = hits
                  BY <2>6 DEF SkipEmpty, TakeMatch
            <3>2. passed(taken') = passed(taken)
                  <4>1. taken' = taken \/ (taken' = taken \cup {new} /\ ~RuleFilters(r, Text, m.value))
                        BY <1>1, <1>2, <2>6
                  <4>2. QED BY <2>4, <4>1
            <3>3. QED BY <2>2, <2>3, <3>1, <3>2
      <2>7. QED BY <2>5, <2>6
<1>9. ASSUME NEW k \in 1..Len(order)
      PROVE  /\ k < rule => TakenOf(order[k])' = MatchesOf(order[k], Text)
             /\ k = rule => Leads(ScanSteps(order[k], Text), <<0, {}>>,
                                  <<cursor', TakenOf(order[k])'>>)
             /\ k > rule => TakenOf(order[k])' = {}
      <2>1. rule \in Nat
            BY RuleAtHand
      <2>2. CASE k = rule
            <3>1. /\ TakenOf(order[k])' = TakenOf(r)' /\ order[k] = r
                  /\ <<cursor, TakenOf(r)>>' = <<cursor', TakenOf(r)'>>
                  BY <1>1, <1>3, <2>2 DEF TakenOf
            <3>2. QED BY <1>7, <2>1, <2>2, <3>1
      <2>3. CASE k # rule
            BY <1>3, <1>5, <2>3 DEF ProgressInv
      <2>4. QED BY <2>2, <2>3
<1>10. QED
       <2> HIDE DEF r, new, E
       <2> QED BY <1>1, <1>3, <1>6, <1>8, <1>9 DEF ProgressInv, TakenOf

LEMMA ProgressNext ==
    ASSUME PlaceInv, ProgressInv, ScanText, NextRule(order[rule])
    PROVE  ProgressInv'
<1> DEFINE r == order[rule]
           E == ScanSteps(r, Text)
           here == <<cursor, TakenOf(r)>>
<1>1. /\ rule' = rule + 1 /\ cursor' = 0 /\ UNCHANGED <<taken, hits, order>> /\ Text' = Text
      /\ Searches(r) => Found(r, Text, cursor) = {}
      /\ InSegment /\ r \in Rules /\ rule \in 1..Len(order) /\ Len(order) \in Nat
      /\ cursor \in 0..Len(Text) /\ Text \in Texts
      BY RuleAtHand DEF NextRule
<1>2. TakenOf(r) = MatchesOf(r, Text)
      <2>1. here \in ScanStates(r, Text)
            BY <1>1, TakenOfRule DEF ScanStates
      <2>2. Leads(E, <<0, {}>>, here)
            BY <1>1 DEF ProgressInv
      <2>3. LastState(E, here)
            <3> SUFFICES ASSUME NEW e \in E, e[1] = here PROVE FALSE
                BY DEF LastState
            <3>1. /\ e[1][1] < Len(Text) /\ ~GivesUp(r, Text, e[1][1])
                  /\ \E m \in Leftmost(Found(r, Text, e[1][1])) : TRUE
                  BY DEF ScanSteps
            <3>2. e[1][1] = cursor
                  OBVIOUS
            <3>3. Found(r, Text, cursor) = {}
                  BY <1>1, <3>1, <3>2 DEF Searches
            <3>4. QED BY <3>1, <3>2, <3>3 DEF Leftmost
      <2> HIDE DEF E
      <2>4. QED BY <1>1, <2>1, <2>2, <2>3, ScanEnds DEF E
<1>3. \A s : TakenOf(s)' = TakenOf(s)
      BY <1>1 DEF TakenOf
<1>4. GivenHits' = GivenHits
      <2>1. \A s, n : HitOf(s, n)' = HitOf(s, n)
            BY <1>1 DEF HitOf
      <2>2. QED BY <1>1, <2>1 DEF GivenHits
<1>5. ASSUME NEW k \in 1..Len(order)
      PROVE  /\ k < rule + 1 => TakenOf(order[k]) = MatchesOf(order[k], Text)
             /\ k = rule + 1 => TakenOf(order[k]) = {}
             /\ k > rule + 1 => TakenOf(order[k]) = {}
      <2>1. /\ k < rule + 1 => k < rule \/ k = rule
            /\ k = rule + 1 => k > rule
            /\ k > rule + 1 => k > rule
            BY <1>1
      <2>2. QED BY <1>1, <1>2, <2>1 DEF ProgressInv
<1>6. ASSUME NEW k \in 1..Len(order), k = rule + 1
      PROVE  Leads(ScanSteps(order[k], Text), <<0, {}>>, <<0, TakenOf(order[k])>>)
      BY <1>5, <1>6, LeadsHere
<1>7. QED
      <2> HIDE DEF r, E, here
      <2> QED BY <1>1, <1>3, <1>4, <1>5, <1>6 DEF ProgressInv

LEMMA ProgressStep == ScanInv /\ ProgressInv /\ [Next]_vars => ProgressInv'
<1> SUFFICES ASSUME ScanInv, ProgressInv, [Next]_vars PROVE ProgressInv'
    OBVIOUS
<1> USE DEF ScanInv
<1>1. CASE OpenSegment
      BY <1>1, ProgressOpened
<1>2. CASE ScanText
      <2> DEFINE r == order[rule]
      <2>1. CASE NextRule(r)
            BY <1>2, <2>1, ProgressNext
      <2>2. CASE Searches(r) /\ \E m \in Leftmost(Found(r, Text, cursor)) :
                     SkipEmpty(r, m) \/ TakeMatch(r, m)
            BY <1>2, <2>2, ProgressSearched
      <2>3. QED BY <1>2, <2>1, <2>2 DEF ScanText
<1>3. CASE RulesDone \/ JudgeHit \/ HitsJudged \/ SearchPairs \/ TakePair
      <2>1. InSegment /\ UNCHANGED scanVars
            BY <1>3 DEF RulesDone, JudgeHit, HitsJudged, SearchPairs, TakePair,
                        InSegment, scanVars, ruleVars, placeVars
      <2>2. QED BY <2>1, ProgressKept
<1>4. CASE UNCHANGED vars
      <2>1. InSegment' = InSegment /\ UNCHANGED scanVars
            BY <1>4 DEF vars, InSegment, scanVars, ruleVars, placeVars
      <2>2. QED BY <2>1, ProgressKept DEF ProgressInv
<1>5. CASE Load \/ (\E i \in Issues : Pick(i)) \/ CloseSegment \/ Collect \/ StartDedup
           \/ Insert \/ Report \/ (\E newOrder \in RuleOrders : Rescan(newOrder))
      <2>1. ~InSegment'
            BY <1>5 DEF Load, Pick, CloseSegment, Collect, StartDedup, Insert, Report,
                        Rescan, InSegment
      <2>2. QED BY <2>1 DEF ProgressInv
<1>6. QED
      BY <1>1, <1>2, <1>3, <1>4, <1>5 DEF Next, Scan

\* The matches of a text that pass the filters of their rules.
ShownIn(text) ==
    {c \in UNION {{r} \X MatchesOf(r, text) : r \in Rules} :
        RuleFilters(c[1], text, c[2].value)}

\* Once every rule has scanned the text, its hits are those of the text.
LEMMA HitsOfText ==
    ASSUME ScanInv, ProgressInv, stage \in {"judge", "pairs"}
    PROVE  {hits[i] : i \in 1..Len(hits)} = {HitOf(c[1], c[2]) : c \in ShownIn(Text)}
<1>1. /\ InSegment /\ rule = Len(order) + 1 /\ Len(order) \in Nat
      /\ \A k \in 1..Len(order) : order[k] \in Rules
      /\ \A r \in Rules : \E k \in 1..Len(order) : order[k] = r
      BY RulesInOrder DEF InSegment, ScanInv, PlaceInv
<1>2. \A r \in Rules : TakenOf(r) = MatchesOf(r, Text)
      <2>1. \A k \in 1..Len(order) : k < rule
            BY <1>1
      <2>2. QED BY <1>1, <2>1 DEF ProgressInv
<1>3. ASSUME NEW h \in GivenHits
      PROVE  \E c \in ShownIn(Text) : h = HitOf(c[1], c[2])
      <2>1. PICK t \in taken : /\ RuleFilters(RuleOf(t.rule), Text, t.match.value)
                               /\ h = HitOf(RuleOf(t.rule), t.match)
            BY DEF GivenHits
      <2>2. PICK r \in Rules : \E n \in Occurrences(r, Text) : t = [rule |-> r.id, match |-> n]
            BY <1>1 DEF ProgressInv
      <2> DEFINE m == t.match
      <2>3. RuleOf(t.rule) = r /\ t.rule = r.id /\ t.match = m
            BY <2>2, RuleOfId
      <2>4. m \in MatchesOf(r, Text)
            BY <1>2, <2>3 DEF TakenOf
      <2> DEFINE c == <<r, m>>
      <2>5. c \in UNION {{s} \X MatchesOf(s, Text) : s \in Rules} /\ c[1] = r /\ c[2] = m
            BY <2>4
      <2> HIDE DEF c
      <2>6. QED BY <2>1, <2>3, <2>5 DEF ShownIn
<1>4. ASSUME NEW c \in ShownIn(Text)
      PROVE  HitOf(c[1], c[2]) \in GivenHits
      <2>1. PICK r \in Rules : c \in {r} \X MatchesOf(r, Text)
            BY DEF ShownIn
      <2>2. c[1] = r /\ c[2] \in TakenOf(r) /\ RuleFilters(r, Text, c[2].value)
            BY <1>2, <2>1 DEF ShownIn
      <2>3. PICK t \in taken : t.rule = r.id /\ t.match = c[2]
            BY <2>2 DEF TakenOf
      <2>4. RuleOf(t.rule) = r
            BY <2>3, RuleOfId
      <2>5. QED BY <2>2, <2>3, <2>4 DEF GivenHits
<1>5. {hits[i] : i \in 1..Len(hits)} = GivenHits
      BY <1>1 DEF ProgressInv
<1>6. QED
      BY <1>3, <1>4, <1>5

-----------------------------------------------------------------------------
(* What an issue gives, in whatever order issues and rules are taken.      *)

\* Here, HitOf, Reportable: for any issue and any of its segments.
PlaceOf(i, seg) == [issue |-> i, path |-> seg.path, source |-> seg.source]
HitIn(text, r, m) ==
    [rule |-> r.id, secret |-> Slice(text, m.value[1], m.value[2]), span |-> m.span,
     snippet |-> Snippet(text, m.value), inSnippet |-> SpanInSnippet(m.value)]
ReportableIn(i, seg, h) ==
    /\ ~Allowlisted(records, h.secret, h.rule, i, seg.path)
    /\ Kept(RuleOf(h.rule), seg.text, h.secret, h.span, floor)

SecretOf(h) == <<h.secret, h.rule>>
PairKey(pair) == <<pair.password, "credential_pair">>
PairsCount == ~BelowFloor("high", ParsedConfidence(floor))

RulesGive(i, seg) ==
    {<<SecretOf(h), PlaceOf(i, seg)>> :
        h \in {h \in {HitIn(seg.text, c[1], c[2]) : c \in ShownIn(seg.text)} :
                  ReportableIn(i, seg, h)}}
PairsGive(i, seg) ==
    {<<PairKey(PairsOf(seg.text)[k]), PlaceOf(i, seg)>> :
        k \in {k \in 1..Len(PairsOf(seg.text)) : PairsCount}}
SegmentGives(i, seg) == RulesGive(i, seg) \cup PairsGive(i, seg)
IssueGives(i) ==
    UNION {SegmentGives(i, Extract(content[i])[k]) : k \in 1..Len(Extract(content[i]))}
IssuesGive(I) == UNION {IssueGives(i) : i \in I}

\* What the segment at hand gave so far, and those before it.
HitsGave(n) == {<<SecretOf(hits[j]), Here>> : j \in DueTo(n)}
PairsGave(n) == {<<PairKey(pairs[k]), Here>> : k \in {k \in 1..n : PairsCount}}
SegmentsGave(n) == UNION {SegmentGives(issue, segments[k]) : k \in 1..n}

LEMMA GivesKept ==
    ASSUME UNCHANGED <<content, records, floor>>
    PROVE  /\ \A i, seg : SegmentGives(i, seg)' = SegmentGives(i, seg)
           /\ \A I : IssuesGive(I)' = IssuesGive(I)
<1>1. \A i, seg, h : ReportableIn(i, seg, h)' = ReportableIn(i, seg, h)
      BY DEF ReportableIn
<1>2. PairsCount' = PairsCount
      BY DEF PairsCount
<1>3. \A i, seg : SegmentGives(i, seg)' = SegmentGives(i, seg)
      BY <1>1, <1>2 DEF SegmentGives, RulesGive, PairsGive
<1>4. \A i : IssueGives(i)' = IssueGives(i)
      BY <1>3 DEF IssueGives
<1>5. QED
      BY <1>3, <1>4 DEF IssuesGive

\* The places a new finding is reported at.
LEMMA NewPlaces ==
    /\ \A h : Places(FindingOf(h)) = {<<SecretOf(h), Here>>}
    /\ \A pair : Places(PairFinding(pair)) = {<<PairKey(pair), Here>>}
<1>1. ToSet(<<Here>>) = {Here}
      BY DEF ToSet
<1>2. \A h : MergeKey(FindingOf(h)) = SecretOf(h) /\ FindingOf(h).locations = <<Here>>
      BY DEF MergeKey, FindingOf, SecretOf
<1>3. \A pair : /\ MergeKey(PairFinding(pair)) = PairKey(pair)
                /\ PairFinding(pair).locations = <<Here>>
      BY DEF MergeKey, PairFinding, PairKey
<1>4. \A f : f.locations = <<Here>> => Places(f) = {<<MergeKey(f), Here>>}
      BY <1>1 DEF Places
<1>5. QED
      BY <1>2, <1>3, <1>4

\* The hits give what the rules give in such a segment.
LEMMA HitsGaveAll ==
    ASSUME ScanInv, ProgressInv, stage \in {"judge", "pairs"}
    PROVE  HitsGave(Len(hits)) = RulesGive(issue, segments[segment])
<1> DEFINE seg == segments[segment]
           all0 == {hits[j] : j \in 1..Len(hits)}
<1>1. /\ Here = PlaceOf(issue, seg) /\ Text = seg.text
      /\ \A h : Reportable(h) = ReportableIn(issue, seg, h)
      /\ \A r, m : HitOf(r, m) = HitIn(Text, r, m)
      BY DEF Here, PlaceOf, Text, Path, Reportable, ReportableIn, HitOf, HitIn
<1>2. all0 = {HitIn(Text, c[1], c[2]) : c \in ShownIn(Text)}
      BY <1>1, HitsOfText
<1>3. HitsGave(Len(hits)) = {<<SecretOf(h), Here>> : h \in {h \in all0 : Reportable(h)}}
      BY DEF HitsGave, DueTo
<1> HIDE DEF seg, all0
<1>4. QED
      BY <1>1, <1>2, <1>3 DEF RulesGive, seg

\* The detector is asked about the text at hand.
SearchInv == stage = "pairs" => Leads(SearchSteps, Begun(Text), Now)

LEMMA PairsGaveAll ==
    ASSUME ScanInv, SearchInv, stage = "pairs", pairStage = "found"
    PROVE  PairsGave(Len(pairs)) = PairsGive(issue, segments[segment])
<1>1. Text \in SegmentTexts
      BY TextAtHand DEF ScanInv, InSegment
<1>2. pairs = PairsOf(Text)
      BY <1>1, SearchEnds DEF SearchInv, ScanInv
<1>3. Here = PlaceOf(issue, segments[segment]) /\ Text = segments[segment].text
      BY DEF Here, PlaceOf, Text, Path
<1>4. QED
      BY <1>2, <1>3 DEF PairsGave, PairsGive

LEMMA SearchStep == ScanInv /\ SearchInv /\ [Next]_vars => SearchInv'
<1> SUFFICES ASSUME ScanInv, SearchInv, [Next]_vars PROVE SearchInv'
    OBVIOUS
<1> USE DEF SearchInv
<1>1. CASE HitsJudged
      <2>1. Detect(Text) /\ Text' = Text
            BY <1>1 DEF HitsJudged, placeVars, Text
      <2>2. \A text : text = Text => Leads(SearchSteps, Begun(text), Now)'
            BY <2>1, SearchBegun
      <2>3. QED BY <2>1, <2>2
<1>2. CASE SearchPairs
      <2>1. stage = "pairs" /\ Search /\ Text' = Text
            BY <1>2 DEF SearchPairs, placeVars, Text
      <2>2. \A text : text = Text => Leads(SearchSteps, Begun(text), Now)'
            BY <2>1, SearchGoesOn DEF ScanInv
      <2>3. QED BY <2>1, <2>2
<1>3. CASE TakePair \/ UNCHANGED vars
      <2>1. UNCHANGED pairVars /\ Text' = Text /\ stage' = stage
            BY <1>3 DEF TakePair, vars, placeVars, Text
      <2>2. Now' = Now
            BY <2>1 DEF pairVars, Now
      <2>3. QED BY <2>1, <2>2
<1>4. CASE Load \/ (\E i \in Issues : Pick(i)) \/ OpenSegment \/ ScanText \/ RulesDone
           \/ JudgeHit \/ CloseSegment \/ Collect \/ StartDedup \/ Insert \/ Report
           \/ (\E newOrder \in RuleOrders : Rescan(newOrder))
      BY <1>4 DEF Load, Pick, OpenSegment, ScanText, RulesDone, JudgeHit, CloseSegment,
                  Collect, StartDedup, Insert, Report, Rescan
<1>5. QED
      BY <1>1, <1>2, <1>3, <1>4 DEF Next, Scan

\* Unless the cap was reached, the findings of the issue are what its segments gave.
GivenInv ==
    ~Full =>
        /\ stage \in {"segment", "rules"} => Emitted(findings) = SegmentsGave(segment - 1)
        /\ stage = "judge" =>
              Emitted(findings) = SegmentsGave(segment - 1) \cup HitsGave(judged)
        /\ stage = "pairs" =>
              Emitted(findings) =
                  SegmentsGave(segment - 1) \cup HitsGave(Len(hits)) \cup PairsGave(judged)

\* What a step that leaves the segment alone does to what it gave.
LEMMA GaveKept ==
    ASSUME UNCHANGED <<content, verdictVars>>
    PROVE  /\ \A n : SegmentsGave(n)' = SegmentsGave(n)
           /\ \A n : HitsGave(n)' = HitsGave(n)
           /\ \A n : UNCHANGED pairs => PairsGave(n)' = PairsGave(n)
           /\ \A h : Reportable(h)' = Reportable(h)
           /\ Here' = Here /\ PairsCount' = PairsCount
<1> USE DEF verdictVars
<1>1. \A h : Reportable(h)' = Reportable(h)
      BY DEF Reportable, Here, Text, Path
<1>2. Here' = Here /\ PairsCount' = PairsCount
      BY DEF Here, Path, PairsCount
<1>3. \A n : SegmentsGave(n)' = SegmentsGave(n)
      BY GivesKept DEF SegmentsGave
<1>4. \A n : HitsGave(n)' = HitsGave(n)
      BY <1>1, <1>2 DEF HitsGave, DueTo
<1>5. \A n : UNCHANGED pairs => PairsGave(n)' = PairsGave(n)
      BY <1>2 DEF PairsGave
<1>6. QED
      BY <1>1, <1>2, <1>3, <1>4, <1>5

LEMMA NextGave ==
    ASSUME NEW n \in Nat
    PROVE  /\ HitsGave(n + 1) = HitsGave(n) \cup
                 (IF Reportable(hits[n + 1]) THEN {<<SecretOf(hits[n + 1]), Here>>} ELSE {})
           /\ PairsGave(n + 1) = PairsGave(n) \cup
                 (IF PairsCount THEN {<<PairKey(pairs[n + 1]), Here>>} ELSE {})
           /\ SegmentsGave(n + 1) = SegmentsGave(n) \cup SegmentGives(issue, segments[n + 1])
           /\ HitsGave(0) = {} /\ PairsGave(0) = {} /\ SegmentsGave(0) = {}
<1>1. 1..(n + 1) = (1..n) \cup {n + 1} /\ 1..0 = {}
      OBVIOUS
<1>2. HitsGave(n + 1) = HitsGave(n) \cup
         (IF Reportable(hits[n + 1]) THEN {<<SecretOf(hits[n + 1]), Here>>} ELSE {})
      <2>1. DueTo(n + 1) = DueTo(n) \cup (IF Reportable(hits[n + 1]) THEN {n + 1} ELSE {})
            BY <1>1 DEF DueTo
      <2>2. QED BY <2>1 DEF HitsGave
<1>3. PairsGave(n + 1) = PairsGave(n) \cup
         (IF PairsCount THEN {<<PairKey(pairs[n + 1]), Here>>} ELSE {})
      <2>1. {k \in 1..(n + 1) : PairsCount} =
               {k \in 1..n : PairsCount} \cup (IF PairsCount THEN {n + 1} ELSE {})
            BY <1>1
      <2>2. QED BY <2>1 DEF PairsGave
<1>4. SegmentsGave(n + 1) = SegmentsGave(n) \cup SegmentGives(issue, segments[n + 1])
      BY <1>1 DEF SegmentsGave
<1>5. HitsGave(0) = {} /\ PairsGave(0) = {} /\ SegmentsGave(0) = {}
      BY <1>1 DEF HitsGave, DueTo, PairsGave, SegmentsGave
<1>6. QED
      BY <1>2, <1>3, <1>4, <1>5

LEMMA GivenStep ==
    ScanInv /\ ListsInv /\ ProgressInv /\ SearchInv /\ GivenInv /\ [Next]_vars => GivenInv'
<1> SUFFICES ASSUME ScanInv, ListsInv, ProgressInv, SearchInv, GivenInv, [Next]_vars,
                    ~Full'
             PROVE  GivenInv'
    BY DEF GivenInv
<1>0. segment \in Nat \ {0}
      BY SegmentsListed DEF ScanInv, PlaceInv
<1>1. CASE \E i \in Issues : Pick(i)
      <2>1. findings' = <<>> /\ segment' = 1 /\ stage' = "segment"
            BY <1>1 DEF Pick
      <2>2. SegmentsGave(0)' = {}
            BY DEF SegmentsGave
      <2>3. Emitted(findings') = {}
            BY <2>1, EmptyFindings
      <2>4. SegmentsGave(segment - 1)' = {}
            BY <2>1 DEF SegmentsGave
      <2>5. QED BY <2>1, <2>3, <2>4 DEF GivenInv
<1>2. CASE OpenSegment
      <2>1. /\ stage = "segment" /\ stage' = "rules" /\ ~Full
            /\ UNCHANGED <<findings, content, records, floor, issue, segments, segment>>
            BY <1>2 DEF OpenSegment, placeVars, configVars
      <2>2. SegmentsGave(segment - 1)' = SegmentsGave(segment - 1)
            BY <2>1, GivesKept DEF SegmentsGave
      <2>3. QED BY <2>1, <2>2 DEF GivenInv
<1>3. CASE ScanText
      <2>1. /\ stage = "rules" /\ stage' = "rules" /\ Full' = Full
            /\ UNCHANGED <<findings, content, records, floor, issue, segments, segment>>
            BY <1>3 DEF ScanText, placeVars, configVars, Full
      <2>2. SegmentsGave(segment - 1)' = SegmentsGave(segment - 1)
            BY <2>1, GivesKept DEF SegmentsGave
      <2>3. QED BY <2>1, <2>2 DEF GivenInv
<1>4. CASE RulesDone
      <2>1. /\ stage = "rules" /\ stage' = "judge" /\ judged' = 0 /\ Full' = Full
            /\ UNCHANGED <<findings, content, verdictVars>>
            BY <1>4 DEF RulesDone, placeVars, configVars, ruleVars, verdictVars, Full
      <2>2. SegmentsGave(segment - 1)' = SegmentsGave(segment - 1)
            BY <2>1, GaveKept DEF verdictVars
      <2>3. HitsGave(judged)' = {}
            <3>1. HitsGave(judged)' = HitsGave(0)'
                  BY <2>1 DEF HitsGave, DueTo
            <3>2. HitsGave(0)' = HitsGave(0)
                  BY <2>1, GaveKept
            <3>3. QED BY <3>1, <3>2, NextGave
      <2>4. QED BY <2>1, <2>2, <2>3 DEF GivenInv
<1>5. CASE JudgeHit
      <2> DEFINE h == hits[judged + 1]
      <2>1. /\ stage = "judge" /\ stage' = "judge" /\ judged' = judged + 1 /\ ~Full
            /\ UNCHANGED <<content, verdictVars>>
            /\ findings' = IF Reportable(h) THEN Append(findings, FindingOf(h)) ELSE findings
            BY <1>5 DEF JudgeHit, placeVars, configVars, ruleVars, verdictVars
      <2>2. judged \in Nat
            BY <2>1 DEF ScanInv, JudgedInv
      <2>3. SegmentsGave(segment - 1)' = SegmentsGave(segment - 1)
            BY <2>1, GaveKept DEF verdictVars
      <2>4. HitsGave(judged)' = HitsGave(judged + 1)
            <3>1. ASSUME NEW n, n = judged + 1 PROVE HitsGave(judged)' = HitsGave(n)
                  <4>1. HitsGave(judged)' = HitsGave(n)'
                        BY <2>1, <3>1 DEF HitsGave, DueTo
                  <4>2. QED BY <2>1, <4>1, GaveKept
            <3>2. QED BY <3>1
      <2>5. Emitted(findings') = Emitted(findings) \cup
               (IF Reportable(h) THEN {<<SecretOf(h), Here>>} ELSE {})
            <3>1. CASE Reportable(h)
                  <4>1. Emitted(findings') = Emitted(findings) \cup Places(FindingOf(h))
                        BY <2>1, <3>1, NewFinding, FindingsAppend DEF ListsInv
                  <4>2. QED BY <3>1, <4>1, NewPlaces
            <3>2. CASE ~Reportable(h)
                  BY <2>1, <3>2
            <3>3. QED BY <3>1, <3>2
      <2>6. HitsGave(judged + 1) = HitsGave(judged) \cup
               (IF Reportable(h) THEN {<<SecretOf(h), Here>>} ELSE {})
            BY <2>2, NextGave
      <2>7. QED BY <2>1, <2>3, <2>4, <2>5, <2>6 DEF GivenInv
<1>6. CASE HitsJudged
      <2>1. /\ stage = "judge" /\ stage' = "pairs" /\ judged' = 0 /\ Full' = Full
            /\ UNCHANGED <<findings, content, verdictVars>>
            /\ judged = Len(hits) \/ Full
            BY <1>6 DEF HitsJudged, placeVars, configVars, ruleVars, verdictVars, Full
      <2>2. SegmentsGave(segment - 1)' = SegmentsGave(segment - 1)
            BY <2>1, GaveKept DEF verdictVars
      <2>3. HitsGave(Len(hits))' = HitsGave(judged)
            <3>1. HitsGave(Len(hits))' = HitsGave(Len(hits)) /\ judged = Len(hits)
                  BY <2>1, GaveKept DEF verdictVars
            <3>2. QED BY <3>1
      <2>4. PairsGave(judged)' = {}
            BY <2>1 DEF PairsGave
      <2>5. QED BY <2>1, <2>2, <2>3, <2>4 DEF GivenInv
<1>7. CASE SearchPairs \/ UNCHANGED vars
      <2>1. /\ Full' = Full /\ UNCHANGED <<stage, judged, findings, content, verdictVars>>
            BY <1>7 DEF SearchPairs, vars, placeVars, configVars, ruleVars, verdictVars, Full
      <2>2. /\ SegmentsGave(segment - 1)' = SegmentsGave(segment - 1)
            /\ HitsGave(judged)' = HitsGave(judged)
            /\ HitsGave(Len(hits))' = HitsGave(Len(hits))
            BY <2>1, GaveKept DEF verdictVars
      <2>3. stage = "pairs" => PairsGave(judged)' = PairsGave(judged)
            <3>1. CASE UNCHANGED vars
                  BY <3>1, <2>1, GaveKept DEF vars, pairVars
            <3>2. CASE SearchPairs
                  <4>1. pairStage # "found"
                        BY <3>2 DEF SearchPairs, Search, LinkStep, LinksDone, Slide,
                                    SkipPassword, PairUp, WindowDone, FieldStep, FieldsDone
                  <4>2. stage = "pairs" /\ judged = 0 /\ judged' = 0
                        BY <2>1, <3>2, <4>1 DEF SearchPairs, ScanInv, JudgedInv
                  <4>3. QED BY <4>2 DEF PairsGave
            <3>3. QED BY <1>7, <3>1, <3>2
      <2>4. QED BY <2>1, <2>2, <2>3 DEF GivenInv
<1>8. CASE TakePair
      <2> DEFINE p == pairs[judged + 1]
      <2>1. /\ stage = "pairs" /\ stage' = "pairs" /\ judged' = judged + 1 /\ ~Full
            /\ UNCHANGED <<content, verdictVars, pairs>>
            /\ findings' = IF PairsCount THEN Append(findings, PairFinding(p)) ELSE findings
            BY <1>8 DEF TakePair, placeVars, configVars, ruleVars, verdictVars, pairVars,
                        PairsCount
      <2>2. judged \in Nat
            BY <2>1 DEF ScanInv, JudgedInv
      <2>3. /\ SegmentsGave(segment - 1)' = SegmentsGave(segment - 1)
            /\ HitsGave(Len(hits))' = HitsGave(Len(hits))
            BY <2>1, GaveKept DEF verdictVars
      <2>4. PairsGave(judged)' = PairsGave(judged + 1)
            <3>1. ASSUME NEW n, n = judged + 1 PROVE PairsGave(judged)' = PairsGave(n)
                  <4>1. PairsGave(judged)' = PairsGave(n)'
                        BY <2>1, <3>1 DEF PairsGave
                  <4>2. QED BY <2>1, <4>1, GaveKept
            <3>2. QED BY <3>1
      <2>5. Emitted(findings') = Emitted(findings) \cup
               (IF PairsCount THEN {<<PairKey(p), Here>>} ELSE {})
            <3>1. CASE PairsCount
                  <4>1. Emitted(findings') = Emitted(findings) \cup Places(PairFinding(p))
                        BY <2>1, <3>1, NewFinding, FindingsAppend DEF ListsInv
                  <4>2. QED BY <3>1, <4>1, NewPlaces
            <3>2. CASE ~PairsCount
                  BY <2>1, <3>2
            <3>3. QED BY <3>1, <3>2
      <2>6. PairsGave(judged + 1) = PairsGave(judged) \cup
               (IF PairsCount THEN {<<PairKey(p), Here>>} ELSE {})
            BY <2>2, NextGave
      <2>7. QED BY <2>1, <2>3, <2>4, <2>5, <2>6 DEF GivenInv
<1>9. CASE CloseSegment
      <2>1. /\ stage = "pairs" /\ stage' = "segment" /\ pairStage = "found"
            /\ (judged = Len(pairs) \/ Full) /\ Full' = Full /\ segment' = segment + 1
            /\ UNCHANGED <<findings, content, records, floor, issue, segments>>
            BY <1>9 DEF CloseSegment, Return, configVars, Full
      <2>2. Emitted(findings) =
               SegmentsGave(segment - 1) \cup HitsGave(Len(hits)) \cup PairsGave(Len(pairs))
            BY <2>1 DEF GivenInv
      <2>3. /\ HitsGave(Len(hits)) = RulesGive(issue, segments[segment])
            /\ PairsGave(Len(pairs)) = PairsGive(issue, segments[segment])
            BY <2>1, HitsGaveAll, PairsGaveAll
      <2>4. SegmentsGave(segment) =
               SegmentsGave(segment - 1) \cup SegmentGives(issue, segments[segment])
            <3>1. segment - 1 \in Nat /\ (segment - 1) + 1 = segment
                  BY <1>0
            <3>2. QED BY <3>1, NextGave
      <2>5. SegmentsGave(segment - 1)' = SegmentsGave(segment)
            <3>1. (segment - 1)' = segment
                  BY <1>0, <2>1
            <3>2. QED BY <2>1, <3>1, GivesKept DEF SegmentsGave
      <2>6. QED BY <2>1, <2>2, <2>3, <2>4, <2>5 DEF GivenInv, SegmentGives
<1>10. CASE Load \/ Collect \/ StartDedup \/ Insert \/ Report
            \/ (\E newOrder \in RuleOrders : Rescan(newOrder))
       BY <1>10 DEF Load, Collect, StartDedup, Insert, Report, Rescan, GivenInv
<1>11. QED
       BY <1>1, <1>2, <1>3, <1>4, <1>5, <1>6, <1>7, <1>8, <1>9, <1>10 DEF Next, Scan

-----------------------------------------------------------------------------
(* What a scan gives.                                                      *)

InIssue == stage \in {"segment", "rules", "judge", "pairs"}

\* Unless an issue was cut short, the findings of the issues that were collected,
\* and then those of all issues, are what the issues give, and so are the
\* findings of the scans before this one.
GatheredInv ==
    /\ InIssue => issue \in Issues \ todo
    /\ stage = "load" => todo = Issues
    /\ stage \in {"load", "pick"} /\ ~cut => Emitted(all) = IssuesGive(Issues \ todo)
    /\ InIssue /\ ~cut => Emitted(all) = IssuesGive(Issues \ (todo \cup {issue}))
    /\ stage \notin {"dedup", "done"} => Emitted(merged) = {}
    /\ stage \in {"dedup", "done"} /\ ~cut =>
          Emitted(merged) \cup Emitted(all) = IssuesGive(Issues)
    /\ stage = "done" => all = <<>>
    /\ IsList(earlier)
    /\ \A k \in 1..Len(earlier) :
          ~earlier[k].cut => Emitted(earlier[k].findings) = IssuesGive(Issues)

FoundInv ==
    ScanInv /\ ListsInv /\ ProgressInv /\ SearchInv /\ GivenInv /\ GatheredInv

LEMMA FoundInit == Init => FoundInv
<1> SUFFICES ASSUME Init PROVE FoundInv
    OBVIOUS
<1>1. ScanInv /\ ListsInv
      BY ScanInit, ListsInit
<1>2. stage = "load" /\ todo = Issues /\ all = <<>> /\ merged = <<>> /\ earlier = <<>>
      BY DEF Init
<1>3. IssuesGive(Issues \ todo) = {}
      BY <1>2 DEF IssuesGive
<1>4. IsList(earlier) /\ Len(earlier) = 0
      BY <1>2 DEF IsList
<1>5. GatheredInv
      <2>1. Emitted(all) = {} /\ Emitted(merged) = {}
            BY <1>2, EmptyFindings
      <2>2. ~InIssue
            BY <1>2 DEF InIssue
      <2>3. 1..Len(earlier) = {}
            BY <1>4
      <2>4. QED BY <1>2, <1>3, <1>4, <2>1, <2>2, <2>3 DEF GatheredInv
<1>6. ProgressInv /\ SearchInv /\ GivenInv
      BY <1>2 DEF ProgressInv, SearchInv, GivenInv, InSegment
<1>7. QED
      BY <1>1, <1>5, <1>6 DEF FoundInv

LEMMA GatheredStep == FoundInv /\ [Next]_vars => GatheredInv'
<1> SUFFICES ASSUME FoundInv, [Next]_vars PROVE GatheredInv'
    OBVIOUS
<1> USE DEF FoundInv
<1>0. UNCHANGED <<content, records, floor, cap>> /\ \A I : IssuesGive(I)' = IssuesGive(I)
      <2>1. UNCHANGED configVars
            BY DEF Next, Scan, Load, Pick, OpenSegment, ScanText, RulesDone, JudgeHit,
                   HitsJudged, SearchPairs, TakePair, CloseSegment, Collect, StartDedup,
                   Insert, Report, Rescan, vars
      <2>2. UNCHANGED <<content, records, floor, cap>>
            BY <2>1 DEF configVars
      <2>3. QED BY <2>2, GivesKept
<1>1. CASE Load
      <2>1. UNCHANGED <<todo, all, cut, merged, earlier>> /\ stage = "load"
            /\ stage' \in {"pick", "refused"}
            BY <1>1 DEF Load, placeVars, outVars
      <2>2. QED BY <1>0, <2>1 DEF GatheredInv, InIssue
<1>2. CASE \E i \in Issues : Pick(i)
      <2>1. PICK i \in Issues : Pick(i)
            BY <1>2
      <2>2. /\ stage = "pick" /\ stage' = "segment" /\ issue' = i /\ todo' = todo \ {i}
            /\ i \in todo /\ UNCHANGED <<all, cut, merged, earlier>>
            BY <2>1 DEF Pick, outVars
      <2>3. Issues \ (todo' \cup {issue'}) = Issues \ todo
            BY <2>2
      <2>4. QED BY <1>0, <2>2, <2>3 DEF GatheredInv, InIssue
<1>3. CASE OpenSegment \/ ScanText \/ RulesDone \/ JudgeHit \/ HitsJudged \/ SearchPairs
           \/ TakePair \/ CloseSegment
      <2>1. /\ InIssue /\ InIssue' /\ stage' \notin {"load", "pick", "dedup", "done"}
            /\ stage \notin {"dedup", "done"}
            /\ UNCHANGED <<todo, issue, all, cut, merged, earlier>>
            BY <1>3 DEF OpenSegment, ScanText, RulesDone, JudgeHit, HitsJudged, SearchPairs,
                        TakePair, CloseSegment, placeVars, outVars, InIssue
      <2>2. QED BY <1>0, <2>1 DEF GatheredInv
<1>4. CASE Collect
      <2>1. /\ stage = "segment" /\ stage' = "pick" /\ all' = all \o findings
            /\ (segment > Len(segments) \/ Full) /\ cut' = (cut \/ Full)
            /\ UNCHANGED <<todo, merged, earlier>> /\ InIssue
            BY <1>4 DEF Collect, placeVars, InIssue
      <2>2. issue \in Issues \ todo
            BY <2>1 DEF GatheredInv
      <2>3. ASSUME ~cut' PROVE Emitted(all') = IssuesGive(Issues \ todo)
            <3>1. ~cut /\ ~Full /\ segment > Len(segments)
                  BY <2>1, <2>3
            <3>2. segment = Len(segments) + 1 /\ Len(segments) \in Nat
                  BY <3>1, SegmentsListed DEF ScanInv, PlaceInv
            <3>3. segments = Extract(content[issue])
                  BY <2>2 DEF ScanInv, PlaceInv, DetectionAssumption
            <3>4. Emitted(findings) = IssueGives(issue)
                  <4>1. segment - 1 = Len(segments)
                        BY <3>2
                  <4>2. Emitted(findings) = SegmentsGave(Len(segments))
                        BY <2>1, <3>1, <4>1 DEF GivenInv
                  <4>3. QED BY <3>3, <4>2 DEF SegmentsGave, IssueGives
            <3>5. Emitted(all') = Emitted(all) \cup Emitted(findings)
                  BY <2>1, FindingsJoin DEF ListsInv
            <3>6. Emitted(all) = IssuesGive(Issues \ (todo \cup {issue}))
                  BY <2>1, <3>1 DEF GatheredInv
            <3>7. Issues \ todo = (Issues \ (todo \cup {issue})) \cup {issue}
                  BY <2>2
            <3>8. QED BY <3>4, <3>5, <3>6, <3>7 DEF IssuesGive
      <2>4. QED BY <1>0, <2>1, <2>3 DEF GatheredInv, InIssue
<1>5. CASE StartDedup
      <2>1. /\ stage = "pick" /\ stage' = "dedup" /\ todo = {} /\ todo' = todo
            /\ UNCHANGED <<all, cut, merged, earlier>>
            BY <1>5 DEF StartDedup, placeVars, outVars
      <2>2. Issues \ todo = Issues
            BY <2>1
      <2>3. QED BY <1>0, <2>1, <2>2 DEF GatheredInv, InIssue
<1>6. CASE Insert
      <2>1. /\ stage = "dedup" /\ stage' = "dedup"
            /\ all # <<>> /\ merged' = MergedWith(Head(all)) /\ all' = Tail(all)
            /\ UNCHANGED <<cut, earlier>>
            BY <1>6 DEF Insert
      <2>2. /\ IsFinding(Head(all))
            /\ Emitted(all) = Places(Head(all)) \cup Emitted(Tail(all))
            BY <2>1, FindingsTail DEF ListsInv
      <2>3. Emitted(merged') = Emitted(merged) \cup Places(Head(all))
            BY <2>1, <2>2, MergedAdds DEF ListsInv
      <2>4. Emitted(merged') \cup Emitted(all') = Emitted(merged) \cup Emitted(all)
            BY <2>1, <2>2, <2>3
      <2>5. QED BY <1>0, <2>1, <2>4 DEF GatheredInv, InIssue
<1>7. CASE Report
      <2>1. /\ stage = "dedup" /\ stage' = "done" /\ all = <<>>
            /\ UNCHANGED <<all, cut, merged, earlier>>
            BY <1>7 DEF Report, outVars
      <2>2. QED BY <1>0, <2>1 DEF GatheredInv, InIssue
<1>8. CASE \E newOrder \in RuleOrders : Rescan(newOrder)
      <2> DEFINE entry == [findings |-> merged, cut |-> cut]
      <2>1. /\ stage = "done" /\ stage' = "pick" /\ todo' = Issues /\ ~cut' /\ all' = all
            /\ merged' = <<>> /\ earlier' = Append(earlier, entry)
            BY <1>8 DEF Rescan
      <2>2. all = <<>> /\ Emitted(all') = {} /\ Emitted(merged') = {}
            BY <2>1, EmptyFindings DEF GatheredInv
      <2>3. IssuesGive(Issues \ todo') = {}
            BY <2>1 DEF IssuesGive
      <2>4. /\ IsList(earlier') /\ Len(earlier) \in Nat /\ Len(earlier') = Len(earlier) + 1
            /\ earlier'[Len(earlier) + 1] = entry
            /\ \A k \in 1..Len(earlier) : earlier'[k] = earlier[k]
            BY <2>1, ListGrows DEF GatheredInv
      <2>5. ~cut => Emitted(merged) = IssuesGive(Issues)
            BY <2>1, <2>2, EmptyFindings DEF GatheredInv
      <2>6. ASSUME NEW k \in 1..Len(earlier'), ~earlier'[k].cut
            PROVE  Emitted(earlier'[k].findings) = IssuesGive(Issues)
            <3>1. CASE k \in 1..Len(earlier)
                  BY <2>4, <2>6, <3>1 DEF GatheredInv
            <3>2. CASE k = Len(earlier) + 1
                  <4>1. earlier'[k].findings = merged /\ earlier'[k].cut = cut
                        BY <2>4, <3>2
                  <4>2. QED BY <2>5, <2>6, <4>1
            <3>3. QED BY <2>4, <3>1, <3>2
      <2>7. QED BY <1>0, <2>1, <2>2, <2>3, <2>4, <2>6 DEF GatheredInv, InIssue
<1>9. CASE UNCHANGED vars
      BY <1>0, <1>9 DEF vars, placeVars, outVars, GatheredInv, InIssue
<1>10. QED
       BY <1>1, <1>2, <1>3, <1>4, <1>5, <1>6, <1>7, <1>8, <1>9 DEF Next, Scan

LEMMA FoundStep == FoundInv /\ [Next]_vars => FoundInv'
BY ScanStep, ListsStep, ProgressStep, SearchStep, GivenStep, GatheredStep DEF FoundInv

\* For any content, rules, allowlist and floor, and whatever the order of the rules
\* and of the issues, scans that no cap cut short report the same secrets at the
\* same places: those the issues give.
THEOREM ScansAgree == Spec => []SameFindingsEveryScan
<1>1. FoundInv => SameFindingsEveryScan
      <2> SUFFICES ASSUME FoundInv, stage = "done", ~cut, NEW k \in 1..Len(earlier),
                          ~earlier[k].cut
                   PROVE  Emitted(earlier[k].findings) = Emitted(merged)
          BY DEF SameFindingsEveryScan
      <2>1. Emitted(all) = {}
            BY EmptyFindings DEF FoundInv, GatheredInv
      <2>2. QED BY <2>1 DEF FoundInv, GatheredInv
<1>2. QED
      BY FoundInit, FoundStep, <1>1, PTL DEF Spec
=============================================================================
