----------------------------- MODULE MCDetection -----------------------------
(***************************************************************************)
(* A small world for Detection.  The cells s and t make up secrets, k is a *)
(* keyword, x a placeholder, u and p the keys of a username and of a       *)
(* password, l the scheme of a link, { opens an object, and . is a break.  *)
(***************************************************************************)
EXTENDS Detection

MCCells == {"s", "S", "t", "k", "x", "u", "p", "l", "{", "."}
MCLower == [c \in MCCells |-> IF c = "S" THEN "s" ELSE c]
MCClass == [c \in MCCells |-> CASE c = "S" -> "upper"
                                [] c \in {"{", "."} -> "other"
                                [] OTHER -> "lower"]
MCEntropy(value) == Cardinality(ToSet(value))
MCContextWords == {<<"k">>, <<"p">>}
MCDictionary == {[word |-> <<"x">>, contains |-> TRUE, exact |-> TRUE],
                 [word |-> <<"t">>, contains |-> FALSE, exact |-> TRUE]}
MCSlots == {<<"{", ".">>}
MCAccepts(name, value) == value[1] # "S"
MCProjectOf(i) == IF i = "a" THEN "P" ELSE "Q"

Option(word, group, ahead) == [word |-> word, group |-> group, ahead |-> ahead]
PlainRule == [id |-> "plain", enabled |-> TRUE, alternatives |-> <<>>, budget |-> 9,
              confidence |-> "medium", minLength |-> 0, minEntropy |-> 0,
              denylist |-> {}, ignore |-> {}, noDefaults |-> FALSE, classes |-> <<>>,
              special |-> {}, keywords |-> {}, validator |-> "none"]

\* A token of two letters, or one letter behind a keyword; the token must be
\* near a keyword and must not contain the placeholder.
TokenRule == [PlainRule EXCEPT !.id = "token", !.confidence = "high",
                 !.alternatives = <<Option(<<"s", "t">>, <<>>, <<>>),
                                    Option(<<"k", "s">>, <<1, 2>>, <<>>),
                                    Option(<<"S", "t">>, <<>>, <<>>),
                                    Option(<<"s", "x">>, <<>>, <<>>)>>,
                 !.minLength = 1, !.keywords = {<<"k">>, <<"u">>, <<".">>},
                 !.validator = "checksum"]
\* One letter, with expressions that match nothing at all.
LetterRule == [PlainRule EXCEPT !.id = "letter",
                 !.alternatives = <<Option(<<"t">>, <<>>, <<>>),
                                    Option(<<>>, <<>>, <<"x">>)>>,
                 !.budget = 10, !.noDefaults = TRUE]
\* The operator replaces one builtin rule and takes another away.
MCBuiltinRules == <<PlainRule, [PlainRule EXCEPT !.id = "letter"], TokenRule>>
MCUserRules == <<LetterRule, [PlainRule EXCEPT !.enabled = FALSE]>>

\* What the patterns of the pair detector and the JSON parser make of a text.
ValueAt(text, from) ==
    LET ends == {e \in from..Len(text) : e = Len(text) \/ text[e + 1] = "."}
    IN  Slice(text, from, Min(ends))
KeyedAt(text, key) ==
    SetToSortSeq({from \in 1..(Len(text) - 1) :
                     /\ text[from] = key
                     /\ from = 1 \/ text[from - 1] = "."
                     /\ text[from + 1] # "."}, <)
Captures(text, key) ==
    [i \in 1..Len(KeyedAt(text, key)) |->
        [pos |-> KeyedAt(text, key)[i], value |-> ValueAt(text, KeyedAt(text, key)[i])]]
MCUserCaptures(text) == Captures(text, "u")
MCPasswordCaptures(text) == Captures(text, "p")
MCLinkCaptures(text) ==
    LET places == SetToSortSeq({i \in 1..(Len(text) - 2) : text[i] = "l"}, <)
    IN  [i \in 1..Len(places) |-> [username |-> <<text[places[i] + 1]>>,
                                  password |-> <<text[places[i] + 2]>>]]
MCFieldPairs(text) ==
    IF text = <<>> \/ text[1] # "{" THEN <<>>
    ELSE [i \in 1..(Len(text) - 1) |-> [username |-> <<"k">>, password |-> <<text[i + 1]>>]]

Neighbours == <<"k", "s", "t", ".", "s", "t">>
Adjacent == <<"s", "t", "s", "t", "x", "k">>
Ignoring == <<"k", "S", "t", "s", "x", "t">>
Window == <<"u", "s", ".", "p", "s", ".", "p", "x", ".", "u", "k", ".", "p", "k">>
Crowd == <<"u", "s", ".", "p", "s", ".", "u", "k", ".", "p", "k">>
Object == <<"{", "s", "s", "x", "S", "u">>
Link == <<"l", "k", "s", "l", "s", "x", "l", "t", "s", "l", "k", "u">>
Long == Window \o <<"s">>
MCSegmentTexts == {Neighbours, Adjacent, Ignoring, Long, Crowd, Object, Link}

\* The longest text is cut twice: by the limit on texts, and by that of the pair
\* detector.
Leaf(path, kind, text) == [path |-> path, kind |-> kind, text |-> text]
Fields(first, second) ==
    <<Leaf(<<"comment", "0">>, "string", second), Leaf(<<"comment", "total">>, "number", <<>>),
      Leaf(<<"description">>, "string", first)>>
MCContents ==
    {[a |-> Fields(first, second),
      b |-> <<Leaf(<<"attachment", "0">>, "string",
                   IF second = Adjacent THEN Crowd ELSE Link)>>] :
        first \in {Neighbours, Ignoring, Object}, second \in {Adjacent, Long \o <<"t">>}}

Record == [field |-> Unset, value |-> Unset, sha256 |-> Unset, pattern |-> Unset,
           ruleId |-> Unset, issueKey |-> Unset, projectKey |-> Unset]
MCFiles == {<<>>,
            <<[Record EXCEPT !.value = <<"s", "t">>],
              [Record EXCEPT !.sha256 = [of |-> <<"s">>, isDigest |-> TRUE],
                             !.field = <<"comment">>]>>,
            <<[Record EXCEPT !.ruleId = "token", !.field = <<"comment">>],
              [Record EXCEPT !.pattern = [word |-> <<"t">>, budget |-> 1, compiles |-> TRUE],
                             !.field = <<"description">>]>>,
            <<[Record EXCEPT !.issueKey = "a"]>>,
            <<[Record EXCEPT !.ruleId = "letter", !.projectKey = "Q"]>>,
            <<[Record EXCEPT !.field = <<"comment">>]>>}
MCNoFile == {<<>>}
=============================================================================
