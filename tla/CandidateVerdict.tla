--------------------------- MODULE CandidateVerdict ---------------------------
(***************************************************************************)
(* What becomes of a value a rule matched (src/src/candidate.rs): the      *)
(* filters the rule itself demands, and the verdict of the pipeline on a   *)
(* value that passed them.  The reason of a rejection is only logged and   *)
(* is left out; the order of the filters decides nothing else.             *)
(***************************************************************************)
EXTENDS ScannedText, FiniteSets

CONSTANTS
    Radius,            \* CONTEXT_RADIUS
    Entropy(_),        \* Shannon entropy of a value
    EntropyBoost,      \* ENTROPY_BOOST_THRESHOLD
    ContextWords,      \* CONTEXT_WORDS
    Dictionary,        \* PLACEHOLDER_WORDS
    Slots,             \* opening and closing cells of a template slot
    Class,             \* per cell: the class of its character
    Accepts(_, _)      \* whether a named validator accepts a value

PlaceholderWord == [word : Texts, contains : BOOLEAN, exact : BOOLEAN]

ASSUME VerdictAssumption ==
    /\ Radius \in Nat /\ EntropyBoost \in Nat
    /\ ContextWords \subseteq Texts
    /\ Dictionary \subseteq PlaceholderWord
    /\ Class \in [Cells -> {"digit", "upper", "lower", "other"}]

-----------------------------------------------------------------------------
(* Confidence.                                                             *)

Confidences == {"low", "medium", "high"}
Grade == [low |-> 1, medium |-> 2, high |-> 3]
BelowFloor(confidence, floor) == Grade[confidence] < Grade[floor]

\* Parsing is lenient: what is not a confidence reads as low.
ParsedConfidence(name) == IF name \in Confidences THEN name ELSE "low"

\* Mutant: the boost of the context lifts a placeholder too.
AdjustBeforePlaceholder(base, context, random, placeholder) ==
    CASE base = "high"   -> IF context \/ random THEN "high" ELSE "medium"
      [] base = "medium" -> IF context /\ random THEN "high"
                            ELSE IF context \/ random THEN "medium" ELSE "low"
      [] base = "low"    -> "low"
AdjustConfidence(base, context, random, placeholder) ==
    IF placeholder THEN "low"
    ELSE CASE base = "high"   -> IF context \/ random THEN "high" ELSE "medium"
           [] base = "medium" -> IF context /\ random THEN "high"
                                 ELSE IF context \/ random THEN "medium" ELSE "low"
           [] base = "low"    -> "low"

-----------------------------------------------------------------------------
(* Placeholders: one dictionary, read in two ways.                         *)

RuleWords == {entry.word : entry \in {e \in Dictionary : e.contains}}
ValueWords == {entry.word : entry \in {e \in Dictionary : e.exact}}

IsTemplate(value) ==
    /\ value # <<>>
    /\ <<value[1], value[Len(value)]>> \in Slots

\* The check on a single value: it is a word of the dictionary or a slot.
IsPlaceholder(value) ==
    \/ Folded(value) \in ValueWords
    \/ IsTemplate(value)

\* The words a rule ignores: the dictionary unless it opted out, and its own.
IgnoredWords(rule) ==
    rule.ignore \cup IF rule.noDefaults THEN {} ELSE RuleWords

-----------------------------------------------------------------------------
(* Half one: the filters of a rule.  A bound of 0 is one the rule omits.   *)

LongEnough(rule, value) == Len(value) >= rule.minLength
RandomEnough(rule, value) == Entropy(value) >= rule.minEntropy
Denied(rule, value) == \E word \in rule.denylist : IncludesFolded(value, word)
Ignored(rule, value) == \E word \in IgnoredWords(rule) : IncludesFolded(value, word)

\* A cell counts in one class only, and only the rule's specials are special.
InClass(rule, value, class) ==
    Cardinality({i \in 1..Len(value) :
        IF class = "special" THEN Class[value[i]] = "other" /\ value[i] \in rule.special
                             ELSE Class[value[i]] = class})
HasClasses(rule, value) ==
    \A class \in DOMAIN rule.classes : InClass(rule, value, class) >= rule.classes[class]

\* A rule with keywords demands one of them near the value.
HasKeyword(rule, text, span) ==
    \/ rule.keywords = {}
    \/ \E word \in rule.keywords :
          IncludesFolded(ContextWindow(text, span, Radius), word)

Validated(rule, value) == rule.validator = "none" \/ Accepts(rule.validator, value)

RuleFilters(rule, text, span) ==
    LET value == Slice(text, span[1], span[2])
    IN  /\ LongEnough(rule, value)
        /\ RandomEnough(rule, value)
        /\ ~Denied(rule, value)
        /\ ~Ignored(rule, value)
        /\ HasClasses(rule, value)
        /\ HasKeyword(rule, text, span)
        /\ Validated(rule, value)

-----------------------------------------------------------------------------
(* Half two: the verdict on a hit.  The span of the context boost is that  *)
(* of the whole match, not of the value.                                   *)

HasContextWord(text, span) ==
    \E word \in ContextWords : Includes(Folded(ContextWindow(text, span, Radius)), word)

AdjustedConfidence(rule, text, value, span) ==
    AdjustConfidence(ParsedConfidence(rule.confidence), HasContextWord(text, span),
                     Entropy(value) > EntropyBoost, IsPlaceholder(value))

\* Verdict::Keep, for a hit the allowlist did not suppress.
Kept(rule, text, value, span, floor) ==
    ~BelowFloor(AdjustedConfidence(rule, text, value, span), ParsedConfidence(floor))
=============================================================================
