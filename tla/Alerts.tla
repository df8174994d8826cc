--------------------------------- MODULE Alerts ---------------------------------
(***************************************************************************)
(* The alerts (src/src/alert): which alerts files can be used, to which    *)
(* channels they send, and what the message of a channel lists.            *)
(***************************************************************************)
EXTENDS Naturals, FiniteSets

CONSTANTS TopFindings     \* function: a channel -> findings its message may list

ChannelNames == {"slack", "teams", "webhook"}
Confidences == {"low", "medium", "high"}

Rank(confidence) ==
    CASE confidence = "low" -> 1 [] confidence = "medium" -> 2 [] confidence = "high" -> 3

\* An alerts file: whether it parses with no unknown key, the channels it names,
\* those of them whose URL is blank, and its threshold.
AlertsFile == [parses : BOOLEAN, named : SUBSET ChannelNames,
               blank : SUBSET ChannelNames, minConfidence : STRING]

\* AlertsConfig::load and AlertsConfig::channels.
UsableAlerts(file) ==
    /\ file.parses
    /\ file.minConfidence \in Confidences
    /\ file.named # {}
    /\ file.named \cap file.blank = {}

\* filter_by_confidence
Visible(findings, min) == {f \in findings : Rank(f.confidence) >= Rank(min)}

\* What a message may list: the first of the visible findings, as many as fit.
\* The order is that of the scan, in which any finding may come first.
Messages(channel, findings, min) ==
    LET visible == Visible(findings, min)
    IN IF Cardinality(visible) <= TopFindings[channel]
       THEN {visible}
       ELSE {s \in SUBSET visible : Cardinality(s) = TopFindings[channel]}
================================================================================
