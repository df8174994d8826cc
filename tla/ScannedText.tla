----------------------------- MODULE ScannedText -----------------------------
(***************************************************************************)
(* Texts as the detectors see them.  A text is a sequence of cells; a cell *)
(* stands for a piece of text no detector cuts in two.  Positions are the  *)
(* code's byte offsets: they count from 0, and a span <<from, to>> is half *)
(* open.                                                                   *)
(***************************************************************************)
EXTENDS Integers, Sequences

CONSTANTS
    Cells,
    Lower           \* per cell: its lower case form

ASSUME CellAssumption == Lower \in [Cells -> Cells]

Texts == Seq(Cells)

\* &text[from..to]
Slice(text, from, to) == SubSeq(text, from + 1, to)

\* text.to_lowercase()
Folded(text) == [i \in 1..Len(text) |-> Lower[text[i]]]

\* The word stands in the text at this offset.
StandsAt(text, word, at) ==
    /\ at + Len(word) <= Len(text)
    /\ \A i \in 1..Len(word) : text[at + i] = word[i]

\* text.contains(word)
Includes(text, word) == \E at \in 0..Len(text) : StandsAt(text, word, at)

\* text.to_lowercase().contains(word.to_lowercase())
IncludesFolded(text, word) == Includes(Folded(text), Folded(word))

\* The part of the text within radius of a span, clamped to the text.
ContextWindow(text, span, radius) ==
    Slice(text, IF span[1] <= radius THEN 0 ELSE span[1] - radius,
                IF span[2] + radius >= Len(text) THEN Len(text) ELSE span[2] + radius)

\* The first cells of a text.
Cut(text, size) == IF Len(text) <= size THEN text ELSE Slice(text, 0, size)
=============================================================================
