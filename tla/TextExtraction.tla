---------------------------- MODULE TextExtraction ----------------------------
(***************************************************************************)
(* How the fields of an issue become texts to scan (src/src/extract.rs).   *)
(* A payload is given by the leaves of its JSON in the order of the walk:  *)
(* members of an object by key, elements of an array by index.  A path is  *)
(* the sequence of the keys and indexes that lead to a leaf.               *)
(***************************************************************************)
EXTENDS ScannedText, SequencesExt

CONSTANTS
    MaxText,             \* max_text_size_kb, in cells
    CommentKeys,         \* keys that begin with "comment"
    AttachmentKeys,      \* keys that begin with "attachment"
    DescriptionKeys      \* keys that begin with "description"

ASSUME ExtractionAssumption == MaxText \in Nat

\* A key counts wherever it stands in the path, but "description" only first; of
\* several, the first of these.
ClassifyPath(path) ==
    LET Holds(keys) == \E i \in 1..Len(path) : path[i] \in keys
    IN  IF Holds(CommentKeys) THEN "comment"
        ELSE IF Holds(AttachmentKeys) THEN "attachment"
        ELSE IF path[1] \in DescriptionKeys THEN "description" ELSE "customfield"

\* A text is truncated to the limit; what is beyond it is not scanned.
Truncate(text) == Cut(text, MaxText)

SegmentOf(leaf) ==
    [path |-> leaf.path, text |-> Truncate(leaf.text), source |-> ClassifyPath(leaf.path)]

\* Numbers, booleans and nulls give nothing, every string gives one segment.
Extract(leaves) ==
    LET strings == SelectSeq(leaves, LAMBDA leaf : leaf.kind = "string")
    IN  [i \in 1..Len(strings) |-> SegmentOf(strings[i])]
=============================================================================
