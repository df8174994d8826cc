--------------------------- MODULE CredentialPairs ---------------------------
(***************************************************************************)
(* The credential pair detector (src/src/credpair.rs): one call of detect  *)
(* per text, which looks for URL userinfo, then for usernames and          *)
(* passwords close to each other, then for the fields of a JSON object.    *)
(* All three share the budget of hits of one text.                         *)
(*                                                                         *)
(* The proximity search does not compare every username with every         *)
(* password: two cursors, lo and hi, slide over the usernames as the       *)
(* passwords go by, and neither ever moves back.                           *)
(***************************************************************************)
EXTENDS CandidateVerdict

CONSTANTS
    SegmentTexts,          \* the texts that may be scanned
    Proximity,             \* PROXIMITY_WINDOW_BYTES
    MaxMatches,            \* MAX_MATCHES_PER_PATTERN
    MaxHits,               \* MAX_HITS_PER_SEGMENT
    MaxScan,               \* MAX_SCAN_BYTES
    UserCaptures(_),       \* what username_key captures in a text, in its order
    PasswordCaptures(_),   \* what password_key captures, in its order
    LinkCaptures(_),       \* what url_userinfo captures, in its order
    FieldPairs(_)          \* the non-empty username and password fields of the
                           \* object a text is, username by username

\* Captures are listed from left to right.
InOrder(captures) ==
    \A i, j \in 1..Len(captures) : i < j => captures[i].pos <= captures[j].pos

Capture == [pos : Nat, value : Seq(Cells)]
Pair == [username : Seq(Cells), password : Seq(Cells)]

ASSUME PairAssumption ==
    /\ Proximity \in Nat /\ MaxScan \in Nat
    /\ MaxMatches \in Nat /\ MaxHits \in Nat
    /\ SegmentTexts \subseteq Texts

ASSUME CaptureAssumption ==
    \A text \in SegmentTexts :
        LET head == Cut(text, MaxScan)
        IN  /\ UserCaptures(head) \in Seq(Capture) /\ InOrder(UserCaptures(head))
            /\ PasswordCaptures(head) \in Seq(Capture) /\ InOrder(PasswordCaptures(head))
            /\ LinkCaptures(head) \in Seq(Pair)
            /\ FieldPairs(head) \in Seq(Pair)

VARIABLES
    pairStage,    \* the search that is running
    links,        \* URL userinfo not looked at yet
    users,        \* what the username pattern captured
    passwords,    \* what the password pattern captured
    which,        \* the next password
    lo,           \* the first username inside the window
    hi,           \* the first username past it
    at,           \* the next username of the window to pair
    fields,       \* pairs of JSON fields not looked at yet
    pairs         \* the hits; `from` says where a hit comes from, and only
                  \* serves the properties

pairVars == <<pairStage, links, users, passwords, which, lo, hi, at, fields, pairs>>

PairInit ==
    /\ pairStage = "idle"
    /\ links = <<>> /\ fields = <<>> /\ pairs = <<>>
    /\ users = <<>> /\ passwords = <<>>
    /\ which = 1 /\ lo = 1 /\ hi = 1 /\ at = 1

\* .take(MAX_MATCHES_PER_PATTERN)
Taken(captures) == Cut(captures, MaxMatches)

\* detect is called: only the head of the text is looked at.
Detect(text) ==
    /\ pairStage = "idle"
    /\ LET head == Cut(text, MaxScan)
       IN  /\ links' = Taken(LinkCaptures(head))
           /\ users' = Taken(UserCaptures(head))
           /\ passwords' = Taken(PasswordCaptures(head))
           /\ fields' = FieldPairs(head)
    /\ which' = 1 /\ lo' = 1 /\ hi' = 1 /\ at' = 1
    /\ pairs' = <<>>
    /\ pairStage' = "links"

-----------------------------------------------------------------------------
(* Hits.                                                                   *)

Room == Len(pairs) < MaxHits
Push(pair, format, from) ==
    pairs' = Append(pairs, [username |-> pair.username, password |-> pair.password,
                            format |-> format, from |-> from])

\* The search looks at the next pair of its list.
LinkStep ==
    /\ pairStage = "links"
    /\ links # <<>>
    /\ IF IsPlaceholder(Head(links).password)
       THEN links' = Tail(links) /\ UNCHANGED <<pairStage, pairs>>
       ELSE IF Room
            THEN /\ Push(Head(links), "url", <<>>)
                 /\ links' = Tail(links)
                 /\ UNCHANGED pairStage
            ELSE pairStage' = "window" /\ UNCHANGED <<links, pairs>>
    /\ UNCHANGED <<users, passwords, which, lo, hi, at, fields>>

LinksDone ==
    /\ pairStage = "links"
    /\ links = <<>>
    /\ pairStage' = "window"
    /\ UNCHANGED <<links, users, passwords, which, lo, hi, at, fields, pairs>>

-----------------------------------------------------------------------------
(* Proximity.                                                              *)

\* Mutant: the first cursor starts over a username too late.
FirstInsideLate(from, k, password) ==
    /\ k >= from
    /\ \A i \in from..(k - 1) : users[i].pos <= password.pos - Proximity
    /\ k <= Len(users) => users[k].pos > password.pos - Proximity
\* From here on, k is the first username that is not left of the window.
FirstInside(from, k, password) ==
    /\ k >= from
    /\ \A i \in from..(k - 1) : users[i].pos < password.pos - Proximity
    /\ k <= Len(users) => users[k].pos >= password.pos - Proximity

\* From here on, k is the first username right of the window.
FirstPast(from, k, password) ==
    /\ k >= from
    /\ \A i \in from..(k - 1) : users[i].pos <= password.pos + Proximity
    /\ k <= Len(users) => users[k].pos > password.pos + Proximity

\* The next password: the cursors slide to its window.
Slide ==
    /\ pairStage = "window"
    /\ at = hi
    /\ which <= Len(passwords)
    /\ ~IsPlaceholder(passwords[which].value)
    /\ \E low, high \in 1..(Len(users) + 1) :
          /\ FirstInside(lo, low, passwords[which])
          /\ FirstPast(IF hi < low THEN low ELSE hi, high, passwords[which])
          /\ lo' = low
          /\ hi' = high
          /\ at' = low
    /\ which' = which + 1
    /\ UNCHANGED <<pairStage, links, users, passwords, fields, pairs>>

SkipPassword ==
    /\ pairStage = "window"
    /\ at = hi
    /\ which <= Len(passwords)
    /\ IsPlaceholder(passwords[which].value)
    /\ which' = which + 1
    /\ UNCHANGED <<pairStage, links, users, passwords, lo, hi, at, fields, pairs>>

\* The password of the window is paired with the usernames in it.
PairUp ==
    /\ pairStage = "window"
    /\ at < hi
    /\ Room
    /\ Push([username |-> users[at].value, password |-> passwords[which - 1].value],
            "proximity", <<which - 1, at>>)
    /\ at' = at + 1
    /\ UNCHANGED <<pairStage, links, users, passwords, which, lo, hi, fields>>

\* The budget is exhausted, or every password was looked at.
WindowDone ==
    /\ pairStage = "window"
    /\ \/ at < hi /\ ~Room
       \/ at = hi /\ which > Len(passwords)
    /\ pairStage' = "fields"
    /\ UNCHANGED <<links, users, passwords, which, lo, hi, at, fields, pairs>>

-----------------------------------------------------------------------------
(* The fields of a JSON object.                                            *)

\* Mutant: aliases of one field are told apart.
SeenNothing == {}
\* The values that were reported already, under whatever keys.
SeenFields == {[username |-> pairs[i].username, password |-> pairs[i].password] :
                  i \in {j \in 1..Len(pairs) : pairs[j].format = "json"}}

FieldStep ==
    /\ pairStage = "fields"
    /\ fields # <<>>
    /\ IF IsPlaceholder(Head(fields).password) \/ Head(fields) \in SeenFields
       THEN fields' = Tail(fields) /\ UNCHANGED <<pairStage, pairs>>
       ELSE IF Room
            THEN /\ Push(Head(fields), "json", <<>>)
                 /\ fields' = Tail(fields)
                 /\ UNCHANGED pairStage
            ELSE pairStage' = "found" /\ UNCHANGED <<fields, pairs>>
    /\ UNCHANGED <<links, users, passwords, which, lo, hi, at>>

FieldsDone ==
    /\ pairStage = "fields"
    /\ fields = <<>>
    /\ pairStage' = "found"
    /\ UNCHANGED <<links, users, passwords, which, lo, hi, at, fields, pairs>>

\* The caller has taken the hits.
Return ==
    /\ pairStage = "found"
    /\ pairStage' = "idle"
    /\ UNCHANGED <<links, users, passwords, which, lo, hi, at, fields, pairs>>

Search == LinkStep \/ LinksDone \/ Slide \/ SkipPassword \/ PairUp \/ WindowDone
              \/ FieldStep \/ FieldsDone

PairNext == (\E text \in SegmentTexts : Detect(text)) \/ Search \/ Return

PairSpec == PairInit /\ [][PairNext]_pairVars

-----------------------------------------------------------------------------
(* Properties.                                                             *)

PairTypeOK ==
    /\ pairStage \in {"idle", "links", "window", "fields", "found"}
    /\ links \in Seq(Pair) /\ fields \in Seq(Pair)
    /\ users \in Seq(Capture) /\ passwords \in Seq(Capture)
    /\ which \in 1..(Len(passwords) + 1)
    /\ lo \in 1..(Len(users) + 1) /\ hi \in lo..(Len(users) + 1) /\ at \in lo..hi
    /\ Len(pairs) <= MaxHits

\* The pairs the proximity search has formed, by the passwords and usernames
\* they are made of.
Formed == {pairs[i].from : i \in {j \in 1..Len(pairs) : pairs[j].format = "proximity"}}

\* Both ends of the window are inclusive.
Within(user, password) ==
    /\ user.pos >= password.pos - Proximity
    /\ user.pos <= password.pos + Proximity

\* A username and a password that belong together: within the window of each
\* other, the password no placeholder.
Belongs(q, u) == ~IsPlaceholder(passwords[q].value) /\ Within(users[u], passwords[q])

\* However the cursors moved, the sliding window forms the pairs that comparing
\* every username with every password would form: at any moment those of the
\* passwords that went by and of the usernames before `at`, and no pair twice.
\* A search that was cut short by the budget has its pairs too, but not all.
\* The aliases of a JSON field do not repeat a pair.
PairsExact ==
    pairStage \in {"window", "fields", "found"} =>
        /\ Formed = {c \in (1..(which - 1)) \X (1..Len(users)) :
                        Belongs(c[1], c[2]) /\ (c[1] = which - 1 => c[2] < at)}
        /\ \A i, j \in 1..Len(pairs) :
              pairs[i].format = "proximity" /\ pairs[i].from = pairs[j].from => i = j
        /\ \A i, j \in 1..Len(pairs) :
              /\ pairs[i].format = "json" /\ pairs[j].format = "json"
              /\ pairs[i].username = pairs[j].username
              /\ pairs[i].password = pairs[j].password
              => i = j
        /\ pairStage # "window" /\ Room => which > Len(passwords) /\ at = hi
=============================================================================
