------------------------ MODULE CredentialPairsProofs ------------------------
(***************************************************************************)
(* Proofs about CredentialPairs: for any text, any window and any budget,  *)
(* two cursors that never move back form exactly the pairs that comparing  *)
(* every username with every password would form; and what a search finds  *)
(* is a function of the text.                                              *)
(***************************************************************************)
EXTENDS CredentialPairs, TLAPS

Formats == {"url", "proximity", "json"}
Hit == [username : Seq(Cells), password : Seq(Cells), format : Formats,
        from : {<<>>} \cup (Nat \X Nat)]

\* The captures are in the order of the text, the hits are hits, and only those
\* of the proximity search come from somewhere.
CapturesInv ==
    /\ PairTypeOK
    /\ pairs \in Seq(Hit)
    /\ \A i \in 1..Len(pairs) : pairs[i].format = "proximity" <=> pairs[i].from # <<>>
    /\ InOrder(users) /\ InOrder(passwords)

\* What the cursors know: a username they left behind is left of the window of
\* every password to come, none before hi is right of it, and the usernames
\* between them are those of the window of the password at hand.
Cursors ==
    /\ \A u \in 1..Len(users), q \in 1..Len(passwords) : q >= which - 1 =>
          /\ u < lo => users[u].pos < passwords[q].pos - Proximity
          /\ u < hi => users[u].pos <= passwords[q].pos + Proximity
    /\ which > 1 /\ ~IsPlaceholder(passwords[which - 1].value) =>
          \A u \in 1..Len(users) :
              Within(users[u], passwords[which - 1]) <=> lo <= u /\ u < hi
    /\ at < hi => which > 1 /\ ~IsPlaceholder(passwords[which - 1].value)

\* The searches run one after the other.
Phases ==
    /\ pairStage = "links" =>
          /\ which = 1 /\ lo = 1 /\ hi = 1 /\ at = 1
          /\ \A i \in 1..Len(pairs) : pairs[i].format = "url"
    /\ pairStage = "window" => \A i \in 1..Len(pairs) : pairs[i].format # "json"

PairsInv == CapturesInv /\ Cursors /\ Phases /\ PairsExact

USE PairAssumption

\* The first captures of a list are a list of captures, in the same order.
LEMMA TakenInOrder ==
    ASSUME NEW captures \in Seq(Capture), InOrder(captures)
    PROVE  Taken(captures) \in Seq(Capture) /\ InOrder(Taken(captures))
<1>1. CASE Len(captures) <= MaxMatches
      BY <1>1 DEF Taken, Cut
<1>2. CASE ~(Len(captures) <= MaxMatches)
      <2>1. Taken(captures) = SubSeq(captures, 1, MaxMatches)
            BY <1>2 DEF Taken, Cut, Slice
      <2>2. /\ Taken(captures) \in Seq(Capture)
            /\ Len(Taken(captures)) = MaxMatches
            /\ \A i \in 1..MaxMatches : Taken(captures)[i] = captures[i]
            BY <1>2, <2>1
      <2>3. QED BY <1>2, <2>2 DEF InOrder
<1>3. QED
      BY <1>1, <1>2

LEMMA TakenPairs ==
    ASSUME NEW list \in Seq(Pair)
    PROVE  Taken(list) \in Seq(Pair)
BY DEF Taken, Cut, Slice

LEMMA PairsInit == PairInit => PairsInv
<1> SUFFICES ASSUME PairInit PROVE PairsInv
    OBVIOUS
<1> USE DEF PairInit
<1>1. CapturesInv
      BY DEF CapturesInv, PairTypeOK, InOrder
<1>2. Cursors
      BY DEF Cursors
<1>3. Phases /\ PairsExact
      BY DEF Phases, PairsExact
<1>4. QED
      BY <1>1, <1>2, <1>3 DEF PairsInv

LEMMA DetectStep ==
    ASSUME NEW text \in SegmentTexts, Detect(text)
    PROVE  PairsInv'
<1> DEFINE head == Cut(text, MaxScan)
<1>1. /\ UserCaptures(head) \in Seq(Capture) /\ InOrder(UserCaptures(head))
      /\ PasswordCaptures(head) \in Seq(Capture) /\ InOrder(PasswordCaptures(head))
      /\ LinkCaptures(head) \in Seq(Pair) /\ FieldPairs(head) \in Seq(Pair)
      BY CaptureAssumption
<1>2. /\ users' \in Seq(Capture) /\ InOrder(users')
      /\ passwords' \in Seq(Capture) /\ InOrder(passwords')
      /\ links' \in Seq(Pair) /\ fields' \in Seq(Pair)
      BY <1>1, TakenInOrder, TakenPairs DEF Detect
<1>3. /\ which' = 1 /\ lo' = 1 /\ hi' = 1 /\ at' = 1
      /\ pairs' = <<>> /\ pairStage' = "links"
      BY DEF Detect
<1>4. CapturesInv'
      BY <1>2, <1>3 DEF CapturesInv, PairTypeOK, InOrder
<1>5. Cursors'
      BY <1>2, <1>3 DEF Cursors
<1>6. Phases' /\ PairsExact'
      BY <1>3 DEF Phases, PairsExact
<1>7. QED
      BY <1>4, <1>5, <1>6 DEF PairsInv

\* What one more hit does to the list.
LEMMA PushHit ==
    ASSUME CapturesInv, Room, NEW p \in Pair, NEW format \in Formats,
           NEW from \in {<<>>} \cup (Nat \X Nat), Push(p, format, from),
           format = "proximity" <=> from # <<>>
    PROVE  /\ pairs' \in Seq(Hit)
           /\ \A i \in 1..Len(pairs') :
                  pairs'[i].format = "proximity" <=> pairs'[i].from # <<>>
           /\ Len(pairs') = Len(pairs) + 1 /\ Len(pairs') <= MaxHits
           /\ \A i \in 1..Len(pairs) : pairs'[i] = pairs[i]
           /\ pairs'[Len(pairs')].username = p.username
           /\ pairs'[Len(pairs')].password = p.password
           /\ pairs'[Len(pairs')].format = format
           /\ pairs'[Len(pairs')].from = from
<1> DEFINE h == [username |-> p.username, password |-> p.password,
                 format |-> format, from |-> from]
<1>1. h \in Hit
      BY DEF Hit, Pair
<1>2. pairs \in Seq(Hit) /\ pairs' = Append(pairs, h) /\ Len(pairs) < MaxHits
      BY DEF CapturesInv, Push, Room
<1>3. /\ pairs' \in Seq(Hit) /\ Len(pairs') = Len(pairs) + 1
      /\ \A i \in 1..Len(pairs) : pairs'[i] = pairs[i]
      /\ pairs'[Len(pairs')] = h
      BY <1>1, <1>2
<1>4. ASSUME NEW i \in 1..Len(pairs')
      PROVE  pairs'[i].format = "proximity" <=> pairs'[i].from # <<>>
      <2>1. CASE i \in 1..Len(pairs)
            BY <1>3, <2>1 DEF CapturesInv
      <2>2. CASE i = Len(pairs')
            BY <1>3, <2>2
      <2>3. QED BY <1>2, <1>3, <2>1, <2>2
<1>5. QED
      BY <1>2, <1>3, <1>4

cursorVars == <<users, passwords, which, lo, hi, at>>

LEMMA LinkSteps ==
    ASSUME PairsInv, LinkStep \/ LinksDone
    PROVE  PairsInv'
<1> USE DEF PairsInv
<1>1. pairStage = "links" /\ UNCHANGED cursorVars
      BY DEF LinkStep, LinksDone, cursorVars
<1>2. CapturesInv' /\ \A i \in 1..Len(pairs') : pairs'[i].format = "url"
      <2>1. CASE UNCHANGED pairs /\ links' \in Seq(Pair)
            <3>1. pairStage' \in {"links", "window"} /\ fields' = fields
                  BY DEF LinkStep, LinksDone
            <3>2. QED
                  BY <1>1, <2>1, <3>1 DEF CapturesInv, PairTypeOK, InOrder, Phases,
                                          cursorVars
      <2>2. CASE LinkStep /\ Room /\ Push(Head(links), "url", <<>>)
                 /\ links' = Tail(links) /\ UNCHANGED pairStage
            <3>1. links # <<>> /\ fields' = fields
                  BY <2>2 DEF LinkStep
            <3>2. Head(links) \in Pair /\ Tail(links) \in Seq(Pair)
                  BY <3>1 DEF CapturesInv, PairTypeOK
            <3>3. /\ pairs' \in Seq(Hit)
                  /\ \A i \in 1..Len(pairs') :
                         pairs'[i].format = "proximity" <=> pairs'[i].from # <<>>
                  /\ Len(pairs') = Len(pairs) + 1 /\ Len(pairs') <= MaxHits
                  /\ \A i \in 1..Len(pairs) : pairs'[i] = pairs[i]
                  /\ pairs'[Len(pairs')].format = "url"
                  BY <2>2, <3>2, PushHit DEF Formats
            <3>4. CapturesInv'
                  BY <1>1, <2>2, <3>1, <3>2, <3>3 DEF CapturesInv, PairTypeOK,
                                                      InOrder, cursorVars
            <3>5. \A i \in 1..Len(pairs') : pairs'[i].format = "url"
                  BY <1>1, <3>3 DEF Phases, CapturesInv
            <3>6. QED BY <3>4, <3>5
      <2>3. CASE LinksDone
            BY <2>1, <2>3 DEF LinksDone, CapturesInv, PairTypeOK
      <2>4. CASE LinkStep
            <3>1. links \in Seq(Pair) /\ links # <<>>
                  BY <2>4 DEF LinkStep, CapturesInv, PairTypeOK
            <3>2. Tail(links) \in Seq(Pair)
                  BY <3>1
            <3>3. QED
                  BY <2>1, <2>2, <2>4, <3>1, <3>2 DEF LinkStep
      <2>5. QED
            BY <2>3, <2>4
<1>3. Cursors'
      BY <1>1 DEF Cursors, cursorVars, Within
<1>4. /\ pairStage' \in {"links", "window"}
      /\ which' = 1 /\ lo' = 1 /\ hi' = 1 /\ at' = 1
      BY <1>1 DEF LinkStep, LinksDone, Phases, cursorVars
<1>5. Phases'
      BY <1>2, <1>4 DEF Phases
<1>6. PairsExact'
      <2>1. Formed' = {}
            BY <1>2 DEF Formed
      <2>2. {c \in (1..(which' - 1)) \X (1..Len(users')) :
                Belongs(c[1], c[2])' /\ (c[1] = which' - 1 => c[2] < at')} = {}
            BY <1>4
      <2>3. QED BY <1>2, <1>4, <2>1, <2>2 DEF PairsExact
<1>7. QED
      BY <1>2, <1>3, <1>5, <1>6

LEMMA FieldSteps ==
    ASSUME PairsInv, FieldStep \/ FieldsDone
    PROVE  PairsInv'
<1> USE DEF PairsInv
<1>1. pairStage = "fields" /\ UNCHANGED cursorVars /\ links' = links
      BY DEF FieldStep, FieldsDone, cursorVars
<1>2. pairStage' \in {"fields", "found"}
      BY <1>1 DEF FieldStep, FieldsDone
<1>3. Cursors' /\ Phases'
      BY <1>1, <1>2 DEF Cursors, Phases, cursorVars, Within
<1>4. CASE UNCHANGED pairs /\ fields' \in Seq(Pair)
      <2>1. CapturesInv'
            BY <1>1, <1>2, <1>4 DEF CapturesInv, PairTypeOK, InOrder, cursorVars
      <2>2. Formed' = Formed /\ Room' = Room
            BY <1>4 DEF Formed, Room
      <2>3. PairsExact'
            BY <1>1, <1>2, <1>4, <2>2 DEF PairsExact, Belongs, Within, cursorVars
      <2>4. QED BY <1>3, <2>1, <2>3
<1>5. CASE FieldStep /\ Room /\ Push(Head(fields), "json", <<>>)
           /\ Head(fields) \notin SeenFields
      <2> DEFINE f == Head(fields)
      <2>1. fields # <<>> /\ fields' = Tail(fields) /\ UNCHANGED pairStage
            BY <1>5 DEF FieldStep, Room, Push
      <2>2. f \in Pair /\ Tail(fields) \in Seq(Pair)
            BY <2>1 DEF CapturesInv, PairTypeOK
      <2>3. /\ pairs' \in Seq(Hit)
            /\ \A i \in 1..Len(pairs') :
                   pairs'[i].format = "proximity" <=> pairs'[i].from # <<>>
            /\ Len(pairs') = Len(pairs) + 1 /\ Len(pairs') <= MaxHits
            /\ \A i \in 1..Len(pairs) : pairs'[i] = pairs[i]
            /\ pairs'[Len(pairs')].username = f.username
            /\ pairs'[Len(pairs')].password = f.password
            /\ pairs'[Len(pairs')].format = "json"
            BY <1>5, <2>2, PushHit DEF Formats
      <2>4. Len(pairs) \in Nat
            BY DEF CapturesInv
      <2>5. CapturesInv'
            BY <1>1, <1>2, <2>1, <2>2, <2>3 DEF CapturesInv, PairTypeOK, InOrder,
                                                cursorVars
      <2>6. Formed' = Formed
            BY <2>3, <2>4 DEF Formed
      <2>7. ASSUME NEW i \in 1..Len(pairs), pairs[i].format = "json",
                   pairs[i].username = f.username, pairs[i].password = f.password
            PROVE  FALSE
            <3>1. f = [username |-> f.username, password |-> f.password]
                  BY <2>2 DEF Pair
            <3>2. QED BY <1>5, <2>7, <3>1 DEF SeenFields
      <2>8. \A i, j \in 1..Len(pairs') :
               /\ pairs'[i].format = "json" /\ pairs'[j].format = "json"
               /\ pairs'[i].username = pairs'[j].username
               /\ pairs'[i].password = pairs'[j].password
               => i = j
            <3>1. ASSUME NEW i \in 1..Len(pairs'), NEW j \in 1..Len(pairs'),
                         pairs'[i].format = "json", pairs'[j].format = "json",
                         pairs'[i].username = pairs'[j].username,
                         pairs'[i].password = pairs'[j].password
                  PROVE  i = j
                  <4>1. CASE i \in 1..Len(pairs) /\ j \in 1..Len(pairs)
                        BY <1>1, <2>3, <3>1, <4>1 DEF PairsExact
                  <4>2. CASE i = Len(pairs') /\ j \in 1..Len(pairs)
                        BY <2>3, <2>7, <3>1, <4>2
                  <4>3. CASE j = Len(pairs') /\ i \in 1..Len(pairs)
                        BY <2>3, <2>7, <3>1, <4>3
                  <4>4. QED BY <2>3, <2>4, <4>1, <4>2, <4>3
            <3>2. QED BY <3>1
      <2>9. \A i, j \in 1..Len(pairs') :
               pairs'[i].format = "proximity" /\ pairs'[i].from = pairs'[j].from => i = j
            <3>1. ASSUME NEW i \in 1..Len(pairs'), NEW j \in 1..Len(pairs'),
                         pairs'[i].format = "proximity", pairs'[i].from = pairs'[j].from
                  PROVE  i = j
                  <4>1. i \in 1..Len(pairs)
                        BY <2>3, <2>4, <3>1
                  <4>2. CASE j \in 1..Len(pairs)
                        BY <1>1, <2>3, <3>1, <4>1, <4>2 DEF PairsExact
                  <4>3. CASE j = Len(pairs')
                        <5>1. pairs'[j].format = "proximity"
                              BY <2>3, <3>1
                        <5>2. QED BY <2>3, <4>3, <5>1
                  <4>4. QED BY <2>3, <2>4, <4>2, <4>3
            <3>2. QED BY <3>1
      <2>10. PairsExact'
             BY <1>1, <1>2, <2>1, <2>3, <2>6, <2>8, <2>9
             DEF PairsExact, Belongs, Within, cursorVars, Room
      <2>11. QED
             BY <1>3, <2>5, <2>10
<1>6. CASE FieldsDone
      BY <1>4, <1>6 DEF FieldsDone, CapturesInv, PairTypeOK
<1>7. CASE FieldStep
      <2>1. fields \in Seq(Pair) /\ fields # <<>>
            BY <1>7 DEF FieldStep, CapturesInv, PairTypeOK
      <2>2. Tail(fields) \in Seq(Pair)
            BY <2>1
      <2>3. QED
            BY <1>4, <1>5, <1>7, <2>1, <2>2 DEF FieldStep
<1>8. QED
      BY <1>6, <1>7

\* What was proved of the pairs formed so far says the same once the next
\* password is at hand and none of its usernames was paired.
LEMMA NextPassword ==
    ASSUME PairsInv, pairStage = "window", at = hi, which <= Len(passwords),
           UNCHANGED <<pairStage, pairs, users, passwords>>, which' = which + 1,
           \A u \in 1..Len(users) : Belongs(which, u) => at' <= u,
           at' \in Nat
    PROVE  PairsExact'
<1>t. /\ which \in Nat \ {0} /\ hi \in Nat /\ at \in Nat
      /\ Cursors /\ PairsExact
      <2>1. /\ Len(users) \in Nat /\ Len(passwords) \in Nat
            BY DEF PairsInv, CapturesInv, PairTypeOK
      <2>2. QED BY <2>1 DEF PairsInv, CapturesInv, PairTypeOK
<1>1. Formed' = Formed
      BY DEF Formed
<1>2. \A q, u : Belongs(q, u)' <=> Belongs(q, u)
      BY DEF Belongs, Within
<1>3. \A c \in (1..which) \X (1..Len(users)) :
          (c[1] = which => c[2] < at') /\ Belongs(c[1], c[2])
          <=> c[1] \in 1..(which - 1) /\ Belongs(c[1], c[2])
              /\ (c[1] = which - 1 => c[2] < at)
      <2> TAKE c \in (1..which) \X (1..Len(users))
      <2>1. c[1] \in 1..which /\ c[2] \in 1..Len(users)
            OBVIOUS
      <2>2. CASE c[1] = which
            <3>1. ~(c[1] \in 1..(which - 1))
                  BY <1>t, <2>2
            <3>2. Belongs(c[1], c[2]) => ~(c[2] < at')
                  BY <2>1, <2>2
            <3>3. QED BY <2>2, <3>1, <3>2
      <2>3. CASE c[1] = which - 1
            <3>1. Belongs(c[1], c[2]) => c[2] < hi
                  BY <1>t, <2>1, <2>3 DEF Cursors, Belongs
            <3>2. c[1] # which /\ c[1] \in 1..(which - 1)
                  BY <1>t, <2>1, <2>3
            <3>3. QED BY <2>3, <3>1, <3>2
      <2>4. CASE c[1] < which - 1
            BY <1>t, <2>1, <2>4
      <2>5. QED BY <1>t, <2>1, <2>2, <2>3, <2>4
<1>4. Formed = {c \in (1..(which - 1)) \X (1..Len(users)) :
                   Belongs(c[1], c[2]) /\ (c[1] = which - 1 => c[2] < at)}
      BY <1>t DEF PairsExact
<1>5. Formed' = {c \in (1..(which' - 1)) \X (1..Len(users')) :
                    Belongs(c[1], c[2])' /\ (c[1] = which' - 1 => c[2] < at')}
      <2>1. which' - 1 = which
            BY <1>t
      <2>2. ASSUME NEW c \in (1..which) \X (1..Len(users))
            PROVE  c \in Formed <=> Belongs(c[1], c[2]) /\ (c[1] = which => c[2] < at')
            <3>1. c[1] \in 1..(which - 1) <=> c \in (1..(which - 1)) \X (1..Len(users))
                  OBVIOUS
            <3>2. QED BY <1>3, <1>4, <3>1
      <2>3. Formed \subseteq (1..which) \X (1..Len(users))
            <3>1. 1..(which - 1) \subseteq 1..which
                  BY <1>t
            <3>2. QED BY <1>4, <3>1
      <2>4. QED BY <1>1, <1>2, <2>1, <2>2, <2>3
<1>6. QED
      BY <1>t, <1>5 DEF PairsExact

LEMMA SkipStep ==
    ASSUME PairsInv, SkipPassword
    PROVE  PairsInv'
<1> USE DEF PairsInv, SkipPassword
<1>1. CapturesInv'
      BY DEF CapturesInv, PairTypeOK, InOrder
<1>2. Cursors'
      BY DEF Cursors, CapturesInv, PairTypeOK, Within
<1>3. Phases'
      BY DEF Phases
<1>4. PairsExact'
      <2>1. \A u \in 1..Len(users) : ~Belongs(which, u)
            BY DEF Belongs
      <2>2. QED
            BY <2>1, NextPassword DEF CapturesInv, PairTypeOK
<1>5. QED
      BY <1>1, <1>2, <1>3, <1>4

\* What is left of a window, or not right of it, is so for a later window too.
LEMMA FurtherRight ==
    ASSUME NEW place \in Nat, NEW first \in Nat, NEW later \in Nat, first <= later
    PROVE  /\ place < first - Proximity => place < later - Proximity
           /\ place <= first + Proximity => place <= later + Proximity
OBVIOUS

\* What is beyond a place that is beyond a window is beyond it, too.
LEMMA Beyond ==
    ASSUME NEW place \in Nat, NEW further \in Nat, NEW middle \in Nat, NEW width \in Nat,
           place <= further
    PROVE  /\ place >= middle - width => further >= middle - width
           /\ place > middle + width => further > middle + width
OBVIOUS

\* Left of a window, in it, or right of it.
LEMMA Sides ==
    ASSUME NEW place \in Nat, NEW middle \in Nat, NEW width \in Nat
    PROVE  /\ place < middle - width => ~(place >= middle - width) /\ place <= middle + width
           /\ place > middle + width => ~(place <= middle + width)
OBVIOUS

LEMMA SlideStep ==
    ASSUME PairsInv, Slide
    PROVE  PairsInv'
<1> DEFINE p == passwords[which]
<1>1. PICK low, high \in 1..(Len(users) + 1) :
          /\ FirstInside(lo, low, p)
          /\ FirstPast(IF hi < low THEN low ELSE hi, high, p)
          /\ lo' = low /\ hi' = high /\ at' = low
      BY DEF Slide
<1>2. /\ pairStage = "window" /\ at = hi /\ which <= Len(passwords)
      /\ ~IsPlaceholder(p.value) /\ which' = which + 1
      /\ UNCHANGED <<pairStage, links, users, passwords, fields, pairs>>
      BY DEF Slide
<1>3. /\ which \in 1..Len(passwords) /\ lo \in 1..(Len(users) + 1)
      /\ hi \in lo..(Len(users) + 1)
      /\ users \in Seq(Capture) /\ passwords \in Seq(Capture)
      BY <1>2 DEF PairsInv, CapturesInv, PairTypeOK
<1>4. /\ \A u \in 1..Len(users) : users[u].pos \in Nat
      /\ \A q \in 1..Len(passwords) : passwords[q].pos \in Nat
      /\ p.pos \in Nat /\ Len(passwords) \in Nat /\ Len(users) \in Nat
      <2>1. /\ \A u \in 1..Len(users) : users[u] \in Capture
            /\ \A q \in 1..Len(passwords) : passwords[q] \in Capture
            /\ Len(passwords) \in Nat /\ Len(users) \in Nat
            BY <1>3
      <2>2. QED BY <1>3, <2>1 DEF Capture
<1>Rising. \A u, v \in 1..Len(users) : u <= v => users[u].pos <= users[v].pos
      <2>1. InOrder(users)
            BY DEF PairsInv, CapturesInv
      <2>2. QED BY <1>4, <2>1 DEF InOrder
<1>5. low <= high /\ low >= lo /\ high >= hi
      BY <1>1, <1>3 DEF FirstInside, FirstPast
<1>6. \A u \in 1..Len(users) : u < low => users[u].pos < p.pos - Proximity
      BY <1>1, <1>3 DEF FirstInside, PairsInv, Cursors
<1>7. \A u \in 1..Len(users) : u < high => users[u].pos <= p.pos + Proximity
      <2> TAKE u \in 1..Len(users)
      <2> users[u].pos \in Nat /\ p.pos \in Nat /\ Proximity \in Nat
          BY <1>4
      <2> u \in Nat /\ low \in Nat /\ hi \in Nat
          BY <1>3, <1>4
      <2>1. CASE u < low
            <3>1. users[u].pos < p.pos - Proximity
                  BY <1>6, <2>1
            <3>2. QED BY <3>1, Sides
      <2>2. CASE low <= u /\ u < hi
            <3>1. Cursors /\ which \in 1..Len(passwords) /\ which >= which - 1
                  BY <1>3, <1>4 DEF PairsInv
            <3>2. QED BY <2>2, <3>1 DEF Cursors
      <2>3. CASE low <= u /\ hi <= u
            BY <1>1, <1>3, <2>3 DEF FirstPast
      <2>4. QED BY <2>1, <2>2, <2>3
<1>8. \A u \in 1..Len(users) : low <= u => users[u].pos >= p.pos - Proximity
      <2> TAKE u \in 1..Len(users)
      <2>1. SUFFICES ASSUME low <= u PROVE users[u].pos >= p.pos - Proximity
            OBVIOUS
      <2>2. low \in 1..Len(users) /\ users[low].pos >= p.pos - Proximity
            BY <1>1, <1>3, <2>1 DEF FirstInside
      <2>3. users[low].pos <= users[u].pos
            BY <1>Rising, <2>1, <2>2
      <2>4. /\ users[low].pos \in Nat /\ users[u].pos \in Nat
            /\ p.pos \in Nat /\ Proximity \in Nat
            BY <1>4, <2>2
      <2>5. QED BY <2>2, <2>3, <2>4, Beyond
<1>9. \A u \in 1..Len(users) : high <= u => users[u].pos > p.pos + Proximity
      <2> TAKE u \in 1..Len(users)
      <2>1. SUFFICES ASSUME high <= u PROVE users[u].pos > p.pos + Proximity
            OBVIOUS
      <2>2. high \in 1..Len(users) /\ users[high].pos > p.pos + Proximity
            BY <1>1, <1>3, <2>1 DEF FirstPast
      <2>3. users[high].pos <= users[u].pos
            BY <1>Rising, <2>1, <2>2
      <2>4. /\ users[high].pos \in Nat /\ users[u].pos \in Nat
            /\ p.pos \in Nat /\ Proximity \in Nat
            BY <1>4, <2>2
      <2>5. QED BY <2>2, <2>3, <2>4, Beyond
<1>10. \A u \in 1..Len(users) : Within(users[u], p) <=> low <= u /\ u < high
      <2> TAKE u \in 1..Len(users)
      <2>1. users[u].pos \in Nat /\ p.pos \in Nat /\ Proximity \in Nat
            BY <1>4
      <2>2. CASE u < low
            <3>1. users[u].pos < p.pos - Proximity
                  BY <1>6, <2>2
            <3>2. ~(users[u].pos >= p.pos - Proximity)
                  BY <2>1, <3>1, Sides
            <3>3. ~(low <= u)
                  BY <1>4, <2>2
            <3>4. QED BY <3>2, <3>3 DEF Within
      <2>3. CASE high <= u
            <3>1. users[u].pos > p.pos + Proximity
                  BY <1>9, <2>3
            <3>2. ~(users[u].pos <= p.pos + Proximity)
                  BY <2>1, <3>1, Sides
            <3>3. ~(u < high)
                  BY <1>4, <2>3
            <3>4. QED BY <3>2, <3>3 DEF Within
      <2>4. CASE low <= u /\ u < high
            BY <1>7, <1>8, <2>4 DEF Within
      <2>5. QED BY <1>4, <2>2, <2>3, <2>4
<1>11. CapturesInv'
       BY <1>1, <1>2, <1>3, <1>5 DEF PairsInv, CapturesInv, PairTypeOK, InOrder
<1>12. Cursors'
       <2>1. \A q \in 1..Len(passwords) : q >= which => p.pos <= passwords[q].pos
             BY <1>3, <1>4 DEF PairsInv, CapturesInv, InOrder
       <2>2. \A u \in 1..Len(users), q \in 1..Len(passwords) : q >= which =>
                /\ u < low => users[u].pos < passwords[q].pos - Proximity
                /\ u < high => users[u].pos <= passwords[q].pos + Proximity
             <3> TAKE u \in 1..Len(users), q \in 1..Len(passwords)
             <3> HAVE q >= which
             <3>1. /\ users[u].pos \in Nat /\ passwords[q].pos \in Nat
                   /\ p.pos \in Nat /\ Proximity \in Nat
                   BY <1>4
             <3>2. p.pos <= passwords[q].pos
                   BY <2>1
             <3>3. u < low => users[u].pos < passwords[q].pos - Proximity
                   BY <1>6, <3>1, <3>2, FurtherRight
             <3>4. u < high => users[u].pos <= passwords[q].pos + Proximity
                   BY <1>7, <3>1, <3>2, FurtherRight
             <3>5. QED BY <3>3, <3>4
       <2>3. which' - 1 = which /\ which' > 1
             BY <1>2, <1>3, <1>4
       <2>4. QED
             BY <1>1, <1>2, <1>10, <2>2, <2>3 DEF Cursors, Within
<1>13. Phases'
       BY <1>2 DEF PairsInv, Phases
<1>14. PairsExact'
       <2>1. \A u \in 1..Len(users) : Belongs(which, u) => low <= u
             BY <1>10 DEF Belongs
       <2>2. QED
             BY <1>1, <1>2, <2>1, NextPassword
<1>15. QED
       BY <1>11, <1>12, <1>13, <1>14 DEF PairsInv

LEMMA PairUpStep ==
    ASSUME PairsInv, PairUp
    PROVE  PairsInv'
<1> USE DEF PairsInv
<1> DEFINE q == which - 1
<1>1. /\ pairStage = "window" /\ at < hi /\ Room /\ at' = at + 1
      /\ UNCHANGED <<pairStage, links, users, passwords, which, lo, hi, fields>>
      BY DEF PairUp
<1>2. /\ users \in Seq(Capture) /\ passwords \in Seq(Capture)
      /\ lo \in 1..(Len(users) + 1) /\ hi \in lo..(Len(users) + 1) /\ at \in lo..hi
      /\ which \in 1..(Len(passwords) + 1) /\ Len(pairs) \in Nat
      BY DEF CapturesInv, PairTypeOK
<1>3. which > 1 /\ ~IsPlaceholder(passwords[q].value)
      BY <1>1 DEF Cursors
<1>4. q \in 1..Len(passwords) /\ at \in 1..Len(users) /\ q \in Nat /\ at \in Nat
      BY <1>1, <1>2, <1>3
<1>5. Belongs(q, at)
      BY <1>1, <1>2, <1>3, <1>4 DEF Cursors, Belongs
<1>6. /\ pairs' \in Seq(Hit)
      /\ \A i \in 1..Len(pairs') :
             pairs'[i].format = "proximity" <=> pairs'[i].from # <<>>
      /\ Len(pairs') = Len(pairs) + 1 /\ Len(pairs') <= MaxHits
      /\ \A i \in 1..Len(pairs) : pairs'[i] = pairs[i]
      /\ pairs'[Len(pairs')].format = "proximity"
      /\ pairs'[Len(pairs')].from = <<q, at>>
      <2> DEFINE p == [username |-> users[at].value, password |-> passwords[q].value]
      <2>1. users[at] \in Capture /\ passwords[q] \in Capture
            BY <1>2, <1>4
      <2>2. p \in Pair
            BY <2>1 DEF Capture, Pair
      <2>3. Push(p, "proximity", <<q, at>>)
            BY DEF PairUp
      <2>4. <<q, at>> \in Nat \X Nat /\ <<q, at>> # <<>>
            BY <1>4
      <2>5. QED
            BY <1>1, <2>2, <2>3, <2>4, PushHit DEF Formats
<1>7. CapturesInv'
      BY <1>1, <1>2, <1>6 DEF CapturesInv, PairTypeOK, InOrder
<1>8. Cursors'
      BY <1>1, <1>2, <1>3 DEF Cursors, Within
<1>9. \A i \in 1..Len(pairs') : i \in 1..Len(pairs) \/ i = Len(pairs')
      <2>1. Len(pairs) \in Nat /\ Len(pairs') = Len(pairs) + 1
            BY <1>2, <1>6
      <2>2. QED BY <2>1
<1>10. \A i \in 1..Len(pairs') : pairs'[i].format # "json"
      <2> TAKE i \in 1..Len(pairs')
      <2>1. CASE i \in 1..Len(pairs)
            <3>1. pairs'[i] = pairs[i]
                  BY <1>6, <2>1
            <3>2. QED BY <1>1, <2>1, <3>1 DEF Phases
      <2>2. CASE i = Len(pairs')
            <3>1. pairs'[i].format = "proximity"
                  BY <1>6, <2>2
            <3>2. QED BY <3>1
      <2>3. QED BY <1>9, <2>1, <2>2
<1>11. Formed' = Formed \cup {<<q, at>>}
       <2>1. Formed' = {pairs'[i].from : i \in {j \in 1..Len(pairs') :
                                                   pairs'[j].format = "proximity"}}
             BY DEF Formed
       <2>2. ASSUME NEW c \in Formed' PROVE c \in Formed \cup {<<q, at>>}
             <3>1. PICK i \in 1..Len(pairs') :
                       pairs'[i].format = "proximity" /\ c = pairs'[i].from
                   BY <2>1, <2>2
             <3>2. CASE i \in 1..Len(pairs)
                   BY <1>6, <3>1, <3>2 DEF Formed
             <3>3. CASE i = Len(pairs')
                   BY <1>6, <3>1, <3>3
             <3>4. QED BY <1>9, <3>2, <3>3
       <2>3. ASSUME NEW c \in Formed PROVE c \in Formed'
             <3>1. PICK i \in 1..Len(pairs) :
                       pairs[i].format = "proximity" /\ c = pairs[i].from
                   BY <2>3 DEF Formed
             <3>2. i \in 1..Len(pairs') /\ pairs'[i] = pairs[i]
                   BY <1>2, <1>6
             <3>3. QED BY <2>1, <3>1, <3>2
       <2>4. <<q, at>> \in Formed'
             <3>1. Len(pairs') \in 1..Len(pairs')
                   BY <1>2, <1>6
             <3>2. QED BY <1>6, <2>1, <3>1
       <2>5. QED BY <2>2, <2>3, <2>4
<1>12. \A a, b : Belongs(a, b)' <=> Belongs(a, b)
       BY <1>1 DEF Belongs, Within
<1>13. Formed = {c \in (1..q) \X (1..Len(users)) :
                    Belongs(c[1], c[2]) /\ (c[1] = q => c[2] < at)}
       BY <1>1 DEF PairsExact
<1>14. Formed' = {c \in (1..(which' - 1)) \X (1..Len(users')) :
                     Belongs(c[1], c[2])' /\ (c[1] = which' - 1 => c[2] < at')}
       <2>1. ASSUME NEW c \in (1..q) \X (1..Len(users))
             PROVE  c \in Formed' <=> Belongs(c[1], c[2]) /\ (c[1] = q => c[2] < at + 1)
             <3>1. c[1] \in 1..q /\ c[2] \in 1..Len(users) /\ c = <<c[1], c[2]>>
                   OBVIOUS
             <3>2. CASE c = <<q, at>>
                   BY <1>4, <1>5, <1>11, <3>2
             <3>3. CASE c # <<q, at>>
                   <4>1. c[1] = q => (c[2] < at <=> c[2] < at + 1)
                         BY <1>4, <3>1, <3>3
                   <4>2. QED BY <1>11, <1>13, <3>3, <4>1
             <3>4. QED BY <3>2, <3>3
       <2>2. Formed' \subseteq (1..q) \X (1..Len(users))
             BY <1>4, <1>11, <1>13
       <2>3. which' - 1 = q /\ users' = users /\ at' = at + 1
             BY <1>1
       <2>4. QED BY <1>12, <2>1, <2>2, <2>3
<1>15. <<q, at>> \notin Formed
       BY <1>4, <1>13
<1>16. \A i, j \in 1..Len(pairs') :
          pairs'[i].format = "proximity" /\ pairs'[i].from = pairs'[j].from => i = j
       <2>1. ASSUME NEW i \in 1..Len(pairs'), NEW j \in 1..Len(pairs'),
                    pairs'[i].format = "proximity", pairs'[i].from = pairs'[j].from
             PROVE  i = j
             <3>1. pairs'[j].format = "proximity"
                   BY <1>6, <2>1
             <3>2. \A k \in 1..Len(pairs) :
                       pairs'[k].format = "proximity" => pairs'[k].from # <<q, at>>
                   BY <1>6, <1>15 DEF Formed
             <3>3. CASE i \in 1..Len(pairs) /\ j \in 1..Len(pairs)
                   BY <1>1, <1>6, <2>1, <3>3 DEF PairsExact
             <3>4. CASE i = Len(pairs') \/ j = Len(pairs')
                   <4>1. pairs'[Len(pairs')].from = <<q, at>>
                         BY <1>6
                   <4>2. pairs'[i].from = <<q, at>> /\ pairs'[j].from = <<q, at>>
                         BY <2>1, <3>4, <4>1
                   <4>3. i \notin 1..Len(pairs) /\ j \notin 1..Len(pairs)
                         BY <2>1, <3>1, <3>2, <4>2
                   <4>4. i = Len(pairs')
                         BY <1>9, <4>3
                   <4>5. j = Len(pairs')
                         BY <1>9, <4>3
                   <4>6. QED BY <4>4, <4>5
             <3>5. QED BY <1>9, <3>3, <3>4
       <2>2. QED BY <2>1
<1>17. PairsExact'
       BY <1>1, <1>10, <1>14, <1>16 DEF PairsExact
<1>18. Phases'
       BY <1>1, <1>10 DEF Phases
<1>19. QED
       BY <1>7, <1>8, <1>17, <1>18

LEMMA WindowDoneStep ==
    ASSUME PairsInv, WindowDone
    PROVE  PairsInv'
<1> USE DEF PairsInv, WindowDone
<1>1. CapturesInv' /\ Cursors' /\ Phases'
      BY DEF CapturesInv, PairTypeOK, InOrder, Cursors, Phases, Within
<1>2. Formed' = Formed
      BY DEF Formed
<1>3. Room => which > Len(passwords) /\ at = hi
      OBVIOUS
<1>4. PairsExact'
      BY <1>2, <1>3 DEF PairsExact, Belongs, Within, Room
<1>5. QED
      BY <1>1, <1>4

LEMMA ReturnStep ==
    ASSUME PairsInv, Return \/ UNCHANGED pairVars
    PROVE  PairsInv'
<1> USE DEF PairsInv, Return, pairVars
<1>1. CapturesInv' /\ Cursors' /\ Phases'
      BY DEF CapturesInv, PairTypeOK, InOrder, Cursors, Phases, Within
<1>2. Formed' = Formed
      BY DEF Formed
<1>3. PairsExact'
      BY <1>2 DEF PairsExact, Belongs, Within, Room
<1>4. QED
      BY <1>1, <1>3

LEMMA PairsStep == PairsInv /\ [PairNext]_pairVars => PairsInv'
<1> SUFFICES ASSUME PairsInv, [PairNext]_pairVars PROVE PairsInv'
    OBVIOUS
<1>1. CASE \E text \in SegmentTexts : Detect(text)
      BY <1>1, DetectStep
<1>2. CASE LinkStep \/ LinksDone
      BY <1>2, LinkSteps
<1>3. CASE Slide
      BY <1>3, SlideStep
<1>4. CASE SkipPassword
      BY <1>4, SkipStep
<1>5. CASE PairUp
      BY <1>5, PairUpStep
<1>6. CASE WindowDone
      BY <1>6, WindowDoneStep
<1>7. CASE FieldStep \/ FieldsDone
      BY <1>7, FieldSteps
<1>8. CASE Return \/ UNCHANGED pairVars
      BY <1>8, ReturnStep
<1>9. QED
      BY <1>1, <1>2, <1>3, <1>4, <1>5, <1>6, <1>7, <1>8 DEF PairNext, Search

\* For any text, window and budgets, the cursors stay inside the captures and
\* the hits within the budget.
THEOREM PairTypeCorrect == PairSpec => []PairTypeOK
<1>1. PairsInv => PairTypeOK
      BY DEF PairsInv, CapturesInv
<1>2. QED
      BY PairsInit, PairsStep, <1>1, PTL DEF PairSpec

\* For any text, window and budgets, at any moment the sliding window has
\* formed exactly the pairs of the passwords that went by which comparing every
\* username with every password would form, each of them once.
THEOREM WindowIsExact == PairSpec => []PairsExact
<1>1. PairsInv => PairsExact
      BY DEF PairsInv
<1>2. QED
      BY PairsInit, PairsStep, <1>1, PTL DEF PairSpec

-----------------------------------------------------------------------------
(* What a search finds depends on nothing but the text.                    *)

\* By the steps of E, a leads to b: whatever set holds a and is closed under the
\* steps holds b.
Closed(E, S) == \A e \in E : e[1] \in S => e[2] \in S
Leads(E, a, b) == \A S : a \in S /\ Closed(E, S) => b \in S

\* Steps inside a set of states, of which every state has at most one.
Steps(E, States) == E \subseteq States \X States
OneStep(E) == \A d, e \in E : d[1] = e[1] => d[2] = e[2]
LastState(E, a) == \A e \in E : e[1] # a

LEMMA LeadsOn ==
    ASSUME NEW E, NEW a, NEW b, NEW c, Leads(E, a, b), <<b, c>> \in E
    PROVE  Leads(E, a, c)
<1> SUFFICES ASSUME NEW S, a \in S, Closed(E, S) PROVE c \in S
    BY DEF Leads
<1>1. b \in S
      BY DEF Leads
<1>2. QED
      BY <1>1 DEF Closed

LEMMA LeadsNowhere ==
    ASSUME NEW E, NEW a, NEW b, LastState(E, a), Leads(E, a, b)
    PROVE  b = a
<1>1. Closed(E, {a})
      BY DEF Closed, LastState
<1>2. QED
      BY <1>1 DEF Leads

\* A state that leads to an end still leads there after a step.
LEMMA StillLeads ==
    ASSUME NEW E, OneStep(E), NEW b, LastState(E, b), NEW e \in E, Leads(E, e[1], b)
    PROVE  Leads(E, e[2], b)
<1> SUFFICES ASSUME NEW S, e[2] \in S, Closed(E, S) PROVE b \in S
    BY DEF Leads
<1> DEFINE T == S \cup {e[1]}
<1>1. Closed(E, T)
      BY DEF Closed, OneStep
<1>2. b \in T
      BY <1>1 DEF Leads
<1>3. b # e[1]
      BY DEF LastState
<1>4. QED
      BY <1>2, <1>3

\* A search with one way to go has one end.
LEMMA OneEnd ==
    ASSUME NEW E, NEW States, Steps(E, States), OneStep(E),
           NEW a \in States, NEW b, NEW c, Leads(E, a, b), Leads(E, a, c),
           LastState(E, b), LastState(E, c)
    PROVE  b = c
<1> DEFINE S == {x \in States : Leads(E, x, b)}
<1>1. Closed(E, S)
      <2>1. ASSUME NEW e \in E, e[1] \in S PROVE e[2] \in S
            <3>1. e[2] \in States
                  BY DEF Steps
            <3>2. Leads(E, e[2], b)
                  BY <2>1, StillLeads
            <3>3. QED BY <3>1, <3>2
      <2>2. QED BY <2>1 DEF Closed
<1>2. c \in S
      <2>1. a \in S
            OBVIOUS
      <2> HIDE DEF S
      <2>2. QED BY <1>1, <2>1 DEF Leads
<1>3. Leads(E, c, b)
      BY <1>2
<1>4. QED
      BY <1>3, LeadsNowhere

\* The variables of the detector as one value.
SearchState ==
    [stage : {"idle", "links", "window", "fields", "found"}, links : Seq(Pair),
     users : Seq(Capture), passwords : Seq(Capture), which : Nat, lo : Nat, hi : Nat,
     at : Nat, fields : Seq(Pair), pairs : Seq(Hit)]
Now == [stage |-> pairStage, links |-> links, users |-> users, passwords |-> passwords,
        which |-> which, lo |-> lo, hi |-> hi, at |-> at, fields |-> fields,
        pairs |-> pairs]

\* Where a call of detect begins.
Begun(text) ==
    LET head == Cut(text, MaxScan)
    IN  [stage |-> "links", links |-> Taken(LinkCaptures(head)),
         users |-> Taken(UserCaptures(head)), passwords |-> Taken(PasswordCaptures(head)),
         which |-> 1, lo |-> 1, hi |-> 1, at |-> 1, fields |-> FieldPairs(head),
         pairs |-> <<>>]

HasRoom(s) == Len(s.pairs) < MaxHits
Pushed(s, p, format, from) ==
    Append(s.pairs, [username |-> p.username, password |-> p.password,
                     format |-> format, from |-> from])
FieldsShown(s) == {[username |-> s.pairs[i].username, password |-> s.pairs[i].password] :
               i \in {j \in 1..Len(s.pairs) : s.pairs[j].format = "json"}}

\* The window of the next password, as the two cursors slide to it.
IsWindow(s, low, high) ==
    LET p == s.passwords[s.which]
        from == IF s.hi < low THEN low ELSE s.hi
    IN  /\ low >= s.lo
        /\ \A i \in s.lo..(low - 1) : s.users[i].pos < p.pos - Proximity
        /\ low <= Len(s.users) => s.users[low].pos >= p.pos - Proximity
        /\ high >= from
        /\ \A i \in from..(high - 1) : s.users[i].pos <= p.pos + Proximity
        /\ high <= Len(s.users) => s.users[high].pos > p.pos + Proximity
WindowIn(s) == CHOOSE w \in (1..(Len(s.users) + 1)) \X (1..(Len(s.users) + 1)) :
                  IsWindow(s, w[1], w[2])

AfterLink(s) ==
    IF s.links = <<>> THEN [s EXCEPT !.stage = "window"]
    ELSE IF IsPlaceholder(Head(s.links).password) THEN [s EXCEPT !.links = Tail(s.links)]
    ELSE IF HasRoom(s)
         THEN [s EXCEPT !.links = Tail(s.links), !.pairs = Pushed(s, Head(s.links), "url", <<>>)]
         ELSE [s EXCEPT !.stage = "window"]
AfterUser(s) ==
    IF HasRoom(s)
    THEN [s EXCEPT !.at = s.at + 1,
                   !.pairs = Pushed(s, [username |-> s.users[s.at].value,
                                        password |-> s.passwords[s.which - 1].value],
                                    "proximity", <<s.which - 1, s.at>>)]
    ELSE [s EXCEPT !.stage = "fields"]
AfterPassword(s) ==
    IF s.which > Len(s.passwords) THEN [s EXCEPT !.stage = "fields"]
    ELSE IF IsPlaceholder(s.passwords[s.which].value) THEN [s EXCEPT !.which = s.which + 1]
    ELSE LET w == WindowIn(s)
         IN  [stage |-> s.stage, links |-> s.links, users |-> s.users,
              passwords |-> s.passwords, which |-> s.which + 1, lo |-> w[1], hi |-> w[2],
              at |-> w[1], fields |-> s.fields, pairs |-> s.pairs]
AfterField(s) ==
    IF s.fields = <<>> THEN [s EXCEPT !.stage = "found"]
    ELSE IF IsPlaceholder(Head(s.fields).password) \/ Head(s.fields) \in FieldsShown(s)
         THEN [s EXCEPT !.fields = Tail(s.fields)]
    ELSE IF HasRoom(s)
         THEN [s EXCEPT !.fields = Tail(s.fields),
                        !.pairs = Pushed(s, Head(s.fields), "json", <<>>)]
         ELSE [s EXCEPT !.stage = "found"]
After(s) ==
    IF s.stage = "links" THEN AfterLink(s)
    ELSE IF s.stage = "window" THEN IF s.at < s.hi THEN AfterUser(s) ELSE AfterPassword(s)
    ELSE AfterField(s)

SearchSteps ==
    {e \in SearchState \X SearchState :
        e[1].stage \in {"links", "window", "fields"} /\ e[2] = After(e[1])}

LEMMA NowTyped == PairsInv => Now \in SearchState
<1> SUFFICES ASSUME PairsInv PROVE Now \in SearchState
    OBVIOUS
<1>1. PairTypeOK /\ pairs \in Seq(Hit)
      BY DEF PairsInv, CapturesInv
<1>2. Len(users) \in Nat /\ Len(passwords) \in Nat
      BY <1>1 DEF PairTypeOK
<1>3. which \in Nat /\ lo \in Nat /\ hi \in Nat /\ at \in Nat
      BY <1>1, <1>2 DEF PairTypeOK
<1>4. QED
      BY <1>1, <1>3 DEF PairTypeOK, Now, SearchState

\* There is one window to slide to.
LEMMA OneWindow ==
    ASSUME PairsInv, pairStage = "window", which <= Len(passwords),
           NEW low \in 1..(Len(users) + 1), NEW high \in 1..(Len(users) + 1),
           NEW k \in 1..(Len(users) + 1), NEW l \in 1..(Len(users) + 1),
           IsWindow(Now, low, high), IsWindow(Now, k, l)
    PROVE  low = k /\ high = l
<1> DEFINE p == passwords[which]
           N == Len(users)
           left == p.pos - Proximity
           right == p.pos + Proximity
           Pos(i) == users[i].pos
<1>1. /\ which \in 1..Len(passwords) /\ lo \in 1..(N + 1) /\ hi \in lo..(N + 1)
      /\ users \in Seq(Capture) /\ passwords \in Seq(Capture) /\ N \in Nat
      BY DEF PairsInv, CapturesInv, PairTypeOK
<1>2. \A i \in 1..N : Pos(i) \in Int
      <2>1. \A i \in 1..N : users[i] \in Capture
            BY <1>1
      <2>2. QED BY <2>1 DEF Capture
<1>3. left \in Int /\ right \in Int
      <2>1. p \in Capture
            BY <1>1
      <2>2. p.pos \in Nat
            BY <2>1 DEF Capture
      <2> HIDE DEF p
      <2>3. QED BY <2>2
<1>4. \A x, y : IsWindow(Now, x, y) =>
         /\ x >= lo
         /\ \A i \in lo..(x - 1) : Pos(i) < left
         /\ x <= N => Pos(x) >= left
         /\ y >= IF hi < x THEN x ELSE hi
         /\ \A i \in (IF hi < x THEN x ELSE hi)..(y - 1) : Pos(i) <= right
         /\ y <= N => Pos(y) > right
      BY DEF IsWindow, Now
<1> HIDE DEF p, N, left, right, Pos
<1>5. /\ low \in 1..(N + 1) /\ high \in 1..(N + 1) /\ k \in 1..(N + 1) /\ l \in 1..(N + 1)
      BY DEF N
<1>6. low = k
      <2>1. ASSUME NEW x \in 1..(N + 1), NEW y \in 1..(N + 1), x < y, x >= lo,
                   \A i \in lo..(y - 1) : Pos(i) < left, x <= N => Pos(x) >= left
            PROVE  FALSE
            <3>1. x \in lo..(y - 1) /\ x \in 1..N
                  BY <1>1, <2>1
            <3>2. Pos(x) < left /\ Pos(x) >= left
                  BY <1>1, <2>1, <3>1
            <3>3. QED BY <1>2, <1>3, <3>1, <3>2
      <2>2. ~(low < k) /\ ~(k < low)
            BY <1>4, <1>5, <2>1
      <2>3. QED BY <1>1, <1>5, <2>2
<1>7. high = l
      <2> DEFINE from == IF hi < low THEN low ELSE hi
      <2>0. from \in Nat
            BY <1>1, <1>5
      <2> HIDE DEF from
      <2>1. ASSUME NEW x \in 1..(N + 1), NEW y \in 1..(N + 1), x < y, x >= from,
                   \A i \in from..(y - 1) : Pos(i) <= right, x <= N => Pos(x) > right
            PROVE  FALSE
            <3>1. x \in from..(y - 1) /\ x \in 1..N
                  BY <1>1, <2>0, <2>1
            <3>2. Pos(x) <= right /\ Pos(x) > right
                  BY <1>1, <2>1, <3>1
            <3>3. QED BY <1>2, <1>3, <3>1, <3>2
      <2>2. ~(high < l) /\ ~(l < high)
            BY <1>4, <1>5, <1>6, <2>1 DEF from
      <2>3. QED BY <1>1, <1>5, <2>2
<1>8. QED
      BY <1>6, <1>7

\* A step of the search is the step of the detector's state.
LEMMA SearchIsAfter ==
    ASSUME PairsInv, Search
    PROVE  pairStage \in {"links", "window", "fields"} /\ Now' = After(Now)
<1>0. /\ at \in lo..hi /\ at \in Int /\ hi \in Int
      /\ which \in Int /\ Len(passwords) \in Nat
      BY DEF PairsInv, CapturesInv, PairTypeOK
<1>1. CASE LinkStep \/ LinksDone
      <2>1. pairStage = "links"
            BY <1>1 DEF LinkStep, LinksDone
      <2>2. Now' = AfterLink(Now)
            BY <1>1 DEF LinkStep, LinksDone, AfterLink, Now, HasRoom, Room, Push, Pushed
      <2>3. QED BY <2>1, <2>2 DEF After, Now
<1>2. CASE PairUp
      <2>1. pairStage = "window" /\ at < hi
            BY <1>2 DEF PairUp
      <2>2. Now' = AfterUser(Now)
            BY <1>2 DEF PairUp, AfterUser, Now, HasRoom, Room, Push, Pushed
      <2>3. QED BY <2>1, <2>2 DEF After, Now
<1>3. CASE WindowDone
      <2>1. pairStage = "window"
            BY <1>3 DEF WindowDone
      <2>2. CASE at < hi /\ ~Room
            <3>1. Now' = AfterUser(Now)
                  BY <1>3, <2>2 DEF WindowDone, AfterUser, Now, HasRoom, Room
            <3>2. QED BY <2>1, <2>2, <3>1 DEF After, Now
      <2>3. CASE at = hi /\ which > Len(passwords)
            <3>1. Now' = AfterPassword(Now)
                  BY <1>3, <2>3 DEF WindowDone, AfterPassword, Now
            <3>2. ~(at < hi)
                  BY <1>0, <2>3
            <3>3. QED BY <2>1, <3>1, <3>2 DEF After, Now
      <2>4. QED BY <1>3, <2>2, <2>3 DEF WindowDone
<1>4. CASE SkipPassword
      <2>1. pairStage = "window" /\ ~(at < hi) /\ ~(which > Len(passwords))
            BY <1>0, <1>4 DEF SkipPassword
      <2>2. Now' = AfterPassword(Now)
            BY <1>4, <2>1 DEF SkipPassword, AfterPassword, Now
      <2>3. QED BY <2>1, <2>2 DEF After, Now
<1>5. CASE Slide
      <2>1. pairStage = "window" /\ ~(at < hi) /\ ~(which > Len(passwords))
            BY <1>0, <1>5 DEF Slide
      <2>2. PICK low \in 1..(Len(users) + 1), high \in 1..(Len(users) + 1) :
                /\ FirstInside(lo, low, passwords[which])
                /\ FirstPast(IF hi < low THEN low ELSE hi, high, passwords[which])
                /\ lo' = low /\ hi' = high /\ at' = low
            BY <1>5 DEF Slide
      <2>3. IsWindow(Now, low, high)
            BY <2>2 DEF IsWindow, Now, FirstInside, FirstPast
      <2>4. WindowIn(Now) = <<low, high>>
            <3> DEFINE places == 1..(Len(users) + 1)
            <3>1. <<low, high>> \in places \X places
                  OBVIOUS
            <3>2. \A w \in places \X places : IsWindow(Now, w[1], w[2]) => w = <<low, high>>
                  <4> TAKE w \in places \X places
                  <4> HAVE IsWindow(Now, w[1], w[2])
                  <4>1. w = <<w[1], w[2]>> /\ w[1] \in places /\ w[2] \in places
                        OBVIOUS
                  <4>2. which <= Len(passwords)
                        BY <1>0, <2>1
                  <4>3. w[1] = low /\ w[2] = high
                        BY <2>1, <2>3, <4>1, <4>2, OneWindow
                  <4>4. QED BY <4>1, <4>3
            <3>3. WindowIn(Now) = CHOOSE w \in places \X places : IsWindow(Now, w[1], w[2])
                  BY DEF WindowIn, Now
            <3> HIDE DEF places
            <3>4. QED BY <2>3, <3>1, <3>2, <3>3
      <2>5. Now' = AfterPassword(Now)
            <3>1. WindowIn(Now)[1] = low /\ WindowIn(Now)[2] = high
                  BY <2>4
            <3>2. /\ ~IsPlaceholder(passwords[which].value) /\ which' = which + 1
                  /\ UNCHANGED <<pairStage, links, users, passwords, fields, pairs>>
                  BY <1>5 DEF Slide
            <3>3. AfterPassword(Now) =
                      [stage |-> pairStage, links |-> links, users |-> users,
                       passwords |-> passwords, which |-> which + 1, lo |-> low, hi |-> high,
                       at |-> low, fields |-> fields, pairs |-> pairs]
                  BY <2>1, <3>1, <3>2 DEF AfterPassword, Now
            <3>4. Now' = [stage |-> pairStage, links |-> links, users |-> users,
                          passwords |-> passwords, which |-> which + 1, lo |-> low,
                          hi |-> high, at |-> low, fields |-> fields, pairs |-> pairs]
                  BY <2>2, <3>2 DEF Now
            <3>5. QED BY <3>3, <3>4
      <2>6. QED BY <2>1, <2>5 DEF After, Now
<1>6. CASE FieldStep \/ FieldsDone
      <2>1. pairStage = "fields"
            BY <1>6 DEF FieldStep, FieldsDone
      <2>2. FieldsShown(Now) = SeenFields
            BY DEF FieldsShown, SeenFields, Now
      <2>3. Now' = AfterField(Now)
            BY <1>6, <2>2 DEF FieldStep, FieldsDone, AfterField, Now, HasRoom, Room, Push, Pushed
      <2>4. QED BY <2>1, <2>3 DEF After, Now
<1>7. QED
      BY <1>1, <1>2, <1>3, <1>4, <1>5, <1>6 DEF Search

\* What the detector finds in a text.
PairsOf(text) ==
    CHOOSE list : \E s \in SearchState : /\ Leads(SearchSteps, Begun(text), s)
                                         /\ s.stage = "found" /\ s.pairs = list

LEMMA SearchBegun ==
    ASSUME NEW text, Detect(text)
    PROVE  Leads(SearchSteps, Begun(text), Now)'
<1>1. Now' = Begun(text)
      BY DEF Now, Begun, Detect
<1>2. QED
      BY <1>1 DEF Leads

LEMMA SearchGoesOn ==
    ASSUME PairsInv, Search, NEW text, Leads(SearchSteps, Begun(text), Now)
    PROVE  Leads(SearchSteps, Begun(text), Now)'
<1>1. PairsInv'
      BY PairsStep DEF PairNext
<1>2. Now \in SearchState /\ (Now \in SearchState)'
      BY <1>1, NowTyped, PTL
<1>3. Now.stage \in {"links", "window", "fields"} /\ Now' = After(Now)
      BY SearchIsAfter DEF Now
<1>4. <<Now, Now'>> \in SearchSteps
      BY <1>2, <1>3 DEF SearchSteps
<1>5. Leads(SearchSteps, Begun(text), Now')
      BY <1>4, LeadsOn
<1>6. QED
      BY <1>5

\* When the search of a text is over, its hits are those of the text.
LEMMA SearchEnds ==
    ASSUME PairsInv, NEW text \in SegmentTexts,
           Leads(SearchSteps, Begun(text), Now), pairStage = "found"
    PROVE  pairs = PairsOf(text)
<1>1. Steps(SearchSteps, SearchState) /\ OneStep(SearchSteps)
      BY DEF Steps, OneStep, SearchSteps
<1>2. Begun(text) \in SearchState
      <2>1. /\ Taken(LinkCaptures(Cut(text, MaxScan))) \in Seq(Pair)
            /\ Taken(UserCaptures(Cut(text, MaxScan))) \in Seq(Capture)
            /\ Taken(PasswordCaptures(Cut(text, MaxScan))) \in Seq(Capture)
            /\ FieldPairs(Cut(text, MaxScan)) \in Seq(Pair)
            BY CaptureAssumption, TakenPairs, TakenInOrder
      <2>2. QED BY <2>1 DEF Begun, SearchState
<1>3. ASSUME NEW s \in SearchState, Leads(SearchSteps, Begun(text), s), s.stage = "found"
      PROVE  s = Now
      <2>1. LastState(SearchSteps, s) /\ LastState(SearchSteps, Now)
            BY <1>3 DEF LastState, SearchSteps, Now
      <2>2. QED BY <1>1, <1>2, <1>3, <2>1, OneEnd
<1>4. Now \in SearchState /\ Now.stage = "found" /\ Now.pairs = pairs
      BY NowTyped DEF Now
<1>5. QED
      BY <1>3, <1>4 DEF PairsOf
=============================================================================
