---------------------------- MODULE RedactionProofs ----------------------------
(***************************************************************************)
(* What masking leaves of a text, for any text and any values: no value    *)
(* that was masked, and no value that was not there before.  Both are      *)
(* inductions over the recursive definitions of Redaction, which rest on   *)
(* the induction over sets of numbers stated first.                        *)
(***************************************************************************)
EXTENDS Redaction, SequenceTheorems, WellFoundedInduction, TLAPS

-----------------------------------------------------------------------------
(* Induction.                                                              *)

\* Every set of natural numbers has a least one.
LEMMA LeastNat ==
    ASSUME NEW T, T \subseteq Nat, T # {}
    PROVE  \E m \in T : \A k \in T : m <= k
<1> DEFINE R == OpToRel(<, Nat)
<1>1. IsWellFoundedOn(R, Nat)
      BY NatLessThanWellFounded
<1>2. \A a, b \in Nat : a < b => <<a, b>> \in R
      BY DEF OpToRel
<1> HIDE DEF R
<1>3. PICK m \in T : \A k \in T : ~(<<k, m>> \in R)
      BY <1>1, WFMin
<1>4. \A k \in T : m <= k
      <2> TAKE k \in T
      <2>1. m \in Nat /\ k \in Nat /\ <<k, m>> \notin R
            BY <1>3
      <2>2. ~(k < m)
            BY <1>2, <2>1
      <2>3. QED BY <2>1, <2>2
<1>5. QED
      BY <1>4

\* A set of numbers that holds 0 and goes on up to a bound holds all below it.
LEMMA UpToBound ==
    ASSUME NEW bound \in Nat, NEW T, 0 \in T,
           \A n \in Nat : n \in T /\ n < bound => n + 1 \in T
    PROVE  0..bound \subseteq T
<1> DEFINE Missing == {n \in Nat : n <= bound /\ n \notin T}
<1> SUFFICES ASSUME Missing # {} PROVE FALSE
    BY DEF Missing
<1>1. PICK m \in Missing : \A k \in Missing : m <= k
      <2>1. Missing \subseteq Nat
            OBVIOUS
      <2> HIDE DEF Missing
      <2>2. QED BY <2>1, LeastNat
<1>2. m \in Nat /\ m # 0 /\ m <= bound /\ m \notin T
      OBVIOUS
<1>3. m - 1 \in Nat /\ m - 1 < bound /\ ~(m <= m - 1)
      BY <1>2
<1>4. m - 1 \in T
      BY <1>1, <1>3
<1>5. (m - 1) + 1 \in T
      BY <1>3, <1>4
<1>6. QED
      BY <1>2, <1>5

-----------------------------------------------------------------------------
(* One value is masked.                                                    *)

\* A text in which something may have been masked already.
Marked == Cells \cup {Marker}

\* What MaskAll makes of the text from a place on, given what it makes of the
\* places behind it.
MaskedFrom(masked, text, value, at) ==
    IF at = Len(text) THEN <<>>
    ELSE IF StandsAt(text, value, at)
         THEN <<Marker>> \o masked[at + Len(value)]
         ELSE <<text[at + 1]>> \o masked[at + 1]

\* From a place on, the function is the one MaskAll defines.
Follows(masked, text, value, from) ==
    \A at \in from..Len(text) : masked[at] = MaskedFrom(masked, text, value, at)

LEMMA MaskingExists ==
    ASSUME NEW text \in Seq(Marked), NEW value \in Texts, value # <<>>
    PROVE  \E masked : masked = [at \in 0..Len(text) |-> MaskedFrom(masked, text, value, at)]
<1> DEFINE N == Len(text)
           V == Len(value)
           T == {k \in Nat : k <= N => \E f : Follows(f, text, value, N - k)}
<1>1. N \in Nat /\ V \in Nat \ {0}
      BY LenProperties, EmptySeq DEF Texts
<1> HIDE DEF N, V
<1>2. 0 \in T
      <2> DEFINE f == [at \in {N} |-> <<>>]
      <2>1. Follows(f, text, value, N - 0)
            BY <1>1 DEF Follows, MaskedFrom, N
      <2>2. QED BY <2>1
<1>3. ASSUME NEW k \in Nat, k \in T, k < N
      PROVE  k + 1 \in T
      <2>1. PICK f : Follows(f, text, value, N - k)
            BY <1>1, <1>3
      <2> DEFINE here == N - (k + 1)
                 g == [at \in here..N |->
                         IF at = here THEN MaskedFrom(f, text, value, at) ELSE f[at]]
      <2>2. /\ here \in Nat /\ here < N /\ N - k = here + 1 /\ N - k \in Nat
            /\ \A at \in here..N : at = here \/ at \in (N - k)..N
            BY <1>1, <1>3
      <2> HIDE DEF here
      <2>3. \A at \in (N - k)..N : at \in here..N /\ at # here /\ g[at] = f[at]
            BY <1>1, <2>2
      <2>4. ASSUME NEW at \in here..N
            PROVE  MaskedFrom(f, text, value, at) = MaskedFrom(g, text, value, at)
            <3>1. CASE at = N
                  BY <3>1 DEF MaskedFrom, N
            <3>2. CASE at # N /\ StandsAt(text, value, at)
                  <4>1. at + V <= N
                        BY <3>2 DEF StandsAt, N, V
                  <4>2. at + V \in (N - k)..N
                        BY <1>1, <2>2, <4>1
                  <4>3. QED BY <2>3, <3>2, <4>2 DEF MaskedFrom, N, V
            <3>3. CASE at # N /\ ~StandsAt(text, value, at)
                  <4>1. at + 1 \in (N - k)..N
                        BY <1>1, <2>2, <3>3
                  <4>2. QED BY <2>3, <3>3, <4>1 DEF MaskedFrom, N
            <3>4. QED BY <3>1, <3>2, <3>3
      <2>5. ASSUME NEW at \in here..N
            PROVE  g[at] = MaskedFrom(f, text, value, at)
            <3>1. CASE at = here
                  BY <3>1
            <3>2. CASE at \in (N - k)..N
                  BY <2>1, <2>3, <3>2 DEF Follows, N
            <3>3. QED BY <2>2, <3>1, <3>2
      <2>6. Follows(g, text, value, here)
            <3> HIDE DEF g
            <3> QED BY <2>4, <2>5 DEF Follows, N
      <2>7. QED BY <2>6 DEF here
<1>4. N \in T
      <2> HIDE DEF T
      <2>1. 0..N \subseteq T
            BY <1>1, <1>2, <1>3, UpToBound
      <2>2. QED BY <1>1, <2>1
<1>5. PICK f : Follows(f, text, value, 0)
      BY <1>1, <1>4
<1> DEFINE g == [at \in 0..N |-> f[at]]
<1>6. ASSUME NEW at \in 0..N
      PROVE  MaskedFrom(f, text, value, at) = MaskedFrom(g, text, value, at)
      <2>1. CASE at = N
            BY <2>1 DEF MaskedFrom, N
      <2>2. CASE at # N /\ StandsAt(text, value, at)
            <3>1. at + V <= N
                  BY <2>2 DEF StandsAt, N, V
            <3>2. at + V \in 0..N
                  BY <1>1, <3>1
            <3>3. QED BY <2>2, <3>2 DEF MaskedFrom, N, V
      <2>3. CASE at # N /\ ~StandsAt(text, value, at)
            <3>1. at + 1 \in 0..N
                  BY <1>1, <2>3
            <3>2. QED BY <2>3, <3>1 DEF MaskedFrom, N
      <2>4. QED BY <2>1, <2>2, <2>3
<1>7. g = [at \in 0..N |-> MaskedFrom(g, text, value, at)]
      BY <1>5, <1>6 DEF Follows, N
<1>8. QED
      BY <1>7 DEF N

\* MaskAll is the function it is defined by, at the beginning of the text.
LEMMA MaskAllIs ==
    ASSUME NEW text \in Seq(Marked), NEW value \in Texts, value # <<>>
    PROVE  \E masked : /\ Follows(masked, text, value, 0)
                       /\ MaskAll(text, value) = masked[0]
<1> DEFINE m == CHOOSE masked : masked = [at \in 0..Len(text) |->
                                            MaskedFrom(masked, text, value, at)]
<1>1. m = [at \in 0..Len(text) |-> MaskedFrom(m, text, value, at)]
      BY MaskingExists
<1>2. MaskAll(text, value) = m[0]
      BY DEF MaskAll, MaskedFrom
<1> HIDE DEF m
<1>3. Follows(m, text, value, 0)
      BY <1>1 DEF Follows
<1>4. QED
      BY <1>2, <1>3

LEMMA Prepended ==
    ASSUME NEW first \in Marked, NEW rest \in Seq(Marked)
    PROVE  /\ <<first>> \o rest \in Seq(Marked)
           /\ Len(<<first>> \o rest) = Len(rest) + 1
           /\ (<<first>> \o rest)[1] = first
           /\ \A i \in 1..Len(rest) : (<<first>> \o rest)[i + 1] = rest[i]
<1>1. <<first>> \in Seq(Marked) /\ Len(<<first>>) = 1 /\ <<first>>[1] = first
      OBVIOUS
<1>2. Len(rest) \in Nat
      BY LenProperties
<1> DEFINE whole == <<first>> \o rest
<1>3. /\ whole \in Seq(Marked)
      /\ Len(whole) = 1 + Len(rest)
      /\ \A i \in 1..(1 + Len(rest)) :
            whole[i] = IF i <= 1 THEN <<first>>[i] ELSE rest[i - 1]
      BY <1>1, ConcatProperties
<1> HIDE DEF whole
<1>4. whole[1] = first
      BY <1>1, <1>2, <1>3
<1>5. ASSUME NEW i \in 1..Len(rest)
      PROVE  whole[i + 1] = rest[i]
      <2>1. i + 1 \in 1..(1 + Len(rest)) /\ ~(i + 1 <= 1) /\ (i + 1) - 1 = i
            BY <1>2
      <2>2. QED BY <1>3, <2>1
<1>6. QED
      BY <1>2, <1>3, <1>4, <1>5 DEF whole

\* What is masked from a place on reads, between two markers, as the text itself
\* reads somewhere behind that place, where the value does not stand.
ReadsAs(masked, text, value, at) ==
    /\ masked[at] \in Seq(Marked)
    /\ \A p, n \in Nat :
          /\ p + n <= Len(masked[at])
          /\ \A i \in 1..n : masked[at][p + i] # Marker
          => \E a \in at..Len(text) :
                /\ a + n <= Len(text)
                /\ \A i \in 1..n : masked[at][p + i] = text[a + i]
                /\ \A i \in 0..(n - 1) : ~StandsAt(text, value, a + i)
                /\ p = 0 => a = at

\* One cell more: it is a marker, or a cell of the text where the value does not
\* stand and that the masked text continues.
LEMMA ReadsFurther ==
    ASSUME NEW text \in Seq(Marked), NEW value, NEW masked,
           NEW at \in 0..(Len(text) - 1), NEW next \in (at + 1)..Len(text),
           NEW first \in Marked,
           masked[at] = <<first>> \o masked[next],
           \/ first = Marker
           \/ first = text[at + 1] /\ next = at + 1 /\ ~StandsAt(text, value, at),
           ReadsAs(masked, text, value, next)
    PROVE  ReadsAs(masked, text, value, at)
<1> DEFINE rest == masked[next]
           whole == masked[at]
           N == Len(text)
<1>0. N \in Nat /\ at \in Nat /\ next \in Nat /\ at < N /\ at < next /\ next <= N
      BY LenProperties
<1>1. rest \in Seq(Marked) /\ Len(rest) \in Nat
      BY LenProperties DEF ReadsAs
<1>2. /\ whole \in Seq(Marked) /\ Len(whole) = Len(rest) + 1 /\ whole[1] = first
      /\ \A i \in 1..Len(rest) : whole[i + 1] = rest[i]
      BY <1>1, Prepended
<1>3. \A p, n \in Nat :
          p + n <= Len(rest) /\ (\A i \in 1..n : rest[p + i] # Marker)
          => \E a \in next..N :
                /\ a + n <= N
                /\ \A i \in 1..n : rest[p + i] = text[a + i]
                /\ \A i \in 0..(n - 1) : ~StandsAt(text, value, a + i)
                /\ p = 0 => a = next
      BY DEF ReadsAs
<1> HIDE DEF rest, whole, N
<1>4. ASSUME NEW p \in Nat, NEW n \in Nat, p + n <= Len(whole),
             \A i \in 1..n : whole[p + i] # Marker
      PROVE  \E a \in at..N :
                /\ a + n <= N
                /\ \A i \in 1..n : whole[p + i] = text[a + i]
                /\ \A i \in 0..(n - 1) : ~StandsAt(text, value, a + i)
                /\ p = 0 => a = at
      <2>1. CASE n = 0
            <3>1. at \in at..N /\ at + n <= N
                  BY <1>0, <2>1
            <3>2. \A i : i \notin 1..n /\ i \notin 0..(n - 1)
                  BY <2>1
            <3>3. QED BY <3>1, <3>2
      <2>2. CASE p # 0
            <3>1. p - 1 \in Nat /\ (p - 1) + n <= Len(rest)
                  BY <1>1, <1>2, <1>4, <2>2
            <3>2. ASSUME NEW i \in 1..n
                  PROVE  whole[p + i] = rest[(p - 1) + i]
                  <4>1. (p - 1) + i \in 1..Len(rest) /\ ((p - 1) + i) + 1 = p + i
                        BY <1>1, <2>2, <3>1
                  <4>2. QED BY <1>2, <4>1
            <3>3. \A i \in 1..n : rest[(p - 1) + i] # Marker
                  BY <1>4, <3>2
            <3>4. PICK a \in next..N :
                      /\ a + n <= N
                      /\ \A i \in 1..n : rest[(p - 1) + i] = text[a + i]
                      /\ \A i \in 0..(n - 1) : ~StandsAt(text, value, a + i)
                  BY <1>3, <3>1, <3>3
            <3>5. a \in at..N
                  BY <1>0
            <3>6. QED BY <2>2, <3>2, <3>4, <3>5
      <2>3. CASE p = 0 /\ n # 0
            <3>1. 1 \in 1..n /\ p + 1 = 1 /\ n - 1 \in Nat /\ 0 + (n - 1) <= Len(rest)
                  BY <1>1, <1>2, <1>4, <2>3
            <3>2. first # Marker
                  <4>1. whole[p + 1] # Marker
                        BY <1>4, <3>1
                  <4>2. QED BY <1>2, <3>1, <4>1
            <3>3. first = text[at + 1] /\ next = at + 1 /\ ~StandsAt(text, value, at)
                  BY <3>2
            <3>4. ASSUME NEW i \in 1..(n - 1)
                  PROVE  /\ i + 1 \in 1..n /\ i \in 1..Len(rest)
                         /\ whole[i + 1] = rest[i] /\ 0 + i = i /\ p + (i + 1) = i + 1
                  <4>1. i \in 1..Len(rest) /\ i + 1 \in 1..n
                        BY <1>1, <3>1
                  <4>2. QED BY <1>2, <2>3, <4>1
            <3>5. \A i \in 1..(n - 1) : rest[0 + i] # Marker
                  <4> TAKE i \in 1..(n - 1)
                  <4>1. whole[p + (i + 1)] # Marker
                        BY <1>4, <3>4
                  <4>2. QED BY <3>4, <4>1
            <3>6. PICK a \in next..N :
                      /\ a + (n - 1) <= N
                      /\ \A i \in 1..(n - 1) : rest[0 + i] = text[a + i]
                      /\ \A i \in 0..((n - 1) - 1) : ~StandsAt(text, value, a + i)
                      /\ a = next
                  BY <1>3, <3>1, <3>5
            <3>7. at + n <= N /\ at \in at..N
                  BY <1>0, <2>3, <3>3, <3>6
            <3>8. ASSUME NEW i \in 1..n
                  PROVE  whole[p + i] = text[at + i]
                  <4>1. CASE i = 1
                        BY <1>2, <3>1, <3>3, <4>1
                  <4>2. CASE i # 1
                        <5>1. i - 1 \in 1..(n - 1) /\ (i - 1) + 1 = i /\ p + i = i
                              BY <2>3, <4>2
                        <5>2. a + (i - 1) = at + i
                              BY <1>0, <3>3, <3>6, <5>1
                        <5>3. whole[i] = rest[i - 1] /\ rest[0 + (i - 1)] = text[a + (i - 1)]
                              BY <3>4, <3>6, <5>1
                        <5>4. 0 + (i - 1) = i - 1
                              BY <5>1
                        <5>5. QED BY <5>1, <5>2, <5>3, <5>4
                  <4>3. QED BY <4>1, <4>2
            <3>9. ASSUME NEW i \in 0..(n - 1)
                  PROVE  ~StandsAt(text, value, at + i)
                  <4>1. CASE i = 0
                        BY <1>0, <3>3, <4>1
                  <4>2. CASE i # 0
                        <5>1. i - 1 \in 0..((n - 1) - 1) /\ a + (i - 1) = at + i
                              BY <1>0, <3>3, <3>6, <4>2
                        <5>2. ~StandsAt(text, value, a + (i - 1))
                              BY <3>6, <5>1
                        <5>3. QED BY <5>1, <5>2
                  <4>3. QED BY <4>1, <4>2
            <3>10. QED BY <3>7, <3>8, <3>9
      <2>4. QED BY <2>1, <2>2, <2>3
<1>5. QED
      BY <1>2, <1>4 DEF ReadsAs, whole, N

LEMMA MaskAllReads ==
    ASSUME NEW text \in Seq(Marked), NEW value \in Texts, value # <<>>,
           NEW masked, Follows(masked, text, value, 0)
    PROVE  ReadsAs(masked, text, value, 0)
<1> DEFINE N == Len(text)
           V == Len(value)
           T == {k \in Nat : k <= N => \A at \in (N - k)..N : ReadsAs(masked, text, value, at)}
<1>0. N \in Nat /\ V \in Nat \ {0}
      BY LenProperties, EmptySeq DEF Texts
<1>1. ReadsAs(masked, text, value, N)
      <2>1. masked[N] = <<>>
            <3>1. N \in 0..N
                  BY <1>0
            <3>2. masked[N] = MaskedFrom(masked, text, value, N)
                  BY <3>1 DEF Follows
            <3>3. MaskedFrom(masked, text, value, N) = <<>>
                  BY DEF MaskedFrom
            <3>4. QED BY <3>2, <3>3
      <2>2. masked[N] \in Seq(Marked) /\ Len(masked[N]) = 0
            BY <2>1
      <2>3. \A p, n \in Nat : p + n <= 0 => p = 0 /\ n = 0
            OBVIOUS
      <2>4. \A i : i \notin 1..0 /\ i \notin 0..(0 - 1)
            OBVIOUS
      <2>5. N \in N..N /\ N + 0 <= N
            BY <1>0
      <2> HIDE DEF N
      <2>6. ASSUME NEW p \in Nat, NEW n \in Nat, p + n <= Len(masked[N])
            PROVE  \E a \in N..N :
                      /\ a + n <= N
                      /\ \A i \in 1..n : masked[N][p + i] = text[a + i]
                      /\ \A i \in 0..(n - 1) : ~StandsAt(text, value, a + i)
                      /\ p = 0 => a = N
            BY <2>2, <2>3, <2>4, <2>5, <2>6
      <2>7. QED BY <2>2, <2>6 DEF ReadsAs, N
<1> HIDE DEF N, V
<1>2. 0 \in T
      BY <1>0, <1>1
<1>3. ASSUME NEW k \in Nat, k \in T, k < N
      PROVE  k + 1 \in T
      <2> DEFINE here == N - (k + 1)
      <2>1. /\ here \in 0..(N - 1) /\ here \in Nat /\ here # N /\ here \in 0..N
            /\ N - k = here + 1
            /\ \A at \in here..N : at = here \/ at \in (N - k)..N
            BY <1>0, <1>3
      <2> HIDE DEF here
      <2>0. \A at \in (N - k)..N : ReadsAs(masked, text, value, at)
            BY <1>0, <1>3
      <2>2. masked[here] = MaskedFrom(masked, text, value, here)
            BY <2>1 DEF Follows, N
      <2>3. ReadsAs(masked, text, value, here)
            <3>1. CASE StandsAt(text, value, here)
                  <4>1. here + V <= N
                        BY <3>1 DEF StandsAt, N, V
                  <4>2. here + V \in (N - k)..N
                        BY <1>0, <2>1, <4>1
                  <4>3. ReadsAs(masked, text, value, here + V)
                        BY <2>0, <4>2
                  <4>4. masked[here] = <<Marker>> \o masked[here + V]
                        BY <2>1, <2>2, <3>1 DEF MaskedFrom, N, V
                  <4>5. here + V \in (here + 1)..Len(text) /\ here \in 0..(Len(text) - 1)
                        BY <2>1, <4>2 DEF N
                  <4>6. QED BY <4>3, <4>4, <4>5, ReadsFurther DEF Marked
            <3>2. CASE ~StandsAt(text, value, here)
                  <4>1. here + 1 \in (N - k)..N /\ here + 1 \in 1..N
                        BY <1>0, <2>1
                  <4>2. ReadsAs(masked, text, value, here + 1)
                        BY <2>0, <4>1
                  <4>3. masked[here] = <<text[here + 1]>> \o masked[here + 1]
                        BY <2>1, <2>2, <3>2 DEF MaskedFrom, N
                  <4>4. here + 1 \in (here + 1)..Len(text) /\ here \in 0..(Len(text) - 1)
                        BY <2>1, <4>1 DEF N
                  <4>5. text[here + 1] \in Marked
                        BY <4>1, ElementOfSeq DEF N
                  <4>6. QED BY <3>2, <4>2, <4>3, <4>4, <4>5, ReadsFurther
            <3>3. QED BY <3>1, <3>2
      <2>4. \A at \in here..N : ReadsAs(masked, text, value, at)
            BY <2>0, <2>1, <2>3
      <2>5. QED BY <2>4 DEF here
<1>4. N \in T
      <2> HIDE DEF T
      <2>1. 0..N \subseteq T
            BY <1>0, <1>2, <1>3, UpToBound
      <2>2. QED BY <1>0, <2>1
<1>5. QED
      BY <1>0, <1>4

\* Once a value is masked it is gone, and no word is there that was not there.
LEMMA MaskAllClean ==
    ASSUME NEW text \in Seq(Marked), NEW value \in Texts, value # <<>>
    PROVE  /\ MaskAll(text, value) \in Seq(Marked)
           /\ ~Includes(MaskAll(text, value), value)
           /\ \A word \in Texts :
                 word # <<>> /\ Includes(MaskAll(text, value), word) => Includes(text, word)
<1> DEFINE result == MaskAll(text, value)
<1>1. PICK masked : Follows(masked, text, value, 0) /\ result = masked[0]
      BY MaskAllIs
<1>2. /\ result \in Seq(Marked)
      /\ \A p, n \in Nat :
            /\ p + n <= Len(result)
            /\ \A i \in 1..n : result[p + i] # Marker
            => \E a \in 0..Len(text) :
                  /\ a + n <= Len(text)
                  /\ \A i \in 1..n : result[p + i] = text[a + i]
                  /\ \A i \in 0..(n - 1) : ~StandsAt(text, value, a + i)
      <2>1. ReadsAs(masked, text, value, 0)
            BY <1>1, MaskAllReads
      <2>2. /\ masked[0] \in Seq(Marked)
            /\ \A p, n \in Nat :
                  /\ p + n <= Len(masked[0])
                  /\ \A i \in 1..n : masked[0][p + i] # Marker
                  => \E a \in 0..Len(text) :
                        /\ a + n <= Len(text)
                        /\ \A i \in 1..n : masked[0][p + i] = text[a + i]
                        /\ \A i \in 0..(n - 1) : ~StandsAt(text, value, a + i)
            BY <2>1 DEF ReadsAs
      <2> HIDE DEF result
      <2>3. QED BY <1>1, <2>2
<1> HIDE DEF result
<1>3. ASSUME NEW word \in Texts, word # <<>>, Includes(result, word)
      PROVE  \E a \in 0..Len(text) : StandsAt(text, word, a) /\ ~StandsAt(text, value, a)
      <2>1. PICK p \in 0..Len(result) : StandsAt(result, word, p)
            BY <1>3 DEF Includes
      <2> DEFINE n == Len(word)
      <2>2. n \in Nat /\ n # 0 /\ p \in Nat
            BY <1>2, <1>3, LenProperties, EmptySeq DEF Texts
      <2>3. p + n <= Len(result) /\ \A i \in 1..n : result[p + i] = word[i]
            BY <2>1 DEF StandsAt
      <2>4. \A i \in 1..n : result[p + i] # Marker
            BY <2>3, ElementOfSeq, MarkerAssumption DEF Texts
      <2> HIDE DEF n
      <2>5. PICK a \in 0..Len(text) :
                /\ a + n <= Len(text)
                /\ \A i \in 1..n : result[p + i] = text[a + i]
                /\ \A i \in 0..(n - 1) : ~StandsAt(text, value, a + i)
            BY <1>2, <2>2, <2>3, <2>4
      <2>6. StandsAt(text, word, a)
            BY <2>3, <2>5 DEF StandsAt, n
      <2>7. a + 0 = a /\ 0 \in 0..(n - 1)
            BY <2>2
      <2>8. ~StandsAt(text, value, a)
            BY <2>5, <2>7
      <2>9. QED BY <2>6, <2>8
<1>4. ~Includes(result, value)
      BY <1>3
<1>5. ASSUME NEW word \in Texts, word # <<>>, Includes(result, word)
      PROVE  Includes(text, word)
      BY <1>3, <1>5 DEF Includes
<1>6. QED
      BY <1>2, <1>4, <1>5 DEF result

-----------------------------------------------------------------------------
(* Many values are masked.                                                 *)

\* The texts after each of the first N values, from those after the one before.
MaskedInTurn(without, text, values, N) ==
    [n \in 0..N |-> IF n = 0 THEN {text}
                    ELSE {MaskAll(t, values[n]) : t \in without[n - 1]}]

\* The table of MaskEach exists.
LEMMA MaskEachExists ==
    ASSUME NEW text, NEW values, NEW N \in Nat
    PROVE  \E without : without = MaskedInTurn(without, text, values, N)
<1> DEFINE Next(f, n) == IF n = 0 THEN {text} ELSE {MaskAll(t, values[n]) : t \in f[n - 1]}
           T == {k \in Nat : \E f : f = [n \in 0..k |-> Next(f, n)]}
<1>1. 0 \in T
      <2> DEFINE f == [n \in 0..0 |-> {text}]
      <2>1. f = [n \in 0..0 |-> Next(f, n)]
            OBVIOUS
      <2>2. QED BY <2>1
<1>2. ASSUME NEW k \in Nat, k \in T
      PROVE  k + 1 \in T
      <2>1. PICK f : f = [n \in 0..k |-> Next(f, n)]
            BY <1>2
      <2> DEFINE g == [n \in 0..(k + 1) |-> IF n = k + 1 THEN Next(f, n) ELSE f[n]]
      <2>2. \A n \in 0..k : n \in 0..(k + 1) /\ n # k + 1 /\ g[n] = f[n]
            OBVIOUS
      <2>3. ASSUME NEW n \in 0..(k + 1)
            PROVE  Next(f, n) = Next(g, n)
            <3>1. CASE n = 0
                  BY <3>1
            <3>2. CASE n # 0
                  <4>1. n - 1 \in 0..k
                        BY <3>2
                  <4>2. g[n - 1] = f[n - 1]
                        BY <2>2, <4>1
                  <4> HIDE DEF g
                  <4>3. QED BY <3>2, <4>2
            <3>3. QED BY <3>1, <3>2
      <2>4. ASSUME NEW n \in 0..(k + 1)
            PROVE  g[n] = Next(f, n)
            <3>1. CASE n = k + 1
                  BY <3>1
            <3>2. CASE n \in 0..k
                  <4> HIDE DEF Next
                  <4>1. f[n] = Next(f, n)
                        BY <2>1, <3>2
                  <4>2. QED BY <2>2, <3>2, <4>1
            <3>3. QED BY <3>1, <3>2
      <2>5. g = [n \in 0..(k + 1) |-> Next(g, n)]
            <3>1. \A n \in 0..(k + 1) : g[n] = Next(g, n)
                  <4> HIDE DEF g, Next
                  <4> QED BY <2>3, <2>4
            <3> HIDE DEF Next
            <3>2. QED BY <3>1
      <2> HIDE DEF g, Next
      <2>6. QED BY <2>5
<1>3. N \in T
      <2> HIDE DEF T
      <2>1. 0..N \subseteq T
            BY <1>1, <1>2, UpToBound
      <2>2. QED BY <2>1
<1>4. PICK f : f = [n \in 0..N |-> Next(f, n)]
      BY <1>3
<1>5. f = MaskedInTurn(f, text, values, N)
      BY <1>4 DEF MaskedInTurn
<1>6. QED
      BY <1>5

\* After all of them were masked in turn, none of the values is left.
LEMMA MaskEachClean ==
    ASSUME NEW text \in Seq(Marked), NEW values, NEW N \in Nat, Len(values) = N,
           \A n \in 1..N : values[n] \in Texts
    PROVE  /\ MaskEach(text, values) \in Seq(Marked)
           /\ \A n \in 1..N : values[n] # <<>> => ~Includes(MaskEach(text, values), values[n])
<1> DEFINE w == CHOOSE without : without = MaskedInTurn(without, text, values, N)
           Clean(t, n) == /\ t \in Seq(Marked)
                          /\ \A k \in 1..n : values[k] # <<>> => ~Includes(t, values[k])
           T == {n \in Nat : n <= N => \E t : w[n] = {t} /\ Clean(t, n)}
<1>1. w = MaskedInTurn(w, text, values, N)
      BY MaskEachExists
<1>2. MaskEach(text, values) = CHOOSE t \in w[N] : TRUE
      BY DEF MaskEach, MaskedInTurn
<1> HIDE DEF w
<1>3. /\ w[0] = {text}
      /\ \A n \in 1..N : w[n] = {MaskAll(t, values[n]) : t \in w[n - 1]}
      <2>1. \A n \in 0..N :
               w[n] = IF n = 0 THEN {text} ELSE {MaskAll(t, values[n]) : t \in w[n - 1]}
            BY <1>1 DEF MaskedInTurn
      <2>2. 0 \in 0..N /\ \A n \in 1..N : n \in 0..N /\ n # 0
            OBVIOUS
      <2>3. QED BY <2>1, <2>2
<1>4. 0 \in T
      BY <1>3
<1>5. ASSUME NEW n \in Nat, n \in T, n < N
      PROVE  n + 1 \in T
      <2>1. PICK t : w[n] = {t} /\ Clean(t, n)
            BY <1>5
      <2> DEFINE v == values[n + 1]
                 u == MaskAll(t, v)
      <2>2. n + 1 \in 1..N /\ (n + 1) - 1 = n /\ \A k \in 1..(n + 1) : k = n + 1 \/ k \in 1..n
            BY <1>5
      <2>3. w[n + 1] = {u}
            BY <1>3, <2>1, <2>2
      <2>4. v \in Texts
            BY <2>2
      <2>5. Clean(u, n + 1)
            <3>1. CASE v = <<>>
                  <4>1. u = t
                        BY <3>1 DEF MaskAll
                  <4>2. QED BY <2>1, <2>2, <3>1, <4>1
            <3>2. CASE v # <<>>
                  <4>1. /\ u \in Seq(Marked) /\ ~Includes(u, v)
                        /\ \A word \in Texts : word # <<>> /\ Includes(u, word) => Includes(t, word)
                        BY <2>1, <2>4, <3>2, MaskAllClean
                  <4> HIDE DEF u
                  <4>2. ASSUME NEW k \in 1..(n + 1), values[k] # <<>>
                        PROVE  ~Includes(u, values[k])
                        <5>1. CASE k = n + 1
                              BY <4>1, <5>1
                        <5>2. CASE k \in 1..n
                              <6>1. k \in 1..N
                                    BY <1>5, <5>2
                              <6>2. values[k] \in Texts /\ ~Includes(t, values[k])
                                    BY <2>1, <4>2, <5>2, <6>1
                              <6>3. QED BY <4>1, <4>2, <6>2
                        <5>3. QED BY <2>2, <5>1, <5>2
                  <4>3. QED BY <4>1, <4>2
            <3>3. QED BY <3>1, <3>2
      <2> HIDE DEF u, Clean
      <2>6. QED BY <2>3, <2>5
<1>6. N \in T
      <2> HIDE DEF T
      <2>1. 0..N \subseteq T
            BY <1>4, <1>5, UpToBound
      <2>2. QED BY <2>1
<1>7. PICK t : w[N] = {t} /\ Clean(t, N)
      BY <1>6
<1>8. MaskEach(text, values) = t
      BY <1>2, <1>7
<1>9. QED
      BY <1>7, <1>8

\* The match is replaced where it stands, or nothing is.
LEMMA SpliceMarked ==
    ASSUME NEW snippet \in Texts, NEW span, span[1] \in Nat, span[2] \in Nat
    PROVE  Splice(snippet, span) \in Seq(Marked)
<1> DEFINE N == Len(snippet)
<1>1. snippet \in Seq(Marked) /\ N \in Nat
      BY SeqMonotonic, LenProperties DEF Marked, Texts
<1>2. CASE UsableSpan(snippet, span)
      <2>1. span[1] < span[2] /\ span[2] <= N
            BY <1>2 DEF UsableSpan
      <2>2. Slice(snippet, 0, span[1]) \in Seq(Marked)
            <3>1. \A i \in 1..span[1] : i \in 1..N
                  BY <1>1, <2>1
            <3>2. \A i \in (0 + 1)..span[1] : snippet[i] \in Marked
                  BY <1>1, <3>1, ElementOfSeq
            <3>3. QED BY <3>2, SubSeqProperties DEF Slice
      <2>3. Slice(snippet, span[2], N) \in Seq(Marked)
            <3>1. \A i \in (span[2] + 1)..N : i \in 1..N
                  BY <1>1, <2>1
            <3>2. \A i \in (span[2] + 1)..N : snippet[i] \in Marked
                  BY <1>1, <3>1, ElementOfSeq
            <3>3. QED BY <1>1, <3>2, SubSeqProperties DEF Slice
      <2>4. <<Marker>> \in Seq(Marked)
            BY DEF Marked
      <2>5. QED
            BY <1>2, <2>2, <2>3, <2>4, ConcatProperties DEF Splice
<1>3. CASE ~UsableSpan(snippet, span)
      BY <1>1, <1>3 DEF Splice
<1>4. QED
      BY <1>2, <1>3

\* For any snippet and any values, what redact_snippet_with returns holds neither
\* the value nor one of the others, whatever the span (redact.rs:131).
THEOREM RedactionIsComplete ==
    ASSUME NEW snippet \in Texts, NEW value \in Texts, NEW others \in Seq(Texts),
           NEW span, span[1] \in Nat, span[2] \in Nat,
           NEW secret \in {value} \cup {others[i] : i \in 1..Len(others)}, secret # <<>>
    PROVE  ~Includes(RedactedSnippet(snippet, value, span, others), secret)
<1> DEFINE neighbours == [i \in 1..Len(others) |-> IF others[i] = value THEN <<>> ELSE others[i]]
           text == MaskEach(Splice(snippet, span), neighbours)
           values == <<value>> \o others
           N == Len(others)
<1>1. N \in Nat /\ \A i \in 1..N : others[i] \in Texts
      BY LenProperties, ElementOfSeq
<1>2. text \in Seq(Marked)
      <2>1. \A i \in 1..N : neighbours[i] \in Texts
            BY <1>1 DEF Texts
      <2>2. neighbours \in [1..N -> Texts]
            BY <2>1
      <2>3. neighbours \in Seq(Texts) /\ Len(neighbours) = N
            BY <1>1, <2>2
      <2> HIDE DEF neighbours
      <2>4. QED BY <1>1, <2>1, <2>3, SpliceMarked, MaskEachClean
<1>3. /\ Len(values) = N + 1
      /\ values[1] = value
      /\ \A i \in 1..N : values[i + 1] = others[i]
      /\ \A n \in 1..(N + 1) : values[n] \in Texts
      <2>1. <<value>> \in Seq(Texts) /\ Len(<<value>>) = 1 /\ <<value>>[1] = value
            OBVIOUS
      <2>2. /\ values \in Seq(Texts) /\ Len(values) = 1 + N
            /\ \A i \in 1..(1 + N) :
                  values[i] = IF i <= 1 THEN <<value>>[i] ELSE others[i - 1]
            BY <2>1, ConcatProperties
      <2> HIDE DEF values, N
      <2>3. values[1] = value /\ Len(values) = N + 1
            BY <1>1, <2>1, <2>2
      <2>4. ASSUME NEW i \in 1..N PROVE values[i + 1] = others[i]
            <3>1. i + 1 \in 1..(1 + N) /\ ~(i + 1 <= 1) /\ (i + 1) - 1 = i
                  BY <1>1
            <3>2. QED BY <2>2, <3>1
      <2>5. \A n \in 1..(N + 1) : values[n] \in Texts
            BY <2>2, <2>3, ElementOfSeq
      <2>6. QED BY <2>3, <2>4, <2>5
<1> HIDE DEF text, values
<1>4. \E n \in 1..(N + 1) : values[n] = secret
      <2>1. 1 \in 1..(N + 1) /\ \A i \in 1..N : i + 1 \in 1..(N + 1)
            BY <1>1
      <2>2. QED BY <1>3, <2>1
<1>5. \A n \in 1..(N + 1) : values[n] # <<>> => ~Includes(MaskEach(text, values), values[n])
      <2> DEFINE M == N + 1
      <2>1. M \in Nat /\ Len(values) = M /\ \A n \in 1..M : values[n] \in Texts
            BY <1>1, <1>3
      <2> HIDE DEF M
      <2>2. \A n \in 1..M : values[n] # <<>> => ~Includes(MaskEach(text, values), values[n])
            BY <1>2, <2>1, MaskEachClean
      <2>3. QED BY <2>2 DEF M
<1>6. ~Includes(MaskEach(text, values), secret)
      BY <1>4, <1>5
<1>7. QED
      BY <1>6 DEF RedactedSnippet, text, values
=============================================================================
