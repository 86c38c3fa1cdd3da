--------------------------- MODULE FramingProofs ---------------------------
(***************************************************************************)
(* How a stream of messages comes out of EchoThreadMain's buffer, however  *)
(* TCP cuts it: proofs about Framing, and before them what Split and       *)
(* HandleMessage make of a text.                                           *)
(*                                                                         *)
(* The loops of both are inductions over the text.  The library's theorems *)
(* on induction take an operator; the least element of a set of numbers    *)
(* does as well, and needs none.                                           *)
(***************************************************************************)
EXTENDS Framing, FiniteSetTheorems, FunctionTheorems, SequenceTheorems, TLAPS

(* A set of numbers has a least one: the initial segments up to its        *)
(* elements have a smallest among them.                                    *)
LEMMA Least ==
  ASSUME NEW S, S \subseteq Nat, S # {}
  PROVE  \E m \in S : \A k \in S : m <= k
<1> DEFINE T == {0 .. m : m \in S}
           R == StrictSubsetOrdering(Nat)
<1>1. IsWellFoundedOn(R, FiniteSubsetsOf(Nat))
  BY FS_StrictSubsetOrderingWellFounded
<1>2. T \subseteq FiniteSubsetsOf(Nat) /\ T # {}
  <2>1. \A m \in Nat : IsFiniteSet(0 .. m) /\ 0 .. m \in SUBSET Nat
    BY FS_Interval
  <2> QED
    BY <2>1 DEF FiniteSubsetsOf
<1>3. PICK X \in T : \A Y \in T : <<Y, X>> \notin R
  <2> HIDE DEF T, R
  <2> QED
    BY <1>1, <1>2, WFMin
<1>4. PICK m \in S : X = 0 .. m
  OBVIOUS
<1>5. ASSUME NEW k \in S
      PROVE  m <= k
  <2> SUFFICES ASSUME k < m
               PROVE  FALSE
    OBVIOUS
  <2>1. 0 .. k \in T /\ <<0 .. k, X>> \in R
    BY <1>4 DEF StrictSubsetOrdering
  <2> QED
    BY <2>1, <1>3
<1> QED
  BY <1>5

(* Even and odd numbers.                                                   *)
LEMMA Halves == \A i \in Nat : \E k \in Nat : i = 2 * k \/ i = 2 * k + 1
<1> TAKE i \in Nat
<1> WITNESS i \div 2 \in Nat
<1> QED
  OBVIOUS

(* A piece of one character.                                               *)
LEMMA SubSeqOne ==
  ASSUME NEW C, NEW s \in Seq(C), NEW i \in 1 .. Len(s)
  PROVE  SubSeq(s, i, i) = <<s[i]>>
<1>1. /\ SubSeq(s, i, i) \in Seq(C) /\ Len(SubSeq(s, i, i)) = 1
      /\ SubSeq(s, i, i)[1] = s[i]
  OBVIOUS
<1>2. s[i] \in C
  OBVIOUS
<1>3. <<s[i]>> \in Seq(C) /\ Len(<<s[i]>>) = 1 /\ <<s[i]>>[1] = s[i]
  BY <1>2
<1> DEFINE t == SubSeq(s, i, i)
           u == <<s[i]>>
<1>4. t \in Seq(C) /\ u \in Seq(C) /\ Len(t) = Len(u) /\ \A j \in 1 .. Len(t) : t[j] = u[j]
  BY <1>1, <1>3
<1> HIDE DEF t, u
<1>5. t = u
  BY <1>4, SeqEqual
<1> QED
  BY <1>5 DEF t, u

---------------------------------------------------------------------------
(* Split                                                                   *)

(* The elements of D up to i.                                              *)
UpTo(D, i) == {d \in D : d <= i}

(* The number of the elements up to i tells i.                             *)
LEMMA Ranked ==
  ASSUME NEW D, D \subseteq Nat, IsFiniteSet(D), NEW i \in D
  PROVE  /\ Cardinality(UpTo(D, i)) \in 1 .. Cardinality(D)
         /\ (CHOOSE j \in D : Cardinality(UpTo(D, j)) = Cardinality(UpTo(D, i))) = i
<1>1. ASSUME NEW j \in D
      PROVE  IsFiniteSet(UpTo(D, j)) /\ Cardinality(UpTo(D, j)) \in 1 .. Cardinality(D)
  <2>1. UpTo(D, j) \in SUBSET D /\ j \in UpTo(D, j)
    BY DEF UpTo
  <2>2. /\ IsFiniteSet(UpTo(D, j)) /\ Cardinality(UpTo(D, j)) <= Cardinality(D)
    BY <2>1, FS_Subset
  <2>3. Cardinality(UpTo(D, j)) \in Nat /\ Cardinality(UpTo(D, j)) # 0
        /\ Cardinality(D) \in Nat
    BY <2>1, <2>2, FS_CardinalityType, FS_EmptySet
  <2> QED
    BY <2>2, <2>3
<1>2. ASSUME NEW j \in D, NEW k \in D, j < k
      PROVE  Cardinality(UpTo(D, j)) # Cardinality(UpTo(D, k))
  <2>1. UpTo(D, j) \in SUBSET UpTo(D, k) /\ UpTo(D, j) # UpTo(D, k)
    <3>1. j \in Nat /\ k \in Nat /\ \A d \in D : d \in Nat
      OBVIOUS
    <3>2. \A d \in D : d <= j => d <= k
      BY <3>1, <1>2
    <3>3. k \in UpTo(D, k) /\ k \notin UpTo(D, j)
      BY <3>1, <1>2 DEF UpTo
    <3> QED
      BY <3>2, <3>3 DEF UpTo
  <2> QED
    BY <2>1, <1>1, FS_Subset
<1>3. \A j \in D : Cardinality(UpTo(D, j)) = Cardinality(UpTo(D, i)) => j = i
  <2> SUFFICES ASSUME NEW j \in D, Cardinality(UpTo(D, j)) = Cardinality(UpTo(D, i))
               PROVE  j = i
    OBVIOUS
  <2>1. ~(j < i) /\ ~(i < j)
    BY <1>2
  <2> QED
    BY <2>1
<1> QED
  BY <1>1, <1>3

(* Every second character is a '#', from the second on.                    *)
Alternating(text) ==
  \A k \in Nat : /\ 2 * k + 1 \in DOMAIN text => text[2 * k + 1] # Delim
                 /\ 2 * k + 2 \in DOMAIN text => text[2 * k + 2] = Delim

Delims(text) == {i \in DOMAIN text : text[i] = Delim}
Find(text, k) ==
  CHOOSE i \in Delims(text) : Cardinality(UpTo(Delims(text), i)) = k
Previous(text, k) == IF k = 1 THEN 0 ELSE Find(text, k - 1)

(* Split, in these terms.                                                  *)
LEMMA SplitIs ==
  ASSUME NEW text
  PROVE  Split(text) = [k \in 1 .. Cardinality(Delims(text)) |->
           [body |-> SubSeq(text, Previous(text, k) + 1, Find(text, k) - 1),
            start |-> Previous(text, k)]]
  BY DEF Split, Delims, Find, Previous, UpTo

(* A text has finitely many of them.                                       *)
LEMMA DelimsFinite ==
  ASSUME NEW C, NEW text \in Seq(C)
  PROVE  Delims(text) \subseteq Nat /\ IsFiniteSet(Delims(text))
<1>1. Delims(text) \in SUBSET (1 .. Len(text)) /\ Len(text) \in Nat
  BY DEF Delims
<1>2. IsFiniteSet(1 .. Len(text))
  BY <1>1, FS_Interval
<1>3. IsFiniteSet(Delims(text))
  BY <1>1, <1>2, FS_Subset
<1> QED
  BY <1>1, <1>3

(* The tokens of a text that alternates.                                   *)
LEMMA SplitAlternating ==
  ASSUME NEW C, NEW text \in Seq(C), Alternating(text),
         NEW n \in Nat, Len(text) \in {2 * n, 2 * n + 1}
  PROVE  Split(text) = [k \in 1 .. n |-> [body |-> <<text[2 * k - 1]>>,
                                          start |-> 2 * k - 2]]
<1> DEFINE D == Delims(text)
<1>1. D = {2 * k : k \in 1 .. n}
  <2>1. ASSUME NEW i \in D PROVE i \in {2 * k : k \in 1 .. n}
    <3>1. i \in 1 .. Len(text) /\ text[i] = Delim
      BY DEF Delims
    <3>2. PICK k \in Nat : i = 2 * k + 1 \/ i = 2 * k + 2
      <4>1. \E k \in Nat : i - 1 = 2 * k \/ i - 1 = 2 * k + 1
        <5>1. i - 1 \in Nat
          BY <3>1
        <5> QED
          BY <5>1, Halves
      <4> QED
        BY <4>1, <3>1
    <3>3. i # 2 * k + 1
      <4>1. 2 * k + 1 \in DOMAIN text => text[2 * k + 1] # Delim
        BY DEF Alternating
      <4> QED
        BY <3>1, <4>1
    <3>4. k + 1 \in 1 .. n /\ i = 2 * (k + 1)
      BY <3>1, <3>2, <3>3
    <3> QED
      BY <3>4
  <2>2. ASSUME NEW k \in 1 .. n PROVE 2 * k \in D
    <3>1. 2 * k = 2 * (k - 1) + 2 /\ k - 1 \in Nat /\ 2 * k \in DOMAIN text
      OBVIOUS
    <3>2. text[2 * (k - 1) + 2] = Delim
      BY <3>1 DEF Alternating
    <3> QED
      BY <3>1, <3>2 DEF Delims
  <2> QED
    BY <2>1, <2>2
<1>2. ASSUME NEW k \in 0 .. n
      PROVE  Cardinality(UpTo(D, 2 * k)) = k
  <2> DEFINE f == [j \in 1 .. k |-> 2 * j]
  <2>1. UpTo(D, 2 * k) = {2 * j : j \in 1 .. k}
    BY <1>1 DEF UpTo
  <2>2. f \in Bijection(1 .. k, UpTo(D, 2 * k))
    <3>1. f \in [1 .. k -> UpTo(D, 2 * k)]
      BY <2>1
    <3>2. \A x, y \in 1 .. k : f[x] = f[y] => x = y
      OBVIOUS
    <3>3. \A y \in UpTo(D, 2 * k) : \E x \in 1 .. k : f[x] = y
      BY <2>1
    <3> HIDE DEF f
    <3> QED
      BY <3>1, <3>2, <3>3, Fun_IsBij
  <2>3. IsFiniteSet(1 .. k) /\ Cardinality(1 .. k) = k
    <3>1. 1 \in Int /\ k \in Int /\ k - 1 + 1 = k /\ (1 > k => k = 0)
      OBVIOUS
    <3> QED
      BY <3>1, FS_Interval
  <2> QED
    BY <2>2, <2>3, FS_Bijection DEF ExistsBijection
<1>3. D \subseteq Nat /\ IsFiniteSet(D)
  BY DelimsFinite
<1>4. Cardinality(D) = n
  <2>1. UpTo(D, 2 * n) = D
    BY <1>1 DEF UpTo
  <2> QED
    BY <1>2, <2>1
<1>5. ASSUME NEW k \in 1 .. n PROVE Find(text, k) = 2 * k
  <2>1. 2 * k \in D /\ Cardinality(UpTo(D, 2 * k)) = k
    BY <1>1, <1>2
  <2> QED
    BY <1>3, <2>1, Ranked DEF Find
<1>6. ASSUME NEW k \in 1 .. n
      PROVE  /\ Previous(text, k) = 2 * k - 2
             /\ SubSeq(text, Previous(text, k) + 1, Find(text, k) - 1)
                  = <<text[2 * k - 1]>>
  <2>1. Previous(text, k) = 2 * k - 2
    BY <1>5 DEF Previous
  <2>2. SubSeq(text, 2 * k - 1, 2 * k - 1) = <<text[2 * k - 1]>>
    BY SubSeqOne
  <2> QED
    BY <2>1, <2>2, <1>5
<1> QED
  BY SplitIs, <1>4, <1>6

(* The message texts are apart: no two characters of tokens are side by    *)
(* side.                                                                   *)
Apart(text) ==
  \A i \in DOMAIN text : i + 1 \in DOMAIN text =>
    text[i] = Delim \/ text[i + 1] = Delim

(* Split comes to an end only if no '#' follows another one, or is the     *)
(* first character.                                                        *)
LEMMA SplitEndsAlternates ==
  ASSUME NEW C, NEW text \in Seq(C), Apart(text), SplitEnds(text)
  PROVE  Alternating(text)
<1> DEFINE D == Delims(text)
           Good(i) == \E k \in Nat : \/ i = 2 * k + 1 /\ text[i] # Delim
                                     \/ i = 2 * k + 2 /\ text[i] = Delim
           Bad == {i \in DOMAIN text : ~Good(i)}
<1>0. DOMAIN text = 1 .. Len(text) /\ Len(text) \in Nat
  OBVIOUS
<1>1. D \subseteq Nat /\ IsFiniteSet(D)
  BY DelimsFinite
<1>2. Bad = {}
  <2> SUFFICES ASSUME Bad # {}
               PROVE  FALSE
    OBVIOUS
  <2>1. PICK i \in Bad : \A j \in Bad : i <= j
    <3>1. Bad \subseteq Nat
      BY <1>0
    <3> HIDE DEF Bad
    <3> QED
      BY <3>1, Least
  <2>2. i \in 1 .. Len(text) /\ i - 1 \in Nat /\ ~Good(i)
    BY <1>0
  <2>3. ASSUME i # 1
        PROVE  i - 1 \in DOMAIN text /\ Good(i - 1)
    <3>1. i - 1 \in DOMAIN text /\ ~(i <= i - 1)
      BY <2>2, <2>3, <1>0
    <3> HIDE DEF Good
    <3> QED
      BY <3>1, <2>1
  <2>4. PICK k \in Nat : i = 2 * k + 1 \/ i = 2 * k + 2
    <3>1. PICK k \in Nat : i - 1 = 2 * k \/ i - 1 = 2 * k + 1
      BY <2>2, Halves
    <3> QED
      BY <3>1, <2>2
  <2>5. CASE i = 2 * k + 2
    <3>1. text[i] # Delim /\ i # 1
      BY <2>2, <2>5
    <3>2. text[i - 1] # Delim
      <4>1. PICK j \in Nat : \/ i - 1 = 2 * j + 1 /\ text[i - 1] # Delim
                             \/ i - 1 = 2 * j + 2 /\ text[i - 1] = Delim
        BY <2>3, <3>1
      <4>2. i - 1 # 2 * j + 2
        BY <2>5
      <4> QED
        BY <4>1, <4>2
    <3>3. i - 1 + 1 = i
      BY <2>2
    <3> QED
      BY <2>3, <3>1, <3>2, <3>3, <2>2, <1>0 DEF Apart
  <2>6. CASE i = 2 * k + 1
    <3>1. text[i] = Delim /\ i \in D
      BY <2>2, <2>6, <1>0 DEF Delims
    <3> DEFINE n == Cardinality(UpTo(D, i))
    <3>2. n \in 1 .. Cardinality(D) /\ Find(text, n) = i
      BY <1>1, <3>1, Ranked DEF Find
    <3>3. Previous(text, n) = i - 1
      <4>1. CASE i = 1
        <5>1. UpTo(D, i) = {1}
          <6>1. \A d \in D : d \in 1 .. Len(text)
            BY <1>0 DEF Delims
          <6>2. \A d \in D : d <= 1 <=> d = 1
            BY <6>1
          <6> QED
            BY <6>2, <3>1, <4>1 DEF UpTo
        <5>2. n = 1
          BY <5>1, FS_Singleton
        <5> QED
          BY <5>2, <4>1 DEF Previous
      <4>2. CASE i # 1
        <5>1. text[i - 1] = Delim
          <6>1. PICK j \in Nat : \/ i - 1 = 2 * j + 1 /\ text[i - 1] # Delim
                                 \/ i - 1 = 2 * j + 2 /\ text[i - 1] = Delim
            BY <2>3, <4>2
          <6>2. i - 1 # 2 * j + 1
            BY <2>6
          <6> QED
            BY <6>1, <6>2
        <5>2. i - 1 \in D
          BY <5>1, <2>3, <4>2 DEF Delims
        <5>3. /\ UpTo(D, i) = UpTo(D, i - 1) \cup {i}
              /\ i \notin UpTo(D, i - 1)
          <6>1. \A d \in D : d \in Nat
            BY <1>1
          <6>2. \A d \in D : d <= i <=> d <= i - 1 \/ d = i
            BY <6>1, <2>2
          <6> QED
            BY <6>2, <3>1, <2>2 DEF UpTo
        <5>4. IsFiniteSet(UpTo(D, i - 1))
          <6>1. UpTo(D, i - 1) \in SUBSET D
            BY DEF UpTo
          <6> QED
            BY <6>1, <1>1, FS_Subset
        <5>5. n = Cardinality(UpTo(D, i - 1)) + 1
          BY <5>3, <5>4, FS_AddElement
        <5>6. /\ Cardinality(UpTo(D, i - 1)) \in 1 .. Cardinality(D)
              /\ Find(text, Cardinality(UpTo(D, i - 1))) = i - 1
          BY <1>1, <5>2, Ranked DEF Find
        <5>7. n # 1 /\ n - 1 = Cardinality(UpTo(D, i - 1))
          BY <5>5, <5>6
        <5> QED
          BY <5>6, <5>7 DEF Previous
      <4> QED
        BY <4>1, <4>2
    <3>4. Split(text)[n].body = SubSeq(text, i - 1 + 1, i - 1)
      <4> HIDE DEF n
      <4> QED
        BY <3>2, <3>3, SplitIs
    <3>5. SubSeq(text, i - 1 + 1, i - 1) = <<>>
      BY <2>2
    <3>6. n \in DOMAIN Split(text)
      <4> HIDE DEF n
      <4> QED
        BY <3>2, SplitIs
    <3> QED
      BY <3>4, <3>5, <3>6 DEF SplitEnds
  <2> QED
    BY <2>4, <2>5, <2>6
<1>3. ASSUME NEW k \in Nat
      PROVE  /\ 2 * k + 1 \in DOMAIN text => text[2 * k + 1] # Delim
             /\ 2 * k + 2 \in DOMAIN text => text[2 * k + 2] = Delim
  <2>1. \A i \in DOMAIN text : Good(i)
    BY <1>2
  <2>2. \A j \in Nat : 2 * k + 1 # 2 * j + 2 /\ 2 * k + 2 # 2 * j + 1
    OBVIOUS
  <2> QED
    BY <2>1, <2>2
<1> QED
  BY <1>3 DEF Alternating

---------------------------------------------------------------------------
(* HandleMessage                                                           *)

(* The number of tokens that token k + 1 tells.                            *)
LengthAt(tokens, S, k) == S[tokens[k + 1].body[1].msg]

HandledAt(tokens, S, k) ==
  [msg |-> tokens[k].body[1].msg,
   whole |-> \A j \in 1 .. LengthAt(tokens, S, k) :
               tokens[k + j - 1].body = <<Text(tokens[k].body[1].msg, j)>>]

(* What the loop comes to from token k on, when g is what it comes to from *)
(* the later ones.                                                         *)
FromAt(tokens, S, g, k) ==
  LET n == Len(tokens) IN
  IF k > n
  THEN [handled |-> <<>>, resume |-> 0]
  ELSE IF ~IsSignature(tokens[k].body)
  THEN g[k + 1]
  ELSE IF k = n
  THEN [handled |-> <<>>, resume |-> 0]
  ELSE IF k - 1 + LengthAt(tokens, S, k) > n
  THEN [handled |-> <<>>, resume |-> tokens[k].start]
  ELSE [g[k + LengthAt(tokens, S, k)] EXCEPT
          !.handled = <<HandledAt(tokens, S, k)>> \o @]

(* g is what the loop comes to, from any token after the first n - i.      *)
Loop(tokens, S, g, i) ==
  LET n == Len(tokens) IN
  g = [k \in n + 1 - i .. n + 1 |-> FromAt(tokens, S, g, k)]

(* A message has a token at least.                                         *)
Advances(tokens, S) ==
  \A k \in 1 .. Len(tokens) - 1 :
    IsSignature(tokens[k].body) => LengthAt(tokens, S, k) \in Nat \ {0}

(* The loop moves on, so that it comes to something.                       *)
LEMMA LoopExists ==
  ASSUME NEW tokens, NEW S, Len(tokens) \in Nat, Advances(tokens, S)
  PROVE  \E g : Loop(tokens, S, g, Len(tokens))
<1> DEFINE n == Len(tokens)
           Fails == {i \in 0 .. n : ~ \E g : Loop(tokens, S, g, i)}
<1>1. ASSUME NEW k \in 1 .. n + 1, NEW g, NEW h,
             \A j \in k + 1 .. n + 1 : g[j] = h[j]
      PROVE  FromAt(tokens, S, g, k) = FromAt(tokens, S, h, k)
  <2>1. CASE k > n
    BY <2>1 DEF FromAt
  <2>2. CASE k <= n /\ ~IsSignature(tokens[k].body)
    <3>1. k + 1 \in k + 1 .. n + 1
      BY <2>2
    <3> QED
      BY <3>1, <2>2, <1>1 DEF FromAt
  <2>3. CASE k <= n /\ IsSignature(tokens[k].body)
    <3>1. CASE k = n \/ k - 1 + LengthAt(tokens, S, k) > n
      BY <3>1, <2>3 DEF FromAt
    <3>2. CASE k # n /\ ~(k - 1 + LengthAt(tokens, S, k) > n)
      <4>1. LengthAt(tokens, S, k) \in Nat \ {0}
        BY <3>2, <2>3 DEF Advances
      <4>2. k + LengthAt(tokens, S, k) \in k + 1 .. n + 1
        BY <3>2, <4>1
      <4>3. g[k + LengthAt(tokens, S, k)] = h[k + LengthAt(tokens, S, k)]
        BY <4>2, <1>1
      <4>4. ASSUME NEW f
            PROVE  FromAt(tokens, S, f, k)
                     = [f[k + LengthAt(tokens, S, k)] EXCEPT
                          !.handled = <<HandledAt(tokens, S, k)>> \o @]
        BY <2>3, <3>2 DEF FromAt
      <4> QED
        BY <4>3, <4>4
    <3> QED
      BY <3>1, <3>2
  <2> QED
    BY <2>1, <2>2, <2>3
<1>2. Fails = {}
  <2> SUFFICES ASSUME Fails # {}
               PROVE  FALSE
    OBVIOUS
  <2>1. PICK i \in Fails : \A j \in Fails : i <= j
    <3>1. Fails \subseteq Nat
      OBVIOUS
    <3> HIDE DEF Fails
    <3> QED
      BY <3>1, Least
  <2>2. i # 0
    <3> DEFINE g == [k \in n + 1 - 0 .. n + 1 |-> [handled |-> <<>>, resume |-> 0]]
    <3>1. \A k \in n + 1 - 0 .. n + 1 :
            FromAt(tokens, S, g, k) = [handled |-> <<>>, resume |-> 0]
      BY DEF FromAt
    <3>2. Loop(tokens, S, g, 0)
      BY <3>1 DEF Loop
    <3> QED
      BY <3>2
  <2>3. PICK g : Loop(tokens, S, g, i - 1)
    <3>1. i - 1 \in 0 .. n /\ ~(i <= i - 1)
      BY <2>2
    <3> QED
      BY <2>1, <3>1
  <2> DEFINE first == n + 1 - i
             h == [k \in first .. n + 1 |->
                     IF k = first THEN FromAt(tokens, S, g, k) ELSE g[k]]
  <2>4. /\ first \in 1 .. n
        /\ n + 1 - (i - 1) = first + 1
    BY <2>2
  <2>5. ASSUME NEW k \in first .. n + 1
        PROVE  h[k] = FromAt(tokens, S, h, k)
    <3>1. \A j \in k + 1 .. n + 1 : g[j] = h[j]
      BY <2>4
    <3>2. FromAt(tokens, S, g, k) = FromAt(tokens, S, h, k)
      <4> HIDE DEF h
      <4> QED
        BY <3>1, <2>4, <1>1
    <3>3. ASSUME k # first
          PROVE  g[k] = FromAt(tokens, S, g, k)
      <4>1. g = [j \in first + 1 .. n + 1 |-> FromAt(tokens, S, g, j)]
        BY <2>3, <2>4 DEF Loop
      <4>2. k \in first + 1 .. n + 1
        BY <2>4, <3>3
      <4> HIDE DEF first
      <4> QED
        BY <4>1, <4>2
    <3> QED
      BY <3>2, <3>3
  <2>6. Loop(tokens, S, h, i)
    <3>1. h = [k \in first .. n + 1 |-> h[k]]
      OBVIOUS
    <3> HIDE DEF h
    <3> QED
      BY <3>1, <2>5 DEF Loop
  <2> QED
    BY <2>6
<1>3. n \in 0 .. n
  OBVIOUS
<1> QED
  BY <1>2, <1>3

(* HandleMessage is what the loop comes to from the first token.           *)
LEMMA HandleMessageLoops ==
  ASSUME NEW tokens, NEW S, Len(tokens) \in Nat, Advances(tokens, S)
  PROVE  \E g : /\ HandleMessage(tokens, S) = g[1]
                /\ \A k \in 1 .. Len(tokens) + 1 : g[k] = FromAt(tokens, S, g, k)
<1> DEFINE n == Len(tokens)
           f == CHOOSE g : g = [k \in 1 .. n + 1 |-> FromAt(tokens, S, g, k)]
<1>1. \E g : g = [k \in 1 .. n + 1 |-> FromAt(tokens, S, g, k)]
  <2>1. n + 1 - n = 1
    OBVIOUS
  <2> QED
    BY <2>1, LoopExists DEF Loop
<1>2. f = [k \in 1 .. n + 1 |-> FromAt(tokens, S, f, k)]
  BY <1>1
<1>3. HandleMessage(tokens, S) = f[1]
  BY DEF HandleMessage, FromAt, LengthAt, HandledAt
<1> HIDE DEF f
<1>4. \A k \in 1 .. n + 1 : f[k] = FromAt(tokens, S, f, k)
  BY <1>2
<1> QED
  BY <1>3, <1>4

---------------------------------------------------------------------------
(* A stream of messages, and a text that is a piece of it                  *)

(* Where message m begins if messages end at E.                            *)
Begin(E, m) == IF m = 1 THEN 0 ELSE E[m - 1]

(* The messages follow one another up to position `last`.                  *)
InARow(E, last) ==
  /\ E \in Seq(Nat)
  /\ \A m \in DOMAIN E : Begin(E, m) + 4 <= E[m] /\ E[m] <= last
  /\ \A m, k \in DOMAIN E : m < k => E[m] <= Begin(E, k)
  /\ \A p \in 1 .. last : \E m \in DOMAIN E : Begin(E, m) < p /\ p <= E[m]

(* Message m in T, of S[m] tokens, one of which may be empty.              *)
MessageIn(T, S, E, m) ==
  LET b == Begin(E, m) IN
  /\ E[m] \in {b + 2 * S[m] - 1, b + 2 * S[m]}
  /\ T[b + 1] = Text(m, 1) /\ T[b + 3] = Text(m, 2) /\ T[E[m]] = Delim
  /\ E[m] = b + 2 * S[m] => \A j \in 1 .. S[m] : T[b + 2 * j - 1] = Text(m, j)
  /\ E[m] # b + 2 * S[m] => \E t \in 3 .. S[m] : T[b + 2 * t - 1] = Delim

(* T is the messages of S[1], S[2], ... tokens that end at E.              *)
Stream(T, S, E) ==
  /\ T \in Seq(Char)
  /\ S \in Seq(Sizes) /\ Len(S) = Len(E) /\ Len(S) <= MaxMessages
  /\ InARow(E, Len(T))
  /\ \A m \in DOMAIN E : MessageIn(T, S, E, m)
  /\ \A p \in DOMAIN T : T[p].tok = 1 => \E m \in DOMAIN E : p = Begin(E, m) + 1
  /\ Apart(T)

(* text is what follows position a in T.                                   *)
Piece(T, a, text) ==
  /\ a \in Nat
  /\ text \in Seq(Char)
  /\ a + Len(text) <= Len(T)
  /\ \A i \in 1 .. Len(text) : text[i] = T[a + i]

(* What HandleMessage is to make of what lies between lo and hi, in a text *)
(* that begins behind a: it handles the messages that lie there, whole and *)
(* in order, and its resume point is the beginning of one that goes on.    *)
Handles(E, a, lo, hi, r) ==
  /\ r \in [handled : Seq([msg : Nat, whole : BOOLEAN]), resume : Nat]
  /\ \A i \in DOMAIN r.handled :
       LET m == r.handled[i].msg IN
       /\ m \in DOMAIN E /\ r.handled[i].whole
       /\ lo <= Begin(E, m) /\ E[m] <= hi
  /\ \A i, j \in DOMAIN r.handled : i < j => r.handled[i].msg < r.handled[j].msg
  /\ \A m \in DOMAIN E : lo <= Begin(E, m) /\ E[m] <= hi =>
       \E i \in DOMAIN r.handled : r.handled[i].msg = m
  /\ r.resume # 0 => \E m \in DOMAIN E : /\ Begin(E, m) = a + r.resume
                                         /\ lo <= Begin(E, m) /\ Begin(E, m) < hi
                                         /\ hi < E[m]
  /\ \A m \in DOMAIN E : lo <= Begin(E, m) /\ Begin(E, m) + 4 <= hi /\ hi < E[m] =>
       r.resume = Begin(E, m) - a

(* Positions are numbers, and a message that does not begin before another *)
(* one begins behind its end.                                              *)
LEMMA Positions ==
  ASSUME NEW E, NEW last \in Nat, InARow(E, last), NEW m \in DOMAIN E
  PROVE  /\ Begin(E, m) \in Nat /\ E[m] \in Nat /\ m \in Nat \ {0}
         /\ \A k \in DOMAIN E : Begin(E, m) <= Begin(E, k) =>
              k = m \/ (m < k /\ E[m] <= Begin(E, k))
<1>1. DOMAIN E = 1 .. Len(E) /\ Len(E) \in Nat
  BY DEF InARow
<1>2. \A k \in DOMAIN E : Begin(E, k) \in Nat /\ E[k] \in Nat
  <2> SUFFICES ASSUME NEW k \in DOMAIN E
               PROVE  Begin(E, k) \in Nat /\ E[k] \in Nat
    OBVIOUS
  <2>1. E \in [1 .. Len(E) -> Nat]
    BY DEF InARow
  <2>2. k \in 1 .. Len(E) /\ (k # 1 => k - 1 \in 1 .. Len(E))
    BY <1>1
  <2>3. E[k] \in Nat /\ (k # 1 => E[k - 1] \in Nat)
    BY <2>1, <2>2
  <2> QED
    BY <2>3 DEF Begin
<1>3. ASSUME NEW k \in DOMAIN E, Begin(E, m) <= Begin(E, k)
      PROVE  k = m \/ (m < k /\ E[m] <= Begin(E, k))
  <2>1. /\ m < k => E[m] <= Begin(E, k)
        /\ k < m => E[k] <= Begin(E, m)
        /\ Begin(E, k) + 4 <= E[k]
    BY DEF InARow
  <2>2. k \in Nat /\ m \in Nat
    BY <1>1
  <2> QED
    BY <2>1, <2>2, <1>2, <1>3
<1> QED
  BY <1>1, <1>2, <1>3

(* A message that lies in a piece that alternates has all its tokens: its  *)
(* empty one would be a '#' behind another.                                *)
LEMMA WholeIn ==
  ASSUME NEW T, NEW S, NEW E, Stream(T, S, E),
         NEW a, NEW text, Piece(T, a, text), Alternating(text),
         NEW n \in Nat, Len(text) \in {2 * n, 2 * n + 1},
         NEW m \in DOMAIN E, a <= Begin(E, m), Begin(E, m) < a + Len(text)
  PROVE  /\ E[m] <= a + Len(text) => E[m] <= a + 2 * n
         /\ E[m] <= a + 2 * n \/ Begin(E, m) + 2 * S[m] <= a + 2 * n =>
              E[m] = Begin(E, m) + 2 * S[m]
<1>0. /\ Begin(E, m) \in Nat /\ E[m] \in Nat /\ S[m] \in Nat
      /\ Begin(E, m) + 4 <= E[m] /\ m \in Nat \ {0}
  <2>1. Len(T) \in Nat /\ InARow(E, Len(T)) /\ DOMAIN S = DOMAIN E
    BY DEF Stream, InARow
  <2>2. S[m] \in Sizes
    BY <2>1 DEF Stream
  <2>3. Begin(E, m) + 4 <= E[m]
    BY <2>1 DEF InARow
  <2> QED
    BY <2>1, <2>2, <2>3, Positions, FramingAssumption
<1>1. PICK b \in Nat, e \in Nat, s \in Nat, l \in Nat :
        b = Begin(E, m) /\ e = E[m] /\ s = S[m] /\ l = Len(text)
  BY <1>0 DEF Piece
<1>2. /\ a \in Nat /\ a <= b /\ b < a + l /\ b + 4 <= e
      /\ l \in {2 * n, 2 * n + 1} /\ DOMAIN text = 1 .. l
  BY <1>0, <1>1 DEF Piece
<1>3. /\ e \in {b + 2 * s - 1, b + 2 * s}
      /\ T[b + 1] # Delim /\ T[e] = Delim
      /\ e # b + 2 * s => \E t \in 3 .. s : T[b + 2 * t - 1] = Delim
  <2>1. MessageIn(T, S, E, m)
    BY DEF Stream
  <2>2. Text(m, 1) # Delim
    BY <1>0 DEF Text, Delim
  <2> QED
    BY <2>1, <2>2, <1>1 DEF MessageIn
<1>4. ASSUME NEW p \in a + 1 .. a + l
      PROVE  \A k \in Nat : /\ p - a = 2 * k + 1 => T[p] # Delim
                            /\ p - a = 2 * k + 2 => T[p] = Delim
  <2>1. p - a \in 1 .. l /\ a + (p - a) = p
    BY <1>2
  <2>2. text[p - a] = T[p]
    BY <2>1, <1>1 DEF Piece
  <2> QED
    BY <2>1, <2>2, <1>2 DEF Alternating
<1>5. PICK k \in Nat : b = a + 2 * k
  <2>1. PICK k \in Nat : b - a = 2 * k \/ b - a = 2 * k + 1
    <3>1. b - a \in Nat
      BY <1>2
    <3> QED
      BY <3>1, Halves
  <2>2. PICK p \in a + 1 .. a + l : p = b + 1
    BY <1>2
  <2>3. p - a # 2 * k + 2
    BY <2>2, <1>3, <1>4
  <2> QED
    BY <2>1, <2>2, <2>3, <1>2
<1>6. ASSUME e = a + 2 * n + 1, l = 2 * n + 1
      PROVE  FALSE
  <2>1. e \in a + 1 .. a + l /\ e - a = 2 * n + 1
    BY <1>2, <1>6
  <2> QED
    BY <2>1, <1>3, <1>4
<1>7. ASSUME e <= a + 2 * n \/ b + 2 * s <= a + 2 * n, e # b + 2 * s
      PROVE  FALSE
  <2>1. e = b + 2 * s - 1
    BY <1>3, <1>7
  <2>2. PICK t \in 3 .. s : T[b + 2 * t - 1] = Delim
    BY <1>3, <1>7
  <2>3. PICK p \in a + 1 .. a + l : p = b + 2 * t - 1
    BY <2>1, <1>7, <1>2
  <2>4. PICK j \in Nat : p - a = 2 * j + 1
    <3>1. k + t - 1 \in Nat /\ p - a = 2 * (k + t - 1) + 1
      BY <2>3, <1>5, <1>2
    <3> QED
      BY <3>1
  <2> QED
    BY <2>2, <2>3, <2>4, <1>4
<1>8. e <= a + l => e <= a + 2 * n
  BY <1>6, <1>2
<1> QED
  BY <1>1, <1>7, <1>8

(* A message handled before the rest.                                      *)
LEMMA HandlesFirst ==
  ASSUME NEW E, NEW last \in Nat, InARow(E, last),
         NEW a, NEW lo, NEW hi \in Nat, NEW r, NEW m \in DOMAIN E,
         lo = Begin(E, m), E[m] <= hi, Handles(E, a, E[m], hi, r),
         NEW h, h = [msg |-> m, whole |-> TRUE]
  PROVE  Handles(E, a, lo, hi, [r EXCEPT !.handled = <<h>> \o @])
<1> DEFINE H == <<h>> \o r.handled
           q == [r EXCEPT !.handled = <<h>> \o @]
           R == [msg : Nat, whole : BOOLEAN]
<1>0. /\ lo \in Nat /\ E[m] \in Nat /\ m \in Nat /\ lo + 4 <= E[m]
      /\ \A k \in DOMAIN E : Begin(E, k) \in Nat /\ E[k] \in Nat
      /\ \A k \in DOMAIN E : lo <= Begin(E, k) =>
           k = m \/ (m < k /\ E[m] <= Begin(E, k))
  BY Positions DEF InARow
<1>1. /\ r.handled \in Seq(R) /\ r.resume \in Nat
      /\ Len(r.handled) \in Nat /\ DOMAIN r.handled = 1 .. Len(r.handled)
  BY DEF Handles
<1>2. h \in R /\ <<h>> \in Seq(R) /\ Len(<<h>>) = 1
  BY <1>0
<1>3. /\ H \in Seq(R) /\ Len(H) = Len(r.handled) + 1
      /\ DOMAIN H = 1 .. Len(r.handled) + 1
      /\ H[1] = h /\ \A i \in 1 .. Len(r.handled) : H[i + 1] = r.handled[i]
  BY <1>1, <1>2
<1>4. q = [handled |-> H, resume |-> r.resume]
  <2>1. r \in [handled : Seq(R), resume : Nat]
    BY DEF Handles
  <2>2. r = [handled |-> r.handled, resume |-> r.resume]
    BY <2>1
  <2> HIDE DEF H, R
  <2>3. \A x, y, z : [[handled |-> x, resume |-> y] EXCEPT !.handled = z]
                       = [handled |-> z, resume |-> y]
    OBVIOUS
  <2>4. [[handled |-> r.handled, resume |-> r.resume] EXCEPT !.handled = H]
          = [handled |-> H, resume |-> r.resume]
    BY <2>3
  <2>5. q = [r EXCEPT !.handled = H]
    BY DEF H
  <2> HIDE DEF q
  <2> QED
    BY <2>2, <2>4, <2>5
<1> HIDE DEF H, q
<1>5. \A i \in DOMAIN H : i # 1 =>
        i - 1 \in DOMAIN r.handled /\ H[i] = r.handled[i - 1]
  <2> SUFFICES ASSUME NEW i \in DOMAIN H, i # 1
               PROVE  i - 1 \in DOMAIN r.handled /\ H[i] = r.handled[i - 1]
    OBVIOUS
  <2>1. i \in 1 .. Len(r.handled) + 1 /\ Len(r.handled) \in Nat
    BY <1>3, <1>1
  <2>2. i - 1 \in 1 .. Len(r.handled) /\ i - 1 + 1 = i
    BY <2>1
  <2> QED
    BY <2>2, <1>1, <1>3
<1>6. q \in [handled : Seq(R), resume : Nat] /\ q.handled = H /\ q.resume = r.resume
  BY <1>1, <1>3, <1>4
<1>7. ASSUME NEW i \in DOMAIN H
      PROVE  /\ H[i].msg \in DOMAIN E /\ H[i].whole
             /\ lo <= Begin(E, H[i].msg) /\ E[H[i].msg] <= hi
             /\ i # 1 => m < H[i].msg
  <2>1. CASE i = 1
    BY <2>1, <1>3, <1>0
  <2>2. CASE i # 1
    <3>1. PICK k \in DOMAIN E : /\ k = H[i].msg /\ H[i].whole
                                /\ E[m] <= Begin(E, k) /\ E[k] <= hi
      BY <2>2, <1>5 DEF Handles
    <3>2. lo <= Begin(E, k) /\ k # m
      BY <3>1, <1>0
    <3> QED
      BY <3>1, <3>2, <1>0
  <2> QED
    BY <2>1, <2>2
<1>8. ASSUME NEW i \in DOMAIN H, NEW j \in DOMAIN H, i < j
      PROVE  H[i].msg < H[j].msg
  <2>1. i \in Nat /\ j \in Nat /\ i >= 1 /\ j # 1
    BY <1>3, <1>8
  <2>2. CASE i = 1
    BY <2>1, <2>2, <1>3, <1>7
  <2>3. CASE i # 1
    <3>1. /\ i - 1 \in DOMAIN r.handled /\ j - 1 \in DOMAIN r.handled
          /\ i - 1 < j - 1
          /\ H[i] = r.handled[i - 1] /\ H[j] = r.handled[j - 1]
      BY <2>1, <2>3, <1>5, <1>8
    <3> QED
      BY <3>1 DEF Handles
  <2> QED
    BY <2>2, <2>3
<1>9. ASSUME NEW k \in DOMAIN E, lo <= Begin(E, k), E[k] <= hi
      PROVE  \E i \in DOMAIN H : H[i].msg = k
  <2>1. CASE k = m
    <3>1. 1 \in DOMAIN H
      BY <1>1, <1>3
    <3>2. H[1].msg = k
      BY <2>1, <1>3
    <3> QED
      BY <3>1, <3>2
  <2>2. CASE k # m
    <3>1. E[m] <= Begin(E, k)
      BY <2>2, <1>9, <1>0
    <3>2. PICK i \in DOMAIN r.handled : r.handled[i].msg = k
      <4>1. \A j \in DOMAIN E : E[m] <= Begin(E, j) /\ E[j] <= hi =>
              \E i \in DOMAIN r.handled : r.handled[i].msg = j
        BY DEF Handles
      <4> QED
        BY <4>1, <3>1, <1>9
    <3>3. i \in 1 .. Len(r.handled) /\ i + 1 \in DOMAIN H
      <4>1. PICK l \in Nat : l = Len(r.handled)
        BY <1>1
      <4>2. i \in 1 .. l /\ DOMAIN H = 1 .. l + 1
        BY <4>1, <1>1, <1>3
      <4>3. i + 1 \in 1 .. l + 1
        BY <4>1, <4>2
      <4> QED
        BY <4>1, <4>2, <4>3
    <3>4. H[i + 1].msg = k
      BY <3>2, <3>3, <1>3
    <3> QED
      BY <3>3, <3>4
  <2> QED
    BY <2>1, <2>2
<1>10. ASSUME r.resume # 0
       PROVE  \E k \in DOMAIN E : /\ Begin(E, k) = a + r.resume
                                  /\ lo <= Begin(E, k) /\ Begin(E, k) < hi
                                  /\ hi < E[k]
  <2>1. PICK k \in DOMAIN E : /\ Begin(E, k) = a + r.resume
                              /\ E[m] <= Begin(E, k) /\ Begin(E, k) < hi
                              /\ hi < E[k]
    BY <1>10 DEF Handles
  <2>2. lo <= Begin(E, k)
    BY <2>1, <1>0
  <2> QED
    BY <2>1, <2>2
<1>11. ASSUME NEW k \in DOMAIN E, lo <= Begin(E, k), Begin(E, k) + 4 <= hi, hi < E[k]
       PROVE  r.resume = Begin(E, k) - a
  <2>1. k # m
    BY <1>0, <1>11
  <2>2. E[m] <= Begin(E, k)
    BY <2>1, <1>11, <1>0
  <2> QED
    BY <2>2, <1>11 DEF Handles
<1> HIDE DEF R
<1>12. Handles(E, a, lo, hi, q)
  BY <1>6, <1>7, <1>8, <1>9, <1>10, <1>11 DEF Handles, R
<1> QED
  BY <1>12 DEF q

(* The loop stops at hi, or at a message that it does not handle.          *)
LEMMA HandlesNothing ==
  ASSUME NEW E, NEW last \in Nat, InARow(E, last),
         NEW a \in Nat, NEW lo \in Nat, NEW hi \in Nat, NEW resume \in Nat,
         \/ hi <= lo + 2 /\ resume = 0
         \/ \E m \in DOMAIN E : /\ lo = Begin(E, m) /\ hi < E[m] /\ lo < hi
                                /\ a + resume = lo
  PROVE  Handles(E, a, lo, hi, [handled |-> <<>>, resume |-> resume])
<1> DEFINE r == [handled |-> <<>>, resume |-> resume]
           R == [msg : Nat, whole : BOOLEAN]
<1>0. /\ \A k \in DOMAIN E : Begin(E, k) \in Nat /\ E[k] \in Nat
      /\ \A k \in DOMAIN E : Begin(E, k) + 4 <= E[k]
      /\ \A m, k \in DOMAIN E : Begin(E, m) <= Begin(E, k) =>
           k = m \/ E[m] <= Begin(E, k)
  BY Positions DEF InARow
<1>1. <<>> \in Seq(R) /\ DOMAIN <<>> = {}
  OBVIOUS
<1>2. r \in [handled : Seq(R), resume : Nat] /\ r.handled = <<>> /\ r.resume = resume
  <2> HIDE DEF R
  <2> QED
    BY <1>1
<1> HIDE DEF r
<1>3. CASE hi <= lo + 2 /\ resume = 0
  <2>1. \A k \in DOMAIN E : lo <= Begin(E, k) =>
          ~(E[k] <= hi) /\ ~(Begin(E, k) + 4 <= hi)
    BY <1>0, <1>3
  <2>2. Handles(E, a, lo, hi, r)
    BY <1>1, <1>2, <1>3, <2>1 DEF Handles
  <2> QED
    BY <2>2 DEF r
<1>4. CASE \E m \in DOMAIN E : /\ lo = Begin(E, m) /\ hi < E[m] /\ lo < hi
                               /\ a + resume = lo
  <2>1. PICK m \in DOMAIN E : /\ lo = Begin(E, m) /\ hi < E[m] /\ lo < hi
                              /\ a + resume = lo
    BY <1>4
  <2>2. \A k \in DOMAIN E : lo <= Begin(E, k) =>
          k = m \/ (~(E[k] <= hi) /\ ~(Begin(E, k) + 4 <= hi))
    BY <1>0, <2>1
  <2>3. \A k \in DOMAIN E : lo <= Begin(E, k) => ~(E[k] <= hi)
    BY <2>1, <2>2, <1>0
  <2>4. resume = Begin(E, m) - a /\ Begin(E, m) = a + resume /\ lo <= Begin(E, m)
    BY <2>1
  <2>5. Handles(E, a, lo, hi, r)
    BY <1>1, <1>2, <2>1, <2>2, <2>3, <2>4 DEF Handles
  <2> QED
    BY <2>5 DEF r
<1> QED
  BY <1>3, <1>4

(* Token k of a piece that alternates.                                     *)
LEMMA PieceTokens ==
  ASSUME NEW T, NEW S, NEW E, Stream(T, S, E),
         NEW a, NEW text, Piece(T, a, text), Alternating(text),
         NEW n \in Nat, Len(text) \in {2 * n, 2 * n + 1}
  PROVE  /\ Len(Split(text)) = n
         /\ \A k \in 1 .. n :
              /\ Split(text)[k].body = <<T[a + 2 * k - 1]>>
              /\ Split(text)[k].start = 2 * k - 2
              /\ T[a + 2 * k] = Delim /\ T[a + 2 * k - 1] # Delim
              /\ a + 2 * k \in DOMAIN T /\ a + 2 * k - 1 \in DOMAIN T
<1>1. Split(text) = [k \in 1 .. n |-> [body |-> <<text[2 * k - 1]>>,
                                       start |-> 2 * k - 2]]
  BY SplitAlternating DEF Piece
<1>2. Len(Split(text)) = n
  <2>1. \A X, f : f = [k \in 1 .. n |-> X[k]] => Len(f) = n
    OBVIOUS
  <2> DEFINE X == [k \in 1 .. n |-> [body |-> <<text[2 * k - 1]>>, start |-> 2 * k - 2]]
  <2>2. Split(text) = [k \in 1 .. n |-> X[k]]
    BY <1>1
  <2> HIDE DEF X
  <2> QED
    BY <2>1, <2>2
<1>3. ASSUME NEW k \in 1 .. n
      PROVE  /\ Split(text)[k].body = <<T[a + 2 * k - 1]>>
             /\ Split(text)[k].start = 2 * k - 2
             /\ T[a + 2 * k] = Delim /\ T[a + 2 * k - 1] # Delim
             /\ a + 2 * k \in DOMAIN T /\ a + 2 * k - 1 \in DOMAIN T
  <2>1. PICK l \in Nat, t \in Nat :
          /\ l = Len(text) /\ DOMAIN text = 1 .. l
          /\ t = Len(T) /\ DOMAIN T = 1 .. t
          /\ a + l <= t /\ a \in Nat /\ l \in {2 * n, 2 * n + 1}
    BY DEF Piece, Stream
  <2>2. PICK i \in 1 .. l, j \in 1 .. l, h \in Nat :
          /\ i = 2 * k - 1 /\ j = 2 * k /\ i = 2 * h + 1 /\ j = 2 * h + 2
          /\ a + i = a + 2 * k - 1 /\ a + j = a + 2 * k
    <3>1. k - 1 \in Nat /\ 2 * k - 1 \in 1 .. l /\ 2 * k \in 1 .. l
      BY <2>1
    <3>2. 2 * k - 1 = 2 * (k - 1) + 1 /\ 2 * k = 2 * (k - 1) + 2
          /\ a + (2 * k - 1) = a + 2 * k - 1
      BY <2>1
    <3> QED
      BY <3>1, <3>2
  <2>3. text[i] = T[a + i] /\ text[j] = T[a + j]
    BY <2>1 DEF Piece
  <2>4. text[i] # Delim /\ text[j] = Delim
    BY <2>1, <2>2 DEF Alternating
  <2>5. a + i \in DOMAIN T /\ a + j \in DOMAIN T
    BY <2>1
  <2> QED
    BY <1>1, <2>2, <2>3, <2>4, <2>5
<1> QED
  BY <1>2, <1>3

(* Beyond a token that is no signature there are the same messages.        *)
LEMMA HandlesLater ==
  ASSUME NEW E, NEW last \in Nat, InARow(E, last),
         NEW a \in Nat, NEW lo \in Nat, NEW hi \in Nat, NEW r,
         \A m \in DOMAIN E : Begin(E, m) < hi => Begin(E, m) # lo /\ Begin(E, m) # lo + 1,
         Handles(E, a, lo + 2, hi, r)
  PROVE  Handles(E, a, lo, hi, r)
<1>1. /\ \A k \in DOMAIN E : Begin(E, k) \in Nat /\ E[k] \in Nat
      /\ \A k \in DOMAIN E : Begin(E, k) + 4 <= E[k]
  BY Positions DEF InARow
<1>2. ASSUME NEW m \in DOMAIN E
      PROVE  /\ lo <= Begin(E, m) /\ Begin(E, m) < hi => lo + 2 <= Begin(E, m)
             /\ lo + 2 <= Begin(E, m) => lo <= Begin(E, m)
             /\ E[m] <= hi \/ Begin(E, m) + 4 <= hi => Begin(E, m) < hi
  BY <1>1
<1>3. ASSUME NEW i \in DOMAIN r.handled
      PROVE  /\ r.handled[i].msg \in DOMAIN E /\ r.handled[i].whole
             /\ lo <= Begin(E, r.handled[i].msg) /\ E[r.handled[i].msg] <= hi
  <2>1. PICK m \in DOMAIN E : /\ m = r.handled[i].msg /\ r.handled[i].whole
                              /\ lo + 2 <= Begin(E, m) /\ E[m] <= hi
    BY DEF Handles
  <2> QED
    BY <2>1, <1>2
<1>4. ASSUME NEW m \in DOMAIN E, lo <= Begin(E, m), E[m] <= hi
      PROVE  \E i \in DOMAIN r.handled : r.handled[i].msg = m
  <2>1. lo + 2 <= Begin(E, m)
    BY <1>2, <1>4
  <2> QED
    BY <2>1, <1>4 DEF Handles
<1>5. ASSUME r.resume # 0
      PROVE  \E m \in DOMAIN E : /\ Begin(E, m) = a + r.resume
                                 /\ lo <= Begin(E, m) /\ Begin(E, m) < hi
                                 /\ hi < E[m]
  <2>1. PICK m \in DOMAIN E : /\ Begin(E, m) = a + r.resume
                              /\ lo + 2 <= Begin(E, m) /\ Begin(E, m) < hi
                              /\ hi < E[m]
    BY <1>5 DEF Handles
  <2> QED
    BY <2>1, <1>2
<1>6. ASSUME NEW m \in DOMAIN E, lo <= Begin(E, m), Begin(E, m) + 4 <= hi, hi < E[m]
      PROVE  r.resume = Begin(E, m) - a
  <2>1. lo + 2 <= Begin(E, m)
    BY <1>2, <1>6
  <2> QED
    BY <2>1, <1>6 DEF Handles
<1> QED
  BY <1>3, <1>4, <1>5, <1>6 DEF Handles

(* A signature is the beginning of a message, and the token behind it      *)
(* tells how many the message has.                                         *)
LEMMA PieceSignature ==
  ASSUME NEW T, NEW S, NEW E, Stream(T, S, E),
         NEW a, NEW text, Piece(T, a, text), Alternating(text),
         NEW n \in Nat, Len(text) \in {2 * n, 2 * n + 1},
         NEW k \in 1 .. n, IsSignature(Split(text)[k].body)
  PROVE  \E m \in DOMAIN E :
           /\ Begin(E, m) = a + 2 * k - 2
           /\ Split(text)[k].body[1] = Text(m, 1)
           /\ k < n => LengthAt(Split(text), S, k) = S[m]
           /\ S[m] \in Nat \ {0, 1}
<1>0. /\ Len(Split(text)) = n /\ a \in Nat
      /\ \A j \in 1 .. n :
           /\ Split(text)[j].body = <<T[a + 2 * j - 1]>>
           /\ a + 2 * j - 1 \in DOMAIN T
  <2>1. a \in Nat
    BY DEF Piece
  <2>2. /\ Len(Split(text)) = n
        /\ \A j \in 1 .. n :
             /\ Split(text)[j].body = <<T[a + 2 * j - 1]>>
             /\ Split(text)[j].start = 2 * j - 2
             /\ T[a + 2 * j] = Delim /\ T[a + 2 * j - 1] # Delim
             /\ a + 2 * j \in DOMAIN T /\ a + 2 * j - 1 \in DOMAIN T
    BY PieceTokens
  <2> QED
    BY <2>1, <2>2
<1>1. PICK p \in DOMAIN T : /\ p = a + 2 * k - 1 /\ Split(text)[k].body = <<T[p]>>
                            /\ p - 1 = a + 2 * k - 2
  BY <1>0
<1>2. T[p].tok = 1
  BY <1>1 DEF IsSignature
<1>3. PICK m \in DOMAIN E : p = Begin(E, m) + 1
  BY <1>2 DEF Stream
<1>4. MessageIn(T, S, E, m) /\ InARow(E, Len(T)) /\ Len(T) \in Nat
  BY DEF Stream
<1>5. Begin(E, m) \in Nat /\ Begin(E, m) = p - 1
  BY <1>3, <1>4, Positions
<1>6. T[p] = Text(m, 1)
  BY <1>3, <1>4 DEF MessageIn
<1>7. ASSUME k < n
      PROVE  LengthAt(Split(text), S, k) = S[m]
  <2>1. k + 1 \in 1 .. n /\ a + 2 * (k + 1) - 1 = Begin(E, m) + 3
    BY <1>0, <1>1, <1>5, <1>7
  <2>2. Split(text)[k + 1].body = <<T[Begin(E, m) + 3]>>
    BY <1>0, <2>1
  <2>3. T[Begin(E, m) + 3] = Text(m, 2)
    BY <1>4 DEF MessageIn
  <2> QED
    BY <2>2, <2>3 DEF LengthAt, Text
<1>8. S[m] \in Nat \ {0, 1}
  <2>1. DOMAIN S = DOMAIN E
    BY DEF Stream, InARow
  <2>2. S[m] \in Sizes
    BY <2>1 DEF Stream
  <2> QED
    BY <2>2, FramingAssumption
<1> QED
  BY <1>1, <1>5, <1>6, <1>7, <1>8

(* What HandleMessage makes of a piece.                                    *)
LEMMA PieceHandled ==
  ASSUME NEW T, NEW S, NEW E, Stream(T, S, E),
         NEW a, NEW text, Piece(T, a, text), Alternating(text),
         NEW n \in Nat, Len(text) \in {2 * n, 2 * n + 1}
  PROVE  Handles(E, a, a, a + 2 * n, HandleMessage(Split(text), S))
<1> DEFINE tokens == Split(text)
           hi == a + 2 * n
           At(k) == a + 2 * k - 2
<1>1. /\ Len(tokens) = n /\ a \in Nat /\ hi \in Nat
      /\ InARow(E, Len(T)) /\ Len(T) \in Nat
  <2>1. Len(tokens) = n
    BY PieceTokens
  <2>2. a \in Nat /\ InARow(E, Len(T)) /\ Len(T) \in Nat
    BY DEF Piece, Stream
  <2> QED
    BY <2>1, <2>2
<1>2. ASSUME NEW k \in 1 .. n
      PROVE  /\ tokens[k].body = <<T[a + 2 * k - 1]>>
             /\ tokens[k].start = 2 * k - 2
             /\ T[a + 2 * k] = Delim /\ T[a + 2 * k - 1] # Delim
             /\ a + 2 * k \in DOMAIN T /\ a + 2 * k - 1 \in DOMAIN T
  BY PieceTokens
<1>3. ASSUME NEW k \in 1 .. n, IsSignature(tokens[k].body)
      PROVE  \E m \in DOMAIN E :
               /\ Begin(E, m) = At(k)
               /\ tokens[k].body[1] = Text(m, 1)
               /\ k < n => LengthAt(tokens, S, k) = S[m]
               /\ S[m] \in Nat \ {0, 1}
  BY <1>3, PieceSignature
<1> HIDE DEF tokens, hi
<1>4. Advances(tokens, S)
  <2> SUFFICES ASSUME NEW k \in 1 .. n - 1, IsSignature(tokens[k].body)
               PROVE  LengthAt(tokens, S, k) \in Nat \ {0}
    BY <1>1 DEF Advances
  <2>1. k \in 1 .. n /\ k < n
    OBVIOUS
  <2> QED
    BY <2>1, <1>3
<1>5. PICK g : /\ HandleMessage(tokens, S) = g[1]
               /\ \A k \in 1 .. n + 1 : g[k] = FromAt(tokens, S, g, k)
  BY <1>1, <1>4, HandleMessageLoops
<1> DEFINE sig(k) == IsSignature(tokens[k].body)
           nothing(i) == [handled |-> <<>>, resume |-> i]
<1>5a. ASSUME NEW k \in 1 .. n + 1
       PROVE  /\ k = n + 1 \/ (k = n /\ sig(k)) => g[k] = nothing(0)
              /\ k # n + 1 /\ ~sig(k) => g[k] = g[k + 1]
              /\ k \in 1 .. n - 1 /\ sig(k) =>
                   g[k] = IF k - 1 + LengthAt(tokens, S, k) > n
                          THEN nothing(tokens[k].start)
                          ELSE [g[k + LengthAt(tokens, S, k)] EXCEPT
                                 !.handled = <<HandledAt(tokens, S, k)>> \o @]
  <2>1. g[k] = FromAt(tokens, S, g, k)
    BY <1>5
  <2>2. k > n <=> k = n + 1
    OBVIOUS
  <2>3. k \in 1 .. n - 1 => k # n /\ k # n + 1
    OBVIOUS
  <2>4. FromAt(tokens, S, g, k) =
          IF k = n + 1
          THEN nothing(0)
          ELSE IF ~sig(k)
          THEN g[k + 1]
          ELSE IF k = n
          THEN nothing(0)
          ELSE IF k - 1 + LengthAt(tokens, S, k) > n
          THEN nothing(tokens[k].start)
          ELSE [g[k + LengthAt(tokens, S, k)] EXCEPT
                 !.handled = <<HandledAt(tokens, S, k)>> \o @]
    BY <1>1, <2>2 DEF FromAt
  <2> HIDE DEF sig, nothing
  <2> QED
    BY <2>1, <2>3, <2>4
<1>6. ASSUME NEW k \in 1 .. n + 1,
             \A j \in k + 1 .. n + 1 : Handles(E, a, At(j), hi, g[j])
      PROVE  Handles(E, a, At(k), hi, g[k])
  <2>1. /\ At(k) \in Nat /\ At(k) = a + (2 * k - 2) /\ 2 * k - 2 \in Nat
        /\ At(k + 1) = At(k) + 2
    BY <1>1
  <2>2. CASE k = n + 1 \/ (k = n /\ IsSignature(tokens[k].body))
    <3>1. g[k] = [handled |-> <<>>, resume |-> 0]
      BY <2>2, <1>5a
    <3>2. hi <= At(k) + 2
      BY <2>2, <1>1 DEF hi
    <3> HIDE DEF At
    <3> QED
      BY <3>1, <3>2, <2>1, <1>1, HandlesNothing
  <2>3. CASE k # n + 1 /\ ~IsSignature(tokens[k].body)
    <3>0. k \in 1 .. n /\ k + 1 \in k + 1 .. n + 1
      BY <2>3
    <3>1. k \in 1 .. n /\ g[k] = g[k + 1] /\ k + 1 \in k + 1 .. n + 1
      BY <3>0, <2>3, <1>5a
    <3>2. Handles(E, a, At(k) + 2, hi, g[k])
      <4>1. Handles(E, a, At(k + 1), hi, g[k + 1])
        BY <3>1, <1>6
      <4> HIDE DEF At
      <4> QED
        BY <4>1, <3>1, <2>1
    <3>3. ASSUME NEW m \in DOMAIN E, Begin(E, m) < hi
          PROVE  Begin(E, m) # At(k) /\ Begin(E, m) # At(k) + 1
      <4>1. T[Begin(E, m) + 1].tok = 1
        <5>1. MessageIn(T, S, E, m)
          BY DEF Stream
        <5> QED
          BY <5>1 DEF MessageIn, Text
      <4>2. T[a + 2 * k].tok # 1
        BY <3>1, <1>2 DEF Delim
      <4>3. T[a + 2 * k - 1].tok # 1
        <5> DEFINE body == tokens[k].body
        <5>1. body = <<T[a + 2 * k - 1]>>
          BY <3>1, <1>2
        <5>2. Len(body) = 1 /\ body[1] = T[a + 2 * k - 1]
          BY <5>1
        <5> HIDE DEF body
        <5>3. ~IsSignature(body)
          BY <2>3 DEF body
        <5> QED
          BY <5>2, <5>3 DEF IsSignature
      <4>4. Begin(E, m) + 1 # a + 2 * k /\ Begin(E, m) + 1 # a + 2 * k - 1
        BY <4>1, <4>2, <4>3
      <4>5. Begin(E, m) \in Nat
        BY <1>1, Positions
      <4> QED
        BY <4>4, <4>5, <2>1, <1>1
    <3> HIDE DEF At
    <3> QED
      BY <3>2, <3>3, <2>1, <1>1, HandlesLater
  <2>4. CASE k \in 1 .. n - 1 /\ IsSignature(tokens[k].body)
    <3>1. k \in 1 .. n /\ k < n
      BY <2>4
    <3>2. PICK m \in DOMAIN E :
            /\ Begin(E, m) = At(k)
            /\ tokens[k].body[1] = Text(m, 1)
            /\ LengthAt(tokens, S, k) = S[m]
            /\ S[m] \in Nat \ {0, 1}
      BY <1>3, <2>4, <3>1
    <3>3. PICK s \in Nat \ {0, 1}, e \in Nat : s = S[m] /\ e = E[m]
      BY <3>2, <1>1, Positions
    <3>4. /\ a <= Begin(E, m) /\ Begin(E, m) < a + Len(text) /\ At(k) < hi
      <4>1. PICK b \in Nat, l \in Nat, c \in Nat :
              b = a + (2 * k - 2) /\ l = Len(text) /\ c = a
        <5>1. a + (2 * k - 2) \in Nat /\ Len(text) \in Nat /\ a \in Nat
          BY <2>1, <1>1
        <5> HIDE DEF At
        <5> QED
          BY <5>1
      <4>2. c <= b /\ b < c + 2 * n /\ b < c + l
        BY <4>1, <3>1
      <4>3. Begin(E, m) = b /\ At(k) = b
        BY <4>1, <3>2, <2>1
      <4> HIDE DEF At
      <4> QED
        BY <4>1, <4>2, <4>3 DEF hi
    <3>5. /\ e <= hi \/ At(k) + 2 * s <= hi => e = At(k) + 2 * s
          /\ e <= a + Len(text) => e <= hi
      <4>1. /\ E[m] <= a + 2 * n \/ Begin(E, m) + 2 * S[m] <= a + 2 * n =>
                 E[m] = Begin(E, m) + 2 * S[m]
            /\ E[m] <= a + Len(text) => E[m] <= a + 2 * n
        BY <3>4, WholeIn
      <4> HIDE DEF At
      <4> QED
        BY <4>1, <3>2, <3>3 DEF hi
    <3>6. CASE k - 1 + s > n
      <4>1. g[k] = [handled |-> <<>>, resume |-> 2 * k - 2]
        <5>1. k - 1 + LengthAt(tokens, S, k) > n
          BY <3>2, <3>3, <3>6
        <5>2. tokens[k].start = 2 * k - 2
          BY <3>1, <1>2
        <5>3. g[k] = nothing(tokens[k].start)
          BY <5>1, <2>4, <1>5a
        <5> QED
          BY <5>2, <5>3
      <4>2. ~(At(k) + 2 * s <= hi)
        BY <3>6, <2>1, <1>1 DEF hi
      <4>3. hi < e
        BY <4>2, <3>5, <1>1
      <4>4. a + (2 * k - 2) = At(k)
        BY <2>1
      <4> HIDE DEF At
      <4> QED
        BY <4>1, <4>3, <4>4, <3>2, <3>3, <3>4, <2>1, <1>1, HandlesNothing
    <3>7. CASE ~(k - 1 + s > n)
      <4>1. g[k] = [g[k + s] EXCEPT !.handled = <<HandledAt(tokens, S, k)>> \o @]
        <5>1. ~(k - 1 + LengthAt(tokens, S, k) > n) /\ LengthAt(tokens, S, k) = s
          BY <3>2, <3>3, <3>7
        <5> QED
          BY <5>1, <2>4, <1>5a
      <4>2. At(k) + 2 * s <= hi /\ k + s \in k + 1 .. n + 1
            /\ At(k + s) = At(k) + 2 * s
        BY <3>7, <3>1, <2>1, <1>1 DEF hi
      <4>3. e = At(k) + 2 * s
        BY <3>5, <4>2
      <4>4. Handles(E, a, E[m], hi, g[k + s])
        <5>1. Handles(E, a, At(k + s), hi, g[k + s])
          BY <4>2, <1>6
        <5> HIDE DEF At
        <5> QED
          BY <5>1, <4>2, <4>3, <3>3
      <4>5. ASSUME NEW j \in 1 .. s
            PROVE  tokens[k + j - 1].body = <<Text(m, j)>>
        <5>1. /\ k + j - 1 \in 1 .. n
              /\ a + 2 * (k + j - 1) - 1 = Begin(E, m) + 2 * j - 1
          BY <3>7, <3>1, <3>2, <1>1
        <5>2. tokens[k + j - 1].body = <<T[Begin(E, m) + 2 * j - 1]>>
          BY <5>1, <1>2
        <5>3. T[Begin(E, m) + 2 * j - 1] = Text(m, j)
          <6>1. E[m] = Begin(E, m) + 2 * S[m]
            BY <4>3, <3>2, <3>3
          <6>2. MessageIn(T, S, E, m)
            BY DEF Stream
          <6> QED
            BY <6>1, <6>2, <3>3 DEF MessageIn
        <5> QED
          BY <5>2, <5>3
      <4>6. HandledAt(tokens, S, k) = [msg |-> m, whole |-> TRUE]
        <5>1. tokens[k].body[1].msg = m
          BY <3>2 DEF Text
        <5> QED
          BY <5>1, <3>2, <3>3, <4>5 DEF HandledAt
      <4>7. E[m] <= hi
        BY <4>2, <4>3, <3>3
      <4> HIDE DEF At
      <4> QED
        <5> DEFINE r == g[k + s]
        <5>1. Handles(E, a, At(k), hi,
                      [r EXCEPT !.handled = <<HandledAt(tokens, S, k)>> \o @])
          <6>1. Handles(E, a, E[m], hi, r)
            BY <4>4
          <6>2. At(k) = Begin(E, m)
            BY <3>2
          <6> HIDE DEF r
          <6> QED
            BY <6>1, <6>2, <4>6, <4>7, <1>1, HandlesFirst
        <5> QED
          BY <5>1, <4>1
    <3> QED
      BY <3>3, <3>6, <3>7
  <2> QED
    BY <2>2, <2>3, <2>4
<1> DEFINE Fails == {i \in 0 .. n : ~Handles(E, a, At(n + 1 - i), hi, g[n + 1 - i])}
<1>7. Fails = {}
  <2> SUFFICES ASSUME Fails # {}
               PROVE  FALSE
    OBVIOUS
  <2>1. PICK i \in Fails : \A j \in Fails : i <= j
    <3>1. Fails \subseteq Nat
      OBVIOUS
    <3> HIDE DEF Fails
    <3> QED
      BY <3>1, Least
  <2>2. PICK k \in 1 .. n + 1 : k = n + 1 - i
    OBVIOUS
  <2>3. ~Handles(E, a, At(k), hi, g[k])
    BY <2>2
  <2>4. ASSUME NEW j \in k + 1 .. n + 1
        PROVE  Handles(E, a, At(j), hi, g[j])
    <3>1. PICK h \in 0 .. n : j = n + 1 - h /\ ~(i <= h)
      <4>1. n + 1 - j \in 0 .. n /\ j = n + 1 - (n + 1 - j) /\ ~(i <= n + 1 - j)
        BY <2>2
      <4> QED
        BY <4>1
    <3>2. h \notin Fails
      BY <3>1, <2>1
    <3> HIDE DEF At
    <3> QED
      BY <3>1, <3>2
  <2> HIDE DEF At
  <2> QED
    BY <2>3, <2>4, <1>6
<1>8. Handles(E, a, At(1), hi, g[1])
  <2>1. n \in 0 .. n /\ n + 1 - n = 1
    OBVIOUS
  <2>2. Handles(E, a, At(n + 1 - n), hi, g[n + 1 - n])
    BY <2>1, <1>7
  <2> HIDE DEF At
  <2> QED
    BY <2>1, <2>2
<1>9. At(1) = a
  BY <1>1
<1> HIDE DEF At
<1> QED
  BY <1>5, <1>8, <1>9 DEF tokens, hi

---------------------------------------------------------------------------
(* What the client sends                                                   *)

(* The text of a message, one of whose tokens may be empty.                *)
MessageText(e, m, s) ==
  /\ e \in Seq(Char) /\ Len(e) \in {2 * s - 1, 2 * s} /\ Len(e) >= 4
  /\ e[1] = Text(m, 1) /\ e[3] = Text(m, 2) /\ e[Len(e)] = Delim
  /\ Len(e) = 2 * s => \A j \in 1 .. s : e[2 * j - 1] = Text(m, j)
  /\ Len(e) # 2 * s => \E t \in 3 .. s : e[2 * t - 1] = Delim
  /\ \A p \in DOMAIN e : e[p].tok = 1 => p = 1
  /\ Apart(e)

(* Its tokens, if none is empty.                                           *)
LEMMA EncodedIs ==
  ASSUME NEW m \in 1 .. MaxMessages, NEW s \in Nat \ {0, 1}
  PROVE  /\ Encoded(m, s) \in Seq(Char) /\ Len(Encoded(m, s)) = 2 * s
         /\ \A j \in 1 .. s : /\ Encoded(m, s)[2 * j - 1] = Text(m, j)
                              /\ Encoded(m, s)[2 * j] = Delim
         /\ \A p \in 1 .. 2 * s : \E j \in 1 .. s : p = 2 * j - 1 \/ p = 2 * j
<1>1. ASSUME NEW p \in 1 .. 2 * s
      PROVE  \E j \in 1 .. s : p = 2 * j - 1 \/ p = 2 * j
  <2>1. PICK k \in Nat : p - 1 = 2 * k \/ p - 1 = 2 * k + 1
    <3>1. p - 1 \in Nat
      OBVIOUS
    <3> QED
      BY <3>1, Halves
  <2>2. k + 1 \in 1 .. s /\ (p = 2 * (k + 1) - 1 \/ p = 2 * (k + 1))
    BY <2>1
  <2> QED
    BY <2>2
<1>2. ASSUME NEW j \in 1 .. s
      PROVE  /\ Encoded(m, s)[2 * j - 1] = Text(m, j)
             /\ Encoded(m, s)[2 * j] = Delim
  <2>1. /\ 2 * j - 1 \in 1 .. 2 * s /\ (2 * j - 1) % 2 # 0
        /\ (2 * j - 1 + 1) \div 2 = j
    OBVIOUS
  <2>2. 2 * j \in 1 .. 2 * s /\ (2 * j) % 2 = 0
    OBVIOUS
  <2> QED
    BY <2>1, <2>2 DEF Encoded
<1>3. \A p \in 1 .. 2 * s : Encoded(m, s)[p] \in Char
  <2>1. Delim \in Char
    BY FramingAssumption DEF Delim, Char
  <2>2. \A j \in 1 .. s : Text(m, j) \in Char
    BY DEF Text, Char
  <2> QED
    BY <1>1, <1>2, <2>1, <2>2
<1>4. Encoded(m, s) \in [1 .. 2 * s -> Char]
  <2> DEFINE X(i) == IF i % 2 = 0 THEN Delim ELSE Text(m, (i + 1) \div 2)
  <2>1. Encoded(m, s) = [i \in 1 .. 2 * s |-> X(i)]
    BY DEF Encoded
  <2> HIDE DEF X
  <2> QED
    BY <2>1, <1>3
<1>5. \A f : f \in [1 .. 2 * s -> Char] => f \in Seq(Char) /\ Len(f) = 2 * s
  OBVIOUS
<1> QED
  BY <1>1, <1>2, <1>4, <1>5

(* The texts a client sends are such.                                       *)
LEMMA MessagesAre ==
  ASSUME NEW m \in 1 .. MaxMessages, NEW s \in Sizes, NEW e \in Messages(m, s)
  PROVE  MessageText(e, m, s)
<1> DEFINE f == Encoded(m, s)
<1>0. s \in Nat \ {0, 1}
  BY FramingAssumption
<1>1. /\ f \in Seq(Char) /\ Len(f) = 2 * s /\ DOMAIN f = 1 .. 2 * s
      /\ \A j \in 1 .. s : f[2 * j - 1] = Text(m, j) /\ f[2 * j] = Delim
      /\ \A p \in 1 .. 2 * s : \E j \in 1 .. s : p = 2 * j - 1 \/ p = 2 * j
  <2>1. /\ Encoded(m, s) \in Seq(Char) /\ Len(Encoded(m, s)) = 2 * s
        /\ \A j \in 1 .. s : /\ Encoded(m, s)[2 * j - 1] = Text(m, j)
                             /\ Encoded(m, s)[2 * j] = Delim
        /\ \A p \in 1 .. 2 * s : \E j \in 1 .. s : p = 2 * j - 1 \/ p = 2 * j
    BY <1>0, EncodedIs
  <2>2. f \in Seq(Char) /\ Len(f) = 2 * s
    BY <2>1
  <2> HIDE DEF f
  <2>3. DOMAIN f = 1 .. 2 * s
    BY <2>2
  <2> QED
    BY <2>1, <2>3 DEF f
<1> HIDE DEF f
<1>1a. ASSUME NEW p \in 1 .. 2 * s
       PROVE  \E j \in 1 .. s : \/ p = 2 * j - 1 /\ f[p] = Text(m, j) /\ p + 1 = 2 * j
                                \/ p = 2 * j /\ f[p] = Delim
  <2>1. PICK j \in 1 .. s : p = 2 * j - 1 \/ p = 2 * j
    BY <1>1
  <2>2. f[2 * j - 1] = Text(m, j) /\ f[2 * j] = Delim
    BY <1>1
  <2>3. p = 2 * j - 1 => p + 1 = 2 * j
    BY <1>0
  <2> QED
    BY <2>1, <2>2, <2>3
<1>2. ASSUME NEW p \in 1 .. 2 * s, f[p].tok = 1
      PROVE  p = 1
  <2>1. f[p] # Delim
    BY <1>2 DEF Delim
  <2>2. PICK j \in 1 .. s : p = 2 * j - 1 /\ f[p] = Text(m, j)
    BY <1>1a, <2>1
  <2>3. j = 1
    BY <2>2, <1>2 DEF Text
  <2> QED
    BY <2>2, <2>3
<1>3. ASSUME NEW p \in 1 .. 2 * s
      PROVE  f[p] = Delim \/ f[p + 1] = Delim
  <2>1. PICK j \in 1 .. s : \/ p = 2 * j - 1 /\ f[p] = Text(m, j) /\ p + 1 = 2 * j
                            \/ p = 2 * j /\ f[p] = Delim
    BY <1>1a
  <2>2. f[2 * j] = Delim
    BY <1>1
  <2> QED
    BY <2>1, <2>2
<1>4. CASE e = f
  <2>1. e[1] = Text(m, 1) /\ e[3] = Text(m, 2) /\ e[2 * s] = Delim
    <3>1. 1 \in 1 .. s /\ 2 \in 1 .. s /\ s \in 1 .. s
          /\ 1 = 2 * 1 - 1 /\ 3 = 2 * 2 - 1
      BY <1>0
    <3> QED
      BY <3>1, <1>1, <1>4
  <2>2. 2 * s >= 4
    BY <1>0
  <2>3. Apart(e)
    BY <1>1, <1>3, <1>4 DEF Apart
  <2> QED
    BY <1>0, <1>1, <1>2, <1>4, <2>1, <2>2, <2>3 DEF MessageText
<1>5. CASE e # f
  <2>1. PICK t \in 3 .. s : e = RemoveAt(f, 2 * t - 1)
    BY <1>5 DEF Messages, f
  <2>2. PICK i \in 5 .. 2 * s - 1 : i = 2 * t - 1 /\ i + 1 = 2 * t
    BY <1>0
  <2>3. /\ e \in Seq(Char) /\ Len(e) = 2 * s - 1
        /\ \A j \in 1 .. 2 * s - 1 : e[j] = IF j < i THEN f[j] ELSE f[j + 1]
    <3> DEFINE u == SubSeq(f, 1, i - 1)
               v == SubSeq(f, i + 1, 2 * s)
    <3>1. e = u \o v
      BY <2>1, <2>2, <1>1 DEF RemoveAt
    <3>2. /\ u \in Seq(Char) /\ Len(u) = i - 1
          /\ \A j \in 1 .. i - 1 : u[j] = f[j]
      BY <1>1, <1>0
    <3>3. /\ v \in Seq(Char) /\ Len(v) = 2 * s - i
          /\ \A j \in 1 .. 2 * s - i : v[j] = f[i + j]
      BY <1>1, <1>0
    <3> HIDE DEF u, v
    <3>4. e \in Seq(Char) /\ Len(e) = 2 * s - 1
      <4>1. i - 1 + (2 * s - i) = 2 * s - 1
        BY <1>0
      <4>2. \A x, y \in Seq(Char) : x \o y \in Seq(Char) /\ Len(x \o y) = Len(x) + Len(y)
        OBVIOUS
      <4>3. u \in Seq(Char) /\ v \in Seq(Char)
        BY <3>2, <3>3
      <4>4. e \in Seq(Char) /\ Len(e) = Len(u) + Len(v)
        BY <3>1, <4>2, <4>3
      <4> QED
        BY <4>1, <4>4, <3>2, <3>3
    <3>5. ASSUME NEW j \in 1 .. 2 * s - 1
          PROVE  e[j] = IF j < i THEN f[j] ELSE f[j + 1]
      <4>1. CASE j < i
        BY <4>1, <3>1, <3>2, <3>3, <1>0
      <4>2. CASE ~(j < i)
        <5>1. /\ j - (i - 1) \in 1 .. 2 * s - i /\ i + (j - (i - 1)) = j + 1
              /\ j \in i .. 2 * s - 1
          BY <4>2, <1>0
        <5>2. e[j] = v[j - (i - 1)]
          BY <5>1, <3>1, <3>2, <3>3, <1>0
        <5> QED
          BY <5>1, <5>2, <3>3, <4>2
      <4> QED
        BY <4>1, <4>2
    <3> QED
      BY <3>4, <3>5
  <2>4. e[1] = Text(m, 1) /\ e[3] = Text(m, 2)
    <3>1. 1 \in 1 .. s /\ 2 \in 1 .. s /\ 1 = 2 * 1 - 1 /\ 3 = 2 * 2 - 1
          /\ 1 \in 1 .. 2 * s - 1 /\ 3 \in 1 .. 2 * s - 1 /\ 1 < i /\ 3 < i
      BY <1>0
    <3> QED
      BY <3>1, <1>1, <2>3
  <2>5. e[2 * s - 1] = Delim
    <3>1. 2 * s - 1 \in 1 .. 2 * s - 1 /\ ~(2 * s - 1 < i)
          /\ s \in 1 .. s /\ 2 * s - 1 + 1 = 2 * s
      BY <1>0
    <3> QED
      BY <3>1, <1>1, <2>3
  <2>6. e[2 * t - 1] = Delim
    <3>1. i \in 1 .. 2 * s - 1 /\ ~(i < i) /\ t \in 1 .. s
      BY <1>0
    <3> QED
      BY <3>1, <2>2, <2>3, <1>1
  <2>7. ASSUME NEW p \in DOMAIN e, e[p].tok = 1
        PROVE  p = 1
    <3>1. p \in 1 .. 2 * s - 1
      BY <2>3
    <3>2. CASE p < i
      BY <3>1, <3>2, <2>3, <2>7, <1>2, <1>0
    <3>3. CASE ~(p < i)
      <4>1. p + 1 \in 1 .. 2 * s /\ p + 1 # 1
        BY <3>1, <1>0
      <4>2. e[p] = f[p + 1]
        BY <3>1, <3>3, <2>3
      <4> QED
        BY <4>1, <4>2, <2>7, <1>2
    <3> QED
      BY <3>2, <3>3
  <2>8. ASSUME NEW p \in DOMAIN e, p + 1 \in DOMAIN e
        PROVE  e[p] = Delim \/ e[p + 1] = Delim
    <3>1. p \in 1 .. 2 * s - 1 /\ p + 1 \in 1 .. 2 * s - 1
      BY <2>3, <2>8
    <3>2. CASE p + 1 < i
      <4>1. p < i /\ p \in 1 .. 2 * s
        BY <3>1, <3>2, <1>0
      <4> QED
        BY <3>1, <3>2, <4>1, <2>3, <1>3
    <3>3. CASE p + 1 = i
      <4>1. e[i] = Delim
        BY <2>2, <2>6
      <4> QED
        BY <4>1, <3>3
    <3>4. CASE ~(p < i)
      <4>1. ~(p + 1 < i) /\ p + 1 \in 1 .. 2 * s
        BY <3>1, <3>4, <1>0
      <4>2. e[p] = f[p + 1] /\ e[p + 1] = f[p + 1 + 1]
        BY <3>1, <3>4, <4>1, <2>3
      <4> QED
        BY <4>1, <4>2, <1>3
    <3> QED
      BY <3>1, <3>2, <3>3, <3>4
  <2>9. Apart(e)
    BY <2>8 DEF Apart
  <2>10. 2 * s - 1 >= 4 /\ 2 * s - 1 # 2 * s
    BY <1>0
  <2> QED
    BY <2>3, <2>4, <2>5, <2>6, <2>7, <2>9, <2>10 DEF MessageText
<1> QED
  BY <1>4, <1>5

(* The stream ends where its last message does.                            *)
LEMMA LastEnds ==
  ASSUME NEW E, NEW last \in Nat, InARow(E, last)
  PROVE  Begin(E, Len(E) + 1) = last
<1>1. Len(E) \in Nat /\ DOMAIN E = 1 .. Len(E)
  BY DEF InARow
<1>2. \A m \in DOMAIN E : /\ Begin(E, m) \in Nat /\ E[m] \in Nat
                          /\ Begin(E, m) + 4 <= E[m] /\ E[m] <= last
  BY Positions DEF InARow
<1>3. CASE Len(E) = 0
  <2>1. last = 0
    <3>1. last # 0 => last \in 1 .. last
      OBVIOUS
    <3> QED
      BY <3>1, <1>1, <1>3 DEF InARow
  <2> QED
    BY <2>1, <1>3 DEF Begin
<1>4. CASE Len(E) # 0
  <2>1. PICK n \in DOMAIN E : n = Len(E)
    BY <1>1, <1>4
  <2>2. last \in 1 .. last
    BY <2>1, <1>2
  <2>3. PICK m \in DOMAIN E : Begin(E, m) < last /\ last <= E[m]
    BY <2>2 DEF InARow
  <2>4. E[m] = last
    BY <2>3, <1>2
  <2>5. m = n
    <3>1. m < n => E[m] <= Begin(E, n)
      BY DEF InARow
    <3>2. ~(E[m] <= Begin(E, n))
      BY <2>4, <1>2
    <3> QED
      BY <3>1, <3>2, <2>1, <1>1
  <2>6. Begin(E, Len(E) + 1) = E[n]
    BY <2>1, <1>1, <1>4 DEF Begin
  <2> QED
    BY <2>4, <2>5, <2>6
<1> QED
  BY <1>3, <1>4

(* One more message.                                                       *)
LEMMA StreamSent ==
  ASSUME NEW T, NEW S, NEW E, Stream(T, S, E), Len(S) < MaxMessages,
         NEW s \in Sizes, NEW e \in Messages(Len(S) + 1, s)
  PROVE  Stream(T \o e, Append(S, s), Append(E, Len(T) + Len(e)))
<1> DEFINE T2 == T \o e
           S2 == Append(S, s)
           E2 == Append(E, Len(T) + Len(e))
<1>0. /\ T \in Seq(Char) /\ S \in Seq(Sizes) /\ E \in Seq(Nat)
      /\ Len(S) = Len(E) /\ Len(E) \in Nat /\ Len(T) \in Nat
      /\ InARow(E, Len(T)) /\ DOMAIN E = 1 .. Len(E) /\ DOMAIN T = 1 .. Len(T)
  BY DEF Stream, InARow
<1>1. PICK l \in Nat, n \in 1 .. MaxMessages :
        l = Len(T) /\ n = Len(E) + 1 /\ n = Len(S) + 1 /\ DOMAIN E = 1 .. n - 1
        /\ DOMAIN T = 1 .. l
  <2>1. Len(E) + 1 \in 1 .. MaxMessages /\ Len(E) + 1 - 1 = Len(E)
    BY <1>0, FramingAssumption
  <2>2. PICK n \in 1 .. MaxMessages : n = Len(E) + 1 /\ n - 1 = Len(E)
    BY <2>1
  <2>3. DOMAIN E = 1 .. n - 1 /\ n = Len(S) + 1
    BY <1>0, <2>2
  <2> QED
    BY <1>0, <2>2, <2>3
<1>2. MessageText(e, n, s) /\ s \in Nat \ {0, 1}
  <2>1. Len(S) + 1 = n
    BY <1>1
  <2>2. e \in Messages(n, s)
    BY <2>1
  <2> QED
    BY <2>2, MessagesAre, FramingAssumption
<1>3. PICK x \in Nat : /\ x = Len(e) /\ x \in {2 * s - 1, 2 * s} /\ x >= 4
                       /\ e \in Seq(Char) /\ DOMAIN e = 1 .. x
  BY <1>2 DEF MessageText
<1>4. /\ T2 \in Seq(Char) /\ Len(T2) = l + x /\ DOMAIN T2 = 1 .. l + x
      /\ \A p \in 1 .. l : T2[p] = T[p]
      /\ \A p \in 1 .. x : T2[l + p] = e[p]
      /\ \A p \in l + 1 .. l + x : p - l \in 1 .. x /\ T2[p] = e[p - l]
  <2>1. /\ T2 \in Seq(Char) /\ Len(T2) = l + x
        /\ \A p \in 1 .. l : T2[p] = T[p]
        /\ \A p \in 1 .. x : T2[l + p] = e[p]
    BY <1>0, <1>1, <1>3
  <2>2. \A p \in l + 1 .. l + x : p - l \in 1 .. x /\ l + (p - l) = p
    OBVIOUS
  <2> HIDE DEF T2
  <2> QED
    BY <2>1, <2>2
<1>5. /\ S2 \in Seq(Sizes) /\ Len(S2) = n /\ S2[n] = s
      /\ \A m \in 1 .. n - 1 : S2[m] = S[m]
  BY <1>0, <1>1
<1>6. /\ E2 \in Seq(Nat) /\ Len(E2) = n /\ DOMAIN E2 = 1 .. n /\ E2[n] = l + x
      /\ \A m \in 1 .. n - 1 : E2[m] = E[m]
  BY <1>0, <1>1, <1>3
<1> HIDE DEF T2, S2, E2
<1>7. /\ Begin(E2, n) = l
      /\ \A m \in 1 .. n - 1 : Begin(E2, m) = Begin(E, m)
  <2>1. Begin(E, n) = l
    BY <1>0, <1>1, LastEnds
  <2>2. \A m \in 1 .. n : m # 1 => m - 1 \in 1 .. n - 1
    BY <1>1
  <2>3. \A m \in 1 .. n : m # 1 => E2[m - 1] = E[m - 1]
    BY <2>2, <1>6
  <2>4. \A m \in 1 .. n : Begin(E2, m) = Begin(E, m)
    BY <2>3 DEF Begin
  <2>5. n \in 1 .. n /\ \A m \in 1 .. n - 1 : m \in 1 .. n
    BY <1>1
  <2> QED
    BY <2>1, <2>4, <2>5
<1>8. \A m \in 1 .. n - 1 : /\ Begin(E, m) \in Nat /\ E[m] \in Nat
                            /\ Begin(E, m) + 4 <= E[m] /\ E[m] <= l
  BY <1>0, <1>1, Positions DEF InARow
<1>9. \A m \in 1 .. n : m \in 1 .. n - 1 \/ m = n
  BY <1>1
<1>10. InARow(E2, l + x)
  <2>1. ASSUME NEW m \in 1 .. n
        PROVE  Begin(E2, m) + 4 <= E2[m] /\ E2[m] <= l + x
    <3>1. CASE m = n
      BY <3>1, <1>3, <1>6, <1>7
    <3>2. CASE m \in 1 .. n - 1
      <4>1. /\ Begin(E2, m) = Begin(E, m) /\ E2[m] = E[m]
            /\ Begin(E, m) \in Nat /\ E[m] \in Nat
            /\ Begin(E, m) + 4 <= E[m] /\ E[m] <= l
        BY <3>2, <1>6, <1>7, <1>8
      <4> QED
        BY <4>1
    <3> QED
      BY <3>1, <3>2, <1>9
  <2>2. ASSUME NEW m \in 1 .. n, NEW k \in 1 .. n, m < k
        PROVE  E2[m] <= Begin(E2, k)
    <3>1. m \in 1 .. n - 1
      BY <2>2, <1>1
    <3>2. CASE k = n
      BY <3>1, <3>2, <1>6, <1>7, <1>8
    <3>3. CASE k \in 1 .. n - 1
      <4>1. E[m] <= Begin(E, k)
        BY <3>1, <3>3, <2>2, <1>0, <1>1 DEF InARow
      <4> QED
        BY <4>1, <3>1, <3>3, <1>6, <1>7
    <3> QED
      BY <3>2, <3>3, <1>9
  <2>3. ASSUME NEW p \in 1 .. l + x
        PROVE  \E m \in 1 .. n : Begin(E2, m) < p /\ p <= E2[m]
    <3>1. CASE p \in 1 .. l
      <4>1. PICK m \in 1 .. n - 1 : Begin(E, m) < p /\ p <= E[m]
        BY <3>1, <1>0, <1>1 DEF InARow
      <4>2. m \in 1 .. n /\ Begin(E2, m) < p /\ p <= E2[m]
        BY <4>1, <1>6, <1>7, <1>9
      <4> QED
        BY <4>2
    <3>2. CASE ~(p \in 1 .. l)
      <4>1. n \in 1 .. n /\ Begin(E2, n) < p /\ p <= E2[n]
        BY <3>2, <1>6, <1>7
      <4> QED
        BY <4>1
    <3> QED
      BY <3>1, <3>2
  <2> QED
    BY <2>1, <2>2, <2>3, <1>6 DEF InARow
<1>11. ASSUME NEW m \in 1 .. n
       PROVE  MessageIn(T2, S2, E2, m)
  <2>1. CASE m = n
    <3>1. /\ 1 \in 1 .. x /\ 3 \in 1 .. x /\ x \in 1 .. x
          /\ \A j \in 1 .. s : l + 2 * j - 1 = l + (2 * j - 1)
      BY <1>3
    <3>2. /\ T2[l + 1] = Text(n, 1) /\ T2[l + 3] = Text(n, 2) /\ T2[l + x] = Delim
      BY <3>1, <1>4, <1>2, <1>3 DEF MessageText
    <3>3. ASSUME l + x = l + 2 * s, NEW j \in 1 .. s
          PROVE  T2[l + 2 * j - 1] = Text(n, j)
      <4>1. x = 2 * s /\ 2 * j - 1 \in 1 .. x /\ l + 2 * j - 1 = l + (2 * j - 1)
        BY <3>3, <1>2
      <4>2. e[2 * j - 1] = Text(n, j)
        BY <4>1, <1>2, <1>3 DEF MessageText
      <4> QED
        BY <4>1, <4>2, <1>4
    <3>4. ASSUME l + x # l + 2 * s
          PROVE  \E t \in 3 .. s : T2[l + 2 * t - 1] = Delim
      <4>1. x # 2 * s /\ x = 2 * s - 1
        BY <3>4, <1>3
      <4>2. PICK t \in 3 .. s : e[2 * t - 1] = Delim
        BY <4>1, <1>2, <1>3 DEF MessageText
      <4>3. 2 * t - 1 \in 1 .. x /\ l + 2 * t - 1 = l + (2 * t - 1)
        BY <4>1, <1>2
      <4> QED
        BY <4>2, <4>3, <1>4
    <3>5. l + x \in {l + 2 * s - 1, l + 2 * s}
      BY <1>2, <1>3
    <3> QED
      BY <3>2, <3>3, <3>4, <3>5, <2>1, <1>5, <1>6, <1>7 DEF MessageIn
  <2>2. CASE m \in 1 .. n - 1
    <3>1. PICK b \in Nat, z \in Nat, y \in Nat \ {0, 1} :
            b = Begin(E, m) /\ z = E[m] /\ y = S[m] /\ b + 4 <= z /\ z <= l
      <4>1. S[m] \in Sizes
        BY <1>0, <1>1, <2>2
      <4> QED
        BY <4>1, <1>8, <2>2, FramingAssumption
    <3>2. /\ z \in {b + 2 * y - 1, b + 2 * y}
          /\ T[b + 1] = Text(m, 1) /\ T[b + 3] = Text(m, 2) /\ T[z] = Delim
          /\ z = b + 2 * y => \A j \in 1 .. y : T[b + 2 * j - 1] = Text(m, j)
          /\ z # b + 2 * y => \E t \in 3 .. y : T[b + 2 * t - 1] = Delim
      <4>1. MessageIn(T, S, E, m)
        BY <1>1, <2>2 DEF Stream
      <4> QED
        BY <4>1, <3>1 DEF MessageIn
    <3>3. \A j \in 1 .. y : T2[b + 2 * j - 1] = T[b + 2 * j - 1]
      <4> SUFFICES ASSUME NEW j \in 1 .. y
                   PROVE  T2[b + 2 * j - 1] = T[b + 2 * j - 1]
        OBVIOUS
      <4>0. (z = b + 2 * y - 1 \/ z = b + 2 * y) /\ z <= l
        BY <3>1, <3>2
      <4>1. b + 2 * j - 1 \in 1 .. l
        <5>1. 1 <= b + 2 * j - 1
          BY <3>1
        <5>2. b + 2 * j - 1 <= z
          BY <4>0
        <5> QED
          BY <5>1, <5>2, <4>0
      <4> DEFINE p == b + 2 * j - 1
      <4>2. p \in 1 .. l
        BY <4>1
      <4> HIDE DEF p
      <4>3. T2[p] = T[p]
        BY <4>2, <1>4
      <4> QED
        BY <4>3 DEF p
    <3>4. T2[b + 1] = T[b + 1] /\ T2[b + 3] = T[b + 3] /\ T2[z] = T[z]
      <4>0. b + 4 <= z /\ z <= l
        BY <3>1
      <4>1. b + 1 \in 1 .. l /\ b + 3 \in 1 .. l /\ z \in 1 .. l
        BY <4>0
      <4> QED
        BY <4>1, <1>4
    <3>5. \A t \in 3 .. y : t \in 1 .. y
      OBVIOUS
    <3>6. Begin(E2, m) = b /\ E2[m] = z /\ S2[m] = y
      BY <2>2, <3>1, <1>5, <1>6, <1>7
    <3> QED
      BY <3>2, <3>3, <3>4, <3>5, <3>6 DEF MessageIn
  <2> QED
    BY <2>1, <2>2, <1>9
<1>12. ASSUME NEW p \in 1 .. l + x, T2[p].tok = 1
       PROVE  \E m \in 1 .. n : p = Begin(E2, m) + 1
  <2>1. CASE p \in 1 .. l
    <3>1. PICK m \in 1 .. n - 1 : p = Begin(E, m) + 1
      BY <2>1, <1>4, <1>12, <1>1 DEF Stream
    <3> QED
      BY <3>1, <1>7, <1>9
  <2>2. CASE p \in l + 1 .. l + x
    <3>1. p - l \in 1 .. x /\ e[p - l].tok = 1
      BY <2>2, <1>4, <1>12
    <3>2. p - l = 1
      BY <3>1, <1>2, <1>3 DEF MessageText
    <3>3. n \in 1 .. n /\ p = l + 1
      BY <3>1, <3>2, <1>1
    <3> QED
      BY <3>3, <1>7
  <2> QED
    BY <2>1, <2>2
<1>13. ASSUME NEW p \in 1 .. l + x, p + 1 \in 1 .. l + x
       PROVE  T2[p] = Delim \/ T2[p + 1] = Delim
  <2>1. CASE p \in 1 .. l - 1
    <3>1. p \in 1 .. l /\ p + 1 \in 1 .. l
      BY <2>1
    <3>2. T[p] = Delim \/ T[p + 1] = Delim
      BY <3>1, <1>1 DEF Stream, Apart
    <3> QED
      BY <3>1, <3>2, <1>4
  <2>2. CASE p = l
    <3>1. n # 1
      <4> SUFFICES ASSUME n = 1
                   PROVE  FALSE
        OBVIOUS
      <4>1. Begin(E2, n) = 0
        BY DEF Begin
      <4> QED
        BY <4>1, <1>7, <2>2
    <3>2. n - 1 \in 1 .. n - 1 /\ E[n - 1] = l
      <4>1. n - 1 \in 1 .. n - 1
        BY <3>1, <1>1
      <4>2. Begin(E2, n) = E2[n - 1]
        BY <3>1 DEF Begin
      <4> QED
        BY <4>1, <4>2, <1>6, <1>7
    <3>3. T[l] = Delim
      <4>1. MessageIn(T, S, E, n - 1)
        BY <3>2, <1>1 DEF Stream
      <4> QED
        BY <4>1, <3>2 DEF MessageIn
    <3>4. l \in 1 .. l
      BY <2>2
    <3> QED
      BY <3>3, <3>4, <2>2, <1>4
  <2>3. CASE p \in l + 1 .. l + x
    <3>1. PICK i \in 1 .. x : i = p - l /\ i + 1 = p + 1 - l /\ i + 1 \in 1 .. x
                              /\ p + 1 \in l + 1 .. l + x
      <4>1. p - l \in 1 .. x /\ p - l + 1 = p + 1 - l /\ p - l + 1 \in 1 .. x
            /\ p + 1 \in l + 1 .. l + x
        BY <2>3, <1>13
      <4> QED
        BY <4>1
    <3>2. e[i] = Delim \/ e[i + 1] = Delim
      <4>1. Apart(e)
        BY <1>2 DEF MessageText
      <4> QED
        BY <4>1, <3>1, <1>3 DEF Apart
    <3>3. T2[p] = e[i] /\ T2[p + 1] = e[i + 1]
      BY <3>1, <2>3, <1>4
    <3> QED
      BY <3>2, <3>3
  <2> QED
    BY <2>1, <2>2, <2>3
<1>14. Apart(T2)
  BY <1>13, <1>4 DEF Apart
<1>15. Stream(T2, S2, E2)
  <2>1. /\ T2 \in Seq(Char) /\ S2 \in Seq(Sizes) /\ Len(S2) = Len(E2)
        /\ Len(S2) <= MaxMessages /\ InARow(E2, Len(T2))
    BY <1>4, <1>5, <1>6, <1>10, FramingAssumption
  <2>2. \A m \in DOMAIN E2 : MessageIn(T2, S2, E2, m)
    BY <1>6, <1>11
  <2>3. \A p \in DOMAIN T2 : T2[p].tok = 1 => \E m \in DOMAIN E2 : p = Begin(E2, m) + 1
    BY <1>4, <1>6, <1>12
  <2> QED
    BY <2>1, <2>2, <2>3, <1>14 DEF Stream
<1> QED
  BY <1>15 DEF T2, S2, E2

---------------------------------------------------------------------------
(* A receive                                                               *)

(* A piece stays where it is when more is sent.                            *)
LEMMA PieceGrown ==
  ASSUME NEW T \in Seq(Char), NEW e \in Seq(Char), NEW a, NEW u, Piece(T, a, u)
  PROVE  Piece(T \o e, a, u)
<1>1. /\ a \in Nat /\ u \in Seq(Char) /\ Len(u) \in Nat /\ a + Len(u) <= Len(T)
      /\ \A i \in 1 .. Len(u) : u[i] = T[a + i]
  BY DEF Piece
<1>2. \A p \in 1 .. Len(T) : (T \o e)[p] = T[p]
  OBVIOUS
<1>3. \A i \in 1 .. Len(u) : a + i \in 1 .. Len(T)
  BY <1>1
<1>4. a + Len(u) <= Len(T \o e)
  BY <1>1
<1> QED
  BY <1>1, <1>2, <1>3, <1>4 DEF Piece

(* Side by side.                                                           *)
LEMMA PieceJoined ==
  ASSUME NEW T \in Seq(Char), NEW a, NEW u, NEW v, Piece(T, a, u), Piece(T, a + Len(u), v)
  PROVE  Piece(T, a, u \o v) /\ Len(u \o v) = Len(u) + Len(v)
<1>1. PICK k \in Nat, l \in Nat, t \in Nat :
        /\ k = Len(u) /\ l = Len(v) /\ t = Len(T) /\ a \in Nat
        /\ u \in Seq(Char) /\ v \in Seq(Char) /\ a + k + l <= t
        /\ \A i \in 1 .. k : u[i] = T[a + i]
        /\ \A i \in 1 .. l : v[i] = T[a + k + i]
  <2>1. /\ a \in Nat /\ u \in Seq(Char) /\ a + Len(u) \in Nat /\ v \in Seq(Char)
        /\ a + Len(u) + Len(v) <= Len(T)
        /\ \A i \in 1 .. Len(u) : u[i] = T[a + i]
        /\ \A i \in 1 .. Len(v) : v[i] = T[a + Len(u) + i]
    BY DEF Piece
  <2>2. Len(u) \in Nat /\ Len(v) \in Nat /\ Len(T) \in Nat
    BY <2>1
  <2> QED
    BY <2>1, <2>2
<1> DEFINE w == u \o v
<1>2. /\ w \in Seq(Char) /\ Len(w) = k + l
      /\ \A i \in 1 .. k : w[i] = u[i]
      /\ \A i \in k + 1 .. k + l : w[i] = v[i - k]
  BY <1>1
<1> HIDE DEF w
<1>3. ASSUME NEW i \in 1 .. k + l
      PROVE  w[i] = T[a + i]
  <2>1. CASE i \in 1 .. k
    BY <2>1, <1>1, <1>2
  <2>2. CASE i \in k + 1 .. k + l
    <3>1. PICK j \in 1 .. l : j = i - k /\ a + k + j = a + i
      <4>1. i - k \in 1 .. l /\ a + k + (i - k) = a + i
        BY <2>2, <1>1
      <4> QED
        BY <4>1
    <3>2. w[i] = v[j] /\ v[j] = T[a + k + j]
      BY <2>2, <3>1, <1>1, <1>2
    <3> QED
      BY <3>1, <3>2
  <2> QED
    BY <2>1, <2>2
<1>4. Piece(T, a, w) /\ Len(w) = Len(u) + Len(v)
  BY <1>1, <1>2, <1>3 DEF Piece
<1> QED
  BY <1>4 DEF w

(* Cut in two.                                                             *)
LEMMA PieceCut ==
  ASSUME NEW T \in Seq(Char), NEW a, NEW u, Piece(T, a, u), NEW r \in 0 .. Len(u)
  PROVE  /\ Piece(T, a + r, SubSeq(u, r + 1, Len(u)))
         /\ Len(SubSeq(u, r + 1, Len(u))) = Len(u) - r
         /\ Piece(T, a, SubSeq(u, 1, r)) /\ Len(SubSeq(u, 1, r)) = r
<1>1. PICK k \in Nat, t \in Nat :
        /\ k = Len(u) /\ t = Len(T) /\ a \in Nat /\ r \in 0 .. k
        /\ u \in Seq(Char) /\ a + k <= t
        /\ \A i \in 1 .. k : u[i] = T[a + i]
  BY DEF Piece
<1> DEFINE v == SubSeq(u, r + 1, Len(u))
           w == SubSeq(u, 1, r)
<1>2. /\ v \in Seq(Char) /\ Len(v) = k - r
      /\ \A i \in 1 .. k - r : v[i] = u[r + i]
  BY <1>1
<1>3. /\ w \in Seq(Char) /\ Len(w) = r
      /\ \A i \in 1 .. r : w[i] = u[i]
  <2>1. r \in 0 .. Len(u) /\ u \in Seq(Char)
    BY <1>1
  <2>2. w \in Seq(Char)
    <3>1. \A i \in 1 .. r : u[i] \in Char
      BY <2>1
    <3> QED
      BY <2>1, <3>1
  <2>3. Len(w) = r
    BY <2>1
  <2>4. \A i \in 1 .. r : w[i] = u[i]
    BY <2>1
  <2> QED
    BY <2>2, <2>3, <2>4
<1> HIDE DEF v, w
<1>4. \A i \in 1 .. k - r : v[i] = T[a + r + i]
  <2>1. \A i \in 1 .. k - r : r + i \in 1 .. k /\ a + (r + i) = a + r + i
    BY <1>1
  <2> QED
    BY <2>1, <1>1, <1>2
<1>5. \A i \in 1 .. r : w[i] = T[a + i]
  <2>1. \A i \in 1 .. r : i \in 1 .. k
    BY <1>1
  <2> QED
    BY <2>1, <1>1, <1>3
<1>6. a + r \in Nat /\ a + r + (k - r) <= t /\ a + r <= t
  BY <1>1
<1>7. Piece(T, a + r, v) /\ Piece(T, a, w)
  BY <1>1, <1>2, <1>3, <1>4, <1>5, <1>6 DEF Piece
<1> QED
  BY <1>1, <1>2, <1>3, <1>7 DEF v, w

(* With the stream, its pieces have no two texts side by side.             *)
LEMMA PieceApart ==
  ASSUME NEW T \in Seq(Char), Apart(T), NEW a, NEW u, Piece(T, a, u)
  PROVE  Apart(u)
<1> SUFFICES ASSUME NEW i \in DOMAIN u, i + 1 \in DOMAIN u
             PROVE  u[i] = Delim \/ u[i + 1] = Delim
  BY DEF Apart
<1>1. /\ a \in Nat /\ u \in Seq(Char) /\ a + Len(u) <= Len(T)
      /\ \A j \in 1 .. Len(u) : u[j] = T[a + j]
  BY DEF Piece
<1>2. /\ i \in 1 .. Len(u) /\ i + 1 \in 1 .. Len(u)
      /\ a + i \in 1 .. Len(T) /\ a + i + 1 \in 1 .. Len(T)
      /\ a + (i + 1) = a + i + 1
  <2>1. PICK k \in Nat, t \in Nat :
          /\ k = Len(u) /\ t = Len(T) /\ DOMAIN u = 1 .. k
          /\ a \in Nat /\ a + k <= t
    BY <1>1
  <2>2. i \in 1 .. k /\ i + 1 \in 1 .. k
    BY <2>1
  <2>3. a \in Nat /\ a + k <= t
    BY <2>1
  <2>4. a + i \in 1 .. t /\ a + i + 1 \in 1 .. t /\ a + (i + 1) = a + i + 1
    BY <2>2, <2>3
  <2> QED
    BY <2>1, <2>2, <2>4
<1>3. T[a + i] = Delim \/ T[a + i + 1] = Delim
  BY <1>2 DEF Apart
<1> QED
  BY <1>1, <1>2, <1>3

(* What HandleMessage makes of the text of a receive, if Split comes to an *)
(* end: what is behind the last '#' makes no difference, as no message     *)
(* ends there.                                                             *)
LEMMA TextHandled ==
  ASSUME NEW T, NEW S, NEW E, Stream(T, S, E),
         NEW a, NEW text, Piece(T, a, text), SplitEnds(text)
  PROVE  Handles(E, a, a, a + Len(text), HandleMessage(Split(text), S))
<1> DEFINE r == HandleMessage(Split(text), S)
<1>1. /\ T \in Seq(Char) /\ text \in Seq(Char) /\ Apart(T) /\ a \in Nat
      /\ InARow(E, Len(T)) /\ Len(T) \in Nat /\ Len(text) \in Nat
  BY DEF Stream, Piece
<1>2. Alternating(text)
  BY <1>1, PieceApart, SplitEndsAlternates
<1>3. PICK n \in Nat : Len(text) \in {2 * n, 2 * n + 1}
  BY <1>1, Halves
<1>4. Handles(E, a, a, a + 2 * n, r)
  BY <1>2, <1>3, PieceHandled
<1>5. CASE Len(text) = 2 * n
  BY <1>4, <1>5
<1>6. CASE Len(text) = 2 * n + 1
  <2> DEFINE hi == a + 2 * n
  <2>1. a + Len(text) = hi + 1 /\ hi \in Nat
    BY <1>1, <1>6
  <2>2. ASSUME NEW m \in DOMAIN E
        PROVE  /\ Begin(E, m) \in Nat /\ E[m] \in Nat /\ Begin(E, m) + 4 <= E[m]
               /\ a <= Begin(E, m) /\ E[m] <= hi + 1 => E[m] <= hi
    <3>1. Begin(E, m) \in Nat /\ E[m] \in Nat /\ Begin(E, m) + 4 <= E[m]
      BY <1>1, Positions DEF InARow
    <3>2. ASSUME a <= Begin(E, m), E[m] <= hi + 1
          PROVE  E[m] <= hi
      <4>1. Begin(E, m) < a + Len(text) /\ E[m] <= a + Len(text)
        BY <3>1, <3>2, <2>1
      <4>2. E[m] <= a + Len(text) => E[m] <= a + 2 * n
        BY <1>2, <1>3, <3>2, <4>1, WholeIn
      <4> QED
        BY <4>1, <4>2
    <3> QED
      BY <3>1, <3>2
  <2>3. ASSUME NEW m \in DOMAIN E, a <= Begin(E, m), Begin(E, m) + 4 <= hi + 1
        PROVE  Begin(E, m) + 4 <= hi
    <3> SUFFICES ASSUME Begin(E, m) + 4 = hi + 1
                 PROVE  FALSE
      BY <2>1, <2>2, <2>3
    <3>1. n \in 1 .. n /\ a + 2 * n = Begin(E, m) + 3
      BY <2>2, <2>3, <1>1, <1>3
    <3>2. T[a + 2 * n] = Delim
      <4>1. \A k \in 1 .. n :
              /\ Split(text)[k].body = <<T[a + 2 * k - 1]>>
              /\ Split(text)[k].start = 2 * k - 2
              /\ T[a + 2 * k] = Delim /\ T[a + 2 * k - 1] # Delim
              /\ a + 2 * k \in DOMAIN T /\ a + 2 * k - 1 \in DOMAIN T
        BY <1>2, <1>3, PieceTokens
      <4> QED
        BY <3>1, <4>1
    <3>3. T[Begin(E, m) + 3] = Text(m, 2)
      <4>1. MessageIn(T, S, E, m)
        BY DEF Stream
      <4> QED
        BY <4>1 DEF MessageIn
    <3>4. Text(m, 2) # Delim
      BY DEF Text, Delim
    <3> QED
      BY <3>1, <3>2, <3>3, <3>4
  <2> HIDE DEF r, hi
  <2>4. Handles(E, a, a, hi, r)
    BY <1>4 DEF hi
  <2>5. /\ r \in [handled : Seq([msg : Nat, whole : BOOLEAN]), resume : Nat]
        /\ \A i, j \in DOMAIN r.handled : i < j => r.handled[i].msg < r.handled[j].msg
    BY <2>4 DEF Handles
  <2>6. \A i \in DOMAIN r.handled :
          /\ r.handled[i].msg \in DOMAIN E /\ r.handled[i].whole
          /\ a <= Begin(E, r.handled[i].msg) /\ E[r.handled[i].msg] <= hi + 1
    <3> SUFFICES ASSUME NEW i \in DOMAIN r.handled
                 PROVE  /\ r.handled[i].msg \in DOMAIN E /\ r.handled[i].whole
                        /\ a <= Begin(E, r.handled[i].msg) /\ E[r.handled[i].msg] <= hi + 1
      OBVIOUS
    <3>1. PICK m \in DOMAIN E : /\ m = r.handled[i].msg /\ r.handled[i].whole
                                /\ a <= Begin(E, m) /\ E[m] <= hi
      BY <2>4 DEF Handles
    <3>2. E[m] <= hi + 1
      BY <3>1, <2>1, <2>2
    <3> QED
      BY <3>1, <3>2
  <2>7. \A m \in DOMAIN E : a <= Begin(E, m) /\ E[m] <= hi + 1 =>
          \E i \in DOMAIN r.handled : r.handled[i].msg = m
    BY <2>2, <2>4 DEF Handles
  <2>8. r.resume # 0 => \E m \in DOMAIN E :
          /\ Begin(E, m) = a + r.resume
          /\ a <= Begin(E, m) /\ Begin(E, m) < hi + 1 /\ hi + 1 < E[m]
    <3> SUFFICES ASSUME r.resume # 0
                 PROVE  \E m \in DOMAIN E :
                          /\ Begin(E, m) = a + r.resume
                          /\ a <= Begin(E, m) /\ Begin(E, m) < hi + 1 /\ hi + 1 < E[m]
      OBVIOUS
    <3>1. PICK m \in DOMAIN E : /\ Begin(E, m) = a + r.resume
                                /\ a <= Begin(E, m) /\ Begin(E, m) < hi /\ hi < E[m]
      BY <2>4 DEF Handles
    <3>2. Begin(E, m) < hi + 1 /\ hi + 1 < E[m]
      BY <3>1, <2>1, <2>2
    <3> QED
      BY <3>1, <3>2
  <2>9. \A m \in DOMAIN E :
          a <= Begin(E, m) /\ Begin(E, m) + 4 <= hi + 1 /\ hi + 1 < E[m] =>
            r.resume = Begin(E, m) - a
    <3> SUFFICES ASSUME NEW m \in DOMAIN E, a <= Begin(E, m),
                        Begin(E, m) + 4 <= hi + 1, hi + 1 < E[m]
                 PROVE  r.resume = Begin(E, m) - a
      OBVIOUS
    <3>1. hi < E[m]
      BY <2>1, <2>2
    <3> QED
      BY <3>1, <2>3, <2>4 DEF Handles
  <2>10. Handles(E, a, a, hi + 1, r)
    BY <2>5, <2>6, <2>7, <2>8, <2>9 DEF Handles
  <2> QED
    BY <2>1, <2>10 DEF r
<1> QED
  BY <1>3, <1>5, <1>6

---------------------------------------------------------------------------
(* The messages handled                                                    *)

Has(H, m) == \E i \in DOMAIN H : H[i].msg = m

(* Whole, in the order in which they were sent, and none twice.            *)
HandledInOrder(E, H) ==
  /\ H \in Seq([msg : Nat, whole : BOOLEAN])
  /\ \A i \in DOMAIN H : H[i].msg \in DOMAIN E /\ H[i].whole
  /\ \A i, j \in DOMAIN H : i < j => H[i].msg < H[j].msg

(* Those of one more text, which begins behind all that were handled.      *)
LEMMA HandledLonger ==
  ASSUME NEW E, NEW last \in Nat, InARow(E, last), NEW H, HandledInOrder(E, H),
         NEW a, NEW hi, NEW r, Handles(E, a, a, hi, r), a \in Nat,
         \A m \in DOMAIN E : Has(H, m) => E[m] <= a
  PROVE  /\ HandledInOrder(E, H \o r.handled)
         /\ \A m : Has(H \o r.handled, m) <=> Has(H, m) \/ Has(r.handled, m)
<1> DEFINE G == r.handled
           F == H \o r.handled
           R == [msg : Nat, whole : BOOLEAN]
<1>1. H \in Seq(R) /\ G \in Seq(R)
  BY DEF HandledInOrder, Handles
<1>2. PICK k \in Nat, l \in Nat :
        k = Len(H) /\ l = Len(G) /\ DOMAIN H = 1 .. k /\ DOMAIN G = 1 .. l
  BY <1>1
<1>3. /\ F \in Seq(R) /\ DOMAIN F = 1 .. k + l
      /\ \A i \in 1 .. k : F[i] = H[i]
      /\ \A i \in 1 .. l : F[k + i] = G[i]
  <2> HIDE DEF R, G
  <2>1. F = H \o G
    BY DEF G
  <2> HIDE DEF F
  <2> QED
    BY <2>1, <1>1, <1>2
<1> HIDE DEF F, G, R
<1>4. ASSUME NEW i \in 1 .. k + l
      PROVE  i \in 1 .. k \/ \E j \in 1 .. l : i = k + j /\ F[i] = G[j]
  <2>1. CASE ~(i \in 1 .. k)
    <3>1. i - k \in 1 .. l /\ i = k + (i - k)
      BY <2>1
    <3> QED
      BY <3>1, <1>3
  <2> QED
    BY <2>1
<1>5. ASSUME NEW i \in 1 .. l
      PROVE  G[i].msg \in DOMAIN E /\ G[i].whole /\ a <= Begin(E, G[i].msg)
  BY <1>2 DEF Handles, G
<1>6. ASSUME NEW i \in 1 .. k
      PROVE  H[i].msg \in DOMAIN E /\ H[i].whole /\ E[H[i].msg] <= a
  <2>1. H[i].msg \in DOMAIN E /\ H[i].whole /\ Has(H, H[i].msg)
    BY <1>2 DEF HandledInOrder, Has
  <2> QED
    BY <2>1
<1>7. ASSUME NEW i \in 1 .. k + l, NEW j \in 1 .. k + l, i < j
      PROVE  F[i].msg < F[j].msg
  <2>1. CASE j \in 1 .. k
    <3>1. i \in 1 .. k
      BY <2>1, <1>7
    <3> QED
      BY <2>1, <3>1, <1>2, <1>3, <1>7 DEF HandledInOrder
  <2>2. CASE i \in 1 .. k /\ ~(j \in 1 .. k)
    <3>1. PICK h \in 1 .. l : F[j] = G[h]
      BY <2>2, <1>4
    <3>2. PICK x \in DOMAIN E, y \in DOMAIN E :
            x = F[i].msg /\ y = F[j].msg /\ E[x] <= a /\ a <= Begin(E, y)
      BY <2>2, <3>1, <1>3, <1>5, <1>6
    <3>3. /\ Begin(E, x) \in Nat /\ Begin(E, y) \in Nat /\ E[x] \in Nat
          /\ Begin(E, x) + 4 <= E[x]
      BY Positions DEF InARow
    <3>4. Begin(E, x) < Begin(E, y)
      BY <3>2, <3>3
    <3>5. y = x \/ x < y
      BY <3>3, <3>4, Positions
    <3>6. x # y
      BY <3>3, <3>4
    <3> QED
      BY <3>2, <3>5, <3>6
  <2>3. CASE ~(i \in 1 .. k)
    <3>1. ~(j \in 1 .. k)
      BY <2>3, <1>7
    <3>2. PICK h \in 1 .. l : i = k + h /\ F[i] = G[h]
      BY <2>3, <1>4
    <3>3. PICK n \in 1 .. l : j = k + n /\ F[j] = G[n]
      BY <3>1, <1>4
    <3>4. h < n
      BY <3>2, <3>3, <1>7
    <3>5. G[h].msg < G[n].msg
      BY <3>4, <1>2 DEF Handles, G
    <3> QED
      BY <3>2, <3>3, <3>5
  <2> QED
    BY <2>1, <2>2, <2>3
<1>8. ASSUME NEW i \in 1 .. k + l
      PROVE  F[i].msg \in DOMAIN E /\ F[i].whole
  BY <1>3, <1>4, <1>5, <1>6
<1>9. HandledInOrder(E, F)
  BY <1>3, <1>7, <1>8 DEF HandledInOrder, R
<1>10. ASSUME NEW m
       PROVE  Has(F, m) <=> Has(H, m) \/ Has(G, m)
  <2>1. ASSUME Has(F, m)
        PROVE  Has(H, m) \/ Has(G, m)
    <3>1. PICK i \in 1 .. k + l : F[i].msg = m
      BY <2>1, <1>3 DEF Has
    <3> QED
      BY <3>1, <1>2, <1>3, <1>4 DEF Has
  <2>2. ASSUME Has(H, m)
        PROVE  Has(F, m)
    <3>1. PICK i \in 1 .. k : H[i].msg = m
      BY <2>2, <1>2 DEF Has
    <3>2. i \in 1 .. k + l
      OBVIOUS
    <3> QED
      BY <3>1, <3>2, <1>3 DEF Has
  <2>3. ASSUME Has(G, m)
        PROVE  Has(F, m)
    <3>1. PICK i \in 1 .. l : G[i].msg = m
      BY <2>3, <1>2 DEF Has
    <3>2. k + i \in 1 .. k + l
      OBVIOUS
    <3> QED
      BY <3>1, <3>2, <1>3 DEF Has
  <2> QED
    BY <2>1, <2>2, <2>3
<1> QED
  BY <1>9, <1>10 DEF F, G

---------------------------------------------------------------------------
(* The invariant                                                           *)

(* T is all that was sent, of which `stream` has not arrived.              *)
Sent(T) ==
  /\ Stream(T, size, ends)
  /\ Piece(T, arrived, stream) /\ arrived + Len(stream) = Len(T)

(* The buffer's text is what lies behind position a of it.  The next       *)
(* receive is put behind the text, and continues it if there is no gap.    *)
(* What was handled had arrived, and ended before that position.           *)
Kept(T, a) ==
  /\ Piece(T, a, buffer) /\ a + Len(buffer) <= arrived
  /\ \A m \in DOMAIN ends : Has(handled, m) => ends[m] <= arrived
  /\ worker = "waiting" =>
       /\ Len(buffer) <= offset
       /\ offset = Len(buffer) => a + Len(buffer) = arrived
       /\ \A m \in DOMAIN ends : Has(handled, m) => ends[m] <= a

(* Without a bad cut nothing was lost: position a is the end of a message, *)
(* and what has arrived in full has been handled.                          *)
Complete(a) ==
  cuts = {} /\ worker = "waiting" =>
    /\ offset = Len(buffer)
    /\ a = 0 \/ \E m \in DOMAIN ends : a = ends[m]
    /\ \A m \in DOMAIN ends : ends[m] <= arrived => ends[m] <= a /\ Has(handled, m)

Types ==
  /\ offset \in 0 .. Buffer
  /\ worker \in Workers
  /\ cuts \in SUBSET Cuts

FramingInv ==
  /\ Types
  /\ HandledInOrder(ends, handled)
  /\ \E T, a : Sent(T) /\ Kept(T, a) /\ Complete(a)

(* Nothing sent, nothing kept.                                             *)
LEMMA FramingInvInit == Init => FramingInv
<1> SUFFICES ASSUME Init
             PROVE  FramingInv
  OBVIOUS
<1>1. Types
  BY FramingAssumption DEF Init, Types, Workers
<1> DEFINE R == [msg : Nat, whole : BOOLEAN]
<1>2. /\ <<>> \in Seq(R) /\ <<>> \in Seq(Char) /\ <<>> \in Seq(Nat) /\ <<>> \in Seq(Sizes)
      /\ DOMAIN <<>> = {} /\ Len(<<>>) = 0
  OBVIOUS
<1>3. HandledInOrder(ends, handled)
  <2> HIDE DEF R
  <2>1. handled \in Seq(R) /\ DOMAIN handled = {}
    BY <1>2 DEF Init
  <2> QED
    BY <2>1 DEF HandledInOrder, R
<1>4. InARow(<<>>, 0)
  BY <1>2 DEF InARow
<1>5. Stream(<<>>, <<>>, <<>>)
  BY <1>2, <1>4, FramingAssumption DEF Stream, Apart
<1>6. Piece(<<>>, 0, <<>>)
  BY <1>2 DEF Piece
<1>7. Sent(<<>>)
  BY <1>2, <1>5, <1>6 DEF Sent, Init
<1>8. Kept(<<>>, 0)
  BY <1>2, <1>6 DEF Kept, Init
<1>9. Complete(0)
  BY <1>2 DEF Complete, Init
<1> QED
  BY <1>1, <1>3, <1>7, <1>8, <1>9 DEF FramingInv

(* A message is sent.                                                      *)
LEMMA FramingInvSend ==
  ASSUME FramingInv, NEW s \in Sizes, Send(s)
  PROVE  FramingInv'
<1>1. PICK T, a : Sent(T) /\ Kept(T, a) /\ Complete(a)
  BY DEF FramingInv
<1>2. PICK e \in Messages(Len(size) + 1, s) : stream' = stream \o e
  BY DEF Send
<1>3. /\ Len(size) < MaxMessages /\ size' = Append(size, s)
      /\ ends' = Append(ends, arrived + Len(stream'))
      /\ UNCHANGED <<arrived, buffer, offset, worker, handled, cuts>>
  BY DEF Send
<1>4. /\ Stream(T, size, ends) /\ T \in Seq(Char) /\ Len(T) \in Nat
      /\ stream \in Seq(Char) /\ Len(stream) \in Nat /\ arrived \in Nat
      /\ arrived + Len(stream) = Len(T) /\ Piece(T, arrived, stream)
      /\ ends \in Seq(Nat) /\ Len(ends) = Len(size) /\ Len(ends) \in Nat
      /\ InARow(ends, Len(T))
  BY <1>1 DEF Sent, Stream, Piece, InARow
<1>5. e \in Seq(Char) /\ Len(e) \in Nat /\ Len(e) >= 4
  <2>1. Len(size) + 1 \in 1 .. MaxMessages
    BY <1>3, <1>4, FramingAssumption
  <2>2. MessageText(e, Len(size) + 1, s)
    BY <2>1, MessagesAre
  <2> QED
    BY <2>2 DEF MessageText
<1> DEFINE U == T \o e
<1>6. U \in Seq(Char) /\ Len(U) = Len(T) + Len(e)
  BY <1>4, <1>5
<1>7. /\ stream' \in Seq(Char) /\ Len(stream') = Len(stream) + Len(e)
      /\ arrived + Len(stream') = Len(T) + Len(e)
  <2>1. stream' \in Seq(Char) /\ Len(stream') = Len(stream) + Len(e)
    BY <1>2, <1>4, <1>5
  <2>2. PICK i \in Nat, j \in Nat, k \in Nat :
          i = Len(stream) /\ j = Len(e) /\ k = Len(T) /\ arrived + i = k
    BY <1>4, <1>5
  <2>3. arrived \in Nat /\ arrived + i = k
    BY <2>2, <1>4
  <2>4. arrived + (i + j) = k + j
    BY <2>3
  <2> QED
    BY <2>1, <2>2, <2>4
<1>8. Stream(U, size', ends')
  BY <1>3, <1>4, <1>7, StreamSent
<1>9. Piece(U, arrived, stream')
  <2>1. Piece(U, arrived, stream)
    BY <1>4, <1>5, PieceGrown
  <2>2. Piece(U, arrived + Len(stream), e)
    <3>1. \A i \in 1 .. Len(e) : U[Len(T) + i] = e[i]
      BY <1>4, <1>5
    <3> HIDE DEF U
    <3>2. Piece(U, Len(T), e)
      BY <3>1, <1>4, <1>5, <1>6 DEF Piece
    <3> QED
      BY <3>2, <1>4
  <2> HIDE DEF U
  <2> QED
    BY <2>1, <2>2, <1>2, <1>6, PieceJoined
<1>10. Sent(U)'
  BY <1>3, <1>6, <1>7, <1>8, <1>9 DEF Sent
<1>11. PICK n \in Nat : /\ n = Len(ends) + 1 /\ DOMAIN ends = 1 .. n - 1
                        /\ DOMAIN ends' = 1 .. n
                        /\ \A m \in 1 .. n - 1 : ends'[m] = ends[m]
                        /\ ends'[n] = Len(T) + Len(e)
  <2>1. Len(ends) + 1 \in Nat /\ Len(ends) + 1 - 1 = Len(ends)
    BY <1>4
  <2>2. Len(T) + Len(e) \in Nat
    BY <1>4, <1>5
  <2>3. ends' = Append(ends, Len(T) + Len(e))
    BY <1>3, <1>7
  <2> QED
    BY <2>1, <2>2, <2>3, <1>4
<1>12. arrived < ends'[n] /\ \A m \in 1 .. n : m \in 1 .. n - 1 \/ m = n
  BY <1>4, <1>5, <1>11
<1>13. HandledInOrder(ends', handled')
  <2>1. \A m \in DOMAIN ends : m \in DOMAIN ends'
    BY <1>11
  <2> QED
    BY <2>1, <1>3 DEF FramingInv, HandledInOrder
<1>14. \A m \in DOMAIN ends' : Has(handled, m) => m \in DOMAIN ends
  BY DEF Has, FramingInv, HandledInOrder
<1>15. Kept(U, a)'
  <2>1. Piece(U, a, buffer)
    BY <1>1, <1>4, <1>5, PieceGrown DEF Kept
  <2>2. /\ a + Len(buffer) <= arrived
        /\ \A m \in DOMAIN ends' : Has(handled, m) => ends'[m] <= arrived
        /\ worker = "waiting" =>
             /\ Len(buffer) <= offset
             /\ offset = Len(buffer) => a + Len(buffer) = arrived
             /\ \A m \in DOMAIN ends' : Has(handled, m) => ends'[m] <= a
    BY <1>1, <1>11, <1>14 DEF Kept
  <2> HIDE DEF U
  <2> QED
    BY <2>1, <2>2, <1>3 DEF Kept
<1>16. Complete(a)'
  <2> SUFFICES ASSUME cuts = {} /\ worker = "waiting"
               PROVE  /\ offset = Len(buffer)
                      /\ a = 0 \/ \E m \in DOMAIN ends' : a = ends'[m]
                      /\ \A m \in DOMAIN ends' :
                           ends'[m] <= arrived => ends'[m] <= a /\ Has(handled, m)
    BY <1>3 DEF Complete
  <2>1. /\ offset = Len(buffer)
        /\ a = 0 \/ \E m \in DOMAIN ends : a = ends[m]
        /\ \A m \in DOMAIN ends : ends[m] <= arrived => ends[m] <= a /\ Has(handled, m)
    BY <1>1 DEF Complete
  <2>2. \A m \in DOMAIN ends : m \in DOMAIN ends' /\ ends'[m] = ends[m]
    BY <1>11
  <2>3. \A m \in DOMAIN ends' : ends'[m] <= arrived => m \in DOMAIN ends
    <3>1. ~(ends'[n] <= arrived)
      BY <1>4, <1>5, <1>11
    <3> QED
      BY <3>1, <1>11, <1>12
  <2> QED
    BY <2>1, <2>2, <2>3
<1>17. Types'
  BY <1>3 DEF FramingInv, Types
<1> HIDE DEF U
<1>18. \E V, b : Sent(V)' /\ Kept(V, b)' /\ Complete(b)'
  BY <1>10, <1>15, <1>16
<1> QED
  BY <1>13, <1>17, <1>18 DEF FramingInv

(* The text of a receive continues what was kept if there is no gap.       *)
LEMMA TextContinues ==
  ASSUME FramingInv, NEW n \in 1 .. Buffer, Receive(n),
         NEW T, NEW a, Sent(T), Kept(T, a)
  PROVE  LET text == TextAfter(SubSeq(stream, 1, n)) IN
         /\ Piece(T, a, text) /\ Len(text) \in Nat /\ Len(text) <= Buffer
         /\ a + Len(text) <= arrived'
         /\ offset = Len(buffer) => a + Len(text) = arrived'
         /\ offset # Len(buffer) => Len(text) < Buffer
<1> DEFINE piece == SubSeq(stream, 1, n)
           text == TextAfter(piece)
<1>1. /\ T \in Seq(Char) /\ stream \in Seq(Char) /\ Len(stream) \in Nat
      /\ arrived \in Nat /\ Piece(T, arrived, stream) /\ a \in Nat
      /\ buffer \in Seq(Char) /\ Len(buffer) \in Nat /\ a + Len(buffer) <= arrived
      /\ Piece(T, a, buffer)
  BY DEF Sent, Kept, Stream, Piece
<1>2. /\ worker = "waiting" /\ n <= Len(stream) /\ n <= Buffer - offset
      /\ arrived' = arrived + n
  BY DEF Receive
<1>3. /\ Buffer \in Nat \ {0} /\ offset \in 0 .. Buffer /\ arrived' \in Nat
      /\ arrived < arrived' /\ n \in Nat \ {0}
  BY <1>1, <1>2, FramingAssumption DEF FramingInv, Types
<1>4. /\ Piece(T, a, text) /\ Len(text) \in Nat /\ Len(text) <= Buffer
      /\ a + Len(text) <= arrived'
      /\ offset = Len(buffer) => a + Len(text) = arrived'
      /\ offset # Len(buffer) => Len(text) < Buffer
  <2>1. n \in 0 .. Len(stream)
    BY <1>1, <1>2, <1>3
  <2>2. Piece(T, arrived, piece) /\ Len(piece) = n
    BY <2>1, <1>1, PieceCut
  <2>3. Len(buffer) <= offset
    BY <1>2 DEF Kept
  <2>4. CASE offset = Len(buffer)
    <3>1. a + Len(buffer) = arrived
      BY <2>4, <1>2 DEF Kept
    <3>2. text = buffer \o piece
      BY <2>4 DEF TextAfter
    <3> HIDE DEF piece, text
    <3>3. Piece(T, a, text) /\ Len(text) = Len(buffer) + n
      <4>1. Piece(T, a + Len(buffer), piece)
        BY <3>1, <2>2
      <4>2. Piece(T, a, buffer \o piece) /\ Len(buffer \o piece) = Len(buffer) + Len(piece)
        BY <4>1, <1>1, PieceJoined
      <4> QED
        BY <4>2, <3>2, <2>2
    <3>4. Len(buffer) + n \in Nat /\ Len(buffer) + n <= Buffer
          /\ a + (Len(buffer) + n) = arrived + n
      <4>1. PICK l \in Nat, o \in Nat, c \in Nat :
              l = Len(buffer) /\ o = offset /\ c = arrived
        BY <1>1, <1>3
      <4>2. /\ a \in Nat /\ a + l = c /\ n \in Nat /\ n <= Buffer - o /\ o = l
            /\ Buffer \in Nat
        BY <4>1, <3>1, <2>4, <1>1, <1>2, <1>3
      <4>3. l + n \in Nat /\ l + n <= Buffer /\ a + (l + n) = c + n
        BY <4>2
      <4> QED
        BY <4>1, <4>3
    <3>5. a + Len(text) = arrived' /\ arrived' <= arrived'
      BY <3>3, <3>4, <1>2, <1>3
    <3> QED
      BY <2>4, <3>3, <3>4, <3>5
  <2>5. CASE offset # Len(buffer)
    <3>1. text = buffer
      BY <2>5 DEF TextAfter
    <3> HIDE DEF piece, text
    <3>2. Len(buffer) < Buffer /\ a + Len(buffer) <= arrived'
      BY <2>3, <2>5, <1>1, <1>3
    <3> QED
      BY <2>5, <3>1, <3>2, <1>1, <1>3
  <2> QED
    BY <2>4, <2>5
<1> QED
  BY <1>4

(* Pieces arrive.                                                          *)
LEMMA FramingInvReceive ==
  ASSUME FramingInv, NEW n \in 1 .. Buffer, Receive(n)
  PROVE  FramingInv'
<1> DEFINE piece == SubSeq(stream, 1, n)
           text == TextAfter(piece)
           endWithDelim == piece[n] = Delim
           h == HandleMessage(Split(text), size)
           length == LengthToMove(h.resume, endWithDelim)
<1>1. PICK T, a : Sent(T) /\ Kept(T, a) /\ Complete(a)
  BY DEF FramingInv
<1>2. /\ Stream(T, size, ends) /\ T \in Seq(Char) /\ Len(T) \in Nat
      /\ stream \in Seq(Char) /\ Len(stream) \in Nat /\ arrived \in Nat
      /\ arrived + Len(stream) = Len(T) /\ Piece(T, arrived, stream)
      /\ InARow(ends, Len(T)) /\ a \in Nat
      /\ buffer \in Seq(Char) /\ Len(buffer) \in Nat /\ a + Len(buffer) <= arrived
      /\ Piece(T, a, buffer)
  BY <1>1 DEF Sent, Kept, Stream, Piece
<1>3. /\ worker = "waiting" /\ n <= Len(stream) /\ n <= Buffer - offset
      /\ stream' = SubSeq(stream, n + 1, Len(stream))
      /\ arrived' = arrived + n
      /\ cuts' = cuts \cup BadCuts(arrived', text)
      /\ UNCHANGED <<size, ends>>
      /\ \/ /\ SplitEnds(text)
            /\ handled' = handled \o h.handled
            /\ buffer' = IF length > 0 THEN Moved(text, h.resume) ELSE <<>>
            /\ offset' = length
            /\ worker' = IF length = Buffer THEN "aborted" ELSE "waiting"
         \/ /\ worker' \in {"stuck", "overread"}
            /\ UNCHANGED <<handled, buffer, offset>>
  BY DEF Receive
<1>4. /\ Buffer \in Nat \ {0} /\ offset \in 0 .. Buffer /\ arrived' \in Nat
      /\ arrived < arrived' /\ n \in Nat \ {0}
  BY <1>2, <1>3, FramingAssumption DEF FramingInv, Types
<1>5. Sent(T)'
  <2>1. n \in 0 .. Len(stream)
    BY <1>2, <1>3, <1>4
  <2>2. Piece(T, arrived + n, stream') /\ Len(stream') = Len(stream) - n
    BY <2>1, <1>2, <1>3, PieceCut
  <2>3. arrived + n + (Len(stream) - n) = Len(T)
    BY <1>2, <1>4
  <2>4. arrived' + Len(stream') = Len(T)
    BY <2>2, <2>3, <1>3
  <2> QED
    BY <2>2, <2>4, <1>2, <1>3 DEF Sent
<1>6. cuts' \in SUBSET Cuts
  BY <1>3 DEF FramingInv, Types, BadCuts, Note, Cuts
<1>7. /\ Piece(T, a, text) /\ Len(text) \in Nat /\ Len(text) <= Buffer
      /\ a + Len(text) <= arrived'
      /\ offset = Len(buffer) => a + Len(text) = arrived'
      /\ offset # Len(buffer) => Len(text) < Buffer
  BY <1>1, TextContinues
<1> HIDE DEF piece, text, endWithDelim
(* Where the text cannot be split, or what is split is not the client's,   *)
(* the buffer stays as it was.                                             *)
<1>8. CASE worker' \in {"stuck", "overread"} /\ UNCHANGED <<handled, buffer, offset>>
  <2>1. Types'
    BY <1>6, <1>8 DEF FramingInv, Types, Workers
  <2>2. HandledInOrder(ends', handled')
    BY <1>3, <1>8 DEF FramingInv
  <2>3. Kept(T, a)'
    <3>1. a + Len(buffer) <= arrived'
      BY <1>2, <1>4
    <3>2. ASSUME NEW m \in DOMAIN ends, Has(handled, m)
          PROVE  ends[m] <= arrived'
      <4>1. ends[m] <= arrived
        BY <3>2, <1>1 DEF Kept
      <4>2. ends[m] \in Nat
        BY <1>2, Positions
      <4> QED
        BY <4>1, <4>2, <1>2, <1>4
    <3> QED
      BY <3>1, <3>2, <1>2, <1>3, <1>8 DEF Kept
  <2>4. Complete(a)'
    BY <1>8 DEF Complete
  <2>5. \E V, b : Sent(V)' /\ Kept(V, b)' /\ Complete(b)'
    BY <2>3, <2>4, <1>5
  <2> QED
    BY <2>1, <2>2, <2>5 DEF FramingInv
<1>9. CASE /\ SplitEnds(text)
           /\ handled' = handled \o h.handled
           /\ buffer' = IF length > 0 THEN Moved(text, h.resume) ELSE <<>>
           /\ offset' = length
           /\ worker' = IF length = Buffer THEN "aborted" ELSE "waiting"
  <2>1. PICK z \in Nat : z = a + Len(text) /\ z <= arrived'
    BY <1>2, <1>7
  <2>2. Handles(ends, a, a, z, h)
    BY <2>1, <1>2, <1>7, <1>9, TextHandled
  <2>3. PICK resume \in Nat : resume = h.resume
    BY <2>2 DEF Handles
  <2> HIDE DEF h
  <2>4. length = IF resume > 0 \/ ~endWithDelim THEN Buffer - resume ELSE 0
    BY <2>3 DEF LengthToMove
  <2> HIDE DEF length
  <2>5. \A m \in DOMAIN ends :
          /\ Begin(ends, m) \in Nat /\ ends[m] \in Nat /\ m \in Nat \ {0}
          /\ Begin(ends, m) + 4 <= ends[m] /\ ends[m] <= Len(T)
    BY <1>2, Positions DEF InARow
  <2>6. \A m, k \in DOMAIN ends : Begin(ends, m) <= Begin(ends, k) =>
          k = m \/ (m < k /\ ends[m] <= Begin(ends, k))
    BY <1>2, Positions
  (* What is handled.                                                      *)
  <2>7. /\ HandledInOrder(ends', handled')
        /\ \A m : Has(handled', m) <=> Has(handled, m) \/ Has(h.handled, m)
    <3>1. HandledInOrder(ends, handled)
      BY DEF FramingInv
    <3>2. \A m \in DOMAIN ends : Has(handled, m) => ends[m] <= a
      BY <1>1, <1>3 DEF Kept
    <3> QED
      BY <3>1, <3>2, <2>2, <1>2, <1>3, <1>9, HandledLonger
  <2>8. ASSUME NEW m \in DOMAIN ends, Has(handled', m)
        PROVE  ends[m] <= a \/ (a <= Begin(ends, m) /\ ends[m] <= z)
    <3>1. CASE Has(handled, m)
      BY <3>1, <1>1, <1>3 DEF Kept
    <3>2. CASE Has(h.handled, m)
      BY <3>2, <2>2 DEF Has, Handles
    <3> QED
      BY <2>8, <2>7, <3>1, <3>2
  <2>8a. \A m \in DOMAIN ends : Has(handled', m) => ends[m] <= arrived'
    <3> SUFFICES ASSUME NEW m \in DOMAIN ends, Has(handled', m)
                 PROVE  ends[m] <= arrived'
      OBVIOUS
    <3>1. PICK y \in Nat, c \in Nat : y = ends[m] /\ c = arrived'
      BY <2>5, <1>4
    <3>2. PICK l \in Nat : l = Len(text) /\ z = a + l /\ z <= c
      BY <2>1, <3>1, <1>7
    <3>3. y <= a \/ y <= z
      BY <3>1, <2>8
    <3>4. y <= c
      BY <3>2, <3>3, <1>2
    <3> QED
      BY <3>1, <3>4
  (* The resume point is the beginning of the message that goes on.        *)
  <2>9. ASSUME resume # 0
        PROVE  \E k \in DOMAIN ends :
                 /\ Begin(ends, k) = a + resume /\ Begin(ends, k) < z /\ z < ends[k]
                 /\ \A m \in DOMAIN ends : ends[m] <= z => ends[m] <= Begin(ends, k)
    <3>1. PICK k \in DOMAIN ends :
            Begin(ends, k) = a + resume /\ Begin(ends, k) < z /\ z < ends[k]
      BY <2>9, <2>2, <2>3 DEF Handles
    <3>2. ASSUME NEW m \in DOMAIN ends, ends[m] <= z
          PROVE  ends[m] <= Begin(ends, k)
      <4>1. CASE Begin(ends, m) <= Begin(ends, k)
        <5>1. m # k
          BY <3>1, <3>2, <2>5
        <5> QED
          BY <4>1, <5>1, <2>6
      <4>2. CASE Begin(ends, k) <= Begin(ends, m)
        <5>1. m = k \/ ends[k] <= Begin(ends, m)
          BY <4>2, <2>6
        <5>2. FALSE
          BY <5>1, <3>1, <3>2, <2>5
        <5> QED
          BY <5>2
      <4> QED
        BY <4>1, <4>2, <2>5
    <3> QED
      BY <3>1, <3>2
  <2>10. resume < Len(text) \/ resume = 0
    <3>1. resume # 0 => a + resume < z
      BY <2>9
    <3> QED
      BY <3>1, <2>1, <1>2, <1>7
  (* Without a bad cut the text continues what was kept, and the message   *)
  (* that the stream is cut in, if there is one, begins behind position a  *)
  (* and is the one to resume at.                                          *)
  <2>11. ASSUME cuts' = {}
         PROVE  /\ z = arrived'
                /\ \A m \in DOMAIN ends : ends[m] <= z => Has(handled', m)
                /\ \A k \in DOMAIN ends : Begin(ends, k) < z /\ z < ends[k] =>
                     /\ Len(text) = Buffer /\ resume = Begin(ends, k) - a
                     /\ a < Begin(ends, k)
    <3>1. /\ cuts = {} /\ BadCuts(arrived', text) = {}
          /\ offset = Len(buffer)
          /\ a = 0 \/ \E m \in DOMAIN ends : a = ends[m]
          /\ \A m \in DOMAIN ends : ends[m] <= arrived => ends[m] <= a /\ Has(handled, m)
      <4>1. cuts = {} /\ BadCuts(arrived', text) = {}
        BY <2>11, <1>3
      <4> QED
        BY <4>1, <1>1, <1>3 DEF Complete
    <3>2. z = arrived'
      BY <3>1, <2>1, <1>7
    <3>3. ASSUME NEW m \in DOMAIN ends, ends[m] <= z
          PROVE  Has(handled', m)
      <4>1. CASE ends[m] <= arrived
        BY <4>1, <3>1, <2>7
      <4>2. CASE ~(ends[m] <= arrived)
        <5>1. a < ends[m]
          BY <4>2, <2>5, <1>2
        <5>2. a <= Begin(ends, m)
          <6>1. CASE a = 0
            BY <6>1, <2>5
          <6>2. CASE \E k \in DOMAIN ends : a = ends[k]
            <7>1. PICK k \in DOMAIN ends : a = ends[k]
              BY <6>2
            <7>2. CASE Begin(ends, k) <= Begin(ends, m)
              <8>1. m = k \/ ends[k] <= Begin(ends, m)
                BY <7>2, <2>6
              <8> QED
                BY <8>1, <7>1, <5>1, <2>5
            <7>3. CASE Begin(ends, m) <= Begin(ends, k)
              <8>1. k = m \/ ends[m] <= Begin(ends, k)
                BY <7>3, <2>6
              <8> QED
                BY <8>1, <7>1, <5>1, <2>5
            <7> QED
              BY <7>2, <7>3, <2>5
          <6> QED
            BY <6>1, <6>2, <3>1
        <5>3. Has(h.handled, m)
          BY <5>2, <3>3, <2>2 DEF Handles, Has
        <5> QED
          BY <5>3, <2>7
      <4> QED
        BY <4>1, <4>2
    <3>4. ASSUME NEW k \in DOMAIN ends, Begin(ends, k) < z, z < ends[k]
          PROVE  /\ Len(text) = Buffer /\ resume = Begin(ends, k) - a
                 /\ a < Begin(ends, k)
      <4>1. BeginOf(k) = Begin(ends, k) /\ k \in CutAt(arrived')
        BY <3>2, <3>4 DEF BeginOf, Begin, CutAt
      <4>2. /\ ~(Len(text) < Buffer)
            /\ ~(arrived' - Begin(ends, k) >= Len(text))
            /\ ~(arrived' - Begin(ends, k) < 4)
        BY <4>1, <3>1 DEF BadCuts, Note
      <4>3. Len(text) = Buffer /\ a < Begin(ends, k) /\ Begin(ends, k) + 4 <= z
        <5>1. PICK b \in Nat, l \in Nat, c \in Nat :
                b = Begin(ends, k) /\ l = Len(text) /\ c = a
          BY <2>5, <1>2, <1>7
        <5>2. z = c + l /\ l <= Buffer
          BY <5>1, <2>1, <1>7
        <5>3. ~(l < Buffer) /\ ~(z - b >= l) /\ ~(z - b < 4)
          BY <5>1, <4>2, <3>2
        <5>4. l = Buffer /\ c < b /\ b + 4 <= z
          BY <5>2, <5>3, FramingAssumption
        <5> QED
          BY <5>1, <5>4
      <4>4. a <= Begin(ends, k)
        BY <4>3, <2>5, <1>2
      <4>5. resume = Begin(ends, k) - a
        BY <4>3, <4>4, <3>4, <2>2, <2>3 DEF Handles
      <4> QED
        BY <4>3, <4>5
    <3> QED
      BY <3>2, <3>3, <3>4
  (* Nothing is left.                                                      *)
  <2>12. CASE resume = 0 /\ endWithDelim
    <3>1. /\ length = 0 /\ buffer' = <<>> /\ offset' = 0 /\ worker' = "waiting"
          /\ Len(<<>>) = 0
      BY <2>4, <2>12, <1>4, <1>9
    <3>2. Types'
      BY <3>1, <1>4, <1>6 DEF Types, Workers
    <3>c. PICK c \in Nat : c = arrived'
      BY <1>4
    <3>3. Kept(T, c)'
      <4>1. Piece(T, c, <<>>)
        <5>1. <<>> \in Seq(Char) /\ arrived' <= Len(T)
          BY <1>2, <1>3, <1>4
        <5>2. c + Len(<<>>) <= Len(T)
          BY <5>1, <3>1, <3>c
        <5> QED
          BY <5>1, <5>2, <3>1 DEF Piece
      <4>2. \A m \in DOMAIN ends : Has(handled', m) => ends[m] <= c
        BY <2>8a, <3>c, Zenon
      <4>3. c + 0 = c /\ c <= c
        OBVIOUS
      <4>4. /\ Piece(T, c, buffer') /\ c + Len(buffer') <= arrived'
            /\ Len(buffer') <= offset' /\ c + Len(buffer') = arrived'
        <5>1. Len(buffer') = 0 /\ Piece(T, c, buffer')
          BY <4>1, <3>1
        <5>2. 0 <= offset'
          BY <3>1
        <5>3. c + 0 = arrived' /\ c + 0 <= arrived'
          BY <4>3, <3>c, Zenon
        <5> QED
          BY <5>1, <5>2, <5>3
      <4> QED
        BY <4>2, <4>4, <2>8a, <1>3 DEF Kept
    <3>4. Complete(c)'
      <4> SUFFICES ASSUME cuts' = {}
                   PROVE  /\ \E m \in DOMAIN ends : arrived' = ends[m]
                          /\ \A m \in DOMAIN ends : ends[m] <= arrived' => Has(handled', m)
        BY <3>1, <3>c, <1>3 DEF Complete
      <4>1. arrived' \in 1 .. Len(T)
        BY <1>2, <1>3, <1>4
      <4>2. PICK m \in DOMAIN ends : Begin(ends, m) < arrived' /\ arrived' <= ends[m]
        BY <4>1, <1>2 DEF InARow
      <4>3. ~(arrived' < ends[m])
        BY <4>2, <2>11, <2>12, <2>5, <1>2
      <4>4. arrived' = ends[m]
        BY <4>2, <4>3, <2>5, <1>4
      <4> QED
        BY <4>4, <2>11
    <3>5. \E V, b : Sent(V)' /\ Kept(V, b)' /\ Complete(b)'
      BY <3>3, <3>4, <1>5
    <3> QED
      BY <3>2, <3>5, <2>7 DEF FramingInv
  (* What lies behind the resume point is moved to the front.              *)
  <2>13. CASE ~(resume = 0 /\ endWithDelim)
    <3> DEFINE b == a + resume
    <3>1. /\ length = Buffer - resume /\ length > 0 /\ length \in 0 .. Buffer
          /\ length = Buffer <=> resume = 0
      BY <2>4, <2>10, <2>13, <1>4, <1>7
    <3>2. /\ buffer' = SubSeq(text, resume + 1, Len(text)) /\ offset' = Buffer - resume
          /\ worker' = IF resume = 0 THEN "aborted" ELSE "waiting"
      BY <3>1, <2>3, <1>9 DEF Moved
    <3>3. Types'
      BY <3>1, <3>2, <1>6 DEF Types, Workers
    <3>4. Piece(T, b, buffer') /\ Len(buffer') = Len(text) - resume /\ b \in Nat
      <4>1. resume \in 0 .. Len(text) /\ b \in Nat
        BY <2>10, <1>2, <1>7
      <4> QED
        BY <4>1, <3>2, <1>2, <1>7, PieceCut
    <3>5. b + Len(buffer') = z
      BY <3>4, <2>1, <1>2, <1>7
    <3>6. ASSUME resume # 0
          PROVE  /\ Len(buffer') <= offset'
                 /\ offset' = Len(buffer') <=> Len(text) = Buffer
                 /\ Len(text) = Buffer => b + Len(buffer') = arrived'
                 /\ \A m \in DOMAIN ends : Has(handled', m) => ends[m] <= b
      <4>1. /\ Len(buffer') <= offset'
            /\ offset' = Len(buffer') <=> Len(text) = Buffer
        BY <3>2, <3>4, <1>4, <1>7
      <4>2. Len(text) = Buffer => b + Len(buffer') = arrived'
        BY <3>5, <2>1, <1>4, <1>7
      <4>3. ASSUME NEW m \in DOMAIN ends, Has(handled', m)
            PROVE  ends[m] <= b
        <5>1. ends[m] <= a \/ ends[m] <= z
          BY <4>3, <2>8
        <5>2. ends[m] <= z => ends[m] <= b
          BY <3>6, <2>9
        <5> QED
          BY <5>1, <5>2, <2>5, <1>2
      <4> QED
        BY <4>1, <4>2, <4>3
    <3> HIDE DEF b
    <3>7. Kept(T, b)'
      <4>1. worker' = "waiting" => resume # 0
        BY <3>2
      <4> QED
        BY <4>1, <3>4, <3>5, <3>6, <2>1, <2>8a, <1>3 DEF Kept
    <3>8. Complete(b)'
      <4> SUFFICES ASSUME cuts' = {}, resume # 0
                   PROVE  /\ offset' = Len(buffer')
                          /\ \E m \in DOMAIN ends : b = ends[m]
                          /\ \A m \in DOMAIN ends : ends[m] <= arrived' =>
                               ends[m] <= b /\ Has(handled', m)
        BY <3>2, <1>3 DEF Complete
      <4>1. PICK k \in DOMAIN ends :
              /\ Begin(ends, k) = b /\ Begin(ends, k) < z /\ z < ends[k]
              /\ \A m \in DOMAIN ends : ends[m] <= z => ends[m] <= b
        BY <2>9 DEF b
      <4>2. Len(text) = Buffer /\ a < Begin(ends, k) /\ z = arrived'
            /\ \A m \in DOMAIN ends : ends[m] <= z => Has(handled', m)
        BY <4>1, <2>11
      <4>3. k # 1
        BY <4>2, <1>2 DEF Begin
      <4>4. k - 1 \in DOMAIN ends /\ ends[k - 1] = b
        <5>1. DOMAIN ends = 1 .. Len(ends) /\ Len(ends) \in Nat
          BY <1>2 DEF InARow
        <5>2. k - 1 \in DOMAIN ends
          BY <5>1, <4>3
        <5> QED
          BY <5>2, <4>1, <4>3 DEF Begin
      <4> QED
        BY <4>1, <4>2, <4>4, <3>6
    <3>9. \E V, c : Sent(V)' /\ Kept(V, c)' /\ Complete(c)'
      BY <3>7, <3>8, <1>5
    <3> QED
      BY <3>3, <3>9, <2>7 DEF FramingInv
  <2> QED
    BY <2>12, <2>13
<1> QED
  BY <1>3, <1>8, <1>9

(* Nothing happens.                                                        *)
LEMMA FramingInvStutter ==
  ASSUME FramingInv, UNCHANGED vars
  PROVE  FramingInv'
<1>1. /\ size' = size /\ ends' = ends /\ stream' = stream /\ arrived' = arrived
      /\ buffer' = buffer /\ offset' = offset /\ worker' = worker
      /\ handled' = handled /\ cuts' = cuts
  BY DEF vars
<1>2. \A T, a : /\ Sent(T) => Sent(T)'
                /\ Kept(T, a) => Kept(T, a)'
                /\ Complete(a) => Complete(a)'
  BY <1>1 DEF Sent, Kept, Complete
<1>3. \E T, a : Sent(T)' /\ Kept(T, a)' /\ Complete(a)'
  BY <1>2 DEF FramingInv
<1> QED
  BY <1>1, <1>3 DEF FramingInv, Types

(* The state is always explained by a stream of whole messages, of which   *)
(* the buffer's text is a piece that no handled message reaches into: what *)
(* EchoThreadMain's READ branch and RecycleIO keep up from one receive to  *)
(* the next.                                                               *)
THEOREM FramingInvariant == Spec => []FramingInv
<1>1. Init => FramingInv
  BY FramingInvInit
<1>2. FramingInv /\ [Next]_vars => FramingInv'
  <2> SUFFICES ASSUME FramingInv, [Next]_vars
               PROVE  FramingInv'
    OBVIOUS
  <2>1. ASSUME NEW s \in Sizes, Send(s)
        PROVE  FramingInv'
    BY <2>1, FramingInvSend
  <2>2. ASSUME NEW n \in 1 .. Buffer, Receive(n)
        PROVE  FramingInv'
    BY <2>2, FramingInvReceive
  <2>3. CASE UNCHANGED vars
    BY <2>3, FramingInvStutter
  <2> QED
    BY <2>1, <2>2, <2>3 DEF Next
<1> QED
  BY <1>1, <1>2, PTL DEF Spec

(* Every variable of the connection keeps its type, the buffer's offset    *)
(* its bounds: wsaBuf.buf never leaves the buffer.                         *)
THEOREM TypeCorrect == Spec => []TypeOK
<1>1. FramingInv => TypeOK
  <2> SUFFICES ASSUME FramingInv
               PROVE  TypeOK
    OBVIOUS
  <2>1. PICK T, a : Sent(T) /\ Kept(T, a)
    BY DEF FramingInv
  <2>2. /\ size \in Seq(Sizes) /\ Len(size) = Len(ends) /\ Len(size) <= MaxMessages
        /\ ends \in Seq(Nat) /\ stream \in Seq(Char) /\ arrived \in Nat
        /\ buffer \in Seq(Char)
    BY <2>1 DEF Sent, Kept, Stream, Piece, InARow
  <2>3. handled \in Seq([msg : 0 .. MaxMessages, whole : BOOLEAN])
    <3>1. handled \in Seq([msg : Nat, whole : BOOLEAN])
      BY DEF FramingInv, HandledInOrder
    <3>2. ASSUME NEW i \in 1 .. Len(handled)
          PROVE  handled[i] \in [msg : 0 .. MaxMessages, whole : BOOLEAN]
      <4>1. handled[i] \in [msg : Nat, whole : BOOLEAN] /\ i \in DOMAIN handled
        <5> DEFINE Q == [msg : Nat, whole : BOOLEAN]
        <5>1. handled \in Seq(Q)
          BY <3>1
        <5> HIDE DEF Q
        <5>2. handled[i] \in Q /\ i \in DOMAIN handled
          BY <5>1
        <5> QED
          BY <5>2 DEF Q
      <4>2. handled[i].msg \in 1 .. Len(ends)
        BY <4>1, <2>2 DEF FramingInv, HandledInOrder
      <4>3. handled[i].msg \in 0 .. MaxMessages
        BY <4>2, <2>2, FramingAssumption
      <4> QED
        BY <4>1, <4>3
    <3> DEFINE R == [msg : 0 .. MaxMessages, whole : BOOLEAN]
    <3>3. handled \in [1 .. Len(handled) -> R] /\ Len(handled) \in Nat
      BY <3>1, <3>2
    <3> HIDE DEF R
    <3>4. handled \in Seq(R)
      BY <3>3
    <3> QED
      BY <3>4 DEF R
  <2> QED
    BY <2>2, <2>3 DEF TypeOK, FramingInv, Types
<1> QED
  BY <1>1, FramingInvariant, PTL

(* However TCP cuts the stream and whatever is lost by it, HandleMessage   *)
(* is given no message twice, none out of order, and none with the tokens  *)
(* of another one: with any number of messages of any sizes, and a buffer  *)
(* of any length.                                                          *)
THEOREM HandledOnce == Spec => []InOrder
<1>1. FramingInv => InOrder
  BY DEF FramingInv, HandledInOrder, InOrder
<1> QED
  BY <1>1, FramingInvariant, PTL

(* In a state with no bad cut, position a is the end of the last message   *)
(* that has arrived.                                                       *)
LEMMA NothingLost == FramingInv => Reassembled
<1> SUFFICES ASSUME FramingInv, cuts = {}, worker = "waiting"
             PROVE  /\ {handled[i].msg : i \in DOMAIN handled} = Here
                    /\ Len(buffer) = arrived - Max({0} \cup {ends[m] : m \in Here})
  BY DEF Reassembled
<1>1. PICK T, a : Sent(T) /\ Kept(T, a) /\ Complete(a)
  BY DEF FramingInv
<1>2. /\ a \in Nat /\ Len(buffer) \in Nat /\ arrived \in Nat
      /\ a + Len(buffer) = arrived
      /\ \A m \in DOMAIN ends : Has(handled, m) => ends[m] <= a
      /\ a = 0 \/ \E m \in DOMAIN ends : a = ends[m]
      /\ \A m \in DOMAIN ends : ends[m] <= arrived => ends[m] <= a /\ Has(handled, m)
      /\ \A m \in DOMAIN ends : ends[m] \in Nat
  BY <1>1 DEF Sent, Kept, Complete, Stream, Piece, InARow
<1>3. a <= arrived
  <2>1. PICK l \in Nat : l = Len(buffer)
    BY <1>2
  <2>2. a + l = arrived
    BY <2>1, <1>2
  <2> QED
    BY <2>2, <1>2
<1>4. \A m \in DOMAIN ends : ends[m] <= a => ends[m] <= arrived
  BY <1>2, <1>3
<1>5. \A i \in DOMAIN handled : handled[i].msg \in DOMAIN ends
  BY DEF FramingInv, HandledInOrder
<1>6. {handled[i].msg : i \in DOMAIN handled} = Here
  BY <1>2, <1>4, <1>5 DEF Has, Here
<1> DEFINE D == {0} \cup {ends[m] : m \in Here}
<1>7. a \in D /\ \A y \in D : y \in Nat /\ a >= y
  BY <1>2, <1>3 DEF Here
<1>8. Max(D) = a
  <2> HIDE DEF D
  <2>1. \A x \in D : (\A y \in D : x >= y) => x = a
    BY <1>2, <1>7
  <2>2. \E x \in D : \A y \in D : x >= y
    BY <1>7
  <2> QED
    BY <2>1, <2>2 DEF Max
<1>9. Len(buffer) = arrived - a
  <2>1. PICK l \in Nat : l = Len(buffer)
    BY <1>2
  <2>2. a + l = arrived
    BY <2>1, <1>2
  <2> QED
    BY <2>1, <2>2, <1>2
<1> QED
  BY <1>6, <1>8, <1>9

(* The resume logic of HandleMessage and EchoThreadMain does its work: as  *)
(* long as every receive that ends inside a message fills the buffer, and  *)
(* that message is neither the buffer's first nor without its length yet,  *)
(* all that has arrived in full is handled, and the buffer keeps the rest. *)
THEOREM LosesNothing == Spec => []Reassembled
  BY NothingLost, FramingInvariant, PTL

(* A message sent has not arrived.                                         *)
LEMMA SendDelivers ==
  ASSUME FramingInv, NEW s \in Sizes, Send(s)
  PROVE  Connection!Send
<1>1. PICK T, a : Sent(T) /\ Kept(T, a) /\ Complete(a)
  BY DEF FramingInv
<1>2. PICK e \in Messages(Len(size) + 1, s) : stream' = stream \o e
  BY DEF Send
<1>3. /\ Len(size) < MaxMessages /\ size' = Append(size, s)
      /\ ends' = Append(ends, arrived + Len(stream'))
      /\ UNCHANGED <<arrived, buffer, offset, worker, handled, cuts>>
  BY DEF Send
<1>4. /\ size \in Seq(Sizes) /\ Len(size) \in Nat /\ arrived \in Nat
      /\ stream \in Seq(Char) /\ Len(stream) \in Nat
      /\ ends \in Seq(Nat) /\ Len(ends) \in Nat /\ DOMAIN ends = 1 .. Len(ends)
  BY <1>1 DEF Sent, Stream, Piece, InARow
<1>5. e \in Seq(Char) /\ Len(e) \in Nat /\ Len(e) >= 4
  <2>1. Len(size) + 1 \in 1 .. MaxMessages
    BY <1>3, <1>4, FramingAssumption
  <2>2. MessageText(e, Len(size) + 1, s)
    BY <2>1, MessagesAre
  <2> QED
    BY <2>2 DEF MessageText
<1>6. PICK z \in Nat : z = arrived + Len(stream') /\ arrived < z
  <2>1. Len(stream') = Len(stream) + Len(e)
    BY <1>2, <1>4, <1>5
  <2>2. PICK i \in Nat, j \in Nat, c \in Nat :
          i = Len(stream) /\ j = Len(e) /\ c = arrived /\ j >= 4
    BY <1>4, <1>5
  <2>3. c + (i + j) \in Nat /\ c < c + (i + j)
    BY <2>2
  <2> QED
    BY <2>1, <2>2, <2>3
<1>7. Here' = Here
  <2>1. PICK n \in Nat : /\ n = Len(ends) + 1 /\ DOMAIN ends = 1 .. n - 1
                         /\ DOMAIN ends' = 1 .. n
                         /\ \A m \in 1 .. n - 1 : ends'[m] = ends[m]
                         /\ ends'[n] = z
    <3>1. Len(ends) + 1 \in Nat /\ Len(ends) + 1 - 1 = Len(ends)
      BY <1>4
    <3>2. ends' = Append(ends, z)
      BY <1>3, <1>6
    <3> QED
      BY <3>1, <3>2, <1>4
  <2>2. ~(ends'[n] <= arrived)
    BY <2>1, <1>4, <1>6
  <2>3. \A m \in 1 .. n : m \in 1 .. n - 1 \/ m = n
    BY <2>1
  <2>4. \A m \in 1 .. n - 1 : m \in 1 .. n
    BY <2>1
  <2> QED
    BY <2>1, <2>2, <2>3, <2>4, <1>3 DEF Here
<1>8. Len(size)' = Len(size) + 1
  BY <1>3, <1>4
<1> QED
  BY <1>3, <1>7, <1>8 DEF Connection!Send

(* A receive hands over the messages of its text, behind all before.       *)
LEMMA ReceiveDelivers ==
  ASSUME FramingInv, NEW n \in 1 .. Buffer, Receive(n)
  PROVE  Connection!Deliver
<1> DEFINE delivered == [i \in DOMAIN handled |-> handled[i].msg]
<1>1. FramingInv'
  BY FramingInvReceive
<1>2. PICK T, a : Sent(T)' /\ Kept(T, a)'
  BY <1>1 DEF FramingInv
<1>3. PICK U, b : Sent(U) /\ Kept(U, b)
  BY DEF FramingInv
<1>4. /\ UNCHANGED <<size, ends>> /\ worker = "waiting"
      /\ arrived' = arrived + n /\ arrived \in Nat /\ n \in Nat
      /\ cuts' = {} => cuts = {}
  BY <1>3 DEF Receive, Sent, Piece
<1>5. /\ DOMAIN ends = 1 .. Len(size)
      /\ \A m \in DOMAIN ends : ends[m] \in Nat
  BY <1>3 DEF Sent, Stream, InARow
<1>6. Here \subseteq Here' /\ Here' \subseteq 1 .. Len(size)
  BY <1>4, <1>5 DEF Here
<1>7. /\ DOMAIN handled \subseteq DOMAIN handled'
      /\ \A i \in DOMAIN handled : handled'[i] = handled[i]
  <2>1. CASE handled' = handled
    BY <2>1
  <2>2. CASE handled' # handled
    <3> DEFINE R == [msg : Nat, whole : BOOLEAN]
    <3>1. PICK g : /\ handled' = handled \o g /\ g \in Seq(R)
      <4> DEFINE piece == SubSeq(stream, 1, n)
                 text == TextAfter(piece)
                 h == HandleMessage(Split(text), size)
      <4>1. SplitEnds(text) /\ handled' = handled \o h.handled
        BY <2>2 DEF Receive
      <4>2. h.handled \in Seq(R)
        <5>1. \E c : Handles(ends, b, b, c, h)
          <6>1. Piece(U, b, text)
            BY <1>3, TextContinues
          <6> HIDE DEF text
          <6> QED
            BY <6>1, <4>1, <1>3, TextHandled DEF Sent
        <5> HIDE DEF h
        <5> QED
          BY <5>1 DEF Handles
      <4> QED
        BY <4>1, <4>2
    <3>2. handled \in Seq(R)
      BY DEF FramingInv, HandledInOrder
    <3> HIDE DEF R
    <3> QED
      BY <3>1, <3>2
  <2> QED
    BY <2>1, <2>2
<1>8. DOMAIN delivered = DOMAIN handled /\ DOMAIN delivered' = DOMAIN handled'
  OBVIOUS
<1>9. \A i \in DOMAIN handled' : delivered'[i] = handled'[i].msg
  OBVIOUS
<1>10. \A i, j \in DOMAIN handled' : i < j => handled'[i].msg < handled'[j].msg
  BY <1>1 DEF FramingInv, HandledInOrder
<1>11. \A i \in DOMAIN handled' : handled'[i].msg \in Here'
  <2> SUFFICES ASSUME NEW i \in DOMAIN handled'
               PROVE  handled'[i].msg \in Here'
    OBVIOUS
  <2>1. handled'[i].msg \in DOMAIN ends'
    BY <1>1 DEF FramingInv, HandledInOrder
  <2>2. Has(handled', handled'[i].msg)
    BY DEF Has
  <2> QED
    BY <2>1, <2>2, <1>2 DEF Kept, Here
<1>12. cuts' = {} /\ worker' = "waiting" =>
         Here' \subseteq {handled'[i].msg : i \in DOMAIN handled'}
  <2>1. Reassembled'
    BY <1>1, NothingLost, PTL
  <2> QED
    BY <2>1 DEF Reassembled
<1>13. {delivered'[i] : i \in DOMAIN delivered'} = {handled'[i].msg : i \in DOMAIN handled'}
  BY <1>8, <1>9
<1>14. \A i \in DOMAIN delivered : delivered'[i] = delivered[i]
  BY <1>7, <1>8, <1>9
<1> HIDE DEF delivered
<1>15. /\ DOMAIN delivered \subseteq DOMAIN delivered'
       /\ \A i, j \in DOMAIN delivered' : i < j => delivered'[i] < delivered'[j]
       /\ {delivered'[i] : i \in DOMAIN delivered'} \subseteq Here'
  BY <1>7, <1>8, <1>9, <1>10, <1>11, <1>13
<1> QED
  BY <1>4, <1>6, <1>12, <1>13, <1>14, <1>15 DEF Connection!Deliver, delivered

(* A connection delivers its messages as Delivery has it, of any number    *)
(* and sizes and with any buffer: a Send is one of Delivery's, and a       *)
(* Receive, with the loops of Split and HandleMessage, one Deliver.        *)
THEOREM FramingImplementsDelivery == Spec => ImplementsDelivery
<1>1. Init => Connection!Init
  <2> SUFFICES ASSUME Init
               PROVE  Connection!Init
    OBVIOUS
  <2>1. Len(size) = 0 /\ Here = {}
    BY DEF Init, Here
  <2>2. [i \in DOMAIN handled |-> handled[i].msg] = <<>>
    BY DEF Init
  <2> QED
    BY <2>1, <2>2 DEF Init, Connection!Init
<1>2. FramingInv /\ [Next]_vars => [Connection!Next]_(Connection!deliveryVars)
  <2> SUFFICES ASSUME FramingInv, [Next]_vars
               PROVE  Connection!Next \/ UNCHANGED Connection!deliveryVars
    OBVIOUS
  <2>1. CASE UNCHANGED vars
    BY <2>1 DEF vars, Connection!deliveryVars, Here
  <2>2. ASSUME NEW s \in Sizes, Send(s)
        PROVE  Connection!Next
    BY <2>2, SendDelivers DEF Connection!Next
  <2>3. ASSUME NEW n \in 1 .. Buffer, Receive(n)
        PROVE  Connection!Next
    BY <2>3, ReceiveDelivers DEF Connection!Next
  <2> QED
    BY <2>1, <2>2, <2>3 DEF Next
<1> QED
  BY <1>1, <1>2, FramingInvariant, PTL DEF Spec, ImplementsDelivery, Connection!Spec
=============================================================================
