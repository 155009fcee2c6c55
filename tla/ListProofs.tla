----------------------------- MODULE ListProofs -----------------------------
(***************************************************************************)
(* What the list operations do to a list without repetitions: the facts    *)
(* the other proofs cite.                                                  *)
(***************************************************************************)
EXTENDS List, SequenceTheorems, WellFoundedInduction, TLAPS

\* An element is in a list if and only if some position holds it.
LEMMA FindFacts ==
  ASSUME NEW S, NEW s \in Seq(S)
  PROVE  /\ \A y : elem_find(s, y) <=> \E i \in 1..Len(s) : s[i] = y
         /\ IsInjective(s) <=> \A i, j \in 1..Len(s) : s[i] = s[j] => i = j
  <1>1. DOMAIN s = 1..Len(s)
    BY LenProperties
  <1>2. QED
    BY <1>1, Zenon DEF elem_find, Range, IsInjective

\* Nothing is in the empty list.
LEMMA EmptyFacts ==
  /\ \A y : ~elem_find(<< >>, y)
  /\ IsInjective(<< >>)
  <1>1. << >> \in Seq({}) /\ Len(<< >>) = 0
    OBVIOUS
  <1>2. /\ \A y : elem_find(<< >>, y) <=> \E i \in 1..Len(<< >>) : << >>[i] = y
        /\ IsInjective(<< >>) <=>
             \A i, j \in 1..Len(<< >>) : << >>[i] = << >>[j] => i = j
    BY <1>1, FindFacts
  <1>3. 1..Len(<< >>) = {}
    BY <1>1
  <1>4. QED
    BY <1>2, <1>3

\* list_append of a new element keeps the list free of repetitions and adds
\* that element only.
LEMMA AppendFacts ==
  ASSUME NEW S, NEW s \in Seq(S), NEW x \in S
  PROVE  /\ list_append(s, x) \in Seq(S)
         /\ list_append(s, x) # << >>
         /\ \A y : elem_find(list_append(s, x), y) <=> y = x \/ elem_find(s, y)
         /\ IsInjective(s) /\ ~elem_find(s, x) => IsInjective(list_append(s, x))
  <1> DEFINE t == Append(s, x)
  <1>1. t \in Seq(S) /\ Len(t) = Len(s) + 1 /\ Len(s) \in Nat
    BY LenProperties
  <1>2. \A i \in 1..Len(s) : t[i] = s[i]
    OBVIOUS
  <1>3. t[Len(s) + 1] = x
    OBVIOUS
  <1>4. t # << >>
    BY <1>1
  <1> HIDE DEF t
  <1>s. /\ \A y : elem_find(s, y) <=> \E i \in 1..Len(s) : s[i] = y
        /\ IsInjective(s) <=> \A i, j \in 1..Len(s) : s[i] = s[j] => i = j
    BY FindFacts
  <1>t. /\ \A y : elem_find(t, y) <=> \E i \in 1..Len(t) : t[i] = y
        /\ IsInjective(t) <=> \A i, j \in 1..Len(t) : t[i] = t[j] => i = j
    BY <1>1, FindFacts
  <1>a. \A i \in 1..Len(t) : i = Len(s) + 1 \/ i \in 1..Len(s)
    BY <1>1
  <1>b. Len(s) + 1 \in 1..Len(t) /\ 1..Len(s) \subseteq 1..Len(t)
    BY <1>1
  <1>5. \A y : elem_find(t, y) <=> y = x \/ elem_find(s, y)
    BY <1>2, <1>3, <1>a, <1>b, <1>s, <1>t, <1>1
  <1>6. IsInjective(s) /\ ~elem_find(s, x) => IsInjective(t)
    BY <1>2, <1>3, <1>a, <1>s, <1>t, <1>1
  <1>7. QED
    BY <1>1, <1>4, <1>5, <1>6 DEF list_append, t

\* list_push likewise, at the front.
LEMMA PushFacts ==
  ASSUME NEW S, NEW s \in Seq(S), NEW x \in S
  PROVE  /\ list_push(s, x) \in Seq(S)
         /\ list_push(s, x) # << >>
         /\ Head(list_push(s, x)) = x
         /\ \A y : elem_find(list_push(s, x), y) <=> y = x \/ elem_find(s, y)
         /\ IsInjective(s) /\ ~elem_find(s, x) => IsInjective(list_push(s, x))
  <1> DEFINE t == <<x>> \o s
  <1>1. t \in Seq(S) /\ Len(t) = Len(s) + 1 /\ Len(s) \in Nat
    BY LenProperties
  <1>2. \A i \in 1..Len(s) : t[i + 1] = s[i]
    BY <1>1
  <1>3. t[1] = x
    BY <1>1
  <1>4. t # << >> /\ Head(t) = x
    BY <1>1, <1>3
  <1> HIDE DEF t
  <1>s. /\ \A y : elem_find(s, y) <=> \E i \in 1..Len(s) : s[i] = y
        /\ IsInjective(s) <=> \A i, j \in 1..Len(s) : s[i] = s[j] => i = j
    BY FindFacts
  <1>t. /\ \A y : elem_find(t, y) <=> \E i \in 1..Len(t) : t[i] = y
        /\ IsInjective(t) <=> \A i, j \in 1..Len(t) : t[i] = t[j] => i = j
    BY <1>1, FindFacts
  <1>a. \A i \in 1..Len(t) : i # 1 => i - 1 \in 1..Len(s) /\ t[i] = s[i - 1]
    <2>1. SUFFICES ASSUME NEW i \in 1..Len(t), i # 1
                   PROVE  i - 1 \in 1..Len(s) /\ t[i] = s[i - 1]
      OBVIOUS
    <2>2. i - 1 \in 1..Len(s) /\ i = (i - 1) + 1
      BY <1>1, <2>1
    <2>3. QED
      BY <1>2, <2>2
  <1>b. 1 \in 1..Len(t) /\ \A i \in 1..Len(s) : i + 1 \in 1..Len(t)
    BY <1>1
  <1>5. ASSUME NEW y
        PROVE  elem_find(t, y) <=> y = x \/ elem_find(s, y)
    <2>1. ASSUME elem_find(t, y), y # x
          PROVE  elem_find(s, y)
      <3>1. PICK i \in 1..Len(t) : t[i] = y
        BY <1>t, <2>1
      <3>2. i # 1
        BY <1>3, <2>1, <3>1
      <3>3. QED
        BY <1>a, <1>s, <3>1, <3>2
    <2>2. ASSUME elem_find(s, y)
          PROVE  elem_find(t, y)
      <3>1. PICK i \in 1..Len(s) : s[i] = y
        BY <1>s, <2>2
      <3>2. i + 1 \in 1..Len(t) /\ t[i + 1] = y
        BY <1>2, <1>b, <3>1
      <3>3. QED
        BY <1>t, <3>2
    <2>3. elem_find(t, x)
      BY <1>3, <1>b, <1>t
    <2>4. QED
      BY <2>1, <2>2, <2>3
  <1>6. ASSUME IsInjective(s), ~elem_find(s, x)
        PROVE  IsInjective(t)
    <2>1. SUFFICES ASSUME NEW i \in 1..Len(t), NEW j \in 1..Len(t), t[i] = t[j]
                   PROVE  i = j
      BY <1>t
    <2>2. CASE i = 1 \/ j = 1
      BY <1>3, <1>6, <1>a, <1>s, <2>1, <2>2
    <2>3. CASE i # 1 /\ j # 1
      <3>1. i - 1 = j - 1
        BY SMTT(30), <1>6, <1>a, <1>s, <2>1, <2>3
      <3>2. QED
        BY <3>1
    <2>4. QED
      BY <2>2, <2>3
  <1>7. QED
    BY <1>1, <1>4, <1>5, <1>6 DEF list_push, t

\* list_pop takes out the head and nothing else.
LEMMA PopFacts ==
  ASSUME NEW S, NEW s \in Seq(S), s # << >>
  PROVE  /\ Head(s) \in S
         /\ Tail(s) \in Seq(S)
         /\ elem_find(s, Head(s))
         /\ IsInjective(s) =>
              /\ IsInjective(Tail(s))
              /\ \A y : elem_find(Tail(s), y) <=> elem_find(s, y) /\ y # Head(s)
  <1> DEFINE t == Tail(s)
  <1>1. /\ Head(s) \in S /\ t \in Seq(S) /\ Len(t) = Len(s) - 1
        /\ \A i \in 1..Len(t) : t[i] = s[i + 1]
    BY HeadTailProperties
  <1>2. Len(s) \in Nat \ {0} /\ Head(s) = s[1]
    BY EmptySeq
  <1> HIDE DEF t
  <1>3. elem_find(s, Head(s))
    BY <1>2, FindFacts
  <1>4. ASSUME IsInjective(s)
        PROVE  IsInjective(t)
    BY SMTT(30), <1>1, <1>2, <1>4, FindFacts
  <1>5. ASSUME IsInjective(s), NEW y
        PROVE  elem_find(t, y) <=> elem_find(s, y) /\ y # Head(s)
    <2>1. ASSUME elem_find(t, y)
          PROVE  elem_find(s, y) /\ y # Head(s)
      <3>1. PICK i \in 1..Len(t) : t[i] = y
        BY <1>1, <2>1, FindFacts
      <3>2. i + 1 \in 1..Len(s) /\ s[i + 1] = y /\ 1 \in 1..Len(s) /\ i + 1 # 1
        BY <1>1, <1>2, <3>1
      <3>3. QED
        BY <1>2, <1>5, <3>2, FindFacts
    <2>2. ASSUME elem_find(s, y), y # Head(s)
          PROVE  elem_find(t, y)
      <3>1. PICK i \in 1..Len(s) : s[i] = y
        BY <2>2, FindFacts
      <3>2. i - 1 \in 1..Len(t) /\ t[i - 1] = y
        BY <1>1, <1>2, <2>2, <3>1
      <3>3. QED
        BY <1>1, <3>2, FindFacts
    <2>3. QED
      BY <2>1, <2>2
  <1>6. QED
    BY <1>1, <1>3, <1>4, <1>5 DEF t

\* A set of numbers that is not empty has a least element.
LEMMA LeastNat ==
  ASSUME NEW S \in SUBSET Nat, S # {}
  PROVE  \E n \in S : \A m \in S : n <= m
  <1>1. PICK n \in S : \A m \in S : ~(<<m, n>> \in OpToRel(<, Nat))
    BY NatLessThanWellFounded, WFMin
  <1>2. \A m \in S : ~(m < n)
    BY <1>1 DEF OpToRel
  <1>3. QED
    BY <1>2

\* Induction: a set of numbers without a least counterexample holds them all.
LEMMA Inductive ==
  ASSUME NEW T \in SUBSET Nat, 0 \in T, \A n \in T : n + 1 \in T
  PROVE  T = Nat
  <1>1. SUFFICES ASSUME Nat \ T # {} PROVE FALSE
    OBVIOUS
  <1>2. PICK n \in Nat \ T : \A m \in Nat \ T : n <= m
    BY <1>1, LeastNat
  <1>3. n # 0 /\ n - 1 \in Nat /\ n - 1 \in T
    BY <1>2
  <1>4. QED
    BY <1>2, <1>3

\* list_remove takes out the element it is given and nothing else.
LEMMA RemoveFacts ==
  ASSUME NEW S, NEW s \in Seq(S), IsInjective(s), NEW x, elem_find(s, x)
  PROVE  /\ list_remove(s, x) \in Seq(S)
         /\ IsInjective(list_remove(s, x))
         /\ \A y : elem_find(list_remove(s, x), y) <=> elem_find(s, y) /\ y # x
  <1> DEFINE i == CHOOSE k \in DOMAIN s : s[k] = x
             n == Len(s)
             t == [k \in 1..(n - 1) |-> IF k < i THEN s[k] ELSE s[k + 1]]
  <1>1. DOMAIN s = 1..n /\ n \in Nat /\ \A k \in 1..n : s[k] \in S
    BY LenProperties, ElementOfSeq
  <1>s. /\ \A y : elem_find(s, y) <=> \E k \in 1..n : s[k] = y
        /\ \A k, j \in 1..n : s[k] = s[j] => k = j
    BY FindFacts
  <1>2. i \in 1..n /\ s[i] = x
    BY <1>1, <1>s
  <1>3. \A k \in 1..(n - 1) : k \in 1..n /\ k + 1 \in 1..n
    BY <1>1
  <1>4. t \in Seq(S) /\ Len(t) = n - 1
    <2>1. \A k \in 1..(n - 1) : (IF k < i THEN s[k] ELSE s[k + 1]) \in S
      BY <1>1, <1>3
    <2>2. n - 1 \in Nat
      BY <1>1, <1>2
    <2>3. QED
      BY <2>1, <2>2, IsASeq
  <1>5. \A k \in 1..(n - 1) : t[k] = IF k < i THEN s[k] ELSE s[k + 1]
    OBVIOUS
  <1>6. list_remove(s, x) = t
    BY DEF list_remove
  <1> HIDE DEF i, n, t
  <1>t. /\ \A y : elem_find(t, y) <=> \E k \in 1..(n - 1) : t[k] = y
        /\ IsInjective(t) <=> \A k, j \in 1..(n - 1) : t[k] = t[j] => k = j
    BY <1>4, FindFacts
  <1>7. IsInjective(t)
    <2>1. SUFFICES ASSUME NEW k \in 1..(n - 1), NEW j \in 1..(n - 1), t[k] = t[j]
                   PROVE  k = j
      BY <1>t
    <2>2. QED
      BY <1>1, <1>2, <1>3, <1>5, <1>s, <2>1
  <1>8. ASSUME NEW y, elem_find(t, y)
        PROVE  elem_find(s, y) /\ y # x
    <2>1. PICK k \in 1..(n - 1) : t[k] = y
      BY <1>8, <1>t
    <2>2. QED
      BY <1>1, <1>2, <1>3, <1>5, <1>s, <2>1
  <1>9. ASSUME NEW y, elem_find(s, y), y # x
        PROVE  elem_find(t, y)
    <2>1. PICK k \in 1..n : s[k] = y
      BY <1>9, <1>s
    <2>2. k # i
      BY <1>2, <1>9, <2>1
    <2>3. CASE k < i
      <3>1. k \in 1..(n - 1)
        BY <1>1, <1>2, <2>3
      <3>2. QED
        BY <1>5, <1>t, <2>1, <2>3, <3>1
    <2>4. CASE k > i
      <3>1. k - 1 \in 1..(n - 1) /\ ~(k - 1 < i) /\ (k - 1) + 1 = k
        BY <1>1, <1>2, <2>4
      <3>2. t[k - 1] = y
        BY <1>5, <2>1, <3>1
      <3>3. QED
        BY <1>t, <3>1, <3>2
    <2>5. QED
      BY <1>1, <1>2, <2>2, <2>3, <2>4
  <1>10. QED
    BY <1>4, <1>6, <1>7, <1>8, <1>9

\* list_traversal returns an element of the list for which func returns true,
\* when there is one.
LEMMA TraversalFacts ==
  ASSUME NEW T, NEW s \in Seq(T), NEW S, NEW x \in S, elem_find(s, x)
  PROVE  list_traversal(s, S) \in S /\ elem_find(s, list_traversal(s, S))
  <1> DEFINE n == Len(s)
             K == {k \in 1..n : s[k] \in S}
             First(k) == s[k] \in S /\ \A j \in 1..(k - 1) : s[j] \notin S
  <1>1. DOMAIN s = 1..n /\ n \in Nat
    BY LenProperties
  <1>s. \A y : elem_find(s, y) <=> \E k \in 1..n : s[k] = y
    BY FindFacts
  <1>2. K \in SUBSET Nat /\ K # {}
    BY <1>1, <1>s
  <1>3. PICK k \in K : \A j \in K : k <= j
    BY <1>2, LeastNat
  <1>4. \A j \in 1..(k - 1) : j \in 1..n /\ ~(k <= j)
    BY <1>1, <1>3
  <1>5. k \in DOMAIN s /\ First(k)
    BY <1>1, <1>3, <1>4
  <1>6. PICK i \in DOMAIN s : First(i) /\ list_traversal(s, S) = s[i]
    BY <1>5 DEF list_traversal
  <1>7. QED
    BY <1>1, <1>6, <1>s
=============================================================================
