---------------------------- MODULE GraphViewProofs ----------------------------
(***************************************************************************)
(* Theorems about the pages that fold frames into a GraphState: Archive,    *)
(* for a log, a page limit, clicks and runs of any number, and Workspace,   *)
(* for every history, every security graph and any number of clicks and     *)
(* failed polls.  First what is used of lists and of the reducer.           *)
(***************************************************************************)
EXTENDS Archive, Workspace, FiniteSetTheorems, WellFoundedInduction, TLAPS

\* Induction over the naturals up to n, stated of a set.
LEMMA UpTo ==
    ASSUME NEW n \in Nat, NEW S, 0 \in S, \A k \in 0..(n - 1) : k \in S => k + 1 \in S
    PROVE  0..n \subseteq S
<1> DEFINE T == (0..n) \ S
<1> SUFFICES ASSUME T # {}
             PROVE  FALSE
  OBVIOUS
<1>1. T \subseteq Nat
  OBVIOUS
<1> HIDE DEF T
<1>2. PICK k \in T : \A y \in T : ~(<<y, k>> \in OpToRel(<, Nat))
  BY <1>1, NatLessThanWellFounded, WFMin, Zenon
<1>3. \A y \in T : ~(y < k)
  BY <1>1, <1>2 DEF OpToRel
<1>4. k # 0 /\ k - 1 \in 0..(n - 1) /\ k - 1 < k
  BY DEF T
<1>5. k - 1 \in S
  BY <1>3, <1>4 DEF T
<1> QED
  BY <1>4, <1>5 DEF T

\* A non-empty set of numbers up to k has a greatest one.
LEMMA MaxIs ==
    ASSUME NEW k \in Nat, NEW s \in SUBSET (0..k), s # {}
    PROVE  Max(s) \in s /\ \A y \in s : Max(s) >= y
<1> DEFINE S == {j \in 0..k : s \cap (0..j) # {} => \E x \in s : \A y \in s \cap (0..j) : x >= y}
<1>1. 0..k \subseteq S
  <2>1. 0 \in S
    <3>1. s \cap (0..0) # {} => 0 \in s /\ \A y \in s \cap (0..0) : 0 >= y
      OBVIOUS
    <3> QED
      BY <3>1
  <2>2. ASSUME NEW j \in 0..(k - 1), j \in S
        PROVE  j + 1 \in S
    <3>1. CASE j + 1 \in s
      <4>1. \A y \in s \cap (0..(j + 1)) : j + 1 >= y
        OBVIOUS
      <4> QED
        BY <3>1, <4>1
    <3>2. CASE j + 1 \notin s
      <4>1. s \cap (0..(j + 1)) = s \cap (0..j)
        BY <3>2
      <4> QED
        BY <2>2, <4>1
    <3> QED
      BY <3>1, <3>2
  <2> HIDE DEF S
  <2> QED
    BY <2>1, <2>2, UpTo
<1>2. k \in S
  <2> HIDE DEF S
  <2> QED
    BY <1>1
<1>3. \E x \in s : \A y \in s : x >= y
  <2>1. s \cap (0..k) = s
    OBVIOUS
  <2> QED
    BY <1>2, <2>1
<1> QED
  BY <1>3 DEF Max

----------------------------------------------------------------------------
(* filter() and the fold of a log, computed place by place *)

\* f is the recursion of Only, defined up to place n.
Keeping(f, s, S, n) ==
    /\ f[0] = << >>
    /\ \A i \in 1..n : f[i] = IF s[i] \in S THEN Append(f[i - 1], s[i]) ELSE f[i - 1]

Filters(s, S, result) == \E f : Keeping(f, s, S, Len(s)) /\ result = f[Len(s)]

\* The recursion of Only has a solution.
LEMMA OnlyFilters ==
    ASSUME NEW s, Len(s) \in Nat, NEW S
    PROVE  Filters(s, S, Only(s, S))
<1> DEFINE Rec(f, n) ==
             f = [i \in 0..n |-> IF i = 0 THEN << >>
                                 ELSE IF s[i] \in S THEN Append(f[i - 1], s[i]) ELSE f[i - 1]]
           K == {n \in Nat : \E f : Rec(f, n)}
<1>1. 0 \in K
  <2>1. Rec([i \in 0..0 |-> << >>], 0)
    OBVIOUS
  <2> QED
    BY <2>1
<1>2. ASSUME NEW k \in 0..(Len(s) - 1), k \in K
      PROVE  k + 1 \in K
  <2>1. PICK f : Rec(f, k)
    BY <1>2
  <2> DEFINE last == IF s[k + 1] \in S THEN Append(f[k], s[k + 1]) ELSE f[k]
             g == [i \in 0..(k + 1) |-> IF i = k + 1 THEN last ELSE f[i]]
  <2>2. ASSUME NEW i \in 0..(k + 1)
        PROVE  g[i] = IF i = 0 THEN << >>
                      ELSE IF s[i] \in S THEN Append(g[i - 1], s[i]) ELSE g[i - 1]
    <3>1. CASE i = k + 1
      <4>1. k \in 0..(k + 1) /\ k # k + 1 /\ i # 0 /\ i - 1 = k
        BY <3>1
      <4>2. g[i - 1] = f[k] /\ g[i] = last
        BY <3>1, <4>1
      <4> HIDE DEF g
      <4> QED
        BY <3>1, <4>1, <4>2
    <3>2. CASE i \in 0..k
      <4>1. g[i] = f[i] /\ (i # 0 => g[i - 1] = f[i - 1])
        BY <3>2
      <4>2. f[i] = IF i = 0 THEN << >>
                   ELSE IF s[i] \in S THEN Append(f[i - 1], s[i]) ELSE f[i - 1]
        BY <2>1, <3>2
      <4> HIDE DEF g
      <4> QED
        BY <4>1, <4>2
    <3> QED
      BY <3>1, <3>2
  <2>3. Rec(g, k + 1)
    <3>1. g = [i \in 0..(k + 1) |-> g[i]]
      OBVIOUS
    <3> HIDE DEF g
    <3> QED
      BY <2>2, <3>1
  <2> HIDE DEF Rec, g
  <2> QED
    BY <2>3
<1>3. Len(s) \in K
  <2> HIDE DEF K
  <2>1. 0..Len(s) \subseteq K
    BY <1>1, <1>2, UpTo
  <2> QED
    BY <2>1
<1>4. PICK f : f = CHOOSE kept : Rec(kept, Len(s))
  OBVIOUS
<1>5. Rec(f, Len(s))
  BY <1>3, <1>4
<1>6. Only(s, S) = f[Len(s)]
  BY <1>4 DEF Only
<1>7. Keeping(f, s, S, Len(s))
  <2>1. f[0] = << >>
    BY <1>5
  <2>2. ASSUME NEW i \in 1..Len(s)
        PROVE  f[i] = IF s[i] \in S THEN Append(f[i - 1], s[i]) ELSE f[i - 1]
    <3>1. i \in 0..Len(s) /\ i # 0
      OBVIOUS
    <3> QED
      BY <1>5, <3>1
  <2> QED
    BY <2>1, <2>2 DEF Keeping
<1> QED
  BY <1>6, <1>7 DEF Filters

\* And no other.
LEMMA OnlyIs ==
    ASSUME NEW s, Len(s) \in Nat, NEW S, NEW g, Keeping(g, s, S, Len(s))
    PROVE  Only(s, S) = g[Len(s)]
<1>1. PICK f : Keeping(f, s, S, Len(s)) /\ Only(s, S) = f[Len(s)]
  BY OnlyFilters DEF Filters
<1> DEFINE K == {k \in 0..Len(s) : f[k] = g[k]}
<1>2. 0 \in K
  BY <1>1 DEF Keeping
<1>3. ASSUME NEW k \in 0..(Len(s) - 1), k \in K
      PROVE  k + 1 \in K
  <2>1. k + 1 \in 1..Len(s) /\ k + 1 \in 0..Len(s) /\ (k + 1) - 1 = k /\ f[k] = g[k]
    BY <1>3
  <2>2. f[k + 1] = IF s[k + 1] \in S THEN Append(f[k], s[k + 1]) ELSE f[k]
    BY <1>1, <2>1 DEF Keeping
  <2>3. g[k + 1] = IF s[k + 1] \in S THEN Append(g[k], s[k + 1]) ELSE g[k]
    BY <2>1 DEF Keeping
  <2> QED
    BY <2>1, <2>2, <2>3
<1>4. Len(s) \in K
  <2> HIDE DEF K
  <2>1. 0..Len(s) \subseteq K
    BY <1>2, <1>3, UpTo
  <2> QED
    BY <2>1
<1> QED
  BY <1>1, <1>4

\* One more element is kept or not.
LEMMA OnlyAppend ==
    ASSUME NEW R, NEW s \in Seq(R), NEW e \in R, NEW S
    PROVE  Only(Append(s, e), S) = IF e \in S THEN Append(Only(s, S), e) ELSE Only(s, S)
<1>1. PICK f : Keeping(f, s, S, Len(s)) /\ Only(s, S) = f[Len(s)]
  BY OnlyFilters DEF Filters
<1>2. PICK t : t = Append(s, e)
  OBVIOUS
<1>3. /\ Len(t) = Len(s) + 1 /\ Len(s) \in Nat /\ t[Len(s) + 1] = e
      /\ \A i \in 1..Len(s) : t[i] = s[i]
  BY <1>2
<1> DEFINE last == IF e \in S THEN Append(f[Len(s)], e) ELSE f[Len(s)]
           g == [i \in 0..(Len(s) + 1) |-> IF i = Len(s) + 1 THEN last ELSE f[i]]
<1>4. g[Len(s) + 1] = last /\ \A i \in 0..Len(s) : g[i] = f[i]
  BY <1>3
<1>5. Keeping(g, t, S, Len(t))
  <2> HIDE DEF g, last
  <2>1. g[0] = << >>
    BY <1>1, <1>3, <1>4 DEF Keeping
  <2>2. ASSUME NEW i \in 1..Len(t)
        PROVE  g[i] = IF t[i] \in S THEN Append(g[i - 1], t[i]) ELSE g[i - 1]
    <3>1. CASE i = Len(s) + 1
      <4>1. i - 1 = Len(s) /\ Len(s) \in 0..Len(s)
        BY <1>3, <3>1
      <4>2. g[i - 1] = f[Len(s)]
        BY <1>4, <4>1
      <4> QED
        BY <1>3, <1>4, <3>1, <4>2 DEF last
    <3>2. CASE i \in 1..Len(s)
      <4>1. i \in 0..Len(s) /\ i - 1 \in 0..Len(s)
        BY <1>3, <3>2
      <4>2. g[i] = f[i] /\ g[i - 1] = f[i - 1] /\ t[i] = s[i]
        BY <1>3, <1>4, <3>2, <4>1
      <4> QED
        BY <1>1, <3>2, <4>2 DEF Keeping
    <3> QED
      BY <1>3, <3>1, <3>2
  <2> QED
    BY <2>1, <2>2 DEF Keeping
<1> HIDE DEF g
<1>6. Only(t, S) = g[Len(t)]
  <2>1. Len(t) \in Nat
    BY <1>3
  <2> QED
    BY <1>5, <2>1, OnlyIs
<1> QED
  BY <1>1, <1>2, <1>3, <1>4, <1>6

\* What is kept of a list is in it, in its order: p says where each element was.
Sublist(r, s, S, p) ==
    /\ r \in Seq(S) /\ p \in [1..Len(r) -> 1..Len(s)]
    /\ \A j \in 1..Len(r) : r[j] = s[p[j]]
    /\ \A i, j \in 1..Len(r) : i < j => p[i] < p[j]
    /\ \A i \in 1..Len(s) : s[i] \in S => \E j \in 1..Len(r) : p[j] = i

IsSublist(r, s, S) == \E p : Sublist(r, s, S, p)

LEMMA OnlyIsSublist ==
    ASSUME NEW R, NEW s \in Seq(R), NEW S
    PROVE  IsSublist(Only(s, S), s, S)
<1>1. PICK f : Keeping(f, s, S, Len(s)) /\ Only(s, S) = f[Len(s)]
  BY OnlyFilters DEF Filters
<1> DEFINE At(k, p) ==
             /\ f[k] \in Seq(S) /\ p \in [1..Len(f[k]) -> 1..k]
             /\ \A j \in 1..Len(f[k]) : f[k][j] = s[p[j]]
             /\ \A i, j \in 1..Len(f[k]) : i < j => p[i] < p[j]
             /\ \A i \in 1..k : s[i] \in S => \E j \in 1..Len(f[k]) : p[j] = i
           K == {k \in Nat : \E p : At(k, p)}
<1>2. 0 \in K
  <2>1. f[0] = << >>
    BY <1>1 DEF Keeping
  <2>2. At(0, << >>)
    BY <2>1
  <2> HIDE DEF At
  <2> QED
    BY <2>2
<1>3. ASSUME NEW k \in 0..(Len(s) - 1), k \in K
      PROVE  k + 1 \in K
  <2>1. PICK p : At(k, p)
    BY <1>3
  <2>2. k + 1 \in 1..Len(s) /\ (k + 1) - 1 = k /\ k \in Nat
    OBVIOUS
  <2>3. f[k + 1] = IF s[k + 1] \in S THEN Append(f[k], s[k + 1]) ELSE f[k]
    BY <1>1, <2>2 DEF Keeping
  <2>4. CASE s[k + 1] \notin S
    <3>1. f[k + 1] = f[k]
      BY <2>3, <2>4
    <3>2. p \in [1..Len(f[k]) -> 1..(k + 1)]
      BY <2>1
    <3>3. \A i \in 1..(k + 1) : s[i] \in S => i \in 1..k
      BY <2>4
    <3>4. At(k + 1, p)
      BY <2>1, <3>1, <3>2, <3>3
    <3> HIDE DEF At
    <3> QED
      BY <2>2, <3>4
  <2>5. CASE s[k + 1] \in S
    <3>1. PICK n : n = Len(f[k]) + 1
      OBVIOUS
    <3>2. n \in Nat /\ n >= 1 /\ n - 1 = Len(f[k])
      BY <2>1, <3>1
    <3>3. PICK r : r = f[k + 1]
      OBVIOUS
    <3>4. r \in Seq(S) /\ Len(r) = n /\ r[n] = s[k + 1] /\ \A j \in 1..(n - 1) : r[j] = f[k][j]
      BY <2>1, <2>3, <2>5, <3>1, <3>3
    <3>5. PICK q : q = [j \in 1..n |-> IF j = n THEN k + 1 ELSE p[j]]
      OBVIOUS
    <3>6. \A j \in 1..n : j # n => j \in 1..(n - 1)
      BY <3>2
    <3>7. q[n] = k + 1 /\ \A j \in 1..(n - 1) : q[j] = p[j] /\ p[j] \in 1..k
      <4>1. q[n] = k + 1
        BY <3>2, <3>5
      <4>2. ASSUME NEW j \in 1..(n - 1)
            PROVE  q[j] = p[j] /\ p[j] \in 1..k
        <5>1. j \in 1..n /\ j # n
          BY <3>2
        <5>2. q[j] = p[j]
          BY <3>5, <5>1
        <5>3. p \in [1..(n - 1) -> 1..k]
          BY <2>1, <3>2
        <5> QED
          BY <5>2, <5>3
      <4> QED
        BY <4>1, <4>2
    <3>8. q \in [1..n -> 1..(k + 1)]
      <4>1. ASSUME NEW j \in 1..n
            PROVE  q[j] \in 1..(k + 1)
        <5>1. CASE j = n
          BY <2>2, <3>7, <5>1
        <5>2. CASE j # n
          <6>1. j \in 1..(n - 1)
            BY <3>6, <5>2
          <6>2. q[j] \in 1..k
            BY <3>7, <6>1
          <6> QED
            BY <2>2, <6>2
        <5> QED
          BY <5>1, <5>2
      <4>2. q = [j \in 1..n |-> q[j]]
        BY <3>5
      <4> QED
        BY <4>1, <4>2
    <3>9. \A j \in 1..n : r[j] = s[q[j]]
      BY <2>1, <3>2, <3>4, <3>6, <3>7
    <3>10. \A i, j \in 1..n : i < j => q[i] < q[j]
      <4> TAKE i, j \in 1..n
      <4> HAVE i < j
      <4>1. i \in 1..(n - 1)
        BY <3>2
      <4>2. CASE j = n
        BY <3>7, <4>1, <4>2
      <4>3. CASE j # n
        BY <2>1, <3>2, <3>6, <3>7, <4>1, <4>3
      <4> QED
        BY <4>2, <4>3
    <3>11. \A i \in 1..(k + 1) : s[i] \in S => \E j \in 1..n : q[j] = i
      <4> TAKE i \in 1..(k + 1)
      <4> HAVE s[i] \in S
      <4>1. CASE i = k + 1
        BY <3>2, <3>7, <4>1
      <4>2. CASE i # k + 1
        <5>1. i \in 1..k
          BY <4>2
        <5>2. PICK j \in 1..Len(f[k]) : p[j] = i
          BY <2>1, <5>1
        <5>3. j \in 1..(n - 1) /\ j \in 1..n
          BY <3>2, <5>2
        <5> QED
          BY <3>7, <5>2, <5>3
      <4> QED
        BY <4>1, <4>2
    <3>12. At(k + 1, q)
      BY <3>3, <3>4, <3>8, <3>9, <3>10, <3>11
    <3> HIDE DEF At
    <3> QED
      BY <2>2, <3>12
  <2> QED
    BY <2>4, <2>5
<1>4. Len(s) \in K
  <2> HIDE DEF K
  <2>1. 0..Len(s) \subseteq K
    BY <1>2, <1>3, UpTo
  <2> QED
    BY <2>1
<1>5. PICK p : At(Len(s), p)
  BY <1>4
<1>6. Sublist(Only(s, S), s, S, p)
  BY <1>1, <1>5 DEF Sublist
<1> QED
  BY <1>6 DEF IsSublist

\* Elements between a and the end, and no others, are what follows a.
LEMMA OnlySuffix ==
    ASSUME NEW R, NEW s \in Seq(R), NEW S, NEW a \in 0..Len(s),
           \A i \in 1..Len(s) : s[i] \in S <=> i > a
    PROVE  Only(s, S) = SubSeq(s, a + 1, Len(s))
<1>1. PICK f : Keeping(f, s, S, Len(s)) /\ Only(s, S) = f[Len(s)]
  BY OnlyFilters DEF Filters
<1> DEFINE K == {k \in Nat : f[k] = SubSeq(s, a + 1, k)}
<1>2. 0 \in K
  <2>1. f[0] = << >>
    BY <1>1 DEF Keeping
  <2>2. SubSeq(s, a + 1, 0) = << >>
    OBVIOUS
  <2> QED
    BY <2>1, <2>2
<1>3. ASSUME NEW k \in 0..(Len(s) - 1), k \in K
      PROVE  k + 1 \in K
  <2>1. k + 1 \in 1..Len(s) /\ (k + 1) - 1 = k /\ k \in Nat /\ k + 1 \in Nat
    OBVIOUS
  <2>2. f[k + 1] = IF s[k + 1] \in S THEN Append(f[k], s[k + 1]) ELSE f[k]
    BY <1>1, <2>1 DEF Keeping
  <2>3. f[k] = SubSeq(s, a + 1, k)
    BY <1>3
  <2>4. CASE k + 1 <= a
    <3>1. f[k + 1] = f[k]
      BY <2>1, <2>2, <2>4
    <3>2. SubSeq(s, a + 1, k) = << >> /\ SubSeq(s, a + 1, k + 1) = << >>
      BY <2>1, <2>4
    <3>3. f[k + 1] = SubSeq(s, a + 1, k + 1)
      BY <2>3, <3>1, <3>2
    <3> QED
      BY <2>1, <3>3
  <2>5. CASE k + 1 > a
    <3>1. f[k + 1] = Append(f[k], s[k + 1])
      BY <2>1, <2>2, <2>5
    <3>2. SubSeq(s, a + 1, k + 1) = Append(SubSeq(s, a + 1, k), s[k + 1])
      BY <2>1, <2>5
    <3>3. f[k + 1] = SubSeq(s, a + 1, k + 1)
      BY <2>3, <3>1, <3>2
    <3> QED
      BY <2>1, <3>3
  <2> QED
    BY <2>1, <2>4, <2>5
<1>4. Len(s) \in K
  <2> HIDE DEF K
  <2>1. Len(s) \in Nat
    OBVIOUS
  <2>2. 0..Len(s) \subseteq K
    BY <1>2, <1>3, <2>1, UpTo
  <2> QED
    BY <2>1, <2>2
<1> QED
  BY <1>1, <1>4

\* Only what is in the list matters.
LEMMA OnlySame ==
    ASSUME NEW R, NEW s \in Seq(R), NEW S, NEW T, \A i \in 1..Len(s) : s[i] \in S <=> s[i] \in T
    PROVE  Only(s, S) = Only(s, T)
<1>1. Len(s) \in Nat
  OBVIOUS
<1>2. PICK f : Keeping(f, s, S, Len(s)) /\ Only(s, S) = f[Len(s)]
  BY <1>1, OnlyFilters DEF Filters
<1>3. Keeping(f, s, T, Len(s))
  BY <1>2 DEF Keeping
<1>4. Only(s, T) = f[Len(s)]
  BY <1>1, <1>3, OnlyIs
<1> QED
  BY <1>2, <1>4

\* A page begins with the first elements.
LEMMA FirstOnesIs ==
    ASSUME NEW R, NEW s \in Seq(R), NEW limit \in Nat \ {0}
    PROVE  LET t == FirstOnes(s, limit) IN
           /\ t \in Seq(R) /\ Len(t) = IF Len(s) <= limit THEN Len(s) ELSE limit
           /\ \A i \in 1..Len(t) : i \in 1..Len(s) /\ t[i] = s[i]
<1>1. PICK m : m = Min({Len(s), limit})
  OBVIOUS
<1>2. m = IF Len(s) <= limit THEN Len(s) ELSE limit
  <2>1. \E x \in {Len(s), limit} : \A y \in {Len(s), limit} : x <= y
    OBVIOUS
  <2>2. m \in {Len(s), limit} /\ \A y \in {Len(s), limit} : m <= y
    BY <1>1, <2>1 DEF Min
  <2> QED
    BY <2>2
<1>3. m \in 0..Len(s) /\ FirstOnes(s, limit) = SubSeq(s, 1, m)
  BY <1>1, <1>2 DEF FirstOnes
<1>4. PICK t : t = SubSeq(s, 1, m)
  OBVIOUS
<1>5. t \in Seq(R) /\ Len(t) = m /\ \A i \in 1..m : t[i] = s[i]
  BY <1>3, <1>4
<1> QED
  BY <1>2, <1>3, <1>4, <1>5

\* The last of one more.
LEMMA LastOnesAppend ==
    ASSUME NEW R, NEW s \in Seq(R), NEW x \in R, NEW cap \in Nat \ {0}
    PROVE  LastOnes(Append(LastOnes(s, cap), x), cap) = LastOnes(Append(s, x), cap)
<1>1. PICK n : n = Len(s)
  OBVIOUS
<1>2. n \in Nat
  BY <1>1
<1>3. PICK u : u = LastOnes(s, cap)
  OBVIOUS
<1>4. CASE n <= cap
  BY <1>1, <1>4 DEF LastOnes
<1>5. CASE n > cap
  <2>1. u = SubSeq(s, n - cap + 1, n)
    BY <1>1, <1>2, <1>3, <1>5 DEF LastOnes
  <2>2. u \in Seq(R) /\ Len(u) = cap /\ \A i \in 1..cap : u[i] = s[(n - cap) + i]
    BY <1>1, <1>2, <1>5, <2>1
  <2>3. PICK t : t = Append(u, x)
    OBVIOUS
  <2>4. t \in Seq(R) /\ Len(t) = cap + 1 /\ t[cap + 1] = x /\ \A i \in 1..cap : t[i] = u[i]
    BY <2>2, <2>3
  <2>5. LastOnes(t, cap) = SubSeq(t, 2, cap + 1)
    BY <2>4 DEF LastOnes
  <2>6. PICK w : w = Append(s, x)
    OBVIOUS
  <2>7. w \in Seq(R) /\ Len(w) = n + 1 /\ w[n + 1] = x /\ \A i \in 1..n : w[i] = s[i]
    BY <1>1, <1>2, <2>6
  <2>8. LastOnes(w, cap) = SubSeq(w, (n - cap) + 2, n + 1)
    BY <1>2, <1>5, <2>7 DEF LastOnes
  <2>9. PICK a : a = SubSeq(t, 2, cap + 1)
    OBVIOUS
  <2>10. PICK b : b = SubSeq(w, (n - cap) + 2, n + 1)
    OBVIOUS
  <2>11. a \in Seq(R) /\ Len(a) = cap /\ \A i \in 1..cap : a[i] = t[i + 1]
    BY <2>4, <2>9
  <2>12. b \in Seq(R) /\ Len(b) = cap /\ \A i \in 1..cap : b[i] = w[(n - cap) + i + 1]
    BY <1>2, <1>5, <2>7, <2>10
  <2>13. ASSUME NEW i \in 1..cap
         PROVE  a[i] = b[i]
    <3>1. CASE i = cap
      <4>1. (n - cap) + i + 1 = n + 1
        BY <1>2, <3>1
      <4> QED
        BY <2>4, <2>7, <2>11, <2>12, <3>1, <4>1
    <3>2. CASE i # cap
      <4>1. i + 1 \in 1..cap /\ (n - cap) + i + 1 \in 1..n /\ (n - cap) + (i + 1) = (n - cap) + i + 1
        BY <1>2, <1>5, <3>2
      <4>2. a[i] = t[i + 1] /\ t[i + 1] = u[i + 1] /\ u[i + 1] = s[(n - cap) + (i + 1)]
        BY <2>2, <2>4, <2>11, <4>1
      <4>3. b[i] = w[(n - cap) + i + 1]
        BY <2>12
      <4>4. w[(n - cap) + i + 1] = s[(n - cap) + i + 1]
        BY <2>7, <4>1
      <4> QED
        BY <4>1, <4>2, <4>3, <4>4
    <3> QED
      BY <3>1, <3>2
  <2>14. a = [i \in 1..cap |-> a[i]] /\ b = [i \in 1..cap |-> b[i]]
    BY <2>11, <2>12
  <2>15. a = b
    BY <2>13, <2>14
  <2> QED
    BY <1>3, <2>3, <2>5, <2>6, <2>8, <2>9, <2>10, <2>15
<1> QED
  BY <1>2, <1>4, <1>5

Counted(s, S) == Cardinality({i \in DOMAIN s : s[i] \in S})

\* One more event is counted or not.
LEMMA CountedAppend ==
    ASSUME NEW R, NEW s \in Seq(R), NEW e \in R, NEW S
    PROVE  /\ Counted(s, S) \in Nat
           /\ Counted(Append(s, e), S) = Counted(s, S) + IF e \in S THEN 1 ELSE 0
<1>1. PICK k : k = Len(s)
  OBVIOUS
<1>2. PICK t : t = Append(s, e)
  OBVIOUS
<1>3. /\ k \in Nat /\ DOMAIN s = 1..k /\ DOMAIN t = 1..(k + 1) /\ t[k + 1] = e
      /\ \A i \in 1..k : t[i] = s[i]
  BY <1>1, <1>2
<1>4. PICK C : C = {i \in 1..k : s[i] \in S}
  OBVIOUS
<1>5. IsFiniteSet(C) /\ k + 1 \notin C
  <2>1. IsFiniteSet(1..k)
    BY <1>3, FS_Interval
  <2>2. C \subseteq 1..k
    BY <1>4
  <2>3. k + 1 \notin 1..k
    BY <1>3
  <2>4. IsFiniteSet(C)
    BY <2>1, <2>2, FS_Subset
  <2> QED
    BY <2>2, <2>3, <2>4
<1>6. {i \in 1..(k + 1) : t[i] \in S} = IF e \in S THEN C \cup {k + 1} ELSE C
  BY <1>3, <1>4
<1>7. Cardinality(C \cup {k + 1}) = Cardinality(C) + 1 /\ Cardinality(C) \in Nat
  BY <1>5, FS_AddElement, FS_CardinalityType
<1>8. Counted(s, S) = Cardinality(C) /\ Cardinality(C) \in Nat
  BY <1>3, <1>4, <1>7 DEF Counted
<1>9. Counted(t, S) = Cardinality(IF e \in S THEN C \cup {k + 1} ELSE C)
  BY <1>3, <1>6 DEF Counted
<1> QED
  BY <1>2, <1>7, <1>8, <1>9

\* Where an element is appended does not matter.
LEMMA AppendConcat ==
    ASSUME NEW u \in Seq(Nat), NEW v \in Seq(Nat), NEW x \in Nat
    PROVE  Append(u \o v, x) = u \o Append(v, x)
<1>1. PICK t : t = u \o v
  OBVIOUS
<1>2. PICK w : w = Append(v, x)
  OBVIOUS
<1>3. PICK a : a = Append(t, x)
  OBVIOUS
<1>4. PICK b : b = u \o w
  OBVIOUS
<1>5. Len(u) \in Nat /\ Len(v) \in Nat
  OBVIOUS
<1>6. /\ t \in Seq(Nat) /\ Len(t) = Len(u) + Len(v)
      /\ \A i \in 1..Len(u) : t[i] = u[i]
      /\ \A i \in 1..Len(v) : t[Len(u) + i] = v[i]
  BY <1>1
<1>7. w \in Seq(Nat) /\ Len(w) = Len(v) + 1 /\ w[Len(v) + 1] = x /\ \A i \in 1..Len(v) : w[i] = v[i]
  BY <1>2
<1>8. a \in Seq(Nat) /\ Len(a) = Len(t) + 1 /\ a[Len(t) + 1] = x /\ \A i \in 1..Len(t) : a[i] = t[i]
  <2>1. t \in Seq(Nat)
    BY <1>6
  <2> QED
    BY <1>3, <2>1
<1>9. /\ b \in Seq(Nat) /\ Len(b) = Len(u) + Len(w)
      /\ \A i \in 1..Len(u) : b[i] = u[i]
      /\ \A i \in 1..Len(w) : b[Len(u) + i] = w[i]
  <2>1. w \in Seq(Nat)
    BY <1>7
  <2> QED
    BY <1>4, <2>1
<1>10. PICK m : m = Len(u)
  OBVIOUS
<1>11. PICK n : n = Len(v)
  OBVIOUS
<1>12. m \in Nat /\ n \in Nat /\ Len(t) = m + n /\ Len(w) = n + 1
  BY <1>5, <1>6, <1>7, <1>10, <1>11
<1>13. Len(a) = (m + n) + 1 /\ Len(b) = (m + n) + 1
  BY <1>8, <1>9, <1>10, <1>12
<1>14. ASSUME NEW i \in 1..((m + n) + 1)
       PROVE  a[i] = b[i]
  <2>1. CASE i \in 1..m
    <3>1. i \in 1..Len(t)
      BY <1>12, <2>1
    <3> QED
      BY <1>6, <1>8, <1>9, <1>10, <2>1, <3>1
  <2>2. CASE i \in (m + 1)..(m + n)
    <3>1. PICK j : j = i - m
      OBVIOUS
    <3>2. j \in 1..n /\ m + j = i /\ i \in 1..Len(t) /\ j \in 1..Len(w)
      BY <1>12, <2>2, <3>1
    <3>3. a[i] = t[i] /\ t[m + j] = v[j]
      BY <1>6, <1>8, <1>10, <1>11, <3>2
    <3>4. b[m + j] = w[j] /\ w[j] = v[j]
      BY <1>7, <1>9, <1>10, <1>11, <3>2
    <3> QED
      BY <3>2, <3>3, <3>4
  <2>3. CASE i = (m + n) + 1
    <3>1. a[i] = x
      BY <1>8, <1>12, <2>3
    <3>2. b[m + (n + 1)] = w[n + 1] /\ w[n + 1] = x
      BY <1>7, <1>9, <1>10, <1>11, <1>12
    <3>3. m + (n + 1) = i
      BY <1>12, <2>3
    <3> QED
      BY <3>1, <3>2, <3>3
  <2>4. m \in Nat /\ n \in Nat
    BY <1>12
  <2>5. i \in 1..m \/ i \in (m + 1)..(m + n) \/ i = (m + n) + 1
    BY <2>4
  <2> QED
    BY <2>1, <2>2, <2>3, <2>5
<1>15. a = [i \in 1..((m + n) + 1) |-> a[i]] /\ b = [i \in 1..((m + n) + 1) |-> b[i]]
  BY <1>8, <1>9, <1>13
<1>16. a = b
  BY <1>14, <1>15
<1> QED
  BY <1>1, <1>2, <1>3, <1>4, <1>16

LEMMA EventFields == ASSUME NEW e \in EventRecord PROVE e.seq \in Nat /\ e.tick \in Nat
BY DEF EventRecord

\* Two stretches that meet are one.
LEMMA SubSeqJoin ==
    ASSUME NEW R, NEW s \in Seq(R), NEW a \in Nat, NEW b \in Nat, NEW c \in Nat,
           a <= b, b <= c, c <= Len(s)
    PROVE  SubSeq(s, a + 1, b) \o SubSeq(s, b + 1, c) = SubSeq(s, a + 1, c)
<1>1. PICK u : u = SubSeq(s, a + 1, b)
  OBVIOUS
<1>2. PICK v : v = SubSeq(s, b + 1, c)
  OBVIOUS
<1>3. PICK w : w = SubSeq(s, a + 1, c)
  OBVIOUS
<1>4. Len(s) \in Nat
  OBVIOUS
<1>5. u \in Seq(R) /\ Len(u) = b - a /\ \A i \in 1..(b - a) : u[i] = s[a + i]
  BY <1>1, <1>4
<1>6. v \in Seq(R) /\ Len(v) = c - b /\ \A i \in 1..(c - b) : v[i] = s[b + i]
  BY <1>2, <1>4
<1>7. w \in Seq(R) /\ Len(w) = c - a /\ \A i \in 1..(c - a) : w[i] = s[a + i]
  BY <1>3, <1>4
<1>8. PICK t : t = u \o v
  OBVIOUS
<1>9. /\ t \in Seq(R) /\ Len(t) = c - a
      /\ \A i \in 1..(b - a) : t[i] = u[i]
      /\ \A i \in 1..(c - b) : t[(b - a) + i] = v[i]
  <2>1. PICK d : d = b - a
    OBVIOUS
  <2>2. PICK e : e = c - b
    OBVIOUS
  <2>3. d \in Nat /\ e \in Nat /\ d + e = c - a
    BY <2>1, <2>2
  <2>4. u \in Seq(R) /\ v \in Seq(R) /\ Len(u) = d /\ Len(v) = e
    BY <1>5, <1>6, <2>1, <2>2
  <2>5. t \in Seq(R) /\ Len(t) = d + e
    <3>1. t \in Seq(R)
      BY <1>8, <2>4
    <3>2. u \in Seq(R) /\ v \in Seq(R)
      BY <2>4
    <3>3. Len(u \o v) = Len(u) + Len(v)
      BY <3>2
    <3>4. Len(t) = Len(u) + Len(v)
      BY <1>8, <3>3
    <3> QED
      BY <2>4, <3>1, <3>4
  <2>6. \A i \in 1..d : t[i] = u[i]
    BY <1>8, <2>3, <2>4
  <2>7. \A i \in 1..e : t[d + i] = v[i]
    <3>1. \A i \in 1..Len(v) : t[Len(u) + i] = v[i]
      BY <1>5, <1>6, <1>8
    <3> QED
      BY <2>4, <3>1
  <2> QED
    BY <2>1, <2>2, <2>3, <2>5, <2>6, <2>7
<1>10. \A i \in 1..(c - a) : t[i] = w[i]
  <2> TAKE i \in 1..(c - a)
  <2>1. CASE i <= b - a
    <3>1. i \in 1..(b - a)
      BY <2>1
    <3>2. t[i] = u[i]
      BY <1>9, <3>1
    <3>3. u[i] = s[a + i]
      BY <1>5, <3>1
    <3>4. w[i] = s[a + i]
      BY <1>7
    <3> QED
      BY <3>2, <3>3, <3>4
  <2>2. CASE i > b - a
    <3>1. PICK j : j = i - (b - a)
      OBVIOUS
    <3>2. j \in 1..(c - b) /\ (b - a) + j = i /\ b + j = a + i
      BY <2>2, <3>1
    <3>3. t[i] = v[j]
      BY <1>9, <3>2
    <3>4. v[j] = s[b + j] /\ w[i] = s[a + i]
      BY <1>6, <1>7, <3>2
    <3> QED
      BY <3>2, <3>3, <3>4
  <2> QED
    BY <2>1, <2>2
<1>11. t = [i \in 1..(c - a) |-> t[i]] /\ w = [i \in 1..(c - a) |-> w[i]]
  BY <1>7, <1>9
<1>12. t = w
  BY <1>10, <1>11
<1> QED
  BY <1>1, <1>2, <1>3, <1>8, <1>12

----------------------------------------------------------------------------
(* What the reducer shows of a log *)

Folding(f, from, events, n) ==
    f[0] = from /\ \A i \in 1..n : f[i] = reduceEvent(f[i - 1], events[i])

IsFold(view, from, events, n) == \E f : Folding(f, from, events, n) /\ view = f[n]

\* The recursion of foldEvents has a solution.
LEMMA FoldIsComputed ==
    ASSUME NEW from, NEW events, NEW count \in Nat
    PROVE  IsFold(foldEvents(from, events, count), from, events, count)
<1> DEFINE Rec(f, n) ==
             f = [i \in 0..n |-> IF i = 0 THEN from ELSE reduceEvent(f[i - 1], events[i])]
           K == {n \in Nat : \E f : Rec(f, n)}
<1>1. 0 \in K
  <2>1. Rec([i \in 0..0 |-> from], 0)
    OBVIOUS
  <2> QED
    BY <2>1
<1>2. ASSUME NEW k \in 0..(count - 1), k \in K
      PROVE  k + 1 \in K
  <2>1. PICK f : Rec(f, k)
    BY <1>2
  <2> DEFINE last == reduceEvent(f[k], events[k + 1])
             g == [i \in 0..(k + 1) |-> IF i = k + 1 THEN last ELSE f[i]]
  <2>2. ASSUME NEW i \in 0..(k + 1)
        PROVE  g[i] = IF i = 0 THEN from ELSE reduceEvent(g[i - 1], events[i])
    <3>1. CASE i = k + 1
      <4>1. k \in 0..(k + 1) /\ k # k + 1 /\ i # 0 /\ i - 1 = k
        BY <3>1
      <4>2. g[i - 1] = f[k] /\ g[i] = last
        BY <3>1, <4>1
      <4> HIDE DEF g
      <4> QED
        BY <3>1, <4>1, <4>2
    <3>2. CASE i \in 0..k
      <4>1. g[i] = f[i] /\ (i # 0 => g[i - 1] = f[i - 1])
        BY <3>2
      <4>2. f[i] = IF i = 0 THEN from ELSE reduceEvent(f[i - 1], events[i])
        BY <2>1, <3>2
      <4> HIDE DEF g
      <4> QED
        BY <4>1, <4>2
    <3> QED
      BY <3>1, <3>2
  <2>3. Rec(g, k + 1)
    <3>1. g = [i \in 0..(k + 1) |-> g[i]]
      OBVIOUS
    <3> HIDE DEF g
    <3> QED
      BY <2>2, <3>1
  <2> HIDE DEF Rec, g
  <2> QED
    BY <2>3
<1>3. count \in K
  <2> HIDE DEF K
  <2>1. 0..count \subseteq K
    BY <1>1, <1>2, UpTo
  <2> QED
    BY <2>1
<1>4. PICK f : f = CHOOSE view : Rec(view, count)
  OBVIOUS
<1>5. Rec(f, count)
  BY <1>3, <1>4
<1>6. foldEvents(from, events, count) = f[count]
  BY <1>4 DEF foldEvents
<1>7. Folding(f, from, events, count)
  <2>1. f[0] = from
    BY <1>5
  <2>2. ASSUME NEW i \in 1..count
        PROVE  f[i] = reduceEvent(f[i - 1], events[i])
    <3>1. i \in 0..count /\ i # 0
      OBVIOUS
    <3> QED
      BY <1>5, <3>1
  <2> QED
    BY <2>1, <2>2 DEF Folding
<1> QED
  BY <1>6, <1>7 DEF IsFold

Touched(events, a) == {i \in DOMAIN events : Changes(events[i], a)}
Claimed(events, a) == {i \in Touched(events, a) : Claims(events[i])}

\* What an event does to what is said of a node.
NodeMoves(old, new, e, a) ==
    /\ Claims(e) /\ e.target = a =>
         new = [security_state |-> "compromised", compromised_by |-> e.source,
                tick_compromised |-> e.tick]
    /\ e.type = "COMPROMISE_SUCCEEDED" /\ ~Claims(e) /\ e.target = a =>
         new = [old EXCEPT !.security_state = "compromised"]
    /\ e.type = "AGENT_QUARANTINED" /\ e.agent = a =>
         new = [old EXCEPT !.security_state = "quarantined"]
    /\ ~Changes(e, a) => new = old

LEMMA NodeOfAppend ==
    ASSUME NEW events \in Seq(EventRecord), NEW e \in EventRecord, NEW b, NEW a
    PROVE  NodeMoves(NodeOf(b, events, a), NodeOf(b, Append(events, e), a), e, a)
<1>1. PICK k : k = Len(events)
  OBVIOUS
<1>2. PICK more : more = Append(events, e)
  OBVIOUS
<1>3. /\ k \in Nat /\ DOMAIN events = 1..k /\ DOMAIN more = 1..(k + 1) /\ more[k + 1] = e
      /\ \A i \in 1..k : more[i] = events[i]
  BY <1>1, <1>2
<1>4. PICK T : T = Touched(events, a)
  OBVIOUS
<1>5. PICK C : C = Claimed(events, a)
  OBVIOUS
<1>6. PICK TT : TT = Touched(more, a)
  OBVIOUS
<1>7. PICK CC : CC = Claimed(more, a)
  OBVIOUS
<1>8. T \subseteq 1..k /\ C \subseteq 1..k
  BY <1>3, <1>4, <1>5 DEF Touched, Claimed
<1>9. TT = IF Changes(e, a) THEN T \cup {k + 1} ELSE T
  BY <1>3, <1>4, <1>6 DEF Touched
<1>10. CC = IF Changes(e, a) /\ Claims(e) THEN C \cup {k + 1} ELSE C
  BY <1>3, <1>4, <1>5, <1>6, <1>7, <1>8, <1>9 DEF Claimed
<1>11. ASSUME NEW s \in SUBSET (1..k)
       PROVE  Max(s \cup {k + 1}) = k + 1
  <2>1. PICK u : u = s \cup {k + 1}
    OBVIOUS
  <2>2. PICK m : m = k + 1
    OBVIOUS
  <2>3. m \in Nat /\ u # {} /\ m \in u /\ \A y \in u : y \in 0..m
    BY <1>3, <2>1, <2>2
  <2>4. u \in SUBSET (0..m)
    BY <2>3
  <2>5. Max(u) \in u /\ \A y \in u : Max(u) >= y
    BY <2>3, <2>4, MaxIs
  <2>6. Max(u) >= m /\ Max(u) \in 0..m
    BY <2>3, <2>5
  <2>7. Max(u) = m
    BY <2>3, <2>6
  <2> QED
    BY <2>1, <2>2, <2>7
<1>12. ASSUME NEW s \in SUBSET (1..k), s # {}
       PROVE  more[Max(s)] = events[Max(s)]
  <2>1. s \in SUBSET (0..k)
    BY <1>3
  <2>2. Max(s) \in s
    BY <1>3, <1>12, <2>1, MaxIs
  <2> QED
    BY <1>3, <2>2
<1>13. PICK old : old = NodeOf(b, events, a)
  OBVIOUS
<1>14. PICK new : new = NodeOf(b, more, a)
  OBVIOUS
<1>15. old = [security_state |->
                IF T = {} THEN b.security_state
                ELSE IF events[Max(T)].type = "AGENT_QUARANTINED" THEN "quarantined"
                ELSE "compromised",
              compromised_by |-> IF C = {} THEN b.compromised_by ELSE events[Max(C)].source,
              tick_compromised |-> IF C = {} THEN b.tick_compromised ELSE events[Max(C)].tick]
  BY <1>4, <1>5, <1>13 DEF NodeOf, Touched, Claimed
<1>16. new = [security_state |->
                IF TT = {} THEN b.security_state
                ELSE IF more[Max(TT)].type = "AGENT_QUARANTINED" THEN "quarantined"
                ELSE "compromised",
              compromised_by |-> IF CC = {} THEN b.compromised_by ELSE more[Max(CC)].source,
              tick_compromised |-> IF CC = {} THEN b.tick_compromised ELSE more[Max(CC)].tick]
  BY <1>6, <1>7, <1>14 DEF NodeOf, Touched, Claimed
<1>17. Changes(e, a) => TT # {} /\ more[Max(TT)] = e
  BY <1>3, <1>8, <1>9, <1>11
<1>18. CASE Claims(e) /\ e.target = a
  <2>1. Changes(e, a) /\ e.type = "COMPROMISE_SUCCEEDED"
    BY <1>18 DEF Claims, Changes
  <2>2. CC # {} /\ more[Max(CC)] = e
    BY <1>3, <1>8, <1>10, <1>11, <1>18, <2>1
  <2>3. new = [security_state |-> "compromised", compromised_by |-> e.source,
               tick_compromised |-> e.tick]
    BY <1>16, <1>17, <2>1, <2>2
  <2> QED
    BY <1>2, <1>13, <1>14, <1>18, <2>1, <2>3 DEF NodeMoves
<1>19. CASE ~(Claims(e) /\ e.target = a) /\ Changes(e, a)
  <2>1. ~Claims(e)
    BY <1>19 DEF Claims, Changes
  <2>2. CC = C
    BY <1>10, <2>1
  <2>3. CC # {} => more[Max(CC)] = events[Max(C)]
    BY <1>8, <1>12, <2>2
  <2>4. new = [old EXCEPT !.security_state =
                 IF e.type = "AGENT_QUARANTINED" THEN "quarantined" ELSE "compromised"]
    BY <1>15, <1>16, <1>17, <1>19, <2>2, <2>3
  <2>5. e.type = "COMPROMISE_SUCCEEDED" => e.type # "AGENT_QUARANTINED"
    OBVIOUS
  <2> QED
    BY <1>2, <1>13, <1>14, <1>19, <2>1, <2>4, <2>5 DEF NodeMoves
<1>20. CASE ~Changes(e, a)
  <2>1. TT = T /\ CC = C
    BY <1>9, <1>10, <1>20
  <2>2. /\ T # {} => more[Max(TT)] = events[Max(T)]
        /\ C # {} => more[Max(CC)] = events[Max(C)]
    BY <1>8, <1>12, <2>1
  <2>3. new = old
    BY <1>15, <1>16, <2>1, <2>2
  <2>4. /\ ~(Claims(e) /\ e.target = a)
        /\ ~(e.type = "COMPROMISE_SUCCEEDED" /\ e.target = a)
        /\ ~(e.type = "AGENT_QUARANTINED" /\ e.agent = a)
    BY <1>20 DEF Changes, Claims
  <2> QED
    BY <1>2, <1>13, <1>14, <1>20, <2>3, <2>4 DEF NodeMoves
<1> QED
  BY <1>18, <1>19, <1>20

ViewFields == {"lastSeq", "tick", "nodes", "recentEvents", "newCompromises", "modelCalls",
               "incidentsByAgent"}

\* A view before its first event, as a snapshot leaves it.
Fresh(base) ==
    /\ ViewFields \subseteq DOMAIN base
    /\ base.nodes = [a \in DOMAIN base.nodes |-> base.nodes[a]]
    /\ \A a \in DOMAIN base.nodes :
         base.nodes[a] = [security_state |-> base.nodes[a].security_state,
                          compromised_by |-> base.nodes[a].compromised_by,
                          tick_compromised |-> base.nodes[a].tick_compromised]
    /\ base.newCompromises \in Int /\ base.modelCalls \in Int
    /\ \A a \in Agent : base.incidentsByAgent[a] \in Seq(Nat)
                        /\ Len(base.incidentsByAgent[a]) <= IncidentLogCap

LEMMA FreshShowsNothing ==
    ASSUME NEW base, Fresh(base)
    PROVE  Shows(base, base, << >>)
<1>1. \A a \in DOMAIN base.nodes : NodeOf(base.nodes[a], << >>, a) = base.nodes[a]
  <2> TAKE a \in DOMAIN base.nodes
  <2>1. {i \in DOMAIN << >> : Changes(<< >>[i], a)} = {}
    OBVIOUS
  <2>2. PICK b : b = base.nodes[a]
    OBVIOUS
  <2>3. b = [security_state |-> b.security_state, compromised_by |-> b.compromised_by,
             tick_compromised |-> b.tick_compromised]
    BY <2>2 DEF Fresh
  <2>4. NodeOf(b, << >>, a) = [security_state |-> b.security_state,
                               compromised_by |-> b.compromised_by,
                               tick_compromised |-> b.tick_compromised]
    BY <2>1 DEF NodeOf
  <2> QED
    BY <2>2, <2>3, <2>4
<1>2. base.nodes = [a \in DOMAIN base.nodes |-> NodeOf(base.nodes[a], << >>, a)]
  BY <1>1 DEF Fresh
<1>3. /\ {i \in DOMAIN << >> : Claims(<< >>[i])} = {}
      /\ {i \in DOMAIN << >> : << >>[i].type = "MODEL_REQUESTED"} = {}
  OBVIOUS
<1>4. Cardinality({}) = 0
  BY FS_EmptySet
<1>5. base.newCompromises + 0 = base.newCompromises /\ base.modelCalls + 0 = base.modelCalls
  BY DEF Fresh
<1>6. ASSUME NEW a \in Agent
      PROVE  LET mine == Only(<< >>, {e \in Range(<< >>) : Names(e, a)})
             IN  LastOnes(base.incidentsByAgent[a] \o [i \in DOMAIN mine |-> mine[i].seq],
                          IncidentLogCap) = base.incidentsByAgent[a]
  <2>1. PICK S : S = {e \in Range(<< >>) : Names(e, a)}
    OBVIOUS
  <2>2. PICK mine : mine = Only(<< >>, S)
    OBVIOUS
  <2>3. mine = << >>
    <3>1. Keeping([i \in 0..0 |-> << >>], << >>, S, Len(<< >>))
      BY DEF Keeping
    <3>2. PICK g : g = [i \in 0..0 |-> << >>]
      OBVIOUS
    <3>3. Len(<< >>) = 0 /\ Len(<< >>) \in Nat
      OBVIOUS
    <3>4. Keeping(g, << >>, S, Len(<< >>))
      BY <3>1, <3>2
    <3>5. Only(<< >>, S) = g[Len(<< >>)]
      BY <3>3, <3>4, OnlyIs
    <3> QED
      BY <2>2, <3>2, <3>3, <3>5
  <2>4. [i \in DOMAIN mine |-> mine[i].seq] = << >>
    BY <2>3
  <2>5. PICK inc : inc = base.incidentsByAgent[a]
    OBVIOUS
  <2>6. inc \in Seq(Nat) /\ Len(inc) <= IncidentLogCap
    BY <2>5 DEF Fresh
  <2>7. inc \o << >> = inc
    BY <2>6
  <2>8. LastOnes(inc, IncidentLogCap) = inc
    BY <2>6 DEF LastOnes
  <2> QED
    BY <2>1, <2>2, <2>4, <2>5, <2>7, <2>8
<1> QED
  BY <1>2, <1>3, <1>4, <1>5, <1>6 DEF Shows

\* The seqs of the incidents of one agent.
Incidents(events, a) ==
    LET mine == Only(events, {e \in Range(events) : Names(e, a)})
    IN  [i \in DOMAIN mine |-> mine[i].seq]

LEMMA IncidentsOfMine ==
    ASSUME NEW events \in Seq(EventRecord), NEW a
    PROVE  LET mine == Only(events, {e \in EventRecord : Names(e, a)})
           IN  mine \in Seq(EventRecord) /\ Incidents(events, a) = [i \in DOMAIN mine |-> mine[i].seq]
<1>1. PICK S : S = {e \in Range(events) : Names(e, a)}
  OBVIOUS
<1>2. PICK U : U = {e \in EventRecord : Names(e, a)}
  OBVIOUS
<1>3. \A i \in 1..Len(events) : events[i] \in EventRecord /\ events[i] \in Range(events)
  BY DEF Range
<1>4. \A i \in 1..Len(events) : events[i] \in S <=> events[i] \in U
  BY <1>1, <1>2, <1>3
<1>5. Only(events, S) = Only(events, U)
  BY <1>4, OnlySame
<1>6. PICK mine : mine = Only(events, U)
  OBVIOUS
<1>7. IsSublist(mine, events, U)
  BY <1>6, OnlyIsSublist
<1>8. mine \in Seq(U)
  BY <1>7 DEF IsSublist, Sublist
<1>9. mine \in Seq(EventRecord)
  BY <1>2, <1>8
<1> QED
  BY <1>1, <1>2, <1>5, <1>6, <1>9 DEF Incidents

LEMMA IncidentsAppend ==
    ASSUME NEW events \in Seq(EventRecord), NEW e \in EventRecord, NEW a
    PROVE  /\ Incidents(events, a) \in Seq(Nat)
           /\ Incidents(Append(events, e), a) =
                IF Names(e, a) THEN Append(Incidents(events, a), e.seq) ELSE Incidents(events, a)
<1>1. PICK U : U = {x \in EventRecord : Names(x, a)}
  OBVIOUS
<1>2. PICK more : more = Append(events, e)
  OBVIOUS
<1>3. more \in Seq(EventRecord)
  BY <1>2
<1>4. PICK mine : mine = Only(events, U)
  OBVIOUS
<1>5. PICK ours : ours = Only(more, U)
  OBVIOUS
<1>6. mine \in Seq(EventRecord) /\ Incidents(events, a) = [i \in DOMAIN mine |-> mine[i].seq]
  BY <1>1, <1>4, IncidentsOfMine
<1>7. ours \in Seq(EventRecord) /\ Incidents(more, a) = [i \in DOMAIN ours |-> ours[i].seq]
  BY <1>1, <1>3, <1>5, IncidentsOfMine
<1>8. ours = IF e \in U THEN Append(mine, e) ELSE mine
  BY <1>2, <1>4, <1>5, OnlyAppend
<1>9. PICK k : k = Len(mine)
  OBVIOUS
<1>10. k \in Nat /\ DOMAIN mine = 1..k /\ \A i \in 1..k : mine[i].seq \in Nat
  <2>1. k \in Nat /\ DOMAIN mine = 1..k
    BY <1>6, <1>9
  <2>2. ASSUME NEW i \in 1..k
        PROVE  mine[i].seq \in Nat
    <3>1. mine[i] \in EventRecord
      BY <1>6, <1>9
    <3> QED
      BY <3>1, EventFields
  <2> QED
    BY <2>1, <2>2
<1>11. PICK s : s = [i \in 1..k |-> mine[i].seq]
  OBVIOUS
<1>12. s \in Seq(Nat) /\ Len(s) = k /\ \A i \in 1..k : s[i] = mine[i].seq
  BY <1>10, <1>11
<1>13. Incidents(events, a) = s
  BY <1>6, <1>10, <1>11
<1>14. e \in U <=> Names(e, a)
  BY <1>1
<1>15. CASE e \in U
  <2>1. /\ DOMAIN ours = 1..(k + 1) /\ ours[k + 1] = e
        /\ \A i \in 1..k : ours[i] = mine[i]
    BY <1>6, <1>8, <1>9, <1>15
  <2>2. PICK t : t = Append(s, e.seq)
    OBVIOUS
  <2>3. e.seq \in Nat
    BY EventFields
  <2>4. t \in Seq(Nat) /\ Len(t) = k + 1 /\ t[k + 1] = e.seq /\ \A i \in 1..k : t[i] = s[i]
    BY <1>10, <1>12, <2>2, <2>3
  <2>5. ASSUME NEW i \in 1..(k + 1)
        PROVE  t[i] = ours[i].seq
    <3>1. CASE i = k + 1
      BY <2>1, <2>4, <3>1
    <3>2. CASE i # k + 1
      <4>1. i \in 1..k
        BY <1>10, <3>2
      <4> QED
        BY <1>12, <2>1, <2>4, <4>1
    <3> QED
      BY <3>1, <3>2
  <2>6. t = [i \in 1..(k + 1) |-> t[i]]
    BY <2>4
  <2>7. t = [i \in 1..(k + 1) |-> ours[i].seq]
    BY <2>5, <2>6
  <2>8. Incidents(more, a) = t
    BY <1>7, <2>1, <2>7
  <2> QED
    BY <1>2, <1>12, <1>13, <1>14, <1>15, <2>2, <2>8
<1>16. CASE e \notin U
  <2>1. ours = mine
    BY <1>8, <1>16
  <2>2. Incidents(more, a) = s
    BY <1>6, <1>7, <1>13, <2>1
  <2> QED
    BY <1>2, <1>12, <1>13, <1>14, <1>16, <2>2
<1> QED
  BY <1>15, <1>16

\* The nodes after one more event.
LEMMA NodesStep ==
    ASSUME NEW base, NEW nodes, NEW events \in Seq(EventRecord), NEW e \in EventRecord,
           nodes = [a \in DOMAIN base.nodes |-> NodeOf(base.nodes[a], events, a)]
    PROVE  NodesAfter(nodes, e)
             = [a \in DOMAIN base.nodes |-> NodeOf(base.nodes[a], Append(events, e), a)]
<1>1. PICK D : D = DOMAIN base.nodes
  OBVIOUS
<1>2. PICK more : more = Append(events, e)
  OBVIOUS
<1>3. PICK target : target = [a \in D |-> NodeOf(base.nodes[a], more, a)]
  OBVIOUS
<1>4. DOMAIN nodes = D /\ \A a \in D : nodes[a] = NodeOf(base.nodes[a], events, a)
  BY <1>1
<1>5. ASSUME NEW a \in D
      PROVE  NodeMoves(nodes[a], target[a], e, a)
  <2>1. PICK b : b = base.nodes[a]
    OBVIOUS
  <2>2. nodes[a] = NodeOf(b, events, a) /\ target[a] = NodeOf(b, Append(events, e), a)
    BY <1>2, <1>3, <1>4, <2>1
  <2> QED
    BY <2>2, NodeOfAppend
<1>6. PICK after : after = NodesAfter(nodes, e)
  OBVIOUS
<1>7. nodes = [a \in D |-> nodes[a]] /\ target = [a \in D |-> target[a]]
  BY <1>1, <1>3
<1>8. CASE Claims(e) /\ e.target \in D
  <2>1. e.type = "COMPROMISE_SUCCEEDED"
    BY <1>8 DEF Claims
  <2>2. after = [nodes EXCEPT ![e.target] = [security_state |-> "compromised",
                                             compromised_by |-> e.source, tick_compromised |-> e.tick]]
    BY <1>4, <1>6, <1>8, <2>1 DEF NodesAfter
  <2>3. ASSUME NEW a \in D
        PROVE  after[a] = target[a]
    <3>1. CASE a = e.target
      BY <1>4, <1>5, <1>8, <2>2, <3>1 DEF NodeMoves
    <3>2. CASE a # e.target
      <4>1. ~Changes(e, a)
        BY <2>1, <3>2 DEF Changes
      <4> QED
        BY <1>4, <1>5, <2>2, <3>2, <4>1 DEF NodeMoves
    <3> QED
      BY <3>1, <3>2
  <2>4. after = [a \in D |-> after[a]]
    BY <1>4, <2>2
  <2>5. after = target
    BY <1>7, <2>3, <2>4
  <2> QED
    BY <1>1, <1>2, <1>3, <1>6, <2>5
<1>9. CASE e.type = "COMPROMISE_SUCCEEDED" /\ ~Claims(e) /\ e.target \in D
  <2>1. after = [nodes EXCEPT ![e.target].security_state = "compromised"]
    BY <1>4, <1>6, <1>9 DEF NodesAfter
  <2>2. ASSUME NEW a \in D
        PROVE  after[a] = target[a]
    <3>1. CASE a = e.target
      BY <1>4, <1>5, <1>9, <2>1, <3>1 DEF NodeMoves
    <3>2. CASE a # e.target
      <4>1. ~Changes(e, a)
        BY <1>9, <3>2 DEF Changes
      <4> QED
        BY <1>4, <1>5, <2>1, <3>2, <4>1 DEF NodeMoves
    <3> QED
      BY <3>1, <3>2
  <2>3. after = [a \in D |-> after[a]]
    BY <1>4, <2>1
  <2>4. after = target
    BY <1>7, <2>2, <2>3
  <2> QED
    BY <1>1, <1>2, <1>3, <1>6, <2>4
<1>10. CASE e.type = "AGENT_QUARANTINED" /\ e.agent \in D
  <2>1. e.type # "COMPROMISE_SUCCEEDED"
    BY <1>10
  <2>2. after = [nodes EXCEPT ![e.agent].security_state = "quarantined"]
    BY <1>4, <1>6, <1>10, <2>1 DEF NodesAfter, Claims
  <2>3. ASSUME NEW a \in D
        PROVE  after[a] = target[a]
    <3>1. CASE a = e.agent
      BY <1>4, <1>5, <1>10, <2>2, <3>1 DEF NodeMoves
    <3>2. CASE a # e.agent
      <4>1. ~Changes(e, a)
        BY <2>1, <3>2 DEF Changes
      <4> QED
        BY <1>4, <1>5, <2>2, <3>2, <4>1 DEF NodeMoves
    <3> QED
      BY <3>1, <3>2
  <2>4. after = [a \in D |-> after[a]]
    BY <1>4, <2>2
  <2>5. after = target
    BY <1>7, <2>3, <2>4
  <2> QED
    BY <1>1, <1>2, <1>3, <1>6, <2>5
<1>11. CASE /\ ~(e.type = "COMPROMISE_SUCCEEDED" /\ e.target \in D)
            /\ ~(e.type = "AGENT_QUARANTINED" /\ e.agent \in D)
  <2>1. after = nodes
    BY <1>4, <1>6, <1>11 DEF NodesAfter, Claims
  <2>2. ASSUME NEW a \in D
        PROVE  after[a] = target[a]
    <3>1. ~Changes(e, a)
      BY <1>11 DEF Changes
    <3> QED
      BY <1>5, <2>1, <3>1 DEF NodeMoves
  <2>3. after = target
    BY <1>7, <2>1, <2>2
  <2> QED
    BY <1>1, <1>2, <1>3, <1>6, <2>3
<1> QED
  BY <1>8, <1>9, <1>10, <1>11 DEF Claims

ClaimSet   == {e \in EventRecord : Claims(e)}
RequestSet == {e \in EventRecord : e.type = "MODEL_REQUESTED"}

\* Shows, said with the operators that the lemmas are about.
LEMMA ShowsIs ==
    ASSUME NEW v, NEW base, NEW events \in Seq(EventRecord)
    PROVE  Shows(v, base, events) <=>
             /\ v.nodes = [a \in DOMAIN base.nodes |-> NodeOf(base.nodes[a], events, a)]
             /\ v.newCompromises = base.newCompromises + Counted(events, ClaimSet)
             /\ v.modelCalls = base.modelCalls + Counted(events, RequestSet)
             /\ \A a \in Agent :
                  v.incidentsByAgent[a] =
                    LastOnes(base.incidentsByAgent[a] \o Incidents(events, a), IncidentLogCap)
<1>1. \A i \in DOMAIN events : events[i] \in EventRecord
  OBVIOUS
<1>2. /\ {i \in DOMAIN events : Claims(events[i])} = {i \in DOMAIN events : events[i] \in ClaimSet}
      /\ {i \in DOMAIN events : events[i].type = "MODEL_REQUESTED"}
           = {i \in DOMAIN events : events[i] \in RequestSet}
  BY <1>1 DEF ClaimSet, RequestSet
<1> QED
  BY <1>2 DEF Shows, Counted, Incidents

\* One more event in the log, one step of the reducer.
LEMMA ShowsStep ==
    ASSUME NEW base, Fresh(base), NEW v, ViewFields \subseteq DOMAIN v,
           NEW events \in Seq(EventRecord), NEW e \in EventRecord, Shows(v, base, events)
    PROVE  /\ ViewFields \subseteq DOMAIN reduceEvent(v, e)
           /\ Shows(reduceEvent(v, e), base, Append(events, e))
<1>1. PICK w : w = reduceEvent(v, e)
  OBVIOUS
<1>2. /\ ViewFields \subseteq DOMAIN w
      /\ w.nodes = NodesAfter(v.nodes, e)
      /\ w.newCompromises = IF Claims(e) THEN v.newCompromises + 1 ELSE v.newCompromises
      /\ w.modelCalls = IF e.type = "MODEL_REQUESTED" THEN v.modelCalls + 1 ELSE v.modelCalls
      /\ w.incidentsByAgent = recordIncident(v.incidentsByAgent, e)
  BY <1>1 DEF reduceEvent, ViewFields
<1>3. PICK more : more = Append(events, e)
  OBVIOUS
<1>4. more \in Seq(EventRecord)
  BY <1>3
<1>5. /\ v.nodes = [a \in DOMAIN base.nodes |-> NodeOf(base.nodes[a], events, a)]
      /\ v.newCompromises = base.newCompromises + Counted(events, ClaimSet)
      /\ v.modelCalls = base.modelCalls + Counted(events, RequestSet)
      /\ \A a \in Agent :
           v.incidentsByAgent[a] =
             LastOnes(base.incidentsByAgent[a] \o Incidents(events, a), IncidentLogCap)
  BY ShowsIs
<1>6. w.nodes = [a \in DOMAIN base.nodes |-> NodeOf(base.nodes[a], more, a)]
  BY <1>2, <1>3, <1>5, NodesStep
<1>7. base.newCompromises \in Int /\ base.modelCalls \in Int
  BY DEF Fresh
<1>8. w.newCompromises = base.newCompromises + Counted(more, ClaimSet)
  <2>1. /\ Counted(events, ClaimSet) \in Nat
        /\ Counted(more, ClaimSet) = Counted(events, ClaimSet) + IF e \in ClaimSet THEN 1 ELSE 0
    BY <1>3, CountedAppend
  <2>2. e \in ClaimSet <=> Claims(e)
    BY DEF ClaimSet
  <2> QED
    BY <1>2, <1>5, <1>7, <2>1, <2>2
<1>9. w.modelCalls = base.modelCalls + Counted(more, RequestSet)
  <2>1. /\ Counted(events, RequestSet) \in Nat
        /\ Counted(more, RequestSet) = Counted(events, RequestSet) + IF e \in RequestSet THEN 1 ELSE 0
    BY <1>3, CountedAppend
  <2>2. e \in RequestSet <=> e.type = "MODEL_REQUESTED"
    BY DEF RequestSet
  <2> QED
    BY <1>2, <1>5, <1>7, <2>1, <2>2
<1>10. ASSUME NEW a \in Agent
       PROVE  w.incidentsByAgent[a] =
                LastOnes(base.incidentsByAgent[a] \o Incidents(more, a), IncidentLogCap)
  <2>1. PICK was : was = base.incidentsByAgent[a]
    OBVIOUS
  <2>2. PICK s : s = Incidents(events, a)
    OBVIOUS
  <2>3. was \in Seq(Nat)
    BY <2>1 DEF Fresh
  <2>4. s \in Seq(Nat) /\ Incidents(more, a) = IF Names(e, a) THEN Append(s, e.seq) ELSE s
    BY <1>3, <2>2, IncidentsAppend
  <2>5. w.incidentsByAgent[a] = IF Names(e, a)
                                THEN LastOnes(Append(v.incidentsByAgent[a], e.seq), IncidentLogCap)
                                ELSE v.incidentsByAgent[a]
    BY <1>2 DEF recordIncident, Names
  <2>6. v.incidentsByAgent[a] = LastOnes(was \o s, IncidentLogCap)
    BY <1>5, <2>1, <2>2
  <2>7. CASE Names(e, a)
    <3>1. PICK u : u = was \o s
      OBVIOUS
    <3>2. u \in Seq(Nat) /\ e.seq \in Nat /\ IncidentLogCap \in Nat \ {0}
      BY <2>3, <2>4, <3>1, EventFields, CapAssumption
    <3>3. LastOnes(Append(LastOnes(u, IncidentLogCap), e.seq), IncidentLogCap)
            = LastOnes(Append(u, e.seq), IncidentLogCap)
      BY <3>2, LastOnesAppend
    <3>4. Append(u, e.seq) = was \o Append(s, e.seq)
      <4>1. s \in Seq(Nat) /\ e.seq \in Nat
        BY <2>4, <3>2
      <4>2. Append(was \o s, e.seq) = was \o Append(s, e.seq)
        BY <2>3, <4>1, AppendConcat
      <4> QED
        BY <3>1, <4>2
    <3> QED
      BY <2>1, <2>4, <2>5, <2>6, <2>7, <3>1, <3>3, <3>4
  <2>8. CASE ~Names(e, a)
    BY <2>1, <2>4, <2>5, <2>6, <2>8
  <2> QED
    BY <2>7, <2>8
<1>11. Shows(w, base, more)
  BY <1>4, <1>6, <1>8, <1>9, <1>10, ShowsIs
<1> QED
  BY <1>1, <1>2, <1>3, <1>11

\* A stretch of the log from its start, with one more event.
LEMMA PrefixGrows ==
    ASSUME NEW events \in Seq(EventRecord), NEW i \in 0..(Len(events) - 1)
    PROVE  /\ SubSeq(events, 1, i) \in Seq(EventRecord) /\ events[i + 1] \in EventRecord
           /\ SubSeq(events, 1, i + 1) = Append(SubSeq(events, 1, i), events[i + 1])
OBVIOUS

\* A seek folds the log from its start: it shows the prefix.
LEMMA FoldShows ==
    ASSUME NEW base, Fresh(base), NEW events \in Seq(EventRecord), NEW count \in 0..Len(events)
    PROVE  LET v == foldEvents(base, events, count) IN
           ViewFields \subseteq DOMAIN v /\ Shows(v, base, SubSeq(events, 1, count))
<1>1. count \in Nat
  OBVIOUS
<1>2. PICK f : Folding(f, base, events, count) /\ foldEvents(base, events, count) = f[count]
  BY <1>1, FoldIsComputed DEF IsFold
<1> DEFINE K == {k \in Nat : ViewFields \subseteq DOMAIN f[k] /\ Shows(f[k], base, SubSeq(events, 1, k))}
<1>3. 0 \in K
  <2>1. f[0] = base
    BY <1>2 DEF Folding
  <2>2. SubSeq(events, 1, 0) = << >>
    OBVIOUS
  <2>3. ViewFields \subseteq DOMAIN base
    BY DEF Fresh
  <2> QED
    BY <2>1, <2>2, <2>3, FreshShowsNothing
<1>4. ASSUME NEW k \in 0..(count - 1), k \in K
      PROVE  k + 1 \in K
  <2>1. k + 1 \in 1..count /\ (k + 1) - 1 = k /\ k \in 0..(Len(events) - 1) /\ k + 1 \in Nat
    OBVIOUS
  <2>2. f[k + 1] = reduceEvent(f[k], events[k + 1])
    BY <1>2, <2>1 DEF Folding
  <2>3. ViewFields \subseteq DOMAIN f[k] /\ Shows(f[k], base, SubSeq(events, 1, k))
    BY <1>4
  <2>4. /\ SubSeq(events, 1, k) \in Seq(EventRecord) /\ events[k + 1] \in EventRecord
        /\ SubSeq(events, 1, k + 1) = Append(SubSeq(events, 1, k), events[k + 1])
    BY <2>1, PrefixGrows
  <2>5. /\ ViewFields \subseteq DOMAIN reduceEvent(f[k], events[k + 1])
        /\ Shows(reduceEvent(f[k], events[k + 1]), base, Append(SubSeq(events, 1, k), events[k + 1]))
    BY <2>3, <2>4, ShowsStep
  <2> QED
    BY <2>1, <2>2, <2>4, <2>5
<1>5. count \in K
  <2> HIDE DEF K
  <2>1. 0..count \subseteq K
    BY <1>1, <1>3, <1>4, UpTo
  <2> QED
    BY <2>1
<1> QED
  BY <1>2, <1>5

----------------------------------------------------------------------------
(* The list of runs *)

\* The rows of the list in the order of the query.
LEMMA NewestFirstIs ==
    ASSUME runs \in Seq(BOOLEAN), NEW ns \in SUBSET DOMAIN runs
    PROVE  LET r == NewestFirst(ns) IN
           /\ r \in Seq(ns)
           /\ \A i, j \in 1..Len(r) : i < j => r[i] > r[j]
           /\ \A n \in ns : \E j \in 1..Len(r) : r[j] = n
<1>1. PICK k : k = Len(runs)
  OBVIOUS
<1>2. k \in Nat /\ DOMAIN runs = 1..k
  BY <1>1
<1>3. PICK u : u = [n \in 1..k |-> n]
  OBVIOUS
<1>4. Len(u) = k /\ u \in Seq(Nat) /\ \A n \in 1..k : u[n] = n
  BY <1>2, <1>3
<1>5. PICK s : s = Reverse(u)
  OBVIOUS
<1>6. s = [i \in 1..k |-> u[(k - i) + 1]]
  BY <1>4, <1>5 DEF Reverse
<1>7. \A i \in 1..k : s[i] = (k - i) + 1
  <2> TAKE i \in 1..k
  <2>1. (k - i) + 1 \in 1..k
    BY <1>2
  <2> QED
    BY <1>4, <1>6, <2>1
<1>8. s \in Seq(Nat) /\ Len(s) = k
  <2>1. \A i \in 1..k : s[i] \in Nat
    BY <1>2, <1>7
  <2>2. s \in [1..k -> Nat]
    BY <1>6, <2>1
  <2> QED
    BY <1>2, <2>2
<1>9. PICK r : r = NewestFirst(ns)
  OBVIOUS
<1>10. r = Only(s, ns)
  BY <1>2, <1>3, <1>5, <1>9 DEF NewestFirst
<1>11. IsSublist(r, s, ns)
  BY <1>8, <1>10, OnlyIsSublist
<1>12. PICK p : Sublist(r, s, ns, p)
  BY <1>11 DEF IsSublist
<1>13. /\ r \in Seq(ns) /\ p \in [1..Len(r) -> 1..k]
       /\ \A j \in 1..Len(r) : r[j] = s[p[j]]
       /\ \A i, j \in 1..Len(r) : i < j => p[i] < p[j]
       /\ \A i \in 1..k : s[i] \in ns => \E j \in 1..Len(r) : p[j] = i
  BY <1>8, <1>12 DEF Sublist
<1>14. \A j \in 1..Len(r) : p[j] \in 1..k /\ r[j] = (k - p[j]) + 1
  BY <1>7, <1>13
<1>15. \A i, j \in 1..Len(r) : i < j => r[i] > r[j]
  BY <1>2, <1>13, <1>14
<1>16. ASSUME NEW n \in ns
       PROVE  \E j \in 1..Len(r) : r[j] = n
  <2>1. n \in 1..k
    BY <1>2
  <2>2. (k - n) + 1 \in 1..k /\ s[(k - n) + 1] = n
    BY <1>2, <1>7, <2>1
  <2>3. PICK j \in 1..Len(r) : p[j] = (k - n) + 1
    BY <1>13, <2>2
  <2> QED
    BY <1>13, <2>2, <2>3
<1> QED
  BY <1>9, <1>13, <1>15, <1>16

Later(n, cursor) == cursor = None \/ n < cursor

\* A page holds the newest of the rows that match and are older than the cursor, and
\* all of them down to its last.
LEMMA ListPageIs ==
    ASSUME runs \in Seq(BOOLEAN), NEW filter \in Filter, NEW cursor \in Nat \cup {None}
    PROVE  LET resp == ListPage(filter, cursor) IN
           /\ resp.items \in Seq({n \in DOMAIN runs : Matches(n, filter) /\ Later(n, cursor)})
           /\ \A i, j \in 1..Len(resp.items) : i < j => resp.items[i] > resp.items[j]
           /\ resp.items # << >> =>
                \A n \in DOMAIN runs :
                   Matches(n, filter) /\ Later(n, cursor) /\ n >= Last(resp.items) =>
                     \E j \in 1..Len(resp.items) : resp.items[j] = n
           /\ resp.next \in {None, Last(resp.items)}
           /\ resp.next # None => resp.items # << >>
<1>1. PICK ns : ns = {n \in DOMAIN runs : Matches(n, filter) /\ (cursor = None \/ n < cursor)}
  OBVIOUS
<1>2. PICK all : all = NewestFirst(ns)
  OBVIOUS
<1>3. PICK some : some = FirstOnes(all, PageLimit)
  OBVIOUS
<1>4. ns \in SUBSET DOMAIN runs /\ ns = {n \in DOMAIN runs : Matches(n, filter) /\ Later(n, cursor)}
  BY <1>1 DEF Later
<1>5. /\ all \in Seq(ns)
      /\ \A i, j \in 1..Len(all) : i < j => all[i] > all[j]
      /\ \A n \in ns : \E j \in 1..Len(all) : all[j] = n
  BY <1>2, <1>4, NewestFirstIs
<1>6. PageLimit \in Nat \ {0}
  BY ArchiveAssumption
<1>7. /\ some \in Seq(ns) /\ Len(some) = IF Len(all) <= PageLimit THEN Len(all) ELSE PageLimit
      /\ \A i \in 1..Len(some) : i \in 1..Len(all) /\ some[i] = all[i]
  <2>1. all \in Seq(ns)
    BY <1>5
  <2>2. LET t == FirstOnes(all, PageLimit) IN
        /\ t \in Seq(ns) /\ Len(t) = IF Len(all) <= PageLimit THEN Len(all) ELSE PageLimit
        /\ \A i \in 1..Len(t) : i \in 1..Len(all) /\ t[i] = all[i]
    BY <1>6, <2>1, FirstOnesIs, ZenonT(60)
  <2> QED
    BY <1>3, <2>2
<1>8. PICK resp : resp = ListPage(filter, cursor)
  OBVIOUS
<1>9. /\ resp.items = some
      /\ resp.next = IF Len(all) > PageLimit THEN Last(some) ELSE None
  BY <1>1, <1>2, <1>3, <1>8 DEF ListPage
<1>10. \A i, j \in 1..Len(some) : i < j => some[i] > some[j]
  BY <1>5, <1>7
<1>11. ASSUME some # << >>, NEW n \in ns, n >= Last(some)
       PROVE  \E j \in 1..Len(some) : some[j] = n
  <2>1. PICK j \in 1..Len(all) : all[j] = n
    BY <1>5
  <2>2. Len(some) \in Nat /\ Len(some) >= 1 /\ Last(some) = some[Len(some)]
    BY <1>7, <1>11 DEF Last
  <2>3. some[Len(some)] = all[Len(some)] /\ Len(some) \in 1..Len(all)
    BY <1>7, <2>2
  <2>4. j <= Len(some)
    <3> SUFFICES ASSUME j > Len(some)
                 PROVE  FALSE
      BY <2>1, <2>2
    <3>1. all[Len(some)] > all[j]
      BY <1>5, <2>1, <2>3
    <3>2. n \in Nat /\ all[Len(some)] \in Nat
      <4>1. DOMAIN runs \subseteq Nat
        OBVIOUS
      <4>2. all[Len(some)] \in ns
        BY <1>5, <2>3
      <4> QED
        BY <1>4, <4>1, <4>2
    <3> QED
      BY <1>11, <2>1, <2>2, <2>3, <3>1, <3>2
  <2> QED
    BY <1>7, <2>1, <2>2, <2>4
<1>12. Len(all) > PageLimit => some # << >>
  BY <1>5, <1>6, <1>7
<1> QED
  BY <1>4, <1>7, <1>8, <1>9, <1>10, <1>11, <1>12

ListFields == {"filter", "items", "cursor", "phase", "selected", "old"}

\* A run that matched when the table was mounted: only an incomplete one may have ended.
OldOnes == \A n \in list.old : n \in DOMAIN runs /\ (list.filter = "finished" => runs[n])

\* The rows shown are in order, the cursor is the last of them, and down to it no run
\* is missing that matched when the table was mounted and still does.
ListInv ==
    /\ runs \in Seq(BOOLEAN)
    /\ ListFields \subseteq DOMAIN list
    /\ list.filter \in Filter /\ list.phase \in {"first", "more", "idle", "error"}
    /\ list.items \in Seq(Nat)
    /\ list.cursor # None => list.items # << >> /\ list.cursor = Last(list.items)
    /\ list.phase = "first" => list.items = << >> /\ list.cursor = None
    /\ list.phase = "more" => list.cursor # None
    /\ OldOnes
    /\ \A i, j \in 1..Len(list.items) : i < j => list.items[i] > list.items[j]
    /\ list.items # << >> =>
         \A n \in list.old : Matches(n, list.filter) /\ n >= Last(list.items) =>
            \E j \in 1..Len(list.items) : list.items[j] = n

LEMMA NewListIsGood ==
    ASSUME runs \in Seq(BOOLEAN), NEW filter \in Filter,
           ListFields \subseteq DOMAIN list', runs' = runs,
           list'.filter = filter, list'.items = << >>, list'.cursor = None,
           list'.phase = "first", list'.old = {n \in DOMAIN runs : Matches(n, filter)}
    PROVE  ListInv'
<1>1. OldOnes'
  BY DEF Matches, OldOnes
<1>2. list'.items \in Seq(Nat) /\ Len(list'.items) = 0
  OBVIOUS
<1> QED
  BY <1>1, <1>2 DEF ListInv

\* Runs are added at the end and finish: what matches now did so before.
LEMMA RunsGoOn ==
    ASSUME ListInv, UNCHANGED list, RunCreated \/ RunFinished
    PROVE  ListInv'
<1>1. runs \in Seq(BOOLEAN)
  BY DEF ListInv
<1>2. /\ runs' \in Seq(BOOLEAN)
      /\ \A n \in DOMAIN runs : n \in DOMAIN runs' /\ (runs[n] => runs'[n])
  <2>1. CASE RunCreated
    BY <1>1, <2>1 DEF RunCreated
  <2>2. CASE RunFinished
    <3>1. PICK n \in DOMAIN runs : runs' = [runs EXCEPT ![n] = TRUE]
      BY <2>2 DEF RunFinished
    <3>2. runs' \in Seq(BOOLEAN) /\ DOMAIN runs' = DOMAIN runs
      BY <1>1, <3>1
    <3>3. \A m \in DOMAIN runs : runs'[m] = IF m = n THEN TRUE ELSE runs[m]
      BY <3>1
    <3> QED
      BY <3>2, <3>3
  <2> QED
    BY <2>1, <2>2
<1>3. OldOnes'
  BY <1>2 DEF ListInv, OldOnes
<1>4. \A n \in list.old : Matches(n, list.filter)' => Matches(n, list.filter)
  <2> SUFFICES ASSUME NEW n \in list.old, Matches(n, list.filter)'
               PROVE  Matches(n, list.filter)
    OBVIOUS
  <2>1. n \in DOMAIN runs /\ (list.filter = "finished" => runs[n]) /\ (runs[n] => runs'[n])
    BY <1>2 DEF ListInv, OldOnes
  <2> QED
    BY <2>1 DEF Matches, Filter, ListInv
<1>5. ASSUME list.items # << >>, NEW n \in list.old, Matches(n, list.filter)', n >= Last(list.items)
      PROVE  \E j \in 1..Len(list.items) : list.items[j] = n
  <2>1. Matches(n, list.filter)
    BY <1>4, <1>5
  <2> QED
    BY <1>5, <2>1 DEF ListInv
<1>6. (\A n \in list.old : Matches(n, list.filter) /\ n >= Last(list.items) =>
         \E j \in 1..Len(list.items) : list.items[j] = n)' \/ list'.items = << >>
  <2>1. list' = list
    OBVIOUS
  <2>2. CASE list.items = << >>
    BY <2>1, <2>2
  <2>3. CASE list.items # << >>
    <3> SUFFICES ASSUME NEW n \in list.old, Matches(n, list.filter)', n >= Last(list.items)
                 PROVE  \E j \in 1..Len(list.items) : list.items[j] = n
      BY <2>1
    <3> QED
      BY <1>5, <2>3
  <2> QED
    BY <2>2, <2>3
<1> QED
  BY <1>2, <1>3, <1>6 DEF ListInv

\* An answer is put after what is there.
LEMMA AnswerJoins ==
    ASSUME ListInv, ListAnswers
    PROVE  ListInv'
<1>1. PICK resp : resp = ListPage(list.filter, list.cursor)
  OBVIOUS
<1>2. list' = [list EXCEPT !.items = @ \o resp.items, !.cursor = resp.next, !.phase = "idle"]
  BY <1>1 DEF ListAnswers
<1>3. ListFields \subseteq DOMAIN list /\ runs \in Seq(BOOLEAN)
  BY DEF ListInv
<1>4. /\ ListFields \subseteq DOMAIN list' /\ list'.filter = list.filter /\ list'.old = list.old
      /\ list'.items = list.items \o resp.items /\ list'.cursor = resp.next /\ list'.phase = "idle"
      /\ runs' = runs
  BY <1>2, <1>3 DEF ListFields, ListAnswers
<1>5. PICK old : old = list.items
  OBVIOUS
<1>6. PICK new : new = resp.items
  OBVIOUS
<1>7. PICK cursor : cursor = list.cursor
  OBVIOUS
<1>8. PICK filter : filter = list.filter
  OBVIOUS
<1>9. /\ filter \in Filter /\ old \in Seq(Nat)
      /\ cursor # None => old # << >> /\ cursor = Last(old)
      /\ cursor = None => old = << >>
  BY <1>5, <1>7, <1>8 DEF ListInv, ListAnswers
<1>10. cursor \in Nat \cup {None}
  <2>1. CASE cursor # None
    <3>1. old # << >> /\ cursor = Last(old)
      BY <1>9, <2>1
    <3> QED
      BY <1>9, <3>1 DEF Last
  <2> QED
    BY <2>1
<1>11. /\ new \in Seq({n \in DOMAIN runs : Matches(n, filter) /\ Later(n, cursor)})
       /\ \A i, j \in 1..Len(new) : i < j => new[i] > new[j]
       /\ new # << >> =>
            \A n \in DOMAIN runs :
               Matches(n, filter) /\ Later(n, cursor) /\ n >= Last(new) =>
                 \E j \in 1..Len(new) : new[j] = n
       /\ resp.next \in {None, Last(new)}
       /\ resp.next # None => new # << >>
  <2>1. resp = ListPage(filter, cursor) /\ filter \in Filter
    BY <1>1, <1>7, <1>8, <1>9
  <2>2. runs \in Seq(BOOLEAN)
    BY <1>3
  <2> QED
    BY <1>6, <1>10, <2>1, <2>2, ListPageIs
<1>12. new \in Seq(Nat) /\ \A j \in 1..Len(new) : new[j] \in DOMAIN runs /\ Later(new[j], cursor)
  <2>1. DOMAIN runs \subseteq Nat
    BY <1>3
  <2>2. \A j \in 1..Len(new) : new[j] \in {n \in DOMAIN runs : Matches(n, filter) /\ Later(n, cursor)}
    BY <1>11
  <2>3. \A j \in 1..Len(new) : new[j] \in Nat
    BY <2>1, <2>2
  <2>4. new \in Seq(Nat)
    BY <1>11, <2>3
  <2> QED
    BY <2>2, <2>4
<1>13. PICK items : items = old \o new
  OBVIOUS
<1>14. /\ items \in Seq(Nat) /\ Len(items) = Len(old) + Len(new)
       /\ Len(old) \in Nat /\ Len(new) \in Nat
       /\ \A i \in 1..Len(old) : items[i] = old[i]
       /\ \A i \in 1..Len(new) : items[Len(old) + i] = new[i]
  BY <1>9, <1>12, <1>13
<1>15. \A i \in (Len(old) + 1)..Len(items) : i - Len(old) \in 1..Len(new) /\ items[i] = new[i - Len(old)]
  <2> TAKE i \in (Len(old) + 1)..Len(items)
  <2>1. i - Len(old) \in 1..Len(new) /\ Len(old) + (i - Len(old)) = i
    BY <1>14
  <2> QED
    BY <1>14, <2>1
<1>16. \A i, j \in 1..Len(old) : i < j => old[i] > old[j]
  BY <1>5 DEF ListInv
<1>17. \A i \in 1..Len(old), j \in 1..Len(new) : old[i] > new[j]
  <2> TAKE i \in 1..Len(old), j \in 1..Len(new)
  <2>1. old # << >> /\ cursor = Last(old) /\ cursor # None
    BY <1>9
  <2>2. cursor = old[Len(old)] /\ Len(old) \in 1..Len(old)
    BY <1>9, <2>1 DEF Last
  <2>3. new[j] < cursor
    BY <1>12, <2>1 DEF Later
  <2>4. i # Len(old) => old[i] > old[Len(old)]
    BY <1>14, <1>16, <2>2
  <2>5. old[i] \in Nat /\ new[j] \in Nat /\ cursor \in Nat
    BY <1>9, <1>12, <2>2
  <2> QED
    BY <2>2, <2>3, <2>4, <2>5
<1>18. \A i, j \in 1..Len(items) : i < j => items[i] > items[j]
  <2> TAKE i, j \in 1..Len(items)
  <2> HAVE i < j
  <2>1. CASE j <= Len(old)
    <3>1. i \in 1..Len(old) /\ j \in 1..Len(old)
      BY <1>14, <2>1
    <3> QED
      BY <1>14, <1>16, <3>1
  <2>2. CASE i <= Len(old) /\ j > Len(old)
    <3>1. i \in 1..Len(old) /\ j \in (Len(old) + 1)..Len(items)
      BY <1>14, <2>2
    <3> QED
      BY <1>14, <1>15, <1>17, <3>1
  <2>3. CASE i > Len(old)
    <3>1. i \in (Len(old) + 1)..Len(items) /\ j \in (Len(old) + 1)..Len(items)
      BY <1>14, <2>3
    <3>2. i - Len(old) < j - Len(old)
      BY <1>14
    <3>3. /\ i - Len(old) \in 1..Len(new) /\ items[i] = new[i - Len(old)]
          /\ j - Len(old) \in 1..Len(new) /\ items[j] = new[j - Len(old)]
      BY <1>15, <3>1
    <3> QED
      BY <1>11, <3>2, <3>3
  <2> QED
    BY <1>14, <2>1, <2>2, <2>3
<1>19. ASSUME items # << >>, NEW n \in list.old, Matches(n, filter), n >= Last(items)
       PROVE  \E j \in 1..Len(items) : items[j] = n
  <2>1. n \in DOMAIN runs
    BY DEF ListInv, OldOnes
  <2>2. n \in Nat
    BY <1>3, <2>1
  <2>3. Last(items) = items[Len(items)]
    BY DEF Last
  <2>4. CASE new = << >>
    <3>1. items = old
      BY <1>9, <1>13, <2>4
    <3> QED
      BY <1>5, <1>8, <1>19, <3>1 DEF ListInv
  <2>5. CASE new # << >> /\ Later(n, cursor)
    <3>1. Len(new) >= 1 /\ Last(new) = new[Len(new)]
      BY <1>12, <2>5 DEF Last
    <3>2. Last(items) = Last(new)
      BY <1>14, <2>3, <3>1
    <3>3. PICK j \in 1..Len(new) : new[j] = n
      BY <1>11, <1>19, <2>1, <2>5, <3>2
    <3>4. Len(old) + j \in 1..Len(items)
      BY <1>14, <3>3
    <3> QED
      BY <1>14, <3>3, <3>4
  <2>6. CASE ~Later(n, cursor)
    <3>1. cursor # None /\ old # << >> /\ cursor = Last(old)
      BY <1>9, <2>6 DEF Later
    <3>2. cursor \in Nat /\ n >= Last(old)
      BY <1>10, <2>2, <2>6, <3>1 DEF Later
    <3>3. PICK j \in 1..Len(old) : old[j] = n
      BY <1>5, <1>8, <1>19, <3>1, <3>2 DEF ListInv
    <3>4. j \in 1..Len(items)
      BY <1>14, <3>3
    <3> QED
      BY <1>14, <3>3, <3>4
  <2> QED
    BY <2>4, <2>5, <2>6
<1>20. resp.next # None => items # << >> /\ resp.next = Last(items)
  <2> SUFFICES ASSUME resp.next # None
               PROVE  items # << >> /\ resp.next = Last(items)
    OBVIOUS
  <2>1. new # << >> /\ resp.next = Last(new)
    BY <1>11
  <2>2. Len(new) >= 1 /\ Last(new) = new[Len(new)]
    BY <1>12, <2>1 DEF Last
  <2>3. Last(items) = items[Len(items)]
    BY DEF Last
  <2>4. Len(new) \in 1..Len(new)
    BY <1>14, <2>2
  <2>5. items[Len(items)] = new[Len(new)] /\ Len(items) >= 1
    <3>1. items[Len(old) + Len(new)] = new[Len(new)]
      BY <1>14, <2>4
    <3> QED
      BY <1>14, <2>2, <3>1
  <2> QED
    BY <1>14, <2>1, <2>2, <2>3, <2>5
<1>21. OldOnes'
  BY <1>4 DEF ListInv, OldOnes
<1>22. list'.items = items
  BY <1>4, <1>5, <1>6, <1>13
<1>23. /\ list'.cursor # None => list'.items # << >> /\ list'.cursor = Last(list'.items)
       /\ \A i, j \in 1..Len(list'.items) : i < j => list'.items[i] > list'.items[j]
       /\ list'.items # << >> =>
            \A n \in list'.old : Matches(n, list'.filter) /\ n >= Last(list'.items) =>
               \E j \in 1..Len(list'.items) : list'.items[j] = n
  BY <1>4, <1>8, <1>18, <1>19, <1>20, <1>22
<1>24. list'.items \in Seq(Nat) /\ list'.filter \in Filter
  BY <1>4, <1>8, <1>9, <1>14, <1>22
<1> QED
  BY <1>3, <1>4, <1>21, <1>23, <1>24 DEF ListInv, OldOnes, Matches

LEMMA ListStepKeeps ==
    ASSUME ListInv, ListStep
    PROVE  ListInv'
<1>1. CASE RunCreated \/ RunFinished
  <2>1. UNCHANGED list
    BY <1>1 DEF RunCreated, RunFinished
  <2> QED
    BY <1>1, <2>1, RunsGoOn
<1>2. CASE ListAnswers
  BY <1>2, AnswerJoins
<1>3. CASE ListFails \/ LoadMore
  <2>1. /\ ListFields \subseteq DOMAIN list' /\ runs' = runs
        /\ list'.filter = list.filter /\ list'.old = list.old
        /\ list'.items = list.items /\ list'.cursor = list.cursor
        /\ list'.phase = "error" \/ (list'.phase = "more" /\ list'.cursor # None)
    <3>1. ListFields \subseteq DOMAIN list
      BY DEF ListInv
    <3>2. CASE ListFails
      <4>1. list' = [list EXCEPT !.phase = "error"] /\ runs' = runs
        BY <3>2 DEF ListFails
      <4> QED
        BY <3>1, <4>1 DEF ListFields
    <3>3. CASE LoadMore
      <4>1. list' = [list EXCEPT !.phase = "more"] /\ runs' = runs /\ list.cursor # None
        BY <3>3 DEF LoadMore
      <4> QED
        BY <3>1, <4>1 DEF ListFields
    <3> QED
      BY <1>3, <3>2, <3>3
  <2> QED
    BY <2>1 DEF ListInv, OldOnes, Matches
<1>4. CASE SetFilter
  <2>1. PICK filter \in Filter : list' = [NewList(filter) EXCEPT !.selected = list.selected]
    BY <1>4 DEF SetFilter
  <2>2. /\ ListFields \subseteq DOMAIN list' /\ runs' = runs
        /\ list'.filter = filter /\ list'.items = << >> /\ list'.cursor = None
        /\ list'.phase = "first" /\ list'.old = {n \in DOMAIN runs : Matches(n, filter)}
    BY <1>4, <2>1 DEF SetFilter, NewList, ListFields
  <2>3. runs \in Seq(BOOLEAN)
    BY DEF ListInv
  <2> QED
    BY <2>2, <2>3, NewListIsGood
<1>5. CASE ToggleSelect
  <2>1. /\ ListFields \subseteq DOMAIN list' /\ runs' = runs
        /\ list'.filter = list.filter /\ list'.old = list.old /\ list'.phase = list.phase
        /\ list'.items = list.items /\ list'.cursor = list.cursor
    BY <1>5 DEF ToggleSelect, ListInv, ListFields
  <2> QED
    BY <2>1 DEF ListInv, OldOnes, Matches
<1> QED
  BY <1>1, <1>2, <1>3, <1>4, <1>5 DEF ListStep

LEMMA ListInvariant == ArchiveSpec => []ListInv
<1>1. ArchiveInit => ListInv
  <2> SUFFICES ASSUME ArchiveInit
               PROVE  ListInv
    OBVIOUS
  <2>1. runs = <<TRUE, FALSE>> /\ list = NewList("all")
    BY DEF ArchiveInit
  <2>2. /\ ListFields \subseteq DOMAIN list
        /\ list.filter = "all" /\ list.items = << >> /\ list.cursor = None
        /\ list.phase = "first" /\ list.old = {n \in DOMAIN runs : Matches(n, "all")}
    BY <2>1 DEF NewList, ListFields
  <2>3. runs \in Seq(BOOLEAN) /\ "all" \in Filter
    BY <2>1 DEF Filter
  <2>4. << >> \in Seq(Nat) /\ Len(<< >>) = 0
    OBVIOUS
  <2> QED
    BY <2>2, <2>3, <2>4 DEF ListInv, OldOnes
<1>2. ListInv /\ [ArchiveNext]_archiveVars => ListInv'
  <2> SUFFICES ASSUME ListInv, [ArchiveNext]_archiveVars
               PROVE  ListInv'
    OBVIOUS
  <2>1. CASE UNCHANGED <<runs, list>>
    BY <2>1 DEF ListInv, OldOnes, Matches
  <2>2. CASE ListStep
    BY <2>2, ListStepKeeps
  <2>3. CASE WriteBatch \/ Finalize \/ Load \/ OpenReplay \/ Replay
    <3>1. UNCHANGED <<runs, list>>
      BY <2>3 DEF WriteBatch, Finalize, Load, GetDetail, GetSnapshot, GetPage, LoadFails, OpenReplay,
                  Replay, TogglePlay, PlayOne, Scrub, Restart, Untouched
    <3> QED
      BY <2>1, <3>1
  <2> QED
    BY <2>1, <2>2, <2>3 DEF ArchiveNext, archiveVars
<1> QED
  BY <1>1, <1>2, PTL DEF ArchiveSpec

\* The pages of the list join up (page.tsx:82-97 loadMore, routes_history.py:119-161),
\* whatever the page limit, however many runs are added or finish between two pages.
THEOREM PagesJoinUp == ArchiveSpec => []ListSkipsNothing
<1>1. ListInv => ListSkipsNothing
  <2> SUFFICES ASSUME ListInv
               PROVE  ListSkipsNothing
    OBVIOUS
  <2>1. /\ list.items \in Seq(Nat)
        /\ \A i, j \in 1..Len(list.items) : i < j => list.items[i] > list.items[j]
    BY DEF ListInv
  <2>2. \A i \in 1..(Len(list.items) - 1) : list.items[i] > list.items[i + 1]
    <3> TAKE i \in 1..(Len(list.items) - 1)
    <3>1. i \in 1..Len(list.items) /\ i + 1 \in 1..Len(list.items) /\ i < i + 1
      BY <2>1
    <3> QED
      BY <2>1, <3>1
  <2>3. ASSUME list.items # << >>, NEW n \in list.old, Matches(n, list.filter),
               n >= Last(list.items)
        PROVE  n \in Range(list.items)
    <3>1. PICK j \in 1..Len(list.items) : list.items[j] = n
      BY <2>3 DEF ListInv
    <3> QED
      BY <2>1, <3>1 DEF Range
  <2> QED
    BY <2>2, <2>3 DEF ListSkipsNothing
<1> QED
  BY <1>1, ListInvariant, PTL

----------------------------------------------------------------------------
(* The load of a replay *)

PlayerFields == {"phase", "incomplete", "base", "events", "since", "played", "playing", "view"}

\* The first k events happened at tick 0, and only they.
Zeroes(k) == k \in 0..Len(History) /\ \A i \in 1..Len(History) : History[i].tick = 0 <=> i <= k

Rising(events) == \A i, j \in 1..Len(events) : i < j => events[i].seq < events[j].seq

StoreInv ==
    /\ handled \in 0..Len(History) /\ stored \subseteq 0..(handled - 1)
    /\ row = "complete" => stored = 0..(Len(History) - 1) /\ handled = Len(History)

\* What is loaded is in order and ends with since; of a complete run it is the log
\* from the first event after tick 0.
LoadInv ==
    /\ PlayerFields \subseteq DOMAIN player
    /\ player.phase \in {"detail", "snapshot", "paging", "ready", "error"}
    /\ player.phase \in {"snapshot", "paging", "ready"} /\ ~player.incomplete => row = "complete"
    /\ player.events \in Seq(EventRecord) /\ Rising(player.events)
    /\ player.phase \in {"detail", "snapshot"} => player.events = << >>
    /\ player.phase = "paging" =>
         player.since \in 0..(Len(History) - 1)
           /\ \A i \in 1..Len(player.events) : player.events[i].seq <= player.since
    /\ player.phase = "paging" /\ ~player.incomplete =>
         \E k \in 0..(player.since + 1) :
            Zeroes(k) /\ player.events = SubSeq(History, k + 1, player.since + 1)
    /\ player.phase = "ready" /\ ~player.incomplete =>
         \E k \in 0..Len(History) : Zeroes(k) /\ player.events = SubSeq(History, k + 1, Len(History))

\* An answer to the request for the events after since.
LEMMA EventPageIs ==
    ASSUME NEW since \in Int
    PROVE  LET t == EventPage(since) IN
           /\ t \in Seq(EventRecord) /\ Rising(t) /\ Len(t) <= PageLimit
           /\ \A i \in 1..Len(t) : t[i].seq > since /\ t[i].seq \in 0..(Len(History) - 1)
<1>1. /\ History \in Seq(EventRecord) /\ Len(History) \in Nat
      /\ \A i \in 1..Len(History) : History[i].seq = i - 1
  BY LogAssumption
<1>2. PICK S : S = {e \in Range(History) : e.seq \in stored /\ e.seq > since}
  OBVIOUS
<1>3. PICK r : r = Only(History, S)
  OBVIOUS
<1>4. IsSublist(r, History, S)
  BY <1>1, <1>3, OnlyIsSublist
<1>5. PICK p : Sublist(r, History, S, p)
  BY <1>4 DEF IsSublist
<1>6. /\ r \in Seq(S) /\ p \in [1..Len(r) -> 1..Len(History)]
      /\ \A j \in 1..Len(r) : r[j] = History[p[j]]
      /\ \A i, j \in 1..Len(r) : i < j => p[i] < p[j]
  BY <1>5 DEF Sublist
<1>7. r \in Seq(EventRecord)
  <2>1. Range(History) \subseteq EventRecord
    BY <1>1 DEF Range
  <2>2. \A j \in 1..Len(r) : r[j] \in EventRecord
    BY <1>2, <1>6, <2>1
  <2> QED
    BY <1>6, <2>2
<1>8. \A j \in 1..Len(r) : r[j].seq = p[j] - 1 /\ p[j] \in 1..Len(History) /\ r[j].seq > since
  <2> TAKE j \in 1..Len(r)
  <2>1. p[j] \in 1..Len(History) /\ r[j] \in S
    BY <1>6
  <2> QED
    BY <1>1, <1>2, <1>6, <2>1
<1>9. PICK t : t = EventPage(since)
  OBVIOUS
<1>10. t = FirstOnes(r, PageLimit) /\ PageLimit \in Nat \ {0}
  BY <1>2, <1>3, <1>9, ArchiveAssumption DEF EventPage
<1>11. /\ t \in Seq(EventRecord) /\ Len(t) = IF Len(r) <= PageLimit THEN Len(r) ELSE PageLimit
       /\ \A i \in 1..Len(t) : i \in 1..Len(r) /\ t[i] = r[i]
  BY <1>7, <1>10, FirstOnesIs
<1>12. Rising(t)
  <2> SUFFICES ASSUME NEW i \in 1..Len(t), NEW j \in 1..Len(t), i < j
               PROVE  t[i].seq < t[j].seq
    BY DEF Rising
  <2>1. i \in 1..Len(r) /\ j \in 1..Len(r) /\ t[i] = r[i] /\ t[j] = r[j]
    BY <1>11
  <2>2. p[i] < p[j]
    BY <1>6, <2>1
  <2> QED
    BY <1>8, <2>1, <2>2
<1>13. \A i \in 1..Len(t) : t[i].seq > since /\ t[i].seq \in 0..(Len(History) - 1)
  <2> TAKE i \in 1..Len(t)
  <2>1. i \in 1..Len(r) /\ t[i] = r[i]
    BY <1>11
  <2> QED
    BY <1>1, <1>8, <2>1
<1>14. Len(t) <= PageLimit
  BY <1>7, <1>10, <1>11
<1> QED
  BY <1>9, <1>11, <1>12, <1>13, <1>14

\* Of a complete log it is the next ones, without a gap.
LEMMA WholePageIs ==
    ASSUME NEW since \in -1..(Len(History) - 1), stored = 0..(Len(History) - 1)
    PROVE  LET t == EventPage(since) IN
           \/ Len(t) < PageLimit /\ t = SubSeq(History, since + 2, Len(History))
           \/ /\ Len(t) = PageLimit /\ since + PageLimit <= Len(History) - 1
              /\ t = SubSeq(History, since + 2, since + PageLimit + 1)
              /\ Last(t).seq = since + PageLimit
<1>1. /\ History \in Seq(EventRecord) /\ Len(History) \in Nat
      /\ \A i \in 1..Len(History) : History[i].seq = i - 1
  BY LogAssumption
<1>2. PICK S : S = {e \in Range(History) : e.seq \in stored /\ e.seq > since}
  OBVIOUS
<1>3. PICK n : n = Len(History)
  OBVIOUS
<1>4. PICK a : a = since + 1
  OBVIOUS
<1>5. n \in Nat /\ a \in 0..n
  BY <1>1, <1>3, <1>4
<1>6. \A i \in 1..n : History[i] \in S <=> i > a
  <2> TAKE i \in 1..n
  <2>1. History[i] \in Range(History) /\ History[i].seq = i - 1
    BY <1>1, <1>3 DEF Range
  <2>2. i - 1 \in stored
    BY <1>3
  <2>3. History[i] \in S <=> i - 1 > since
    BY <1>2, <2>1, <2>2
  <2> QED
    BY <1>4, <1>5, <2>3
<1>7. PICK r : r = SubSeq(History, a + 1, n)
  OBVIOUS
<1>8. Only(History, S) = r
  BY <1>1, <1>3, <1>5, <1>6, <1>7, OnlySuffix
<1>9. r \in Seq(EventRecord) /\ Len(r) = n - a /\ \A i \in 1..(n - a) : r[i] = History[a + i]
  BY <1>1, <1>3, <1>5, <1>7
<1>10. PICK t : t = EventPage(since)
  OBVIOUS
<1>11. t = FirstOnes(r, PageLimit) /\ PageLimit \in Nat \ {0}
  BY <1>2, <1>8, <1>10, ArchiveAssumption DEF EventPage
<1>12. /\ t \in Seq(EventRecord) /\ Len(t) = IF Len(r) <= PageLimit THEN Len(r) ELSE PageLimit
       /\ \A i \in 1..Len(t) : i \in 1..Len(r) /\ t[i] = r[i]
  BY <1>9, <1>11, FirstOnesIs
<1>13. PICK m : m = Len(t)
  OBVIOUS
<1>14. m \in 0..(n - a) /\ \A i \in 1..m : t[i] = History[a + i]
  <2>1. m \in 0..(n - a)
    BY <1>5, <1>9, <1>11, <1>12, <1>13
  <2>2. ASSUME NEW i \in 1..m
        PROVE  t[i] = History[a + i]
    <3>1. i \in 1..Len(r) /\ t[i] = r[i]
      BY <1>12, <1>13
    <3> QED
      BY <1>9, <3>1
  <2> QED
    BY <2>1, <2>2
<1>15. t = SubSeq(History, a + 1, a + m)
  <2>1. PICK u : u = SubSeq(History, a + 1, a + m)
    OBVIOUS
  <2>2. u \in Seq(EventRecord) /\ Len(u) = m
    BY <1>1, <1>3, <1>5, <1>14, <2>1
  <2>3. ASSUME NEW i \in 1..m
        PROVE  u[i] = t[i]
    <3>1. u[i] = History[a + i]
      BY <1>1, <1>3, <1>5, <1>14, <2>1
    <3> QED
      BY <1>14, <3>1
  <2>4. t = [i \in 1..m |-> t[i]] /\ u = [i \in 1..m |-> u[i]]
    BY <1>12, <1>13, <2>2
  <2> QED
    BY <2>1, <2>3, <2>4
<1>16. CASE m < PageLimit
  <2>1. m = n - a
    BY <1>9, <1>11, <1>12, <1>13, <1>16
  <2>2. a + m = n /\ a + 1 = since + 2
    BY <1>4, <1>5, <2>1
  <2> QED
    BY <1>3, <1>10, <1>13, <1>15, <1>16, <2>2
<1>17. CASE m = PageLimit
  <2>1. m >= 1 /\ Last(t) = t[m]
    BY <1>11, <1>13, <1>17 DEF Last
  <2>2. a + m \in 1..n /\ t[m] = History[a + m]
    BY <1>5, <1>14, <2>1
  <2>3. Last(t).seq = a + m - 1
    <3>1. PICK i : i = a + m
      OBVIOUS
    <3>2. i \in 1..Len(History) /\ Last(t) = History[i]
      BY <1>3, <2>1, <2>2, <3>1
    <3>3. Last(t).seq = i - 1
      BY <1>1, <3>2
    <3> QED
      BY <1>5, <1>14, <3>1, <3>3
  <2>4. a + m = since + PageLimit + 1 /\ a + 1 = since + 2 /\ a + m - 1 = since + PageLimit
    BY <1>4, <1>11, <1>17
  <2>5. since + PageLimit <= n - 1
    BY <1>5, <1>11, <2>2, <2>4
  <2> QED
    BY <1>3, <1>10, <1>13, <1>15, <1>17, <2>3, <2>4, <2>5
<1> QED
  BY <1>11, <1>12, <1>13, <1>14, <1>16, <1>17

LEMMA StoreKeeps ==
    ASSUME StoreInv, WriteBatch \/ Finalize
    PROVE  StoreInv' /\ (row = "complete" => row' = "complete")
<1>1. Len(History) \in Nat /\ InitialCount \in 1..Len(History)
  BY LogAssumption, ArchiveAssumption
<1>2. CASE WriteBatch
  <2>1. PICK end \in BatchEnds : handled' = end /\ stored' \in {stored \cup Seqs(handled, end), stored}
    BY <1>2 DEF WriteBatch
  <2>2. end \in (handled + 1)..Len(History) /\ row' = row
    BY <1>1, <1>2, <2>1 DEF BatchEnds, WriteBatch, StoreInv
  <2>3. stored' \subseteq 0..(end - 1)
    BY <2>1, <2>2 DEF Seqs, StoreInv
  <2>4. row # "complete"
    BY <1>1, <2>2 DEF StoreInv
  <2> QED
    BY <1>1, <2>1, <2>2, <2>3, <2>4 DEF StoreInv
<1>3. CASE Finalize
  <2>1. /\ handled = Len(History) /\ UNCHANGED <<stored, handled>> /\ row = "null"
        /\ row' = "complete" => stored = Seqs(0, Len(History))
    BY <1>3 DEF Finalize
  <2> QED
    BY <1>1, <2>1 DEF StoreInv, Seqs
<1> QED
  BY <1>2, <1>3

LEMMA DetailKeeps ==
    ASSUME StoreInv, LoadInv, GetDetail
    PROVE  LoadInv'
<1>1. player' = [player EXCEPT !.phase = "snapshot", !.incomplete = (row # "complete")] /\ row' = row
  BY DEF GetDetail, Untouched, dbVars
<1>2. /\ PlayerFields \subseteq DOMAIN player' /\ player'.phase = "snapshot"
      /\ player'.incomplete = (row # "complete") /\ player'.events = player.events
  BY <1>1 DEF LoadInv, PlayerFields
<1>3. player.phase = "detail"
  BY DEF GetDetail
<1> QED
  BY <1>1, <1>2, <1>3 DEF LoadInv, Rising

\* The tick-0 events of a complete log are its first ones.
LEMMA SnapshotKeeps ==
    ASSUME StoreInv, LoadInv, GetSnapshot
    PROVE  LoadInv'
<1>1. PICK z : z = Max(TickZeroStored)
  OBVIOUS
<1>2. /\ History \in Seq(EventRecord) /\ Len(History) \in Nat
      /\ \A i, j \in 1..Len(History) : i <= j => History[i].tick <= History[j].tick
  BY LogAssumption
<1>3. stored \subseteq 0..(Len(History) - 1)
  BY <1>2 DEF StoreInv
<1>4. z \in TickZeroStored /\ \A q \in TickZeroStored : z >= q
  <2>1. TickZeroStored \in SUBSET (0..Len(History)) /\ TickZeroStored # {}
    BY <1>2, <1>3 DEF TickZeroStored, GetSnapshot
  <2> QED
    BY <1>1, <1>2, <2>1, MaxIs
<1>5. z \in 0..(Len(History) - 1) /\ History[z + 1].tick = 0
  BY <1>3, <1>4 DEF TickZeroStored, Event
<1>6. /\ row' = row /\ player.phase = "snapshot" /\ PlayerFields \subseteq DOMAIN player
      /\ player' = [player EXCEPT !.phase = "paging", !.since = ReplaySnapshot.last_seq,
                                  !.base = reduceSnapshot(initialGraphState, ReplaySnapshot)]
  BY DEF GetSnapshot, LoadInv, Untouched, dbVars
<1>7. ReplaySnapshot.last_seq = z
  BY <1>1 DEF ReplaySnapshot
<1>8. /\ PlayerFields \subseteq DOMAIN player' /\ player'.phase = "paging" /\ player'.since = z
      /\ player'.incomplete = player.incomplete /\ player'.events = player.events
  BY <1>6, <1>7 DEF PlayerFields
<1>9. player.events = << >> /\ Len(player.events) = 0
  BY <1>6 DEF LoadInv
<1>10. ASSUME ~player.incomplete
       PROVE  Zeroes(z + 1) /\ player.events = SubSeq(History, z + 2, z + 1)
  <2>1. stored = 0..(Len(History) - 1)
    BY <1>6, <1>10 DEF LoadInv, StoreInv
  <2>2. ASSUME NEW i \in 1..Len(History)
        PROVE  History[i].tick = 0 <=> i <= z + 1
    <3>1. History[i].tick \in Nat
      <4>1. History[i] \in EventRecord
        BY <1>2
      <4> QED
        BY <4>1, EventFields
    <3>2. CASE i <= z + 1
      <4>1. z + 1 \in 1..Len(History)
        BY <1>2, <1>5
      <4>2. History[i].tick <= History[z + 1].tick
        BY <1>2, <3>2, <4>1
      <4> QED
        BY <1>5, <3>1, <3>2, <4>2
    <3>3. CASE i > z + 1
      <4>1. i - 1 \in stored /\ (i - 1) + 1 = i
        BY <2>1
      <4>2. History[i].tick = 0 => i - 1 \in TickZeroStored
        BY <4>1 DEF TickZeroStored, Event
      <4>3. i - 1 > z
        BY <1>5, <3>3
      <4> QED
        BY <1>4, <1>5, <3>3, <4>2, <4>3
    <3> QED
      BY <1>5, <3>2, <3>3
  <2>3. SubSeq(History, z + 2, z + 1) = << >>
    BY <1>2, <1>5
  <2> QED
    BY <1>2, <1>5, <1>9, <2>2, <2>3 DEF Zeroes
<1>11. ~player.incomplete =>
         \E k \in 0..(z + 1) : Zeroes(k) /\ player.events = SubSeq(History, k + 1, z + 1)
  <2> SUFFICES ASSUME ~player.incomplete
               PROVE  \E k \in 0..(z + 1) : Zeroes(k) /\ player.events = SubSeq(History, k + 1, z + 1)
    OBVIOUS
  <2>1. z + 1 \in 0..(z + 1) /\ (z + 1) + 1 = z + 2
    BY <1>5
  <2> QED
    BY <1>10, <2>1
<1>12. ~player.incomplete => row = "complete"
  BY <1>6 DEF LoadInv
<1>13. player.events \in Seq(EventRecord) /\ Rising(player.events)
  BY DEF LoadInv
<1>14. Rising(player'.events) /\ player'.events \in Seq(EventRecord) /\ Len(player'.events) = 0
  BY <1>8, <1>9, <1>13
<1>15. ~player'.incomplete =>
         \E k \in 0..(player'.since + 1) :
            Zeroes(k) /\ player'.events = SubSeq(History, k + 1, player'.since + 1)
  BY <1>8, <1>11
<1> QED
  BY <1>5, <1>6, <1>8, <1>12, <1>14, <1>15 DEF LoadInv

\* What comes after goes on where the pages before ended.
LEMMA PageKeeps ==
    ASSUME StoreInv, LoadInv, GetPage
    PROVE  LoadInv'
<1>1. PICK new : new = EventPage(player.since)
  OBVIOUS
<1>2. PICK old : old = player.events
  OBVIOUS
<1>3. PICK since : since = player.since
  OBVIOUS
<1>4. /\ old \in Seq(EventRecord) /\ Rising(old) /\ since \in 0..(Len(History) - 1)
      /\ \A i \in 1..Len(old) : old[i].seq <= since
      /\ ~player.incomplete => \E k \in 0..(since + 1) : Zeroes(k) /\ old = SubSeq(History, k + 1, since + 1)
      /\ ~player.incomplete => row = "complete"
      /\ PlayerFields \subseteq DOMAIN player /\ row' = row
  BY <1>2, <1>3 DEF LoadInv, GetPage, Untouched, dbVars
<1>5. /\ new \in Seq(EventRecord) /\ Rising(new) /\ Len(new) <= PageLimit
      /\ \A i \in 1..Len(new) : new[i].seq > since /\ new[i].seq \in 0..(Len(History) - 1)
  <2>1. since \in Int /\ new = EventPage(since)
    BY <1>1, <1>3, <1>4
  <2> QED
    BY <2>1, EventPageIs
<1>6. PICK events : events = old \o new
  OBVIOUS
<1>7. /\ events \in Seq(EventRecord) /\ Len(events) = Len(old) + Len(new)
      /\ Len(old) \in Nat /\ Len(new) \in Nat
      /\ \A i \in 1..Len(old) : events[i] = old[i]
      /\ \A i \in 1..Len(new) : events[Len(old) + i] = new[i]
  BY <1>4, <1>5, <1>6
<1>8. \A i \in (Len(old) + 1)..Len(events) : i - Len(old) \in 1..Len(new) /\ events[i] = new[i - Len(old)]
  <2> TAKE i \in (Len(old) + 1)..Len(events)
  <2>1. i - Len(old) \in 1..Len(new) /\ Len(old) + (i - Len(old)) = i
    BY <1>7
  <2> QED
    BY <1>7, <2>1
<1>9. \A i \in 1..Len(old) : old[i].seq \in Nat
  <2> TAKE i \in 1..Len(old)
  <2>1. old[i] \in EventRecord
    BY <1>4
  <2> QED
    BY <2>1, EventFields
<1>10. Rising(events)
  <2> SUFFICES ASSUME NEW i \in 1..Len(events), NEW j \in 1..Len(events), i < j
               PROVE  events[i].seq < events[j].seq
    BY DEF Rising
  <2>1. CASE j <= Len(old)
    <3>1. i \in 1..Len(old) /\ j \in 1..Len(old)
      BY <1>7, <2>1
    <3> QED
      BY <1>4, <1>7, <3>1 DEF Rising
  <2>2. CASE i <= Len(old) /\ j > Len(old)
    <3>1. i \in 1..Len(old) /\ j \in (Len(old) + 1)..Len(events)
      BY <1>7, <2>2
    <3>2. events[i] = old[i] /\ old[i].seq <= since /\ old[i].seq \in Nat
      BY <1>4, <1>7, <1>9, <3>1
    <3>3. events[j].seq > since /\ events[j].seq \in 0..(Len(History) - 1)
      BY <1>5, <1>8, <3>1
    <3> QED
      BY <1>4, <3>2, <3>3
  <2>3. CASE i > Len(old)
    <3>1. i \in (Len(old) + 1)..Len(events) /\ j \in (Len(old) + 1)..Len(events)
      BY <1>7, <2>3
    <3>2. i - Len(old) < j - Len(old)
      BY <1>7
    <3>3. /\ i - Len(old) \in 1..Len(new) /\ events[i] = new[i - Len(old)]
          /\ j - Len(old) \in 1..Len(new) /\ events[j] = new[j - Len(old)]
      BY <1>8, <3>1
    <3> QED
      BY <1>5, <3>2, <3>3 DEF Rising
  <2> QED
    BY <1>7, <2>1, <2>2, <2>3
<1>11. PICK next : next = NextSeq(new)
  OBVIOUS
<1>12. player' = IF next = None
                 THEN [player EXCEPT !.events = events, !.phase = "ready", !.view = player.base]
                 ELSE [player EXCEPT !.events = events, !.since = next]
  BY <1>1, <1>2, <1>6, <1>11 DEF GetPage
<1>13. PageLimit \in Nat \ {0} /\ None \notin Nat /\ History \in Seq(EventRecord) /\ Len(History) \in Nat
  BY ArchiveAssumption, LogAssumption
<1>14. CASE Len(new) = PageLimit
  <2>1. Last(new) = new[Len(new)] /\ Len(new) \in 1..Len(new)
    BY <1>5, <1>13, <1>14 DEF Last
  <2>2. next = Last(new).seq
    BY <1>11, <1>14 DEF NextSeq
  <2>3. next > since /\ next \in 0..(Len(History) - 1)
    BY <1>5, <2>1, <2>2
  <2>4. next # None
    BY <1>13, <2>3
  <2>5. /\ PlayerFields \subseteq DOMAIN player' /\ player'.phase = player.phase
        /\ player'.since = next /\ player'.incomplete = player.incomplete /\ player'.events = events
    BY <1>4, <1>12, <2>4 DEF PlayerFields
  <2>6. \A i \in 1..Len(events) : events[i].seq <= next
    <3> TAKE i \in 1..Len(events)
    <3>1. CASE i = Len(events)
      <4>1. events[Len(old) + Len(new)] = new[Len(new)]
        BY <1>7, <2>1
      <4> QED
        BY <1>7, <2>1, <2>2, <2>3, <3>1, <4>1
    <3>2. CASE i # Len(events)
      <4>1. Len(events) \in 1..Len(events) /\ i < Len(events)
        BY <1>7, <3>2
      <4>2. events[i].seq < events[Len(events)].seq
        BY <1>10, <4>1 DEF Rising
      <4>3. events[Len(old) + Len(new)] = new[Len(new)]
        BY <1>7, <2>1
      <4>4. events[Len(events)].seq = next
        BY <1>7, <2>1, <2>2, <4>3
      <4>5. events[i].seq \in Nat
        <5>1. events[i] \in EventRecord
          BY <1>7
        <5> QED
          BY <5>1, EventFields
      <4> QED
        BY <2>3, <4>2, <4>4, <4>5
    <3> QED
      BY <3>1, <3>2
  <2>7. ASSUME ~player.incomplete
        PROVE  \E k \in 0..(next + 1) : Zeroes(k) /\ events = SubSeq(History, k + 1, next + 1)
    <3>1. stored = 0..(Len(History) - 1)
      BY <1>4, <2>7 DEF StoreInv
    <3>2. /\ since + PageLimit <= Len(History) - 1
          /\ new = SubSeq(History, since + 2, since + PageLimit + 1)
          /\ Last(new).seq = since + PageLimit
      <4>1. since \in -1..(Len(History) - 1) /\ new = EventPage(since)
        BY <1>1, <1>3, <1>4, <1>13
      <4>2. ~(Len(new) < PageLimit)
        BY <1>13, <1>14
      <4> QED
        BY <3>1, <4>1, <4>2, WholePageIs
    <3>3. next = since + PageLimit
      BY <2>2, <3>2
    <3>4. PICK k \in 0..(since + 1) : Zeroes(k) /\ old = SubSeq(History, k + 1, since + 1)
      BY <1>4, <2>7
    <3>5. events = SubSeq(History, k + 1, next + 1)
      <4>1. PICK b : b = since + 1
        OBVIOUS
      <4>2. /\ b \in Nat /\ k <= b /\ next + 1 \in Nat /\ b <= next + 1 /\ next + 1 <= Len(History)
            /\ k \in Nat /\ b + 1 = since + 2 /\ next + 1 = since + PageLimit + 1
        BY <1>4, <1>13, <3>2, <3>3, <3>4, <4>1
      <4>3. events = SubSeq(History, k + 1, b) \o SubSeq(History, b + 1, next + 1)
        BY <1>6, <3>2, <3>4, <4>1, <4>2
      <4>4. PICK c : c = next + 1
        OBVIOUS
      <4>5. c \in Nat /\ b <= c /\ c <= Len(History)
        BY <4>2, <4>4
      <4>6. SubSeq(History, k + 1, b) \o SubSeq(History, b + 1, c) = SubSeq(History, k + 1, c)
        BY <1>13, <4>2, <4>5, SubSeqJoin
      <4> QED
        BY <4>3, <4>4, <4>6
    <3>6. k \in 0..(next + 1)
      BY <1>4, <1>13, <3>3
    <3> QED
      BY <3>4, <3>5, <3>6
  <2>8. player.phase = "paging"
    BY DEF GetPage
  <2> QED
    BY <1>4, <1>7, <1>10, <2>3, <2>5, <2>6, <2>7, <2>8 DEF LoadInv
<1>15. CASE Len(new) # PageLimit
  <2>1. next = None
    BY <1>11, <1>15 DEF NextSeq
  <2>2. /\ PlayerFields \subseteq DOMAIN player' /\ player'.phase = "ready"
        /\ player'.incomplete = player.incomplete /\ player'.events = events
    BY <1>4, <1>12, <2>1 DEF PlayerFields
  <2>3. ASSUME ~player.incomplete
        PROVE  \E k \in 0..Len(History) : Zeroes(k) /\ events = SubSeq(History, k + 1, Len(History))
    <3>1. stored = 0..(Len(History) - 1)
      BY <1>4, <2>3 DEF StoreInv
    <3>2. new = SubSeq(History, since + 2, Len(History))
      <4>1. since \in -1..(Len(History) - 1) /\ new = EventPage(since)
        BY <1>1, <1>3, <1>4, <1>13
      <4> QED
        BY <1>15, <3>1, <4>1, WholePageIs
    <3>3. PICK k \in 0..(since + 1) : Zeroes(k) /\ old = SubSeq(History, k + 1, since + 1)
      BY <1>4, <2>3
    <3>4. events = SubSeq(History, k + 1, Len(History))
      <4>1. PICK b : b = since + 1
        OBVIOUS
      <4>2. b \in Nat /\ k <= b /\ b <= Len(History) /\ k \in Nat /\ b + 1 = since + 2
        BY <1>4, <1>13, <3>3, <4>1
      <4>3. events = SubSeq(History, k + 1, b) \o SubSeq(History, b + 1, Len(History))
        BY <1>6, <3>2, <3>3, <4>1, <4>2
      <4>4. PICK c : c = Len(History)
        OBVIOUS
      <4>5. c \in Nat /\ b <= c /\ c <= Len(History)
        BY <1>13, <4>2, <4>4
      <4>6. SubSeq(History, k + 1, b) \o SubSeq(History, b + 1, c) = SubSeq(History, k + 1, c)
        BY <1>13, <4>2, <4>5, SubSeqJoin
      <4> QED
        BY <4>3, <4>4, <4>6
    <3>5. k \in 0..Len(History)
      BY <1>4, <1>13
    <3> QED
      BY <3>3, <3>4, <3>5
  <2> QED
    BY <1>4, <1>7, <1>10, <2>2, <2>3 DEF LoadInv
<1> QED
  BY <1>14, <1>15

----------------------------------------------------------------------------
(* The playback *)

\* What is shown is the fold of the events before the slider.
PlayInv ==
    /\ player.phase \in {"detail", "snapshot", "paging"} => player.played = 0
    /\ player.phase \in {"paging", "ready"} => Fresh(player.base)
    /\ player.phase = "ready" =>
         /\ player.played \in 0..Len(player.events)
         /\ ViewFields \subseteq DOMAIN player.view
         /\ Shows(player.view, player.base, SubSeq(player.events, 1, player.played))

\* The regenerated world is where a fold starts.
LEMMA SnapshotIsFresh ==
    ASSUME NEW snap, snap.nodes = [a \in Agent |-> snap.nodes[a]],
           \A a \in Agent : snap.nodes[a] = [security_state |-> snap.nodes[a].security_state,
                                             compromised_by |-> snap.nodes[a].compromised_by,
                                             tick_compromised |-> snap.nodes[a].tick_compromised],
           Cardinality(Exposed(snap.nodes)) \in Int
    PROVE  Fresh(reduceSnapshot(initialGraphState, snap))
<1>1. PICK v : v = initialGraphState
  OBVIOUS
<1>2. PICK w : w = reduceSnapshot(v, snap)
  OBVIOUS
<1>3. /\ DOMAIN v = ViewFields \cup {"experimentId"}
      /\ v.newCompromises = 0 /\ v.modelCalls = 0
      /\ v.incidentsByAgent = [a \in Agent |-> << >>]
  BY <1>1 DEF initialGraphState, ViewFields
<1>4. /\ ViewFields \subseteq DOMAIN w /\ w.nodes = snap.nodes
      /\ w.newCompromises \in {0, Cardinality(Exposed(snap.nodes))} /\ w.modelCalls = 0
      /\ w.incidentsByAgent = [a \in Agent |-> << >>]
  BY <1>2, <1>3 DEF reduceSnapshot, ViewFields
<1>5. IncidentLogCap \in Nat /\ << >> \in Seq(Nat) /\ Len(<< >>) = 0
  BY CapAssumption
<1>6. DOMAIN snap.nodes = Agent
  OBVIOUS
<1> QED
  BY <1>1, <1>2, <1>4, <1>5, <1>6 DEF Fresh

LEMMA ReplaySnapshotIsFresh == Fresh(reduceSnapshot(initialGraphState, ReplaySnapshot))
<1>1. PICK snap : snap = ReplaySnapshot
  OBVIOUS
<1>2. snap.nodes = [a \in Agent |->
        IF a = PatientZero
        THEN [security_state |-> "compromised", compromised_by |-> None, tick_compromised |-> 0]
        ELSE Healthy]
  BY <1>1 DEF ReplaySnapshot
<1>3. PatientZero \in Agent
  BY ArchiveAssumption
<1>4. Exposed(snap.nodes) = {PatientZero}
  BY <1>2, <1>3 DEF Exposed, Having, Healthy
<1>5. Cardinality({PatientZero}) = 1
  BY FS_Singleton
<1>6. \A a \in Agent : snap.nodes[a] = [security_state |-> snap.nodes[a].security_state,
                                        compromised_by |-> snap.nodes[a].compromised_by,
                                        tick_compromised |-> snap.nodes[a].tick_compromised]
  BY <1>2 DEF Healthy
<1>7. snap.nodes = [a \in Agent |-> snap.nodes[a]]
  BY <1>2
<1>8. Cardinality(Exposed(snap.nodes)) \in Int
  BY <1>4, <1>5
<1> QED
  BY <1>1, <1>6, <1>7, <1>8, SnapshotIsFresh

\* Everything else that the transport does leaves the load alone.
Played(p, view, played) ==
    /\ PlayerFields \subseteq DOMAIN p
    /\ p.phase = player.phase /\ p.incomplete = player.incomplete /\ p.base = player.base
    /\ p.events = player.events /\ p.since = player.since
    /\ p.view = view /\ p.played = played

LEMMA SettledLeaves ==
    ASSUME NEW p, NEW view, NEW played, Played(p, view, played)
    PROVE  Played(Settled(p), view, played)
BY DEF Played, Settled, PlayerFields

LEMMA ReplayIs ==
    ASSUME LoadInv, Replay
    PROVE  /\ player.phase = "ready" /\ UNCHANGED dbVars
           /\ \/ Played(player', player.view, player.played)
              \/ /\ player.played < Total
                 /\ Played(player', reduceEvent(player.view, player.events[player.played + 1]),
                           player.played + 1)
              \/ \E index \in 0..Total :
                   Played(player', foldEvents(player.base, player.events, index), index)
<1>1. player.phase = "ready" /\ UNCHANGED dbVars
  BY DEF Replay, TogglePlay, PlayOne, Scrub, Restart, Move, Playing, Untouched
<1>2. PlayerFields \subseteq DOMAIN player
  BY DEF LoadInv
<1>3. CASE TogglePlay
  <2>1. PICK p : p = [player EXCEPT !.playing = ~@]
    OBVIOUS
  <2>2. Played(p, player.view, player.played)
    BY <1>2, <2>1 DEF Played, PlayerFields
  <2>3. player' = Settled(p)
    BY <1>3, <2>1 DEF TogglePlay
  <2> QED
    BY <1>1, <2>2, <2>3, SettledLeaves
<1>4. CASE PlayOne
  <2>1. PICK p : p = [player EXCEPT !.view = reduceEvent(@, player.events[player.played + 1]),
                                    !.played = @ + 1]
    OBVIOUS
  <2>2. Played(p, reduceEvent(player.view, player.events[player.played + 1]), player.played + 1)
    BY <1>2, <2>1 DEF Played, PlayerFields
  <2>3. player' = Settled(p) /\ player.played < Total
    BY <1>4, <2>1 DEF PlayOne
  <2> QED
    BY <1>1, <2>2, <2>3, SettledLeaves
<1>5. CASE Scrub
  <2>1. PICK index \in 0..Total : player' = Settled(seek(player, index))
    BY <1>5 DEF Scrub
  <2>2. PICK p : p = seek(player, index)
    OBVIOUS
  <2>3. Played(p, foldEvents(player.base, player.events, index), index)
    BY <1>2, <2>2 DEF Played, PlayerFields, seek
  <2> QED
    BY <1>1, <2>1, <2>2, <2>3, SettledLeaves
<1>6. CASE Restart
  <2>1. player' = seek([player EXCEPT !.playing = FALSE], 0) /\ 0 \in 0..Total
    <3>1. Total \in Nat
      BY DEF LoadInv, Total
    <3> QED
      BY <1>6, <3>1 DEF Restart
  <2>2. PICK p : p = [player EXCEPT !.playing = FALSE]
    OBVIOUS
  <2>3. PlayerFields \subseteq DOMAIN p /\ Played(p, player.view, player.played)
    BY <1>2, <2>2 DEF Played, PlayerFields
  <2>4. Played(seek(p, 0), foldEvents(player.base, player.events, 0), 0)
    BY <2>3 DEF Played, PlayerFields, seek
  <2> QED
    BY <1>1, <2>1, <2>2, <2>4
<1> QED
  BY <1>3, <1>4, <1>5, <1>6 DEF Replay

LEMMA ReplayKeeps ==
    ASSUME StoreInv, LoadInv, PlayInv, Replay
    PROVE  LoadInv' /\ PlayInv'
<1>1. /\ player.phase = "ready" /\ Fresh(player.base) /\ player.events \in Seq(EventRecord)
      /\ player.played \in 0..Len(player.events) /\ ViewFields \subseteq DOMAIN player.view
      /\ Shows(player.view, player.base, SubSeq(player.events, 1, player.played))
  BY ReplayIs DEF PlayInv, LoadInv
<1>2. ASSUME NEW view, NEW played, Played(player', view, played), UNCHANGED dbVars,
             played \in 0..Len(player.events), ViewFields \subseteq DOMAIN view,
             Shows(view, player.base, SubSeq(player.events, 1, played))
      PROVE  LoadInv' /\ PlayInv'
  <2>1. LoadInv'
    BY <1>2 DEF Played, LoadInv, Rising, dbVars
  <2>2. PlayInv'
    BY <1>1, <1>2 DEF Played, PlayInv
  <2> QED
    BY <2>1, <2>2
<1>3. CASE Played(player', player.view, player.played)
  BY <1>1, <1>2, <1>3, ReplayIs
<1>4. CASE /\ player.played < Total
           /\ Played(player', reduceEvent(player.view, player.events[player.played + 1]),
                     player.played + 1)
  <2>1. PICK i : i = player.played
    OBVIOUS
  <2>2. i \in 0..(Len(player.events) - 1) /\ i + 1 \in 0..Len(player.events)
    BY <1>1, <1>4, <2>1 DEF Total
  <2>3. /\ SubSeq(player.events, 1, i) \in Seq(EventRecord) /\ player.events[i + 1] \in EventRecord
        /\ SubSeq(player.events, 1, i + 1) = Append(SubSeq(player.events, 1, i), player.events[i + 1])
    BY <1>1, <2>2, PrefixGrows
  <2>4. PICK w : w = reduceEvent(player.view, player.events[i + 1])
    OBVIOUS
  <2>5. ViewFields \subseteq DOMAIN w /\ Shows(w, player.base, SubSeq(player.events, 1, i + 1))
    BY <1>1, <2>1, <2>3, <2>4, ShowsStep
  <2> QED
    BY <1>2, <1>4, <2>1, <2>2, <2>4, <2>5, ReplayIs
<1>5. ASSUME NEW index \in 0..Total,
             Played(player', foldEvents(player.base, player.events, index), index)
      PROVE  LoadInv' /\ PlayInv'
  <2>1. index \in 0..Len(player.events)
    BY DEF Total
  <2>2. PICK w : w = foldEvents(player.base, player.events, index)
    OBVIOUS
  <2>3. ViewFields \subseteq DOMAIN w /\ Shows(w, player.base, SubSeq(player.events, 1, index))
    BY <1>1, <2>1, <2>2, FoldShows
  <2> QED
    BY <1>2, <1>5, <2>1, <2>2, <2>3, ReplayIs
<1> QED
  BY <1>3, <1>4, <1>5, ReplayIs

ReplayInv == StoreInv /\ LoadInv /\ PlayInv

LEMMA LoadKeeps ==
    ASSUME ReplayInv, Load
    PROVE  ReplayInv'
<1>1. StoreInv'
  BY DEF ReplayInv, StoreInv, Load, GetDetail, GetSnapshot, GetPage, LoadFails, Untouched, dbVars
<1>2. CASE GetDetail
  <2>1. LoadInv'
    BY <1>2, DetailKeeps DEF ReplayInv
  <2>2. PlayerFields \subseteq DOMAIN player /\ player.phase = "detail" /\ player.played = 0
    BY <1>2 DEF ReplayInv, LoadInv, PlayInv, GetDetail
  <2>3. player'.phase = "snapshot" /\ player'.played = 0
    BY <1>2, <2>2 DEF GetDetail, PlayerFields
  <2> QED
    BY <1>1, <2>1, <2>3 DEF ReplayInv, PlayInv
<1>3. CASE GetSnapshot
  <2>1. LoadInv'
    BY <1>3, SnapshotKeeps DEF ReplayInv
  <2>2. PlayerFields \subseteq DOMAIN player /\ player.phase = "snapshot" /\ player.played = 0
    BY <1>3 DEF ReplayInv, LoadInv, PlayInv, GetSnapshot
  <2>3. /\ player'.phase = "paging" /\ player'.played = 0
        /\ player'.base = reduceSnapshot(initialGraphState, ReplaySnapshot)
    BY <1>3, <2>2 DEF GetSnapshot, PlayerFields
  <2> QED
    BY <1>1, <2>1, <2>3, ReplaySnapshotIsFresh DEF ReplayInv, PlayInv
<1>4. CASE GetPage
  <2>1. LoadInv'
    BY <1>4, PageKeeps DEF ReplayInv
  <2>2. /\ PlayerFields \subseteq DOMAIN player /\ player.phase = "paging" /\ player.played = 0
        /\ Fresh(player.base)
    BY <1>4 DEF ReplayInv, LoadInv, PlayInv, GetPage
  <2>3. /\ player'.played = 0 /\ player'.base = player.base
        /\ player'.phase = "paging" \/ (player'.phase = "ready" /\ player'.view = player.base)
    BY <1>4, <2>2 DEF GetPage, PlayerFields
  <2>4. player'.events \in Seq(EventRecord)
    BY <2>1 DEF LoadInv
  <2>5. SubSeq(player'.events, 1, 0) = << >> /\ 0 \in 0..Len(player'.events)
    BY <2>4
  <2>6. Shows(player.base, player.base, << >>) /\ ViewFields \subseteq DOMAIN player.base
    BY <2>2, FreshShowsNothing DEF Fresh
  <2>7. PlayInv'
    BY <2>2, <2>3, <2>5, <2>6 DEF PlayInv
  <2> QED
    BY <1>1, <2>1, <2>7 DEF ReplayInv
<1>5. CASE LoadFails
  <2>1. PlayerFields \subseteq DOMAIN player
    BY DEF ReplayInv, LoadInv
  <2>2. /\ PlayerFields \subseteq DOMAIN player' /\ player'.phase = "error"
        /\ player'.incomplete = player.incomplete /\ player'.events = player.events
    BY <1>5, <2>1 DEF LoadFails, PlayerFields, Untouched, dbVars
  <2> QED
    BY <1>1, <2>2 DEF ReplayInv, LoadInv, PlayInv, Rising
<1> QED
  BY <1>2, <1>3, <1>4, <1>5 DEF Load

LEMMA ReplayInvariant == ArchiveSpec => []ReplayInv
<1>1. ArchiveInit => ReplayInv
  <2> SUFFICES ASSUME ArchiveInit
               PROVE  ReplayInv
    OBVIOUS
  <2>1. Len(History) \in Nat
    BY LogAssumption
  <2>2. StoreInv
    BY <2>1 DEF ArchiveInit, StoreInv
  <2>3. /\ PlayerFields \subseteq DOMAIN player /\ player.phase = "detail"
        /\ player.events = << >> /\ player.played = 0
    BY DEF ArchiveInit, NewPlayer, PlayerFields
  <2>4. << >> \in Seq(EventRecord) /\ Len(<< >>) = 0
    OBVIOUS
  <2> QED
    BY <2>2, <2>3, <2>4 DEF ReplayInv, LoadInv, PlayInv, Rising
<1>2. ReplayInv /\ [ArchiveNext]_archiveVars => ReplayInv'
  <2> SUFFICES ASSUME ReplayInv, [ArchiveNext]_archiveVars
               PROVE  ReplayInv'
    OBVIOUS
  <2>1. CASE WriteBatch \/ Finalize
    <3>1. StoreInv' /\ (row = "complete" => row' = "complete")
      BY <2>1, StoreKeeps DEF ReplayInv
    <3>2. UNCHANGED player
      BY <2>1 DEF WriteBatch, Finalize
    <3> QED
      BY <3>1, <3>2 DEF ReplayInv, LoadInv, PlayInv, Rising
  <2>2. CASE Load
    BY <2>2, LoadKeeps
  <2>3. CASE OpenReplay
    <3>1. player' = NewPlayer /\ UNCHANGED dbVars
      BY <2>3 DEF OpenReplay, Untouched
    <3>2. /\ PlayerFields \subseteq DOMAIN player' /\ player'.phase = "detail"
          /\ player'.events = << >> /\ player'.played = 0
      BY <3>1 DEF NewPlayer, PlayerFields
    <3>3. << >> \in Seq(EventRecord) /\ Len(<< >>) = 0
      OBVIOUS
    <3>4. StoreInv'
      BY <3>1 DEF ReplayInv, StoreInv, dbVars
    <3> QED
      BY <3>2, <3>3, <3>4 DEF ReplayInv, LoadInv, PlayInv, Rising
  <2>4. CASE Replay
    <3>1. StoreInv'
      BY <2>4, ReplayIs DEF ReplayInv, StoreInv, dbVars
    <3> QED
      BY <2>4, <3>1, ReplayKeeps DEF ReplayInv
  <2>5. CASE UNCHANGED <<dbVars, player>>
    BY <2>5 DEF ReplayInv, StoreInv, LoadInv, PlayInv, Rising, dbVars
  <2>6. CASE ListStep
    <3>1. UNCHANGED <<dbVars, player>>
      BY <2>6 DEF ListStep, RunCreated, RunFinished, ListAnswers, ListFails, LoadMore, SetFilter,
                  ToggleSelect, ListUntouched
    <3> QED
      BY <2>5, <3>1
  <2> QED
    BY <2>1, <2>2, <2>3, <2>4, <2>5, <2>6 DEF ArchiveNext, archiveVars
<1> QED
  BY <1>1, <1>2, PTL DEF ArchiveSpec

\* Wherever the user scrubs and whenever the interval fires, the page shows the
\* world of the snapshot brought forward by the first playedCount events
\* (useReplayStream.ts:86-114), of a log of any length.
THEOREM ReplayShowsThePrefix == ArchiveSpec => []ReplayIsThePrefix
<1>1. ReplayInv => ReplayIsThePrefix
  BY DEF ReplayInv, PlayInv, ReplayIsThePrefix
<1> QED
  BY <1>1, ReplayInvariant, PTL

\* A replay without the warning banner holds every event after tick 0
\* (loadReplayData.ts:32-51): is_complete is read before the log, and a log that was
\* complete then does not change.  No log has an event twice or out of order.
THEOREM UnmarkedIsWhole == ArchiveSpec => []UnmarkedReplayIsWhole
<1>1. ReplayInv => UnmarkedReplayIsWhole
  <2> SUFFICES ASSUME ReplayInv
               PROVE  UnmarkedReplayIsWhole
    OBVIOUS
  <2>1. player.events \in Seq(EventRecord) /\ Rising(player.events)
    BY DEF ReplayInv, LoadInv
  <2>2. \A i \in 1..(Total - 1) : player.events[i].seq < player.events[i + 1].seq
    <3> TAKE i \in 1..(Total - 1)
    <3>1. i \in 1..Len(player.events) /\ i + 1 \in 1..Len(player.events) /\ i < i + 1
      BY <2>1 DEF Total
    <3> QED
      BY <2>1, <3>1 DEF Rising
  <2>3. ASSUME player.phase = "ready", ~player.incomplete
        PROVE  player.events = Only(History, {e \in Range(History) : e.tick > 0})
    <3>1. PICK k \in 0..Len(History) :
            Zeroes(k) /\ player.events = SubSeq(History, k + 1, Len(History))
      BY <2>3 DEF ReplayInv, LoadInv
    <3>2. History \in Seq(EventRecord) /\ Len(History) \in Nat
      BY LogAssumption
    <3>3. PICK S : S = {e \in Range(History) : e.tick > 0}
      OBVIOUS
    <3>4. \A i \in 1..Len(History) : History[i] \in S <=> i > k
      <4> TAKE i \in 1..Len(History)
      <4>1. History[i] \in EventRecord /\ History[i] \in Range(History)
        BY <3>2 DEF Range
      <4>2. History[i].tick \in Nat
        BY <4>1, EventFields
      <4>3. History[i].tick = 0 <=> i <= k
        BY <3>1 DEF Zeroes
      <4> QED
        BY <3>3, <4>1, <4>2, <4>3
    <3>5. Only(History, S) = SubSeq(History, k + 1, Len(History))
      BY <3>2, <3>4, OnlySuffix
    <3> QED
      BY <3>1, <3>3, <3>5
  <2> QED
    BY <2>2, <2>3 DEF UnmarkedReplayIsWhole
<1> QED
  BY <1>1, ReplayInvariant, PTL

----------------------------------------------------------------------------
(* The workspace *)

\* What Sigma holds once the effects have run for these sources: nothing without
\* nodes, otherwise their structure and the colours of now.
Drawing(place, graph) ==
    LET m == buildTopologyModel(place, graph)
    IN  IF m = << >> THEN NotDrawn
        ELSE [key |-> structureKey(place, graph), colour |-> m, edges |-> Edges(DOMAIN m)]

\* The sources tell which nodes there are.
LEMMA NodesOfModel ==
    ASSUME NEW place, NEW graph
    PROVE  LET m == buildTopologyModel(place, graph) IN
           /\ graph # -1 => DOMAIN m = Node /\ m # << >>
           /\ graph = -1 /\ place # -1 => DOMAIN m = Agent /\ m # << >>
           /\ graph = -1 /\ place = -1 => m = << >>
           /\ m = [n \in DOMAIN m |-> m[n]]
           /\ \A n \in DOMAIN m :
                m[n] = StateOf(n, IF n \in Agent /\ place # -1 THEN place ELSE graph)
<1>1. PatientZero \in Agent /\ Agent \subseteq Node
  BY WorkspaceAssumption DEF Node
<1>2. \A f : f = << >> => DOMAIN f = {}
  OBVIOUS
<1>3. CASE graph # -1
  BY <1>1, <1>2, <1>3 DEF buildTopologyModel
<1>4. CASE graph = -1 /\ place # -1
  BY <1>1, <1>2, <1>4 DEF buildTopologyModel
<1>5. CASE graph = -1 /\ place = -1
  BY <1>5 DEF buildTopologyModel
<1> QED
  BY <1>3, <1>4, <1>5

\* Whatever was drawn for older sources, the effects draw what the new ones say: the
\* key changes whenever the set of nodes does.
LEMMA RedrawIsDrawing ==
    ASSUME NEW place, NEW graph, NEW newPlace, NEW newGraph
    PROVE  Redraw(Drawing(place, graph), newPlace, newGraph) = Drawing(newPlace, newGraph)
<1>1. PICK m : m = buildTopologyModel(place, graph)
  OBVIOUS
<1>2. PICK new : new = buildTopologyModel(newPlace, newGraph)
  OBVIOUS
<1>3. PICK d : d = Drawing(place, graph)
  OBVIOUS
<1>4. PICK key : key = structureKey(newPlace, newGraph)
  OBVIOUS
<1>5. CASE new = << >>
  BY <1>2, <1>5 DEF Redraw, Drawing
<1>6. CASE new # << >> /\ d.key # key
  BY <1>2, <1>3, <1>4, <1>6 DEF Redraw, Drawing
<1>7. CASE new # << >> /\ d.key = key
  <2>1. newGraph # -1 \/ newPlace # -1
    BY <1>2, <1>7, NodesOfModel
  <2>2. m # << >>
    <3> SUFFICES ASSUME m = << >>
                 PROVE  FALSE
      OBVIOUS
    <3>1. key = None
      BY <1>1, <1>3, <1>7 DEF Drawing, NotDrawn
    <3>2. DOMAIN new = Node \/ DOMAIN new = Agent
      BY <1>2, <2>1, NodesOfModel
    <3>3. Cardinality(DOMAIN new) \in Nat
      BY <3>2, FS_Subset, FS_CardinalityType, WorkspaceAssumption DEF Node
    <3>4. PICK c \in Nat : c = Cardinality(DOMAIN new)
      BY <3>3
    <3>5. key = <<newGraph # -1, newPlace # -1, c>>
      BY <1>2, <1>4, <3>4 DEF structureKey
    <3>6. key \in BOOLEAN \X BOOLEAN \X Nat
      BY <3>5
    <3> QED
      BY <3>1, <3>6, NoneAssumption
  <2>3. d = [key |-> structureKey(place, graph), colour |-> m, edges |-> Edges(DOMAIN m)]
    BY <1>1, <1>3, <2>2 DEF Drawing
  <2>4. structureKey(place, graph) = structureKey(newPlace, newGraph)
    BY <1>4, <1>7, <2>3
  <2>5. (graph # -1) = (newGraph # -1) /\ (place # -1) = (newPlace # -1)
    BY <2>4 DEF structureKey
  <2>6. DOMAIN new = DOMAIN m
    BY <1>1, <1>2, <2>1, <2>5, NodesOfModel
  <2>7. Redraw(d, newPlace, newGraph)
          = [d EXCEPT !.colour = [n \in DOMAIN @ |-> IF n \in DOMAIN new THEN new[n] ELSE @[n]]]
    BY <1>2, <1>4, <1>7 DEF Redraw
  <2>8. [n \in DOMAIN m |-> IF n \in DOMAIN new THEN new[n] ELSE m[n]] = new
    <3>1. new = [n \in DOMAIN new |-> new[n]]
      BY <1>2, NodesOfModel
    <3> QED
      BY <2>6, <3>1
  <2>9. Redraw(d, newPlace, newGraph) = [key |-> key, colour |-> new, edges |-> Edges(DOMAIN new)]
    BY <1>4, <2>3, <2>4, <2>6, <2>7, <2>8
  <2> QED
    BY <1>2, <1>3, <1>4, <1>7, <2>9 DEF Drawing
<1> QED
  BY <1>5, <1>6, <1>7

----------------------------------------------------------------------------
(* The inductive invariant *)

Finders == [up : BOOLEAN, number : Nat, paths : {None} \cup SUBSET SimplePaths, loading : BOOLEAN]
Request == [node : Agent \cup {None}, cancelled : BOOLEAN]

\* The graph is drawn as its two sources are now.
IsDrawn == drawn = Drawing(seen, insights.graph)

\* A path that is shown, and every one that can be picked, is a path of the graph.
PathsAreReal == path \in {None} \cup SimplePaths /\ finder \in Finders

\* At most the request for the selected node may still be taken; until it is answered
\* the inspector may show the chain of the node before.
Traced ==
    /\ traces \subseteq Request
    /\ \A t \in traces : ~t.cancelled => t.node \in {None, selectedId}
    /\ TraceSettles

WorkspaceInv == IsDrawn /\ PathsAreReal /\ Traced

LEMMA InitIsDrawn == Init => WorkspaceInv
<1> SUFFICES ASSUME Init
             PROVE  WorkspaceInv
  OBVIOUS
<1>1. drawn = Redraw(NotDrawn, seen, -1) /\ insights.graph = -1
  BY DEF Init
<1>2. Drawing(-1, -1) = NotDrawn
  BY NodesOfModel DEF Drawing
<1>3. IsDrawn
  BY <1>1, <1>2, RedrawIsDrawing DEF IsDrawn
<1>4. PathsAreReal
  BY DEF Init, PathsAreReal, Finders
<1>5. Traced
  BY DEF Init, Traced, TraceSettles, NoChain
<1> QED
  BY <1>3, <1>4, <1>5 DEF WorkspaceInv

\* The data: the effects of a frame and of an answered or failed poll draw it.
LEMMA DataStep ==
    ASSUME WorkspaceInv, Happen \/ Frame \/ Poll
    PROVE  WorkspaceInv'
<1>1. UNCHANGED <<userVars, askVars>>
  BY DEF Happen, Frame, Poll, PollServed, PollAnswered, PollFailed, PollAgain
<1>2. PathsAreReal' /\ Traced'
  BY <1>1 DEF WorkspaceInv, PathsAreReal, Traced, TraceSettles, userVars, askVars
<1>3. Effects \/ UNCHANGED <<seen, insights, drawn>>
  BY DEF Happen, Frame, Poll, PollServed, PollAnswered, PollFailed, PollAgain
<1>4. IsDrawn'
  BY <1>3, RedrawIsDrawing DEF WorkspaceInv, IsDrawn, Effects
<1> QED
  BY <1>2, <1>4 DEF WorkspaceInv

\* What the user does and what answers it leave the drawing alone.
LEMMA UserDraws ==
    ASSUME WorkspaceInv, UserStep \/ Answer
    PROVE  IsDrawn'
<1>1. UNCHANGED <<dataVars, drawn>>
  BY DEF UserStep, Answer, DataUntouched, Select, Deselect, Ask, TraceFrom, Search, PickPath,
         ClearPath, ToggleLayer, ToggleFocus, TraceAnswered, SearchAnswered, SearchFailed, Found
<1> QED
  BY <1>1 DEF WorkspaceInv, IsDrawn, dataVars

LEMMA PathStep ==
    ASSUME WorkspaceInv, UserStep \/ Answer
    PROVE  PathsAreReal'
<1>1. path \in {None} \cup SimplePaths /\ finder \in Finders
  BY DEF WorkspaceInv, PathsAreReal
<1>2. ASSUME NEW s, NEW paths \in {None} \cup SUBSET SimplePaths, Found(s, paths)
      PROVE  finder' \in Finders
  BY <1>1, <1>2 DEF Found, Finders
<1>3. ASSUME NEW n \in Node, Select(n)
      PROVE  PathsAreReal'
  BY <1>1, <1>3 DEF Select, PathsAreReal, Finders
<1>4. CASE Deselect
  <2>1. finder.number + 1 \in Nat
    BY <1>1 DEF Finders
  <2> QED
    BY <1>1, <1>4, <2>1 DEF Deselect, PathsAreReal, Finders
<1>5. CASE Ask \/ TraceFrom \/ ToggleLayer \/ ToggleFocus
  BY <1>1, <1>5 DEF Ask, TraceFrom, ToggleLayer, ToggleFocus, PathsAreReal
<1>6. CASE Search
  BY <1>1, <1>6 DEF Search, PathsAreReal, Finders
<1>7. CASE PickPath
  <2>1. finder.paths \in SUBSET SimplePaths /\ finder' = finder
    BY <1>1, <1>7 DEF PickPath, Finders
  <2>2. path' \in {None} \cup SimplePaths
    BY <1>7, <2>1 DEF PickPath
  <2> QED
    BY <1>1, <2>1, <2>2 DEF PathsAreReal
<1>8. CASE ClearPath
  BY <1>1, <1>8 DEF ClearPath, PathsAreReal
<1>9. ASSUME NEW t \in traces, TraceAnswered(t)
      PROVE  PathsAreReal'
  BY <1>1, <1>9 DEF TraceAnswered, userVars, PathsAreReal
<1>10. ASSUME NEW s \in searches, SearchAnswered(s)
       PROVE  PathsAreReal'
  <2>1. PathsFrom(s.asked) \in SUBSET SimplePaths
    BY DEF PathsFrom
  <2>2. path' \in {None} \cup SimplePaths
    BY <1>10, <2>1 DEF SearchAnswered
  <2>3. finder' \in Finders
    BY <1>2, <1>10, <2>1 DEF SearchAnswered
  <2> QED
    BY <2>2, <2>3 DEF PathsAreReal
<1>11. ASSUME NEW s \in searches, SearchFailed(s)
       PROVE  PathsAreReal'
  <2>1. finder' \in Finders
    BY <1>2, <1>11 DEF SearchFailed
  <2> QED
    BY <1>11, <2>1 DEF SearchFailed, PathsAreReal
<1> QED
  BY <1>3, <1>4, <1>5, <1>6, <1>7, <1>8, <1>9, <1>10, <1>11 DEF UserStep, Answer

LEMMA TraceStep ==
    ASSUME WorkspaceInv, UserStep \/ Answer
    PROVE  Traced'
<1>1. /\ traces \subseteq Request
      /\ \A t \in traces : ~t.cancelled => t.node \in {None, selectedId}
      /\ (\A t \in traces : t.cancelled) => trace.of \in {None, selectedId}
  BY DEF WorkspaceInv, Traced, TraceSettles
<1>2. \A t \in Cancelled : t \in Request /\ t.cancelled
  BY <1>1 DEF Cancelled, Request
<1>3. ASSUME NEW n \in Node, Select(n)
      PROVE  Traced'
  <2>1. traces' = Cancelled \cup {Asked(n)} /\ selectedId' = n
    BY <1>3 DEF Select
  <2>2. Asked(n) \in Request /\ Asked(n).node \in {None, n} /\ ~Asked(n).cancelled
    BY DEF Asked, Request
  <2> QED
    BY <1>2, <2>1, <2>2 DEF Traced, TraceSettles
<1>4. CASE Deselect
  BY <1>2, <1>4 DEF Deselect, NoChain, Traced, TraceSettles
<1>5. ASSUME NEW t \in traces, TraceAnswered(t)
      PROVE  Traced'
  <2>1. traces' = traces \ {t} /\ selectedId' = selectedId
    BY <1>5 DEF TraceAnswered, userVars
  <2>2. CASE t.cancelled
    <3>1. trace' = trace
      BY <1>5, <2>2 DEF TraceAnswered
    <3> QED
      BY <1>1, <2>1, <2>2, <3>1 DEF Traced, TraceSettles
  <2>3. CASE ~t.cancelled
    <3>1. trace'.of \in {t.node, None}
      BY <1>5, <2>3 DEF TraceAnswered
    <3>2. t.node \in {None, selectedId}
      BY <1>1, <2>3
    <3> QED
      BY <1>1, <2>1, <3>1, <3>2 DEF Traced, TraceSettles
  <2> QED
    BY <2>2, <2>3
<1>6. ASSUME UNCHANGED <<selectedId, trace, traces>>
      PROVE  Traced'
  BY <1>1, <1>6 DEF Traced, TraceSettles
<1>7. CASE \/ Ask \/ TraceFrom \/ Search \/ PickPath \/ ClearPath \/ ToggleLayer \/ ToggleFocus
           \/ \E s \in searches : SearchAnswered(s) \/ SearchFailed(s)
  BY <1>6, <1>7 DEF Ask, TraceFrom, Search, PickPath, ClearPath, ToggleLayer, ToggleFocus,
                    SearchAnswered, SearchFailed, Found, askVars
<1> QED
  BY <1>3, <1>4, <1>5, <1>7 DEF UserStep, Answer

\* Every interleaving of frames, polls, clicks and answers keeps the drawing, the paths
\* and the chain in step with what they are of.
THEOREM WorkspaceSafe == Spec => []WorkspaceInv
<1>1. Init => WorkspaceInv
  BY InitIsDrawn
<1>2. WorkspaceInv /\ [Next]_vars => WorkspaceInv'
  <2> SUFFICES ASSUME WorkspaceInv, [Next]_vars
               PROVE  WorkspaceInv'
    OBVIOUS
  <2>1. CASE Happen \/ Frame \/ Poll
    BY <2>1, DataStep
  <2>2. CASE UserStep \/ Answer
    BY <2>2, UserDraws, PathStep, TraceStep DEF WorkspaceInv
  <2>3. CASE UNCHANGED vars
    BY <2>3 DEF vars, dataVars, userVars, askVars, WorkspaceInv, IsDrawn, PathsAreReal,
                Traced, TraceSettles
  <2> QED
    BY <2>1, <2>2, <2>3 DEF Next
<1> QED
  BY <1>1, <1>2, PTL DEF Spec

----------------------------------------------------------------------------
(* What the screen shows *)

LEMMA ModelIsDrawn == IsDrawn => DrawnIsTheModel
<1> SUFFICES ASSUME IsDrawn
             PROVE  DrawnIsTheModel
  OBVIOUS
<1>1. drawn.colour = model
  BY DEF IsDrawn, Drawing, NotDrawn, model
<1>2. \A n \in DOMAIN model :
        model[n] = StateOf(n, IF n \in Agent /\ seen # -1 THEN seen ELSE insights.graph)
  BY NodesOfModel DEF model
<1> QED
  BY <1>1, <1>2 DEF DrawnIsTheModel

LEMMA PathIsSeen == IsDrawn /\ PathsAreReal => PathStandsOut
<1> SUFFICES ASSUME IsDrawn, PathsAreReal, path # None, insights.graph # -1
             PROVE  /\ Range(path) \subseteq DOMAIN drawn.colour
                    /\ \A n \in Node : inPath(n) <=> ~isDimmed(n)
                    /\ Len(path) > 1 => \A i \in DOMAIN path : i \in Mark(path[i]).steps
                    /\ \A e \in Hops : e \in drawn.edges /\ EdgeStyle(e) \in {"path", "hidden"}
  BY DEF PathStandsOut
<1>1. path \in SimplePaths
  BY DEF PathsAreReal
<1>2. PICK len \in 1..Cardinality(Node) : path \in [1..len -> Node] /\ IsPath(path)
  BY <1>1 DEF SimplePaths
<1>3. len \in Nat
  OBVIOUS
<1>4. Len(path) = len /\ DOMAIN path = 1..len
  <2>1. path \in Seq(Node)
    BY <1>2, <1>3
  <2> QED
    BY <1>2, <1>3, <2>1
<1>5. drawn.colour = model /\ drawn.edges = Edges(DOMAIN model) /\ DOMAIN model = Node
  <2>1. DOMAIN model = Node /\ model # << >>
    BY NodesOfModel DEF model
  <2> QED
    BY <2>1 DEF IsDrawn, Drawing, model
<1>6. Range(path) \subseteq DOMAIN drawn.colour
  BY <1>2, <1>5 DEF Range
<1>7. \A n \in Node : inPath(n) <=> ~isDimmed(n)
  BY DEF isDimmed, inPath
<1>8. Len(path) > 1 => \A i \in DOMAIN path : i \in Mark(path[i]).steps
  <2> SUFFICES ASSUME Len(path) > 1, NEW i \in DOMAIN path
               PROVE  i \in Mark(path[i]).steps
    OBVIOUS
  <2>1. Steps(path[i]) = {k \in DOMAIN path : path[k] = path[i]}
    BY <1>3, <1>4 DEF Steps
  <2>2. Mark(path[i]).steps = Steps(path[i])
    BY DEF Mark
  <2> QED
    BY <2>1, <2>2
<1>10. ASSUME NEW e \in Hops
       PROVE  e \in drawn.edges /\ EdgeStyle(e) \in {"path", "hidden"}
  <2>1. PICK i \in 1..(len - 1) : e = {path[i], path[i + 1]}
    BY <1>4 DEF Hops
  <2>2. <<path[i], path[i + 1]>> \in Carries
    BY <1>2, <1>4, <2>1 DEF IsPath
  <2>3. e \in DOMAIN LayerOf /\ e \subseteq Node
    <3>1. \A p \in Carries : {p[1], p[2]} \in DOMAIN LayerOf
      BY WorkspaceAssumption
    <3>2. e \in DOMAIN LayerOf
      BY <2>1, <2>2, <3>1
    <3> QED
      BY <3>2, WorkspaceAssumption
  <2>4. e \in drawn.edges
    BY <1>5, <2>3 DEF Edges
  <2>5. EdgeStyle(e) \in {"path", "hidden"}
    BY DEF EdgeStyle
  <2> QED
    BY <2>4, <2>5
<1> QED
  BY <1>6, <1>7, <1>8, <1>10

\* What Sigma shows is the model built of the newest frame and the newest poll, in
\* whatever order they came, and a traced path stands out of it: its nodes circled and
\* undimmed, numbered if they are two or more, every other one dimmed, every hop a line of
\* its own unless its layer is off (TopologyGraph.tsx:88-212), for every graph and history.
THEOREM GraphIsTrue == Spec => []WhatIsDrawn
<1>1. WorkspaceInv => WhatIsDrawn
  BY ModelIsDrawn, PathIsSeen DEF WorkspaceInv, WhatIsDrawn
<1> QED
  BY <1>1, WorkspaceSafe, PTL

\* Once no request is under way the inspector shows the chain of the selected node or
\* none: the answer for an earlier selection is never taken for it (useProvenance.ts),
\* for any number of selections and unanswered requests.
THEOREM TraceOfTheSelected == Spec => []TraceSettles
<1>1. WorkspaceInv => TraceSettles
  BY DEF WorkspaceInv, Traced
<1> QED
  BY <1>1, WorkspaceSafe, PTL
----------------------------------------------------------------------------
(* Types: every place is one the run has reached *)

Insights == [graph : -1..happened, blast : -1..happened, error : BOOLEAN, loading : BOOLEAN]
Polls    == [phase : {"asked", "waiting", "done"}, graph : -1..happened,
             blast : -1..happened, lost : 0..MaxLost]

DataTypeOK ==
    /\ mode \in {"live", "replay"} /\ happened \in 0..Len(History) /\ seen \in -1..happened
    /\ insights \in Insights /\ poll \in Polls
    /\ mode = "replay" => happened = Len(History)

UserTypeOK ==
    /\ clicks \in 0..MaxClicks /\ selectedId \in Node \cup {None} /\ focus \in BOOLEAN
    /\ question \in [source : Node \cup {None}, target : Node \cup {None}]
    /\ finder.up = (selectedId = None)
    /\ trace.of \in Agent \cup {None}

LEMMA PollTypes ==
    ASSUME DataTypeOK, Poll
    PROVE  DataTypeOK'
<1>1. /\ insights \in Insights /\ poll \in Polls /\ happened \in -1..happened /\ -1 \in -1..happened
      /\ Insights' = [graph : -1..happened', blast : -1..happened', error : BOOLEAN, loading : BOOLEAN]
      /\ Polls' = [phase : {"asked", "waiting", "done"}, graph : -1..happened',
                   blast : -1..happened', lost : 0..MaxLost]
  BY WorkspaceAssumption DEF DataTypeOK, Insights, Polls
<1>2. UNCHANGED <<mode, happened, seen>>
  BY DEF Poll, PollServed, PollAnswered, PollFailed, PollAgain
<1>3. Rest \in Polls
  BY <1>1 DEF Rest, Polls
<1>4. CASE PollServed
  <2>1. UNCHANGED insights /\ \E r \in {"graph", "blast"} : poll' = [poll EXCEPT ![r] = happened]
    BY <1>4 DEF PollServed
  <2>2. poll' \in Polls
    BY <1>1, <2>1 DEF Polls
  <2> QED
    BY <1>1, <1>2, <2>1, <2>2 DEF DataTypeOK, Insights, Polls
<1>5. CASE PollAnswered
  BY <1>1, <1>2, <1>3, <1>5 DEF DataTypeOK, PollAnswered, Insights, Polls
<1>6. CASE PollFailed
  <2>1. poll.lost \in 0..MaxLost /\ poll.lost < MaxLost /\ MaxLost \in Nat
    BY <1>1, <1>6, WorkspaceAssumption DEF PollFailed, Fail, Polls
  <2>2. poll.lost + 1 \in 0..MaxLost
    BY <2>1
  <2>3. Rest.lost = poll.lost
    BY <1>1 DEF Rest, Polls
  <2>4. Lost(Rest) \in Polls
    BY <1>3, <2>2, <2>3 DEF Lost, Polls
  <2>5. insights' \in Insights /\ poll' \in Polls
    BY <1>1, <1>6, <2>4 DEF PollFailed, Insights
  <2> QED
    BY <1>1, <1>2, <2>5 DEF DataTypeOK, Insights, Polls
<1>7. CASE PollAgain
  <2>1. UNCHANGED insights /\ poll' \in Polls
    BY <1>1, <1>7 DEF PollAgain, Polls
  <2> QED
    BY <1>1, <1>2, <2>1 DEF DataTypeOK, Insights, Polls
<1> QED
  BY <1>4, <1>5, <1>6, <1>7 DEF Poll

LEMMA DataTypes ==
    ASSUME DataTypeOK, [Next]_vars
    PROVE  DataTypeOK'
<1>1. CASE Happen
  <2>1. PICK h \in Nat, len \in Nat : h = happened /\ len = Len(History) /\ h < len
    BY <1>1, WorkspaceAssumption DEF DataTypeOK, Happen
  <2>2. happened' = h + 1 /\ h + 1 \in 0..len /\ -1..h \subseteq -1..(h + 1)
    BY <1>1, <2>1 DEF Happen
  <2>3. /\ insights \in [graph : -1..h, blast : -1..h, error : BOOLEAN, loading : BOOLEAN]
        /\ poll \in [phase : {"asked", "waiting", "done"}, graph : -1..h, blast : -1..h, lost : 0..MaxLost]
        /\ seen \in -1..h
    BY <2>1 DEF DataTypeOK, Insights, Polls
  <2>4. /\ insights \in [graph : -1..(h + 1), blast : -1..(h + 1), error : BOOLEAN, loading : BOOLEAN]
        /\ poll \in [phase : {"asked", "waiting", "done"}, graph : -1..(h + 1), blast : -1..(h + 1),
                     lost : 0..MaxLost]
        /\ seen \in -1..(h + 1)
    BY <2>2, <2>3
  <2> QED
    BY <1>1, <2>1, <2>2, <2>4 DEF DataTypeOK, Happen, Insights, Polls
<1>2. CASE Frame
  <2>1. UNCHANGED <<mode, happened, insights, poll>>
    BY <1>2 DEF Frame
  <2>2. seen' \in -1..happened
    <3>1. mode = "live" => seen' \in 0..happened
      BY <1>2 DEF Frame
    <3>2. mode # "live" => seen' \in 0..happened
      BY <1>2 DEF Frame, DataTypeOK
    <3>3. happened \in Nat
      BY WorkspaceAssumption DEF DataTypeOK
    <3> QED
      BY <3>1, <3>2, <3>3
  <2> QED
    BY <2>1, <2>2 DEF DataTypeOK, Insights, Polls
<1>3. CASE Poll
  BY <1>3, PollTypes
<1>4. CASE UserStep \/ Answer \/ UNCHANGED vars
  <2>1. UNCHANGED dataVars
    BY <1>4 DEF UserStep, Answer, DataUntouched, Select, Deselect, Ask, TraceFrom, Search, PickPath,
         ClearPath, ToggleLayer, ToggleFocus, TraceAnswered, SearchAnswered, SearchFailed, Found, vars
  <2> QED
    BY <2>1 DEF DataTypeOK, dataVars, Insights, Polls
<1> QED
  BY <1>1, <1>2, <1>3, <1>4 DEF Next

LEMMA UserTypes ==
    ASSUME UserTypeOK, WorkspaceInv, [Next]_vars
    PROVE  UserTypeOK'
<1>1. clicks \in 0..MaxClicks /\ MaxClicks \in Nat /\ finder \in Finders /\ None \notin Node
  BY WorkspaceAssumption DEF UserTypeOK, WorkspaceInv, PathsAreReal
<1>2. Click => clicks' \in 0..MaxClicks
  BY <1>1 DEF Click
<1>3. ASSUME NEW n \in Node, Select(n)
      PROVE  UserTypeOK'
  BY <1>1, <1>2, <1>3 DEF Select, UserTypeOK, NoChain, Finders
<1>4. CASE Deselect
  BY <1>1, <1>2, <1>4 DEF Deselect, UserTypeOK, NoChain
<1>5. CASE Ask
  BY <1>2, <1>5 DEF Ask, UserTypeOK, askVars
<1>6. CASE TraceFrom
  BY <1>2, <1>6 DEF TraceFrom, UserTypeOK, askVars, Node
<1>7. CASE Search
  BY <1>1, <1>2, <1>7 DEF Search, UserTypeOK, Finders
<1>8. CASE PickPath \/ ClearPath \/ ToggleLayer
  BY <1>2, <1>8 DEF PickPath, ClearPath, ToggleLayer, UserTypeOK, askVars
<1>9. CASE ToggleFocus
  BY <1>2, <1>9 DEF ToggleFocus, UserTypeOK, askVars
<1>10. ASSUME NEW t \in traces, TraceAnswered(t)
       PROVE  UserTypeOK'
  <2>1. t \in Request
    BY DEF WorkspaceInv, Traced
  <2> QED
    BY <1>10, <2>1 DEF TraceAnswered, userVars, UserTypeOK, Request
<1>11. ASSUME NEW s, NEW paths, Found(s, paths)
       PROVE  UserTypeOK'
  BY <1>1, <1>11 DEF Found, UserTypeOK, Finders
<1>12. CASE Answer
  BY <1>10, <1>11, <1>12 DEF Answer, SearchAnswered, SearchFailed
<1>13. CASE Happen \/ Frame \/ Poll \/ UNCHANGED vars
  <2>1. UNCHANGED <<clicks, userVars, askVars>>
    BY <1>13 DEF Happen, Frame, Poll, PollServed, PollAnswered, PollFailed, PollAgain, vars
  <2> QED
    BY <2>1 DEF UserTypeOK, userVars, askVars
<1> QED
  BY <1>3, <1>4, <1>5, <1>6, <1>7, <1>8, <1>9, <1>12, <1>13 DEF Next, UserStep

\* Every place a frame, an answer or a request stands for is one the run has reached, so
\* that no colour is read past the end of the stream; the finder is up exactly while no
\* node is selected.
THEOREM WorkspaceTypes == Spec => []TypeOK
<1>1. Init => DataTypeOK /\ UserTypeOK
  <2> SUFFICES ASSUME Init
               PROVE  DataTypeOK /\ UserTypeOK
    OBVIOUS
  <2>1. happened \in 0..Len(History) /\ -1 \in -1..happened /\ seen \in -1..happened
    BY WorkspaceAssumption DEF Init
  <2>2. mode \in {"live", "replay"} /\ (mode = "replay" => happened = Len(History))
    BY DEF Init
  <2>3. insights \in Insights /\ poll \in Polls
    BY <2>1, WorkspaceAssumption DEF Init, Insights, Polls
  <2>4. UserTypeOK
    <3>1. finder.up = TRUE /\ selectedId = None
      BY DEF Init
    <3>2. finder.up = (selectedId = None)
      BY <3>1, Zenon
    <3>3. 0 \in 0..MaxClicks /\ clicks = 0
      BY WorkspaceAssumption DEF Init
    <3> QED
      BY <3>1, <3>2, <3>3 DEF Init, UserTypeOK, NoChain
  <2> QED
    BY <2>1, <2>2, <2>3, <2>4 DEF DataTypeOK
<1>2. DataTypeOK /\ UserTypeOK /\ WorkspaceInv /\ [Next]_vars => DataTypeOK' /\ UserTypeOK'
  BY DataTypes, UserTypes
<1>3. DataTypeOK /\ UserTypeOK /\ WorkspaceInv => TypeOK
  BY DEF DataTypeOK, UserTypeOK, WorkspaceInv, PathsAreReal, Finders, TypeOK, Insights, Polls
<1> QED
  BY <1>1, <1>2, <1>3, WorkspaceSafe, PTL DEF Spec
==============================================================================
