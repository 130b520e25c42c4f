---------------------------- MODULE Lists_proofs ----------------------------
(***************************************************************************)
(* Lemmas about lists and numbers that the proofs about several components *)
(* rest on: the first element of a set of numbers, induction up to a       *)
(* number (over a set, as no backend can instantiate the library's         *)
(* induction theorems), and what filtering a list keeps.                   *)
(***************************************************************************)
EXTENDS Lists, Functions, SequenceTheorems, WellFoundedInduction, TLAPS

\* A set of numbers that is not empty has a first one.
LEMMA FirstOf ==
  ASSUME NEW S \in SUBSET Nat, S # {}
  PROVE  \E m \in S : \A n \in S : m <= n
<1>1. PICK m \in S : \A n \in S : ~(<<n, m>> \in OpToRel(<, Nat))
  BY NatLessThanWellFounded, WFMin
<1>2. ASSUME NEW n \in S PROVE m <= n
  <2>1. <<n, m>> \in Nat \X Nat
    OBVIOUS
  <2>2. <<n, m>>[1] = n /\ <<n, m>>[2] = m
    OBVIOUS
  <2>3. ~(n < m)
    BY <1>1, <2>1, <2>2 DEF OpToRel
  <2> QED BY <2>3
<1> QED BY <1>2

\* What is true of 0 and of the successor of every number it is true of, up to
\* n, is true of all of them: the numbers it is true of are a set.
LEMMA UpToInduction ==
  ASSUME NEW n \in Nat, NEW T, 0 \in T, \A i \in 1..n : i - 1 \in T => i \in T
  PROVE  0..n \subseteq T
<1> SUFFICES ASSUME (0..n) \ T # {} PROVE FALSE
  OBVIOUS
<1> DEFINE R == (0..n) \ T
<1>0. R \in SUBSET Nat /\ R # {}
  OBVIOUS
<1> HIDE DEF R
<1>1. PICK m \in R : \A k \in R : m <= k
  BY <1>0, FirstOf
<1> USE DEF R
<1>2. m # 0 /\ m \in 1..n /\ m - 1 \in 0..n
  BY <1>1
<1>3. m - 1 \in T
  BY <1>1, <1>2
<1> QED BY <1>1, <1>2, <1>3

\* The recursive function of Selected, for the first n places.
Picks(f, list, elements, n) ==
  f = [i \in 0 .. n |->
         IF i = 0 THEN <<>>
         ELSE IF list[i] \in elements THEN Append(f[i - 1], list[i]) ELSE f[i - 1]]

LEMMA PicksExist ==
  ASSUME NEW list, NEW elements, NEW n \in Nat
  PROVE  \E f : Picks(f, list, elements, n)
<1> DEFINE T == {k \in 0 .. n : \E f : Picks(f, list, elements, k)}
<1>1. 0 \in T
  <2>1. Picks([i \in 0 .. 0 |-> <<>>], list, elements, 0)
    BY DEF Picks
  <2> QED BY <2>1
<1>2. ASSUME NEW k \in 1 .. n, k - 1 \in T PROVE k \in T
  <2>1. PICK f : Picks(f, list, elements, k - 1)
    BY <1>2
  <2> DEFINE g == [i \in 0 .. k |->
                     IF i < k THEN f[i]
                     ELSE IF list[k] \in elements THEN Append(f[k - 1], list[k])
                     ELSE f[k - 1]]
  <2>2. \A i \in 0 .. k - 1 :
          f[i] = IF i = 0 THEN <<>>
                 ELSE IF list[i] \in elements THEN Append(f[i - 1], list[i]) ELSE f[i - 1]
    BY <2>1 DEF Picks
  <2>3. \A i \in 0 .. k :
          g[i] = IF i = 0 THEN <<>>
                 ELSE IF list[i] \in elements THEN Append(g[i - 1], list[i]) ELSE g[i - 1]
    BY <2>2
  <2>4. Picks(g, list, elements, k)
    BY <2>3 DEF Picks
  <2> QED BY <2>4
<1> HIDE DEF T
<1>3. 0 .. n \subseteq T
  BY <1>1, <1>2, UpToInduction
<1> QED BY <1>3 DEF T

\* Selected() keeps exactly the elements of the set, each as often as it was there.
LEMMA SelectedOf ==
  ASSUME NEW S, NEW list \in Seq(S), NEW elements
  PROVE  /\ Selected(list, elements) \in Seq(S)
         /\ Range(Selected(list, elements)) = Range(list) \cap elements
         /\ Len(Selected(list, elements)) <= Len(list)
         /\ IsInjective(list) => IsInjective(Selected(list, elements))
<1> DEFINE n == Len(list)
           f == CHOOSE g : Picks(g, list, elements, n)
<1>0. n \in Nat /\ DOMAIN list = 1 .. n /\ \A i \in 1 .. n : list[i] \in S
  OBVIOUS
<1>1. Selected(list, elements) = f[n]
  BY DEF Selected, Picks
<1>2. Picks(f, list, elements, n)
  BY <1>0, PicksExist
<1>3. /\ f[0] = <<>>
      /\ \A i \in 1 .. n :
           f[i] = IF list[i] \in elements THEN Append(f[i - 1], list[i]) ELSE f[i - 1]
  <2> HIDE DEF f, n
  <2>1. f = [i \in 0 .. n |->
               IF i = 0 THEN <<>>
               ELSE IF list[i] \in elements THEN Append(f[i - 1], list[i]) ELSE f[i - 1]]
    BY <1>2 DEF Picks
  <2>2. 0 \in 0 .. n /\ \A i \in 1 .. n : i \in 0 .. n /\ i # 0
    BY <1>0
  <2> QED BY <2>1, <2>2
<1> HIDE DEF f
<1> DEFINE Short(g, i) == Len(g) <= i
           Good(i) ==
             /\ f[i] \in Seq(S) /\ Short(f[i], i)
             /\ \A x : (\E k \in 1 .. Len(f[i]) : f[i][k] = x) <=>
                       (x \in elements /\ \E j \in 1 .. i : list[j] = x)
             /\ IsInjective(list) =>
                  \A k, l \in 1 .. Len(f[i]) : f[i][k] = f[i][l] => k = l
           T == {i \in 0 .. n : Good(i)}
<1>4. 0 \in T
  <2>1. Len(f[0]) = 0 /\ f[0] \in Seq(S) /\ 0 \in 0 .. n
    BY <1>0, <1>3
  <2>2. Short(f[0], 0)
    BY <2>1
  <2> HIDE DEF Short
  <2>3. Good(0)
    BY <2>1, <2>2
  <2> HIDE DEF Good
  <2> QED BY <2>1, <2>3
<1>5. ASSUME NEW i \in 1 .. n, i - 1 \in T PROVE i \in T
  <2>1. Good(i - 1)
    BY <1>5
  <2>2. Short(f[i - 1], i) /\ Short(Append(f[i - 1], list[i]), i)
    BY <1>0, <2>1
  <2> HIDE DEF Short
  <2>3. CASE list[i] \notin elements
    <3>1. f[i] = f[i - 1]
      BY <1>3, <2>3
    <3>2. \A x : (x \in elements /\ \E j \in 1 .. i : list[j] = x) <=>
                 (x \in elements /\ \E j \in 1 .. i - 1 : list[j] = x)
      BY <1>0, <2>3
    <3>3. Good(i)
      BY <2>1, <2>2, <3>1, <3>2
    <3> QED BY <1>0, <3>3
  <2>4. CASE list[i] \in elements
    <3> DEFINE old == f[i - 1]
               new == f[i]
    <3>1. new = Append(old, list[i]) /\ old \in Seq(S) /\ list[i] \in S
      BY <1>0, <1>3, <2>1, <2>4
    <3>2. /\ new \in Seq(S) /\ Len(new) = Len(old) + 1 /\ Len(old) \in Nat
          /\ new[Len(new)] = list[i]
          /\ \A k \in 1 .. Len(old) : new[k] = old[k]
      BY <3>1
    <3>3. \A x : (\E k \in 1 .. Len(old) : old[k] = x) <=>
                 (x \in elements /\ \E j \in 1 .. i - 1 : list[j] = x)
      BY <2>1
    <3> HIDE DEF old, new
    <3>4. \A x : (\E k \in 1 .. Len(new) : new[k] = x) <=>
                 (x = list[i] \/ \E k \in 1 .. Len(old) : old[k] = x)
      BY <3>2
    <3>5. \A x : (\E j \in 1 .. i : list[j] = x) <=>
                 (x = list[i] \/ \E j \in 1 .. i - 1 : list[j] = x)
      BY <1>0
    <3>6. ASSUME IsInjective(list), NEW k \in 1 .. Len(new), NEW l \in 1 .. Len(new),
                 new[k] = new[l]
          PROVE  k = l
      <4>1. \A j \in 1 .. i - 1 : list[j] # list[i]
        BY <1>0, <3>6 DEF IsInjective
      <4>2. \A m \in 1 .. Len(old) : old[m] # list[i]
        BY <3>3, <4>1
      <4>3. \A m, o \in 1 .. Len(old) : old[m] = old[o] => m = o
        BY <2>1, <3>6 DEF old
      <4> QED BY <3>2, <3>6, <4>2, <4>3
    <3>7. Good(i)
      BY <2>4, <2>2, <3>1, <3>2, <3>3, <3>4, <3>5, <3>6 DEF old, new
    <3> QED BY <1>0, <3>7
  <2> QED BY <2>3, <2>4
<1>6. 0 .. n \subseteq T
  <2> HIDE DEF T
  <2> QED BY <1>0, <1>4, <1>5, UpToInduction
<1>7. Good(n)
  <2>1. n \in T
    <3> HIDE DEF T
    <3> QED BY <1>0, <1>6
  <2> HIDE DEF Good
  <2> QED BY <2>1
<1> DEFINE s == f[n]
<1>8. /\ s \in Seq(S) /\ Len(s) <= n /\ DOMAIN s = 1 .. Len(s)
      /\ \A x : (\E k \in 1 .. Len(s) : s[k] = x) <=> (x \in elements /\ \E j \in 1 .. n : list[j] = x)
      /\ IsInjective(list) => \A k, l \in 1 .. Len(s) : s[k] = s[l] => k = l
  <2> HIDE DEF Short
  <2>1. Short(s, n)
    BY <1>7
  <2>2. Len(s) <= n
    BY <2>1 DEF Short
  <2>3. s \in Seq(S) /\ DOMAIN s = 1 .. Len(s)
    BY <1>7
  <2>4. /\ \A x : (\E k \in 1 .. Len(s) : s[k] = x) <=>
                   (x \in elements /\ \E j \in 1 .. n : list[j] = x)
        /\ IsInjective(list) => \A k, l \in 1 .. Len(s) : s[k] = s[l] => k = l
    BY <1>7
  <2> QED BY <2>2, <2>3, <2>4
<1> HIDE DEF Good, s, T
<1>9. Range(s) = Range(list) \cap elements
  BY <1>0, <1>8 DEF Range
<1>10. IsInjective(list) => IsInjective(s)
  BY <1>0, <1>8 DEF IsInjective
<1> QED BY <1>1, <1>8, <1>9, <1>10 DEF s

\* Selected() goes through the list place by place.
LEMMA SelectedSteps ==
  ASSUME NEW S, NEW list \in Seq(S), NEW elements
  PROVE  \E f : /\ f[0] = <<>>
                /\ \A i \in 1 .. Len(list) :
                     f[i] = IF list[i] \in elements THEN Append(f[i - 1], list[i]) ELSE f[i - 1]
                /\ Selected(list, elements) = f[Len(list)]
<1> DEFINE n == Len(list)
           f == CHOOSE g : Picks(g, list, elements, n)
<1>1. Selected(list, elements) = f[n]
  BY DEF Selected, Picks
<1>2. n \in Nat
  OBVIOUS
<1>3. Picks(f, list, elements, n)
  BY <1>2, PicksExist
<1> HIDE DEF f, n
<1>4. f = [i \in 0 .. n |->
             IF i = 0 THEN <<>>
             ELSE IF list[i] \in elements THEN Append(f[i - 1], list[i]) ELSE f[i - 1]]
  BY <1>3 DEF Picks
<1>5. /\ f[0] = <<>>
      /\ \A i \in 1 .. n :
           f[i] = IF list[i] \in elements THEN Append(f[i - 1], list[i]) ELSE f[i - 1]
  <2>1. 0 \in 0 .. n /\ \A i \in 1 .. n : i \in 0 .. n /\ i # 0
    BY <1>2
  <2> QED BY <1>4, <2>1
<1> QED BY <1>1, <1>5 DEF n

\* All of a list is selected, or none of it.
LEMMA SelectedWhole ==
  ASSUME NEW S, NEW list \in Seq(S), NEW elements
  PROVE  /\ (\A i \in 1 .. Len(list) : list[i] \in elements) => Selected(list, elements) = list
         /\ (\A i \in 1 .. Len(list) : list[i] \notin elements) => Selected(list, elements) = <<>>
<1> DEFINE n == Len(list)
<1>0. n \in Nat /\ list \in Seq(S) /\ \A i \in 1 .. n : list[i] \in S
  OBVIOUS
<1>1. PICK f : /\ f[0] = <<>>
               /\ \A i \in 1 .. n :
                    f[i] = IF list[i] \in elements THEN Append(f[i - 1], list[i]) ELSE f[i - 1]
               /\ Selected(list, elements) = f[n]
  BY SelectedSteps
<1> HIDE DEF n
<1>2. ASSUME \A i \in 1 .. n : list[i] \in elements PROVE f[n] = list
  <2> DEFINE Same(s, i) == s \in Seq(S) /\ Len(s) = i /\ \A k \in 1 .. i : s[k] = list[k]
             T == {i \in 0 .. n : Same(f[i], i)}
  <2>1. 0 \in T
    <3>1. Same(<<>>, 0)
      OBVIOUS
    <3> HIDE DEF Same
    <3> QED BY <1>0, <1>1, <3>1
  <2>2. ASSUME NEW i \in 1 .. n, i - 1 \in T PROVE i \in T
    <3> DEFINE x == list[i]  s == f[i - 1]
    <3>1. f[i] = Append(s, x) /\ x \in S /\ i \in 0 .. n
      <4> HIDE DEF T, Same
      <4>1. i \in 0 .. n /\ list[i] \in S /\ list[i] \in elements
        BY <1>0, <1>2
      <4>2. f[i] = Append(f[i - 1], list[i])
        BY <1>1, <4>1
      <4> QED BY <4>1, <4>2
    <3>2. Same(s, i - 1)
      <4> HIDE DEF Same, s
      <4> QED BY <2>2 DEF s
    <3> HIDE DEF s
    <3>3. Same(Append(s, x), i)
      BY <3>1, <3>2
    <3> HIDE DEF Same
    <3> QED BY <3>1, <3>3
  <2> HIDE DEF T
  <2>3. n \in T
    <3>1. 0 .. n \subseteq T
      BY <1>0, <2>1, <2>2, UpToInduction
    <3> QED BY <1>0, <3>1
  <2> DEFINE s == f[n]
  <2>4. Same(s, n)
    BY <2>3 DEF T
  <2> HIDE DEF s
  <2>5. s = list
    BY <1>0, <2>4 DEF n
  <2> QED BY <2>5 DEF s
<1>3. ASSUME \A i \in 1 .. n : list[i] \notin elements PROVE f[n] = <<>>
  <2> DEFINE T == {i \in 0 .. n : f[i] = <<>>}
  <2>1. 0 \in T
    BY <1>0, <1>1
  <2>2. ASSUME NEW i \in 1 .. n, i - 1 \in T PROVE i \in T
    BY <1>0, <1>1, <1>3, <2>2
  <2> HIDE DEF T
  <2>3. n \in T
    <3>1. 0 .. n \subseteq T
      BY <1>0, <2>1, <2>2, UpToInduction
    <3> QED BY <1>0, <3>1
  <2> QED BY <2>3 DEF T
<1> QED BY <1>1, <1>2, <1>3 DEF n

\* What is selected of two lists one behind the other.
LEMMA SelectedJoined ==
  ASSUME NEW S, NEW s \in Seq(S), NEW t \in Seq(S), NEW elements
  PROVE  Selected(s \o t, elements) = Selected(s, elements) \o Selected(t, elements)
<1> DEFINE u == s \o t  m == Len(s)  n == Len(t)
<1>0. /\ m \in Nat /\ n \in Nat /\ u \in Seq(S) /\ Len(u) = m + n
      /\ \A i \in 1 .. m : u[i] = s[i] /\ s[i] \in S
      /\ \A i \in 1 .. n : u[m + i] = t[i] /\ t[i] \in S
  BY ConcatProperties
<1>1. PICK f : /\ f[0] = <<>>
               /\ \A i \in 1 .. Len(u) :
                    f[i] = IF u[i] \in elements THEN Append(f[i - 1], u[i]) ELSE f[i - 1]
               /\ Selected(u, elements) = f[Len(u)]
  <2> HIDE DEF u
  <2>1. u \in Seq(S)
    BY <1>0
  <2> QED BY <2>1, SelectedSteps
<1>2. PICK g : /\ g[0] = <<>>
               /\ \A i \in 1 .. m :
                    g[i] = IF s[i] \in elements THEN Append(g[i - 1], s[i]) ELSE g[i - 1]
               /\ Selected(s, elements) = g[m]
  BY SelectedSteps
<1>3. PICK h : /\ h[0] = <<>>
               /\ \A i \in 1 .. n :
                    h[i] = IF t[i] \in elements THEN Append(h[i - 1], t[i]) ELSE h[i - 1]
               /\ Selected(t, elements) = h[n]
  BY SelectedSteps
<1>4. Selected(s, elements) \in Seq(S)
  BY SelectedOf
<1> HIDE DEF u, m, n
<1>5. f[m] = g[m]
  <2> DEFINE T == {i \in 0 .. m : f[i] = g[i]}
  <2>1. 0 \in T
    BY <1>0, <1>1, <1>2
  <2>2. ASSUME NEW i \in 1 .. m, i - 1 \in T PROVE i \in T
    <3>1. i \in 1 .. Len(u) /\ i \in 0 .. m
      BY <1>0
    <3>2. f[i - 1] = g[i - 1]
      BY <2>2
    <3> QED BY <1>0, <1>1, <1>2, <3>1, <3>2
  <2> HIDE DEF T
  <2>3. m \in T
    <3>1. 0 .. m \subseteq T
      BY <1>0, <2>1, <2>2, UpToInduction
    <3> QED BY <1>0, <3>1
  <2> QED BY <2>3 DEF T
<1>6. f[m + n] = g[m] \o h[n]
  <2> DEFINE T == {i \in 0 .. n : h[i] \in Seq(S) /\ f[m + i] = g[m] \o h[i]}
  <2>1. 0 \in T
    <3>1. m + 0 = m /\ 0 \in 0 .. n
      BY <1>0
    <3>2. g[m] \o <<>> = g[m]
      BY <1>2, <1>4
    <3>3. <<>> \in Seq(S)
      OBVIOUS
    <3> QED BY <1>3, <1>5, <3>1, <3>2, <3>3
  <2>2. ASSUME NEW i \in 1 .. n, i - 1 \in T PROVE i \in T
    <3>1. /\ m + i \in 1 .. Len(u) /\ (m + i) - 1 = m + (i - 1) /\ i \in 0 .. n
          /\ u[m + i] = t[i] /\ t[i] \in S
      BY <1>0
    <3>2. h[i - 1] \in Seq(S) /\ f[m + (i - 1)] = g[m] \o h[i - 1]
      BY <2>2
    <3>3. f[m + i] = IF t[i] \in elements THEN Append(f[m + (i - 1)], t[i]) ELSE f[m + (i - 1)]
      BY <1>1, <3>1
    <3>4. Append(g[m] \o h[i - 1], t[i]) = g[m] \o Append(h[i - 1], t[i])
          /\ Append(h[i - 1], t[i]) \in Seq(S)
      <4> DEFINE a == g[m]  b == h[i - 1]  x == t[i]
      <4>1. a \in Seq(S) /\ b \in Seq(S) /\ x \in S
        BY <1>2, <1>4, <3>1, <3>2
      <4> HIDE DEF a, b, x
      <4>2. a \o b \in Seq(S) /\ <<x>> \in Seq(S) /\ Append(b, x) \in Seq(S)
        BY <4>1
      <4>3. Append(a \o b, x) = (a \o b) \o <<x>> /\ Append(b, x) = b \o <<x>>
        BY <4>1, <4>2, AppendIsConcat
      <4>4. (a \o b) \o <<x>> = a \o (b \o <<x>>)
        BY <4>1, <4>2, ConcatAssociative
      <4>5. Append(a \o b, x) = a \o Append(b, x) /\ Append(b, x) \in Seq(S)
        BY <4>2, <4>3, <4>4
      <4> QED BY <4>5 DEF a, b, x
    <3> QED BY <1>3, <3>1, <3>2, <3>3, <3>4
  <2> HIDE DEF T
  <2>3. n \in T
    <3>1. 0 .. n \subseteq T
      BY <1>0, <2>1, <2>2, UpToInduction
    <3> QED BY <1>0, <3>1
  <2> QED BY <2>3 DEF T
<1> QED BY <1>0, <1>1, <1>2, <1>3, <1>6 DEF u

\* Two sets that agree about the elements of a list select the same of it.
LEMMA SelectedAlike ==
  ASSUME NEW S, NEW list \in Seq(S), NEW one, NEW other,
         \A i \in 1 .. Len(list) : list[i] \in one <=> list[i] \in other
  PROVE  Selected(list, one) = Selected(list, other)
<1> DEFINE n == Len(list)
<1>0. n \in Nat
  OBVIOUS
<1>1. PICK f : /\ f[0] = <<>>
               /\ \A i \in 1 .. n :
                    f[i] = IF list[i] \in one THEN Append(f[i - 1], list[i]) ELSE f[i - 1]
               /\ Selected(list, one) = f[n]
  BY SelectedSteps
<1>2. PICK g : /\ g[0] = <<>>
               /\ \A i \in 1 .. n :
                    g[i] = IF list[i] \in other THEN Append(g[i - 1], list[i]) ELSE g[i - 1]
               /\ Selected(list, other) = g[n]
  BY SelectedSteps
<1>3. \A i \in 1 .. n : list[i] \in one <=> list[i] \in other
  OBVIOUS
<1> HIDE DEF n
<1> DEFINE T == {i \in 0 .. n : f[i] = g[i]}
<1>4. 0 \in T
  BY <1>0, <1>1, <1>2
<1>5. ASSUME NEW i \in 1 .. n, i - 1 \in T PROVE i \in T
  <2>1. f[i - 1] = g[i - 1] /\ i \in 0 .. n
    BY <1>0, <1>5
  <2> QED BY <1>1, <1>2, <1>3, <2>1
<1> HIDE DEF T
<1>6. n \in T
  <2>1. 0 .. n \subseteq T
    BY <1>0, <1>4, <1>5, UpToInduction
  <2> QED BY <1>0, <2>1
<1> QED BY <1>1, <1>2, <1>6 DEF T
=============================================================================
