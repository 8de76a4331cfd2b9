--------------------------- MODULE SequenceLemmas ---------------------------
(***************************************************************************)
(* Lemmas about sequences: what taking an element out and putting one in   *)
(* do, element by element; what the operators of Lists (a sum, the         *)
(* elements that are kept, the ascending order) do.                        *)
(*                                                                         *)
(* Those of Lists are recursive functions, so they are reasoned about by   *)
(* induction.  The library's induction theorems take the formula to prove  *)
(* as a parameter, which the provers cannot instantiate; Induction below   *)
(* takes the set of the numbers for which it holds.                        *)
(***************************************************************************)
EXTENDS Lists, SequencesExt, SequenceTheorems, FiniteSetTheorems, WellFoundedInduction, TLAPS

\* Without its element i, a sequence keeps the elements before it and moves
\* up those behind it.
LEMMA RemoveAtIs ==
    ASSUME NEW S, NEW s \in Seq(S), NEW i \in 1 .. Len(s)
    PROVE  /\ RemoveAt(s, i) \in Seq(S)
           /\ Len(RemoveAt(s, i)) = Len(s) - 1
           /\ \A k \in 1 .. Len(s) - 1 :
                 RemoveAt(s, i)[k] = IF k < i THEN s[k] ELSE s[k + 1]
<1> DEFINE front == SubSeq(s, 1, i - 1)
           back == SubSeq(s, i + 1, Len(s))
<1>0. Len(s) \in Nat /\ i \in Int
  BY LenProperties
<1>1. /\ front \in Seq(S) /\ Len(front) = i - 1
      /\ \A k \in 1 .. i - 1 : front[k] = s[k]
  <2>1. \A k \in 1 .. i - 1 : s[k] \in S
    BY <1>0, ElementOfSeq
  <2>2. QED
    BY <1>0, <2>1, SubSeqProperties
<1>2. /\ back \in Seq(S) /\ Len(back) = Len(s) - i
      /\ \A k \in 1 .. Len(s) - i : back[k] = s[i + k]
  <2>1. \A k \in i + 1 .. Len(s) : s[k] \in S
    BY <1>0, ElementOfSeq
  <2>2. QED
    BY <1>0, <2>1, SubSeqProperties
<1>3. RemoveAt(s, i) = front \o back
  BY DEF RemoveAt
<1>4. /\ front \o back \in Seq(S) /\ Len(front \o back) = Len(front) + Len(back)
      /\ \A k \in 1 .. Len(front) + Len(back) :
            (front \o back)[k] = IF k <= Len(front) THEN front[k] ELSE back[k - Len(front)]
  BY <1>1, <1>2, ConcatProperties
<1> HIDE DEF front, back
<1>5. QED
  BY <1>0, <1>1, <1>2, <1>3, <1>4

\* With e put in at i, a sequence keeps the elements before i and moves the
\* others down.
LEMMA InsertAtIs ==
    ASSUME NEW S, NEW s \in Seq(S), NEW i \in 1 .. Len(s) + 1, NEW e \in S
    PROVE  /\ InsertAt(s, i, e) \in Seq(S)
           /\ Len(InsertAt(s, i, e)) = Len(s) + 1
           /\ \A k \in 1 .. i - 1 : InsertAt(s, i, e)[k] = s[k]
           /\ InsertAt(s, i, e)[i] = e
           /\ \A k \in i .. Len(s) : InsertAt(s, i, e)[k + 1] = s[k]
<1> DEFINE front == SubSeq(s, 1, i - 1)
           back == SubSeq(s, i, Len(s))
<1>0. Len(s) \in Nat /\ i \in Int
  BY LenProperties
<1>1. /\ front \in Seq(S) /\ Len(front) = i - 1
      /\ \A k \in 1 .. i - 1 : front[k] = s[k]
  <2>1. \A k \in 1 .. i - 1 : s[k] \in S
    BY <1>0, ElementOfSeq
  <2>2. QED
    BY <1>0, <2>1, SubSeqProperties
<1>2. /\ back \in Seq(S) /\ Len(back) = Len(s) - i + 1
      /\ \A k \in 1 .. Len(s) - i + 1 : back[k] = s[i + k - 1]
  <2>1. \A k \in i .. Len(s) : s[k] \in S
    BY <1>0, ElementOfSeq
  <2>2. QED
    BY <1>0, <2>1, SubSeqProperties
<1>3. <<e>> \in Seq(S) /\ Len(<<e>>) = 1 /\ <<e>>[1] = e
  OBVIOUS
<1> DEFINE head == front \o <<e>>
<1>4. /\ head \in Seq(S) /\ Len(head) = i
      /\ \A k \in 1 .. i : head[k] = IF k <= i - 1 THEN s[k] ELSE e
  <2> HIDE DEF front
  <2>1. /\ front \o <<e>> \in Seq(S) /\ Len(front \o <<e>>) = Len(front) + 1
        /\ \A k \in 1 .. Len(front) + 1 :
              (front \o <<e>>)[k] = IF k <= Len(front) THEN front[k] ELSE <<e>>[k - Len(front)]
    BY <1>1, <1>3, ConcatProperties
  <2>2. QED
    BY <1>0, <1>1, <1>3, <2>1
<1>5. InsertAt(s, i, e) = head \o back
  BY DEF InsertAt
<1> HIDE DEF front, back, head
<1>6. /\ head \o back \in Seq(S) /\ Len(head \o back) = Len(head) + Len(back)
      /\ \A k \in 1 .. Len(head) + Len(back) :
            (head \o back)[k] = IF k <= Len(head) THEN head[k] ELSE back[k - Len(head)]
  BY <1>2, <1>4, ConcatProperties
<1> DEFINE all == head \o back
<1>7. InsertAt(s, i, e) = all
  BY <1>5
<1>8. /\ all \in Seq(S) /\ Len(all) = Len(s) + 1
      /\ \A k \in 1 .. i : all[k] = head[k]
      /\ \A k \in i + 1 .. Len(s) + 1 : all[k] = back[k - i]
  <2> HIDE DEF all
  <2>1. Len(head) = i /\ Len(head) + Len(back) = Len(s) + 1
    BY <1>0, <1>2, <1>4
  <2>2. /\ all \in Seq(S) /\ Len(all) = Len(s) + 1
        /\ \A k \in 1 .. Len(s) + 1 : all[k] = IF k <= i THEN head[k] ELSE back[k - i]
    BY <1>6, <2>1 DEF all
  <2>3. QED
    BY <1>0, <2>2
<1> HIDE DEF all
<1>9. ASSUME NEW k \in 1 .. i - 1
      PROVE  all[k] = s[k]
  BY <1>0, <1>4, <1>8, <1>9
<1>10. all[i] = e
  BY <1>0, <1>4, <1>8
<1>11. ASSUME NEW k \in i .. Len(s)
       PROVE  all[k + 1] = s[k]
  <2>1. all[k + 1] = back[k + 1 - i]
    BY <1>0, <1>8
  <2>2. k + 1 - i \in 1 .. Len(s) - i + 1 /\ i + (k + 1 - i) - 1 = k
    BY <1>0
  <2>3. QED
    BY <1>2, <2>1, <2>2
<1>12. QED
  BY <1>7, <1>8, <1>9, <1>10, <1>11

\* An element that is taken out and put in elsewhere: no element is lost.
LEMMA MoveKeeps ==
    ASSUME NEW S, NEW s \in Seq(S), NEW from \in 1 .. Len(s), NEW to \in 1 .. Len(s)
    PROVE  LET moved == InsertAt(RemoveAt(s, from), to, s[from])
           IN  /\ moved \in Seq(S)
               /\ Len(moved) = Len(s)
               /\ \A i \in 1 .. Len(s) : \E k \in 1 .. Len(s) : moved[k] = s[i]
<1> DEFINE rest == RemoveAt(s, from)
           moved == InsertAt(rest, to, s[from])
<1>0. Len(s) \in Nat /\ from \in Int /\ to \in Int /\ s[from] \in S
  BY LenProperties, ElementOfSeq
<1>1. /\ rest \in Seq(S) /\ Len(rest) = Len(s) - 1
      /\ \A k \in 1 .. Len(s) - 1 : rest[k] = IF k < from THEN s[k] ELSE s[k + 1]
  BY RemoveAtIs
<1> HIDE DEF rest
<1>2. to \in 1 .. Len(rest) + 1
  BY <1>0, <1>1
<1>3. /\ moved \in Seq(S) /\ Len(moved) = Len(rest) + 1
      /\ \A k \in 1 .. to - 1 : moved[k] = rest[k]
      /\ moved[to] = s[from]
      /\ \A k \in to .. Len(rest) : moved[k + 1] = rest[k]
  <2>1. /\ InsertAt(rest, to, s[from]) \in Seq(S)
        /\ Len(InsertAt(rest, to, s[from])) = Len(rest) + 1
    BY <1>0, <1>1, <1>2, InsertAtIs
  <2>2. ASSUME NEW list \in Seq(S), NEW e \in S, to \in 1 .. Len(list) + 1,
               NEW k \in 1 .. to - 1
        PROVE  InsertAt(list, to, e)[k] = list[k]
    BY ONLY <2>2, InsertAtIs
  <2>3. ASSUME NEW list \in Seq(S), NEW e \in S, to \in 1 .. Len(list) + 1
        PROVE  InsertAt(list, to, e)[to] = e
    BY ONLY <2>3, InsertAtIs
  <2>4. ASSUME NEW list \in Seq(S), NEW e \in S, to \in 1 .. Len(list) + 1,
               NEW k \in to .. Len(list)
        PROVE  InsertAt(list, to, e)[k + 1] = list[k]
    BY ONLY <2>4, InsertAtIs
  <2>5. QED
    BY <1>0, <1>1, <1>2, <2>1, <2>2, <2>3, <2>4
<1> HIDE DEF moved
<1>4. ASSUME NEW i \in 1 .. Len(s)
      PROVE  \E k \in 1 .. Len(s) : moved[k] = s[i]
  <2>1. CASE i = from
    BY <1>0, <1>3, <2>1
  <2>2. CASE i < from
    <3>1. i \in 1 .. Len(rest) /\ rest[i] = s[i]
      BY <1>0, <1>1, <2>2
    <3>2. QED
      BY <1>0, <1>1, <1>3, <3>1
  <2>3. CASE i > from
    <3>1. i - 1 \in 1 .. Len(rest) /\ rest[i - 1] = s[i]
      BY <1>0, <1>1, <2>3
    <3>2. QED
      BY <1>0, <1>1, <1>3, <3>1
  <2>4. QED
    BY <1>0, <2>1, <2>2, <2>3
<1>5. QED
  BY <1>0, <1>1, <1>3, <1>4 DEF moved, rest
---------------------------------------------------------------------------
(* Induction and recursion. *)

\* Every set of numbers has a least one.
LEMMA LeastOf ==
    ASSUME NEW T, T \subseteq Nat, T # {}
    PROVE  \E n \in T : \A k \in T : n <= k
<1>1. PICK R : IsWellFoundedOn(R, Nat) /\ \A x, y \in Nat : y < x => <<y, x>> \in R
  <2>1. IsWellFoundedOn(OpToRel(<, Nat), Nat)
    BY NatLessThanWellFounded
  <2>2. \A x, y \in Nat : y < x => <<y, x>> \in OpToRel(<, Nat)
    BY DEF OpToRel
  <2> QED
    BY <2>1, <2>2, Zenon
<1>2. \E x \in T : \A y \in T : ~ (<<y, x>> \in R)
  BY <1>1, WFMin
<1>3. PICK n \in T : \A k \in T : ~ (<<k, n>> \in R)
  BY <1>2
<1>4. ASSUME NEW k \in T PROVE n <= k
  <2>1. k \in Nat /\ n \in Nat
    OBVIOUS
  <2>2. ~ (k < n)
    BY <1>1, <1>3, <2>1, Zenon
  <2> QED
    BY <2>1, <2>2
<1> QED
  BY <1>4

\* Induction, for a set of numbers.
LEMMA Induction ==
    ASSUME NEW S, 0 \in S, \A n \in Nat : n \in S => n + 1 \in S
    PROVE  \A n \in Nat : n \in S
<1> SUFFICES ASSUME Nat \ S # {} PROVE FALSE
  OBVIOUS
<1>1. PICK m \in Nat \ S : \A k \in Nat \ S : m <= k
  BY LeastOf
<1>2. m # 0 /\ m - 1 \in Nat
  BY <1>1
<1>3. m - 1 \in S
  BY <1>1, <1>2
<1> QED
  BY <1>1, <1>2, <1>3

\* What a definition by recursion over 0 .. n asks of a function.
Iterates(h, base, n, step) ==
    h[0] = base /\ \A i \in 1 .. n : h[i] = step[<<h[i - 1], i>>]

\* A definition by recursion over 0 .. n has a function that satisfies it.
LEMMA Recursion ==
    ASSUME NEW S, NEW base \in S, NEW n \in Nat, NEW step \in [S \X (1 .. n) -> S]
    PROVE  \E h \in [0 .. n -> S] : Iterates(h, base, n, step)
<1> DEFINE Upto(k) == \E h \in [0 .. k -> S] : h[0] = base /\ \A i \in 1 .. k : h[i] = step[<<h[i - 1], i>>]
           Good == {k \in Nat : k <= n => Upto(k)}
<1>1. 0 \in Good
  <2>1. /\ [i \in 0 .. 0 |-> base] \in [0 .. 0 -> S]
        /\ [i \in 0 .. 0 |-> base][0] = base
    OBVIOUS
  <2>2. 1 .. 0 = {}
    OBVIOUS
  <2>3. Upto(0)
    BY <2>1, <2>2
  <2>4. QED
    BY <2>3
<1>2. ASSUME NEW k \in Nat, k \in Good PROVE k + 1 \in Good
  <2>1. SUFFICES ASSUME k + 1 <= n PROVE Upto(k + 1)
    OBVIOUS
  <2>2. PICK h \in [0 .. k -> S] : h[0] = base /\ \A i \in 1 .. k : h[i] = step[<<h[i - 1], i>>]
    BY <1>2, <2>1
  <2> DEFINE g == [i \in 0 .. k + 1 |-> IF i <= k THEN h[i] ELSE step[<<h[k], k + 1>>]]
  <2>3. <<h[k], k + 1>> \in S \X (1 .. n)
    BY <2>1
  <2>4. step[<<h[k], k + 1>>] \in S
    BY <2>3
  <2>5. g \in [0 .. k + 1 -> S]
    BY <2>4
  <2>6. g[0] = base
    BY <2>2
  <2>7. ASSUME NEW i \in 1 .. k + 1 PROVE g[i] = step[<<g[i - 1], i>>]
    <3>1. CASE i <= k
      <4>1. g[i] = h[i] /\ g[i - 1] = h[i - 1]
        BY <3>1
      <4>2. h[i] = step[<<h[i - 1], i>>]
        BY <2>2, <3>1
      <4> QED
        BY <4>1, <4>2
    <3>2. CASE i = k + 1
      <4>1. g[i] = step[<<h[k], k + 1>>] /\ g[i - 1] = h[k]
        BY <3>2
      <4> QED
        BY <3>2, <4>1
    <3> QED
      BY <3>1, <3>2
  <2> HIDE DEF g
  <2> QED
    BY <2>5, <2>6, <2>7
<1>3. n \in Good
  <2> HIDE DEF Good
  <2> QED
    BY <1>1, <1>2, Induction
<1> QED
  BY <1>3 DEF Iterates

\* A function on 1 .. n is a sequence of length n.
LEMMA FunctionIsSeq ==
    ASSUME NEW S, NEW n \in Nat, NEW s \in [1 .. n -> S]
    PROVE  s \in Seq(S) /\ Len(s) = n /\ DOMAIN s = 1 .. n
OBVIOUS
---------------------------------------------------------------------------
(* Sums. *)

\* The partial sums of a row of numbers.
Sums(h, s, n) == h[0] = 0 /\ \A i \in 1 .. n : h[i] = h[i - 1] + s[i]

\* A sum is the last of the partial sums.
LEMMA TotalIs ==
    ASSUME NEW n \in Nat, NEW s \in [1 .. n -> Int]
    PROVE  \E h \in [0 .. n -> Int] : Sums(h, s, n) /\ Total(s) = h[n]
<1>1. Len(s) = n
  BY FunctionIsSeq
<1> DEFINE step == [p \in Int \X (1 .. n) |-> p[1] + s[p[2]]]
<1>2. step \in [Int \X (1 .. n) -> Int]
  OBVIOUS
<1>3. ASSUME NEW a \in Int, NEW i \in 1 .. n PROVE step[<<a, i>>] = a + s[i]
  OBVIOUS
<1> HIDE DEF step
<1>4. PICK h \in [0 .. n -> Int] : h[0] = 0 /\ \A i \in 1 .. n : h[i] = step[<<h[i - 1], i>>]
  <2>1. 0 \in Int
    OBVIOUS
  <2>2. \E h \in [0 .. n -> Int] : Iterates(h, 0, n, step)
    BY <1>2, <2>1, Recursion, Zenon
  <2> QED
    BY <2>2 DEF Iterates
<1>5. \A i \in 1 .. n : h[i] = h[i - 1] + s[i]
  <2> TAKE i \in 1 .. n
  <2>1. h[i - 1] \in Int
    OBVIOUS
  <2> QED
    BY <1>3, <1>4, <2>1
<1> DEFINE Sum == CHOOSE sum : sum = [k \in 0 .. Len(s) |-> IF k = 0 THEN 0 ELSE sum[k - 1] + s[k]]
<1>6. h = [k \in 0 .. Len(s) |-> IF k = 0 THEN 0 ELSE h[k - 1] + s[k]]
  BY <1>1, <1>4, <1>5
<1>7. Sum = [k \in 0 .. Len(s) |-> IF k = 0 THEN 0 ELSE Sum[k - 1] + s[k]]
  BY <1>6
<1>8. Total(s) = Sum[Len(s)]
  BY DEF Total
<1> HIDE DEF Sum
<1>9. \A k \in 0 .. n : Sum[k] = h[k]
  <2> DEFINE Good == {k \in Nat : k <= n => Sum[k] = h[k]}
  <2>1. 0 \in Good
    BY <1>1, <1>4, <1>7
  <2>2. ASSUME NEW k \in Nat, k \in Good PROVE k + 1 \in Good
    BY <1>1, <1>5, <1>7, <2>2
  <2> HIDE DEF Good
  <2>3. \A k \in Nat : k \in Good
    BY <2>1, <2>2, Induction
  <2> QED
    BY <2>3 DEF Good
<1> QED
  BY <1>1, <1>4, <1>5, <1>8, <1>9 DEF Sums

\* There is only one row of partial sums.
LEMMA SumsUnique ==
    ASSUME NEW n \in Nat, NEW s \in [1 .. n -> Int],
           NEW h \in [0 .. n -> Int], Sums(h, s, n)
    PROVE  Total(s) = h[n]
<1>1. PICK g \in [0 .. n -> Int] : Sums(g, s, n) /\ Total(s) = g[n]
  BY TotalIs
<1> DEFINE Good == {k \in Nat : k <= n => g[k] = h[k]}
<1>2. 0 \in Good
  BY <1>1 DEF Sums
<1>3. ASSUME NEW k \in Nat, k \in Good PROVE k + 1 \in Good
  BY <1>1, <1>3 DEF Sums
<1> HIDE DEF Good
<1>4. n \in Good
  BY <1>2, <1>3, Induction
<1> QED
  BY <1>1, <1>4 DEF Good

\* The sum of no number.
LEMMA TotalEmpty == ASSUME NEW s \in [1 .. 0 -> Int] PROVE Total(s) = 0
BY TotalIs DEF Sums

\* The sum of one number more.
LEMMA TotalStep ==
    ASSUME NEW n \in Nat, NEW s \in [1 .. n + 1 -> Int]
    PROVE  Total(s) = Total([i \in 1 .. n |-> s[i]]) + s[n + 1]
<1>1. PICK h \in [0 .. n + 1 -> Int] : Sums(h, s, n + 1) /\ Total(s) = h[n + 1]
  <2>1. n + 1 \in Nat
    OBVIOUS
  <2> QED
    BY <2>1, TotalIs
<1> DEFINE front == [i \in 1 .. n |-> s[i]]
           g == [i \in 0 .. n |-> h[i]]
<1>2. front \in [1 .. n -> Int] /\ g \in [0 .. n -> Int] /\ g[n] = h[n]
  OBVIOUS
<1>3. Sums(g, front, n)
  BY <1>1 DEF Sums
<1>4. h[n + 1] = h[n] + s[n + 1]
  BY <1>1 DEF Sums
<1> HIDE DEF front, g
<1>5. Total(front) = g[n]
  BY <1>2, <1>3, SumsUnique
<1> QED
  BY <1>1, <1>2, <1>4, <1>5 DEF front

\* A sum of integers is one.
LEMMA TotalType == ASSUME NEW n \in Nat, NEW s \in [1 .. n -> Int] PROVE Total(s) \in Int
<1>1. PICK h \in [0 .. n -> Int] : Total(s) = h[n]
  BY TotalIs
<1> QED
  BY <1>1

\* A sum is not more than another if no number in it is.
LEMMA TotalMono ==
    ASSUME NEW n \in Nat, NEW s \in [1 .. n -> Int], NEW t \in [1 .. n -> Int],
           \A i \in 1 .. n : s[i] <= t[i]
    PROVE  Total(s) <= Total(t)
<1>1. PICK h \in [0 .. n -> Int] : Sums(h, s, n) /\ Total(s) = h[n]
  BY TotalIs
<1>2. PICK g \in [0 .. n -> Int] : Sums(g, t, n) /\ Total(t) = g[n]
  BY TotalIs
<1> DEFINE Good == {k \in Nat : k <= n => h[k] <= g[k]}
<1>3. 0 \in Good
  BY <1>1, <1>2 DEF Sums
<1>4. ASSUME NEW k \in Nat, k \in Good PROVE k + 1 \in Good
  <2>1. SUFFICES ASSUME k + 1 <= n PROVE h[k + 1] <= g[k + 1]
    OBVIOUS
  <2>2. k + 1 \in 1 .. n /\ k \in 0 .. n /\ k + 1 - 1 = k
    BY <2>1
  <2>5. h[k + 1] = h[k] + s[k + 1] /\ g[k + 1] = g[k] + t[k + 1] /\ s[k + 1] <= t[k + 1]
    BY <1>1, <1>2, <2>2 DEF Sums
  <2>3. h[k] <= g[k]
    BY <1>4, <2>1
  <2>4. h[k] \in Int /\ g[k] \in Int /\ s[k + 1] \in Int /\ t[k + 1] \in Int
    BY <2>2
  <2> HIDE DEF Good
  <2> QED
    BY <2>3, <2>4, <2>5
<1> HIDE DEF Good
<1>5. n \in Good
  BY <1>3, <1>4, Induction
<1> QED
  BY <1>1, <1>2, <1>5 DEF Good

\* The sum of zeros.
LEMMA TotalZeros == ASSUME NEW n \in Nat PROVE Total([i \in 1 .. n |-> 0]) = 0
<1> DEFINE s == [i \in 1 .. n |-> 0]
           h == [i \in 0 .. n |-> 0]
<1>1. s \in [1 .. n -> Int] /\ h \in [0 .. n -> Int] /\ Sums(h, s, n) /\ h[n] = 0
  BY DEF Sums
<1> HIDE DEF s, h
<1>2. Total(s) = 0
  BY <1>1, SumsUnique
<1> QED
  BY <1>2 DEF s

\* The sum of numbers none of which is negative.
LEMMA TotalNat ==
    ASSUME NEW n \in Nat, NEW s \in [1 .. n -> Int], \A i \in 1 .. n : s[i] >= 0
    PROVE  Total(s) \in Nat
<1> DEFINE zero == [i \in 1 .. n |-> 0]
<1>1. zero \in [1 .. n -> Int] /\ \A i \in 1 .. n : zero[i] <= s[i]
  OBVIOUS
<1>2. Total(zero) = 0
  BY TotalZeros
<1> HIDE DEF zero
<1>3. Total(zero) <= Total(s) /\ Total(s) \in Int
  BY <1>1, TotalMono, TotalType
<1> QED
  BY <1>2, <1>3

\* Sums of two rows of numbers add up element by element.
LEMMA TotalAdd ==
    ASSUME NEW n \in Nat, NEW s \in [1 .. n -> Int], NEW t \in [1 .. n -> Int],
           NEW both \in [1 .. n -> Int], \A i \in 1 .. n : both[i] = s[i] + t[i]
    PROVE  Total(both) = Total(s) + Total(t)
<1>1. PICK h \in [0 .. n -> Int] : Sums(h, s, n) /\ Total(s) = h[n]
  BY TotalIs
<1>2. PICK g \in [0 .. n -> Int] : Sums(g, t, n) /\ Total(t) = g[n]
  BY TotalIs
<1> DEFINE f == [i \in 0 .. n |-> h[i] + g[i]]
<1>3. f \in [0 .. n -> Int] /\ f[n] = h[n] + g[n]
  <2>1. \A i \in 0 .. n : h[i] \in Int /\ g[i] \in Int
    OBVIOUS
  <2> QED
    BY <2>1
<1>4. Sums(f, both, n)
  <2>1. f[0] = 0
    BY <1>1, <1>2 DEF Sums
  <2>2. ASSUME NEW i \in 1 .. n PROVE f[i] = f[i - 1] + both[i]
    <3>1. f[i] = h[i] + g[i] /\ f[i - 1] = h[i - 1] + g[i - 1] /\ both[i] = s[i] + t[i]
      OBVIOUS
    <3>2. h[i] = h[i - 1] + s[i] /\ g[i] = g[i - 1] + t[i]
      BY <1>1, <1>2 DEF Sums
    <3>3. h[i - 1] \in Int /\ g[i - 1] \in Int /\ s[i] \in Int /\ t[i] \in Int
      OBVIOUS
    <3> HIDE DEF f
    <3> QED
      BY <3>1, <3>2, <3>3
  <2> HIDE DEF f
  <2> QED
    BY <2>1, <2>2 DEF Sums
<1> HIDE DEF f
<1>5. Total(both) = f[n]
  BY <1>3, <1>4, SumsUnique
<1> QED
  BY <1>1, <1>2, <1>3, <1>5

\* The sum of a row that is zero but in one place, if at all.
LEMMA TotalSpike ==
    ASSUME NEW n \in Nat, NEW c \in Int, NEW x \in Int
    PROVE  Total([k \in 1 .. n |-> IF k = c THEN x ELSE 0]) = IF c \in 1 .. n THEN x ELSE 0
<1> DEFINE s == [k \in 1 .. n |-> IF k = c THEN x ELSE 0]
           h == [k \in 0 .. n |-> IF c \in 1 .. k THEN x ELSE 0]
<1>1. s \in [1 .. n -> Int] /\ h \in [0 .. n -> Int]
      /\ h[n] = IF c \in 1 .. n THEN x ELSE 0
  OBVIOUS
<1>2. Sums(h, s, n)
  BY DEF Sums
<1> HIDE DEF s, h
<1>3. Total(s) = h[n]
  BY <1>1, <1>2, SumsUnique
<1> QED
  BY <1>1, <1>3 DEF s

\* Numbers that are shared out among n classes (or left out, in class 0) add up
\* over the classes to what they add up to.
LEMMA SharedOut ==
    ASSUME NEW n \in Nat, NEW m \in Nat, NEW class \in [1 .. m -> 0 .. n], NEW x \in [1 .. m -> Int]
    PROVE  Total([k \in 1 .. n |-> Total([i \in 1 .. m |-> IF class[i] = k THEN x[i] ELSE 0])])
             = Total([i \in 1 .. m |-> IF class[i] # 0 THEN x[i] ELSE 0])
<1> DEFINE Row(k, j) == [i \in 1 .. j |-> IF class[i] = k THEN x[i] ELSE 0]
           In(j) == [i \in 1 .. j |-> IF class[i] # 0 THEN x[i] ELSE 0]
           By(j) == [k \in 1 .. n |-> Total(Row(k, j))]
           Good == {j \in Nat : j <= m => Total(By(j)) = Total(In(j))}
<1>1. ASSUME NEW j \in Nat, j <= m
      PROVE  /\ \A k \in 1 .. n : Row(k, j) \in [1 .. j -> Int] /\ Total(Row(k, j)) \in Int
             /\ In(j) \in [1 .. j -> Int] /\ Total(In(j)) \in Int
             /\ By(j) \in [1 .. n -> Int]
  <2>1. \A k \in 1 .. n : Row(k, j) \in [1 .. j -> Int]
    BY <1>1
  <2>2. In(j) \in [1 .. j -> Int]
    BY <1>1
  <2>3. \A k \in 1 .. n : Total(Row(k, j)) \in Int
    BY <1>1, <2>1, TotalType
  <2>4. Total(In(j)) \in Int
    BY <1>1, <2>2, TotalType
  <2>5. By(j) \in [1 .. n -> Int]
    BY <2>3
  <2> QED
    BY <2>1, <2>2, <2>3, <2>4, <2>5
<1>2. 0 \in Good
  <2>1. ASSUME NEW k \in 1 .. n PROVE Total(Row(k, 0)) = 0
    <3>1. Row(k, 0) \in [1 .. 0 -> Int]
      OBVIOUS
    <3> QED
      BY <3>1, TotalEmpty
  <2>2. By(0) = [k \in 1 .. n |-> 0]
    BY <2>1
  <2>3. Total(In(0)) = 0
    <3>1. In(0) \in [1 .. 0 -> Int]
      OBVIOUS
    <3> QED
      BY <3>1, TotalEmpty
  <2>4. Total(By(0)) = 0
    BY <2>2, TotalZeros
  <2> QED
    BY <2>3, <2>4
<1>3. ASSUME NEW j \in Nat, j \in Good PROVE j + 1 \in Good
  <2>1. SUFFICES ASSUME j + 1 <= m PROVE Total(By(j + 1)) = Total(In(j + 1))
    OBVIOUS
  <2>2. j <= m /\ j + 1 \in Nat /\ class[j + 1] \in 0 .. n /\ x[j + 1] \in Int /\ class[j + 1] \in Int
    BY <2>1
  <2> DEFINE spike == [k \in 1 .. n |-> IF k = class[j + 1] THEN x[j + 1] ELSE 0]
  <2>3. ASSUME NEW k \in 1 .. n
        PROVE  Total(Row(k, j + 1)) = Total(Row(k, j)) + spike[k]
    <3>1. Row(k, j + 1) \in [1 .. j + 1 -> Int]
      BY <1>1, <2>1, <2>2
    <3>2. Row(k, j + 1)[j + 1] = spike[k]
      OBVIOUS
    <3>3. [i \in 1 .. j |-> Row(k, j + 1)[i]] = Row(k, j)
      OBVIOUS
    <3> HIDE DEF Row, spike
    <3> QED
      BY <3>1, <3>2, <3>3, TotalStep
  <2>4. Total(In(j + 1)) = Total(In(j)) + IF class[j + 1] # 0 THEN x[j + 1] ELSE 0
    <3>1. In(j + 1) \in [1 .. j + 1 -> Int]
      BY <1>1, <2>1, <2>2
    <3>2. In(j + 1)[j + 1] = IF class[j + 1] # 0 THEN x[j + 1] ELSE 0
      OBVIOUS
    <3>3. [i \in 1 .. j |-> In(j + 1)[i]] = In(j)
      OBVIOUS
    <3> HIDE DEF In
    <3> QED
      BY <3>1, <3>2, <3>3, TotalStep
  <2>5. spike \in [1 .. n -> Int]
    BY <2>2
  <2>6. Total(spike) = IF class[j + 1] # 0 THEN x[j + 1] ELSE 0
    <3>1. Total(spike) = IF class[j + 1] \in 1 .. n THEN x[j + 1] ELSE 0
      BY <2>2, TotalSpike
    <3> HIDE DEF spike
    <3> QED
      BY <2>2, <3>1
  <2>7. By(j + 1) = [k \in 1 .. n |-> By(j)[k] + spike[k]]
    <3> HIDE DEF Row, spike
    <3> QED
      BY <2>3
  <2>8. By(j) \in [1 .. n -> Int]
    BY <1>1, <2>2
  <2>11. By(j + 1) \in [1 .. n -> Int]
    BY <1>1, <2>1, <2>2
  <2>12. \A k \in 1 .. n : By(j + 1)[k] = By(j)[k] + spike[k]
    <3> HIDE DEF Row, spike
    <3> QED
      BY <2>7
  <2> HIDE DEF By, spike, In, Row
  <2>9. Total(By(j + 1)) = Total(By(j)) + Total(spike)
    BY <2>5, <2>8, <2>11, <2>12, TotalAdd
  <2>10. Total(By(j)) = Total(In(j))
    BY <1>3, <2>2
  <2> QED
    BY <2>4, <2>6, <2>9, <2>10
<1>4. m \in Good
  <2> HIDE DEF Good
  <2> QED
    BY <1>2, <1>3, Induction
<1> QED
  BY <1>4
\* The first j of the numbers of a row that are of class k, zero for the others.
OfClass(s, class, k, j) == [i \in 1 .. j |-> IF class[i] = k THEN s[i] ELSE 0]

\* The numbers of a class, one more.
LEMMA OfClassStep ==
    ASSUME NEW n \in Nat, NEW m \in Nat, NEW class \in [1 .. m -> 0 .. n], NEW s \in [1 .. m -> Int],
           NEW k \in 1 .. n, NEW j \in 0 .. m
    PROVE  /\ Total(OfClass(s, class, k, j)) \in Int
           /\ j = 0 => Total(OfClass(s, class, k, j)) = 0
           /\ j > 0 /\ class[j] = k =>
                Total(OfClass(s, class, k, j)) = Total(OfClass(s, class, k, j - 1)) + s[j]
           /\ j > 0 /\ class[j] # k =>
                Total(OfClass(s, class, k, j)) = Total(OfClass(s, class, k, j - 1))
<1>1. OfClass(s, class, k, j) \in [1 .. j -> Int] /\ j \in Nat
  BY DEF OfClass
<1>2. Total(OfClass(s, class, k, j)) \in Int
  BY <1>1, TotalType
<1>3. ASSUME j = 0 PROVE Total(OfClass(s, class, k, j)) = 0
  BY <1>1, <1>3, TotalEmpty
<1>4. ASSUME j > 0
      PROVE  Total(OfClass(s, class, k, j))
               = Total(OfClass(s, class, k, j - 1)) + IF class[j] = k THEN s[j] ELSE 0
  <2> DEFINE p == j - 1
             r == OfClass(s, class, k, j)
  <2>1. p \in Nat /\ j = p + 1
    BY <1>4
  <2>2. r[j] = IF class[j] = k THEN s[j] ELSE 0
    BY <1>4 DEF OfClass
  <2>3. [i \in 1 .. p |-> r[i]] = OfClass(s, class, k, p)
    BY DEF OfClass
  <2>4. r \in [1 .. p + 1 -> Int]
    BY <1>1, <2>1
  <2> HIDE DEF r, p
  <2>5. Total(r) = Total([i \in 1 .. p |-> r[i]]) + r[p + 1]
    BY <2>1, <2>4, TotalStep
  <2> QED
    BY <2>1, <2>2, <2>3, <2>5 DEF r, p
<1>5. j > 0 => Total(OfClass(s, class, k, j - 1)) \in Int
  <2> SUFFICES ASSUME j > 0 PROVE Total(OfClass(s, class, k, j - 1)) \in Int
    OBVIOUS
  <2>1. OfClass(s, class, k, j - 1) \in [1 .. j - 1 -> Int] /\ j - 1 \in Nat
    BY DEF OfClass
  <2> QED
    BY <2>1, TotalType
<1> QED
  BY <1>2, <1>3, <1>4, <1>5

\* What is shared out to a class is the sum of the numbers of that class.
LEMMA SharedIs ==
    ASSUME NEW n \in Nat, NEW m \in Nat, NEW class \in [1 .. m -> 0 .. n], NEW s \in [1 .. m -> Int]
    PROVE  Shared(s, class, n) = [k \in 1 .. n |-> Total([i \in 1 .. m |-> IF class[i] = k THEN s[i] ELSE 0])]
<1> DEFINE T(k, j) == Total(OfClass(s, class, k, j))
           h == [j \in 0 .. m |-> [k \in 1 .. n |-> T(k, j)]]
           With(f, j) == IF class[j] = 0 THEN f ELSE [f EXCEPT ![class[j]] = @ + s[j]]
           Of(f, j) == IF j = 0 THEN [k \in 1 .. n |-> 0] ELSE With(f[j - 1], j)
           Sum == CHOOSE sums : sums = [j \in 0 .. Len(s) |->
                      IF j = 0 THEN [k \in 1 .. n |-> 0]
                      ELSE IF class[j] = 0 THEN sums[j - 1]
                      ELSE [sums[j - 1] EXCEPT ![class[j]] = @ + s[j]]]
<1>1. Len(s) = m
  BY FunctionIsSeq
<1>10. ASSUME NEW k \in 1 .. n, NEW j \in 0 .. m
       PROVE  /\ T(k, j) \in Int
              /\ j = 0 => T(k, j) = 0
              /\ j > 0 /\ class[j] = k => T(k, j) = T(k, j - 1) + s[j]
              /\ j > 0 /\ class[j] # k => T(k, j) = T(k, j - 1)
  BY OfClassStep
<1> HIDE DEF T
<1>2. ASSUME NEW j \in 0 .. m PROVE h[j] = Of(h, j)
  <2>1. h[j] = [k \in 1 .. n |-> T(k, j)]
    OBVIOUS
  <2>2. CASE j = 0
    BY <1>10, <2>1, <2>2
  <2>3. CASE j > 0
    <3>1. class[j] \in 0 .. n /\ s[j] \in Int /\ j - 1 \in 0 .. m
      BY <2>3
    <3>2. h[j - 1] = [k \in 1 .. n |-> T(k, j - 1)]
      BY <3>1
    <3> HIDE DEF h
    <3>3. CASE class[j] = 0
      <4>1. \A k \in 1 .. n : T(k, j) = T(k, j - 1)
        BY <1>10, <2>3, <3>3
      <4> QED
        BY <2>1, <2>3, <3>2, <3>3, <4>1
    <3>4. CASE class[j] # 0
      <4> DEFINE e == [h[j - 1] EXCEPT ![class[j]] = @ + s[j]]
      <4>1. class[j] \in 1 .. n
        BY <3>1, <3>4
      <4>2. e = [k \in 1 .. n |-> IF k = class[j] THEN T(k, j - 1) + s[j] ELSE T(k, j - 1)]
        BY <3>2, <4>1
      <4>3. \A k \in 1 .. n : T(k, j) = IF k = class[j] THEN T(k, j - 1) + s[j] ELSE T(k, j - 1)
        BY <1>10, <2>3
      <4> HIDE DEF e
      <4>4. h[j] = e
        BY <2>1, <4>2, <4>3
      <4> QED
        BY <2>3, <3>4, <4>4 DEF e
    <3> QED
      BY <3>3, <3>4
  <2> QED
    BY <2>2, <2>3
<1>3. h = [j \in 0 .. Len(s) |->
              IF j = 0 THEN [k \in 1 .. n |-> 0]
              ELSE IF class[j] = 0 THEN h[j - 1]
              ELSE [h[j - 1] EXCEPT ![class[j]] = @ + s[j]]]
  BY <1>1, <1>2
<1>4. Sum = [j \in 0 .. Len(s) |->
                IF j = 0 THEN [k \in 1 .. n |-> 0]
                ELSE IF class[j] = 0 THEN Sum[j - 1]
                ELSE [Sum[j - 1] EXCEPT ![class[j]] = @ + s[j]]]
  <2> HIDE DEF h
  <2> QED
    BY <1>3
<1>5. Shared(s, class, n) = Sum[Len(s)]
  BY DEF Shared
<1>11. \A j \in 0 .. m : Sum[j] = Of(Sum, j) /\ h[j] = Of(h, j)
  <2> HIDE DEF h, Sum
  <2> QED
    BY <1>1, <1>2, <1>4
<1> HIDE DEF Sum, h, With
<1> DEFINE Good == {j \in Nat : j <= m => Sum[j] = h[j]}
<1>6. 0 \in Good
  BY <1>11
<1>7. ASSUME NEW j \in Nat, j \in Good PROVE j + 1 \in Good
  <2> SUFFICES ASSUME j + 1 <= m PROVE Sum[j + 1] = h[j + 1]
    OBVIOUS
  <2>1. Sum[j] = h[j] /\ j + 1 \in 0 .. m /\ j + 1 # 0 /\ j + 1 - 1 = j
    BY <1>7
  <2>2. Sum[j + 1] = With(Sum[j], j + 1) /\ h[j + 1] = With(h[j], j + 1)
    BY <1>11, <2>1
  <2> QED
    BY <2>1, <2>2
<1> HIDE DEF Good
<1>8. m \in Good
  BY <1>6, <1>7, Induction
<1>9. Sum[m] = h[m]
  BY <1>8 DEF Good
<1> QED
  BY <1>1, <1>5, <1>9 DEF h, T, OfClass

---------------------------------------------------------------------------
(* The elements that are kept. *)

\* How the elements of s that are in T are kept, one after the other.
Keeping(h, s, T, n) ==
    /\ h = [k \in 0 .. n |-> h[k]]
    /\ h[0] = <<>>
    /\ \A i \in 1 .. n : h[i] = IF s[i] \in T THEN Append(h[i - 1], s[i]) ELSE h[i - 1]

\* There is one way to keep them.
LEMMA KeepsUnique ==
    ASSUME NEW T, NEW n \in Nat, NEW s, NEW g, NEW h, Keeping(g, s, T, n), Keeping(h, s, T, n)
    PROVE  g[n] = h[n]
<1> DEFINE Good == {k \in Nat : k <= n => g[k] = h[k]}
<1>1. 0 \in Good
  BY DEF Keeping
<1>2. ASSUME NEW k \in Nat, k \in Good PROVE k + 1 \in Good
  <2>1. SUFFICES ASSUME k + 1 <= n PROVE g[k + 1] = h[k + 1]
    OBVIOUS
  <2> DEFINE i == k + 1
  <2>2. i \in 1 .. n /\ i - 1 = k
    BY <2>1
  <2>3. g[i - 1] = h[i - 1]
    BY <1>2, <2>1, <2>2
  <2> HIDE DEF i
  <2>4. /\ g[i] = IF s[i] \in T THEN Append(g[i - 1], s[i]) ELSE g[i - 1]
        /\ h[i] = IF s[i] \in T THEN Append(h[i - 1], s[i]) ELSE h[i - 1]
    BY <2>2 DEF Keeping
  <2>5. g[i] = h[i]
    BY <2>3, <2>4
  <2> QED
    BY <2>5 DEF i
<1>3. n \in Good
  <2> HIDE DEF Good
  <2> QED
    BY <1>1, <1>2, Induction
<1> QED
  BY <1>3

\* There is a way to keep them.
LEMMA WhereHas ==
    ASSUME NEW S, NEW T, NEW n \in Nat, NEW s \in [1 .. n -> S]
    PROVE  \E h \in [0 .. n -> Seq(S \cap T)] : Keeping(h, s, T, n)
<1> DEFINE U == Seq(S \cap T)
           step == [p \in U \X (1 .. n) |-> IF s[p[2]] \in T THEN Append(p[1], s[p[2]]) ELSE p[1]]
<1>2. step \in [U \X (1 .. n) -> U]
  <2>1. ASSUME NEW p \in U \X (1 .. n) PROVE (IF s[p[2]] \in T THEN Append(p[1], s[p[2]]) ELSE p[1]) \in U
    <3>1. p[1] \in Seq(S \cap T) /\ p[2] \in 1 .. n /\ s[p[2]] \in S
      OBVIOUS
    <3>2. s[p[2]] \in T => Append(p[1], s[p[2]]) \in Seq(S \cap T)
      BY <3>1
    <3> QED
      BY <3>1, <3>2
  <2> HIDE DEF U
  <2> QED
    BY <2>1
<1>3. ASSUME NEW a \in U, NEW i \in 1 .. n
      PROVE  step[<<a, i>>] = IF s[i] \in T THEN Append(a, s[i]) ELSE a
  OBVIOUS
<1>4. <<>> \in U
  OBVIOUS
<1> HIDE DEF step, U
<1>5. PICK h \in [0 .. n -> U] : Iterates(h, <<>>, n, step)
  BY <1>2, <1>4, Recursion, Zenon
<1>6. Keeping(h, s, T, n)
  <2>1. ASSUME NEW i \in 1 .. n PROVE h[i] = IF s[i] \in T THEN Append(h[i - 1], s[i]) ELSE h[i - 1]
    <3>1. h[i - 1] \in U /\ h[i] = step[<<h[i - 1], i>>]
      BY <1>5 DEF Iterates
    <3> QED
      BY <1>3, <3>1
  <2> QED
    BY <1>5, <2>1 DEF Keeping, Iterates
<1> QED
  BY <1>6 DEF U

\* It is the one the definition of Where stands for.
LEMMA WhereIs ==
    ASSUME NEW T, NEW n \in Nat, NEW s, Len(s) = n,
           NEW g, Keeping(g, s, T, n)
    PROVE  Where(s, T) = g[n]
<1>1. Len(s) = n /\ g = [k \in 0 .. n |-> g[k]]
  BY DEF Keeping
<1> DEFINE Chosen == CHOOSE kept : kept = [k \in 0 .. Len(s) |->
                      IF k = 0 THEN <<>> ELSE IF s[k] \in T THEN Append(kept[k - 1], s[k]) ELSE kept[k - 1]]
<1>2. g = [k \in 0 .. Len(s) |->
            IF k = 0 THEN <<>> ELSE IF s[k] \in T THEN Append(g[k - 1], s[k]) ELSE g[k - 1]]
  <2>1. ASSUME NEW k \in 0 .. n
        PROVE  g[k] = IF k = 0 THEN <<>> ELSE IF s[k] \in T THEN Append(g[k - 1], s[k]) ELSE g[k - 1]
    <3>1. CASE k = 0
      BY <3>1 DEF Keeping
    <3>2. CASE k # 0
      <4>1. k \in 1 .. n
        BY <3>2
      <4>2. g[k] = IF s[k] \in T THEN Append(g[k - 1], s[k]) ELSE g[k - 1]
        BY <4>1, Zenon DEF Keeping
      <4> QED
        BY <3>2, <4>2, Zenon
    <3> QED
      BY <3>1, <3>2
  <2> QED
    BY <1>1, <2>1
<1>3. Chosen = [k \in 0 .. Len(s) |->
            IF k = 0 THEN <<>> ELSE IF s[k] \in T THEN Append(Chosen[k - 1], s[k]) ELSE Chosen[k - 1]]
  BY <1>2
<1>4. Where(s, T) = Chosen[Len(s)]
  BY DEF Where
<1> HIDE DEF Chosen
<1>5. Keeping(Chosen, s, T, n)
  <2>1. 0 \in 0 .. Len(s) /\ \A i \in 1 .. n : i \in 0 .. Len(s) /\ i # 0
    BY <1>1
  <2>2. Chosen[0] = <<>>
    BY <1>3, <2>1
  <2>3. ASSUME NEW i \in 1 .. n
        PROVE  Chosen[i] = IF s[i] \in T THEN Append(Chosen[i - 1], s[i]) ELSE Chosen[i - 1]
    <3>1. Chosen[i] = IF i = 0 THEN <<>>
                    ELSE IF s[i] \in T THEN Append(Chosen[i - 1], s[i]) ELSE Chosen[i - 1]
      BY <1>3, <2>1, Zenon
    <3> QED
      BY <2>1, <3>1, Zenon
  <2>4. Chosen = [k \in 0 .. n |-> Chosen[k]]
    BY <1>1, <1>3
  <2> QED
    BY <2>2, <2>3, <2>4 DEF Keeping
<1>6. Chosen[n] = g[n]
  BY <1>5, KeepsUnique
<1> QED
  BY <1>1, <1>4, <1>6

\* What is kept of no element.
LEMMA WhereEmpty == \A T : Where(<<>>, T) = <<>>
<1> TAKE T
<1>1. <<>> \in [1 .. 0 -> {}]
  OBVIOUS
<1>2. PICK h \in [0 .. 0 -> Seq({} \cap T)] : Keeping(h, <<>>, T, 0)
  BY <1>1, WhereHas
<1>3. Where(<<>>, T) = h[0]
  BY <1>2, WhereIs
<1> QED
  BY <1>2, <1>3 DEF Keeping

\* What is kept is a list of elements of both sets.
LEMMA WhereType ==
    ASSUME NEW S, NEW T, NEW s \in Seq(S)
    PROVE  Where(s, T) \in Seq(S \cap T)
<1> DEFINE n == Len(s)
<1>1. n \in Nat /\ s \in [1 .. n -> S]
  OBVIOUS
<1>2. PICK h \in [0 .. n -> Seq(S \cap T)] : Keeping(h, s, T, n)
  <2> HIDE DEF n
  <2> QED
    BY <1>1, WhereHas
<1>3. h[n] \in Seq(S \cap T)
  BY <1>1
<1>4. Where(s, T) = h[n]
  BY <1>1, <1>2, WhereIs
<1> QED
  BY <1>3, <1>4

\* The front of a list: all but its last element.
LEMMA FrontIs ==
    ASSUME NEW S, NEW s \in Seq(S), s # <<>>
    PROVE  /\ Len(s) \in Nat \ {0}
           /\ Front(s) \in Seq(S) /\ Len(Front(s)) = Len(s) - 1
           /\ \A i \in 1 .. Len(s) - 1 : Front(s)[i] = s[i]
           /\ Last(s) \in S /\ Last(s) = s[Len(s)]
<1>1. Len(s) \in Nat \ {0} /\ 1 \in Int /\ Len(s) - 1 \in Int /\ \A i \in 1 .. Len(s) : s[i] \in S
  BY EmptySeq, ElementOfSeq
<1>2. Front(s) = SubSeq(s, 1, Len(s) - 1) /\ Last(s) = s[Len(s)]
  BY DEF Front, Last
<1> DEFINE f == SubSeq(s, 1, Len(s) - 1)
           n == Len(s) - 1
<1>3. f \in Seq(S) /\ (Len(f) = IF 1 <= n THEN n - 1 + 1 ELSE 0)
      /\ \A i \in 1 .. n - 1 + 1 : f[i] = s[1 + i - 1]
  <2>1. \A i \in 1 .. n : s[i] \in S
    BY <1>1
  <2> QED
    BY <1>1, <2>1, SubSeqProperties
<1> HIDE DEF f
<1>4. Len(f) = n
  <2>1. n \in Nat
    BY <1>1
  <2> HIDE DEF n
  <2> QED
    BY <1>3, <2>1
<1>5. \A i \in 1 .. n : f[i] = s[i]
  <2> TAKE i \in 1 .. n
  <2>1. i \in 1 .. n - 1 + 1 /\ 1 + i - 1 = i
    BY <1>1
  <2> QED
    BY <1>3, <2>1
<1> QED
  BY <1>1, <1>2, <1>3, <1>4, <1>5 DEF f

\* Induction over sequences.
LEMMA SequenceInduction ==
    ASSUME NEW S, NEW G, <<>> \in G,
           \A s \in Seq(S) : s # <<>> /\ Front(s) \in G => s \in G
    PROVE  \A s \in Seq(S) : s \in G
<1> DEFINE Good == {n \in Nat : \A s \in Seq(S) : Len(s) = n => s \in G}
<1>1. 0 \in Good
  BY EmptySeq
<1>2. ASSUME NEW n \in Nat, n \in Good PROVE n + 1 \in Good
  <2>1. ASSUME NEW s \in Seq(S), Len(s) = n + 1 PROVE s \in G
    <3>1. s # <<>>
      BY <2>1
    <3>2. Front(s) \in Seq(S) /\ Len(Front(s)) = n
      BY <2>1, <3>1, FrontIs
    <3>3. Front(s) \in G
      BY <1>2, <3>2
    <3> QED
      BY <3>1, <3>3
  <2> QED
    BY <2>1
<1> HIDE DEF Good
<1>3. \A n \in Nat : n \in Good
  BY <1>1, <1>2, Induction
<1> QED
  BY <1>3 DEF Good

\* A sum, of a list and its front.
LEMMA TotalFront ==
    ASSUME NEW s \in Seq(Int), s # <<>>
    PROVE  Total(s) = Total(Front(s)) + Last(s)
<1> DEFINE n == Len(s) - 1
<1>1. n \in Nat /\ s \in [1 .. n + 1 -> Int] /\ Last(s) = s[n + 1]
      /\ Front(s) = [i \in 1 .. n |-> s[i]]
  <2>1. Len(s) \in Nat \ {0} /\ Last(s) = s[Len(s)]
    BY FrontIs
  <2>2. Front(s) \in Seq(Int) /\ Len(Front(s)) = n /\ \A i \in 1 .. n : Front(s)[i] = s[i]
    BY FrontIs
  <2> QED
    BY <2>1, <2>2
<1> HIDE DEF n
<1> QED
  BY <1>1, TotalStep

\* A list is its front and its last element.
LEMMA FrontAndLast ==
    ASSUME NEW S, NEW s \in Seq(S), s # <<>>
    PROVE  s = Append(Front(s), Last(s))
<1>1. /\ Len(s) \in Nat \ {0} /\ Front(s) \in Seq(S) /\ Len(Front(s)) = Len(s) - 1
      /\ \A i \in 1 .. Len(s) - 1 : Front(s)[i] = s[i]
      /\ Last(s) \in S /\ Last(s) = s[Len(s)]
  BY FrontIs
<1> DEFINE p == Front(s)
           x == Last(s)
           t == Append(p, x)
<1> HIDE DEF p, x
<1>2. p \in Seq(S) /\ x \in S
  BY <1>1 DEF p, x
<1>3. t \in Seq(S) /\ Len(t) = Len(p) + 1 /\ (\A i \in 1 .. Len(p) : t[i] = p[i]) /\ t[Len(p) + 1] = x
  BY <1>2, AppendProperties
<1> HIDE DEF t
<1>4. Len(t) = Len(s) /\ \A i \in 1 .. Len(s) : s[i] = t[i]
  BY <1>1, <1>3 DEF p, x
<1>5. s = t
  BY <1>3, <1>4, SeqEqual
<1> QED
  BY <1>5 DEF t, p, x

\* A sum of a list of integers is one.
LEMMA TotalInt == ASSUME NEW s \in Seq(Int) PROVE Total(s) \in Int
<1>1. Len(s) \in Nat /\ s \in [1 .. Len(s) -> Int]
  BY LenProperties
<1> QED
  BY <1>1, TotalType

\* The sum of no numbers.
LEMMA TotalNone == Total(<<>>) = 0
<1>1. <<>> \in Seq(Int) /\ Len(<<>>) = 0
  BY EmptySeq
<1>2. <<>> \in [1 .. 0 -> Int]
  BY <1>1, LenProperties
<1> QED
  BY <1>2, TotalEmpty

\* The sum of one number more.
LEMMA TotalAppend ==
    ASSUME NEW s \in Seq(Int), NEW x \in Int
    PROVE  Total(Append(s, x)) = Total(s) + x
<1> DEFINE t == Append(s, x)
<1>1. /\ t \in Seq(Int) /\ t # <<>> /\ Len(t) = Len(s) + 1 /\ t[Len(s) + 1] = x
      /\ \A i \in 1 .. Len(s) : t[i] = s[i]
  BY AppendProperties
<1> HIDE DEF t
<1>2. /\ Len(t) \in Nat /\ Front(t) \in Seq(Int) /\ Len(Front(t)) = Len(t) - 1
      /\ \A i \in 1 .. Len(t) - 1 : Front(t)[i] = t[i]
      /\ Last(t) = t[Len(t)]
  BY <1>1, FrontIs
<1>3. Len(s) \in Nat
  BY LenProperties
<1>4. Len(Front(t)) = Len(s) /\ Last(t) = x
  BY <1>1, <1>2, <1>3
<1>5. \A i \in 1 .. Len(Front(t)) : Front(t)[i] = s[i]
  BY <1>1, <1>2, <1>3, <1>4
<1>6. Front(t) = s
  BY <1>2, <1>4, <1>5, SeqEqual
<1>7. Total(t) = Total(s) + x
  BY <1>1, <1>4, <1>6, TotalFront
<1> QED
  BY <1>7 DEF t

\* A sum, of a list and what follows its first element.
LEMMA TotalTail ==
    ASSUME NEW s \in Seq(Int), s # <<>>
    PROVE  Total(s) = Head(s) + Total(Tail(s))
<1> DEFINE G == {q \in Seq(Int) : q # <<>> => Total(q) = Head(q) + Total(Tail(q))}
<1>1. <<>> \in G
  BY EmptySeq
<1>2. ASSUME NEW q \in Seq(Int), q # <<>>, Front(q) \in G PROVE q \in G
  <2> DEFINE p == Front(q)
             x == Last(q)
  <2>1. p \in Seq(Int) /\ x \in Int /\ q = Append(p, x)
    BY <1>2, FrontIs, FrontAndLast
  <2>2. p # <<>> => Total(p) = Head(p) + Total(Tail(p))
    BY <1>2
  <2> SUFFICES Total(q) = Head(q) + Total(Tail(q))
    BY <1>2
  <2> HIDE DEF p, x, G
  <2>3. Total(q) = Total(p) + x /\ Total(<<>>) = 0
    BY <2>1, TotalAppend, TotalNone
  <2>4. CASE p = <<>>
    <3>1. Head(q) = x /\ Tail(q) = <<>>
      BY <2>1, <2>4, HeadTailAppend
    <3> QED
      BY <2>1, <2>3, <2>4, <3>1
  <2>5. CASE p # <<>>
    <3>1. Head(q) = Head(p) /\ Tail(q) = Append(Tail(p), x)
      BY <2>1, <2>5, HeadTailAppend
    <3>2. Head(p) \in Int /\ Tail(p) \in Seq(Int)
      BY <2>1, <2>5, HeadTailProperties
    <3>3. Total(Tail(q)) = Total(Tail(p)) + x
      BY <2>1, <3>1, <3>2, TotalAppend
    <3>4. Total(Tail(p)) \in Int
      BY <3>2, TotalInt
    <3> QED
      BY <2>1, <2>2, <2>3, <2>5, <3>1, <3>2, <3>3, <3>4
  <2> QED
    BY <2>4, <2>5
<1> HIDE DEF G
<1>3. s \in G
  BY <1>1, <1>2, SequenceInduction
<1> QED
  BY <1>3 DEF G

\* A list, longer by e if e is in T.
WithNext(w, e, T) == IF e \in T THEN Append(w, e) ELSE w

\* What is kept of a list, and of its front.
LEMMA WhereFront ==
    ASSUME NEW S, NEW T, NEW s \in Seq(S), s # <<>>
    PROVE  Where(s, T) = WithNext(Where(Front(s), T), Last(s), T)
<1> DEFINE m == Len(s)
           n == Len(s) - 1
<1>1. /\ m \in Nat /\ n \in Nat /\ n = m - 1 /\ s \in [1 .. m -> S] /\ Last(s) = s[m]
      /\ Len(s) = m
      /\ Len(Front(s)) = n /\ \A i \in 1 .. n : Front(s)[i] = s[i]
  BY FrontIs
<1> HIDE DEF m, n
<1>2. PICK h \in [0 .. m -> Seq(S \cap T)] : Keeping(h, s, T, m)
  BY <1>1, WhereHas
<1> DEFINE g == [k \in 0 .. n |-> h[k]]
<1>3. g = [k \in 0 .. n |-> g[k]] /\ g[0] = h[0] /\ g[n] = h[n]
  BY <1>1
<1>4. Keeping(g, Front(s), T, n)
  <2>1. ASSUME NEW i \in 1 .. n
        PROVE  g[i] = IF Front(s)[i] \in T THEN Append(g[i - 1], Front(s)[i]) ELSE g[i - 1]
    <3>1. g[i] = h[i] /\ g[i - 1] = h[i - 1] /\ Front(s)[i] = s[i] /\ i \in 1 .. m
      BY <1>1
    <3>2. h[i] = IF s[i] \in T THEN Append(h[i - 1], s[i]) ELSE h[i - 1]
      BY <1>2, <3>1 DEF Keeping
    <3> HIDE DEF g
    <3> QED
      BY <3>1, <3>2, Zenon
  <2> HIDE DEF g
  <2> QED
    BY <1>2, <1>3, <2>1 DEF Keeping
<1> HIDE DEF g
<1>5. Where(s, T) = h[m] /\ Where(Front(s), T) = g[n]
  BY <1>1, <1>2, <1>4, WhereIs
<1>6. h[m] = IF s[m] \in T THEN Append(h[n], s[m]) ELSE h[n]
  <2>1. m \in 1 .. m /\ m - 1 = n
    BY <1>1
  <2>2. h[m] = IF s[m] \in T THEN Append(h[m - 1], s[m]) ELSE h[m - 1]
    BY <1>2, <2>1 DEF Keeping
  <2> QED
    BY <2>1, <2>2
<1> QED
  BY <1>1, <1>3, <1>5, <1>6 DEF WithNext

\* The numbers f gives the elements of a list, and of those in T, zero for others.
Images(f, list) == [i \in DOMAIN list |-> f[list[i]]]
ImagesIn(f, list, T) == [i \in DOMAIN list |-> IF list[i] \in T THEN f[list[i]] ELSE 0]


\* What is added up of the elements that are kept: the others count as zero.
LEMMA WhereTotal ==
    ASSUME NEW S, NEW T, NEW f \in [S -> Int], NEW list \in Seq(S)
    PROVE  Total(Images(f, Where(list, T))) = Total(ImagesIn(f, list, T))
<1> DEFINE Mapped(w) == [j \in DOMAIN w |-> f[w[j]]]
           Counted(s) == [i \in DOMAIN s |-> IF s[i] \in T THEN f[s[i]] ELSE 0]
           Good == {s \in Seq(S) : Total(Mapped(Where(s, T))) = Total(Counted(s))}
<1>1. <<>> \in Good
  <2>1. Where(<<>>, T) = <<>> /\ Mapped(<<>>) = Counted(<<>>)
    BY WhereEmpty
  <2> HIDE DEF Mapped, Counted
  <2> QED
    BY <2>1
<1>2. ASSUME NEW s \in Seq(S), s # <<>>, Front(s) \in Good PROVE s \in Good
  <2> DEFINE l == Len(s)
             w == Where(Front(s), T)
             e == Last(s)
  <2>1. /\ l \in Nat \ {0} /\ Front(s) \in Seq(S) /\ Len(Front(s)) = l - 1
        /\ \A i \in 1 .. l - 1 : Front(s)[i] = s[i]
        /\ e \in S /\ e = s[l]
    BY <1>2, FrontIs
  <2>2. w \in Seq(S \cap T)
    BY <2>1, WhereType
  <2>3. Where(s, T) = WithNext(w, e, T)
    BY <1>2, WhereFront
  <2>4. Total(Mapped(w)) = Total(Counted(Front(s)))
    BY <1>2
  <2> HIDE DEF l, w, e
  <2>5. DOMAIN s = 1 .. l /\ DOMAIN Front(s) = 1 .. l - 1 /\ \A i \in 1 .. l : s[i] \in S
    BY <2>1 DEF l
  <2>6. Counted(s) \in Seq(Int) /\ Counted(s) # <<>>
        /\ Front(Counted(s)) = Counted(Front(s))
        /\ Last(Counted(s)) = IF e \in T THEN f[e] ELSE 0
    <3> DEFINE c == Counted(s)
    <3>1. c \in Seq(Int) /\ Len(c) = l /\ c # <<>>
      <4>1. l \in Nat /\ l # 0 /\ c \in [1 .. l -> Int]
        BY <2>1, <2>5
      <4> HIDE DEF c
      <4>2. c \in Seq(Int) /\ Len(c) = l
        BY <4>1, FunctionIsSeq
      <4> QED
        BY <4>1, <4>2, EmptySeq
    <3>2. \A i \in 1 .. l : c[i] = IF s[i] \in T THEN f[s[i]] ELSE 0
      BY <2>5
    <3>3. Counted(Front(s)) \in Seq(Int) /\ Len(Counted(Front(s))) = l - 1
          /\ \A i \in 1 .. l - 1 : Counted(Front(s))[i] = IF s[i] \in T THEN f[s[i]] ELSE 0
      BY <2>1, <2>5
    <3> HIDE DEF c, Counted
    <3>4. /\ Front(c) \in Seq(Int) /\ Len(Front(c)) = l - 1
          /\ \A i \in 1 .. l - 1 : Front(c)[i] = c[i]
          /\ Last(c) = c[l]
      BY <3>1, FrontIs
    <3>5. Front(c) = Counted(Front(s))
      BY <2>1, <3>2, <3>3, <3>4, SeqEqual
    <3> QED
      BY <2>1, <3>1, <3>2, <3>4, <3>5 DEF c
  <2>7. Total(Counted(s)) = Total(Counted(Front(s))) + IF e \in T THEN f[e] ELSE 0
    <3> HIDE DEF Counted
    <3> QED
      BY <2>6, TotalFront
  <2>8. Mapped(w) \in Seq(Int) /\ Total(Mapped(w)) \in Int
    <3>1. Mapped(w) \in [1 .. Len(w) -> Int] /\ Len(w) \in Nat
      BY <2>2
    <3> HIDE DEF Mapped
    <3> QED
      BY <3>1, TotalType, FunctionIsSeq
  <2>9. CASE e \in T
    <3> DEFINE v == Append(w, e)
    <3>1. e \in S \cap T
      BY <2>1, <2>9
    <3>2. v \in Seq(S \cap T) /\ Len(v) = Len(w) + 1 /\ v[Len(v)] = e
          /\ \A j \in 1 .. Len(w) : v[j] = w[j]
      BY <2>2, <3>1
    <3> HIDE DEF v
    <3>3. /\ Mapped(v) \in Seq(Int) /\ Len(Mapped(v)) = Len(w) + 1 /\ Len(w) \in Nat
          /\ \A j \in 1 .. Len(w) : Mapped(v)[j] = f[w[j]]
          /\ Mapped(v)[Len(w) + 1] = f[e]
      <4> DEFINE n == Len(w)
                 k == n + 1
      <4>1. n \in Nat /\ k \in Nat /\ \A j \in 1 .. n : j \in 1 .. k
        BY <2>2
      <4>2. DOMAIN v = 1 .. k /\ v[k] = e /\ \A j \in 1 .. k : v[j] \in S
        BY <2>2, <3>2
      <4>3. k \in 1 .. k
        BY <4>1
      <4> HIDE DEF k
      <4>4. Mapped(v) \in [1 .. k -> Int]
        BY <4>2
      <4>5. Mapped(v)[k] = f[e] /\ \A j \in 1 .. n : Mapped(v)[j] = f[w[j]]
        BY <3>2, <4>1, <4>2, <4>3
      <4> HIDE DEF Mapped
      <4>6. Mapped(v) \in Seq(Int) /\ Len(Mapped(v)) = k
        BY <4>1, <4>4, FunctionIsSeq
      <4> QED
        BY <4>1, <4>5, <4>6 DEF k
    <3>4. Len(Mapped(w)) = Len(w) /\ \A j \in 1 .. Len(w) : Mapped(w)[j] = f[w[j]]
      BY <2>2
    <3> HIDE DEF Mapped
    <3>5. Mapped(v) # <<>>
      BY <3>3
    <3>6. /\ Front(Mapped(v)) \in Seq(Int) /\ Len(Front(Mapped(v))) = Len(w)
          /\ \A j \in 1 .. Len(w) : Front(Mapped(v))[j] = Mapped(v)[j]
          /\ Last(Mapped(v)) = f[e]
      <4>1. ASSUME NEW m \in Seq(Int), m # <<>>, Len(m) = Len(w) + 1, m[Len(w) + 1] = f[e]
            PROVE  /\ Front(m) \in Seq(Int) /\ Len(Front(m)) = Len(w)
                   /\ \A j \in 1 .. Len(w) : Front(m)[j] = m[j]
                   /\ Last(m) = f[e]
        <5>1. /\ Front(m) \in Seq(Int) /\ Len(Front(m)) = Len(m) - 1
              /\ \A i \in 1 .. Len(m) - 1 : Front(m)[i] = m[i]
              /\ Last(m) = m[Len(m)]
          BY <4>1, FrontIs
        <5>2. Len(w) \in Nat
          BY <3>3
        <5> QED
          BY <4>1, <5>1, <5>2
      <4> QED
        BY <3>3, <3>5, <4>1
    <3>7. Front(Mapped(v)) = Mapped(w)
      BY <2>8, <3>3, <3>4, <3>6, SeqEqual
    <3>8. Total(Mapped(v)) = Total(Mapped(w)) + f[e]
      BY <3>3, <3>5, <3>6, <3>7, TotalFront
    <3>9. Where(s, T) = v
      BY <2>3, <2>9 DEF WithNext, v
    <3> QED
      BY <2>4, <2>7, <2>9, <3>8, <3>9
  <2>10. CASE e \notin T
    <3>1. Where(s, T) = w
      BY <2>3, <2>10 DEF WithNext
    <3> HIDE DEF Mapped, Counted
    <3> QED
      BY <2>4, <2>7, <2>8, <2>10, <3>1
  <2> QED
    BY <2>9, <2>10
<1>3. list \in Good
  <2> HIDE DEF Good
  <2> QED
    BY <1>1, <1>2, SequenceInduction
<1> QED
  BY <1>3 DEF Images, ImagesIn

\* An element that is kept is one of the list.
LEMMA WhereFrom ==
    ASSUME NEW S, NEW T, NEW list \in Seq(S)
    PROVE  \A j \in DOMAIN Where(list, T) :
              /\ Where(list, T)[j] \in S /\ Where(list, T)[j] \in T
              /\ \E i \in DOMAIN list : Where(list, T)[j] = list[i]
<1> DEFINE R == {list[i] : i \in DOMAIN list}
           w == Where(list, T)
<1>1. list \in Seq(R)
  OBVIOUS
<1> HIDE DEF R
<1>2. Where(list, T) \in Seq(R \cap T) /\ Where(list, T) \in Seq(S \cap T)
  BY <1>1, WhereType
<1> HIDE DEF w
<1>3. w \in Seq(R \cap T) /\ w \in Seq(S \cap T)
  BY <1>2 DEF w
<1>4. \A j \in DOMAIN w : w[j] \in R \cap T /\ w[j] \in S
  BY <1>3
<1> QED
  BY <1>4 DEF w, R

\* A list is kept with every element of it that is in T.
LEMMA WhereKeeps ==
    ASSUME NEW S, NEW T, NEW list \in Seq(S)
    PROVE  \A i \in DOMAIN list : list[i] \in T =>
              \E j \in DOMAIN Where(list, T) : Where(list, T)[j] = list[i]
<1> DEFINE Has(s, e) == \E j \in DOMAIN Where(s, T) : Where(s, T)[j] = e
           G == {s \in Seq(S) : \A i \in 1 .. Len(s) : s[i] \in T => Has(s, s[i])}
<1>1. <<>> \in G
  BY EmptySeq
<1>2. ASSUME NEW s \in Seq(S), s # <<>>, Front(s) \in G PROVE s \in G
  <2> DEFINE f == Front(s)
             w == Where(f, T)
             v == Where(s, T)
             x == Last(s)
  <2>1. /\ f \in Seq(S) /\ Len(s) \in Nat \ {0} /\ Len(f) = Len(s) - 1 /\ x \in S /\ x = s[Len(s)]
        /\ \A i \in 1 .. Len(s) - 1 : f[i] = s[i]
    BY <1>2, FrontIs
  <2>2. w \in Seq(S) /\ v \in Seq(S)
    <3>1. w \in Seq(S \cap T) /\ v \in Seq(S \cap T)
      BY <1>2, <2>1, WhereType
    <3> QED
      BY <3>1, SeqMonotonic
  <2>3. v = WithNext(w, x, T)
    BY <1>2, WhereFront
  <2>4. \A i \in 1 .. Len(f) : f[i] \in T => \E j \in DOMAIN w : w[j] = f[i]
    BY <1>2
  <2> HIDE DEF f, w, v, x
  <2>5. ASSUME NEW j \in DOMAIN w PROVE j \in DOMAIN v /\ v[j] = w[j]
    <3>1. CASE x \in T
      <4>1. /\ Len(w) \in Nat /\ DOMAIN w = 1 .. Len(w) /\ DOMAIN v = 1 .. Len(w) + 1
            /\ \A i \in 1 .. Len(w) : v[i] = w[i]
        BY <2>1, <2>2, <2>3, <3>1 DEF WithNext
      <4> QED
        BY <4>1
    <3>2. CASE x \notin T
      BY <2>3, <3>2 DEF WithNext
    <3> QED
      BY <3>1, <3>2
  <2>6. ASSUME x \in T PROVE Len(w) + 1 \in DOMAIN v /\ v[Len(w) + 1] = x
    <3>1. Len(w) \in Nat /\ DOMAIN v = 1 .. Len(w) + 1 /\ v[Len(w) + 1] = x
      BY <2>1, <2>2, <2>3, <2>6 DEF WithNext
    <3> QED
      BY <3>1
  <2>7. ASSUME NEW i \in 1 .. Len(s), s[i] \in T PROVE \E j \in DOMAIN v : v[j] = s[i]
    <3>1. CASE i = Len(s)
      BY <2>1, <2>6, <2>7, <3>1
    <3>2. CASE i # Len(s)
      <4>1. i \in 1 .. Len(f) /\ f[i] = s[i]
        BY <2>1, <2>7, <3>2
      <4> QED
        BY <2>4, <2>5, <2>7, <4>1
    <3> QED
      BY <3>1, <3>2
  <2> QED
    BY <1>2, <2>7 DEF v
<1> HIDE DEF G
<1>3. list \in G
  BY <1>1, <1>2, SequenceInduction
<1> QED
  BY <1>3, LenProperties DEF G

\* No element twice.
Distinct(s) == \A i, j \in DOMAIN s : s[i] = s[j] => i = j

\* Of a list in which no element is twice, none is kept twice.
LEMMA WhereDistinct ==
    ASSUME NEW S, NEW T, NEW list \in Seq(S), Distinct(list)
    PROVE  Distinct(Where(list, T))
<1> DEFINE G == {s \in Seq(S) : Distinct(s) => Distinct(Where(s, T))}
<1>1. <<>> \in G
  BY EmptySeq, WhereEmpty DEF Distinct
<1>2. ASSUME NEW s \in Seq(S), s # <<>>, Front(s) \in G PROVE s \in G
  <2> DEFINE f == Front(s)
             w == Where(f, T)
             v == Where(s, T)
             x == Last(s)
  <2> SUFFICES ASSUME Distinct(s) PROVE Distinct(v)
    BY <1>2
  <2>1. /\ f \in Seq(S) /\ Len(s) \in Nat \ {0} /\ Len(f) = Len(s) - 1 /\ x \in S /\ x = s[Len(s)]
        /\ \A i \in 1 .. Len(s) - 1 : f[i] = s[i]
    BY <1>2, FrontIs
  <2>2. w \in Seq(S) /\ v \in Seq(S)
    <3>1. w \in Seq(S \cap T) /\ v \in Seq(S \cap T)
      BY <1>2, <2>1, WhereType
    <3> QED
      BY <3>1, SeqMonotonic
  <2>3. v = WithNext(w, x, T)
    BY <1>2, WhereFront
  <2>4. Distinct(f) => Distinct(w)
    BY <1>2
  <2>5. \A j \in DOMAIN w : \E i \in DOMAIN f : w[j] = f[i]
    BY <2>1, WhereFrom
  <2> HIDE DEF f, w, v, x
  <2>6. DOMAIN f = 1 .. Len(f) /\ DOMAIN s = 1 .. Len(s) /\ DOMAIN w = 1 .. Len(w) /\ DOMAIN v = 1 .. Len(v)
        /\ Len(w) \in Nat
    BY <1>2, <2>1, <2>2, LenProperties
  <2>7. Distinct(w)
    BY <2>1, <2>4, <2>6 DEF Distinct
  <2>8. \A j \in DOMAIN w : w[j] # x
    <3> SUFFICES ASSUME NEW j \in DOMAIN w PROVE w[j] # x
      OBVIOUS
    <3>1. PICK i \in DOMAIN f : w[j] = f[i]
      BY <2>5
    <3>2. i \in DOMAIN s /\ Len(s) \in DOMAIN s /\ i # Len(s) /\ w[j] = s[i]
      BY <2>1, <2>6, <3>1
    <3> QED
      BY <2>1, <3>2 DEF Distinct
  <2>9. CASE x \notin T
    <3>1. v = w
      BY <2>3, <2>9 DEF WithNext
    <3> QED
      BY <2>7, <3>1
  <2>10. CASE x \in T
    <3>1. /\ DOMAIN v = 1 .. Len(w) + 1 /\ v[Len(w) + 1] = x
          /\ \A i \in 1 .. Len(w) : v[i] = w[i]
      BY <2>1, <2>2, <2>3, <2>10 DEF WithNext
    <3> SUFFICES ASSUME NEW i \in DOMAIN v, NEW j \in DOMAIN v, v[i] = v[j] PROVE i = j
      BY DEF Distinct
    <3>2. CASE i \in DOMAIN w /\ j \in DOMAIN w
      BY <2>6, <2>7, <3>1, <3>2 DEF Distinct
    <3>3. CASE i \notin DOMAIN w \/ j \notin DOMAIN w
      BY <2>6, <2>8, <3>1, <3>3
    <3> QED
      BY <3>2, <3>3
  <2> QED
    BY <2>9, <2>10
<1> HIDE DEF G
<1>3. list \in G
  BY <1>1, <1>2, SequenceInduction
<1> QED
  BY <1>3 DEF G

\* As many ones as there are places.
LEMMA TotalOnes == ASSUME NEW n \in Nat PROVE Total([i \in 1 .. n |-> 1]) = n
<1> DEFINE s == [i \in 1 .. n |-> 1]
           h == [i \in 0 .. n |-> i]
<1>1. s \in [1 .. n -> Int] /\ h \in [0 .. n -> Int] /\ Sums(h, s, n) /\ h[n] = n
  BY DEF Sums
<1> HIDE DEF s, h
<1>2. Total(s) = n
  BY <1>1, SumsUnique
<1> QED
  BY <1>2 DEF s

\* How many elements are kept.
LEMMA WhereLen ==
    ASSUME NEW S, NEW T, NEW list \in Seq(S)
    PROVE  Len(Where(list, T)) = Total([i \in DOMAIN list |-> IF list[i] \in T THEN 1 ELSE 0])
<1> DEFINE f == [e \in S |-> 1]
           w == Where(list, T)
<1>1. f \in [S -> Int]
  OBVIOUS
<1>2. w \in Seq(S)
  <2>1. w \in Seq(S \cap T)
    BY WhereType
  <2> QED
    BY <2>1, SeqMonotonic
<1>3. Len(w) \in Nat /\ DOMAIN w = 1 .. Len(w) /\ \A j \in DOMAIN w : w[j] \in S
  BY <1>2, LenProperties, ElementOfSeq
<1>4. DOMAIN list = 1 .. Len(list) /\ \A j \in DOMAIN list : list[j] \in S
  BY LenProperties, ElementOfSeq
<1> HIDE DEF w
<1>5. [j \in DOMAIN w |-> f[w[j]]] = [j \in 1 .. Len(w) |-> 1]
  BY <1>3
<1>6. [i \in DOMAIN list |-> IF list[i] \in T THEN f[list[i]] ELSE 0]
        = [i \in DOMAIN list |-> IF list[i] \in T THEN 1 ELSE 0]
  BY <1>4
<1>7. Total(Images(f, w)) = Total(ImagesIn(f, list, T))
  <2> HIDE DEF f
  <2> QED
    BY <1>1, WhereTotal DEF w
<1>8. Total([j \in 1 .. Len(w) |-> 1]) = Len(w)
  BY <1>3, TotalOnes
<1> QED
  BY <1>5, <1>6, <1>7, <1>8 DEF w, Images, ImagesIn
---------------------------------------------------------------------------
(* The ascending order. *)

\* A row of numbers has a largest.
LEMMA LargestIn ==
    ASSUME NEW n \in Nat \ {0}, NEW s \in [1 .. n -> Int]
    PROVE  \E m \in 1 .. n : \A i \in 1 .. n : s[i] <= s[m]
<1> DEFINE Good == {k \in Nat : k + 1 <= n => \E m \in 1 .. k + 1 : \A i \in 1 .. k + 1 : s[i] <= s[m]}
<1>1. 0 \in Good
  OBVIOUS
<1>2. ASSUME NEW k \in Nat, k \in Good PROVE k + 1 \in Good
  <2>1. SUFFICES ASSUME k + 1 + 1 <= n
                 PROVE  \E m \in 1 .. k + 1 + 1 : \A i \in 1 .. k + 1 + 1 : s[i] <= s[m]
    OBVIOUS
  <2>2. PICK m \in 1 .. k + 1 : \A i \in 1 .. k + 1 : s[i] <= s[m]
    BY <1>2, <2>1
  <2>3. k + 1 + 1 \in 1 .. n /\ m \in 1 .. n /\ s[m] \in Int /\ s[k + 1 + 1] \in Int
        /\ \A i \in 1 .. k + 1 : s[i] \in Int
    BY <2>1
  <2>4. CASE s[k + 1 + 1] <= s[m]
    <3>1. \A i \in 1 .. k + 1 + 1 : s[i] <= s[m]
      BY <2>2, <2>3, <2>4
    <3> QED
      BY <3>1
  <2>5. CASE ~ (s[k + 1 + 1] <= s[m])
    <3>1. \A i \in 1 .. k + 1 + 1 : s[i] <= s[k + 1 + 1]
      BY <2>2, <2>3, <2>5
    <3> QED
      BY <3>1
  <2> QED
    BY <2>4, <2>5
<1> HIDE DEF Good
<1>3. \A k \in Nat : k \in Good
  BY <1>1, <1>2, Induction
<1>4. n - 1 \in Nat /\ n - 1 + 1 = n
  OBVIOUS
<1>5. n - 1 \in Good
  BY <1>3, <1>4
<1> QED
  BY <1>4, <1>5 DEF Good

\* An order of the places of a row in which its numbers ascend.
Sorts(p, s, n) ==
    /\ p \in Bijection(1 .. n, 1 .. n)
    /\ \A i, j \in 1 .. n : i < j => s[p[i]] <= s[p[j]]

\* Every row has such an order.
LEMMA SortsExists == ASSUME NEW n \in Nat, NEW s \in [1 .. n -> Int] PROVE \E p : Sorts(p, s, n)
<1> DEFINE Good == {k \in Nat : \A t \in [1 .. k -> Int] : \E p : Sorts(p, t, k)}
<1>1. 0 \in Good
  <2>1. ASSUME NEW t \in [1 .. 0 -> Int] PROVE Sorts(<<>>, t, 0)
    BY DEF Sorts, Bijection, Injection, Surjection, IsInjective
  <2> QED
    BY <2>1
<1>2. ASSUME NEW k \in Nat, k \in Good PROVE k + 1 \in Good
  <2>1. ASSUME NEW t \in [1 .. k + 1 -> Int] PROVE \E p : Sorts(p, t, k + 1)
    <3> DEFINE l == k + 1
    <3>1. l \in Nat \ {0} /\ l = k + 1 /\ t \in [1 .. l -> Int] /\ l \in 1 .. l
          /\ \A i \in 1 .. l : i \in Int /\ (i <= k => i \in 1 .. k) /\ (~ (i <= k) => i = l)
      OBVIOUS
    <3>0. \A i \in 1 .. k : i \in 1 .. l /\ i # l
      OBVIOUS
    <3> HIDE DEF l
    <3>2. PICK m \in 1 .. l : \A i \in 1 .. l : t[i] <= t[m]
      BY <3>1, LargestIn
    <3> DEFINE q == [i \in 1 .. k |-> IF i = m THEN l ELSE i]
               u == [i \in 1 .. k |-> t[q[i]]]
    <3>3. /\ \A i \in 1 .. k : q[i] \in 1 .. l /\ q[i] # m
          /\ \A i, j \in 1 .. k : q[i] = q[j] => i = j
          /\ \A i \in 1 .. l : i # m => \E j \in 1 .. k : q[j] = i
      <4>1. \A i \in 1 .. k : q[i] = IF i = m THEN l ELSE i
        OBVIOUS
      <4>2. ASSUME NEW i \in 1 .. l, i # m PROVE \E j \in 1 .. k : q[j] = i
        <5>1. CASE i = l
          <6>1. m \in 1 .. k
            BY <3>1, <4>2, <5>1
          <6> QED
            BY <4>1, <5>1, <6>1
        <5>2. CASE i # l
          <6>1. i \in 1 .. k
            BY <3>1, <5>2
          <6> QED
            BY <4>1, <4>2, <6>1
        <5> QED
          BY <5>1, <5>2
      <4>3. \A i \in 1 .. k : q[i] \in 1 .. l /\ q[i] # m
        BY <3>0, <3>1, <4>1
      <4>4. \A i, j \in 1 .. k : q[i] = q[j] => i = j
        BY <3>0, <4>1
      <4> QED
        BY <4>2, <4>3, <4>4
    <3> HIDE DEF q
    <3>4. u \in [1 .. k -> Int]
      BY <3>1, <3>3
    <3>5. \A i \in 1 .. k : u[i] = t[q[i]]
      OBVIOUS
    <3> HIDE DEF u
    <3>6. PICK p : Sorts(p, u, k)
      BY <1>2, <3>4
    <3>7. /\ p \in [1 .. k -> 1 .. k]
          /\ \A i, j \in 1 .. k : p[i] = p[j] => i = j
          /\ \A i \in 1 .. k : \E j \in 1 .. k : p[j] = i
          /\ \A i, j \in 1 .. k : i < j => u[p[i]] <= u[p[j]]
      BY <3>6 DEF Sorts, Bijection, Injection, Surjection, IsInjective
    <3> DEFINE r == [i \in 1 .. l |-> IF i = l THEN m ELSE q[p[i]]]
    <3>8. r[l] = m /\ \A i \in 1 .. k : r[i] = q[p[i]] /\ r[i] \in 1 .. l /\ r[i] # m
      BY <3>0, <3>1, <3>3, <3>7
    <3>9. r \in [1 .. l -> 1 .. l]
      BY <3>1, <3>3, <3>7
    <3> HIDE DEF r
    <3>10. \A i, j \in 1 .. l : r[i] = r[j] => i = j
      <4>1. ASSUME NEW i \in 1 .. l, NEW j \in 1 .. l, r[i] = r[j] PROVE i = j
        <5>1. CASE i = l \/ j = l
          BY <3>1, <3>8, <4>1, <5>1
        <5>2. CASE i # l /\ j # l
          <6>1. i \in 1 .. k /\ j \in 1 .. k
            BY <3>1, <5>2
          <6>2. q[p[i]] = q[p[j]] /\ p[i] \in 1 .. k /\ p[j] \in 1 .. k
            BY <3>7, <3>8, <4>1, <6>1
          <6> QED
            BY <3>3, <3>7, <6>1, <6>2
        <5> QED
          BY <5>1, <5>2
      <4> QED
        BY <4>1
    <3>11. \A i \in 1 .. l : \E j \in 1 .. l : r[j] = i
      <4>1. ASSUME NEW i \in 1 .. l, i # m PROVE \E j \in 1 .. l : r[j] = i
        <5>1. PICK j \in 1 .. k : q[j] = i
          BY <3>3, <4>1
        <5>2. PICK h \in 1 .. k : p[h] = j
          BY <3>7
        <5>3. r[h] = i /\ h \in 1 .. l
          BY <3>0, <3>8, <5>1, <5>2
        <5> QED
          BY <5>3
      <4> QED
        BY <3>1, <3>8, <4>1
    <3>12. \A i, j \in 1 .. l : i < j => t[r[i]] <= t[r[j]]
      <4>1. ASSUME NEW i \in 1 .. l, NEW j \in 1 .. l, i < j PROVE t[r[i]] <= t[r[j]]
        <5>1. i \in 1 .. k /\ r[i] \in 1 .. l
          BY <3>1, <3>9, <4>1
        <5>2. CASE j = l
          BY <3>2, <3>8, <5>1, <5>2
        <5>3. CASE j # l
          <6>1. j \in 1 .. k
            BY <3>1, <5>3
          <6>2. u[p[i]] <= u[p[j]] /\ p[i] \in 1 .. k /\ p[j] \in 1 .. k
            BY <3>7, <4>1, <5>1, <6>1
          <6>3. u[p[i]] = t[r[i]] /\ u[p[j]] = t[r[j]]
            BY <3>5, <3>8, <5>1, <6>1, <6>2
          <6> QED
            BY <6>2, <6>3
        <5> QED
          BY <5>2, <5>3
      <4> QED
        BY <4>1
    <3>13. Sorts(r, t, l)
      BY <3>9, <3>10, <3>11, <3>12 DEF Sorts, Bijection, Injection, Surjection, IsInjective
    <3> QED
      BY <3>13 DEF l
  <2> QED
    BY <2>1
<1>3. n \in Good
  <2> HIDE DEF Good
  <2> QED
    BY <1>1, <1>2, Induction
<1> QED
  BY <1>3

\* What a list in ascending order is.
LEMMA AscendingIs ==
    ASSUME NEW s \in Seq(Int)
    PROVE  \E p : /\ Sorts(p, s, Len(s))
                  /\ Len(Ascending(s)) = Len(s)
                  /\ \A i \in 1 .. Len(s) : Ascending(s)[i] = s[p[i]]
<1> DEFINE n == Len(s)
           P == CHOOSE p \in Bijection(1 .. n, 1 .. n) : \A i, j \in 1 .. n : i < j => s[p[i]] <= s[p[j]]
<1>1. n \in Nat /\ DOMAIN s = 1 .. n /\ s \in [1 .. n -> Int]
  OBVIOUS
<1>2. Sorts(P, s, n)
  <2>1. \E p : Sorts(p, s, n)
    <3> HIDE DEF n
    <3> QED
      BY <1>1, SortsExists
  <2> QED
    BY <2>1 DEF Sorts
<1>3. Ascending(s) = [i \in 1 .. n |-> s[P[i]]]
  BY <1>1 DEF Ascending
<1> HIDE DEF P
<1>4. Len(Ascending(s)) = n /\ \A i \in 1 .. n : Ascending(s)[i] = s[P[i]]
  BY <1>1, <1>3
<1> QED
  BY <1>2, <1>4

\* Numbers in ascending order ascend.
LEMMA AscendingMono ==
    ASSUME NEW s \in Seq(Int), NEW i \in 1 .. Len(s), NEW j \in 1 .. Len(s), i <= j
    PROVE  Ascending(s)[i] \in Int /\ Ascending(s)[j] \in Int /\ Ascending(s)[i] <= Ascending(s)[j]
<1>1. PICK p : /\ Sorts(p, s, Len(s))
               /\ Len(Ascending(s)) = Len(s)
               /\ \A k \in 1 .. Len(s) : Ascending(s)[k] = s[p[k]]
  BY AscendingIs
<1>2. p \in [1 .. Len(s) -> 1 .. Len(s)]
  BY <1>1 DEF Sorts, Bijection, Injection
<1>3. s[p[i]] \in Int /\ s[p[j]] \in Int
  BY <1>2, ElementOfSeq
<1>4. i < j => s[p[i]] <= s[p[j]]
  BY <1>1 DEF Sorts
<1> QED
  BY <1>1, <1>3, <1>4

\* How many numbers of a list are at most its kth in ascending order, and how
\* many are at most a smaller number.
LEMMA RankIs ==
    ASSUME NEW s \in Seq(Int), NEW k \in 1 .. Len(s)
    PROVE  LET v == Ascending(s)[k]
           IN  /\ \E i \in DOMAIN s : s[i] = v
               /\ v \in Int
               /\ Cardinality({i \in DOMAIN s : s[i] <= v}) \in Nat
               /\ Cardinality({i \in DOMAIN s : s[i] <= v}) >= k
               /\ \A w \in Int : w < v =>
                     /\ Cardinality({i \in DOMAIN s : s[i] <= w}) \in Nat
                     /\ Cardinality({i \in DOMAIN s : s[i] <= w}) < k
<1> DEFINE n == Len(s)
           v == Ascending(s)[k]
           AtMost(x) == {i \in DOMAIN s : s[i] <= x}
<1>1. n \in Nat /\ DOMAIN s = 1 .. n /\ k \in 1 .. n /\ k \in Int /\ \A i \in 1 .. n : s[i] \in Int
  OBVIOUS
<1>2. PICK p : Sorts(p, s, n) /\ \A i \in 1 .. n : Ascending(s)[i] = s[p[i]]
  BY AscendingIs
<1>3. /\ p \in [1 .. n -> 1 .. n]
      /\ \A i, j \in 1 .. n : p[i] = p[j] => i = j
      /\ \A i \in 1 .. n : \E j \in 1 .. n : p[j] = i
      /\ \A i, j \in 1 .. n : i < j => s[p[i]] <= s[p[j]]
  BY <1>2 DEF Sorts, Bijection, Injection, Surjection, IsInjective
<1>4. p[k] \in DOMAIN s /\ s[p[k]] = v /\ v \in Int
  BY <1>1, <1>2, <1>3
<1> HIDE DEF v, n
<1>5. \A x : AtMost(x) \subseteq 1 .. n /\ IsFiniteSet(AtMost(x)) /\ Cardinality(AtMost(x)) \in Nat
  <2>1. IsFiniteSet(1 .. n)
    BY <1>1, FS_Interval
  <2> TAKE x
  <2>2. AtMost(x) \subseteq 1 .. n
    BY <1>1
  <2> HIDE DEF AtMost
  <2> QED
    BY <2>1, <2>2, FS_Subset, FS_CardinalityType
<1>6. Cardinality(AtMost(v)) >= k
  <2> DEFINE f == [i \in 1 .. k |-> p[i]]
  <2>1. \A i \in 1 .. k : i \in 1 .. n /\ (i < k \/ i = k)
    BY <1>1
  <2>2. \A i \in 1 .. k : p[i] \in AtMost(v)
    <3> TAKE i \in 1 .. k
    <3>1. p[i] \in 1 .. n /\ i \in 1 .. n
      BY <1>3, <2>1
    <3>2. s[p[i]] <= v
      <4>1. CASE i < k
        BY <1>1, <1>3, <1>4, <3>1, <4>1
      <4>2. CASE i = k
        BY <1>4, <4>2
      <4> QED
        BY <2>1, <4>1, <4>2
    <3> QED
      BY <1>1, <3>1, <3>2
  <2>3. f \in Injection(1 .. k, AtMost(v))
    <3> HIDE DEF AtMost
    <3> QED
      BY <1>3, <2>1, <2>2 DEF Injection, IsInjective
  <2> HIDE DEF f, AtMost
  <2>4. Cardinality(1 .. k) <= Cardinality(AtMost(v))
    BY <1>5, <2>3, FS_Injection
  <2>5. Cardinality(1 .. k) = k
    BY <1>1, FS_Interval
  <2> QED
    BY <1>1, <1>5, <2>4, <2>5
<1>7. ASSUME NEW w \in Int, w < v PROVE Cardinality(AtMost(w)) < k
  <2> DEFINE B == {p[i] : i \in 1 .. k - 1}
             f == [i \in 1 .. k - 1 |-> p[i]]
  <2>1. AtMost(w) \subseteq B
    <3>1. ASSUME NEW i \in AtMost(w) PROVE i \in B
      <4>1. i \in 1 .. n /\ s[i] <= w
        BY <1>1
      <4>2. PICK j \in 1 .. n : p[j] = i
        BY <1>3, <4>1
      <4>3. j < k
        <5>1. CASE j = k
          BY <1>1, <1>4, <1>7, <4>1, <4>2, <5>1
        <5>2. CASE k < j
          <6>1. s[p[k]] <= s[p[j]]
            BY <1>1, <1>3, <5>2
          <6> QED
            BY <1>1, <1>4, <1>7, <4>1, <4>2, <6>1
        <5> QED
          BY <1>1, <5>1, <5>2
      <4>4. j \in 1 .. k - 1
        BY <1>1, <4>3
      <4> QED
        BY <4>2, <4>4
    <3> QED
      BY <3>1
  <2>2. f \in Surjection(1 .. k - 1, B)
    BY DEF Surjection
  <2> HIDE DEF f, B, AtMost
  <2>3. IsFiniteSet(1 .. k - 1) /\ Cardinality(1 .. k - 1) = k - 1
    <3> DEFINE m == k - 1
    <3>1. m \in Nat /\ 1 \in Int
      BY <1>1
    <3> HIDE DEF m
    <3>2. IsFiniteSet(1 .. m) /\ Cardinality(1 .. m) = IF 1 > m THEN 0 ELSE m - 1 + 1
      BY <3>1, FS_Interval
    <3>3. Cardinality(1 .. m) = m
      BY <3>1, <3>2
    <3> QED
      BY <3>2, <3>3 DEF m
  <2>4. IsFiniteSet(B) /\ Cardinality(B) <= k - 1
    BY <2>2, <2>3, FS_Surjection
  <2>5. Cardinality(AtMost(w)) <= Cardinality(B)
    BY <2>1, <2>4, FS_Subset
  <2>6. Cardinality(B) \in Nat
    BY <2>4, FS_CardinalityType
  <2> QED
    BY <1>1, <1>5, <2>4, <2>5, <2>6
<1> QED
  BY <1>4, <1>5, <1>6, <1>7 DEF v
---------------------------------------------------------------------------
(* Parts of a list, in numbers. *)

\* A row of images.
LEMMA ImagesAre ==
    ASSUME NEW S, NEW list \in Seq(S), NEW f \in [S -> Int]
    PROVE  /\ Images(f, list) \in [1 .. Len(list) -> Int] /\ Images(f, list) \in Seq(Int)
           /\ Len(Images(f, list)) = Len(list) /\ DOMAIN list = 1 .. Len(list) /\ Len(list) \in Nat
           /\ \A i \in 1 .. Len(list) : list[i] \in S /\ Images(f, list)[i] = f[list[i]]
           /\ Total(Images(f, list)) \in Int
<1>1. Len(list) \in Nat /\ DOMAIN list = 1 .. Len(list) /\ \A i \in 1 .. Len(list) : list[i] \in S
  BY LenProperties, ElementOfSeq
<1>2. Images(f, list) \in [1 .. Len(list) -> Int]
      /\ \A i \in 1 .. Len(list) : Images(f, list)[i] = f[list[i]]
  BY <1>1 DEF Images
<1> QED
  BY <1>1, <1>2, FunctionIsSeq, TotalType

\* What is kept of a history is one.
LEMMA KeptIsOf ==
    ASSUME NEW S, NEW list \in Seq(S), NEW T
    PROVE  Where(list, T) \in Seq(S)
<1>1. Where(list, T) \in Seq(S \cap T)
  BY WhereType
<1>2. S \cap T \subseteq S
  OBVIOUS
<1> QED
  BY <1>1, <1>2, SeqMonotonic

\* The numbers of the elements of a list at some places, zero at the others.
Chosen(f, list, P) == [i \in 1 .. Len(list) |-> IF i \in P THEN f[list[i]] ELSE 0]

\* The sum over the events that are kept is that of their numbers at their places.
LEMMA TotalOfKept ==
    ASSUME NEW S, NEW list \in Seq(S), NEW f \in [S -> Int], NEW T, NEW P,
           \A i \in 1 .. Len(list) : list[i] \in T <=> i \in P
    PROVE  Total(Images(f, Where(list, T))) = Total(Chosen(f, list, P))
<1>1. DOMAIN list = 1 .. Len(list)
  BY LenProperties
<1>2. ImagesIn(f, list, T) = Chosen(f, list, P)
  BY <1>1 DEF ImagesIn, Chosen
<1> QED
  BY <1>2, WhereTotal

\* Two rows of numbers that add up to no more than a third, place by place.
LEMMA TotalParts ==
    ASSUME NEW n \in Nat, NEW x \in [1 .. n -> Int], NEW y \in [1 .. n -> Int],
           NEW all \in [1 .. n -> Int], \A i \in 1 .. n : x[i] + y[i] <= all[i]
    PROVE  Total(x) + Total(y) <= Total(all)
<1> DEFINE both == [i \in 1 .. n |-> x[i] + y[i]]
<1>1. both \in [1 .. n -> Int] /\ \A i \in 1 .. n : both[i] = x[i] + y[i]
  OBVIOUS
<1>2. \A i \in 1 .. n : both[i] <= all[i]
  BY <1>1
<1> HIDE DEF both
<1>3. Total(both) = Total(x) + Total(y)
  BY <1>1, TotalAdd
<1>4. Total(both) <= Total(all)
  BY <1>1, <1>2, TotalMono
<1> QED
  BY <1>3, <1>4

\* The numbers of the elements of a part, zero at the places of the others.
LEMMA PartIs ==
    ASSUME NEW S, NEW list \in Seq(S), NEW f \in [S -> Nat], NEW T
    PROVE  /\ ImagesIn(f, list, T) \in [1 .. Len(list) -> Nat]
           /\ ImagesIn(f, list, T) \in [1 .. Len(list) -> Int] /\ Len(list) \in Nat
           /\ \A i \in 1 .. Len(list) :
                 /\ f[list[i]] \in Nat
                 /\ ImagesIn(f, list, T)[i] = IF list[i] \in T THEN f[list[i]] ELSE 0
           /\ Total(Images(f, Where(list, T))) = Total(ImagesIn(f, list, T))
           /\ Total(Images(f, Where(list, T))) \in Int
<1>1. Len(list) \in Nat /\ DOMAIN list = 1 .. Len(list) /\ \A i \in 1 .. Len(list) : list[i] \in S
  BY LenProperties, ElementOfSeq
<1>2. /\ ImagesIn(f, list, T) \in [1 .. Len(list) -> Nat]
      /\ ImagesIn(f, list, T) \in [1 .. Len(list) -> Int]
      /\ \A i \in 1 .. Len(list) :
            /\ f[list[i]] \in Nat
            /\ ImagesIn(f, list, T)[i] = IF list[i] \in T THEN f[list[i]] ELSE 0
  BY <1>1 DEF ImagesIn
<1>3. f \in [S -> Int]
  OBVIOUS
<1>4. Total(Images(f, Where(list, T))) = Total(ImagesIn(f, list, T))
  BY <1>3, WhereTotal
<1> QED
  BY <1>1, <1>2, <1>4, TotalType

\* A part of a part is no more than it.
LEMMA PartOfPart ==
    ASSUME NEW S, NEW list \in Seq(S), NEW f \in [S -> Nat], NEW T, NEW U,
           \A i \in 1 .. Len(list) : list[i] \in T => list[i] \in U
    PROVE  Total(Images(f, Where(list, T))) <= Total(Images(f, Where(list, U)))
<1> DEFINE x == ImagesIn(f, list, T)
           y == ImagesIn(f, list, U)
           n == Len(list)
<1>1. /\ x \in [1 .. n -> Int] /\ n \in Nat
      /\ \A i \in 1 .. n : f[list[i]] \in Nat /\ x[i] = IF list[i] \in T THEN f[list[i]] ELSE 0
      /\ Total(Images(f, Where(list, T))) = Total(x)
  BY PartIs
<1>2. /\ y \in [1 .. n -> Int]
      /\ \A i \in 1 .. n : y[i] = IF list[i] \in U THEN f[list[i]] ELSE 0
      /\ Total(Images(f, Where(list, U))) = Total(y)
  BY PartIs
<1>3. \A i \in 1 .. n : list[i] \in T => list[i] \in U
  OBVIOUS
<1> HIDE DEF x, y, n
<1>4. \A i \in 1 .. n : x[i] <= y[i]
  <2> TAKE i \in 1 .. n
  <2>1. f[list[i]] \in Nat /\ (list[i] \in T => list[i] \in U)
    BY <1>1, <1>3
  <2>2. x[i] = (IF list[i] \in T THEN f[list[i]] ELSE 0) /\ y[i] = IF list[i] \in U THEN f[list[i]] ELSE 0
    BY <1>1, <1>2
  <2> QED
    BY <2>1, <2>2
<1>5. Total(x) <= Total(y)
  BY <1>1, <1>2, <1>4, TotalMono
<1> QED
  BY <1>1, <1>2, <1>5

\* Three parts of a list with every element in one of them make up the whole.
LEMMA ThreeParts ==
    ASSUME NEW S, NEW list \in Seq(S), NEW f \in [S -> Nat], NEW T, NEW U, NEW V,
           \A i \in 1 .. Len(list) :
              /\ list[i] \in T \/ list[i] \in U \/ list[i] \in V
              /\ ~(list[i] \in T /\ list[i] \in U)
              /\ ~(list[i] \in T /\ list[i] \in V)
              /\ ~(list[i] \in U /\ list[i] \in V)
    PROVE  Total(Images(f, Where(list, T))) + Total(Images(f, Where(list, U)))
             + Total(Images(f, Where(list, V))) = Total(Images(f, list))
<1> DEFINE x == ImagesIn(f, list, T)
           y == ImagesIn(f, list, U)
           z == ImagesIn(f, list, V)
           n == Len(list)
           all == Images(f, list)
           both == [i \in 1 .. n |-> x[i] + y[i]]
<1>1. /\ x \in [1 .. n -> Int] /\ n \in Nat
      /\ \A i \in 1 .. n : f[list[i]] \in Nat /\ x[i] = IF list[i] \in T THEN f[list[i]] ELSE 0
      /\ Total(Images(f, Where(list, T))) = Total(x)
  BY PartIs
<1>2. /\ y \in [1 .. n -> Int]
      /\ \A i \in 1 .. n : y[i] = IF list[i] \in U THEN f[list[i]] ELSE 0
      /\ Total(Images(f, Where(list, U))) = Total(y)
  BY PartIs
<1>3. /\ z \in [1 .. n -> Int]
      /\ \A i \in 1 .. n : z[i] = IF list[i] \in V THEN f[list[i]] ELSE 0
      /\ Total(Images(f, Where(list, V))) = Total(z)
  BY PartIs
<1>4. all \in [1 .. n -> Int] /\ \A i \in 1 .. n : all[i] = f[list[i]]
  <2>1. f \in [S -> Int]
    OBVIOUS
  <2> QED
    BY <2>1, ImagesAre
<1>5. \A i \in 1 .. n :
         /\ list[i] \in T \/ list[i] \in U \/ list[i] \in V
         /\ ~(list[i] \in T /\ list[i] \in U)
         /\ ~(list[i] \in T /\ list[i] \in V)
         /\ ~(list[i] \in U /\ list[i] \in V)
  OBVIOUS
<1> HIDE DEF x, y, z, n, all
<1>6. both \in [1 .. n -> Int] /\ \A i \in 1 .. n : both[i] = x[i] + y[i]
  BY <1>1, <1>2
<1> HIDE DEF both
<1>7. \A i \in 1 .. n : all[i] = both[i] + z[i]
  <2> TAKE i \in 1 .. n
  <2>1. f[list[i]] \in Nat /\ x[i] = IF list[i] \in T THEN f[list[i]] ELSE 0
    BY <1>1
  <2>2. y[i] = IF list[i] \in U THEN f[list[i]] ELSE 0
    BY <1>2
  <2>3. z[i] = IF list[i] \in V THEN f[list[i]] ELSE 0
    BY <1>3
  <2>4. all[i] = f[list[i]] /\ both[i] = x[i] + y[i]
    BY <1>4, <1>6
  <2> QED
    BY <1>5, <2>1, <2>2, <2>3, <2>4
<1>8. Total(both) = Total(x) + Total(y)
  <2>1. n \in Nat /\ x \in [1 .. n -> Int] /\ y \in [1 .. n -> Int] /\ both \in [1 .. n -> Int]
    BY <1>1, <1>2, <1>6
  <2>2. \A i \in 1 .. n : both[i] = x[i] + y[i]
    BY <1>6
  <2> QED
    BY <2>1, <2>2, TotalAdd
<1>9. Total(all) = Total(both) + Total(z)
  <2>1. n \in Nat /\ both \in [1 .. n -> Int] /\ z \in [1 .. n -> Int] /\ all \in [1 .. n -> Int]
    BY <1>1, <1>3, <1>4, <1>6
  <2> QED
    BY <1>7, <2>1, TotalAdd
<1> QED
  BY <1>1, <1>2, <1>3, <1>8, <1>9 DEF all

\* What is left out of a list counts nothing when it is worth nothing.
LEMMA AllInPart ==
    ASSUME NEW S, NEW list \in Seq(S), NEW f \in [S -> Nat], NEW T,
           \A i \in 1 .. Len(list) : list[i] \notin T => f[list[i]] = 0
    PROVE  Total(Images(f, Where(list, T))) = Total(Images(f, list))
<1>1. f \in [S -> Int] /\ DOMAIN list = 1 .. Len(list)
  BY LenProperties
<1>2. ImagesIn(f, list, T) = Images(f, list)
  BY <1>1 DEF ImagesIn, Images
<1>3. Total(Images(f, Where(list, T))) = Total(ImagesIn(f, list, T))
  BY <1>1, WhereTotal
<1> QED
  BY <1>2, <1>3
=============================================================================
