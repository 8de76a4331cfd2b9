------------------------------- MODULE Lists -------------------------------
(***************************************************************************)
(* What the program does with the elements of a list one after the other:  *)
(* add them up, share them out, keep some of them, order them.             *)
(***************************************************************************)
EXTENDS Integers, Sequences, Functions

\* The sum of a sequence of numbers.
Total(s) ==
    LET sum[n \in 0 .. Len(s)] == IF n = 0 THEN 0 ELSE sum[n - 1] + s[n]
    IN  sum[Len(s)]

\* The sums of the numbers of each of n classes; number i is of class[i], or is
\* left out if that is 0.
Shared(s, class, n) ==
    LET sums[m \in 0 .. Len(s)] ==
            IF m = 0 THEN [k \in 1 .. n |-> 0]
            ELSE IF class[m] = 0 THEN sums[m - 1]
            ELSE [sums[m - 1] EXCEPT ![class[m]] = @ + s[m]]
    IN  sums[Len(s)]

\* The elements of a sequence that are in S, in their order.
Where(s, S) ==
    LET kept[n \in 0 .. Len(s)] ==
            IF n = 0 THEN <<>>
            ELSE IF s[n] \in S THEN Append(kept[n - 1], s[n]) ELSE kept[n - 1]
    IN  kept[Len(s)]

\* The numbers of a sequence in ascending order.
Ascending(s) ==
    LET places == DOMAIN s
        order == CHOOSE p \in Bijection(places, places) :
                    \A i, j \in places : i < j => s[p[i]] <= s[p[j]]
    IN  [i \in places |-> s[order[i]]]
=============================================================================
