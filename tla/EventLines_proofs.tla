-------------------------- MODULE EventLines_proofs --------------------------
(***************************************************************************)
(* What the operators of EventLines return, for every text of events.jsonl:*)
(* the lemmas behind the proofs about the queue and about what drains it.  *)
(***************************************************************************)
EXTENDS EventLines, SequenceTheorems, WellFoundedInduction, TLAPS

(***************************************************************************)
(* A non-empty set of positions of a sequence has a largest element.       *)
(***************************************************************************)
LEMMA LargestIndex ==
    ASSUME NEW n \in Nat, NEW T \in SUBSET (1..n), T # {}
    PROVE  \E i \in T : \A j \in T : j <= i
<1> DEFINE D == {n - i : i \in T}
<1>1. D \subseteq Nat /\ D # {}
    <2>1. \A i \in T : i \in 1..n /\ n - i \in Nat
        OBVIOUS
    <2> QED BY <2>1
<1> DEFINE R == OpToRel(<, Nat)
<1>2. IsWellFoundedOn(R, Nat)
    BY NatLessThanWellFounded
<1> HIDE DEF D
<1>3. PICK x \in D : \A y \in D : ~ (<<y, x>> \in R)
    <2> HIDE DEF R
    <2> QED BY <1>1, <1>2, WFMin, Zenon
<1>4. \A y \in D : ~ (y < x)
    BY <1>1, <1>3 DEF OpToRel
<1> USE DEF D
<1>5. PICK i \in T : x = n - i
    BY <1>3
<1>6. \A j \in T : j <= i
    BY <1>4, <1>5
<1> QED BY <1>6

(***************************************************************************)
(* Coalescing loses no request: every line of a batch has a kept line with *)
(* its key at or after its own place.                                      *)
(***************************************************************************)
LEMMA LatestCovers ==
    ASSUME NEW S, NEW lines \in Seq(S), NEW i \in DOMAIN lines
    PROVE  \E j \in Latest(lines) : j >= i /\ lines[j].key = lines[i].key
<1> DEFINE T == {j \in DOMAIN lines : j >= i /\ lines[j].key = lines[i].key}
<1>1. Len(lines) \in Nat /\ T \in SUBSET (1..Len(lines)) /\ i \in T
    OBVIOUS
<1>2. PICK m \in T : \A j \in T : j <= m
    BY <1>1, LargestIndex
<1>3. m \in Latest(lines)
    BY <1>2 DEF Latest
<1> QED BY <1>2, <1>3

(***************************************************************************)
(* What a delete leaves of the file: the lines behind the batch, in order. *)
(***************************************************************************)
LEMMA RemainingIsSuffix ==
    ASSUME NEW S, NEW current \in Seq(S), NEW read \in Seq(S)
    PROVE  /\ Remaining(current, read) \in Seq(S)
           /\ \A i \in DOMAIN current : i > Len(read) =>
                 \E j \in DOMAIN Remaining(current, read) :
                     Remaining(current, read)[j] = current[i]
<1> DEFINE m == Len(read) + 1
           n == Len(current)
<1>1. m \in Int /\ n \in Int /\ m >= 1 /\ \A i \in m..n : current[i] \in S
    OBVIOUS
<1>2. /\ SubSeq(current, m, n) \in Seq(S)
      /\ Len(SubSeq(current, m, n)) = IF m <= n THEN n - m + 1 ELSE 0
      /\ \A i \in 1 .. n - m + 1 : SubSeq(current, m, n)[i] = current[m + i - 1]
    BY <1>1, SubSeqProperties
<1>3. ASSUME NEW i \in DOMAIN current, i > Len(read)
      PROVE  \E j \in DOMAIN SubSeq(current, m, n) : SubSeq(current, m, n)[j] = current[i]
    <2> DEFINE j == i - Len(read)
    <2>1. j \in 1 .. n - m + 1 /\ m + j - 1 = i
        BY <1>3
    <2>2. j \in DOMAIN SubSeq(current, m, n)
        BY <1>2, <2>1
    <2> QED BY <1>2, <2>1, <2>2
<1> QED BY <1>2, <1>3 DEF Remaining

\* Place by place: the lines a file starts with; line j of what remains is line j + Len(read) of the file.
LEMMA StartsWithByPlace ==
    ASSUME NEW S, NEW current \in Seq(S), NEW read \in Seq(S), StartsWith(current, read)
    PROVE  \A j \in DOMAIN read : j \in DOMAIN current /\ read[j] = current[j]
<1>1. /\ Len(read) <= Len(current) /\ Len(read) \in Nat /\ Len(current) \in Nat
      /\ DOMAIN read = 1..Len(read) /\ DOMAIN current = 1..Len(current)
    BY DEF StartsWith
<1>2. \A j \in 1..Len(read) : j \in 1..Len(current)
    BY <1>1
<1> QED BY <1>1, <1>2 DEF StartsWith

LEMMA RemainingByPlace ==
    ASSUME NEW S, NEW current \in Seq(S), NEW read \in Seq(S), Len(read) <= Len(current)
    PROVE  /\ Remaining(current, read) \in Seq(S)
           /\ Len(Remaining(current, read)) + Len(read) = Len(current)
           /\ \A j \in DOMAIN Remaining(current, read) :
                 /\ j + Len(read) \in DOMAIN current
                 /\ Remaining(current, read)[j] = current[j + Len(read)]
<1> DEFINE m == Len(read) + 1
           n == Len(current)
           left == SubSeq(current, m, n)
<1>1. m \in Int /\ n \in Int /\ m >= 1 /\ \A i \in m..n : current[i] \in S
    OBVIOUS
<1>2. /\ left \in Seq(S) /\ Len(left) = IF m <= n THEN n - m + 1 ELSE 0
      /\ \A i \in 1 .. n - m + 1 : left[i] = current[m + i - 1]
    BY <1>1, SubSeqProperties
<1> HIDE DEF left
<1>3. Len(left) = n - Len(read)
    BY <1>1, <1>2
<1>4. ASSUME NEW j \in DOMAIN left
      PROVE  j + Len(read) \in DOMAIN current /\ left[j] = current[j + Len(read)]
    <2>1. j \in 1 .. n - m + 1
        BY <1>2, <1>3
    <2>2. m + j - 1 = j + Len(read) /\ j + Len(read) \in 1..n
        BY <2>1
    <2>3. j + Len(read) \in DOMAIN current
        BY <2>2
    <2>4. left[j] = current[m + j - 1]
        BY <1>2, <2>1
    <2> QED BY <2>2, <2>3, <2>4
<1>5. Remaining(current, read) = left
    BY DEF Remaining, left
<1> QED BY <1>2, <1>3, <1>4, <1>5
=============================================================================
