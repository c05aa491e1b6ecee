---------------------------- MODULE DataInduction ----------------------------
(***************************************************************************)
(* Induction for proofs about what a loop or a recursive function of the   *)
(* models computes.  The induction theorems of the library are about       *)
(* operators; these are about sets, and follow from the library's theorem  *)
(* on minimal elements.                                                    *)
(***************************************************************************)
EXTENDS Integers, Sequences, TLAPS, WellFoundedInduction, SequenceTheorems

\* Every set of numbers that has an element has a least one.
LEMMA LeastNumber ==
  ASSUME NEW T \in SUBSET Nat, T # {}
  PROVE  \E m \in T : \A k \in T : m <= k
<1> DEFINE R == {ss \in Nat \X Nat : ss[1] < ss[2]}
<1>1. IsWellFoundedOn(R, Nat)
  BY NatLessThanWellFounded DEF OpToRel
<1> HIDE DEF R
<1>2. PICK m \in T : \A y \in T : <<y, m>> \notin R
  BY <1>1, WFMin
<1>3. \A y \in T : ~(y < m)
  BY <1>2 DEF R
<1> QED
  BY <1>3

\* A set that has 0, and of each of its numbers the next, has all numbers.
LEMMA SetInduction ==
  ASSUME NEW G, 0 \in G, \A n \in Nat : n \in G => n + 1 \in G
  PROVE  Nat \subseteq G
<1> SUFFICES ASSUME ~(Nat \subseteq G)
             PROVE  FALSE
  OBVIOUS
<1>1. PICK m \in Nat \ G : \A k \in Nat \ G : m <= k
  <2>1. Nat \ G \in SUBSET Nat /\ Nat \ G # {}
    OBVIOUS
  <2> QED
    BY <2>1, LeastNumber
<1>2. m - 1 \in Nat /\ m - 1 \in G
  BY <1>1
<1> QED
  BY <1>2

\* A path that gets another name.
LEMMA AppendFacts ==
  ASSUME NEW path \in Seq(STRING), NEW name \in STRING
  PROVE  /\ Append(path, name) \in Seq(STRING)
         /\ Len(path) \in Nat /\ Len(Append(path, name)) = Len(path) + 1
         /\ \A i \in 1..Len(path) : Append(path, name)[i] = path[i]
         /\ Append(path, name)[Len(path) + 1] = name
<1>1. ASSUME NEW S, NEW seq \in Seq(S), NEW e \in S
      PROVE  /\ Append(seq, e) \in Seq(S)
             /\ Len(seq) \in Nat /\ Len(Append(seq, e)) = Len(seq) + 1
             /\ \A i \in 1..Len(seq) : Append(seq, e)[i] = seq[i]
             /\ Append(seq, e)[Len(seq) + 1] = e
  <2>1. Len(seq) \in Nat
    OBVIOUS
  <2> QED
    BY <2>1, AppendProperties
<1> QED
  BY <1>1

LEMMA SingletonSeq ==
  ASSUME NEW S, NEW e \in S
  PROVE  <<e>> \in Seq(S)
OBVIOUS
=============================================================================
