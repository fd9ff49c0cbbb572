------------------------------ MODULE Iteration ------------------------------
(***************************************************************************)
(* Loops: induction on the natural numbers stated for a set instead of a   *)
(* predicate, and the function that a loop computes, state by state. The   *)
(* proofs about handlers that go through a list cite these lemmas.         *)
(***************************************************************************)
EXTENDS Integers, Sequences, TLAPS
LOCAL INSTANCE WellFoundedInduction
LOCAL INSTANCE SequenceTheorems

(* A set that holds zero, and with each number the next, holds them all.   *)
LEMMA SetInduction ==
  ASSUME NEW P, 0 \in P, \A n \in Nat : n \in P => n + 1 \in P
  PROVE  Nat \subseteq P
<1> SUFFICES ASSUME Nat \ P # {} PROVE FALSE
  OBVIOUS
<1> DEFINE less == OpToRel(<, Nat)
<1>1. IsWellFoundedOn(less, Nat)
  BY NatLessThanWellFounded
<1>2. \A x, y \in Nat : x < y => <<x, y>> \in less
  BY DEF OpToRel
<1> HIDE DEF less
<1>3. PICK x \in Nat \ P : \A y \in Nat \ P : <<y, x>> \notin less
  BY <1>1, WFMin
<1>4. x - 1 \in Nat /\ x - 1 < x
  BY <1>3
<1>5. x - 1 \in P
  BY <1>2, <1>3, <1>4
<1> QED
  BY <1>3, <1>4, <1>5

(* The loop over 1 .. N whose n-th turn is the function g[n].              *)
IsIteration(f, a, g, N) == f[0] = a /\ \A n \in 1 .. N : f[n] = g[n][f[n - 1]]

(* Such a loop runs: the function of its states exists.                    *)
LEMMA Iterates ==
  ASSUME NEW S, NEW a \in S, NEW N \in Nat, NEW g \in [1 .. N -> [S -> S]]
  PROVE  \E f \in [0 .. N -> S] : IsIteration(f, a, g, N)
<1> DEFINE Runs(n) == \E f \in [0 .. n -> S] : IsIteration(f, a, g, n)
           P == {n \in Nat : n <= N => Runs(n)}
<1>1. 0 \in P
  <2>1. [i \in 0 .. 0 |-> a] \in [0 .. 0 -> S]
    OBVIOUS
  <2>2. IsIteration([i \in 0 .. 0 |-> a], a, g, 0)
    BY DEF IsIteration
  <2> QED
    BY <2>1, <2>2
<1>2. ASSUME NEW n \in Nat, n \in P PROVE n + 1 \in P
  <2> SUFFICES ASSUME n + 1 <= N PROVE Runs(n + 1)
    OBVIOUS
  <2>1. PICK f \in [0 .. n -> S] : IsIteration(f, a, g, n)
    BY <1>2
  <2> DEFINE h == [i \in 0 .. n + 1 |-> IF i <= n THEN f[i] ELSE g[n + 1][f[n]]]
  <2>2. f[n] \in S /\ g[n + 1] \in [S -> S]
    OBVIOUS
  <2>3. h \in [0 .. n + 1 -> S]
    BY <2>2
  <2>4. \A i \in 0 .. n : h[i] = f[i]
    OBVIOUS
  <2>5. h[n + 1] = g[n + 1][h[n]]
    BY <2>4
  <2> HIDE DEF h
  <2>6. IsIteration(h, a, g, n + 1)
    <3>1. h[0] = a
      BY <2>1, <2>4 DEF IsIteration
    <3>2. ASSUME NEW i \in 1 .. n PROVE h[i] = g[i][h[i - 1]]
      BY <2>1, <2>4 DEF IsIteration
    <3> QED
      BY <2>5, <3>1, <3>2 DEF IsIteration
  <2> QED
    BY <2>3, <2>6
<1> HIDE DEF P
<1>3. N \in P
  BY <1>1, <1>2, SetInduction
<1> QED
  BY <1>3 DEF P

(* What holds before a loop, and is kept by each turn, holds all along:    *)
(* of each state something that may depend on the turn...                  *)
LEMMA TurnByTurn ==
  ASSUME NEW f, NEW N \in Nat, NEW I, f[0] \in I[0],
         \A n \in 1 .. N : f[n - 1] \in I[n - 1] => f[n] \in I[n]
  PROVE  \A n \in 0 .. N : f[n] \in I[n]
<1> DEFINE P == {n \in Nat : n <= N => f[n] \in I[n]}
<1>1. 0 \in P
  OBVIOUS
<1>2. ASSUME NEW n \in Nat, n \in P PROVE n + 1 \in P
  <2> SUFFICES ASSUME n + 1 <= N PROVE f[n + 1] \in I[n + 1]
    OBVIOUS
  <2>1. n + 1 \in 1 .. N /\ (n + 1) - 1 = n
    OBVIOUS
  <2>2. f[n] \in I[n]
    BY <1>2
  <2> QED
    BY <2>1, <2>2
<1> HIDE DEF P
<1>3. Nat \subseteq P
  BY <1>1, <1>2, SetInduction
<1> QED
  BY <1>3 DEF P

(* ... or the same of them all.                                            *)
LEMMA LoopInvariant ==
  ASSUME NEW f, NEW N \in Nat, NEW I, f[0] \in I,
         \A n \in 1 .. N : f[n - 1] \in I => f[n] \in I
  PROVE  \A n \in 0 .. N : f[n] \in I
<1> DEFINE J == [n \in 0 .. N |-> I]
<1>1. \A n \in 0 .. N : J[n] = I
  OBVIOUS
<1>2. \A n \in 1 .. N : n \in 0 .. N /\ n - 1 \in 0 .. N
  OBVIOUS
<1> HIDE DEF J
<1>3. f[0] \in J[0] /\ \A n \in 1 .. N : f[n - 1] \in J[n - 1] => f[n] \in J[n]
  BY <1>1, <1>2
<1>4. \A n \in 0 .. N : f[n] \in J[n]
  BY <1>3, TurnByTurn
<1> QED
  BY <1>1, <1>4

(* A function on 1 .. N is a sequence of length N.                         *)
LEMMA FunctionIsSeq ==
  ASSUME NEW S, NEW N \in Nat, NEW f \in [1 .. N -> S]
  PROVE  f \in Seq(S) /\ Len(f) = N
<1>1. f \in Seq(S)
  BY SeqDef
<1> QED
  BY <1>1
=============================================================================
