----------------------------- MODULE NumberLemmas -----------------------------
(***************************************************************************)
(* Facts about numbers that the proofs of this project share.  The provers  *)
(* are given no principle of induction; what they are given instead is that *)
(* a set of numbers which is not empty has a least one.                     *)
(***************************************************************************)
EXTENDS Integers, Sequences, WellFoundedInduction, TLAPS

\* A set of numbers has a least one.
LEMMA Least ==
  ASSUME NEW S \in SUBSET Nat, S # {}
  PROVE  \E x \in S : \A y \in S : x <= y
<1> DEFINE less == {ss \in Nat \X Nat : ss[1] < ss[2]}
<1>1. OpToRel(<, Nat) = less
  BY Zenon DEF OpToRel
<1>2. PICK x \in S : \A y \in S : ~ (<<y, x>> \in less)
  <2> HIDE DEF less
  <2>1. IsWellFoundedOn(less, Nat)
    BY <1>1, NatLessThanWellFounded
  <2> QED BY <2>1, WFMin
<1>3. ASSUME NEW y \in S PROVE x <= y
  <2>1. ~ (<<y, x>> \in less)
    BY <1>2
  <2>2. y \in Nat /\ x \in Nat /\ ~(y < x)
    BY <2>1
  <2> QED BY <2>2
<1> QED BY <1>3

\* Induction, for a set of numbers.
LEMMA Reached ==
  ASSUME NEW n \in Nat, NEW S, 0 \in S, \A i \in 0..(n - 1) : i \in S => i + 1 \in S
  PROVE  \A i \in 0..n : i \in S
<1> DEFINE out == {i \in 0..n : i \notin S}
<1>1. ASSUME out # {} PROVE FALSE
  <2>1. out \in SUBSET Nat
    OBVIOUS
  <2>2. PICK x \in out : \A y \in out : x <= y
    BY <1>1, <2>1, Least
  <2>3. x # 0 /\ x - 1 \in 0..(n - 1)
    BY <2>2
  <2>4. x - 1 \in S
    BY <2>2, <2>3
  <2>5. (x - 1) + 1 \in S
    BY <2>3, <2>4
  <2> QED BY <2>2, <2>5
<1> QED BY <1>1

\* A function on the first positions is as long as it has positions.
LEMMA Long ==
  ASSUME NEW n \in Nat, NEW S, NEW f \in [1..n -> S]
  PROVE  Len(f) = n
<1>1. f \in Seq(S)
  OBVIOUS
<1> QED BY <1>1

\* step says how the value at i comes from the value at i - 1
Stepping(n, D, step) == step \in [(1..n) \X D -> D]

\* A function may be defined on 0..n by its value at 0 and by how each value
\* comes from the one before.
LEMMA Recursion ==
  ASSUME NEW n \in Nat, NEW D, NEW base \in D, NEW step, Stepping(n, D, step)
  PROVE  \E f \in [0..n -> D] :
           /\ f[0] = base
           /\ \A i \in 1..n : f[i] = step[<<i, f[i - 1]>>]
<1> DEFINE Good(k) == \E f \in [0..k -> D] :
             f = [i \in 0..k |-> IF i = 0 THEN base ELSE step[<<i, f[i - 1]>>]]
           S == {k \in 0..n : Good(k)}
<1>1. 0 \in S
  <2>1. [i \in 0..0 |-> base] = [i \in 0..0 |->
          IF i = 0 THEN base ELSE step[<<i, [j \in 0..0 |-> base][i - 1]>>]]
    OBVIOUS
  <2>2. [i \in 0..0 |-> base] \in [0..0 -> D]
    OBVIOUS
  <2>3. Good(0)
    BY <2>1, <2>2
  <2> QED BY <2>3
<1>2. ASSUME NEW k \in 0..(n - 1), k \in S PROVE k + 1 \in S
  <2>1. PICK f \in [0..k -> D] :
          f = [i \in 0..k |-> IF i = 0 THEN base ELSE step[<<i, f[i - 1]>>]]
    BY <1>2
  <2> DEFINE g == [i \in 0..(k + 1) |-> IF i = k + 1 THEN step[<<k + 1, f[k]>>] ELSE f[i]]
             G == [i \in 0..(k + 1) |-> IF i = 0 THEN base ELSE step[<<i, g[i - 1]>>]]
  <2>2. ASSUME NEW i \in 0..(k + 1) PROVE g[i] = G[i] /\ g[i] \in D
    <3> USE DEF Stepping
    <3>1. CASE i = k + 1
      <4>1. i - 1 = k /\ i # 0 /\ k # k + 1 /\ k \in 0..(k + 1) /\ k \in 0..k
        BY <3>1
      <4>2. g[i - 1] = f[k] /\ f[k] \in D
        BY <4>1
      <4>3. <<k + 1, f[k]>> \in (1..n) \X D
        BY <4>2
      <4>4. g[i] = step[<<k + 1, f[k]>>] /\ step[<<k + 1, f[k]>>] \in D
        BY <3>1, <4>3
      <4> QED BY <3>1, <4>1, <4>2, <4>4
    <3>2. CASE i = 0
      <4>1. g[i] = f[0] /\ f[0] = base
        BY <2>1, <3>2
      <4> QED BY <3>2, <4>1
    <3>3. CASE i # k + 1 /\ i # 0
      <4>1. i \in 0..k /\ i - 1 \in 0..k /\ i - 1 # k + 1 /\ i - 1 \in 0..(k + 1)
        BY <3>3
      <4>2. g[i] = f[i] /\ g[i - 1] = f[i - 1] /\ f[i] \in D
        BY <3>3, <4>1
      <4>3. f[i] = step[<<i, f[i - 1]>>]
        BY <2>1, <3>3, <4>1
      <4> QED BY <3>3, <4>2, <4>3
    <3> QED BY <3>1, <3>2, <3>3
  <2>3. g = G /\ g \in [0..(k + 1) -> D]
    BY <2>2
  <2>4. Good(k + 1)
    BY <2>3
  <2>5. k + 1 \in 0..n
    OBVIOUS
  <2> HIDE DEF Good
  <2> QED BY <2>4, <2>5
<1> HIDE DEF S
<1>3. n \in S
  BY <1>1, <1>2, Reached
<1>4. PICK f \in [0..n -> D] :
        f = [i \in 0..n |-> IF i = 0 THEN base ELSE step[<<i, f[i - 1]>>]]
  BY <1>3 DEF S
<1>5. f[0] = base /\ \A i \in 1..n : f[i] = step[<<i, f[i - 1]>>]
  BY <1>4
<1> QED BY <1>5
===============================================================================
