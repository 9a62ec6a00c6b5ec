------------------------------ MODULE Recursion ------------------------------
(***************************************************************************)
(* Loops written as functions: f[0] is the state before the loop, f[i] the *)
(* state after its i-th step. The step is a parameter of this module, so a *)
(* module that reasons about a loop instantiates it and cites Exists.      *)
(***************************************************************************)
EXTENDS Integers, WellFoundedInduction, TLAPS

CONSTANT Step(_, _, _)   \* the data looped over, the index, the state before

(* f holds the states of a loop of n steps.                                 *)
Loop(f, data, start, n) ==
  /\ f[0] = start
  /\ \A i \in 1 .. n : f[i] = Step(data, i, f[i - 1])

(* A set of numbers has a least one.                                        *)
LEMMA Least ==
  ASSUME NEW T \in SUBSET Nat, T # {}
  PROVE  \E x \in T : \A y \in T : ~(y < x)
<1>1. \E x \in T : \A y \in T : ~(<<y, x>> \in OpToRel(<, Nat))
  BY WFMin, NatLessThanWellFounded
<1> QED
  BY <1>1, Zenon DEF OpToRel

(* Induction up to n: a set that has 0, and with i - 1 has i.               *)
LEMMA Induct ==
  ASSUME NEW n \in Nat, NEW S, 0 \in S, \A i \in 1 .. n : i - 1 \in S => i \in S
  PROVE  \A i \in 0 .. n : i \in S
<1> DEFINE T == {i \in 0 .. n : i \notin S}
<1> SUFFICES ASSUME T # {} PROVE FALSE
  OBVIOUS
<1>1. PICK x \in T : \A y \in T : ~(y < x)
  <2>1. T \in SUBSET Nat
    OBVIOUS
  <2> HIDE DEF T
  <2> QED
    BY <2>1, Least
<1>2. x \in 1 .. n /\ x \notin S
  OBVIOUS
<1>3. x - 1 \in 0 .. n /\ x - 1 < x
  BY <1>2
<1>4. x - 1 \in S
  BY <1>1, <1>3
<1> QED
  BY <1>2, <1>4

(* The states of a loop of n steps exist, whatever a step does.             *)
LEMMA Exists ==
  ASSUME NEW data, NEW start, NEW n \in Nat
  PROVE  \E f : Loop(f, data, start, n)
<1> DEFINE S == {k \in 0 .. n : \E f : Loop(f, data, start, k)}
<1>1. 0 \in S
  <2> DEFINE f == [i \in 0 .. 0 |-> start]
  <2>1. f[0] = start /\ \A i \in 1 .. 0 : FALSE
    OBVIOUS
  <2> HIDE DEF f
  <2>2. \E h : Loop(h, data, start, 0)
    BY <2>1 DEF Loop
  <2> QED
    BY <2>2
<1>2. ASSUME NEW k \in 1 .. n, k - 1 \in S PROVE k \in S
  <2>1. PICK f : Loop(f, data, start, k - 1)
    BY <1>2
  <2> DEFINE g == [i \in 0 .. k |-> IF i = k THEN Step(data, k, f[k - 1]) ELSE f[i]]
  <2>2. g[0] = start
    BY <2>1 DEF Loop
  <2>3. ASSUME NEW i \in 1 .. k PROVE g[i] = Step(data, i, g[i - 1])
    <3>1. i - 1 \in 0 .. k /\ i - 1 # k /\ g[i - 1] = f[i - 1]
      OBVIOUS
    <3>2. CASE i = k
      BY <3>1, <3>2
    <3>3. CASE i # k
      <4>1. g[i] = f[i] /\ i \in 1 .. k - 1
        BY <3>3
      <4> HIDE DEF g
      <4> QED
        BY <2>1, <3>1, <4>1 DEF Loop
    <3> QED
      BY <3>2, <3>3
  <2> HIDE DEF g
  <2>4. \E h : Loop(h, data, start, k)
    BY <2>2, <2>3 DEF Loop
  <2> QED
    BY <2>4
<1> HIDE DEF S
<1>3. n \in S
  <2>1. \A i \in 0 .. n : i \in S
    BY <1>1, <1>2, Induct
  <2> QED
    BY <2>1
<1> QED
  BY <1>3 DEF S

(* The recursive function that is such a loop.                             *)
Recursive(f, data, start, n) ==
  f = [i \in 0 .. n |-> IF i = 0 THEN start ELSE Step(data, i, f[i - 1])]

(* A function that is chosen to be recursive is one: it holds the loop's states.*)
LEMMA Defined ==
  ASSUME NEW data, NEW start, NEW n \in Nat
  PROVE  Loop(CHOOSE f : Recursive(f, data, start, n), data, start, n)
<1> DEFINE loop == CHOOSE f : Recursive(f, data, start, n)
<1>1. \E f : Recursive(f, data, start, n)
  <2>1. PICK h : Loop(h, data, start, n)
    BY Exists
  <2> DEFINE f == [i \in 0 .. n |-> h[i]]
  <2>2. ASSUME NEW i \in 0 .. n
        PROVE  f[i] = IF i = 0 THEN start ELSE Step(data, i, f[i - 1])
    <3>1. i # 0 => i - 1 \in 0 .. n /\ i \in 1 .. n
      OBVIOUS
    <3> QED
      BY <2>1, <3>1 DEF Loop
  <2>3. f = [i \in 0 .. n |-> f[i]]
    OBVIOUS
  <2> HIDE DEF f
  <2>4. Recursive(f, data, start, n)
    BY <2>2, <2>3 DEF Recursive
  <2> QED
    BY <2>4
<1>2. Recursive(loop, data, start, n)
  BY <1>1
<1> HIDE DEF loop
<1>3. Loop(loop, data, start, n)
  BY <1>2 DEF Recursive, Loop
<1> QED
  BY <1>3 DEF loop
=============================================================================
