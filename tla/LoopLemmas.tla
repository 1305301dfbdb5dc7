------------------------------ MODULE LoopLemmas ------------------------------
(* What the proofs about loops rest on: a set of numbers has a least one, so that the first    *)
(* round after which a claim fails can be looked at; and what a loop computes is defined.      *)
EXTENDS Naturals, FiniteSetTheorems, TLAPS

\* A set of numbers has a least one.
LEMMA LeastNumber == ASSUME NEW S \in SUBSET Nat, S # {} PROVE \E i \in S : \A j \in S : i <= j
    <1> DEFINE T == {0..i : i \in S}
    <1>1. T \subseteq FiniteSubsetsOf(Nat)
        <2> SUFFICES ASSUME NEW i \in S PROVE 0..i \in FiniteSubsetsOf(Nat) OBVIOUS
        <2>1. IsFiniteSet(0..i) BY FS_Interval
        <2>2. 0..i \subseteq Nat OBVIOUS
        <2> QED BY <2>1, <2>2 DEF FiniteSubsetsOf
    <1>2. T # {} OBVIOUS
    <1>3. PICK U \in T : \A V \in T : <<V, U>> \notin StrictSubsetOrdering(Nat)
        <2> HIDE DEF T
        <2> QED BY <1>1, <1>2, FS_StrictSubsetOrderingWellFounded, WFMin
    <1>4. PICK i \in S : U = 0..i BY <1>3
    <1>5. ASSUME NEW j \in S, j < i PROVE FALSE
        <2>1. 0..j \subseteq 0..i /\ i \in 0..i /\ i \notin 0..j BY <1>5
        <2>2. 0..j \in SUBSET Nat /\ 0..i \in SUBSET Nat OBVIOUS
        <2>3. <<0..j, 0..i>> \in StrictSubsetOrdering(Nat) BY <2>1, <2>2 DEF StrictSubsetOrdering
        <2>4. 0..j \in T OBVIOUS
        <2> QED BY <1>3, <1>4, <2>3, <2>4
    <1> QED BY <1>5

\* What holds in the beginning, and after a round if it held before it, holds after every round.
LEMMA Climb ==
    ASSUME NEW n \in Nat, NEW S, 0 \in S, \A i \in 1..n : i - 1 \in S => i \in S
    PROVE  \A i \in 0..n : i \in S
    <1> DEFINE Bad == {i \in 0..n : i \notin S}
    <1> SUFFICES ASSUME Bad # {} PROVE FALSE OBVIOUS
    <1>1. PICK i \in Bad : \A j \in Bad : i <= j
        <2>1. Bad \in SUBSET Nat OBVIOUS
        <2> HIDE DEF Bad
        <2> QED BY <2>1, LeastNumber
    <1>2. i \in 0..n /\ i \notin S /\ i # 0 BY <1>1
    <1>3. i \in 1..n /\ i - 1 \in 0..n /\ ~(i <= i - 1) BY <1>2
    <1> QED BY <1>1, <1>2, <1>3

\* What a loop leaves after each of n elements: it begins with x0, and step[i] is what it does with the i-th.
LoopOf(f, X, x0, n, step) ==
    f \in [0..n -> X] /\ f[0] = x0 /\ \A i \in 1..n : f[i] = step[i][f[i - 1]]

\* What a loop computes from one element after another is defined.
LEMMA LoopDefined ==
    ASSUME NEW X, NEW x0 \in X, NEW n \in Nat, NEW step \in [1..n -> [X -> X]]
    PROVE  \E f : LoopOf(f, X, x0, n, step)
    <1> DEFINE Loops(f, k) == f[0] = x0 /\ \A i \in 1..k : f[i] = step[i][f[i - 1]]
               Bad == {k \in 0..n : \A f \in [0..k -> X] : ~Loops(f, k)}
    <1>1. Bad = {}
        <2> SUFFICES ASSUME Bad # {} PROVE FALSE OBVIOUS
        <2>1. PICK k \in Bad : \A j \in Bad : k <= j
            <3>1. Bad \in SUBSET Nat OBVIOUS
            <3> HIDE DEF Bad
            <3> QED BY <3>1, LeastNumber
        <2>2. k \in 0..n /\ \A f \in [0..k -> X] : ~Loops(f, k) BY <2>1
        <2>3. CASE k = 0
            <3> DEFINE f == [i \in 0..0 |-> x0]
            <3>1. f \in [0..0 -> X] /\ Loops(f, 0) OBVIOUS
            <3> QED BY <2>2, <2>3, <3>1
        <2>4. CASE k # 0
            <3>1. k - 1 \in 0..n /\ k - 1 \notin Bad
                <4>1. k - 1 \in 0..n /\ ~(k <= k - 1) BY <2>2, <2>4
                <4> HIDE DEF Bad
                <4> QED BY <2>1, <4>1
            <3>2. PICK g \in [0..(k - 1) -> X] : Loops(g, k - 1)
                <4> HIDE DEF Loops
                <4> QED BY <3>1
            <3> DEFINE f == [i \in 0..k |-> IF i = k THEN step[k][g[k - 1]] ELSE g[i]]
            <3>3. g[k - 1] \in X /\ step[k] \in [X -> X] BY <2>2, <2>4
            <3>4. f \in [0..k -> X] BY <2>2, <3>3
            <3>5. f[k] = step[k][g[k - 1]] /\ \A i \in 0..(k - 1) : f[i] = g[i] BY <2>2
            <3> HIDE DEF f
            <3>6. f[0] = x0 BY <2>2, <2>4, <3>2, <3>5
            <3>7. ASSUME NEW i \in 1..k PROVE f[i] = step[i][f[i - 1]]
                <4>1. f[i - 1] = g[i - 1] BY <2>2, <3>5, <3>7
                <4>2. CASE i = k BY <3>5, <4>1, <4>2
                <4>3. CASE i # k
                    <5>1. i \in 1..(k - 1) /\ i \in 0..(k - 1) BY <2>2, <3>7, <4>3
                    <5> QED BY <3>2, <3>5, <4>1, <5>1
                <4> QED BY <4>2, <4>3
            <3>8. Loops(f, k) BY <3>6, <3>7
            <3> HIDE DEF Loops
            <3> QED BY <2>2, <3>4, <3>8
        <2> QED BY <2>3, <2>4
    <1>2. n \in 0..n OBVIOUS
    <1>3. PICK f \in [0..n -> X] : Loops(f, n)
        <2> HIDE DEF Loops
        <2> QED BY <1>1, <1>2
    <1> QED BY <1>3 DEF LoopOf
================================================================================
