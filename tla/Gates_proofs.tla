----------------------------- MODULE Gates_proofs -----------------------------
(* Lemmas about gates, which the proofs of every package that has them use:   *)
(* what the first check that refuses decides, and the induction behind it.    *)
EXTENDS Gates, FiniteSets, TLAPS, WellFoundedInduction, FiniteSetTheorems

\* A set of naturals that is not empty has a least member (the well-foundedness of
\* <): the induction the other lemmas need.
LEMMA LeastNatural ==
    ASSUME NEW T, T \subseteq Nat, T # {}
    PROVE  \E x \in T : \A y \in T : x <= y
<1>1. PICK x \in T : \A y \in T : ~(<<y, x>> \in OpToRel(<, Nat))
    BY NatLessThanWellFounded, WFMin
<1>2. \A y \in T : x <= y
    <2> TAKE y \in T
    <2>1. x \in Nat /\ y \in Nat OBVIOUS
    <2>2. ~(y < x) BY <1>1, <2>1 DEF OpToRel
    <2> QED BY <2>1, <2>2
<1> QED BY <1>2

\* A set any two members of which are the same has at most one.
LEMMA AtMostOneMember ==
    ASSUME NEW S, \A x, y \in S : x = y
    PROVE  Cardinality(S) <= 1
<1>1. CASE S = {} BY <1>1, FS_EmptySet
<1>2. CASE S # {}
    <2>1. PICK x \in S : TRUE BY <1>2
    <2>2. S = {x} BY <2>1
    <2> QED BY <2>2, FS_Singleton
<1> QED BY <1>1, <1>2

\* Induction over the numbers up to N, for a set of those that have the property.
LEMMA UptoInduction ==
    ASSUME NEW N \in Nat, NEW S, 0 \in S, \A k \in 0..(N - 1) : k \in S => k + 1 \in S
    PROVE  \A k \in 0..N : k \in S
<1> DEFINE bad == {k \in 0..N : k \notin S}
<1> SUFFICES ASSUME bad # {} PROVE FALSE OBVIOUS
<1>1. PICK n \in bad : \A m \in bad : n <= m
    <2>1. bad \subseteq Nat OBVIOUS
    <2> HIDE DEF bad
    <2> QED BY <2>1, LeastNatural
<1>2. n \in 0..N /\ n # 0 /\ n \notin S BY <1>1
<1>3. n - 1 \in 0..(N - 1) /\ ~(n <= n - 1) /\ (n - 1) + 1 = n /\ n - 1 \in 0..N BY <1>2
<1>4. n - 1 \in S BY <1>1, <1>3
<1> QED BY <1>2, <1>3, <1>4

\* A loop of N turns, each a function of its number and of the value the turn before
\* it left, has a course.
LEMMA LoopRuns ==
    ASSUME NEW V, NEW a \in V, NEW N \in Nat, NEW F \in [1..N -> [V -> V]]
    PROVE  \E f \in [0..N -> V] : f[0] = a /\ \A k \in 1..N : f[k] = F[k][f[k - 1]]
<1> DEFINE Upto(f, n) == /\ f \in [0..N -> V] /\ f[0] = a
                         /\ \A k \in 1..n : f[k] = F[k][f[k - 1]]
           S == {n \in 0..N : \E f : Upto(f, n)}
<1>1. 0 \in S
    <2> DEFINE z == [k \in 0..N |-> a]
    <2>1. z \in [0..N -> V] /\ z[0] = a OBVIOUS
    <2> HIDE DEF z
    <2>2. Upto(z, 0) BY <2>1
    <2> QED BY <2>2
<1>2. ASSUME NEW n \in 0..(N - 1), n \in S PROVE n + 1 \in S
    <2>1. PICK f : Upto(f, n) BY <1>2
    <2>2. n + 1 \in 1..N /\ n + 1 \in 0..N /\ n \in 0..N OBVIOUS
    <2> DEFINE g == [f EXCEPT ![n + 1] = F[n + 1][f[n]]]
    <2>3. f \in [0..N -> V] /\ f[0] = a /\ \A k \in 1..n : f[k] = F[k][f[k - 1]] BY <2>1
    <2>4. f[n] \in V BY <2>2, <2>3
    <2>5. F[n + 1] \in [V -> V] BY <2>2
    <2>6. F[n + 1][f[n]] \in V BY <2>4, <2>5
    <2>7. g \in [0..N -> V] BY <2>2, <2>3, <2>6
    <2>8. \A k \in 0..N : g[k] = IF k = n + 1 THEN F[n + 1][f[n]] ELSE f[k] BY <2>3
    <2> HIDE DEF g
    <2>9. g[0] = a BY <2>3, <2>8
    <2>10. ASSUME NEW k \in 1..(n + 1) PROVE g[k] = F[k][g[k - 1]]
        <3>1. k \in 0..N /\ k - 1 \in 0..N /\ k - 1 # n + 1 BY <2>2
        <3>2. g[k - 1] = f[k - 1] BY <2>8, <3>1
        <3>3. CASE k = n + 1 BY <2>8, <3>1, <3>2, <3>3
        <3>4. CASE k # n + 1
            <4>1. k \in 1..n BY <3>4
            <4> QED BY <2>3, <2>8, <3>1, <3>2, <3>4, <4>1
        <3> QED BY <3>3, <3>4
    <2>11. Upto(g, n + 1) BY <2>7, <2>9, <2>10
    <2> QED BY <2>2, <2>11
<1>3. N \in S
    <2> HIDE DEF S
    <2>1. \A k \in 0..N : k \in S BY <1>1, <1>2, UptoInduction
    <2> QED BY <2>1
<1>4. PICK f : Upto(f, N) BY <1>3
<1> QED BY <1>4

\* A gate is decided by the first of its checks that refuses, or by none.
LEMMA GateDecides ==
    ASSUME NEW checks, NEW o, NEW n \in Nat, Len(checks) = n
    PROVE  \/ FirstRefusal(checks, o) = o /\ \A j \in 1..n : ~checks[j][1]
           \/ \E i \in 1..n : /\ checks[i][1] /\ FirstRefusal(checks, o) = checks[i][2]
                             /\ \A j \in 1..n : checks[j][1] => i <= j
<1> DEFINE failed == {i \in 1..n : checks[i][1]}
<1>1. CASE failed = {} BY <1>1 DEF FirstRefusal
<1>2. CASE failed # {}
    <2>1. \E x \in failed : \A y \in failed : x <= y
        <3>1. failed \subseteq Nat OBVIOUS
        <3> HIDE DEF failed
        <3> QED BY <1>2, <3>1, LeastNatural
    <2> DEFINE first == CHOOSE i \in failed : \A j \in failed : i <= j
    <2>2. first \in failed /\ \A j \in failed : first <= j
        <3> HIDE DEF failed
        <3> QED BY <2>1
    <2>3. FirstRefusal(checks, o) = checks[first][2] BY <1>2 DEF FirstRefusal
    <2> HIDE DEF first
    <2> QED BY <2>2, <2>3
<1> QED BY <1>1, <1>2

\* A gate that gave its last word refused nothing: none of its checks failed.
LEMMA NoRefusal ==
    ASSUME NEW checks, NEW o, NEW n \in Nat, Len(checks) = n, FirstRefusal(checks, o) = o,
           \A i \in 1..n : checks[i][2] # o
    PROVE  \A i \in 1..n : ~checks[i][1]
<1> DEFINE failed == {i \in 1..n : checks[i][1]}
<1>1. SUFFICES ASSUME failed # {} PROVE FALSE OBVIOUS
<1>2. \E x \in failed : \A y \in failed : x <= y
    <2>1. failed \subseteq Nat OBVIOUS
    <2> HIDE DEF failed
    <2> QED BY <2>1, <1>1, LeastNatural
<1>3. FirstRefusal(checks, o) = checks[CHOOSE i \in failed : \A j \in failed : i <= j][2]
    BY <1>1 DEF FirstRefusal
<1>4. (CHOOSE i \in failed : \A j \in failed : i <= j) \in failed
    <2> HIDE DEF failed
    <2> QED BY <1>2
<1> QED BY <1>3, <1>4

\* A gate answers with one of its verdicts.
LEMMA RefusalRange ==
    ASSUME NEW checks, NEW o, NEW V, Len(checks) \in Nat, o \in V,
           \A i \in 1..Len(checks) : checks[i][1] => checks[i][2] \in V
    PROVE  FirstRefusal(checks, o) \in V
<1> DEFINE failed == {i \in 1..Len(checks) : checks[i][1]}
<1>1. CASE failed = {} BY <1>1 DEF FirstRefusal
<1>2. CASE failed # {}
    <2>1. \E x \in failed : \A y \in failed : x <= y
        <3>1. failed \subseteq Nat OBVIOUS
        <3> HIDE DEF failed
        <3> QED BY <1>2, <3>1, LeastNatural
    <2>2. (CHOOSE i \in failed : \A j \in failed : i <= j) \in failed
        <3> HIDE DEF failed
        <3> QED BY <2>1
    <2> QED BY <1>2, <2>2 DEF FirstRefusal
<1> QED BY <1>1, <1>2

\* A gate of two checks.
LEMMA TwoChecks ==
    ASSUME NEW a, NEW b, NEW v, NEW w, NEW o
    PROVE  FirstRefusal(<< <<a, v>>, <<b, w>> >>, o) = IF a THEN v ELSE IF b THEN w ELSE o
<1> DEFINE checks == << <<a, v>>, <<b, w>> >>
<1>1. Len(checks) = 2 /\ checks[1][1] = a /\ checks[1][2] = v /\ checks[2][1] = b /\ checks[2][2] = w OBVIOUS
<1> HIDE DEF checks
<1>2. \/ FirstRefusal(checks, o) = o /\ \A j \in 1..2 : ~checks[j][1]
      \/ \E i \in 1..2 : /\ checks[i][1] /\ FirstRefusal(checks, o) = checks[i][2]
                         /\ \A j \in 1..2 : checks[j][1] => i <= j
    BY <1>1, GateDecides
<1>3. FirstRefusal(checks, o) = IF a THEN v ELSE IF b THEN w ELSE o BY <1>1, <1>2
<1> QED BY <1>3 DEF checks

\* A gate of three checks.
LEMMA ThreeChecks ==
    ASSUME NEW a, NEW b, NEW c, NEW v, NEW w, NEW x, NEW o
    PROVE  FirstRefusal(<< <<a, v>>, <<b, w>>, <<c, x>> >>, o) = IF a THEN v ELSE IF b THEN w ELSE IF c THEN x ELSE o
<1> DEFINE checks == << <<a, v>>, <<b, w>>, <<c, x>> >>
<1>1. /\ Len(checks) = 3 /\ checks[1][1] = a /\ checks[1][2] = v /\ checks[2][1] = b /\ checks[2][2] = w
      /\ checks[3][1] = c /\ checks[3][2] = x
    OBVIOUS
<1> HIDE DEF checks
<1>2. \/ FirstRefusal(checks, o) = o /\ \A j \in 1..3 : ~checks[j][1]
      \/ \E i \in 1..3 : /\ checks[i][1] /\ FirstRefusal(checks, o) = checks[i][2]
                         /\ \A j \in 1..3 : checks[j][1] => i <= j
    BY <1>1, GateDecides
<1>3. FirstRefusal(checks, o) = IF a THEN v ELSE IF b THEN w ELSE IF c THEN x ELSE o BY <1>1, <1>2
<1> QED BY <1>3 DEF checks
===============================================================================
