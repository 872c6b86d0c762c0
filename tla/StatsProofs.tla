---------------------------- MODULE StatsProofs ----------------------------
(***************************************************************************)
(* StatsAddUp of Statsd, for any statistics, any packets of other programs *)
(* and any number of packets.  Least numbers stand for induction, where no *)
(* theorem of induction can be used; on them rest the sums of Functions.   *)
(***************************************************************************)
EXTENDS Statsd, SequenceTheorems, FiniteSetTheorems, WellFoundedInduction, TLAPS

\* A set of numbers has a least one.
LEMMA LeastNumber ==
    ASSUME NEW S, S # {}, S \subseteq Nat
    PROVE  \E m \in S : \A n \in S : m <= n
<1> DEFINE R == {p \in Nat \X Nat : p[1] < p[2]}
<1>1. IsWellFoundedOn(R, Nat)
    BY NatLessThanWellFounded, Zenon DEF OpToRel
<1> HIDE DEF R
<1>2. PICK m \in S : \A n \in S : ~(<<n, m>> \in R)
    BY <1>1, WFMin
<1>3. \A n \in S : ~(n < m)
    BY <1>2 DEF R
<1> QED
    BY <1>3

-----------------------------------------------------------------------------
(* Sums over finite sets.  What the fold computes is shown for the least   *)
(* set that it might be wrong for.                                         *)

Pick(s) == CHOOSE x \in s : TRUE

\* The table of the sums of f over the subsets of S.
Next1(f, it, s) == IF s = {} THEN 0 ELSE f[Pick(s)] + it[s \ {Pick(s)}]
Table(f, S, it) == it = [s \in SUBSET S |-> Next1(f, it, s)]

\* The fold of the library takes its value from such a table.
LEMMA SumIsTable ==
    ASSUME NEW f, NEW S
    PROVE  SumFunctionOnSet(f, S) = (CHOOSE it : Table(f, S, it))[S]
    BY DEF SumFunctionOnSet, FoldFunctionOnSet, MapThenFoldSet, Table, Next1, Pick

\* A set without one of its members is smaller.
LEMMA Smaller ==
    ASSUME NEW S, IsFiniteSet(S), S # {}
    PROVE  /\ Pick(S) \in S /\ IsFiniteSet(S \ {Pick(S)})
           /\ Cardinality(S) \in Nat \ {0}
           /\ Cardinality(S \ {Pick(S)}) = Cardinality(S) - 1
<1>1. Pick(S) \in S
    BY DEF Pick
<1>2. Cardinality(S) \in Nat /\ Cardinality(S) # 0
    BY FS_CardinalityType, FS_EmptySet
<1> QED
    BY <1>1, <1>2, FS_RemoveElement

\* There is a table, of numbers, for every finite set.
LEMMA TableExists ==
    ASSUME NEW D, NEW f \in [D -> Int], NEW S, IsFiniteSet(S), S \subseteq D
    PROVE  \E it \in [SUBSET S -> Int] : Table(f, S, it)
<1> DEFINE Upto(n, g) == \A s \in SUBSET S : Cardinality(s) <= n => g[s] = Next1(f, g, s)
           Missing == {n \in Nat : ~\E g \in [SUBSET S -> Int] : Upto(n, g)}
<1>1. \A s \in SUBSET S : IsFiniteSet(s) /\ Cardinality(s) \in Nat /\ (Cardinality(s) = 0 => s = {})
    BY FS_Subset, FS_CardinalityType, FS_EmptySet
<1>2. \A g \in [SUBSET S -> Int] : \A s \in SUBSET S : Next1(f, g, s) \in Int
    BY DEF Next1, Pick
<1>3. 0 \notin Missing
  <2>1. [s \in SUBSET S |-> 0] \in [SUBSET S -> Int]
      OBVIOUS
  <2>2. Upto(0, [s \in SUBSET S |-> 0])
      BY <1>1 DEF Next1
  <2> QED
      BY <2>1, <2>2
<1>4. ASSUME NEW n \in Nat, n \notin Missing
      PROVE  n + 1 \notin Missing
  <2>1. PICK g \in [SUBSET S -> Int] : Upto(n, g)
      BY <1>4
  <2>2. PICK h : h = [s \in SUBSET S |-> Next1(f, g, s)]
      OBVIOUS
  <2>3. h \in [SUBSET S -> Int]
      BY <1>2, <2>1, <2>2
  <2>4. \A s \in SUBSET S : Cardinality(s) <= n => h[s] = g[s]
      BY <2>1, <2>2
  <2>5. ASSUME NEW s \in SUBSET S, Cardinality(s) <= n + 1
        PROVE  h[s] = Next1(f, h, s)
    <3>1. CASE s = {}
        BY <2>2, <3>1 DEF Next1
    <3>2. CASE s # {}
      <4>1. s \ {Pick(s)} \in SUBSET S /\ Cardinality(s \ {Pick(s)}) <= n
          BY <1>1, <2>5, <3>2, Smaller
      <4>2. h[s \ {Pick(s)}] = g[s \ {Pick(s)}]
          BY <2>4, <4>1
      <4> QED
          BY <2>2, <3>2, <4>2 DEF Next1
    <3> QED
        BY <3>1, <3>2
  <2> QED
      BY <2>3, <2>5
<1>5. Missing = {}
  <2>1. SUFFICES ASSUME Missing # {} PROVE FALSE
      OBVIOUS
  <2>2. Missing \subseteq Nat
      OBVIOUS
  <2> HIDE DEF Missing
  <2>3. PICK m \in Missing : \A n \in Missing : m <= n
      BY <2>1, <2>2, LeastNumber
  <2>4. m \in Nat /\ m # 0
      BY <1>3, <2>2, <2>3
  <2>5. m - 1 \in Nat /\ m - 1 \notin Missing /\ (m - 1) + 1 = m
      BY <2>2, <2>3, <2>4
  <2> QED
      BY <1>4, <2>3, <2>5
<1>6. PICK g \in [SUBSET S -> Int] : Upto(Cardinality(S), g)
    BY <1>1, <1>5
<1>7. \A s \in SUBSET S : Cardinality(s) <= Cardinality(S)
    BY FS_Subset
<1>8. Table(f, S, g)
    BY <1>6, <1>7 DEF Table
<1> QED
    BY <1>6, <1>8

\* The tables of two sets agree on what they share.
LEMMA TablesAgree ==
    ASSUME NEW f, NEW S, NEW T, NEW g, NEW h, Table(f, S, g), Table(f, T, h),
           NEW U, IsFiniteSet(U), U \subseteq S, U \subseteq T
    PROVE  g[U] = h[U]
<1> DEFINE Wrong == {n \in Nat : \E s \in SUBSET U : Cardinality(s) = n /\ g[s] # h[s]}
<1>1. \A s \in SUBSET U : IsFiniteSet(s) /\ Cardinality(s) \in Nat
    BY FS_Subset, FS_CardinalityType
<1>2. \A s \in SUBSET U : g[s] = Next1(f, g, s) /\ h[s] = Next1(f, h, s)
    BY DEF Table
<1>3. ASSUME Wrong # {} PROVE FALSE
  <2>1. PICK m \in Wrong : \A n \in Wrong : m <= n
      BY <1>3, LeastNumber
  <2>2. PICK s \in SUBSET U : Cardinality(s) = m /\ g[s] # h[s]
      BY <2>1
  <2>3. s # {}
      BY <1>2, <2>2 DEF Next1
  <2>4. s \ {Pick(s)} \in SUBSET U /\ Cardinality(s \ {Pick(s)}) = m - 1 /\ m - 1 \in Nat
      BY <1>1, <2>2, <2>3, Smaller
  <2>5. m - 1 \notin Wrong
      BY <2>1, <2>4
  <2>6. g[s \ {Pick(s)}] = h[s \ {Pick(s)}]
      BY <2>4, <2>5
  <2> QED
      BY <1>2, <2>2, <2>3, <2>6 DEF Next1
<1> QED
    BY <1>1, <1>3

\* The equations of the sum, with the member that CHOOSE takes.
LEMMA SumUnfolds ==
    ASSUME NEW D, NEW f \in [D -> Int], NEW S, IsFiniteSet(S), S \subseteq D
    PROVE  /\ SumFunctionOnSet(f, S) \in Int
           /\ S = {} => SumFunctionOnSet(f, S) = 0
           /\ S # {} => SumFunctionOnSet(f, S) = f[Pick(S)] + SumFunctionOnSet(f, S \ {Pick(S)})
<1>1. ASSUME NEW T, IsFiniteSet(T), T \subseteq D
      PROVE  \E it \in [SUBSET T -> Int] : Table(f, T, it) /\ SumFunctionOnSet(f, T) = it[T]
  <2>1. PICK g \in [SUBSET T -> Int] : Table(f, T, g)
      BY <1>1, TableExists
  <2>2. PICK h : h = CHOOSE it : Table(f, T, it)
      OBVIOUS
  <2>3. Table(f, T, h)
      BY <2>1, <2>2
  <2>4. SumFunctionOnSet(f, T) = h[T]
      BY <2>2, SumIsTable
  <2>5. g[T] = h[T]
      BY <1>1, <2>1, <2>3, TablesAgree
  <2> QED
      BY <2>1, <2>4, <2>5
<1>2. PICK g \in [SUBSET S -> Int] : Table(f, S, g) /\ SumFunctionOnSet(f, S) = g[S]
    BY <1>1
<1>3. g[S] = Next1(f, g, S)
    BY <1>2 DEF Table
<1>4. ASSUME S # {}
      PROVE  SumFunctionOnSet(f, S) = f[Pick(S)] + SumFunctionOnSet(f, S \ {Pick(S)})
  <2>1. PICK T : T = S \ {Pick(S)}
      OBVIOUS
  <2>2. IsFiniteSet(T) /\ T \subseteq S
      BY <1>4, <2>1, Smaller
  <2>3. PICK h \in [SUBSET T -> Int] : Table(f, T, h) /\ SumFunctionOnSet(f, T) = h[T]
      BY <1>1, <2>2
  <2>4. g[T] = h[T]
      BY <1>2, <2>2, <2>3, TablesAgree
  <2> QED
      BY <1>2, <1>3, <1>4, <2>1, <2>3, <2>4 DEF Next1
<1> QED
    BY <1>2, <1>3, <1>4 DEF Next1

\* Any member can be taken first.
LEMMA SumRemoves ==
    ASSUME NEW D, NEW f \in [D -> Int], NEW S, IsFiniteSet(S), S \subseteq D, NEW x \in S
    PROVE  SumFunctionOnSet(f, S) = f[x] + SumFunctionOnSet(f, S \ {x})
<1> DEFINE Sum(s) == SumFunctionOnSet(f, s)
           Wrong == {n \in Nat : \E s \in SUBSET S : Cardinality(s) = n /\
                                   \E y \in s : Sum(s) # f[y] + Sum(s \ {y})}
<1>1. \A s \in SUBSET S : IsFiniteSet(s) /\ Cardinality(s) \in Nat /\ s \subseteq D
    BY FS_Subset, FS_CardinalityType
<1>2. ASSUME NEW s \in SUBSET S
      PROVE  Sum(s) \in Int /\ (s # {} => Sum(s) = f[Pick(s)] + Sum(s \ {Pick(s)}))
    BY <1>1, SumUnfolds
<1>3. \A y \in S : f[y] \in Int
    OBVIOUS
<1>4. ASSUME Wrong # {} PROVE FALSE
  <2>1. PICK m \in Wrong : \A n \in Wrong : m <= n
      BY <1>4, LeastNumber
  <2>2. PICK s \in SUBSET S : Cardinality(s) = m /\ \E y \in s : Sum(s) # f[y] + Sum(s \ {y})
      BY <2>1
  <2>3. PICK y \in s : Sum(s) # f[y] + Sum(s \ {y})
      BY <2>2
  <2>4. PICK p : p = Pick(s)
      OBVIOUS
  <2>5. p \in s /\ Sum(s) = f[p] + Sum(s \ {p}) /\ p # y
      BY <1>1, <1>2, <2>2, <2>3, <2>4, Smaller
  <2>6. /\ Cardinality(s \ {p}) = m - 1 /\ Cardinality(s \ {y}) = m - 1 /\ m - 1 \in Nat
        /\ s \ {p} \in SUBSET S /\ s \ {y} \in SUBSET S /\ y \in s \ {p} /\ p \in s \ {y}
      BY SMTT(30), <1>1, <2>2, <2>3, <2>4, <2>5, Smaller, FS_RemoveElement
  <2>7. m - 1 \notin Wrong
      BY <2>1, <2>6
  <2>8. Sum(s \ {p}) = f[y] + Sum((s \ {p}) \ {y})
      BY <2>6, <2>7
  <2>9. Sum(s \ {y}) = f[p] + Sum((s \ {y}) \ {p})
      BY <2>6, <2>7
  <2>10. PICK z : z = (s \ {p}) \ {y}
      OBVIOUS
  <2>11. z = (s \ {y}) \ {p} /\ z \in SUBSET S
      BY <2>10
  <2>12. f[p] \in Int /\ f[y] \in Int /\ Sum(z) \in Int
      BY <1>2, <1>3, <2>2, <2>3, <2>5, <2>11
  <2>13. Sum(s \ {p}) = f[y] + Sum(z) /\ Sum(s \ {y}) = f[p] + Sum(z)
      BY <2>8, <2>9, <2>10, <2>11
  <2> QED
      BY <2>3, <2>5, <2>12, <2>13
<1> QED
    BY <1>1, <1>4

\* The sum is that of two parts.
LEMMA SumUnion ==
    ASSUME NEW D, NEW f \in [D -> Int], NEW A, NEW B, IsFiniteSet(A), IsFiniteSet(B),
           A \subseteq D, B \subseteq D, A \cap B = {}
    PROVE  SumFunctionOnSet(f, A \cup B) = SumFunctionOnSet(f, A) + SumFunctionOnSet(f, B)
<1> DEFINE Sum(s) == SumFunctionOnSet(f, s)
           Wrong == {n \in Nat : \E s \in SUBSET B : Cardinality(s) = n /\ Sum(A \cup s) # Sum(A) + Sum(s)}
<1>1. \A s \in SUBSET B : IsFiniteSet(s) /\ Cardinality(s) \in Nat /\ s \subseteq D
    BY FS_Subset, FS_CardinalityType
<1>2. \A s \in SUBSET B : IsFiniteSet(A \cup s)
    BY <1>1, FS_Union
<1>3. Sum(A) \in Int /\ (\A s \in SUBSET B : Sum(s) \in Int /\ Sum(A \cup s) \in Int) /\ Sum({}) = 0
    BY <1>1, <1>2, SumUnfolds, FS_EmptySet
<1>4. ASSUME Wrong # {} PROVE FALSE
  <2>1. PICK m \in Wrong : \A n \in Wrong : m <= n
      BY <1>4, LeastNumber
  <2>2. PICK s \in SUBSET B : Cardinality(s) = m /\ Sum(A \cup s) # Sum(A) + Sum(s)
      BY <2>1
  <2>3. s # {}
    <3>1. A \cup {} = A
        OBVIOUS
    <3>2. Sum(A \cup {}) = Sum(A) + Sum({})
        BY <1>3, <3>1
    <3> QED
        BY <2>2, <3>2
  <2>4. PICK p : p = Pick(s)
      OBVIOUS
  <2>5. p \in s /\ Cardinality(s \ {p}) = m - 1 /\ m - 1 \in Nat /\ s \ {p} \in SUBSET B
      BY <1>1, <2>2, <2>3, <2>4, Smaller
  <2>6. m - 1 \notin Wrong
      BY <2>1, <2>5
  <2>7. Sum(A \cup (s \ {p})) = Sum(A) + Sum(s \ {p})
      BY <2>5, <2>6
  <2>8. (A \cup s) \ {p} = A \cup (s \ {p})
      BY <2>5
  <2>9. Sum(A \cup s) = f[p] + Sum(A \cup (s \ {p}))
    <3>1. PICK t : t = A \cup s
        OBVIOUS
    <3>2. IsFiniteSet(t) /\ t \subseteq D /\ p \in t
        BY <1>1, <1>2, <2>5, <3>1
    <3>3. Sum(t) = f[p] + Sum(t \ {p})
        BY <3>2, SumRemoves
    <3> QED
        BY <2>8, <3>1, <3>3
  <2>10. Sum(s) = f[p] + Sum(s \ {p})
      BY <1>1, <2>5, SumRemoves
  <2>11. f[p] \in Int
      BY <2>5
  <2>12. Sum(s \ {p}) \in Int /\ Sum(A) \in Int
      BY <1>3, <2>5
  <2> QED
      BY <2>2, <2>7, <2>9, <2>10, <2>11, <2>12
<1> QED
    BY <1>1, <1>4

\* Equal numbers have equal sums.
LEMMA SumEqual ==
    ASSUME NEW D, NEW f \in [D -> Int], NEW E, NEW g \in [E -> Int], NEW S, IsFiniteSet(S),
           S \subseteq D, S \subseteq E, \A x \in S : f[x] = g[x]
    PROVE  SumFunctionOnSet(f, S) = SumFunctionOnSet(g, S)
<1> DEFINE Wrong == {n \in Nat : \E s \in SUBSET S : Cardinality(s) = n /\
                                   SumFunctionOnSet(f, s) # SumFunctionOnSet(g, s)}
<1>1. \A s \in SUBSET S : IsFiniteSet(s) /\ Cardinality(s) \in Nat /\ s \subseteq D /\ s \subseteq E
    BY FS_Subset, FS_CardinalityType
<1>2. \A s \in SUBSET S :
        /\ SumFunctionOnSet(f, s) = IF s = {} THEN 0 ELSE f[Pick(s)] + SumFunctionOnSet(f, s \ {Pick(s)})
        /\ SumFunctionOnSet(g, s) = IF s = {} THEN 0 ELSE g[Pick(s)] + SumFunctionOnSet(g, s \ {Pick(s)})
    BY <1>1, SumUnfolds
<1>3. ASSUME Wrong # {} PROVE FALSE
  <2>1. PICK m \in Wrong : \A n \in Wrong : m <= n
      BY <1>3, LeastNumber
  <2>2. PICK s \in SUBSET S : Cardinality(s) = m /\ SumFunctionOnSet(f, s) # SumFunctionOnSet(g, s)
      BY <2>1
  <2>3. s # {}
      BY <1>2, <2>2
  <2>4. PICK p : p = Pick(s)
      OBVIOUS
  <2>5. p \in s /\ Cardinality(s \ {p}) = m - 1 /\ m - 1 \in Nat /\ s \ {p} \in SUBSET S
      BY <1>1, <2>2, <2>3, <2>4, Smaller
  <2>6. m - 1 \notin Wrong
      BY <2>1, <2>5
  <2>7. SumFunctionOnSet(f, s \ {p}) = SumFunctionOnSet(g, s \ {p})
      BY <2>5, <2>6
  <2> QED
      BY <1>2, <2>2, <2>3, <2>4, <2>5, <2>7
<1> QED
    BY <1>1, <1>3

\* A set that grows by one member, in a function that goes on.
Grows(D, f, E, g, S, y, T) ==
    /\ f \in [D -> Int] /\ g \in [E -> Int] /\ IsFiniteSet(S) /\ S \subseteq D /\ S \subseteq E
    /\ \A x \in S : f[x] = g[x]
    /\ y \in E /\ y \notin S /\ T = S \cup {y}

LEMMA SumGrows ==
    ASSUME NEW D, NEW f, NEW E, NEW g, NEW S, NEW y, NEW T, Grows(D, f, E, g, S, y, T)
    PROVE  /\ SumFunctionOnSet(g, S) = SumFunctionOnSet(f, S)
           /\ SumFunctionOnSet(g, T) = SumFunctionOnSet(f, S) + g[y]
           /\ SumFunctionOnSet(f, S) \in Int
<1> USE DEF Grows
<1>1. SumFunctionOnSet(f, S) = SumFunctionOnSet(g, S)
    BY SumEqual
<1>2. IsFiniteSet(T)
    BY FS_AddElement
<1>3. T \subseteq E /\ y \in T /\ S = T \ {y}
    OBVIOUS
<1>4. SumFunctionOnSet(g, T) = g[y] + SumFunctionOnSet(g, S)
    BY <1>2, <1>3, SumRemoves
<1>5. SumFunctionOnSet(f, S) \in Int /\ g[y] \in Int
    BY SumUnfolds
<1> QED
    BY <1>1, <1>4, <1>5

-----------------------------------------------------------------------------
(* Sums of sequences *)

SumTo(s, n) == SumFunctionOnSet(s, 1..n)

LEMMA SeqIsFunction ==
    ASSUME NEW s \in Seq(Int)
    PROVE  Len(s) \in Nat /\ s \in [1..Len(s) -> Int]
    OBVIOUS

LEMMA UptoFinite ==
    ASSUME NEW n \in Nat
    PROVE  IsFiniteSet(1..n)
<1>1. 1 \in Int /\ n \in Int
    OBVIOUS
<1> QED
    BY <1>1, FS_Interval

\* Each member adds itself.
LEMMA SumOneMore ==
    ASSUME NEW s \in Seq(Int), NEW n \in Nat, n <= Len(s)
    PROVE  /\ SumTo(s, n) \in Int /\ SumTo(s, 0) = 0
           /\ n < Len(s) => SumTo(s, n + 1) = SumTo(s, n) + s[n + 1]
<1>1. PICK D : D = 1..Len(s)
    OBVIOUS
<1>2. s \in [D -> Int] /\ Len(s) \in Nat
    BY <1>1, SeqIsFunction
<1>3. IsFiniteSet(1..n) /\ 1..n \subseteq D /\ 1..0 = {} /\ {} \subseteq D
    BY <1>1, <1>2, UptoFinite
<1>4. SumFunctionOnSet(s, 1..n) \in Int
    BY <1>2, <1>3, SumUnfolds
<1>5. SumFunctionOnSet(s, {}) = 0
    BY <1>2, <1>3, SumUnfolds, FS_EmptySet
<1>6. ASSUME n < Len(s)
      PROVE  SumTo(s, n + 1) = SumTo(s, n) + s[n + 1]
  <2>1. PICK N, m : N = 1..(n + 1) /\ m = n + 1
      OBVIOUS
  <2>2. m \in Nat /\ N \subseteq D /\ m \in N /\ N \ {m} = 1..n /\ s[m] \in Int
      BY <1>1, <1>2, <1>6, <2>1
  <2>3. IsFiniteSet(N)
      BY <2>1, <2>2, UptoFinite
  <2>4. SumFunctionOnSet(s, N) = s[m] + SumFunctionOnSet(s, N \ {m})
      BY <1>2, <2>2, <2>3, SumRemoves
  <2>5. SumFunctionOnSet(s, N) = s[m] + SumFunctionOnSet(s, 1..n)
      BY <2>2, <2>4
  <2>6. SumTo(s, m) = SumTo(s, n) + s[m]
      BY <1>4, <2>1, <2>2, <2>5 DEF SumTo
  <2> QED
      BY <2>1, <2>6
<1> QED
    BY <1>3, <1>4, <1>5, <1>6 DEF SumTo

\* Equal members have equal sums.
LEMMA SumUptoEqual ==
    ASSUME NEW D, NEW f \in [D -> Int], NEW E, NEW g \in [E -> Int], NEW n \in Nat,
           1..n \subseteq D, 1..n \subseteq E, \A i \in 1..n : f[i] = g[i]
    PROVE  SumTo(f, n) = SumTo(g, n)
<1>1. IsFiniteSet(1..n)
    BY UptoFinite
<1>2. SumFunctionOnSet(f, 1..n) = SumFunctionOnSet(g, 1..n)
    BY <1>1, SumEqual
<1> QED
    BY <1>2 DEF SumTo

Agree(s, t, n) ==
    s \in Seq(Int) /\ t \in Seq(Int) /\ n \in Nat /\ n <= Len(s) /\ n <= Len(t) /\ \A i \in 1..n : s[i] = t[i]

LEMMA SumOfAgreeing ==
    ASSUME NEW s, NEW t, NEW n, Agree(s, t, n)
    PROVE  SumTo(s, n) = SumTo(t, n)
<1>1. PICK D, E : D = 1..Len(s) /\ E = 1..Len(t)
    OBVIOUS
<1>2. /\ s \in [D -> Int] /\ t \in [E -> Int] /\ n \in Nat
      /\ 1..n \subseteq D /\ 1..n \subseteq E /\ \A i \in 1..n : s[i] = t[i]
    BY <1>1, SeqIsFunction DEF Agree
<1> QED
    BY <1>2, SumUptoEqual

LEMMA SumOfEqual ==
    ASSUME NEW s \in Seq(Int), NEW t \in Seq(Int), NEW n \in Nat, n <= Len(s), n <= Len(t),
           \A i \in 1..n : s[i] = t[i]
    PROVE  SumTo(s, n) = SumTo(t, n)
    BY SumOfAgreeing DEF Agree

\* What a sequence goes on with adds its own sum.
LEMMA SumOfConcat ==
    ASSUME NEW s \in Seq(Int), NEW t \in Seq(Int)
    PROVE  SumTo(s \o t, Len(s \o t)) = SumTo(s, Len(s)) + SumTo(t, Len(t))
<1>1. PICK u : u = s \o t
    OBVIOUS
<1>2. /\ u \in Seq(Int) /\ Len(u) = Len(s) + Len(t) /\ Len(s) \in Nat /\ Len(t) \in Nat
      /\ \A i \in 1..Len(s) : u[i] = s[i]
      /\ \A i \in 1..Len(t) : u[Len(s) + i] = t[i]
    BY <1>1
<1>3. SumTo(u, Len(s)) = SumTo(s, Len(s))
  <2>1. PICK n : n = Len(s)
      OBVIOUS
  <2>2. n \in Nat /\ n <= Len(s) /\ n <= Len(u) /\ \A i \in 1..n : u[i] = s[i]
      BY <1>2, <2>1
  <2>3. SumTo(u, n) = SumTo(s, n)
      BY <1>2, <2>2, SumOfEqual
  <2> QED
      BY <2>1, <2>3
<1> DEFINE Wrong == {n \in Nat : n <= Len(t) /\ SumTo(u, Len(s) + n) # SumTo(s, Len(s)) + SumTo(t, n)}
<1>4. SumTo(s, Len(s)) \in Int /\ SumTo(t, 0) = 0 /\ Len(s) + 0 = Len(s)
    BY <1>2, SumOneMore
<1>5. 0 \notin Wrong
    BY <1>3, <1>4
<1>6. ASSUME NEW n \in Nat, n \notin Wrong PROVE n + 1 \notin Wrong
  <2>1. SUFFICES ASSUME n + 1 <= Len(t)
                 PROVE  SumTo(u, Len(s) + (n + 1)) = SumTo(s, Len(s)) + SumTo(t, n + 1)
      OBVIOUS
  <2>2. n <= Len(t) /\ n < Len(t) /\ n + 1 \in 1..Len(t)
      BY <1>2, <2>1
  <2>3. SumTo(u, Len(s) + n) = SumTo(s, Len(s)) + SumTo(t, n)
      BY <1>6, <2>2
  <2>4. SumTo(t, n) \in Int /\ SumTo(t, n + 1) = SumTo(t, n) + t[n + 1] /\ t[n + 1] \in Int
      BY <1>2, <2>2, SumOneMore
  <2>5. PICK k : k = Len(s) + n
      OBVIOUS
  <2>6. k \in Nat /\ k < Len(u) /\ k <= Len(u) /\ k + 1 = Len(s) + (n + 1) /\ u[k + 1] = t[n + 1]
    <3>1. u[Len(s) + (n + 1)] = t[n + 1]
        BY <1>2, <2>2
    <3>2. k + 1 = Len(s) + (n + 1)
        BY <1>2, <2>5
    <3> QED
        BY SMTT(30), <1>2, <2>2, <2>5, <3>1, <3>2
  <2>7. SumTo(u, k + 1) = SumTo(u, k) + u[k + 1]
      BY <1>2, <2>6, SumOneMore
  <2> QED
      BY <1>4, <2>3, <2>4, <2>5, <2>6, <2>7
<1>7. Wrong = {}
  <2>1. SUFFICES ASSUME Wrong # {} PROVE FALSE
      OBVIOUS
  <2>2. Wrong \subseteq Nat
      OBVIOUS
  <2> HIDE DEF Wrong
  <2>3. PICK m \in Wrong : \A n \in Wrong : m <= n
      BY <2>1, <2>2, LeastNumber
  <2>4. m \in Nat /\ m # 0
      BY <1>5, <2>2, <2>3
  <2>5. m - 1 \in Nat /\ m - 1 \notin Wrong /\ (m - 1) + 1 = m
      BY <2>2, <2>3, <2>4
  <2> QED
      BY <1>6, <2>3, <2>5
<1> QED
    BY <1>1, <1>2, <1>7
-----------------------------------------------------------------------------
(* Texts that grow by lines, and the numbers in them *)

\* What stands in a sequence that goes on with another one.
LEMMA Joined ==
    ASSUME NEW S, NEW s \in Seq(S), NEW t \in Seq(S)
    PROVE  /\ s \o t \in Seq(S) /\ Len(s \o t) = Len(s) + Len(t) /\ Len(s) \in Nat /\ Len(t) \in Nat
           /\ \A i \in 1..Len(s) : (s \o t)[i] = s[i]
           /\ \A i \in 1..Len(t) : (s \o t)[Len(s) + i] = t[i]
<1>1. PICK u, m, n : u = s \o t /\ m = Len(s) /\ n = Len(t)
    OBVIOUS
<1>2. /\ u \in Seq(S) /\ Len(u) = m + n /\ m \in Nat /\ n \in Nat
      /\ \A i \in 1..(m + n) : u[i] = IF i <= m THEN s[i] ELSE t[i - m]
    BY <1>1, ConcatProperties, LenProperties
<1>3. ASSUME NEW i \in 1..m PROVE u[i] = s[i]
    BY <1>2
<1>4. ASSUME NEW i \in 1..n PROVE u[m + i] = t[i]
  <2>1. m + i \in 1..(m + n) /\ ~(m + i <= m) /\ (m + i) - m = i
      BY <1>2
  <2> QED
      BY <1>2, <2>1
<1> QED
    BY <1>1, <1>2, <1>3, <1>4

\* The texts of a report: signs are below all numbers and names.
LEMMA SignsAre ==
    ASSUME StatsAssumption
    PROVE  /\ MaxValue \in Nat
           /\ LabelBegin = -(MaxValue + 1) /\ LabelEnd = -(MaxValue + 2) /\ ValueBegin = -(MaxValue + 3)
           /\ LabelSplit = -(MaxValue + 4) /\ Newline = -(MaxValue + 5) /\ Return = -(MaxValue + 6)
    BY DEF StatsAssumption, LabelBegin, LabelEnd, ValueBegin, LabelSplit, Newline, Return, Sign

\* A text of which a line is the last one.
Longer(text, p, number) == text \o Line(p, number) \o <<Newline>>

Extends(u, text) == \A i \in 1..Len(text) : u[i] = text[i]

LEMMA WrittenIs ==
    ASSUME StatsAssumption, NEW text \in Seq(Int), NEW p \in Int, NEW number \in Int,
           NEW u, u = Longer(text, p, number)
    PROVE  /\ u \in Seq(Int) /\ Len(u) = Len(text) + 4 /\ Len(text) \in Nat
           /\ Extends(u, text)
           /\ u[Len(text) + 1] = p /\ u[Len(text) + 2] = ValueBegin
           /\ u[Len(text) + 3] = number /\ u[Len(text) + 4] = Newline
<1>1. PICK n, line, end, v :
        /\ n = Len(text) /\ line = Line(p, number) /\ end = <<Newline>> /\ v = text \o line /\ u = v \o end
    BY DEF Longer
<1>2. /\ line \in Seq(Int) /\ Len(line) = 3 /\ line[1] = p /\ line[2] = ValueBegin /\ line[3] = number
      /\ end \in Seq(Int) /\ Len(end) = 1 /\ end[1] = Newline
    BY <1>1, SignsAre DEF Line
<1>3. /\ text \o line \in Seq(Int) /\ Len(text \o line) = Len(text) + Len(line) /\ Len(text) \in Nat
      /\ \A i \in 1..Len(text) : (text \o line)[i] = text[i]
      /\ \A i \in 1..Len(line) : (text \o line)[Len(text) + i] = line[i]
  <2>1. line \in Seq(Int)
      BY <1>2
  <2> QED
      BY <2>1, Joined
<1>4. /\ v \in Seq(Int) /\ Len(v) = n + 3 /\ n \in Nat
      /\ \A i \in 1..n : v[i] = text[i]
      /\ \A i \in 1..3 : v[n + i] = line[i]
    BY <1>1, <1>2, <1>3
<1>5. /\ v \o end \in Seq(Int) /\ Len(v \o end) = Len(v) + Len(end)
      /\ \A i \in 1..Len(v) : (v \o end)[i] = v[i]
      /\ \A i \in 1..Len(end) : (v \o end)[Len(v) + i] = end[i]
  <2>1. v \in Seq(Int)
      BY <1>4
  <2>2. end \in Seq(Int)
      BY <1>2
  <2> QED
      BY <2>1, <2>2, Joined
<1>6. u \in Seq(Int) /\ Len(u) = n + 4
    BY <1>1, <1>2, <1>4, <1>5
<1>7. \A i \in 1..(n + 3) : u[i] = v[i]
    BY <1>1, <1>4, <1>5
<1>8. v[n + 1] = p /\ v[n + 2] = ValueBegin /\ v[n + 3] = number
    BY <1>2, <1>4
<1>13. n \in Nat
    BY <1>4
<1>14. \A i \in 1..n : v[i] = text[i]
    BY <1>4
<1>9. u[n + 1] = p /\ u[n + 2] = ValueBegin /\ u[n + 3] = number
    BY <1>7, <1>8, <1>13
<1>10. \A i \in 1..n : u[i] = text[i]
    BY <1>7, <1>13, <1>14
<1>11. u[n + 4] = Newline
  <2>1. u[Len(v) + 1] = end[1]
      BY <1>1, <1>2, <1>5
  <2>2. Len(v) + 1 = n + 4
      BY <1>4
  <2> QED
      BY <1>2, <2>1, <2>2
<1> QED
    BY <1>1, <1>4, <1>6, <1>9, <1>10, <1>11 DEF Extends

-----------------------------------------------------------------------------
(* What the texts of the agent say *)

\* The places of a text that hold a number of a path.
NumberPlaces(text, path) == {i \in 3..Len(text) : text[i - 2] = path /\ text[i - 1] = ValueBegin}

\* Its numbers add up to a number.
LEMMA NumbersAdd ==
    ASSUME NEW text \in Seq(Int), NEW path
    PROVE  /\ Numbers(text, path) = SumFunctionOnSet(text, NumberPlaces(text, path))
           /\ Numbers(text, path) \in Int
           /\ NumberPlaces(text, path) \subseteq 1..Len(text)
           /\ IsFiniteSet(NumberPlaces(text, path))
<1>1. PICK f, D, S : f = text /\ D = 1..Len(text) /\ S = NumberPlaces(text, path)
    OBVIOUS
<1>2. f \in [D -> Int] /\ IsFiniteSet(D)
    BY <1>1, SeqIsFunction, UptoFinite
<1>3. S \subseteq D
    BY <1>1, SeqIsFunction DEF NumberPlaces
<1>4. IsFiniteSet(S)
    BY <1>2, <1>3, FS_Subset
<1>5. SumFunctionOnSet(f, S) \in Int
    BY <1>2, <1>3, <1>4, SumUnfolds
<1>6. Numbers(text, path) = SumFunctionOnSet(f, S)
    BY <1>1 DEF Numbers, NumberPlaces
<1> QED
    BY <1>1, <1>3, <1>4, <1>5, <1>6

\* The line of a report counts for its path.
LEMMA NumbersOfLine ==
    ASSUME StatsAssumption, NEW p \in Nat, NEW number \in Int, NEW path
    PROVE  Numbers(Line(p, number), path) = IF p = path THEN number ELSE 0
<1>1. PICK f, D, S : f = Line(p, number) /\ D = 1..3 /\ S = NumberPlaces(f, path)
    OBVIOUS
<1>2. f \in Seq(Int) /\ Len(f) = 3 /\ f[1] = p /\ f[2] = ValueBegin /\ f[3] = number
    BY <1>1 DEF Line, ValueBegin, Sign, StatsAssumption
<1>3. Numbers(f, path) = SumFunctionOnSet(f, S) /\ S \subseteq D /\ IsFiniteSet(S)
    BY <1>1, <1>2, NumbersAdd
<1>4. f \in [D -> Int]
    BY <1>1, <1>2, SeqIsFunction
<1>5. S = IF p = path THEN {3} ELSE {}
    BY <1>1, <1>2 DEF NumberPlaces
<1>6. {} \subseteq D
    OBVIOUS
<1>7. SumFunctionOnSet(f, {}) = 0
    BY <1>4, <1>6, SumUnfolds, FS_EmptySet
<1>8. CASE p = path
  <2>1. PICK E : E = S \ {3}
      OBVIOUS
  <2>2. 3 \in S /\ E = {}
      BY <1>5, <1>8, <2>1
  <2>3. SumFunctionOnSet(f, S) = f[3] + SumFunctionOnSet(f, E)
      BY <1>3, <1>4, <2>1, <2>2, SumRemoves
  <2>4. f[3] \in Int
      BY <1>2
  <2>5. SumFunctionOnSet(f, S) = f[3]
      BY <1>7, <2>2, <2>3, <2>4
  <2> QED
      BY <1>1, <1>2, <1>3, <1>8, <2>5
<1>9. CASE p # path
    BY <1>1, <1>3, <1>5, <1>7, <1>9
<1> QED
    BY <1>8, <1>9

LinesOnly(text) == text \in Seq(Int) /\ (text = << >> \/ text[Len(text)] = Newline)

\* A line that is written behind other lines counts as by itself.
LEMMA NumbersOfWritten ==
    ASSUME StatsAssumption, NEW text, LinesOnly(text),
           NEW p \in Nat, NEW number \in Int, number >= -MaxValue, NEW path,
           NEW u, u = Longer(text, p, number)
    PROVE  u \in Seq(Int) /\ Numbers(u, path) = Numbers(text, path) + Numbers(Line(p, number), path)
<1>0. text \in Seq(Int)
    BY DEF LinesOnly
<1>1. PICK n : n = Len(text)
    OBVIOUS
<1>2. MaxValue \in Nat /\ ValueBegin = -(MaxValue + 3) /\ Newline = -(MaxValue + 5)
    BY SignsAre
<1>26. p \in Int
    OBVIOUS
<1>25. u \in Seq(Int) /\ Len(u) = Len(text) + 4 /\ Len(text) \in Nat
    BY <1>0, <1>26, WrittenIs
<1>27. Extends(u, text)
    BY <1>0, <1>26, WrittenIs
<1>28. u[Len(text) + 1] = p /\ u[Len(text) + 2] = ValueBegin /\ u[Len(text) + 3] = number
    BY <1>0, <1>26, WrittenIs
<1>3. u \in Seq(Int) /\ Len(u) = Len(text) + 4 /\ Len(text) \in Nat
    BY <1>25
<1>4. u \in Seq(Int)
    BY <1>3
<1>17. n \in Nat
    BY <1>1, <1>3
<1>18. Len(u) = n + 4
    BY <1>1, <1>3
<1>19. \A i \in 1..n : u[i] = text[i]
    BY <1>1, <1>27 DEF Extends
<1>20. u[n + 1] = p /\ u[n + 2] = ValueBegin /\ u[n + 3] = number
    BY <1>1, <1>28
<1>5. PICK D, E, S, P : D = 1..n /\ E = 1..(n + 4) /\ S = NumberPlaces(text, path) /\ P = NumberPlaces(u, path)
    OBVIOUS
<1>6. text \in [D -> Int] /\ u \in [E -> Int]
    BY <1>0, <1>1, <1>4, <1>5, <1>18, SeqIsFunction
<1>7. /\ Numbers(text, path) = SumFunctionOnSet(text, S) /\ SumFunctionOnSet(text, S) \in Int
      /\ S \subseteq D /\ IsFiniteSet(S)
    BY <1>0, <1>1, <1>5, NumbersAdd
<1>8. Numbers(u, path) = SumFunctionOnSet(u, P)
    BY <1>4, <1>5, NumbersAdd
<1>21. S \subseteq D
    BY <1>7
<1>9. \A i \in S : text[i] = u[i]
    BY <1>5, <1>19, <1>21
<1>10. S \subseteq E /\ n + 3 \in E /\ n + 3 \notin S
    BY <1>5, <1>17, <1>21
<1>11. SumFunctionOnSet(u, S) = SumFunctionOnSet(text, S) /\ SumFunctionOnSet(u, S \cup {n + 3}) = SumFunctionOnSet(text, S) + u[n + 3]
  <2>1. PICK T : T = S \cup {n + 3}
      OBVIOUS
  <2>2. Grows(D, text, E, u, S, n + 3, T)
      BY <1>6, <1>7, <1>9, <1>10, <2>1 DEF Grows
  <2> QED
      BY <2>1, <2>2, SumGrows
<1>22. /\ \A i \in P : i \in 3..(n + 4) /\ u[i - 2] = path /\ u[i - 1] = ValueBegin
       /\ \A i \in 3..(n + 4) : u[i - 2] = path /\ u[i - 1] = ValueBegin => i \in P
    BY <1>5, <1>18 DEF NumberPlaces
<1>23. /\ \A i \in S : i \in 3..n /\ text[i - 2] = path /\ text[i - 1] = ValueBegin
       /\ \A i \in 3..n : text[i - 2] = path /\ text[i - 1] = ValueBegin => i \in S
    BY <1>1, <1>5 DEF NumberPlaces
<1>24. n > 0 => text[n] = Newline
    BY <1>1 DEF LinesOnly
<1>12. ASSUME NEW i \in 3..(n + 4)
       PROVE  i \in P <=> i \in S \/ (i = n + 3 /\ p = path)
  <2>1. CASE i \in 3..n
    <3>1. i - 2 \in 1..n /\ i - 1 \in 1..n /\ i # n + 3
        BY <1>17, <2>1
    <3>2. u[i - 2] = text[i - 2] /\ u[i - 1] = text[i - 1]
        BY <1>19, <3>1
    <3> QED
        BY <1>22, <1>23, <2>1, <3>1, <3>2
  <2>2. CASE i = n + 1
    <3>1. i - 1 = n /\ n \in 1..n /\ i \notin 3..n /\ n > 0 /\ i # n + 3
        BY <1>17, <2>2
    <3>2. u[i - 1] = Newline
        BY <1>19, <1>24, <3>1
    <3> QED
        BY SMTT(30), <1>2, <1>22, <1>23, <3>1, <3>2
  <2>3. CASE i = n + 2
    <3>1. i - 1 = n + 1 /\ i \notin 3..n /\ i # n + 3
        BY <1>17, <2>3
    <3>2. u[i - 1] = p
        BY <1>20, <3>1
    <3> QED
        BY <1>2, <1>22, <1>23, <3>1, <3>2
  <2>4. CASE i = n + 3
    <3>1. i - 1 = n + 2 /\ i - 2 = n + 1 /\ i \notin 3..n
        BY <1>17, <2>4
    <3>2. u[i - 1] = ValueBegin /\ u[i - 2] = p
        BY <1>20, <3>1
    <3> QED
        BY <1>22, <1>23, <2>4, <3>1, <3>2
  <2>5. CASE i = n + 4
    <3>1. i - 1 = n + 3 /\ i \notin 3..n /\ i # n + 3
        BY <1>17, <2>5
    <3>2. u[i - 1] = number
        BY <1>20, <3>1
    <3> QED
        BY <1>2, <1>22, <1>23, <3>1, <3>2
  <2> QED
      BY <1>17, <2>1, <2>2, <2>3, <2>4, <2>5
<1>13. P \subseteq 3..(n + 4) /\ S \subseteq 3..(n + 4) /\ n + 3 \in 3..(n + 4)
    BY <1>17, <1>22, <1>23
<1>14. Numbers(Line(p, number), path) = IF p = path THEN number ELSE 0
  <2>1. p \in Nat /\ number \in Int
      OBVIOUS
  <2> QED
      BY <2>1, NumbersOfLine
<1>15. CASE p = path
  <2>1. P = S \cup {n + 3}
      BY <1>12, <1>13, <1>15
  <2>2. Numbers(u, path) = SumFunctionOnSet(text, S) + u[n + 3]
      BY <1>8, <1>11, <2>1
  <2> QED
      BY <1>4, <1>7, <1>14, <1>15, <1>20, <2>2
<1>16. CASE p # path
  <2>1. P = S
      BY <1>12, <1>13, <1>16
  <2> QED
      BY <1>4, <1>7, <1>8, <1>11, <1>14, <1>16, <2>1
<1> QED
    BY <1>15, <1>16

-----------------------------------------------------------------------------
(* What sequences of texts say *)

LEMMA TotalOne ==
    ASSUME NEW text \in Seq(Int), NEW path
    PROVE  NumbersIn(<<text>>, path) = Numbers(text, path)
<1>1. PICK a : a = [k \in 1..Len(<<text>>) |-> Numbers(<<text>>[k], path)]
    OBVIOUS
<1>2. a \in Seq(Int) /\ Len(a) = 1 /\ a[1] = Numbers(text, path)
  <2>1. Numbers(text, path) \in Int
      BY NumbersAdd
  <2> QED
      BY <1>1, <2>1
<1>3. SumTo(a, 0) = 0 /\ SumTo(a, 0 + 1) = SumTo(a, 0) + a[0 + 1]
    BY <1>2, SumOneMore
<1>4. NumbersIn(<<text>>, path) = SumTo(a, 1)
    BY <1>1, <1>2 DEF NumbersIn, SumTo
<1> QED
    BY <1>2, <1>3, <1>4, NumbersAdd

\* The numbers of the texts are a sequence, whose sum is the total.
LEMMA TotalIs ==
    ASSUME NEW texts \in Seq(Seq(Int)), NEW path
    PROVE  \E a \in Seq(Int) : /\ Len(a) = Len(texts) /\ NumbersIn(texts, path) = SumTo(a, Len(a))
                               /\ \A k \in 1..Len(texts) : a[k] = Numbers(texts[k], path)
<1>1. \A k \in 1..Len(texts) : Numbers(texts[k], path) \in Int
    BY NumbersAdd
<1>2. PICK a : a = [k \in 1..Len(texts) |-> Numbers(texts[k], path)]
    OBVIOUS
<1>3. a \in Seq(Int) /\ Len(a) = Len(texts) /\ \A k \in 1..Len(texts) : a[k] = Numbers(texts[k], path)
    BY <1>1, <1>2
<1>4. NumbersIn(texts, path) = SumTo(a, Len(a))
    BY <1>2, <1>3 DEF NumbersIn, SumTo
<1> QED
    BY <1>3, <1>4

LEMMA TotalConcat ==
    ASSUME NEW s \in Seq(Seq(Int)), NEW t \in Seq(Seq(Int)), NEW path
    PROVE  /\ NumbersIn(s, path) \in Int /\ NumbersIn(t, path) \in Int
           /\ NumbersIn(s \o t, path) = NumbersIn(s, path) + NumbersIn(t, path)
<1>1. PICK a \in Seq(Int) : /\ Len(a) = Len(s) /\ NumbersIn(s, path) = SumTo(a, Len(a))
                            /\ \A k \in 1..Len(s) : a[k] = Numbers(s[k], path)
    BY TotalIs
<1>2. PICK b \in Seq(Int) : /\ Len(b) = Len(t) /\ NumbersIn(t, path) = SumTo(b, Len(b))
                            /\ \A k \in 1..Len(t) : b[k] = Numbers(t[k], path)
    BY TotalIs
<1>3. s \o t \in Seq(Seq(Int))
    OBVIOUS
<1>4. PICK c \in Seq(Int) : /\ Len(c) = Len(s \o t) /\ NumbersIn(s \o t, path) = SumTo(c, Len(c))
                            /\ \A k \in 1..Len(s \o t) : c[k] = Numbers((s \o t)[k], path)
    BY <1>3, TotalIs
<1>5. c = a \o b
  <2>0. /\ s \o t \in Seq(Seq(Int)) /\ Len(s \o t) = Len(s) + Len(t) /\ Len(s) \in Nat /\ Len(t) \in Nat
        /\ \A i \in 1..Len(s) : (s \o t)[i] = s[i]
        /\ \A i \in 1..Len(t) : (s \o t)[Len(s) + i] = t[i]
      BY Joined
  <2>1. /\ a \o b \in Seq(Int) /\ Len(a \o b) = Len(s) + Len(t)
        /\ \A i \in 1..Len(s) : (a \o b)[i] = a[i]
        /\ \A i \in 1..Len(t) : (a \o b)[Len(s) + i] = b[i]
    <3>1. /\ a \o b \in Seq(Int) /\ Len(a \o b) = Len(a) + Len(b)
          /\ \A i \in 1..Len(a) : (a \o b)[i] = a[i]
          /\ \A i \in 1..Len(b) : (a \o b)[Len(a) + i] = b[i]
        BY Joined
    <3>2. Len(a) = Len(s) /\ Len(b) = Len(t)
        BY <1>1, <1>2
    <3> QED
        BY <3>1, <3>2
  <2>2. ASSUME NEW k \in 1..Len(s) PROVE c[k] = (a \o b)[k]
      BY <1>1, <1>4, <2>0, <2>1
  <2>3. ASSUME NEW k \in 1..Len(t) PROVE c[Len(s) + k] = (a \o b)[Len(s) + k]
    <3>1. Len(s) + k \in 1..Len(s \o t)
        BY <2>0
    <3>2. c[Len(s) + k] = Numbers((s \o t)[Len(s) + k], path)
        BY <1>4, <3>1
    <3> QED
        BY <1>2, <2>0, <2>1, <3>2
  <2>4. ASSUME NEW k \in 1..Len(c) PROVE c[k] = (a \o b)[k]
    <3>1. k \in 1..Len(s) \/ (k - Len(s) \in 1..Len(t) /\ k = Len(s) + (k - Len(s)))
        BY <1>4, <2>0
    <3> QED
        BY <2>2, <2>3, <3>1
  <2>5. Len(c) = Len(a \o b)
      BY <1>4, <2>0, <2>1
  <2> QED
      BY <2>1, <2>4, <2>5, SeqEqual
<1>6. SumTo(a \o b, Len(a \o b)) = SumTo(a, Len(a)) + SumTo(b, Len(b))
    BY SumOfConcat
<1>7. SumTo(a, Len(a)) \in Int /\ SumTo(b, Len(b)) \in Int
    BY SumOneMore
<1> QED
    BY <1>1, <1>2, <1>4, <1>5, <1>6, <1>7

-----------------------------------------------------------------------------
(* What the agent holds *)

Value1 == -MaxValue..MaxValue
Lines == {Line(p, number) : p \in Paths, number \in Value1}

\* A packet of the agent: four signs for each sample.
Place(pkt, n) ==
    /\ pkt.text[4 * n - 3] \in Paths /\ pkt.text[4 * n - 2] = ValueBegin
    /\ pkt.text[4 * n - 1] \in Value1 /\ pkt.text[4 * n] = Newline
    /\ pkt.meant[n] = [path |-> <<pkt.text[4 * n - 3]>>, labels |-> << >>, number |-> pkt.text[4 * n - 1]]
Made(pkt) ==
    /\ Len(pkt.text) = 4 * Len(pkt.meant)
    /\ \A n \in 1..Len(pkt.meant) : Place(pkt, n)
Packet == {pkt \in [text : Seq(Int), meant : Seq(Sample)] : pkt.meant # << >> /\ Made(pkt)}
SentPacket == [text : Seq(Int), meant : Seq(Sample), from : {"agent", "network", "other"}]

LEMMA PathsAre == StatsAssumption => Paths \subseteq Nat
<1> SUFFICES ASSUME StatsAssumption PROVE Paths \subseteq Nat
    OBVIOUS
<1>1. Exported \in Seq([path : Nat, mode : {"value", "delta", "none"}])
    BY DEF StatsAssumption
<1>2. \A i \in 1..Len(Exported) : Exported[i].path \in Nat
  <2>1. \A i \in 1..Len(Exported) : Exported[i] \in [path : Nat, mode : {"value", "delta", "none"}]
      BY <1>1, ElementOfSeq
  <2> QED
      BY <2>1
<1> QED
    BY <1>2 DEF Paths

LEMMA LinesAre ==
    ASSUME StatsAssumption
    PROVE  Lines \subseteq Seq(Int)
<1>1. ASSUME NEW p \in Paths, NEW number \in Value1 PROVE Line(p, number) \in Seq(Int)
  <2>1. p \in Int /\ number \in Int /\ ValueBegin \in Int
      BY <1>1, PathsAre, SignsAre DEF Value1
  <2> QED
      BY <2>1 DEF Line
<1> QED
    BY <1>1 DEF Lines

\* Lines that are collected, or go into a packet.
LEMMA LinesAdd ==
    ASSUME StatsAssumption, NEW s \in Seq(Lines), NEW l \in Lines, NEW path
    PROVE  /\ NumbersIn(s, path) \in Int /\ Numbers(l, path) \in Int
           /\ NumbersIn(Append(s, l), path) = NumbersIn(s, path) + Numbers(l, path)
<1>1. Lines \subseteq Seq(Int)
    BY LinesAre
<1>2. l \in Seq(Int)
    BY <1>1
<1>3. s \in Seq(Seq(Int))
    BY <1>1
<1>4. Append(s, l) = s \o <<l>>
    BY AppendIsConcat
<1>5. <<l>> \in Seq(Seq(Int))
    BY <1>2
<1>6. /\ NumbersIn(s, path) \in Int
      /\ NumbersIn(s \o <<l>>, path) = NumbersIn(s, path) + NumbersIn(<<l>>, path)
    BY <1>3, <1>5, TotalConcat
<1>7. NumbersIn(<<l>>, path) = Numbers(l, path)
    BY <1>2, TotalOne
<1>8. Numbers(l, path) \in Int
    BY <1>2, NumbersAdd
<1> QED
    BY <1>4, <1>6, <1>7, <1>8

LEMMA LinesGo ==
    ASSUME StatsAssumption, NEW s \in Seq(Lines), s # << >>, NEW path
    PROVE  /\ Head(s) \in Lines /\ Tail(s) \in Seq(Lines)
           /\ NumbersIn(Tail(s), path) \in Int /\ Numbers(Head(s), path) \in Int
           /\ NumbersIn(s, path) = Numbers(Head(s), path) + NumbersIn(Tail(s), path)
<1>0. Head(s) \in Lines /\ Tail(s) \in Seq(Lines)
    BY HeadTailProperties
<1>1. Lines \subseteq Seq(Int)
    BY LinesAre
<1>2. Head(s) \in Seq(Int)
    BY <1>0, <1>1
<1>3. Tail(s) \in Seq(Seq(Int))
    BY <1>0, <1>1
<1>4. s = <<Head(s)>> \o Tail(s)
    OBVIOUS
<1>5. <<Head(s)>> \in Seq(Seq(Int))
    BY <1>2
<1>6. /\ NumbersIn(Tail(s), path) \in Int
      /\ NumbersIn(<<Head(s)>> \o Tail(s), path) = NumbersIn(<<Head(s)>>, path) + NumbersIn(Tail(s), path)
    BY <1>3, <1>5, TotalConcat
<1>7. NumbersIn(<<Head(s)>>, path) = Numbers(Head(s), path)
    BY <1>2, TotalOne
<1>8. Numbers(Head(s), path) \in Int
    BY <1>2, NumbersAdd
<1> QED
    BY <1>0, <1>4, <1>6, <1>7, <1>8

\* Packets that follow each other.
LEMMA PacketsAdd ==
    ASSUME NEW s \in Seq(Packet), NEW t \in Seq(Packet), NEW path
    PROVE  /\ NumbersIn(TextsOf(s), path) \in Int /\ NumbersIn(TextsOf(t), path) \in Int
           /\ NumbersIn(TextsOf(s \o t), path) = NumbersIn(TextsOf(s), path) + NumbersIn(TextsOf(t), path)
<1>1. \A p \in Packet : p.text \in Seq(Int)
    BY DEF Packet
<1>2. PICK a, b, u : a = TextsOf(s) /\ b = TextsOf(t) /\ u = s \o t
    OBVIOUS
<1>3. /\ u \in Seq(Packet) /\ Len(u) = Len(s) + Len(t) /\ Len(s) \in Nat /\ Len(t) \in Nat
      /\ \A i \in 1..Len(s) : u[i] = s[i]
      /\ \A i \in 1..Len(t) : u[Len(s) + i] = t[i]
    BY <1>2, Joined
<1>4. a \in Seq(Seq(Int)) /\ Len(a) = Len(s) /\ \A k \in 1..Len(s) : a[k] = s[k].text
    BY <1>1, <1>2 DEF TextsOf
<1>5. b \in Seq(Seq(Int)) /\ Len(b) = Len(t) /\ \A k \in 1..Len(t) : b[k] = t[k].text
    BY <1>1, <1>2 DEF TextsOf
<1>6. TextsOf(u) \in Seq(Seq(Int)) /\ Len(TextsOf(u)) = Len(u) /\ \A k \in 1..Len(u) : TextsOf(u)[k] = u[k].text
    BY <1>1, <1>3 DEF TextsOf
<1>8. a \in Seq(Seq(Int))
    BY <1>4
<1>9. b \in Seq(Seq(Int))
    BY <1>5
<1>7. TextsOf(u) = a \o b
  <2>1. /\ a \o b \in Seq(Seq(Int)) /\ Len(a \o b) = Len(a) + Len(b)
        /\ \A i \in 1..Len(a) : (a \o b)[i] = a[i]
        /\ \A i \in 1..Len(b) : (a \o b)[Len(a) + i] = b[i]
      BY <1>8, <1>9, Joined
  <2>2. ASSUME NEW k \in 1..Len(u) PROVE TextsOf(u)[k] = (a \o b)[k]
    <3>1. CASE k \in 1..Len(s)
        BY <1>3, <1>4, <1>6, <2>1, <3>1
    <3>2. CASE k \notin 1..Len(s)
      <4>1. k - Len(s) \in 1..Len(t) /\ k = Len(s) + (k - Len(s))
          BY <1>3, <3>2
      <4>2. u[k] = t[k - Len(s)]
          BY <1>3, <4>1
      <4>3. (a \o b)[k] = b[k - Len(s)]
          BY <1>4, <1>5, <2>1, <4>1
      <4> QED
          BY <1>5, <1>6, <4>1, <4>2, <4>3
    <3> QED
        BY <3>1, <3>2
  <2>3. Len(TextsOf(u)) = Len(a \o b) /\ Len(TextsOf(u)) = Len(u)
      BY <1>3, <1>4, <1>5, <1>6, <2>1
  <2> QED
      BY <1>6, <2>1, <2>2, <2>3, SeqEqual
<1>10. NumbersIn(a, path) \in Int /\ NumbersIn(b, path) \in Int /\ NumbersIn(a \o b, path) = NumbersIn(a, path) + NumbersIn(b, path)
    BY <1>8, <1>9, TotalConcat
<1> QED
    BY <1>2, <1>7, <1>10

LEMMA PacketAlone ==
    ASSUME NEW p \in Packet, NEW path
    PROVE  /\ <<p>> \in Seq(Packet) /\ p.text \in Seq(Int) /\ Numbers(p.text, path) \in Int
           /\ NumbersIn(TextsOf(<<p>>), path) = Numbers(p.text, path)
           /\ NumbersIn(TextsOf(<< >>), path) = 0
<1>1. p.text \in Seq(Int)
    BY DEF Packet
<1>2. TextsOf(<<p>>) = <<p.text>>
    BY DEF TextsOf
<1>3. NumbersIn(<<p.text>>, path) = Numbers(p.text, path) /\ Numbers(p.text, path) \in Int
    BY <1>1, TotalOne, NumbersAdd
<1>4. << >> \in Seq(Packet) /\ << >> \o << >> = << >>
    OBVIOUS
<1>5. NumbersIn(TextsOf(<< >>), path) \in Int /\ NumbersIn(TextsOf(<< >> \o << >>), path) = NumbersIn(TextsOf(<< >>), path) + NumbersIn(TextsOf(<< >>), path)
    BY <1>4, PacketsAdd
<1>6. NumbersIn(TextsOf(<< >>), path) = 0
    BY <1>4, <1>5
<1> QED
    BY <1>1, <1>2, <1>3, <1>6

\* A packet that is sent, by the agent or by others.
LEMMA SentAdds ==
    ASSUME NEW s \in Seq(SentPacket), NEW e \in SentPacket, NEW path
    PROVE  /\ NumbersSent(s, path) \in Int /\ Numbers(e.text, path) \in Int
           /\ NumbersSent(Append(s, e), path)
                = NumbersSent(s, path) + (IF e.from = "agent" THEN Numbers(e.text, path) ELSE 0)
<1>1. PICK n, u : n = Len(s) /\ u = Append(s, e)
    OBVIOUS
<1>2. /\ u \in Seq(SentPacket) /\ Len(u) = n + 1 /\ n \in Nat
      /\ \A i \in 1..n : u[i] = s[i]
      /\ u[n + 1] = e
    BY <1>1, AppendProperties, LenProperties
<1>3. \A k \in 1..n : s[k].text \in Seq(Int)
  <2>1. \A k \in 1..n : s[k] \in SentPacket
      BY <1>1, ElementOfSeq
  <2> QED
      BY <2>1 DEF SentPacket
<1>4. e.text \in Seq(Int)
    BY DEF SentPacket
<1>5. PICK f, g, D, E, S, T :
        /\ f = [k \in 1..n |-> Numbers(s[k].text, path)] /\ g = [k \in 1..(n + 1) |-> Numbers(u[k].text, path)]
        /\ D = 1..n /\ E = 1..(n + 1) /\ S = {k \in 1..n : s[k].from = "agent"} /\ T = S \cup {n + 1}
    OBVIOUS
<1>6. \A k \in 1..n : Numbers(s[k].text, path) \in Int
    BY <1>3, NumbersAdd
<1>7. Numbers(e.text, path) \in Int
    BY <1>4, NumbersAdd
<1>8. \A k \in 1..(n + 1) : Numbers(u[k].text, path) \in Int
    BY <1>2, <1>6, <1>7
<1>9. f \in [D -> Int] /\ g \in [E -> Int]
    BY <1>5, <1>6, <1>8
<1>10. IsFiniteSet(S)
  <2>1. IsFiniteSet(D) /\ S \subseteq D
      BY <1>2, <1>5, UptoFinite
  <2> QED
      BY <2>1, FS_Subset
<1>11. S \subseteq D /\ S \subseteq E /\ n + 1 \in E /\ n + 1 \notin S
    BY <1>2, <1>5
<1>12. \A k \in S : f[k] = g[k]
    BY <1>2, <1>5, <1>11
<1>13. Grows(D, f, E, g, S, n + 1, T)
    BY <1>5, <1>9, <1>10, <1>11, <1>12 DEF Grows
<1>14. /\ SumFunctionOnSet(g, S) = SumFunctionOnSet(f, S)
       /\ SumFunctionOnSet(g, T) = SumFunctionOnSet(f, S) + g[n + 1]
       /\ SumFunctionOnSet(f, S) \in Int
    BY <1>13, SumGrows
<1>15. NumbersSent(s, path) = SumFunctionOnSet(f, S)
    BY <1>1, <1>5 DEF NumbersSent
<1>16. g[n + 1] = Numbers(e.text, path)
    BY <1>2, <1>5
<1>17. {k \in 1..(n + 1) : u[k].from = "agent"} = IF e.from = "agent" THEN T ELSE S
    BY <1>2, <1>5
<1>18. NumbersSent(u, path) = SumFunctionOnSet(g, IF e.from = "agent" THEN T ELSE S)
    BY <1>2, <1>5, <1>17 DEF NumbersSent
<1> QED
    BY <1>1, <1>7, <1>14, <1>15, <1>16, <1>18

-----------------------------------------------------------------------------
(* The types, and what is accounted for *)

StatsTypes ==
    /\ value \in [Paths -> 0..MaxValue] /\ last_values \in [Paths -> 0..MaxValue]
    /\ stat \in Nat \ {0}
    /\ lines \in Seq(Lines) /\ packets \in Seq(Packet) /\ dropped \in Seq(Packet)
    /\ sent \in Seq(SentPacket)

StatsSum == \A path \in DeltaPaths : last_values[path] = AccountedFor(path)

Unsent == <<last_values, lines, packets, dropped, sent>>
LEMMA SumKept ==
    ASSUME StatsTypes, StatsSum, UNCHANGED Unsent, value' \in [Paths -> 0..MaxValue], stat' \in Nat \ {0}
    PROVE  StatsTypes' /\ StatsSum'
<1>1. StatsTypes'
    BY DEF StatsTypes, Unsent
<1>2. StatsSum'
    BY DEF StatsSum, AccountedFor, Unsent
<1> QED
    BY <1>1, <1>2

LEMMA TermsAre ==
    ASSUME StatsAssumption, StatsTypes, NEW path
    PROVE  /\ NumbersIn(lines, path) \in Int /\ NumbersIn(TextsOf(packets), path) \in Int
           /\ NumbersIn(TextsOf(dropped), path) \in Int /\ NumbersSent(sent, path) \in Int
<1>1. NumbersIn(lines, path) \in Int
  <2>1. lines \in Seq(Lines)
      BY DEF StatsTypes
  <2>2. lines \in Seq(Seq(Int))
      BY <2>1, LinesAre
  <2> QED
      BY <2>2, TotalConcat
<1>2. NumbersIn(TextsOf(packets), path) \in Int /\ NumbersIn(TextsOf(dropped), path) \in Int
  <2>1. packets \in Seq(Packet) /\ dropped \in Seq(Packet)
      BY DEF StatsTypes
  <2> QED
      BY <2>1, PacketsAdd
<1>3. NumbersSent(sent, path) \in Int
  <2>1. sent \in Seq(SentPacket)
      BY DEF StatsTypes
  <2>2. PICK e : e = [text |-> << >>, meant |-> << >>, from |-> "other"]
      OBVIOUS
  <2>3. e \in SentPacket
      BY <2>2 DEF SentPacket
  <2> QED
      BY <2>1, <2>3, SentAdds
<1> QED
    BY <1>1, <1>2, <1>3

LEMMA ReportSum ==
    ASSUME StatsAssumption, StatsTypes, StatsSum, Report
    PROVE  StatsTypes' /\ StatsSum'
<1>1. PICK s, delta : s = Exported[stat] /\ delta = value[s.path] - last_values[s.path]
    OBVIOUS
<1>2. /\ stat \in 1..Len(Exported)
      /\ lines' = IF s.mode = "none" THEN lines
                  ELSE Append(lines, Line(s.path, IF s.mode = "value" THEN value[s.path] ELSE delta))
      /\ last_values' = IF s.mode = "delta" THEN [last_values EXCEPT ![s.path] = value[s.path]] ELSE last_values
      /\ stat' = stat + 1
      /\ UNCHANGED <<value, packets, dropped, sent>>
    BY <1>1 DEF Report, Collecting, StatsTypes, statsHistory
<1>3. s.path \in Paths /\ s.path \in Nat /\ s.mode \in {"value", "delta", "none"}
  <2>1. Exported \in Seq([path : Nat, mode : {"value", "delta", "none"}])
      BY DEF StatsAssumption
  <2>2. Exported[stat] \in [path : Nat, mode : {"value", "delta", "none"}]
      BY <1>2, <2>1, ElementOfSeq
  <2> QED
      BY <1>1, <1>2, <2>2 DEF Paths
<1>4. value[s.path] \in Value1 /\ delta \in Value1 /\ last_values[s.path] \in Int
  <2>1. value[s.path] \in 0..MaxValue /\ last_values[s.path] \in 0..MaxValue
      BY <1>3 DEF StatsTypes
  <2>2. MaxValue \in Nat
      BY SignsAre
  <2> QED
      BY SMTT(30), <1>1, <2>1, <2>2 DEF Value1
<1>5. PICK n : n = IF s.mode = "value" THEN value[s.path] ELSE delta
    OBVIOUS
<1>6. n \in Value1 /\ n \in Int
    BY <1>4, <1>5, SignsAre DEF Value1
<1>7. Line(s.path, n) \in Lines
    BY <1>3, <1>6 DEF Lines
<1>8. StatsTypes'
  <2>1. lines' \in Seq(Lines)
      BY <1>2, <1>5, <1>7, AppendProperties DEF StatsTypes
  <2>2. last_values' \in [Paths -> 0..MaxValue]
      BY <1>2, <1>3 DEF StatsTypes
  <2> QED
      BY SMTT(30), <1>2, <2>1, <2>2 DEF StatsTypes
<1>9. ASSUME NEW path \in DeltaPaths PROVE last_values'[path] = AccountedFor(path)'
  <2>1. path \in Paths /\ (s.path = path => s.mode # "value")
      BY <1>1, <1>2 DEF DeltaPaths
  <2>2. last_values[path] = AccountedFor(path) /\ last_values[path] \in Int
      BY <2>1, SignsAre DEF StatsSum, StatsTypes
  <2>3. PICK rest : rest = NumbersIn(TextsOf(packets), path) + NumbersIn(TextsOf(dropped), path) + NumbersSent(sent, path)
      OBVIOUS
  <2>9. /\ AccountedFor(path) = NumbersIn(lines, path) + NumbersIn(TextsOf(packets), path)
              + NumbersIn(TextsOf(dropped), path) + NumbersSent(sent, path)
        /\ AccountedFor(path)' = NumbersIn(lines', path) + NumbersIn(TextsOf(packets), path)
              + NumbersIn(TextsOf(dropped), path) + NumbersSent(sent, path)
      BY <1>2 DEF AccountedFor
  <2>10. /\ NumbersIn(lines, path) \in Int /\ NumbersIn(lines', path) \in Int
         /\ NumbersIn(TextsOf(packets), path) \in Int
         /\ NumbersIn(TextsOf(dropped), path) \in Int /\ NumbersSent(sent, path) \in Int
    <3>1. lines' \in Seq(Seq(Int))
      <4>1. lines' \in Seq(Lines)
          BY <1>8 DEF StatsTypes
      <4> QED
          BY <4>1, LinesAre
    <3> QED
        BY <3>1, TermsAre, TotalConcat
  <2>4. /\ AccountedFor(path) = NumbersIn(lines, path) + rest /\ AccountedFor(path)' = NumbersIn(lines', path) + rest
        /\ rest \in Int
      BY <2>3, <2>9, <2>10
  <2>5. CASE s.mode = "none"
      BY <1>2, <2>2, <2>4, <2>5
  <2>6. CASE s.mode # "none"
    <3>1. NumbersIn(lines', path) = NumbersIn(lines, path) + Numbers(Line(s.path, n), path) /\ NumbersIn(lines, path) \in Int
        BY <1>2, <1>5, <1>7, <2>6, LinesAdd DEF StatsTypes
    <3>2. Numbers(Line(s.path, n), path) = IF s.path = path THEN n ELSE 0
        BY <1>3, <1>6, NumbersOfLine
    <3>3. CASE s.path # path
      <4>1. last_values'[path] = last_values[path]
          BY <1>2, <2>1, <3>3 DEF StatsTypes
      <4> QED
          BY <2>2, <2>4, <3>1, <3>2, <3>3, <4>1
    <3>4. CASE s.path = path
      <4>1. s.mode = "delta" /\ n = value[s.path] - last_values[s.path]
          BY <1>1, <1>3, <1>5, <2>1, <2>6, <3>4
      <4>2. last_values'[path] = value[path]
          BY <1>2, <2>1, <3>4, <4>1 DEF StatsTypes
      <4>3. value[path] \in Int /\ value[path] = last_values[path] + n
          BY <1>4, <3>4, <4>1 DEF Value1
      <4>4. NumbersIn(lines', path) = NumbersIn(lines, path) + n
          BY <3>1, <3>2, <3>4
      <4> QED
          BY <1>6, <2>2, <2>4, <3>1, <4>2, <4>3, <4>4
    <3> QED
        BY <3>3, <3>4
  <2> QED
      BY <2>5, <2>6
<1> QED
    BY <1>8, <1>9 DEF StatsSum

\* A sequence whose last member may be replaced.
LEMMA LastReplaced ==
    ASSUME NEW S, NEW s \in Seq(S), NEW n \in Nat \ {0}, n = Len(s), NEW new \in S,
           NEW front \in Seq(S), Len(front) = n - 1, \A i \in 1..(n - 1) : front[i] = s[i]
    PROVE  s = front \o <<s[n]>> /\ [s EXCEPT ![n] = new] = front \o <<new>>
<1>1. ASSUME NEW e \in S, NEW t \in Seq(S), Len(t) = n, t[n] = e, \A i \in 1..(n - 1) : t[i] = s[i]
      PROVE  t = front \o <<e>>
  <2>1. PICK u : u = Append(front, e)
      OBVIOUS
  <2>2. u = front \o <<e>>
      BY <2>1, AppendIsConcat
  <2>3. u \in Seq(S) /\ Len(u) = n
      BY <2>1, AppendProperties
  <2>4. \A i \in 1..(n - 1) : u[i] = front[i]
      BY <2>1, AppendProperties
  <2>5. u[n] = e
      BY <2>1, AppendProperties
  <2>6. ASSUME NEW i \in 1..n PROVE u[i] = t[i]
      BY <1>1, <2>4, <2>5
  <2>7. u = t
      BY <1>1, <2>3, <2>6, SeqEqual
  <2> QED
      BY <2>2, <2>7
<1>2. s[n] \in S
    BY ElementOfSeq
<1>3. s = front \o <<s[n]>>
    BY <1>1, <1>2
<1>4. PICK t : t = [s EXCEPT ![n] = new]
    OBVIOUS
<1>5. t \in Seq(S) /\ Len(t) = n /\ t[n] = new /\ \A i \in 1..(n - 1) : t[i] = s[i]
    BY <1>4, ExceptSeq
<1>6. t = front \o <<new>>
    BY <1>1, <1>5
<1> QED
    BY <1>3, <1>4, <1>6

LEMMA NumbersOfNothing == ASSUME NEW path PROVE Numbers(<< >>, path) = 0
<1>1. PICK f, S : f = << >> /\ S = NumberPlaces(f, path)
    OBVIOUS
<1>2. f \in Seq(Int) /\ Len(f) = 0 /\ f \in [{} -> Int]
    BY <1>1
<1>3. S = {} /\ S \subseteq {} /\ IsFiniteSet(S)
    BY <1>1, <1>2, FS_EmptySet DEF NumberPlaces
<1>4. SumFunctionOnSet(f, S) = 0
    BY <1>2, <1>3, SumUnfolds
<1>5. f \in Seq(Int)
    BY <1>2
<1>6. Numbers(f, path) = SumFunctionOnSet(f, S)
    BY <1>1, <1>5, NumbersAdd
<1> QED
    BY <1>1, <1>4, <1>6

\* A line that goes into a packet.
LEMMA WrittenPacket ==
    ASSUME StatsAssumption, NEW pkt \in [text : Seq(Int), meant : Seq(Sample)], Made(pkt), NEW l \in Lines
    PROVE  /\ Written(pkt, l) \in Packet /\ Len(Written(pkt, l).text) = Len(pkt.text) + 4
           /\ \A path : Numbers(Written(pkt, l).text, path) = Numbers(pkt.text, path) + Numbers(l, path)
<1>1. PICK p \in Paths, number \in Value1 : l = Line(p, number)
    BY DEF Lines
<1>2. p \in Nat /\ p \in Int /\ number \in Int /\ number >= -MaxValue
    BY <1>1, PathsAre, SignsAre DEF Value1
<1>3. PICK text, meant, m : text = pkt.text /\ meant = pkt.meant /\ m = Len(meant)
    OBVIOUS
<1>4. text \in Seq(Int)
    BY <1>3
<1>5. meant \in Seq(Sample)
    BY <1>3
<1>6. m \in Nat /\ Len(text) = 4 * m
    BY <1>3, <1>5, LenProperties DEF Made
<1>7. \A n \in 1..m : Place(pkt, n)
    BY <1>3 DEF Made
<1>8. PICK u, s, w : /\ u = Longer(text, p, number)
                     /\ s = [path |-> <<p>>, labels |-> << >>, number |-> number]
                     /\ w = Append(meant, s)
    OBVIOUS
<1>9. Written(pkt, l) = [text |-> u, meant |-> w]
  <2>1. l[1] = p /\ l[3] = number
      BY <1>1 DEF Line
  <2> QED
      BY <1>1, <1>3, <1>8, <2>1 DEF Written, Longer
<1>10. u \in Seq(Int) /\ Len(u) = Len(text) + 4
    BY <1>2, <1>4, <1>8, WrittenIs
<1>11. Extends(u, text)
    BY <1>2, <1>4, <1>8, WrittenIs
<1>12. /\ u[Len(text) + 1] = p /\ u[Len(text) + 2] = ValueBegin
       /\ u[Len(text) + 3] = number /\ u[Len(text) + 4] = Newline
    BY SMTT(30), <1>2, <1>4, <1>8, WrittenIs
<1>13. s \in Sample
    BY <1>2, <1>8 DEF Sample
<1>14. w \in Seq(Sample) /\ Len(w) = m + 1 /\ w # << >>
    BY SMTT(30), <1>3, <1>5, <1>8, <1>13, AppendProperties
<1>15. w[m + 1] = s /\ \A n \in 1..m : w[n] = meant[n]
    BY <1>3, <1>5, <1>8, <1>13, AppendProperties
<1>16. PICK v : v = [text |-> u, meant |-> w]
    OBVIOUS
<1>17. ASSUME NEW n \in 1..m PROVE Place(v, n)
  <2>1. Place(pkt, n)
      BY <1>7
  <2>2. /\ 4 * n - 3 \in 1..Len(text) /\ 4 * n - 2 \in 1..Len(text)
        /\ 4 * n - 1 \in 1..Len(text) /\ 4 * n \in 1..Len(text)
      BY <1>6
  <2>3. /\ u[4 * n - 3] = text[4 * n - 3] /\ u[4 * n - 2] = text[4 * n - 2]
        /\ u[4 * n - 1] = text[4 * n - 1] /\ u[4 * n] = text[4 * n]
      BY <1>11, <2>2 DEF Extends
  <2>4. w[n] = meant[n]
      BY <1>15
  <2> QED
      BY <1>3, <1>16, <2>1, <2>3, <2>4 DEF Place
<1>18. Place(v, m + 1)
  <2>1. /\ 4 * (m + 1) - 3 = Len(text) + 1 /\ 4 * (m + 1) - 2 = Len(text) + 2
        /\ 4 * (m + 1) - 1 = Len(text) + 3 /\ 4 * (m + 1) = Len(text) + 4
      BY <1>6
  <2> QED
      BY <1>1, <1>8, <1>12, <1>15, <1>16, <2>1 DEF Place
<1>19. Made(v)
  <2>1. Len(u) = 4 * Len(w)
      BY <1>6, <1>10, <1>14
  <2>2. \A n \in 1..Len(w) : Place(v, n)
      BY <1>6, <1>14, <1>17, <1>18
  <2> QED
      BY <1>16, <2>1, <2>2 DEF Made
<1>20. v \in Packet
    BY <1>10, <1>14, <1>16, <1>19 DEF Packet
<1>21. LinesOnly(text)
  <2>1. CASE m = 0
    <3>1. Len(text) = 0
        BY <1>6, <2>1
    <3> QED
        BY <1>4, <3>1, EmptySeq DEF LinesOnly
  <2>2. CASE m # 0
    <3>1. Place(pkt, m) /\ 4 * m = Len(text)
        BY <1>6, <1>7, <2>2
    <3> QED
        BY <1>3, <1>4, <3>1 DEF Place, LinesOnly
  <2> QED
      BY <2>1, <2>2
<1>22. ASSUME NEW path PROVE Numbers(u, path) = Numbers(text, path) + Numbers(l, path)
    BY <1>1, <1>2, <1>8, <1>21, NumbersOfWritten
<1> QED
    BY <1>3, <1>9, <1>10, <1>16, <1>20, <1>22

\* The packets are the same up to the last one, which has the line.
PacksInto(front, old, new, l) ==
    /\ front \in Seq(Packet) /\ new \in Packet
    /\ packets' = front \o <<new>>
    /\ packets = front \o old /\ old \in Seq(Packet)
    /\ \A path : NumbersIn(TextsOf(<<new>>), path) = NumbersIn(TextsOf(old), path) + Numbers(l, path)

\* A line that goes into the last packet, or into one of its own.
LEMMA PackSum ==
    ASSUME StatsAssumption, StatsTypes, StatsSum, Pack
    PROVE  StatsTypes' /\ StatsSum'
<1>1. PICK n, l, empty : n = Len(packets) /\ l = Head(lines) /\ empty = [text |-> << >>, meant |-> << >>]
    OBVIOUS
<1>2. /\ lines # << >> /\ lines' = Tail(lines)
      /\ packets' = IF n = 0 \/ ~BelowLimit(packets[n], l) THEN Append(packets, Written(empty, l))
                    ELSE [packets EXCEPT ![n] = Written(packets[n], l)]
      /\ UNCHANGED <<value, last_values, stat, dropped, sent>>
    BY <1>1 DEF Pack, Packing, statsHistory
<1>3. lines \in Seq(Lines) /\ packets \in Seq(Packet)
    BY DEF StatsTypes
<1>4. l \in Lines /\ lines' \in Seq(Lines)
    BY <1>1, <1>2, <1>3, LinesGo
<1>9. \E front, old, new : PacksInto(front, old, new, l)
  <2>1. CASE n = 0 \/ ~BelowLimit(packets[n], l)
    <3>1. empty \in [text : Seq(Int), meant : Seq(Sample)] /\ Made(empty)
        BY <1>1 DEF Made
    <3>2. PICK new : new = Written(empty, l)
        OBVIOUS
    <3>3. new \in Packet /\ \A path : Numbers(new.text, path) = Numbers(<< >>, path) + Numbers(l, path)
        BY <1>1, <1>4, <3>1, <3>2, WrittenPacket
    <3>4. packets' = packets \o <<new>>
        BY <1>2, <1>3, <2>1, <3>2, <3>3, AppendIsConcat
    <3>5. packets = packets \o << >> /\ << >> \in Seq(Packet)
        BY <1>3, ConcatEmptySeq
    <3>6. ASSUME NEW path PROVE NumbersIn(TextsOf(<<new>>), path) = NumbersIn(TextsOf(<< >>), path) + Numbers(l, path)
        BY <3>3, PacketAlone, NumbersOfNothing
    <3>7. PacksInto(packets, << >>, new, l)
        BY <1>3, <3>3, <3>4, <3>5, <3>6 DEF PacksInto
    <3> QED
        BY <3>7
  <2>2. CASE ~(n = 0 \/ ~BelowLimit(packets[n], l))
    <3>1. n \in Nat \ {0} /\ packets[n] \in Packet
        BY <1>1, <1>3, <2>2, LenProperties, ElementOfSeq
    <3>2. PICK new, front : new = Written(packets[n], l) /\ front = SubSeq(packets, 1, n - 1)
        OBVIOUS
    <3>3. new \in Packet /\ \A path : Numbers(new.text, path) = Numbers(packets[n].text, path) + Numbers(l, path)
      <4>1. packets[n] \in [text : Seq(Int), meant : Seq(Sample)] /\ Made(packets[n])
          BY <3>1 DEF Packet
      <4> QED
          BY <1>4, <3>2, <4>1, WrittenPacket
    <3>4. front \in Seq(Packet) /\ Len(front) = n - 1 /\ \A i \in 1..(n - 1) : front[i] = packets[i]
      <4>1. 1 \in Int /\ n - 1 \in Int /\ \A i \in 1..(n - 1) : packets[i] \in Packet
          BY <1>1, <1>3, <3>1, ElementOfSeq
      <4>2. /\ SubSeq(packets, 1, n - 1) \in Seq(Packet)
            /\ Len(SubSeq(packets, 1, n - 1)) = IF 1 <= n - 1 THEN (n - 1) - 1 + 1 ELSE 0
            /\ \A i \in 1..((n - 1) - 1 + 1) : SubSeq(packets, 1, n - 1)[i] = packets[1 + i - 1]
          BY <4>1, SubSeqProperties
      <4> QED
          BY <3>1, <3>2, <4>2
    <3>5. packets = front \o <<packets[n]>> /\ packets' = front \o <<new>>
        BY SMTT(30), <1>1, <1>2, <1>3, <2>2, <3>1, <3>2, <3>3, <3>4, LastReplaced
    <3>6. ASSUME NEW path
          PROVE  NumbersIn(TextsOf(<<new>>), path) = NumbersIn(TextsOf(<<packets[n]>>), path) + Numbers(l, path)
        BY <3>1, <3>3, PacketAlone
    <3>7. <<packets[n]>> \in Seq(Packet)
        BY <3>1
    <3>8. PacksInto(front, <<packets[n]>>, new, l)
        BY <3>3, <3>4, <3>5, <3>6, <3>7 DEF PacksInto
    <3> QED
        BY <3>8
  <2> QED
      BY <2>1, <2>2
<1>10. PICK front, old, new : PacksInto(front, old, new, l)
    BY <1>9
<1>5. /\ front \in Seq(Packet) /\ new \in Packet
      /\ packets' = front \o <<new>>
      /\ packets = front \o old /\ old \in Seq(Packet)
      /\ \A path : NumbersIn(TextsOf(<<new>>), path) = NumbersIn(TextsOf(old), path) + Numbers(l, path)
    BY <1>10 DEF PacksInto
<1>6. <<new>> \in Seq(Packet)
    BY <1>5
<1>7. StatsTypes'
  <2>1. packets' \in Seq(Packet)
      BY <1>5, <1>6, ConcatProperties
  <2> QED
      BY <1>2, <1>4, <2>1 DEF StatsTypes
<1>8. ASSUME NEW path PROVE AccountedFor(path)' = AccountedFor(path)
  <2>1. /\ NumbersIn(lines, path) = Numbers(l, path) + NumbersIn(lines', path)
        /\ NumbersIn(lines', path) \in Int /\ Numbers(l, path) \in Int
      BY <1>1, <1>2, <1>3, LinesGo
  <2>2. front \in Seq(Packet) /\ old \in Seq(Packet)
      BY <1>5
  <2>3. /\ NumbersIn(TextsOf(packets), path) = NumbersIn(TextsOf(front), path) + NumbersIn(TextsOf(old), path)
        /\ NumbersIn(TextsOf(front), path) \in Int /\ NumbersIn(TextsOf(old), path) \in Int
      BY <1>5, <2>2, PacketsAdd
  <2>4. NumbersIn(TextsOf(packets'), path) = NumbersIn(TextsOf(front), path) + NumbersIn(TextsOf(<<new>>), path)
      BY <1>5, <1>6, <2>2, PacketsAdd
  <2>5. NumbersIn(TextsOf(<<new>>), path) = NumbersIn(TextsOf(old), path) + Numbers(l, path)
      BY <1>5
  <2>6. NumbersIn(TextsOf(dropped), path) \in Int /\ NumbersSent(sent, path) \in Int
      BY TermsAre
  <2>7. /\ AccountedFor(path) = NumbersIn(lines, path) + NumbersIn(TextsOf(packets), path)
              + NumbersIn(TextsOf(dropped), path) + NumbersSent(sent, path)
        /\ AccountedFor(path)' = NumbersIn(lines', path) + NumbersIn(TextsOf(packets'), path)
              + NumbersIn(TextsOf(dropped), path) + NumbersSent(sent, path)
      BY <1>2 DEF AccountedFor
  <2> QED
      BY <2>1, <2>3, <2>4, <2>5, <2>6, <2>7
<1> QED
    BY <1>2, <1>7, <1>8 DEF StatsSum

\* The first packet is sent.
LEMMA SendSum ==
    ASSUME StatsAssumption, StatsTypes, StatsSum, Send
    PROVE  StatsTypes' /\ StatsSum'
<1>1. PICK e, pkt : pkt = packets[1] /\ e = [text |-> pkt.text, meant |-> pkt.meant, from |-> "agent"]
    OBVIOUS
<1>2. /\ packets # << >> /\ packets' = Tail(packets) /\ sent' = Append(sent, e)
      /\ UNCHANGED <<value, last_values, stat, lines, dropped>>
    BY <1>1 DEF Send
<1>3. packets \in Seq(Packet)
    BY DEF StatsTypes
<1>4. sent \in Seq(SentPacket)
    BY DEF StatsTypes
<1>5. pkt \in Packet /\ pkt = Head(packets) /\ packets' \in Seq(Packet)
    BY <1>1, <1>2, <1>3, HeadTailProperties
<1>6. packets = <<pkt>> \o packets'
    BY <1>1, <1>2, <1>3, <1>5
<1>7. e \in SentPacket /\ e.from = "agent" /\ e.text = pkt.text
    BY <1>1, <1>5 DEF Packet, SentPacket
<1>8. StatsTypes'
  <2>1. sent' \in Seq(SentPacket)
      BY <1>2, <1>4, <1>7, AppendProperties
  <2> QED
      BY <1>2, <1>5, <2>1 DEF StatsTypes
<1>9. ASSUME NEW path PROVE AccountedFor(path)' = AccountedFor(path)
  <2>1. packets' \in Seq(Packet)
      BY <1>5
  <2>2. /\ <<pkt>> \in Seq(Packet) /\ Numbers(pkt.text, path) \in Int
        /\ NumbersIn(TextsOf(<<pkt>>), path) = Numbers(pkt.text, path)
      BY <1>5, PacketAlone
  <2>3. /\ NumbersIn(TextsOf(packets'), path) \in Int
        /\ NumbersIn(TextsOf(packets), path) = Numbers(pkt.text, path) + NumbersIn(TextsOf(packets'), path)
      BY ZenonT(40), <1>6, <2>1, <2>2, PacketsAdd
  <2>4. /\ NumbersSent(sent', path) = NumbersSent(sent, path) + Numbers(pkt.text, path)
      BY <1>2, <1>4, <1>7, SentAdds
  <2>5. /\ NumbersIn(TextsOf(dropped), path) \in Int /\ NumbersSent(sent, path) \in Int
        /\ NumbersIn(lines, path) \in Int
      BY TermsAre
  <2>6. /\ AccountedFor(path) = NumbersIn(lines, path) + NumbersIn(TextsOf(packets), path)
              + NumbersIn(TextsOf(dropped), path) + NumbersSent(sent, path)
        /\ AccountedFor(path)' = NumbersIn(lines, path) + NumbersIn(TextsOf(packets'), path)
              + NumbersIn(TextsOf(dropped), path) + NumbersSent(sent', path)
      BY <1>2 DEF AccountedFor
  <2> QED
      BY <2>2, <2>3, <2>4, <2>5, <2>6
<1> QED
    BY <1>2, <1>8, <1>9 DEF StatsSum

\* The packets that are left are dropped.
LEMMA SendFailsSum ==
    ASSUME StatsAssumption, StatsTypes, StatsSum, SendFails
    PROVE  StatsTypes' /\ StatsSum'
<1>1. /\ packets # << >> /\ packets' = << >> /\ dropped' = dropped \o packets
      /\ UNCHANGED <<value, last_values, stat, lines, sent>>
    BY DEF SendFails
<1>2. packets \in Seq(Packet)
    BY DEF StatsTypes
<1>3. dropped \in Seq(Packet)
    BY DEF StatsTypes
<1>4. StatsTypes'
  <2>1. dropped' \in Seq(Packet)
      BY <1>1, <1>2, <1>3, ConcatProperties
  <2> QED
      BY <1>1, <2>1 DEF StatsTypes
<1>5. ASSUME NEW path PROVE AccountedFor(path)' = AccountedFor(path)
  <2>1. /\ NumbersIn(TextsOf(dropped'), path) = NumbersIn(TextsOf(dropped), path) + NumbersIn(TextsOf(packets), path)
      BY <1>1, <1>2, <1>3, PacketsAdd
  <2>2. NumbersIn(TextsOf(packets'), path) = 0
    <3>1. packets[1] \in Packet
        BY <1>1, <1>2
    <3> QED
        BY <1>1, <3>1, PacketAlone
  <2>3. /\ NumbersIn(TextsOf(dropped), path) \in Int /\ NumbersSent(sent, path) \in Int
        /\ NumbersIn(lines, path) \in Int /\ NumbersIn(TextsOf(packets), path) \in Int
      BY TermsAre
  <2>4. /\ AccountedFor(path) = NumbersIn(lines, path) + NumbersIn(TextsOf(packets), path)
              + NumbersIn(TextsOf(dropped), path) + NumbersSent(sent, path)
        /\ AccountedFor(path)' = NumbersIn(lines, path) + NumbersIn(TextsOf(packets'), path)
              + NumbersIn(TextsOf(dropped'), path) + NumbersSent(sent, path)
      BY <1>1 DEF AccountedFor
  <2> QED
      BY <2>1, <2>2, <2>3, <2>4
<1> QED
    BY <1>1, <1>4, <1>5 DEF StatsSum

\* A packet that is not the agent's.
LEMMA OtherSum ==
    ASSUME StatsAssumption, StatsTypes, StatsSum, NEW e \in SentPacket, e.from # "agent",
           sent' = Append(sent, e), UNCHANGED <<value, agentVars, dropped>>
    PROVE  StatsTypes' /\ StatsSum'
<1>1. sent \in Seq(SentPacket)
    BY DEF StatsTypes
<1>2. StatsTypes'
  <2>1. sent' \in Seq(SentPacket)
      BY <1>1, AppendProperties
  <2> QED
      BY <2>1 DEF StatsTypes, agentVars
<1>3. ASSUME NEW path PROVE AccountedFor(path)' = AccountedFor(path)
  <2>1. NumbersSent(sent', path) = NumbersSent(sent, path) + 0 /\ NumbersSent(sent, path) \in Int
      BY <1>1, SentAdds
  <2>2. NumbersSent(sent', path) = NumbersSent(sent, path)
      BY <2>1
  <2> QED
      BY <2>2 DEF AccountedFor, agentVars
<1> QED
    BY <1>2, <1>3 DEF StatsSum, agentVars

\* What is on its way was sent.
WasSent == \A p \in net : p.id \in 1..Len(sent) /\ p.text = sent[p.id].text

LEMMA StepSum ==
    ASSUME StatsAssumption, StatsTypes, StatsSum, WasSent, [StatsNext]_statsVars
    PROVE  StatsTypes' /\ StatsSum'
<1>1. ASSUME NEW path \in Paths, NEW by \in {1, -1}, Count(path, by) PROVE StatsTypes' /\ StatsSum'
  <2>1. value' \in [Paths -> 0..MaxValue]
      BY <1>1 DEF Count, StatsTypes
  <2> QED
      BY <1>1, <2>1, SumKept DEF Count, Unsent, agentVars, statsHistory, StatsTypes
<1>2. CASE WakeUp \/ Reported \/ Stop
    BY <1>2, SumKept DEF WakeUp, Reported, Stop, Unsent, statsHistory, StatsTypes
<1>3. CASE Report
    BY <1>3, ReportSum
<1>4. CASE Pack
    BY <1>4, PackSum
<1>5. CASE Send
    BY <1>5, SendSum
<1>6. CASE SendFails
    BY <1>6, SendFailsSum
<1>7. ASSUME NEW p \in net, Lose(p) \/ Receive(p) PROVE StatsTypes' /\ StatsSum'
    BY <1>7, SumKept DEF Lose, Receive, Unsent, agentVars, statsHistory, StatsTypes
<1>8. ASSUME NEW p \in net, Repeat(p) PROVE StatsTypes' /\ StatsSum'
  <2>1. sent[p.id] \in SentPacket
      BY ElementOfSeq DEF StatsTypes, WasSent
  <2>2. PICK e : e = [sent[p.id] EXCEPT !.from = "network"]
      OBVIOUS
  <2>3. e \in SentPacket /\ e.from # "agent"
      BY <2>1, <2>2 DEF SentPacket
  <2> QED
      BY <1>8, <2>2, <2>3, OtherSum DEF Repeat
<1>9. ASSUME NEW f \in Foreign, SendForeign(f) PROVE StatsTypes' /\ StatsSum'
  <2>4. f.text \in Seq(Int) /\ (f.meant # << >> => WellFormed(f.text, f.meant))
      BY DEF StatsAssumption
  <2>5. << >> \in Seq(Sample)
      OBVIOUS
  <2>6. WellFormed(f.text, f.meant) => f.meant \in Seq(Sample)
      BY DEF WellFormed
  <2>1. f.text \in Seq(Int) /\ f.meant \in Seq(Sample)
      BY <2>4, <2>5, <2>6
  <2>2. PICK e : e = [text |-> f.text, meant |-> f.meant, from |-> "other"]
      OBVIOUS
  <2>3. e \in SentPacket /\ e.from # "agent"
      BY <2>1, <2>2 DEF SentPacket
  <2> QED
      BY <1>9, <2>2, <2>3, OtherSum DEF SendForeign
<1>10. ASSUME NEW job \in jobs, HandleSample(job) PROVE StatsTypes' /\ StatsSum'
    BY <1>10, SumKept DEF HandleSample, Unsent, agentVars, statsHistory, StatsTypes
<1>11. CASE UNCHANGED statsVars
    BY <1>11, SumKept DEF statsVars, Unsent, agentVars, statsHistory, StatsTypes
<1> QED
    BY <1>1, <1>2, <1>3, <1>4, <1>5, <1>6, <1>7, <1>8, <1>9, <1>10, <1>11 DEF StatsNext

\* Nothing has been reported yet.
LEMMA InitSum ==
    ASSUME StatsAssumption, StatsInit
    PROVE  StatsTypes /\ StatsSum
<1>1. StatsTypes
    BY SignsAre DEF StatsInit, StatsTypes
<1>2. ASSUME NEW path \in DeltaPaths PROVE last_values[path] = AccountedFor(path)
  <2>1. last_values[path] = 0
      BY DEF StatsInit, DeltaPaths
  <2>2. NumbersIn(<< >>, path) = 0
    <3>1. << >> \in Seq(Seq(Int)) /\ << >> \o << >> = << >>
        OBVIOUS
    <3>2. /\ NumbersIn(<< >>, path) \in Int
          /\ NumbersIn(<< >> \o << >>, path) = NumbersIn(<< >>, path) + NumbersIn(<< >>, path)
        BY <3>1, TotalConcat
    <3> QED
        BY <3>1, <3>2
  <2>3. NumbersIn(TextsOf(<< >>), path) = 0
    <3>1. TextsOf(<< >>) = << >>
        BY DEF TextsOf
    <3> QED
        BY <2>2, <3>1
  <2>4. NumbersSent(<< >>, path) = 0
    <3>1. 1..Len(<< >>) = {}
        OBVIOUS
    <3>2. PICK f : f = [k \in {} |-> Numbers(<< >>[k].text, path)]
        OBVIOUS
    <3>3. NumbersSent(<< >>, path) = SumFunctionOnSet(f, {})
      <4>1. {k \in {} : << >>[k].from = "agent"} = {}
          OBVIOUS
      <4> QED
          BY <3>1, <3>2, <4>1 DEF NumbersSent
    <3>4. f \in [{} -> Int] /\ {} \subseteq {} /\ IsFiniteSet({})
        BY <3>2, FS_EmptySet
    <3>5. SumFunctionOnSet(f, {}) = 0
        BY <3>4, SumUnfolds
    <3> QED
        BY <3>3, <3>5
  <2> QED
      BY <2>1, <2>2, <2>3, <2>4 DEF AccountedFor, StatsInit
<1> QED
    BY <1>1, <1>2 DEF StatsSum

-----------------------------------------------------------------------------
(* What the server reads *)

LEMMA MinIs ==
    ASSUME NEW S, S \subseteq Nat, NEW e \in S, \A i \in S : e <= i
    PROVE  Min(S) = e
<1>1. \A x \in S : (\A y \in S : x <= y) => x = e
    OBVIOUS
<1> QED
    BY <1>1 DEF Min

\* A part goes up to the first of the signs.
LEMMA PartEndIs ==
    ASSUME NEW text \in Seq(Int), NEW mark \in Nat, NEW signs, NEW e \in mark..Len(text) + 1,
           \A i \in mark..e - 1 : text[i] \notin signs, e <= Len(text) => text[e] \in signs
    PROVE  PartEnd(text, mark, signs) = e
<1>1. PICK S, n : n = Len(text) /\ S = {i \in mark..n + 1 : i <= n => text[i] \in signs}
    OBVIOUS
<1>2. n \in Nat
    BY <1>1
<1>3. S \subseteq Nat /\ e \in S
    BY <1>1, <1>2
<1>4. ASSUME NEW i \in S PROVE e <= i
  <2>1. i \in mark..n + 1 /\ (i <= n => text[i] \in signs)
      BY <1>1
  <2>2. CASE i < e
    <3>1. i \in mark..e - 1 /\ i <= n
        BY <1>1, <1>2, <2>1, <2>2
    <3> QED
        BY <2>1, <3>1
  <2>3. CASE ~(i < e)
      BY <1>2, <2>1, <2>3
  <2> QED
      BY <2>2, <2>3
<1>5. Min(S) = e
    BY <1>3, <1>4, MinIs
<1> QED
    BY <1>1, <1>5 DEF PartEnd

LEMMA AfterNewlinesIs ==
    ASSUME NEW text \in Seq(Int), NEW mark \in Nat, NEW e \in mark..Len(text) + 1,
           \A i \in mark..e - 1 : text[i] \in {Newline, Return}, e <= Len(text) => text[e] \notin {Newline, Return}
    PROVE  AfterNewlines(text, mark) = e
<1>1. PICK S, n : n = Len(text) /\ S = {i \in mark..n + 1 : i <= n => text[i] \notin {Newline, Return}}
    OBVIOUS
<1>2. n \in Nat
    BY <1>1
<1>3. S \subseteq Nat /\ e \in S
    BY <1>1, <1>2
<1>4. ASSUME NEW i \in S PROVE e <= i
  <2>1. i \in mark..n + 1 /\ (i <= n => text[i] \notin {Newline, Return})
      BY <1>1
  <2>2. CASE i < e
    <3>1. i \in mark..e - 1 /\ i <= n
        BY <1>1, <1>2, <2>1, <2>2
    <3> QED
        BY <2>1, <3>1
  <2>3. CASE ~(i < e)
      BY <1>2, <2>1, <2>3
  <2> QED
      BY <2>2, <2>3
<1>5. Min(S) = e
    BY <1>3, <1>4, MinIs
<1> QED
    BY <1>1, <1>5 DEF AfterNewlines

\* It does not end before it begins, nor behind the text.
LEMMA PartEndBounds ==
    ASSUME NEW text \in Seq(Int), NEW mark \in Nat, mark <= Len(text) + 1, NEW signs
    PROVE  PartEnd(text, mark, signs) \in mark..Len(text) + 1
<1>1. PICK S, n : n = Len(text) /\ S = {i \in mark..n + 1 : i <= n => text[i] \in signs}
    OBVIOUS
<1>2. n \in Nat
    BY <1>1
<1>3. S \subseteq Nat /\ n + 1 \in S
    BY <1>1, <1>2
<1>4. PICK e \in S : \A i \in S : e <= i
    BY <1>3, LeastNumber
<1>5. Min(S) = e
    BY <1>3, <1>4, MinIs
<1> QED
    BY <1>1, <1>4, <1>5 DEF PartEnd

\* Labels are read from the end: the place looks at those behind it only.
LEMMA LabelsLocal ==
    ASSUME NEW text \in Seq(Int), NEW g, NEW h, NEW p \in 1..Len(text) + 1,
           \A q \in p + 1..Len(text) + 1 : g[q] = h[q]
    PROVE  LabelsAt(text, g, p) = LabelsAt(text, h, p)
<1>1. CASE p > Len(text)
    BY <1>1 DEF LabelsAt
<1>2. CASE ~(p > Len(text))
  <2>1. PICK n, cur : n = Len(text) /\ cur = PartEnd(text, p + 1, {LabelEnd, ValueBegin})
      OBVIOUS
  <2>2. n \in Nat /\ p + 1 \in Nat /\ p + 1 <= Len(text) + 1
      BY <1>2, <2>1
  <2>3. cur \in p + 1..n + 1
      BY <2>1, <2>2, PartEndBounds
  <2>4. ~(cur > n) => g[cur + 1] = h[cur + 1]
    <3>1. ~(cur > n) => cur + 1 \in p + 1..n + 1
        BY <2>2, <2>3
    <3> QED
        BY <2>1, <3>1
  <2> QED
      BY <2>1, <2>4 DEF LabelsAt
<1> QED
    BY <1>1, <1>2

LEMMA LabelsUnfold ==
    ASSUME NEW text \in Seq(Int)
    PROVE  \A p \in 1..Len(text) + 1 : Labels(text)[p] = LabelsAt(text, Labels(text), p)
<1>1. PICK n, D : n = Len(text) + 1 /\ D = 1..n
    OBVIOUS
<1>2. n \in Nat
    BY <1>1
<1> DEFINE Upto(k, g) == /\ g = [p \in D |-> g[p]]
                         /\ \A p \in D : p > n - k => g[p] = LabelsAt(text, g, p)
           Missing == {k \in Nat : k <= n /\ ~\E g : Upto(k, g)}
<1>3. 0 \notin Missing
  <2>1. PICK g : g = [p \in D |-> BadSample]
      OBVIOUS
  <2>2. Upto(0, g)
      BY <1>1, <1>2, <2>1
  <2> QED
      BY <2>2
<1>4. ASSUME NEW k \in Nat, k + 1 <= n, NEW g, Upto(k, g) PROVE \E h : Upto(k + 1, h)
  <2>1. PICK q, h : q = n - k /\ h = [p \in D |-> IF p = q THEN LabelsAt(text, g, q) ELSE g[p]]
      OBVIOUS
  <2>2. q \in D /\ q \in Nat
      BY <1>1, <1>2, <1>4, <2>1
  <2>3. \A p \in D : p > q => h[p] = g[p]
      BY <1>1, <1>2, <2>1, <2>2
  <2>4. ASSUME NEW p \in D, p >= q PROVE LabelsAt(text, h, p) = LabelsAt(text, g, p)
    <3>1. \A r \in p + 1..Len(text) + 1 : h[r] = g[r]
        BY <1>1, <1>2, <2>2, <2>3, <2>4
    <3>2. p \in 1..Len(text) + 1
        BY <1>1
    <3> QED
        BY <3>1, <3>2, LabelsLocal
  <2>5. h[q] = LabelsAt(text, h, q)
      BY <2>1, <2>2, <2>4
  <2>6. ASSUME NEW p \in D, p > q PROVE h[p] = LabelsAt(text, h, p)
    <3>1. g[p] = LabelsAt(text, g, p)
        BY <1>4, <2>1, <2>6
    <3>2. p >= q
        BY <1>1, <1>2, <2>2, <2>6
    <3> QED
        BY <2>3, <2>4, <2>6, <3>1, <3>2
  <2>7. h = [p \in D |-> h[p]]
      BY <2>1
  <2>8. \A p \in D : p > n - (k + 1) => p = q \/ p > q
      BY <1>1, <1>2, <2>1
  <2>9. Upto(k + 1, h)
      BY <2>5, <2>6, <2>7, <2>8
  <2> QED
      BY <2>9
<1>5. Missing = {}
  <2>1. SUFFICES ASSUME Missing # {} PROVE FALSE
      OBVIOUS
  <2>2. Missing \subseteq Nat
      OBVIOUS
  <2>3. PICK m \in Missing : \A k \in Missing : m <= k
      BY <2>1, <2>2, LeastNumber
  <2>4. m \in Nat /\ m # 0 /\ m <= n /\ ~\E g : Upto(m, g)
      BY <1>3, <2>3
  <2>5. m - 1 \in Nat /\ m - 1 \notin Missing /\ (m - 1) + 1 = m /\ m - 1 <= n
      BY <1>2, <2>2, <2>3, <2>4
  <2>6. \E g : Upto(m - 1, g)
      BY <2>5
  <2> HIDE DEF Upto
  <2>7. \E h : Upto((m - 1) + 1, h)
      BY <1>4, <2>4, <2>5, <2>6
  <2> QED
      BY <2>4, <2>5, <2>7
<1>6. PICK g : Upto(n, g)
    BY <1>2, <1>5
<1>7. g = [p \in D |-> LabelsAt(text, g, p)]
    BY <1>1, <1>2, <1>6
<1>8. Labels(text) = CHOOSE f : f = [p \in D |-> LabelsAt(text, f, p)]
    BY <1>1 DEF Labels
<1>9. PICK f : f = CHOOSE x : x = [p \in D |-> LabelsAt(text, x, p)]
    OBVIOUS
<1>10. f = [p \in D |-> LabelsAt(text, f, p)]
    BY <1>7, <1>9
<1>11. Labels(text) = f
    BY <1>8, <1>9
<1>12. \A p \in D : f[p] = LabelsAt(text, f, p)
    BY <1>10
<1> QED
    BY <1>1, <1>11, <1>12

Naturals(text, m, e) == \A i \in m..e : text[i] \in Nat

\* A part that stands in the text is what is cut out there.
LEMMA ReadsIs ==
    ASSUME NEW text, NEW m \in Nat, NEW part \in Seq(Nat), Reads(text, m, part), NEW e, e = m + Len(part) - 1
    PROVE  SubSeq(text, m, e) = part /\ Naturals(text, m, e)
<1>1. PICK n, cut : n = Len(part) /\ cut = SubSeq(text, m, e)
    OBVIOUS
<1>2. n \in Nat /\ e \in Int /\ m \in Int /\ e - m + 1 = n
    BY <1>1, LenProperties
<1>3. \A i \in 1..n : text[m + i - 1] = part[i] /\ part[i] \in Nat
    BY <1>1, ElementOfSeq DEF Reads
<1>4. \A i \in m..e : text[i] \in Nat
  <2>1. SUFFICES ASSUME NEW i \in m..e PROVE text[i] \in Nat
      OBVIOUS
  <2>2. i - m + 1 \in 1..n /\ m + (i - m + 1) - 1 = i
      BY <1>1, <1>2
  <2> QED
      BY <1>3, <2>2
<1>5. cut \in Seq(Nat) /\ Len(cut) = IF m <= e THEN e - m + 1 ELSE 0
    BY <1>1, <1>2, <1>4, SubSeqProperties
<1>6. \A i \in 1..e - m + 1 : cut[i] = text[m + i - 1]
    BY <1>1, <1>2, <1>4, SubSeqProperties
<1>7. Len(cut) = n
    BY <1>2, <1>5
<1>8. \A i \in 1..n : cut[i] = part[i]
    BY <1>2, <1>3, <1>6
<1>9. cut = part
    BY <1>1, <1>5, <1>7, <1>8, SeqEqual
<1> QED
    BY <1>1, <1>4, <1>9 DEF Naturals

\* What stands in front of a place whose label is read there.
LabelHere(text, p, label, q) ==
    /\ p \in 1..Len(text) /\ label \in Seq(Nat) \X Seq(Nat) /\ label[2] # << >> /\ ReadsLabel(text, p, label)
    /\ q = p + Len(label[1]) + Len(label[2]) + 3 /\ q <= Len(text)

LEMMA LabelRead ==
    ASSUME StatsAssumption, NEW text \in Seq(Int), NEW behind, NEW p, NEW label, NEW q, LabelHere(text, p, label, q)
    PROVE  LabelsAt(text, behind, p) = Parsed(behind[q].how, <<label>> \o behind[q].labels, behind[q].mark)
<1>1. PICK a, b, m, n, l, split, cur :
        /\ a = label[1] /\ b = label[2] /\ m = Len(a) /\ n = Len(b) /\ l = Len(text)
        /\ split = p + m + 1 /\ cur = split + n + 1
    OBVIOUS
<1>2. a \in Seq(Nat) /\ b \in Seq(Nat) /\ label = <<a, b>> /\ b # << >>
    BY <1>1 DEF LabelHere
<1>14. m \in Nat
    BY <1>1, <1>2, LenProperties
<1>15. n \in Nat \ {0}
    BY <1>1, <1>2, EmptySeq
<1>16. l \in Nat
    BY <1>1, LenProperties
<1>17. p \in 1..l /\ q <= l
    BY <1>1 DEF LabelHere
<1>18. q = p + m + n + 3
    BY <1>1 DEF LabelHere
<1>19. split = p + m + 1 /\ cur = split + n + 1
    BY <1>1
<1>3. m \in Nat /\ n \in Nat \ {0} /\ l \in Nat /\ p \in Nat
    BY <1>14, <1>15, <1>16, <1>17
<1>4. text[p] = LabelBegin /\ text[split] = LabelSplit /\ text[cur] = LabelEnd
    BY <1>1 DEF ReadsLabel, LabelHere
<1>5. Reads(text, p + 1, a) /\ Reads(text, split + 1, b)
    BY <1>1 DEF ReadsLabel, LabelHere
<1>8. split \in Nat /\ cur \in Nat /\ p < split /\ split + 1 < cur /\ cur < l /\ cur + 1 = q
    BY <1>3, <1>17, <1>18, <1>19
<1>20. SubSeq(text, p + 1, split - 1) = a /\ Naturals(text, p + 1, split - 1)
  <2>1. PICK from, e : from = p + 1 /\ e = split - 1
      OBVIOUS
  <2>2. from \in Nat
      BY <1>3, <2>1
  <2>3. e = from + Len(a) - 1
    <3>1. e = from + m - 1
        BY <1>3, <1>19, <2>1
    <3> QED
        BY <1>1, <3>1
  <2>4. a \in Seq(Nat)
      BY <1>2
  <2>5. Reads(text, from, a)
      BY <1>5, <2>1
  <2>6. SubSeq(text, from, e) = a /\ Naturals(text, from, e)
      BY <2>2, <2>3, <2>4, <2>5, ReadsIs
  <2> QED
      BY <2>1, <2>6
<1>21. SubSeq(text, split + 1, cur - 1) = b /\ Naturals(text, split + 1, cur - 1)
  <2>1. PICK from, e : from = split + 1 /\ e = cur - 1
      OBVIOUS
  <2>2. from \in Nat
      BY <1>8, <2>1
  <2>3. e = from + Len(b) - 1
    <3>1. e = from + n - 1
        BY <1>3, <1>8, <1>19, <2>1
    <3> QED
        BY <1>1, <3>1
  <2>4. b \in Seq(Nat)
      BY <1>2
  <2>5. Reads(text, from, b)
      BY <1>5, <2>1
  <2>6. SubSeq(text, from, e) = b /\ Naturals(text, from, e)
      BY <2>2, <2>3, <2>4, <2>5, ReadsIs
  <2> QED
      BY <2>1, <2>6
<1>6. SubSeq(text, p + 1, split - 1) = a /\ \A i \in p + 1..split - 1 : text[i] \in Nat
    BY <1>20 DEF Naturals
<1>7. SubSeq(text, split + 1, cur - 1) = b /\ \A i \in split + 1..cur - 1 : text[i] \in Nat
    BY <1>21 DEF Naturals
<1>9. /\ \A i \in p + 1..cur - 1 : text[i] \notin {LabelEnd, ValueBegin}
      /\ \A i \in p + 1..split - 1 : text[i] # LabelSplit
  <2>1. \A i \in p + 1..cur - 1 : i \in p + 1..split - 1 \/ i = split \/ i \in split + 1..cur - 1
      BY <1>3, <1>8
  <2>2. \A i \in p + 1..cur - 1 : text[i] \in Nat \/ text[i] = LabelSplit
      BY <1>4, <1>6, <1>7, <2>1
  <2>3. /\ LabelEnd \notin Nat /\ ValueBegin \notin Nat /\ LabelSplit \notin Nat
        /\ LabelSplit # LabelEnd /\ LabelSplit # ValueBegin
      BY SignsAre
  <2> QED
      BY <1>6, <2>2, <2>3
<1>10. PartEnd(text, p + 1, {LabelEnd, ValueBegin}) = cur
  <2>6. p + 1 \in Nat /\ cur \in p + 1..l + 1
      BY <1>3, <1>8
  <2>1. p + 1 \in Nat /\ cur \in p + 1..Len(text) + 1
      BY <1>1, <2>6
  <2>2. PICK signs : signs = {LabelEnd, ValueBegin}
      OBVIOUS
  <2>3. cur <= Len(text) => text[cur] \in signs
      BY <1>4, <2>2
  <2>4. \A i \in p + 1..cur - 1 : text[i] \notin signs
      BY <1>9, <2>2
  <2>5. PartEnd(text, p + 1, signs) = cur
      BY <2>1, <2>3, <2>4, PartEndIs
  <2> QED
      BY <2>2, <2>5
<1>11. Min({i \in p + 1..cur : i < cur => text[i] = LabelSplit}) = split
  <2>1. PICK S : S = {i \in p + 1..cur : i < cur => text[i] = LabelSplit}
      OBVIOUS
  <2>2. S \subseteq Nat /\ split \in S
      BY <1>3, <1>4, <1>8, <2>1
  <2>3. ASSUME NEW i \in S PROVE split <= i
    <3>1. i \in p + 1..cur /\ (i < cur => text[i] = LabelSplit)
        BY <2>1
    <3>2. i \notin p + 1..split - 1
        BY <1>8, <1>9, <3>1
    <3> QED
        BY <1>3, <1>8, <3>1, <3>2
  <2> QED
      BY <2>1, <2>2, <2>3, MinIs
<1>12. ~(p > l) /\ text[p] # ValueBegin /\ text[p] = LabelBegin /\ ~(split + 1 >= cur) /\ ~(cur > l)
  <2>1. LabelBegin # ValueBegin
      BY SignsAre
  <2> QED
      BY <1>3, <1>4, <1>8, <1>17, <2>1
<1>13. LabelsAt(text, behind, p) =
         Parsed(behind[cur + 1].how,
                <<<<SubSeq(text, p + 1, split - 1), SubSeq(text, split + 1, cur - 1)>>>> \o behind[cur + 1].labels,
                behind[cur + 1].mark)
    BY <1>1, <1>10, <1>11, <1>12 DEF LabelsAt
<1> QED
    BY <1>2, <1>6, <1>7, <1>8, <1>13

\* The labels of a sample are read.
LEMMA LabelsRead ==
    ASSUME StatsAssumption, NEW text \in Seq(Int), NEW s \in Sample, NEW marks \in Marks(text, s),
           NEW begin, NEW next, Spells(text, begin, next, s, marks),
           \A l \in 1..Len(s.labels) : s.labels[l][2] # << >>
    PROVE  Labels(text)[marks[1]] = Parsed("value", s.labels, marks[Len(s.labels) + 1] + 1)
<1>1. PICK n, labels, table, colon :
        n = Len(s.labels) /\ labels = s.labels /\ table = Labels(text) /\ colon = marks[n + 1]
    OBVIOUS
<1>2. labels \in Seq(Seq(Nat) \X Seq(Nat)) /\ n \in Nat
    BY <1>1, LenProperties DEF Sample
<1>3. \A l \in 1..n + 1 : marks[l] \in 1..Len(text)
    BY <1>1 DEF Marks
<1>4. Len(text) \in Nat
    OBVIOUS
<1>5. \A l \in 1..n + 1 : table[marks[l]] = LabelsAt(text, table, marks[l])
  <2>1. \A l \in 1..n + 1 : marks[l] \in 1..Len(text) + 1
      BY <1>3, <1>4
  <2> QED
      BY <1>1, <2>1, LabelsUnfold
<1>6. text[colon] = ValueBegin /\ colon \in 1..Len(text)
    BY <1>1, <1>2, <1>3 DEF Spells
<1>7. table[colon] = Parsed("value", << >>, colon + 1)
  <2>1. LabelsAt(text, table, colon) = Parsed("value", << >>, colon + 1)
      BY <1>4, <1>6 DEF LabelsAt
  <2>2. n + 1 \in 1..n + 1
      BY <1>2
  <2> QED
      BY <1>1, <1>5, <2>1, <2>2
<1> DEFINE Rest(l) == SubSeq(labels, l, n)
           Right(l) == table[marks[l]] = Parsed("value", Rest(l), colon + 1)
           Wrong == {k \in Nat : k <= n /\ ~Right(n + 1 - k)}
<1>8. 0 \notin Wrong
  <2>1. Rest(n + 1) = << >>
      BY <1>2, SubSeqEmpty
  <2>2. marks[n + 1] = colon
      BY <1>1
  <2>3. Right(n + 1)
    <3> HIDE DEF Rest
    <3> QED
        BY <1>7, <2>1, <2>2
  <2>4. n + 1 - 0 = n + 1
      BY <1>2
  <2> HIDE DEF Right
  <2> QED
      BY <2>3, <2>4
<1>9. ASSUME NEW l \in 1..n, Right(l + 1) PROVE Right(l)
  <2>1. PICK label : label = labels[l]
      OBVIOUS
  <2>2. label \in Seq(Nat) \X Seq(Nat) /\ label[2] # << >>
      BY <1>1, <1>2, <2>1, ElementOfSeq
  <2>3. ReadsLabel(text, marks[l], label) /\ marks[l + 1] = marks[l] + Len(label[1]) + Len(label[2]) + 3
      BY <1>1, <2>1 DEF Spells
  <2>4. marks[l] \in 1..Len(text) /\ marks[l + 1] \in 1..Len(text) /\ l \in 1..n + 1
      BY <1>2, <1>3
  <2>5. PICK p, q : p = marks[l] /\ q = marks[l + 1]
      OBVIOUS
  <2>6. LabelsAt(text, table, p) = Parsed(table[q].how, <<label>> \o table[q].labels, table[q].mark)
    <3>1. p \in 1..Len(text) /\ q <= Len(text)
        BY <1>4, <2>4, <2>5
    <3>2. ReadsLabel(text, p, label) /\ q = p + Len(label[1]) + Len(label[2]) + 3
        BY <2>3, <2>5
    <3>3. LabelHere(text, p, label, q)
        BY <2>2, <3>1, <3>2 DEF LabelHere
    <3> QED
        BY <3>3, LabelRead
  <2>7. table[p] = Parsed("value", <<label>> \o Rest(l + 1), colon + 1)
    <3>1. table[q] = Parsed("value", Rest(l + 1), colon + 1)
        BY <1>9, <2>5
    <3> HIDE DEF Rest
    <3>2. table[q].how = "value" /\ table[q].labels = Rest(l + 1) /\ table[q].mark = colon + 1
        BY <3>1 DEF Parsed
    <3> QED
        BY <1>5, <2>4, <2>5, <2>6, <3>2
  <2>9. l \in 1..Len(labels) /\ Len(labels) \in l..Len(labels)
      BY <1>1, <1>2
  <2>8. <<label>> \o Rest(l + 1) = Rest(l)
      BY <1>1, <1>2, <2>1, <2>9, SubSeqRecursiveFirst
  <2> QED
      BY <2>5, <2>7, <2>8
<1>10. Wrong = {}
  <2>1. SUFFICES ASSUME Wrong # {} PROVE FALSE
      OBVIOUS
  <2>2. Wrong \subseteq Nat
      OBVIOUS
  <2>3. PICK m \in Wrong : \A k \in Wrong : m <= k
      BY <2>1, <2>2, LeastNumber
  <2>4. m \in Nat /\ m # 0 /\ m <= n /\ ~Right(n + 1 - m)
      BY <1>8, <2>3
  <2>9. n \in Nat
      BY <1>2
  <2>10. m - 1 \in Nat /\ ~(m <= m - 1) /\ m - 1 <= n
      BY <2>4, <2>9
  <2>5. m - 1 \in Nat /\ m - 1 \notin Wrong /\ m - 1 <= n
    <3> HIDE DEF Wrong
    <3> QED
        BY <2>3, <2>10
  <2>6. Right(n + 1 - (m - 1))
      BY <2>5
  <2>7. n + 1 - m \in 1..n /\ n + 1 - (m - 1) = (n + 1 - m) + 1
      BY <1>2, <2>4
  <2> HIDE DEF Right
  <2>8. Right(n + 1 - m)
      BY <1>9, <2>6, <2>7
  <2> QED
      BY <2>4, <2>8
<1>11. Right(1)
  <2>1. n \in Nat
      BY <1>2
  <2>2. n <= n /\ n + 1 - n = 1
      BY <2>1
  <2>3. n \notin Wrong
      BY <1>10
  <2>4. Right(n + 1 - n)
    <3> HIDE DEF Right
    <3> QED
        BY <2>1, <2>2, <2>3
  <2> HIDE DEF Right
  <2> QED
      BY <2>2, <2>4
<1>12. Rest(1) = labels
    BY <1>1, <1>2, SubSeqFull
<1> QED
    BY <1>1, <1>11, <1>12

\* A sample whose values are not empty and whose number is not a sign
Readable(s) == s.number >= -MaxValue /\ \A l \in 1..Len(s.labels) : s.labels[l][2] # << >>

\* The key of a sample ends where its labels begin.
LEMMA KeyRead ==
    ASSUME StatsAssumption, NEW text \in Seq(Int), NEW s \in Sample, NEW marks \in Marks(text, s),
           NEW begin \in 1..Len(text) + 1, NEW next, Spells(text, begin, next, s, marks),
           NEW job, job.text = text, job.begin = begin
    PROVE  KeyEnd(job) = marks[1] /\ SubSeq(text, begin, marks[1] - 1) = s.path
<1>1. PICK n, cur, path, signs, l : /\ n = Len(s.labels) /\ cur = marks[1] /\ path = s.path
                                    /\ signs = {LabelBegin, ValueBegin, LabelSplit} /\ l = Len(text)
    OBVIOUS
<1>2. path \in Seq(Nat) /\ s.labels \in Seq(Seq(Nat) \X Seq(Nat))
    BY <1>1 DEF Sample
<1>3. n \in Nat
    BY <1>1, <1>2, LenProperties
<1>4. l \in Nat
    BY <1>1
<1>5. begin \in 1..l + 1 /\ begin \in Nat
    BY <1>1, <1>4
<1>6. cur \in 1..l
  <2>1. 1 \in 1..n + 1
      BY <1>3
  <2> QED
      BY <1>1, <2>1 DEF Marks
<1>7. cur = begin + Len(path) /\ Reads(text, begin, path)
    BY <1>1 DEF Spells
<1>8. Len(path) \in Nat
    BY <1>2, LenProperties
<1>9. SubSeq(text, begin, cur - 1) = path /\ Naturals(text, begin, cur - 1)
  <2>1. PICK e : e = cur - 1
      OBVIOUS
  <2>2. e = begin + Len(path) - 1
      BY <1>5, <1>6, <1>7, <1>8, <2>1
  <2>4. PICK from : from = begin
      OBVIOUS
  <2>5. from \in Nat /\ path \in Seq(Nat)
      BY <1>2, <1>5, <2>4
  <2>6. Reads(text, from, path)
      BY <1>7, <2>4
  <2>7. e = from + Len(path) - 1
      BY <2>2, <2>4
  <2>8. SubSeq(text, from, e) = path /\ Naturals(text, from, e)
      BY <2>5, <2>6, <2>7, ReadsIs
  <2>3. SubSeq(text, begin, e) = path /\ Naturals(text, begin, e)
      BY <2>4, <2>8
  <2> QED
      BY <2>1, <2>3
<1>10. text[cur] \in signs
  <2>1. CASE n = 0
    <3>1. text[marks[n + 1]] = ValueBegin /\ n + 1 = 1
        BY <1>1, <2>1 DEF Spells
    <3> QED
        BY <1>1, <3>1
  <2>2. CASE n # 0
    <3>1. 1 \in 1..n
        BY <1>3, <2>2
    <3>2. ReadsLabel(text, marks[1], s.labels[1])
        BY <1>1, <3>1 DEF Spells
    <3>3. text[marks[1]] = LabelBegin
        BY <3>2 DEF ReadsLabel
    <3> QED
        BY <1>1, <3>3
  <2> QED
      BY <2>1, <2>2
<1>11. \A i \in begin..cur - 1 : text[i] \notin signs
  <2>1. \A i \in begin..cur - 1 : text[i] \in Nat
      BY <1>9 DEF Naturals
  <2>2. LabelBegin \notin Nat /\ ValueBegin \notin Nat /\ LabelSplit \notin Nat
      BY SignsAre
  <2> QED
      BY <1>1, <2>1, <2>2
<1>12. cur \in begin..Len(text) + 1
    BY <1>1, <1>4, <1>5, <1>6, <1>7, <1>8
<1>13. PartEnd(text, begin, signs) = cur
    BY <1>5, <1>10, <1>11, <1>12, PartEndIs
<1> QED
    BY <1>1, <1>9, <1>13 DEF KeyEnd

\* The rest of a sample is read, up to the next one.
LEMMA SampleRead ==
    ASSUME StatsAssumption, NEW text \in Seq(Int), NEW s \in Sample, Readable(s), NEW marks \in Marks(text, s),
           NEW begin, NEW next \in 1..Len(text) + 1, Spells(text, begin, next, s, marks),
           NEW job, job.text = text, NEW rest, rest = RestOfSample(text, marks[1])
    PROVE  /\ rest.how = "value" /\ rest.labels = s.labels
           /\ Value(job, rest) = <<s.number>> /\ NextSample(job, rest) = next
<1>1. PICK n, colon, l, number : n = Len(s.labels) /\ colon = marks[n + 1] /\ l = Len(text) /\ number = s.number
    OBVIOUS
<1>2. s.labels \in Seq(Seq(Nat) \X Seq(Nat)) /\ number \in Int
    BY <1>1 DEF Sample
<1>3. n \in Nat
    BY <1>1, <1>2, LenProperties
<1>4. l \in Nat
    BY <1>1
<1>5. marks[1] \in 1..l /\ colon \in 1..l
  <2>1. 1 \in 1..n + 1 /\ n + 1 \in 1..n + 1
      BY <1>3
  <2> QED
      BY <1>1, <2>1 DEF Marks
<1>6. Labels(text)[marks[1]] = Parsed("value", s.labels, colon + 1)
  <2>1. \A k \in 1..Len(s.labels) : s.labels[k][2] # << >>
      BY DEF Readable
  <2>2. Labels(text)[marks[1]] = Parsed("value", s.labels, marks[Len(s.labels) + 1] + 1)
      BY <2>1, LabelsRead
  <2> QED
      BY <1>1, <2>2
<1>7. rest = Parsed("value", s.labels, colon + 1)
  <2>1. ~(marks[1] > Len(text))
      BY <1>1, <1>4, <1>5
  <2> QED
      BY <1>6, <2>1 DEF RestOfSample
<1>8. rest.how = "value" /\ rest.labels = s.labels /\ rest.mark = colon + 1
    BY <1>7 DEF Parsed
<1>9. PICK signs : signs = {Newline, Return}
    OBVIOUS
<1>10. /\ text[colon + 1] = number
       /\ next > colon + (IF next <= l THEN 2 ELSE 1)
       /\ \A i \in colon + 2..next - 1 : text[i] \in signs
       /\ next <= l => text[next] \notin signs
    BY <1>1, <1>9 DEF Spells
<1>11. next \in 1..l + 1
    BY <1>1
<1>12. colon + 2 <= l + 1 /\ colon + 2 <= next
    BY <1>4, <1>5, <1>10, <1>11
<1>13. number \notin signs
  <2>1. number >= -MaxValue
      BY <1>1 DEF Readable
  <2> QED
      BY <1>2, <1>9, <2>1, SignsAre
<1>14. PartEnd(text, colon + 1, signs) = colon + 2
  <2>1. PICK from, e : from = colon + 1 /\ e = colon + 2
      OBVIOUS
  <2>6. from \in Nat /\ e \in from..l + 1
      BY <1>4, <1>5, <1>12, <2>1
  <2>2. from \in Nat /\ e \in from..Len(text) + 1
      BY <1>1, <2>6
  <2>3. \A i \in from..e - 1 : text[i] \notin signs
    <3>1. \A i \in from..e - 1 : i = colon + 1
        BY <1>5, <2>1
    <3> QED
        BY <1>10, <1>13, <3>1
  <2>4. e <= Len(text) => text[e] \in signs
    <3>1. e <= l => e \in colon + 2..next - 1
        BY <1>4, <1>5, <1>10, <1>11, <1>12, <2>1
    <3> QED
        BY <1>1, <1>10, <3>1
  <2>5. PartEnd(text, from, signs) = e
      BY <2>2, <2>3, <2>4, PartEndIs
  <2> QED
      BY <2>1, <2>5
<1>15. AfterNewlines(text, colon + 2) = next
  <2>1. PICK from : from = colon + 2
      OBVIOUS
  <2>2. from \in Nat /\ next \in from..Len(text) + 1
      BY SMTT(30), <1>1, <1>4, <1>5, <1>11, <1>12, <2>1
  <2>3. \A i \in from..next - 1 : text[i] \in {Newline, Return}
      BY <1>9, <1>10, <2>1
  <2>4. next <= Len(text) => text[next] \notin {Newline, Return}
      BY <1>1, <1>9, <1>10
  <2>5. AfterNewlines(text, from) = next
      BY <2>2, <2>3, <2>4, AfterNewlinesIs
  <2> QED
      BY <2>1, <2>5
<1>16. SubSeq(text, colon + 1, colon + 2 - 1) = <<number>>
  <2>1. PICK c : c = colon + 1
      OBVIOUS
  <2>2. c \in 1..l /\ c \in c..l /\ colon + 2 - 1 = c /\ c \in Int /\ c + 1 \in Int /\ c < c + 1
      BY <1>4, <1>5, <1>12, <2>1
  <2>3. c \in 1..Len(text) /\ c \in c..Len(text)
      BY <1>1, <2>2
  <2>4. SubSeq(text, c, c) = <<text[c]>> \o SubSeq(text, c + 1, c)
      BY <2>3, SubSeqRecursiveFirst
  <2>5. SubSeq(text, c + 1, c) = << >>
      BY <2>2, SubSeqEmpty
  <2>6. text[c] = number
      BY <1>10, <2>1
  <2>7. <<number>> \o << >> = <<number>>
      OBVIOUS
  <2>8. SubSeq(text, c, c) = <<number>>
      BY <2>4, <2>5, <2>6, <2>7
  <2> QED
      BY <2>1, <2>2, <2>8
<1>17. rest.how # "end"
    BY <1>8
<1>20. PartEnd(job.text, rest.mark, {Newline, Return}) = colon + 2
    BY <1>8, <1>9, <1>14
<1>18. Value(job, rest) = <<number>>
  <2>1. Value(job, rest) = SubSeq(job.text, rest.mark, PartEnd(job.text, rest.mark, {Newline, Return}) - 1)
      BY <1>17 DEF Value
  <2>2. PICK from, e, k : from = rest.mark /\ k = PartEnd(job.text, rest.mark, {Newline, Return}) /\ e = k - 1
      OBVIOUS
  <2>6. k = colon + 2
      BY <1>20, <2>2, Zenon
  <2>7. from = colon + 1 /\ e = k - 1
      BY <1>8, <2>2
  <2>3. from = colon + 1 /\ e = colon + 2 - 1
      BY <1>4, <1>5, <2>6, <2>7
  <2>4. Value(job, rest) = SubSeq(text, from, e)
      BY <2>1, <2>2
  <2>5. SubSeq(text, from, e) = <<number>>
      BY <1>16, <2>3
  <2> QED
      BY <2>4, <2>5
<1>19. NextSample(job, rest) = next
  <2>1. PICK from : from = colon + 2
      OBVIOUS
  <2>2. NextSample(job, rest) = AfterNewlines(job.text, PartEnd(job.text, rest.mark, {Newline, Return}))
      BY <1>17 DEF NextSample
  <2>3. NextSample(job, rest) = AfterNewlines(job.text, from)
      BY <1>20, <2>1, <2>2
  <2>4. NextSample(job, rest) = AfterNewlines(text, from)
      BY <2>3
  <2>5. AfterNewlines(text, from) = next
      BY <1>15, <2>1
  <2> QED
      BY <2>4, <2>5
<1> QED
    BY <1>1, <1>8, <1>18, <1>19

\* What the agent writes is in the grammar.
LEMMA PacketReads ==
    ASSUME StatsAssumption, NEW pkt \in Packet
    PROVE  WellFormed(pkt.text, pkt.meant)
<1>1. PICK text, meant, m : text = pkt.text /\ meant = pkt.meant /\ m = Len(meant)
    OBVIOUS
<1>2. meant \in Seq(Sample)
    BY <1>1 DEF Packet
<1>3. m \in Nat
    BY <1>1, <1>2, LenProperties
<1>4. Len(text) = 4 * m /\ \A n \in 1..m : Place(pkt, n)
    BY <1>1 DEF Packet, Made
<1>5. ASSUME NEW n \in 1..m
      PROVE  /\ text[4 * n - 3] \in Nat /\ text[4 * n - 2] = ValueBegin
             /\ text[4 * n - 1] \in Value1 /\ text[4 * n] = Newline
             /\ meant[n].path = <<text[4 * n - 3]>> /\ meant[n].labels = << >>
             /\ meant[n].number = text[4 * n - 1]
  <2>1. Place(pkt, n)
      BY <1>4
  <2>2. PICK a, b, c, d, s : /\ a = text[4 * n - 3] /\ b = text[4 * n - 2] /\ c = text[4 * n - 1]
                             /\ d = text[4 * n] /\ s = meant[n]
      OBVIOUS
  <2>3. /\ a \in Paths /\ b = ValueBegin /\ c \in Value1 /\ d = Newline
        /\ s = [path |-> <<a>>, labels |-> << >>, number |-> c]
      BY <1>1, <2>1, <2>2, Zenon DEF Place
  <2>4. a \in Nat
      BY <2>3, PathsAre
  <2>5. s.path = <<a>> /\ s.labels = << >> /\ s.number = c
      BY <2>3
  <2> QED
      BY <2>2, <2>3, <2>4, <2>5
<1>6. PICK at : at = [n \in 1..m + 1 |-> 4 * n - 3]
    OBVIOUS
<1>7. at \in [1..Len(meant) + 1 -> 1..Len(text) + 1]
    BY <1>1, <1>3, <1>4, <1>6
<1>8. at[1] = 1 /\ at[Len(meant) + 1] = Len(text) + 1
    BY <1>1, <1>3, <1>4, <1>6
<1>9. ASSUME NEW n \in 1..m
      PROVE  \E marks \in Marks(text, meant[n]) : Spells(text, at[n], at[n + 1], meant[n], marks)
  <2>1. PICK s, c, marks : s = meant[n] /\ c = 4 * n - 2 /\ marks = [k \in 1..1 |-> c]
      OBVIOUS
  <2>2. s.labels = << >> /\ Len(s.labels) = 0 /\ Len(s.labels) + 1 = 1
      BY <1>5, <2>1
  <2>3. c \in 1..Len(text) /\ c \in Nat
      BY <1>3, <1>4, <2>1
  <2>4. marks \in Marks(text, s) /\ marks[1] = c
      BY <2>1, <2>2, <2>3 DEF Marks
  <2>5. at[n] = c - 1 /\ at[n + 1] = c + 3 /\ c + 2 = 4 * n
      BY <1>3, <1>6, <2>1
  <2>6. s.path = <<text[c - 1]>> /\ text[c - 1] \in Nat /\ text[c] = ValueBegin /\ s.number = text[c + 1]
    <3>1. c - 1 = 4 * n - 3 /\ c + 1 = 4 * n - 1
        BY <1>3, <2>1
    <3> QED
        BY <1>5, <2>1, <3>1
  <2>7. Len(s.path) = 1 /\ Reads(text, c - 1, s.path)
    <3>1. s.path[1] = text[c - 1] /\ Len(s.path) = 1
        BY <2>6
    <3>2. c - 1 + 1 - 1 = c - 1
        BY <2>3
    <3>3. \A i \in 1..Len(s.path) : i = 1
        BY <3>1
    <3> QED
        BY <3>1, <3>2, <3>3 DEF Reads
  <2>8. text[c + 2] = Newline
      BY <1>5, <2>5
  <2>9. c + 3 <= Len(text) => text[c + 3] \notin {Newline, Return}
    <3>1. ASSUME c + 3 <= Len(text) PROVE text[c + 3] \notin {Newline, Return}
      <4>1. n + 1 \in 1..m /\ c + 3 = 4 * (n + 1) - 3
          BY <1>3, <1>4, <2>1, <3>1
      <4>2. text[c + 3] \in Nat
          BY <1>5, <4>1
      <4> QED
          BY <4>2, SignsAre
    <3> QED
        BY <3>1
  <2>11. c + 3 > c + (IF c + 3 <= Len(text) THEN 2 ELSE 1)
      BY <2>3
  <2>12. marks[1] = (c - 1) + Len(s.path)
      BY <2>3, <2>4, <2>7
  <2>13. Spells(text, c - 1, c + 3, s, marks)
    <3>1. PICK begin, next, cut : begin = c - 1 /\ next = c + 3 /\ cut = {Newline, Return}
        OBVIOUS
    <3>2. /\ marks[1] = begin + Len(s.path) /\ Reads(text, begin, s.path)
          /\ text[c] = ValueBegin /\ text[c + 1] = s.number
          /\ next > c + (IF next <= Len(text) THEN 2 ELSE 1)
          /\ \A i \in c + 2..next - 1 : text[i] \in cut
          /\ next <= Len(text) => text[next] \notin cut
      <4>1. marks[1] = begin + Len(s.path) /\ Reads(text, begin, s.path)
          BY <2>7, <2>12, <3>1
      <4>2. text[c] = ValueBegin /\ text[c + 1] = s.number
          BY <2>6
      <4>3. next > c + (IF next <= Len(text) THEN 2 ELSE 1)
          BY <2>11, <3>1
      <4>4. \A i \in c + 2..next - 1 : text[i] \in cut
        <5>1. \A i \in c + 2..next - 1 : i = c + 2
            BY <2>3, <3>1
        <5>2. text[c + 2] \in cut
            BY <2>8, <3>1
        <5> QED
            BY <5>1, <5>2, Zenon
      <4>5. next <= Len(text) => text[next] \notin cut
          BY <2>9, <3>1
      <4> QED
          BY <4>1, <4>2, <4>3, <4>4, <4>5
    <3>3. PICK k : k = Len(s.labels)
        OBVIOUS
    <3>4. k = 0 /\ marks[k + 1] = c /\ \A l \in 1..k : FALSE
        BY <2>2, <2>4, <3>3
    <3>5. Spells(text, begin, next, s, marks)
        BY <3>1, <3>2, <3>3, <3>4, Zenon DEF Spells
    <3> QED
        BY <3>1, <3>5, Zenon
  <2> QED
      BY <2>1, <2>4, <2>5, <2>13
<1>10. InOrder(text, meant, at)
    BY <1>1, <1>8, <1>9 DEF InOrder
<1>11. \A n \in 1..Len(meant) :
         /\ meant[n].number >= -MaxValue
         /\ \A l \in 1..Len(meant[n].labels) : meant[n].labels[l][2] # << >>
  <2>1. SUFFICES ASSUME NEW n \in 1..m
                 PROVE  /\ meant[n].number >= -MaxValue
                        /\ \A l \in 1..Len(meant[n].labels) : meant[n].labels[l][2] # << >>
      BY <1>1
  <2>2. meant[n].number \in Value1 /\ meant[n].labels = << >>
      BY <1>5
  <2>3. meant[n].number >= -MaxValue
      BY <2>2, SignsAre DEF Value1
  <2> QED
      BY <2>2, <2>3
<1> QED
    BY <1>1, <1>2, <1>7, <1>10, <1>11 DEF WellFormed

\* A turn of the server hears the next sample of a packet.
Hears(job, cur, rest, s, next) ==
    /\ rest.how = "value" /\ Value(job, rest) = <<s.number>>
    /\ [path |-> SubSeq(job.text, job.begin, cur - 1), labels |-> rest.labels, number |-> Value(job, rest)[1]] = s
    /\ NextSample(job, rest) = next
LEMMA NextHeard ==
    ASSUME StatsAssumption, NEW text \in Seq(Int), NEW meant, WellFormed(text, meant),
           NEW at \in [1..Len(meant) + 1 -> 1..Len(text) + 1], InOrder(text, meant, at), NEW n \in 1..Len(meant),
           NEW job, job.text = text, job.begin = at[n], NEW cur, cur = KeyEnd(job),
           NEW rest, rest = RestOfSample(job.text, cur)
    PROVE  Hears(job, cur, rest, meant[n], at[n + 1]) /\ at[n] \in 1..Len(text)
<1>1. meant \in Seq(Sample)
    BY DEF WellFormed
<1>2. PICK s, m, l : s = meant[n] /\ m = Len(meant) /\ l = Len(text)
    OBVIOUS
<1>3. s \in Sample /\ m \in Nat /\ l \in Nat
    BY <1>1, <1>2, LenProperties, ElementOfSeq
<1>4. Readable(s)
    BY <1>2 DEF WellFormed, Readable
<1>5. PICK begin, next : begin = at[n] /\ next = at[n + 1]
    OBVIOUS
<1>6. begin \in 1..Len(text) + 1 /\ next \in 1..Len(text) + 1
  <2>1. n \in 1..m + 1 /\ n + 1 \in 1..m + 1
      BY <1>2, <1>3
  <2> QED
      BY <1>2, <1>5, <2>1
<1>7. PICK marks \in Marks(text, s) : Spells(text, begin, next, s, marks)
    BY <1>2, <1>5 DEF InOrder
<1>8. cur = marks[1] /\ SubSeq(text, begin, marks[1] - 1) = s.path
  <2>1. job.text = text /\ job.begin = begin
      BY <1>5
  <2> QED
      BY <1>3, <1>6, <1>7, <2>1, KeyRead
<1>9. rest = RestOfSample(text, marks[1])
    BY <1>8
<1>10. /\ rest.how = "value" /\ rest.labels = s.labels
       /\ Value(job, rest) = <<s.number>> /\ NextSample(job, rest) = next
    BY <1>3, <1>4, <1>6, <1>7, <1>9, SampleRead
<1>11. s = [path |-> s.path, labels |-> s.labels, number |-> s.number]
    BY <1>3 DEF Sample
<1>12. at[n] \in 1..Len(text)
  <2>1. 1 \in 1..Len(s.labels) + 1 /\ s.path \in Seq(Nat)
    <3>1. s.path \in Seq(Nat) /\ s.labels \in Seq(Seq(Nat) \X Seq(Nat))
        BY <1>3 DEF Sample
    <3>2. Len(s.labels) \in Nat
        BY <3>1, LenProperties
    <3> QED
        BY <3>1, <3>2
  <2>2. marks[1] \in 1..Len(text) /\ marks[1] = begin + Len(s.path) /\ Len(s.path) \in Nat
      BY <1>7, <2>1, LenProperties DEF Spells, Marks
  <2>3. marks[1] \in 1..l /\ begin \in 1..l + 1
      BY <1>2, <1>6, <2>2
  <2>4. begin \in 1..l
      BY <1>3, <2>2, <2>3
  <2> QED
      BY <1>2, <1>5, <2>4
<1>13. PICK cut : cut = SubSeq(job.text, job.begin, cur - 1)
    OBVIOUS
<1>14. cut = s.path
    BY <1>5, <1>8, <1>13, Zenon
<1>15. Value(job, rest)[1] = s.number
  <2>1. <<s.number>>[1] = s.number
      OBVIOUS
  <2> QED
      BY <1>10, <2>1
<1>16. [path |-> cut, labels |-> rest.labels, number |-> Value(job, rest)[1]] = s
    BY <1>10, <1>11, <1>14, <1>15, Zenon
<1> QED
    BY <1>2, <1>5, <1>10, <1>12, <1>13, <1>16, Zenon DEF Hears

-----------------------------------------------------------------------------
(* Packets on their way *)

\* A work thread is at a sample of a packet, and the callback got those before.
Reading(job, meant, got) ==
    \E at \in [1..Len(meant) + 1 -> 1..Len(job.text) + 1], n \in 1..Len(meant) :
      InOrder(job.text, meant, at) /\ job.begin = at[n] /\ got = SubSeq(meant, 1, n - 1)
InHand(job) ==
    /\ job = [id |-> job.id, text |-> job.text, begin |-> job.begin, value |-> job.value]
    /\ job.id \in 1..Len(sent) /\ job.text = sent[job.id].text
    /\ sent[job.id].meant # << >> => Reading(job, sent[job.id].meant, samples[job.id])
OnItsWay(p) == p.id \in 1..Len(sent) /\ p.text = sent[p.id].text /\ samples[p.id] = << >>
EachOnce ==
    /\ \A p, q \in net : p.id = q.id => p = q
    /\ \A p, q \in jobs : p.id = q.id => p = q
    /\ \A p \in net, job \in jobs : p.id # job.id

\* There is room for what is heard of each packet.
Rooms == 1..(MaxPackets + MaxRepeats)
SentCount == Len(sent) <= MaxPackets + repeats /\ repeats \in 0..MaxRepeats
Unheard ==
    /\ samples = [id \in Rooms |-> samples[id]]
    /\ \A id \in Rooms : id > Len(sent) => samples[id] = << >>

InGrammar == \A id \in 1..Len(sent) : sent[id].meant # << >> => WellFormed(sent[id].text, sent[id].meant)
HeardRight == \A id \in 1..Len(sent) : Handled(id) /\ sent[id].meant # << >> => samples[id] = sent[id].meant
Delivery ==
    /\ SentCount /\ Unheard /\ InGrammar /\ EachOnce /\ HeardRight
    /\ (\A p \in net : OnItsWay(p)) /\ (\A job \in jobs : InHand(job))

\* A packet more is on its way.
LEMMA SentDelivery ==
    ASSUME StatsAssumption, sent \in Seq(SentPacket), Delivery, NEW e \in SentPacket,
           e.meant # << >> => WellFormed(e.text, e.meant),
           sent' = Append(sent, e), net' = net \cup {[id |-> Len(sent'), text |-> e.text]},
           SentCount', UNCHANGED <<jobs, samples, lost>>
    PROVE  Delivery'
<1>1. PICK k, new : k = Len(sent') /\ new = [id |-> k, text |-> e.text]
    OBVIOUS
<1>2. Len(sent) \in Nat /\ k = Len(sent) + 1 /\ sent'[k] = e /\ \A i \in 1..Len(sent) : sent'[i] = sent[i]
    BY <1>1, LenProperties, AppendProperties
<1>3. k \in Rooms /\ k \in 1..k
  <2>1. MaxPackets \in Nat /\ MaxRepeats \in Nat
      BY DEF StatsAssumption
  <2>2. k <= MaxPackets + repeats' /\ repeats' \in 0..MaxRepeats
      BY <1>1 DEF SentCount
  <2> QED
      BY <1>2, <2>1, <2>2 DEF Rooms
<1>4. new.id = k /\ new.text = e.text
    BY <1>1
<1>5. samples[k] = << >>
  <2>1. k > Len(sent)
      BY <1>2
  <2> QED
      BY <1>3, <2>1 DEF Delivery, Unheard
<1>6. \A i \in 1..k : i = k \/ i \in 1..Len(sent)
    BY <1>2
<1>7. \A i \in 1..Len(sent) : i \in 1..k /\ i # k
    BY <1>2
<1>8. Unheard'
  <2>1. \A id \in Rooms : id > k => id > Len(sent)
      BY <1>2 DEF Rooms
  <2> QED
      BY <1>1, <2>1 DEF Delivery, Unheard
<1>9. InGrammar'
    BY <1>1, <1>2, <1>6 DEF Delivery, InGrammar
<1>10. EachOnce'
  <2>1. \A p \in net : p.id # k
      BY <1>7 DEF Delivery, OnItsWay
  <2>2. \A job \in jobs : job.id # k
      BY <1>7 DEF Delivery, InHand
  <2>3. \A p \in net' : p \in net \/ p = new
      BY <1>1
  <2> QED
      BY <1>4, <2>1, <2>2, <2>3 DEF Delivery, EachOnce
<1>11. HeardRight'
  <2>1. SUFFICES ASSUME NEW id \in 1..k, Handled(id)', sent'[id].meant # << >>
                 PROVE  samples[id] = sent'[id].meant
      BY <1>1 DEF HeardRight
  <2>2. new \in net'
      BY <1>1
  <2>3. id # k
      BY <1>4, <2>1, <2>2 DEF Handled
  <2>4. id \in 1..Len(sent) /\ sent'[id] = sent[id]
      BY <1>2, <1>6, <2>3
  <2>5. Handled(id)
      BY <2>1 DEF Handled
  <2> QED
      BY <2>1, <2>4, <2>5 DEF Delivery, HeardRight
<1>12. ASSUME NEW p \in net' PROVE OnItsWay(p)'
  <2>1. CASE p \in net
      BY <1>1, <1>2, <1>7, <2>1 DEF Delivery, OnItsWay
  <2>2. CASE p = new
      BY <1>1, <1>2, <1>3, <1>4, <1>5, <2>2 DEF OnItsWay
  <2> QED
      BY <1>1, <2>1, <2>2
<1>13. ASSUME NEW job \in jobs PROVE InHand(job)'
    BY <1>1, <1>2, <1>7 DEF Delivery, InHand
<1> QED
    BY <1>8, <1>9, <1>10, <1>11, <1>12, <1>13 DEF Delivery

LEMMA LoseDelivery ==
    ASSUME Delivery, NEW p \in net, Lose(p)
    PROVE  Delivery'
<1>1. /\ net' = net \ {p} /\ lost' = lost \cup {p.id}
      /\ UNCHANGED <<jobs, samples, sent, repeats>>
    BY DEF Lose, serverVars
<1>2. SentCount' /\ Unheard' /\ InGrammar' /\ EachOnce'
    BY <1>1 DEF Delivery, SentCount, Unheard, InGrammar, EachOnce
<1>3. HeardRight'
  <2>1. SUFFICES ASSUME NEW id \in 1..Len(sent), Handled(id)', sent[id].meant # << >>
                 PROVE  samples[id] = sent[id].meant
      BY <1>1 DEF HeardRight
  <2>2. Handled(id)
      BY <1>1, <2>1 DEF Handled
  <2> QED
      BY <2>1, <2>2 DEF Delivery, HeardRight
<1>4. (\A q \in net' : OnItsWay(q)') /\ (\A job \in jobs' : InHand(job)')
    BY <1>1 DEF Delivery, OnItsWay, InHand
<1> QED
    BY <1>2, <1>3, <1>4 DEF Delivery

\* A work thread begins with the first sample.
LEMMA ReceiveDelivery ==
    ASSUME StatsAssumption, sent \in Seq(SentPacket), Delivery, NEW p \in net, Receive(p)
    PROVE  Delivery'
<1>1. PICK new : new = [id |-> p.id, text |-> p.text, begin |-> 1, value |-> << >>]
    OBVIOUS
<1>2. net' = net \ {p} /\ jobs' = jobs \cup {new} /\ UNCHANGED <<samples, sent, lost, repeats>>
    BY <1>1 DEF Receive, statsHistory
<1>3. new.id = p.id /\ new.text = p.text /\ new.begin = 1 /\ new.value = << >>
    BY <1>1
<1>4. p.id \in 1..Len(sent) /\ p.text = sent[p.id].text /\ samples[p.id] = << >>
    BY DEF Delivery, OnItsWay
<1>5. SentCount' /\ Unheard' /\ InGrammar'
    BY <1>2 DEF Delivery, SentCount, Unheard, InGrammar
<1>6. EachOnce'
    BY <1>2, <1>3 DEF Delivery, EachOnce
<1>7. HeardRight'
  <2>1. SUFFICES ASSUME NEW id \in 1..Len(sent), Handled(id)', sent[id].meant # << >>
                 PROVE  samples[id] = sent[id].meant
      BY <1>2 DEF HeardRight
  <2>2. id # p.id
      BY <1>2, <1>3, <2>1 DEF Handled
  <2>3. Handled(id)
      BY <1>2, <2>1, <2>2 DEF Handled
  <2> QED
      BY <2>1, <2>3 DEF Delivery, HeardRight
<1>8. ASSUME sent[p.id].meant # << >> PROVE Reading(new, sent[p.id].meant, samples[p.id])
  <2>1. PICK meant : meant = sent[p.id].meant
      OBVIOUS
  <2>2. WellFormed(new.text, meant)
      BY <1>3, <1>4, <1>8, <2>1 DEF Delivery, InGrammar
  <2>3. meant \in Seq(Sample) /\ meant # << >>
      BY <1>8, <2>1, <2>2 DEF WellFormed
  <2>4. 1 \in 1..Len(meant)
      BY <2>3, EmptySeq
  <2>5. PICK at \in [1..Len(meant) + 1 -> 1..Len(new.text) + 1] : InOrder(new.text, meant, at)
      BY <2>2 DEF WellFormed
  <2>6. new.begin = at[1]
      BY <1>3, <2>5 DEF InOrder
  <2>7. samples[p.id] = SubSeq(meant, 1, 1 - 1)
      BY <1>4, SubSeqEmpty
  <2>8. Reading(new, meant, samples[p.id])
      BY <2>4, <2>5, <2>6, <2>7 DEF Reading
  <2> QED
      BY <2>1, <2>8
<1>9. InHand(new)'
    BY <1>1, <1>2, <1>3, <1>4, <1>8 DEF InHand
<1>10. (\A q \in net' : OnItsWay(q)') /\ (\A job \in jobs : InHand(job)')
    BY <1>2 DEF Delivery, OnItsWay, InHand
<1>11. \A job \in jobs' : InHand(job)'
    BY <1>2, <1>9, <1>10
<1> QED
    BY <1>5, <1>6, <1>7, <1>10, <1>11 DEF Delivery

\* A sample begins where there is something to read.
LEMMA BeginsInText ==
    ASSUME StatsAssumption, NEW text \in Seq(Int), NEW meant, WellFormed(text, meant),
           NEW at \in [1..Len(meant) + 1 -> 1..Len(text) + 1], InOrder(text, meant, at), NEW n \in 1..Len(meant)
    PROVE  at[n] \in 1..Len(text)
<1>1. PICK job, cur, rest :
        job = [text |-> text, begin |-> at[n]] /\ cur = KeyEnd(job) /\ rest = RestOfSample(job.text, cur)
    OBVIOUS
<1>2. job.text = text /\ job.begin = at[n]
    BY <1>1
<1> QED
    BY <1>1, <1>2, NextHeard

LEMMA AllHeard ==
    ASSUME NEW S, NEW meant \in Seq(S), NEW n \in 1..Len(meant)
    PROVE  Append(SubSeq(meant, 1, n - 1), meant[n]) = SubSeq(meant, 1, n)
<1>1. Len(meant) \in Nat /\ 1 \in 1..Len(meant) /\ n \in 1..Len(meant)
    BY LenProperties
<1>2. SubSeq(meant, 1, n) = SubSeq(meant, 1, n - 1) \o <<meant[n]>>
    BY <1>1, SubSeqRecursiveSecond
<1>3. SubSeq(meant, 1, n - 1) \in Seq(S) /\ meant[n] \in S
  <2>1. n - 1 \in Int /\ 1 \in Int /\ \A i \in 1..(n - 1) : meant[i] \in S
      BY <1>1, ElementOfSeq
  <2> QED
      BY <1>1, <2>1, SubSeqProperties, ElementOfSeq
<1> QED
    BY <1>2, <1>3, AppendIsConcat

\* What the callback got of the packet of a work thread.
LEMMA SamplesOf ==
    ASSUME StatsAssumption, Delivery, NEW job \in jobs, NEW x, samples' = [samples EXCEPT ![job.id] = x],
           UNCHANGED <<sent, repeats>>
    PROVE  /\ samples'[job.id] = x /\ \A id \in 1..Len(sent) : id # job.id => samples'[id] = samples[id]
           /\ Unheard' /\ job.id \in 1..Len(sent)
<1>1. job.id \in 1..Len(sent)
    BY DEF Delivery, InHand
<1>2. 1..Len(sent) \subseteq Rooms
  <2>1. MaxPackets \in Nat /\ MaxRepeats \in Nat
      BY DEF StatsAssumption
  <2>2. Len(sent) <= MaxPackets + repeats /\ repeats \in 0..MaxRepeats
      BY DEF Delivery, SentCount
  <2>3. Len(sent) \in Int \/ 1..Len(sent) = {}
      BY <2>1, <2>2
  <2>4. ASSUME NEW id \in 1..Len(sent) PROVE id \in Rooms
      BY <2>1, <2>2, <2>4 DEF Rooms
  <2> QED
      BY <2>4
<1>3. samples = [id \in Rooms |-> samples[id]]
    BY DEF Delivery, Unheard
<1>4. \A id \in 1..Len(sent) : ~(id > Len(sent))
    OBVIOUS
<1>5. samples' = [id \in Rooms |-> IF id = job.id THEN x ELSE samples[id]]
    BY <1>3
<1>6. \A id \in Rooms : samples'[id] = IF id = job.id THEN x ELSE samples[id]
    BY <1>5
<1>7. samples' = [id \in Rooms |-> samples'[id]]
    BY <1>5
<1>8. \A id \in Rooms : id > Len(sent') => samples'[id] = << >>
    BY <1>1, <1>4, <1>6 DEF Delivery, Unheard
<1>9. Unheard'
    BY <1>7, <1>8 DEF Unheard
<1> QED
    BY <1>1, <1>2, <1>6, <1>9

\* A work thread is done with its packet.
LEMMA DoneDelivery ==
    ASSUME StatsAssumption, sent \in Seq(SentPacket), Delivery, NEW job \in jobs, NEW x,
           jobs' = jobs \ {job}, samples' = [samples EXCEPT ![job.id] = x],
           sent[job.id].meant # << >> => x = sent[job.id].meant, UNCHANGED <<net, sent, lost, repeats>>
    PROVE  Delivery'
<1>1. /\ samples'[job.id] = x /\ \A id \in 1..Len(sent) : id # job.id => samples'[id] = samples[id]
      /\ Unheard' /\ job.id \in 1..Len(sent)
    BY SamplesOf
<1>2. SentCount' /\ InGrammar' /\ EachOnce'
    BY DEF Delivery, SentCount, InGrammar, EachOnce
<1>3. HeardRight'
  <2>1. SUFFICES ASSUME NEW id \in 1..Len(sent), Handled(id)', sent[id].meant # << >>
                 PROVE  samples'[id] = sent[id].meant
      BY DEF HeardRight
  <2>2. CASE id = job.id
      BY <1>1, <2>1, <2>2
  <2>3. CASE id # job.id
    <3>1. Handled(id)
        BY <2>1, <2>3 DEF Handled
    <3> QED
        BY <1>1, <2>1, <2>3, <3>1 DEF Delivery, HeardRight
  <2> QED
      BY <2>2, <2>3
<1>4. ASSUME NEW p \in net PROVE OnItsWay(p)'
    BY <1>1 DEF Delivery, OnItsWay, EachOnce
<1>5. ASSUME NEW j \in jobs' PROVE InHand(j)'
  <2>1. j \in jobs /\ j.id # job.id
      BY DEF Delivery, EachOnce
  <2> QED
      BY <1>1, <2>1 DEF Delivery, InHand
<1> QED
    BY <1>1, <1>2, <1>3, <1>4, <1>5 DEF Delivery

\* A work thread goes on with the next sample.
LEMMA GoesOnDelivery ==
    ASSUME StatsAssumption, sent \in Seq(SentPacket), Delivery, NEW job \in jobs, NEW x, NEW next,
           jobs' = (jobs \ {job}) \cup {next}, samples' = [samples EXCEPT ![job.id] = x],
           next = [id |-> job.id, text |-> job.text, begin |-> next.begin, value |-> next.value],
           sent[job.id].meant # << >> => Reading(next, sent[job.id].meant, x), UNCHANGED <<net, sent, lost, repeats>>
    PROVE  Delivery'
<1>1. /\ samples'[job.id] = x /\ \A id \in 1..Len(sent) : id # job.id => samples'[id] = samples[id]
      /\ Unheard' /\ job.id \in 1..Len(sent)
    BY SamplesOf
<1>2. next.id = job.id /\ next.text = job.text /\ next \in jobs'
    OBVIOUS
<1>3. SentCount' /\ InGrammar'
    BY DEF Delivery, SentCount, InGrammar
<1>4. \A j \in jobs' : j = next \/ (j \in jobs /\ j.id # job.id)
    BY DEF Delivery, EachOnce
<1>5. EachOnce'
    BY <1>2, <1>4 DEF Delivery, EachOnce
<1>6. HeardRight'
  <2>1. SUFFICES ASSUME NEW id \in 1..Len(sent), Handled(id)', sent[id].meant # << >>
                 PROVE  samples'[id] = sent[id].meant
      BY DEF HeardRight
  <2>2. id # job.id
      BY <1>2, <2>1 DEF Handled
  <2>3. Handled(id)
      BY <2>1, <2>2 DEF Handled
  <2> QED
      BY <1>1, <2>1, <2>2, <2>3 DEF Delivery, HeardRight
<1>7. ASSUME NEW p \in net PROVE OnItsWay(p)'
    BY <1>1 DEF Delivery, OnItsWay, EachOnce
<1>8. ASSUME NEW j \in jobs' PROVE InHand(j)'
  <2>1. CASE j = next
    <3>1. next.text = sent[job.id].text
        BY <1>2 DEF Delivery, InHand
    <3>2. next = [id |-> next.id, text |-> next.text, begin |-> next.begin, value |-> next.value]
        BY <1>2
    <3> QED
        BY <1>1, <1>2, <2>1, <3>1, <3>2 DEF InHand
  <2>2. CASE j \in jobs /\ j.id # job.id
      BY <1>1, <2>2 DEF Delivery, InHand
  <2> QED
      BY <1>4, <2>1, <2>2
<1> QED
    BY <1>1, <1>3, <1>5, <1>6, <1>7, <1>8 DEF Delivery

\* A turn of a work thread.
LEMMA HandleDelivery ==
    ASSUME StatsAssumption, sent \in Seq(SentPacket), Delivery, NEW job \in jobs, HandleSample(job)
    PROVE  Delivery'
<1>1. PICK cur, rest, meant, text, got :
        /\ cur = KeyEnd(job) /\ rest = RestOfSample(job.text, cur)
        /\ meant = sent[job.id].meant /\ text = job.text /\ got = samples[job.id]
    OBVIOUS
<1>2. PICK sample, next :
        /\ sample = [path |-> SubSeq(job.text, job.begin, cur - 1), labels |-> rest.labels,
                     number |-> Value(job, rest)[1]]
        /\ next = [job EXCEPT !.begin = NextSample(job, rest), !.value = Value(job, rest)]
    OBVIOUS
<1>3. /\ IF rest.how = "raised" \/ NotANumber(Value(job, rest))
         THEN jobs' = jobs \ {job} /\ UNCHANGED samples
         ELSE /\ samples' = [samples EXCEPT ![job.id] = Append(samples[job.id], sample)]
              /\ jobs' = (jobs \ {job}) \cup (IF NextSample(job, rest) <= Len(job.text) THEN {next} ELSE {})
      /\ UNCHANGED <<net, sent, lost, repeats>>
    BY <1>1, <1>2 DEF HandleSample, statsHistory
<1>4. /\ job = [id |-> job.id, text |-> job.text, begin |-> job.begin, value |-> job.value]
      /\ job.id \in 1..Len(sent) /\ text = sent[job.id].text /\ (meant # << >> => Reading(job, meant, got))
    BY <1>1 DEF Delivery, InHand
<1>5. next = [id |-> job.id, text |-> job.text, begin |-> NextSample(job, rest), value |-> Value(job, rest)]
    BY <1>2, <1>4
<1>6. next.begin = NextSample(job, rest) /\ next.text = text
      /\ next = [id |-> job.id, text |-> job.text, begin |-> next.begin, value |-> next.value]
    BY <1>1, <1>5
<1>7. text \in Seq(Int)
  <2>1. sent[job.id] \in SentPacket
      BY <1>4, ElementOfSeq
  <2>2. sent[job.id].text \in Seq(Int)
      BY <2>1 DEF SentPacket
  <2> QED
      BY <1>4, <2>2, Zenon
<1>8. CASE meant = << >>
  <2>1. CASE rest.how = "raised" \/ NotANumber(Value(job, rest))
    <3>1. samples' = [samples EXCEPT ![job.id] = samples[job.id]]
        BY <1>3, <2>1 DEF Delivery, Unheard
    <3> QED
        BY <1>1, <1>3, <1>8, <2>1, <3>1, DoneDelivery
  <2>2. CASE ~(rest.how = "raised" \/ NotANumber(Value(job, rest)))
    <3>1. CASE NextSample(job, rest) <= Len(job.text)
        BY <1>1, <1>3, <1>6, <1>8, <2>2, <3>1, GoesOnDelivery
    <3>2. CASE ~(NextSample(job, rest) <= Len(job.text))
      <4>1. jobs' = jobs \ {job}
          BY <1>3, <2>2, <3>2
      <4> QED
          BY <1>1, <1>3, <1>8, <2>2, <4>1, DoneDelivery
    <3> QED
        BY <3>1, <3>2
  <2> QED
      BY <2>1, <2>2
<1>9. CASE meant # << >>
  <2>1. WellFormed(text, meant)
      BY <1>1, <1>4, <1>9 DEF Delivery, InGrammar
  <2>2. meant \in Seq(Sample)
      BY <2>1 DEF WellFormed
  <2>3. PICK at \in [1..Len(meant) + 1 -> 1..Len(text) + 1], n \in 1..Len(meant) :
          InOrder(text, meant, at) /\ job.begin = at[n] /\ got = SubSeq(meant, 1, n - 1)
      BY <1>1, <1>4, <1>9 DEF Reading
  <2>4. /\ rest.how = "value" /\ Value(job, rest) = <<meant[n].number>> /\ sample = meant[n]
        /\ NextSample(job, rest) = at[n + 1]
    <3>1. job.text = text /\ job.begin = at[n] /\ InOrder(text, meant, at)
        BY <1>1, <2>3
    <3>2. Hears(job, cur, rest, meant[n], at[n + 1])
        BY <1>1, <1>7, <2>1, <3>1, NextHeard
    <3> QED
        BY <1>1, <1>2, <3>2 DEF Hears
  <2>10. ~NotANumber(<<meant[n].number>>)
    <3>1. PICK number : number = meant[n].number
        OBVIOUS
    <3>2. meant[n] \in Sample
        BY <2>2, <2>3, ElementOfSeq
    <3>3. number \in Int /\ number >= -MaxValue
        BY <2>1, <2>3, <3>1, <3>2 DEF WellFormed, Sample
    <3>4. <<number>>[1] = number /\ <<number>> # << >> /\ MaxValue \in Nat
        BY SignsAre
    <3>5. ~(number < -MaxValue)
        BY <3>3, <3>4
    <3> QED
        BY <3>1, <3>4, <3>5, Zenon DEF NotANumber
  <2>5. samples' = [samples EXCEPT ![job.id] = Append(got, meant[n])]
    <3>1. ~NotANumber(Value(job, rest))
        BY <2>4, <2>10, Zenon
    <3> QED
        BY <1>1, <1>3, <2>4, <3>1
  <2>6. jobs' = (jobs \ {job}) \cup (IF at[n + 1] <= Len(text) THEN {next} ELSE {})
    <3>1. ~NotANumber(Value(job, rest))
        BY <2>4, <2>10, Zenon
    <3> QED
        BY <1>1, <1>3, <2>4, <3>1
  <2>7. Append(got, meant[n]) = SubSeq(meant, 1, n)
      BY <2>2, <2>3, AllHeard
  <2>8. CASE n = Len(meant)
    <3>1. at[n + 1] = Len(text) + 1 /\ Append(got, meant[n]) = meant
        BY <2>2, <2>3, <2>7, <2>8, SubSeqFull DEF InOrder
    <3>2. jobs' = jobs \ {job}
        BY <1>7, <2>6, <3>1, LenProperties
    <3> QED
        BY <1>1, <1>3, <2>5, <3>1, <3>2, DoneDelivery
  <2>9. CASE n # Len(meant)
    <3>1. n + 1 \in 1..Len(meant) /\ (n + 1) - 1 = n
        BY <2>2, <2>3, <2>9, LenProperties
    <3>2. at[n + 1] \in 1..Len(text)
        BY <1>7, <2>1, <2>3, <3>1, BeginsInText
    <3>3. jobs' = (jobs \ {job}) \cup {next}
        BY <2>6, <3>2
    <3>4. Reading(next, meant, Append(got, meant[n]))
        BY <1>6, <2>3, <2>4, <2>7, <3>1 DEF Reading
    <3> QED
        BY <1>1, <1>3, <1>6, <2>5, <3>3, <3>4, GoesOnDelivery
  <2> QED
      BY <2>8, <2>9
<1> QED
    BY <1>8, <1>9

-----------------------------------------------------------------------------
(* All the steps *)

\* What does not touch the packets on their way.
LEMMA DeliveryKept ==
    ASSUME Delivery, UNCHANGED <<net, jobs, samples, sent, lost, repeats>>
    PROVE  Delivery'
    BY DEF Delivery, SentCount, Unheard, InGrammar, EachOnce, HeardRight, Handled, OnItsWay, InHand

LEMMA StepDelivery ==
    ASSUME StatsAssumption, StatsTypes, Delivery, [StatsNext]_statsVars
    PROVE  Delivery'
<1> USE DEF statsVars, agentVars, serverVars, statsHistory
<1>1. sent \in Seq(SentPacket)
    BY DEF StatsTypes
<1>2. MaxPackets \in Nat /\ MaxRepeats \in Nat /\ Len(sent) \in Nat /\ repeats \in 0..MaxRepeats
      /\ Len(sent) <= MaxPackets + repeats
    BY <1>1, LenProperties DEF StatsAssumption, Delivery, SentCount
<1>3. ASSUME NEW e \in SentPacket, sent' = Append(sent, e), Len(sent) < MaxPackets, repeats' = repeats
      PROVE  SentCount'
  <2>1. Len(sent') = Len(sent) + 1
      BY <1>1, <1>3, AppendProperties
  <2> QED
      BY <1>2, <1>3, <2>1 DEF SentCount
<1>4. CASE Send
  <2>1. PICK pkt, e : pkt = packets[1] /\ e = [text |-> pkt.text, meant |-> pkt.meant, from |-> "agent"]
      OBVIOUS
  <2>2. /\ packets # << >> /\ Len(sent) < MaxPackets /\ sent' = Append(sent, e)
        /\ net' = net \cup {[id |-> Len(sent'), text |-> pkt.text]}
        /\ UNCHANGED <<jobs, samples, lost, repeats>>
      BY <1>4, <2>1 DEF Send
  <2>3. pkt \in Packet
    <3>1. packets \in Seq(Packet)
        BY DEF StatsTypes
    <3>2. 1 \in 1..Len(packets)
        BY <2>2, <3>1, EmptySeq
    <3> QED
        BY <2>1, <3>1, <3>2, ElementOfSeq
  <2>4. e.text = pkt.text /\ e.meant = pkt.meant /\ e \in SentPacket
      BY <2>1, <2>3 DEF Packet, SentPacket
  <2>5. WellFormed(e.text, e.meant)
      BY <2>3, <2>4, PacketReads
  <2>6. SentCount'
      BY <1>3, <2>2, <2>4
  <2> QED
      BY <1>1, <2>2, <2>4, <2>5, <2>6, SentDelivery
<1>5. ASSUME NEW f \in Foreign, SendForeign(f) PROVE Delivery'
  <2>1. PICK e : e = [text |-> f.text, meant |-> f.meant, from |-> "other"]
      OBVIOUS
  <2>2. /\ Len(sent) < MaxPackets /\ sent' = Append(sent, e)
        /\ net' = net \cup {[id |-> Len(sent'), text |-> f.text]}
        /\ UNCHANGED <<jobs, samples, lost, repeats>>
      BY <1>5, <2>1 DEF SendForeign
  <2>3. f.text \in Seq(Int) /\ (f.meant # << >> => WellFormed(f.text, f.meant))
      BY DEF StatsAssumption
  <2>4. f.meant \in Seq(Sample)
    <3>1. << >> \in Seq(Sample)
        OBVIOUS
    <3>2. WellFormed(f.text, f.meant) => f.meant \in Seq(Sample)
        BY DEF WellFormed
    <3> QED
        BY <2>3, <3>1, <3>2
  <2>5. e.text = f.text /\ e.meant = f.meant /\ e \in SentPacket
      BY <2>1, <2>3, <2>4 DEF SentPacket
  <2>6. SentCount'
      BY <1>3, <2>2, <2>5
  <2>7. e.meant # << >> => WellFormed(e.text, e.meant)
      BY <2>3, <2>5
  <2> QED
      BY <1>1, <2>2, <2>5, <2>6, <2>7, SentDelivery
<1>6. ASSUME NEW p \in net, Repeat(p) PROVE Delivery'
  <2>1. PICK s, e : s = sent[p.id] /\ e = [s EXCEPT !.from = "network"]
      OBVIOUS
  <2>2. /\ repeats < MaxRepeats /\ repeats' = repeats + 1 /\ sent' = Append(sent, e)
        /\ net' = net \cup {[id |-> Len(sent'), text |-> p.text]}
        /\ UNCHANGED <<jobs, samples, lost>>
      BY <1>6, <2>1 DEF Repeat
  <2>3. p.id \in 1..Len(sent) /\ p.text = s.text
      BY <2>1 DEF Delivery, OnItsWay
  <2>4. s \in SentPacket /\ (s.meant # << >> => WellFormed(s.text, s.meant))
      BY <1>1, <2>1, <2>3, ElementOfSeq DEF Delivery, InGrammar
  <2>5. e.text = s.text /\ e.meant = s.meant /\ e \in SentPacket
      BY <2>1, <2>4 DEF SentPacket
  <2>6. Len(sent') = Len(sent) + 1
      BY <1>1, <2>2, <2>5, AppendProperties
  <2>7. SentCount'
      BY <1>2, <2>2, <2>6 DEF SentCount
  <2>8. e.meant # << >> => WellFormed(e.text, e.meant)
      BY <2>4, <2>5
  <2> QED
      BY <1>1, <2>2, <2>3, <2>5, <2>7, <2>8, SentDelivery
<1>7. ASSUME NEW p \in net, Lose(p) PROVE Delivery'
    BY <1>7, LoseDelivery
<1>8. ASSUME NEW p \in net, Receive(p) PROVE Delivery'
    BY <1>1, <1>8, ReceiveDelivery
<1>9. ASSUME NEW job \in jobs, HandleSample(job) PROVE Delivery'
    BY <1>1, <1>9, HandleDelivery
<1>10. ASSUME NEW path \in Paths, NEW by \in {1, -1}, Count(path, by) PROVE Delivery'
    BY <1>10, DeliveryKept DEF Count
<1>11. CASE WakeUp \/ Report \/ Pack \/ SendFails \/ Reported \/ Stop
    BY <1>11, DeliveryKept DEF WakeUp, Report, Pack, SendFails, Reported, Stop
<1>12. CASE UNCHANGED statsVars
    BY <1>12, DeliveryKept
<1> QED
    BY <1>4, <1>5, <1>6, <1>7, <1>8, <1>9, <1>10, <1>11, <1>12 DEF StatsNext

LEMMA InitDelivery ==
    ASSUME StatsAssumption, StatsInit
    PROVE  Delivery
<1>1. MaxPackets \in Nat /\ MaxRepeats \in Nat
    BY DEF StatsAssumption
<1>2. sent = << >> /\ Len(sent) = 0 /\ repeats = 0 /\ net = {} /\ jobs = {}
    BY DEF StatsInit
<1>3. 1..Len(sent) = {}
    BY <1>2
<1>4. samples = [id \in Rooms |-> << >>]
    BY DEF StatsInit, Rooms
<1>5. SentCount
    BY <1>1, <1>2 DEF SentCount
<1>6. Unheard
    BY <1>4 DEF Unheard
<1> QED
    BY <1>2, <1>3, <1>5, <1>6 DEF Delivery, InGrammar, EachOnce, HeardRight

\* A packet of more than one line stays below the limit.
PacketsLimited == \A k \in 1..Len(packets) : Len(packets[k].text) < MaxPacketSize \/ Len(packets[k].text) = 4

LEMMA PackLimited ==
    ASSUME StatsAssumption, StatsTypes, PacketsLimited, Pack
    PROVE  PacketsLimited'
<1>1. PICK n, l, empty : n = Len(packets) /\ l = Head(lines) /\ empty = [text |-> << >>, meant |-> << >>]
    OBVIOUS
<1>2. /\ lines # << >>
      /\ packets' = IF n = 0 \/ ~BelowLimit(packets[n], l) THEN Append(packets, Written(empty, l))
                    ELSE [packets EXCEPT ![n] = Written(packets[n], l)]
    BY <1>1 DEF Pack, Packing
<1>3. lines \in Seq(Lines) /\ packets \in Seq(Packet)
    BY DEF StatsTypes
<1>4. n \in Nat /\ l \in Lines
    BY <1>1, <1>2, <1>3, LenProperties, HeadTailProperties
<1>5. CASE n = 0 \/ ~BelowLimit(packets[n], l)
  <2>1. PICK new : new = Written(empty, l)
      OBVIOUS
  <2>2. empty \in [text : Seq(Int), meant : Seq(Sample)] /\ Made(empty) /\ Len(empty.text) = 0
      BY <1>1 DEF Made
  <2>3. new \in Packet /\ Len(new.text) = 0 + 4
      BY <1>4, <2>1, <2>2, WrittenPacket
  <2>4. packets' = Append(packets, new)
      BY <1>2, <1>5, <2>1
  <2>5. /\ Len(packets') = n + 1 /\ \A k \in 1..n : packets'[k] = packets[k]
        /\ packets'[n + 1] = new
      BY <1>1, <1>3, <2>3, <2>4, AppendProperties
  <2>6. \A k \in 1..(n + 1) : k \in 1..n \/ k = n + 1
      BY <1>4
  <2> QED
      BY <1>1, <2>3, <2>5, <2>6 DEF PacketsLimited
<1>6. CASE ~(n = 0 \/ ~BelowLimit(packets[n], l))
  <2>1. PICK old, new : old = packets[n] /\ new = Written(old, l)
      OBVIOUS
  <2>2. n \in 1..Len(packets)
      BY <1>1, <1>4, <1>6
  <2>3. old \in Packet
      BY <1>3, <2>1, <2>2, ElementOfSeq
  <2>4. old \in [text : Seq(Int), meant : Seq(Sample)] /\ Made(old) /\ Len(old.text) \in Nat
    <3>1. old \in [text : Seq(Int), meant : Seq(Sample)] /\ Made(old)
        BY <2>3 DEF Packet
    <3>2. old.text \in Seq(Int)
        BY <3>1
    <3> QED
        BY <3>1, <3>2, LenProperties
  <2>5. new \in Packet /\ Len(new.text) = Len(old.text) + 4
      BY <1>4, <2>1, <2>4, WrittenPacket
  <2>6. Len(old.text) + 3 + 2 < MaxPacketSize
    <3>1. PICK p \in Paths, number \in Value1 : l = Line(p, number)
        BY <1>4 DEF Lines
    <3>2. Len(l) = 3
        BY <3>1 DEF Line
    <3>3. Len(old.text) + Len(l) + 2 < MaxPacketSize
        BY <1>6, <2>1 DEF BelowLimit
    <3> QED
        BY <3>2, <3>3
  <2>7. Len(new.text) < MaxPacketSize
    <3>1. MaxPacketSize \in Nat
        BY DEF StatsAssumption
    <3> QED
        BY <2>4, <2>5, <2>6, <3>1
  <2>8. packets' = [packets EXCEPT ![n] = new]
      BY <1>2, <1>6, <2>1
  <2>9. Len(packets') = n /\ \A k \in 1..n : packets'[k] = IF k = n THEN new ELSE packets[k]
      BY <1>1, <1>3, <2>2, <2>5, <2>8, ExceptSeq
  <2> QED
      BY <1>1, <2>7, <2>9 DEF PacketsLimited
<1> QED
    BY <1>5, <1>6

LEMMA StepLimited ==
    ASSUME StatsAssumption, StatsTypes, PacketsLimited, [StatsNext]_statsVars
    PROVE  PacketsLimited'
<1> USE DEF statsVars, agentVars, serverVars, statsHistory
<1>1. CASE Pack
    BY <1>1, PackLimited
<1>2. CASE Send
  <2>1. packets \in Seq(Packet) /\ packets # << >> /\ packets' = Tail(packets)
      BY <1>2 DEF Send, StatsTypes
  <2>2. PICK n : n = Len(packets)
      OBVIOUS
  <2>3. n \in Nat /\ Len(packets') = n - 1 /\ \A k \in 1..(n - 1) : packets'[k] = packets[k + 1]
      BY <2>1, <2>2, LenProperties, HeadTailProperties
  <2>4. \A k \in 1..(n - 1) : k + 1 \in 1..n
      BY <2>3
  <2> QED
      BY <2>2, <2>3, <2>4 DEF PacketsLimited
<1>3. CASE SendFails
    BY <1>3 DEF SendFails, PacketsLimited
<1>4. CASE UNCHANGED packets
    BY <1>4 DEF PacketsLimited
<1>5. CASE \/ \E path \in Paths, by \in {1, -1} : Count(path, by)
           \/ WakeUp \/ Report \/ Reported \/ Stop
           \/ \E p \in net : Lose(p) \/ Repeat(p) \/ Receive(p)
           \/ \E f \in Foreign : SendForeign(f)
           \/ \E job \in jobs : HandleSample(job)
           \/ UNCHANGED statsVars
    BY <1>4, <1>5 DEF Count, WakeUp, Report, Reported, Stop, Lose, Repeat, Receive, SendForeign, HandleSample
<1> QED
    BY <1>1, <1>2, <1>3, <1>5 DEF StatsNext

\* Increments are neither lost nor reported twice by the agent, no packet of
\* more than one line reaches kMaxPacketSize, and the server hears each
\* packet that arrives as it was meant: any stats, any packets of other
\* programs, any number of them, and any interleaving of the counting
\* threads, the agent, the network and the work threads.
THEOREM StatsAddUpHolds == StatsSpec => []StatsAddUp
<1> DEFINE IInv == StatsTypes /\ StatsSum /\ Delivery /\ PacketsLimited
<1>1. StatsInit => IInv
  <2>1. ASSUME StatsInit PROVE PacketsLimited
      BY <2>1 DEF StatsInit, PacketsLimited
  <2> QED
      BY <2>1, StatsAssumption, InitSum, InitDelivery
<1>2. IInv /\ [StatsNext]_statsVars => IInv'
  <2>1. Delivery => WasSent
      BY DEF Delivery, OnItsWay, WasSent
  <2> QED
      BY <2>1, StatsAssumption, StepSum, StepDelivery, StepLimited
<1>3. IInv => StatsAddUp
    BY DEF StatsSum, Delivery, HeardRight, PacketsLimited, StatsAddUp
<1> QED
    BY <1>1, <1>2, <1>3, PTL DEF StatsSpec
=============================================================================
