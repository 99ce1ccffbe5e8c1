---------------------------- MODULE SumTheorems ----------------------------
(***************************************************************************)
(* What SumFunctionOnSet of the community modules returns on a finite set: *)
(* nothing for the empty set, and for any element of the set its value and *)
(* the sum of the rest.  The operator folds a recursive function over the  *)
(* subsets; that such a function exists and that the order in which it     *)
(* picks elements does not matter is shown by induction on the size of the *)
(* set.                                                                    *)
(***************************************************************************)
EXTENDS Functions, FiniteSetTheorems, TLAPS

\* Induction on Nat, as a fact about sets.
LEMMA NatInductive ==
  ASSUME NEW G, 0 \in G, \A n \in Nat : n \in G => n + 1 \in G
  PROVE  Nat \subseteq G
<1> DEFINE Bad == Nat \ G
<1> SUFFICES ASSUME Bad # {} PROVE FALSE
  OBVIOUS
<1>1. PICK n \in Bad : \A m \in Bad : ~ (<<m, n>> \in OpToRel(<, Nat))
  BY NatLessThanWellFounded, WFMin
<1>2. n \in Nat \ {0}
  OBVIOUS
<1>3. n - 1 \in Nat /\ n - 1 < n
  BY <1>2
<1>4. n - 1 \in G
  BY <1>1, <1>3 DEF OpToRel
<1> QED BY <1>2, <1>3, <1>4

\* The recursive function that adds up g over the subsets of S.
Pick(s) == CHOOSE x \in s : TRUE
Adds(h, g, s) == IF s = {} THEN 0 ELSE g[Pick(s)] + h[s \ {Pick(s)}]
Sums(h, g, S) == h = [s \in SUBSET S |-> Adds(h, g, s)]

LEMMA Picked == ASSUME NEW s, s # {} PROVE Pick(s) \in s
BY DEF Pick

LEMMA Rest ==
  ASSUME NEW S, IsFiniteSet(S), NEW x \in S
  PROVE  /\ IsFiniteSet(S \ {x}) /\ Cardinality(S) \in Nat \ {0}
         /\ Cardinality(S \ {x}) = Cardinality(S) - 1
<1>1. IsFiniteSet(S \ {x}) /\ Cardinality(S \ {x}) = Cardinality(S) - 1
  BY FS_RemoveElement
<1>2. Cardinality(S) \in Nat /\ Cardinality(S) # 0
  BY FS_CardinalityType, FS_EmptySet
<1> QED BY <1>1, <1>2

LEMMA SumsExist ==
  ASSUME NEW S, IsFiniteSet(S), NEW g
  PROVE  \E h : Sums(h, g, S)
<1> DEFINE Small(n) == {s \in SUBSET S : Cardinality(s) <= n}
           Defines(h, n) == h = [s \in Small(n) |-> Adds(h, g, s)]
           Good == {n \in Nat : \E h : Defines(h, n)}
<1>1. ASSUME NEW s \in SUBSET S
      PROVE  IsFiniteSet(s) /\ Cardinality(s) \in Nat /\ Cardinality(s) <= Cardinality(S)
  BY FS_Subset, FS_CardinalityType
<1>2. 0 \in Good
  <2> DEFINE h == [s \in Small(0) |-> 0]
  <2>1. ASSUME NEW s \in Small(0) PROVE s = {}
    <3>1. Cardinality(s) = 0 /\ IsFiniteSet(s)
      BY <1>1
    <3> QED BY <3>1, FS_EmptySet
  <2>2. Defines(h, 0)
    BY <2>1 DEF Adds
  <2> QED BY <2>2
<1>3. ASSUME NEW n \in Nat, n \in Good PROVE n + 1 \in Good
  <2>1. PICK h : Defines(h, n)
    BY <1>3
  <2> DEFINE k == [s \in Small(n + 1) |-> Adds(h, g, s)]
  <2>2. ASSUME NEW s \in Small(n) PROVE s \in Small(n + 1) /\ k[s] = h[s]
    <3>1. s \in Small(n + 1)
      BY <1>1
    <3>2. h[s] = Adds(h, g, s)
      BY <2>1
    <3> QED BY <3>1, <3>2
  <2>3. ASSUME NEW s \in Small(n + 1), s # {} PROVE s \ {Pick(s)} \in Small(n)
    <3>1. IsFiniteSet(s) /\ Cardinality(s) \in Nat
      BY <1>1
    <3>2. Cardinality(s \ {Pick(s)}) = Cardinality(s) - 1
      BY <2>3, <3>1, Picked, Rest
    <3> QED BY <3>1, <3>2
  <2>4. ASSUME NEW s \in Small(n + 1) PROVE Adds(h, g, s) = Adds(k, g, s)
    <3>1. CASE s = {}
      BY <3>1 DEF Adds
    <3>2. CASE s # {}
      <4>1. k[s \ {Pick(s)}] = h[s \ {Pick(s)}]
        BY <2>2, <2>3, <3>2
      <4> QED BY <3>2, <4>1 DEF Adds
    <3> QED BY <3>1, <3>2
  <2>5. Defines(k, n + 1)
    BY <2>4
  <2> HIDE DEF k
  <2>6. \E f : Defines(f, n + 1)
    BY <2>5
  <2> QED BY <2>6
<1>4. Cardinality(S) \in Good
  <2> HIDE DEF Good
  <2>1. Nat \subseteq Good
    BY <1>2, <1>3, NatInductive
  <2> QED BY <2>1, FS_CardinalityType
<1>5. Small(Cardinality(S)) = SUBSET S
  BY <1>1
<1> QED BY <1>4, <1>5 DEF Sums

\* What such a function returns: a number, and the same whichever element is
\* added last and whatever larger set it is defined for.
LEMMA SumsAddUp ==
  ASSUME NEW S, IsFiniteSet(S), NEW g, \A x \in S : g[x] \in Nat, NEW h, Sums(h, g, S)
  PROVE  /\ h[{}] = 0
         /\ \A T \in SUBSET S : h[T] \in Nat
         /\ \A T \in SUBSET S : \A x \in T : h[T] = g[x] + h[T \ {x}]
<1> DEFINE Fine(T) == h[T] \in Nat /\ \A x \in T : h[T] = g[x] + h[T \ {x}]
           Good == {n \in Nat : \A T \in SUBSET S : Cardinality(T) <= n => Fine(T)}
<1>1. ASSUME NEW T \in SUBSET S PROVE IsFiniteSet(T) /\ Cardinality(T) \in Nat
  BY FS_Subset, FS_CardinalityType
<1>2. ASSUME NEW T \in SUBSET S
      PROVE  /\ T = {} => h[T] = 0
             /\ T # {} => Pick(T) \in T /\ h[T] = g[Pick(T)] + h[T \ {Pick(T)}]
  <2>1. h[T] = Adds(h, g, T)
    BY DEF Sums
  <2> QED BY <2>1, Picked DEF Adds
<1>3. 0 \in Good
  <2>1. ASSUME NEW T \in SUBSET S, Cardinality(T) <= 0 PROVE Fine(T)
    <3>1. Cardinality(T) = 0 /\ IsFiniteSet(T)
      BY <1>1, <2>1
    <3>2. T = {}
      BY <3>1, FS_EmptySet
    <3>3. h[T] = 0 /\ \A x \in T : FALSE
      BY <1>2, <3>2
    <3> QED BY <3>3
  <2> QED BY <2>1
<1>4. ASSUME NEW n \in Nat, n \in Good PROVE n + 1 \in Good
  <2>1. ASSUME NEW T \in SUBSET S, T # {}, Cardinality(T) <= n + 1 PROVE Fine(T)
    <3>1. ASSUME NEW x \in T
          PROVE  T \ {x} \in SUBSET S /\ Cardinality(T \ {x}) <= n /\ Fine(T \ {x})
      <4>1. Cardinality(T) \in Nat /\ Cardinality(T \ {x}) = Cardinality(T) - 1
        BY <1>1, <2>1, Rest
      <4>2. Cardinality(T \ {x}) <= n
        BY <2>1, <4>1
      <4> QED BY <1>4, <4>2
    <3>2. T # {}
      BY <2>1
    <3> DEFINE p == Pick(T)
    <3>3. p \in T /\ h[T] = g[p] + h[T \ {p}]
      BY <1>2, <3>2
    <3> HIDE DEF p
    <3>4. g[p] \in Nat /\ h[T \ {p}] \in Nat
      BY <3>1, <3>3
    <3>5. ASSUME NEW x \in T, x # p PROVE h[T] = g[x] + h[T \ {x}]
      <4>1. (T \ {p}) \ {x} = (T \ {x}) \ {p} /\ x \in T \ {p} /\ p \in T \ {x}
        BY <3>3, <3>5
      <4>2. h[T \ {p}] = g[x] + h[(T \ {p}) \ {x}] /\ h[T \ {x}] = g[p] + h[(T \ {x}) \ {p}]
        BY <3>1, <3>3, <4>1
      <4>3. g[x] \in Nat /\ h[T \ {x}] \in Nat
        BY <3>1
      <4>4. h[(T \ {p}) \ {x}] \in Nat
        <5>1. T \ {p} \in SUBSET S /\ (T \ {p}) \ {x} \in SUBSET S
          OBVIOUS
        <5>2. Cardinality(T \ {p}) <= n
          BY <3>1, <3>3
        <5>3. /\ Cardinality(T \ {p}) \in Nat
              /\ Cardinality((T \ {p}) \ {x}) = Cardinality(T \ {p}) - 1
          BY <1>1, <4>1, <5>1, Rest
        <5>4. Cardinality((T \ {p}) \ {x}) <= n
          BY <5>2, <5>3
        <5> QED BY <1>4, <5>1, <5>4
      <4> QED BY <3>3, <3>4, <4>1, <4>2, <4>3, <4>4
    <3>6. h[T] \in Nat
      BY <3>3, <3>4
    <3>7. \A x \in T : h[T] = g[x] + h[T \ {x}]
      BY <3>3, <3>5
    <3> QED BY <3>6, <3>7
  <2>2. ASSUME NEW T \in SUBSET S, T = {} PROVE Fine(T)
    <3>1. h[T] = 0 /\ \A x \in T : FALSE
      BY <1>2, <2>2
    <3> QED BY <3>1
  <2> HIDE DEF Fine
  <2>3. ASSUME NEW T \in SUBSET S, Cardinality(T) <= n + 1 PROVE Fine(T)
    BY <2>1, <2>2, <2>3
  <2> QED BY <2>3
<1>5. ASSUME NEW T \in SUBSET S PROVE Fine(T)
  <2> HIDE DEF Good, Fine
  <2>1. Nat \subseteq Good
    BY <1>3, <1>4, NatInductive
  <2>2. Cardinality(T) \in Good
    BY <1>1, <2>1
  <2>3. Cardinality(T) <= Cardinality(T)
    BY <1>1
  <2> QED BY <2>2, <2>3 DEF Good
<1> QED BY <1>2, <1>5

----------------------------------------------------------------------------
(* SumFunctionOnSet *)

\* The sum over S is the value at S of such a function.
LEMMA SumIsSums ==
  ASSUME NEW S, IsFiniteSet(S), NEW g
  PROVE  \E h : Sums(h, g, S) /\ SumFunctionOnSet(g, S) = h[S]
<1> DEFINE h == CHOOSE f : Sums(f, g, S)
<1>1. Sums(h, g, S)
  BY SumsExist
<1>2. SumFunctionOnSet(g, S) = h[S]
  BY Zenon DEF SumFunctionOnSet, FoldFunctionOnSet, MapThenFoldSet, Sums, Adds, Pick
<1> QED BY <1>1, <1>2

\* Two such functions agree where both are defined and add up the same values.
LEMMA SumsAgree ==
  ASSUME NEW S, IsFiniteSet(S), NEW f, NEW h, Sums(h, f, S),
         NEW U \in SUBSET S, NEW g, NEW k, Sums(k, g, U), \A x \in U : f[x] = g[x]
  PROVE  \A T \in SUBSET U : h[T] = k[T]
<1> DEFINE Good == {n \in Nat : \A T \in SUBSET U : Cardinality(T) <= n => h[T] = k[T]}
<1>1. ASSUME NEW T \in SUBSET U PROVE IsFiniteSet(T) /\ Cardinality(T) \in Nat
  BY FS_Subset, FS_CardinalityType
<1>2. ASSUME NEW T \in SUBSET U
      PROVE  /\ T = {} => h[T] = k[T]
             /\ T # {} => /\ Pick(T) \in T
                          /\ h[T] = f[Pick(T)] + h[T \ {Pick(T)}]
                          /\ k[T] = g[Pick(T)] + k[T \ {Pick(T)}]
  <2>1. h[T] = Adds(h, f, T) /\ k[T] = Adds(k, g, T)
    BY DEF Sums
  <2> QED BY <2>1, Picked DEF Adds
<1>3. 0 \in Good
  <2>1. ASSUME NEW T \in SUBSET U, Cardinality(T) <= 0 PROVE h[T] = k[T]
    <3>1. Cardinality(T) = 0 /\ IsFiniteSet(T)
      BY <1>1, <2>1
    <3>2. T = {}
      BY <3>1, FS_EmptySet
    <3> QED BY <1>2, <3>2
  <2> QED BY <2>1
<1>4. ASSUME NEW n \in Nat, n \in Good PROVE n + 1 \in Good
  <2>1. ASSUME NEW T \in SUBSET U, T # {}, Cardinality(T) <= n + 1 PROVE h[T] = k[T]
    <3> DEFINE p == Pick(T)
    <3>1. p \in T /\ h[T] = f[p] + h[T \ {p}] /\ k[T] = g[p] + k[T \ {p}]
      BY <1>2, <2>1
    <3> HIDE DEF p
    <3>2. Cardinality(T) \in Nat /\ Cardinality(T \ {p}) = Cardinality(T) - 1
      BY <1>1, <3>1, Rest
    <3>3. T \ {p} \in SUBSET U /\ Cardinality(T \ {p}) <= n
      BY <2>1, <3>2
    <3>4. h[T \ {p}] = k[T \ {p}]
      BY <1>4, <3>3
    <3> QED BY <3>1, <3>4
  <2>2. ASSUME NEW T \in SUBSET U, Cardinality(T) <= n + 1 PROVE h[T] = k[T]
    BY <1>2, <2>1, <2>2
  <2> QED BY <2>2
<1>5. ASSUME NEW T \in SUBSET U PROVE h[T] = k[T]
  <2> HIDE DEF Good
  <2>1. Nat \subseteq Good
    BY <1>3, <1>4, NatInductive
  <2>2. Cardinality(T) \in Good
    BY <1>1, <2>1
  <2>3. Cardinality(T) <= Cardinality(T)
    BY <1>1
  <2> QED BY <2>2, <2>3 DEF Good
<1> QED BY <1>5

LEMMA SumOfNone == ASSUME NEW g PROVE SumFunctionOnSet(g, {}) = 0
<1>1. PICK h : Sums(h, g, {}) /\ SumFunctionOnSet(g, {}) = h[{}]
  BY SumIsSums, FS_EmptySet
<1>2. h[{}] = Adds(h, g, {})
  BY <1>1 DEF Sums
<1> QED BY <1>1, <1>2 DEF Adds

LEMMA SumOfSame ==
  ASSUME NEW S, IsFiniteSet(S), NEW f, NEW g, \A x \in S : f[x] = g[x]
  PROVE  SumFunctionOnSet(f, S) = SumFunctionOnSet(g, S)
<1>1. PICK h : Sums(h, f, S) /\ SumFunctionOnSet(f, S) = h[S]
  BY SumIsSums
<1>2. PICK k : Sums(k, g, S) /\ SumFunctionOnSet(g, S) = k[S]
  BY SumIsSums
<1>3. h[S] = k[S]
  BY <1>1, <1>2, SumsAgree
<1> QED BY <1>1, <1>2, <1>3

LEMMA SumWithout ==
  ASSUME NEW S, IsFiniteSet(S), NEW g, \A x \in S : g[x] \in Nat, NEW x \in S
  PROVE  /\ SumFunctionOnSet(g, S \ {x}) \in Nat
         /\ SumFunctionOnSet(g, S) = g[x] + SumFunctionOnSet(g, S \ {x})
<1>1. PICK h : Sums(h, g, S) /\ SumFunctionOnSet(g, S) = h[S]
  BY SumIsSums
<1>2. PICK k : Sums(k, g, S \ {x}) /\ SumFunctionOnSet(g, S \ {x}) = k[S \ {x}]
  BY SumIsSums, Rest
<1>3. h[S \ {x}] = k[S \ {x}]
  BY <1>1, <1>2, SumsAgree
<1>4. h[S] = g[x] + h[S \ {x}] /\ h[S \ {x}] \in Nat
  BY <1>1, SumsAddUp
<1> QED BY <1>1, <1>2, <1>3, <1>4

\* Adding an element adds its value.
LEMMA SumWith ==
  ASSUME NEW S, IsFiniteSet(S), NEW g, NEW x, x \notin S, \A y \in S \cup {x} : g[y] \in Nat
  PROVE  /\ SumFunctionOnSet(g, S) \in Nat
         /\ SumFunctionOnSet(g, S \cup {x}) = g[x] + SumFunctionOnSet(g, S)
<1> DEFINE T == S \cup {x}
<1>1. IsFiniteSet(T)
  BY FS_AddElement
<1>2. T \ {x} = S /\ x \in T
  OBVIOUS
<1>3. \A y \in T : g[y] \in Nat
  OBVIOUS
<1> HIDE DEF T
<1>4. /\ SumFunctionOnSet(g, T \ {x}) \in Nat
      /\ SumFunctionOnSet(g, T) = g[x] + SumFunctionOnSet(g, T \ {x})
  BY <1>1, <1>2, <1>3, SumWithout
<1> QED BY <1>2, <1>4 DEF T
=============================================================================
