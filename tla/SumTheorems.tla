---------------------------- MODULE SumTheorems ----------------------------
(***************************************************************************)
(* Lemmas about SumFunction, the sum of the values of a function with a    *)
(* finite domain, and about folds over sequences.  The library's           *)
(* induction theorems take a predicate; the induction here is over a set,  *)
(* the subsets for which a claim holds.                                    *)
(***************************************************************************)
EXTENDS Integers, FiniteSets, Sequences, SequencesExt, FiniteSetTheorems,
        WellFoundedInduction, SequenceTheorems, TLAPS

(* A set of subsets of a finite set that has every subset whose proper     *)
(* subsets it has, has the whole set.                                      *)
LEMMA SubsetInduction ==
  ASSUME NEW S, IsFiniteSet(S), NEW G,
         \A T \in SUBSET S : (\A U \in SUBSET T : U # T => U \in G) => T \in G
  PROVE  S \in G
<1> SUFFICES ASSUME S \notin G PROVE FALSE
  OBVIOUS
<1> DEFINE Bad == {T \in SUBSET S : T \notin G}
<1>1. IsWellFoundedOn(StrictSubsetOrdering(S), FiniteSubsetsOf(S))
  BY FS_StrictSubsetOrderingWellFounded
<1>2. Bad \subseteq FiniteSubsetsOf(S) /\ Bad # {}
  BY FS_FiniteSubsetsOfFinite
<1> HIDE DEF Bad
<1>3. PICK T \in Bad : \A U \in Bad : ~(<<U, T>> \in StrictSubsetOrdering(S))
  BY <1>1, <1>2, WFMin
<1>4. \A U \in SUBSET T : U # T => U \in G
  BY <1>3 DEF StrictSubsetOrdering, Bad
<1> QED
  BY <1>3, <1>4 DEF Bad

-----------------------------------------------------------------------------
(* The recursive function that SumFunction is defined with: g[T] is the    *)
(* sum over the subset T of S.                                             *)

Chosen(T) == CHOOSE x \in T : TRUE

IsSumOver(g, f, S) ==
  g = [T \in SUBSET S |->
         IF T = {} THEN 0 ELSE f[Chosen(T)] + g[T \ {Chosen(T)}]]

(* A sum over a set depends on the values in that set and on nothing else. *)
LEMMA SumsAgree ==
  ASSUME NEW f, NEW S, NEW g, IsSumOver(g, f, S),
         NEW e, NEW R, NEW h, IsSumOver(h, e, R),
         NEW T, T \subseteq S, T \subseteq R, IsFiniteSet(T),
         \A x \in T : f[x] = e[x]
  PROVE  g[T] = h[T]
<1> DEFINE G == {U \in SUBSET T : g[U] = h[U]}
<1>1. ASSUME NEW U \in SUBSET T, \A V \in SUBSET U : V # U => V \in G
      PROVE  U \in G
  <2>1. CASE U = {}
    BY <2>1 DEF IsSumOver
  <2>2. CASE U # {}
    <3>1. Chosen(U) \in U
      BY <2>2 DEF Chosen
    <3>2. U \ {Chosen(U)} \in SUBSET U /\ U \ {Chosen(U)} # U
      BY <3>1
    <3>3. g[U \ {Chosen(U)}] = h[U \ {Chosen(U)}]
      BY <1>1, <3>2
    <3>4. /\ g[U] = f[Chosen(U)] + g[U \ {Chosen(U)}]
          /\ h[U] = e[Chosen(U)] + h[U \ {Chosen(U)}]
      BY <2>2 DEF IsSumOver
    <3> QED
      BY <3>1, <3>3, <3>4
  <2> QED
    BY <2>1, <2>2
<1> HIDE DEF G
<1>2. T \in G
  BY <1>1, SubsetInduction
<1> QED
  BY <1>2 DEF G

(* The recursion is well defined.                                          *)
LEMMA SumOverExists ==
  ASSUME NEW f, NEW S, IsFiniteSet(S)
  PROVE  \E g : IsSumOver(g, f, S)
<1> DEFINE G == {T \in SUBSET S : \E g : IsSumOver(g, f, T)}
<1>1. ASSUME NEW T \in SUBSET S, \A U \in SUBSET T : U # T => U \in G
      PROVE  T \in G
  <2> DEFINE sum(U) == (CHOOSE g : IsSumOver(g, f, U))[U]
             new(U) == IF U = {} THEN 0 ELSE f[Chosen(U)] + sum(U \ {Chosen(U)})
             g == [U \in SUBSET T |-> new(U)]
  <2>1. ASSUME NEW U \in SUBSET T, U # T
        PROVE  sum(U) = new(U)
    <3> DEFINE h == CHOOSE h : IsSumOver(h, f, U)
    <3>1. IsSumOver(h, f, U)
      BY <1>1, <2>1
    <3>2. CASE U = {}
      BY <3>1, <3>2 DEF IsSumOver
    <3>3. CASE U # {}
      <4> DEFINE V == U \ {Chosen(U)}
                 k == CHOOSE k : IsSumOver(k, f, V)
      <4>1. V \in SUBSET U /\ V \in SUBSET T /\ V # T /\ IsFiniteSet(V)
        <5>1. V \in SUBSET U /\ V \in SUBSET T /\ V # T
          BY <2>1
        <5> QED
          BY <5>1, FS_Subset
      <4>2. IsSumOver(k, f, V)
        BY <1>1, <4>1
      <4> HIDE DEF h, k, V
      <4>3. h[V] = k[V]
        BY <3>1, <4>1, <4>2, SumsAgree
      <4>4. h[U] = f[Chosen(U)] + h[V]
        BY <3>1, <3>3 DEF IsSumOver, V
      <4> QED
        BY <3>3, <4>3, <4>4 DEF h, k, V
    <3> QED
      BY <3>2, <3>3
  <2>2. \A U \in SUBSET T : U # {} => g[U \ {Chosen(U)}] = sum(U \ {Chosen(U)})
    <3> SUFFICES ASSUME NEW U \in SUBSET T, U # {}
                 PROVE  g[U \ {Chosen(U)}] = sum(U \ {Chosen(U)})
      OBVIOUS
    <3>1. Chosen(U) \in U
      BY DEF Chosen
    <3>2. U \ {Chosen(U)} \in SUBSET T /\ U \ {Chosen(U)} # T
      BY <3>1
    <3> QED
      BY <2>1, <3>2
  <2> HIDE DEF sum, g
  <2>3. \A U \in SUBSET T :
          new(U) = IF U = {} THEN 0 ELSE f[Chosen(U)] + g[U \ {Chosen(U)}]
    BY <2>2
  <2> HIDE DEF new
  <2>4. IsSumOver(g, f, T)
    BY <2>3 DEF IsSumOver, g
  <2> QED
    BY <2>4
<1> HIDE DEF G
<1>2. S \in G
  BY <1>1, SubsetInduction
<1> QED
  BY <1>2 DEF G

LEMMA SumFunctionIsSumOver ==
  ASSUME NEW f, IsFiniteSet(DOMAIN f)
  PROVE  \E g : IsSumOver(g, f, DOMAIN f) /\ SumFunction(f) = g[DOMAIN f]
<1> DEFINE g == CHOOSE g : IsSumOver(g, f, DOMAIN f)
<1>1. IsSumOver(g, f, DOMAIN f)
  BY SumOverExists
<1>2. SumFunction(f) = g[DOMAIN f]
  BY DEF SumFunction, SumFunctionOnSet, FoldFunctionOnSet, MapThenFoldSet,
         IsSumOver, Chosen
<1> QED
  BY <1>1, <1>2

-----------------------------------------------------------------------------
(* Any element may be the first of a sum of integers.                      *)
LEMMA SumOverRest ==
  ASSUME NEW S, IsFiniteSet(S), NEW f \in [S -> Int],
         NEW g, IsSumOver(g, f, S)
  PROVE  g[S] \in Int /\ \A x \in S : g[S] = f[x] + g[S \ {x}]
<1> DEFINE G == {T \in SUBSET S : g[T] \in Int /\ \A x \in T : g[T] = f[x] + g[T \ {x}]}
<1>1. ASSUME NEW T \in SUBSET S, \A U \in SUBSET T : U # T => U \in G
      PROVE  T \in G
  <2>1. CASE T = {}
    BY <2>1 DEF IsSumOver
  <2>2. CASE T # {}
    <3> DEFINE c == Chosen(T)
    <3>1. c \in T
      BY <2>2 DEF Chosen
    <3>2. g[T] = f[c] + g[T \ {c}]
      BY <2>2 DEF IsSumOver
    <3> HIDE DEF c
    <3>3. \A x \in T : T \ {x} \in SUBSET T /\ T \ {x} # T
      OBVIOUS
    <3>4. \A x \in T : T \ {x} \in G
      BY <1>1, <3>3
    <3> DEFINE Rest(x) == T \ {x}
    <3>5. g[T] \in Int
      <4>1. g[Rest(c)] \in Int /\ f[c] \in Int
        BY <3>1, <3>4
      <4> HIDE DEF Rest
      <4>2. g[T] = f[c] + g[Rest(c)]
        BY <3>2 DEF Rest
      <4> QED
        BY <4>1, <4>2
    <3>6. ASSUME NEW x \in T, x # c
          PROVE  g[T] = f[x] + g[T \ {x}]
      <4>1. (T \ {c}) \ {x} = (T \ {x}) \ {c}
        OBVIOUS
      <4>2. g[T \ {c}] = f[x] + g[(T \ {c}) \ {x}]
        BY <3>1, <3>4, <3>6
      <4>3. g[T \ {x}] = f[c] + g[(T \ {x}) \ {c}]
        BY <3>1, <3>4, <3>6
      <4>4. (T \ {x}) \ {c} \in SUBSET T /\ (T \ {x}) \ {c} # T
        BY <3>1
      <4> DEFINE b == g[(T \ {x}) \ {c}]
      <4>5. b \in Int /\ f[c] \in Int /\ f[x] \in Int
        BY <1>1, <3>1, <4>4
      <4>6. g[T \ {c}] = f[x] + b /\ g[T \ {x}] = f[c] + b
        BY <4>1, <4>2, <4>3
      <4> HIDE DEF b
      <4>7. g[T] = f[c] + (f[x] + b)
        BY <3>2, <4>6
      <4> QED
        BY <4>5, <4>6, <4>7
    <3> QED
      BY <3>2, <3>5, <3>6
  <2> QED
    BY <2>1, <2>2
<1> HIDE DEF G
<1>2. S \in G
  BY <1>1, SubsetInduction
<1> QED
  BY <1>2 DEF G

(* The sum of integers is an integer, and the sum of nothing is zero.      *)
LEMMA SumType ==
  ASSUME NEW S, IsFiniteSet(S), NEW f \in [S -> Int]
  PROVE  SumFunction(f) \in Int /\ (S = {} => SumFunction(f) = 0)
<1>1. PICK g : IsSumOver(g, f, S) /\ SumFunction(f) = g[S]
  BY SumFunctionIsSumOver
<1>2. g[S] \in Int
  BY <1>1, SumOverRest
<1>3. g[{}] = 0
  BY <1>1 DEF IsSumOver
<1> QED
  BY <1>1, <1>2, <1>3

(* A sum is one value and the sum of the rest.                             *)
LEMMA SumRest ==
  ASSUME NEW S, IsFiniteSet(S), NEW f \in [S -> Int], NEW x \in S
  PROVE  SumFunction(f) = f[x] + SumFunction([y \in S \ {x} |-> f[y]])
<1> DEFINE R == S \ {x}
           e == [y \in R |-> f[y]]
<1>1. IsFiniteSet(R)
  BY FS_RemoveElement
<1>2. DOMAIN e = R
  OBVIOUS
<1>3. \A y \in R : f[y] = e[y]
  OBVIOUS
<1> HIDE DEF e
<1>4. PICK g : IsSumOver(g, f, S) /\ SumFunction(f) = g[S]
  BY SumFunctionIsSumOver
<1>5. PICK h : IsSumOver(h, e, R) /\ SumFunction(e) = h[R]
  BY <1>1, <1>2, SumFunctionIsSumOver
<1>6. g[S] = f[x] + g[R]
  <2>1. \A z \in S : g[S] = f[z] + g[S \ {z}]
    BY <1>4, SumOverRest, ZenonT(60)
  <2> QED
    BY <2>1
<1>7. g[R] = h[R]
  BY <1>1, <1>3, <1>4, <1>5, SumsAgree
<1> QED
  BY <1>4, <1>5, <1>6, <1>7 DEF e

Rest(f, S, x) == [y \in S \ {x} |-> f[y]]

LEMMA SumRestEach ==
  ASSUME NEW S, IsFiniteSet(S), NEW x \in S
  PROVE  \A f \in [S -> Int] : SumFunction(f) = f[x] + SumFunction(Rest(f, S, x))
<1> TAKE f \in [S -> Int]
<1> QED
  BY SumRest DEF Rest

(* One value changes: so does the sum, by as much.                         *)
LEMMA SumUpdate ==
  ASSUME NEW S, IsFiniteSet(S), NEW f \in [S -> Int], NEW e \in [S -> Int],
         NEW x \in S, \A y \in S \ {x} : e[y] = f[y]
  PROVE  SumFunction(e) = SumFunction(f) + e[x] - f[x]
<1> DEFINE rest == [y \in S \ {x} |-> f[y]]
<1>0. \A h \in [S -> Int] :
        SumFunction(h) = h[x] + SumFunction([y \in S \ {x} |-> h[y]])
  BY SumRest
<1>1. SumFunction(f) = f[x] + SumFunction(rest)
  BY <1>0
<1>2. SumFunction(e) = e[x] + SumFunction([y \in S \ {x} |-> e[y]])
  BY <1>0
<1>3. [y \in S \ {x} |-> e[y]] = rest
  OBVIOUS
<1>4. SumFunction(rest) \in Int
  <2>1. IsFiniteSet(S \ {x})
    BY FS_RemoveElement
  <2>2. rest \in [S \ {x} -> Int]
    OBVIOUS
  <2> HIDE DEF rest
  <2> QED
    BY <2>1, <2>2, SumType
<1>5. f[x] \in Int /\ e[x] \in Int
  OBVIOUS
<1> HIDE DEF rest
<1> QED
  BY <1>1, <1>2, <1>3, <1>4, <1>5

(* A sum of zeros is zero.                                                 *)
LEMMA SumZero ==
  ASSUME NEW S, IsFiniteSet(S), NEW f \in [S -> Int], \A x \in S : f[x] = 0
  PROVE  SumFunction(f) = 0
<1>1. PICK g : IsSumOver(g, f, S) /\ SumFunction(f) = g[S]
  BY SumFunctionIsSumOver
<1> DEFINE G == {T \in SUBSET S : g[T] = 0}
<1>2. ASSUME NEW T \in SUBSET S, \A U \in SUBSET T : U # T => U \in G
      PROVE  T \in G
  <2>1. CASE T = {}
    BY <1>1, <2>1 DEF IsSumOver
  <2>2. CASE T # {}
    <3>1. Chosen(T) \in T
      BY <2>2 DEF Chosen
    <3>2. T \ {Chosen(T)} \in SUBSET T /\ T \ {Chosen(T)} # T
      BY <3>1
    <3>3. g[T \ {Chosen(T)}] = 0
      BY <1>2, <3>2
    <3>4. g[T] = f[Chosen(T)] + g[T \ {Chosen(T)}]
      BY <1>1, <2>2 DEF IsSumOver
    <3> QED
      BY <3>1, <3>3, <3>4
  <2> QED
    BY <2>1, <2>2
<1> HIDE DEF G
<1>3. S \in G
  BY <1>2, SubsetInduction
<1> QED
  BY <1>1, <1>3 DEF G

(* A sum of natural numbers is one.                                        *)
LEMMA SumNat ==
  ASSUME NEW S, IsFiniteSet(S), NEW f \in [S -> Nat]
  PROVE  SumFunction(f) \in Nat
<1>1. PICK g : IsSumOver(g, f, S) /\ SumFunction(f) = g[S]
  BY SumFunctionIsSumOver
<1> DEFINE G == {T \in SUBSET S : g[T] \in Nat}
<1>2. ASSUME NEW T \in SUBSET S, \A U \in SUBSET T : U # T => U \in G
      PROVE  T \in G
  <2>1. CASE T = {}
    BY <1>1, <2>1 DEF IsSumOver
  <2>2. CASE T # {}
    <3> DEFINE c == Chosen(T)
               R == T \ {c}
    <3>1. c \in T
      BY <2>2 DEF Chosen
    <3>2. R \in SUBSET T /\ R # T
      BY <3>1
    <3>3. g[R] \in Nat
      BY <1>2, <3>2
    <3>4. g[T] = f[c] + g[R]
      BY <1>1, <2>2 DEF IsSumOver
    <3> HIDE DEF c, R
    <3> QED
      BY <3>1, <3>3, <3>4
  <2> QED
    BY <2>1, <2>2
<1> HIDE DEF G
<1>3. S \in G
  BY <1>2, SubsetInduction
<1> QED
  BY <1>1, <1>3 DEF G

(* No value, and no two values together, exceed a sum of natural numbers.  *)
LEMMA SumBounds ==
  ASSUME NEW S, IsFiniteSet(S), NEW f \in [S -> Nat], NEW x \in S
  PROVE  /\ f[x] <= SumFunction(f)
         /\ \A y \in S \ {x} : f[x] + f[y] <= SumFunction(f)
<1> DEFINE R == S \ {x}
           e == [y \in R |-> f[y]]
<1>1. IsFiniteSet(R)
  BY FS_RemoveElement
<1>2. e \in [R -> Nat] /\ f \in [S -> Int] /\ f[x] \in Nat
  OBVIOUS
<1>3. SumFunction(f) = f[x] + SumFunction(e)
  BY <1>2, SumRest
<1> HIDE DEF e
<1>4. SumFunction(e) \in Nat
  BY <1>1, <1>2, SumNat
<1>5. ASSUME NEW y \in R
      PROVE  f[x] + f[y] <= SumFunction(f)
  <2> DEFINE Q == R \ {y}
             d == [z \in Q |-> e[z]]
  <2>1. IsFiniteSet(Q)
    BY <1>1, FS_RemoveElement
  <2>2. d \in [Q -> Nat] /\ e \in [R -> Int] /\ e[y] = f[y] /\ f[y] \in Nat
    BY <1>2 DEF e
  <2>3. SumFunction(e) = e[y] + SumFunction(d)
    BY <1>1, <2>2, SumRest
  <2> HIDE DEF d, Q
  <2>4. SumFunction(d) \in Nat
    BY <2>1, <2>2, SumNat
  <2> QED
    BY <1>2, <1>3, <2>2, <2>3, <2>4
<1> QED
  BY <1>2, <1>3, <1>4, <1>5

-----------------------------------------------------------------------------
(* Renaming the places of the values does not change a sum.                *)
Renames(h, S, R) ==
  /\ h \in [S -> R]
  /\ \A x, y \in S : h[x] = h[y] => x = y
  /\ \A z \in R : \E x \in S : h[x] = z

LEMMA SumRenamed ==
  ASSUME NEW S, IsFiniteSet(S), NEW f \in [S -> Int],
         NEW R, IsFiniteSet(R), NEW e \in [R -> Int],
         NEW h, Renames(h, S, R),
         \A x \in S : f[x] = e[h[x]]
  PROVE  SumFunction(f) = SumFunction(e)
<1> USE DEF Renames
<1> DEFINE Img(U) == {h[x] : x \in U}
           fOn(U) == [x \in U |-> f[x]]
           eOn(U) == [z \in Img(U) |-> e[z]]
           G == {U \in SUBSET S : SumFunction(fOn(U)) = SumFunction(eOn(U))}
<1>1. ASSUME NEW U \in SUBSET S, \A V \in SUBSET U : V # U => V \in G
      PROVE  U \in G
  <2>1. IsFiniteSet(U) /\ IsFiniteSet(Img(U))
    <3>1. Img(U) \in SUBSET R
      OBVIOUS
    <3> HIDE DEF Img
    <3> QED
      BY <3>1, FS_Subset
  <2>2. fOn(U) \in [U -> Int] /\ eOn(U) \in [Img(U) -> Int]
    OBVIOUS
  <2>3. CASE U = {}
    <3>1. Img(U) = {}
      BY <2>3
    <3> HIDE DEF fOn, eOn, Img
    <3>2. SumFunction(fOn(U)) = 0 /\ SumFunction(eOn(U)) = 0
      BY <2>1, <2>2, <2>3, <3>1, SumType
    <3> QED
      BY <3>2
  <2>4. ASSUME NEW x \in U PROVE U \in G
    <3> DEFINE V == U \ {x}
    <3>1. V \in SUBSET U /\ V # U
      OBVIOUS
    <3>2. SumFunction(fOn(V)) = SumFunction(eOn(V))
      BY <1>1, <3>1
    <3>3. Img(U) \ {h[x]} = Img(V) /\ h[x] \in Img(U)
      OBVIOUS
    <3>4. Rest(fOn(U), U, x) = fOn(V) /\ fOn(U)[x] = f[x]
      BY DEF Rest
    <3>5. Rest(eOn(U), Img(U), h[x]) = eOn(V) /\ eOn(U)[h[x]] = e[h[x]]
      BY <3>3 DEF Rest
    <3> HIDE DEF fOn, eOn, Img, G
    <3>6. SumFunction(fOn(U)) = f[x] + SumFunction(fOn(V))
      <4>1. \A a \in [U -> Int] : SumFunction(a) = a[x] + SumFunction(Rest(a, U, x))
        BY <2>1, SumRestEach
      <4>2. SumFunction(fOn(U)) = fOn(U)[x] + SumFunction(Rest(fOn(U), U, x))
        BY <2>2, <4>1
      <4> QED
        BY <3>4, <4>2
    <3> HIDE DEF V
    <3> DEFINE y == h[x]
               I == Img(U)
               d == eOn(U)
    <3>7. SumFunction(eOn(U)) = e[h[x]] + SumFunction(eOn(V))
      <4>1. d \in [I -> Int] /\ IsFiniteSet(I) /\ y \in I
        BY <2>1, <2>2, <3>3
      <4>2. d[y] = e[y] /\ Rest(d, I, y) = eOn(V)
        BY <3>5
      <4> HIDE DEF y, I, d
      <4>3. \A a \in [I -> Int] : SumFunction(a) = a[y] + SumFunction(Rest(a, I, y))
        BY <4>1, SumRestEach
      <4> QED
        BY <4>1, <4>2, <4>3 DEF d, y
    <3> QED
      BY <3>2, <3>6, <3>7 DEF G
  <2> QED
    BY <2>3, <2>4
<1> HIDE DEF G
<1>2. S \in G
  BY <1>1, SubsetInduction
<1>3. Img(S) = R
  OBVIOUS
<1>4. fOn(S) = f /\ eOn(S) = e
  BY <1>3
<1> QED
  BY <1>2, <1>4 DEF G

-----------------------------------------------------------------------------
(* Sequences of numbers: an element is appended, and one is removed.       *)

LEMMA RemoveAtProperties ==
  ASSUME NEW T, NEW s \in Seq(T), NEW i \in 1..Len(s)
  PROVE  /\ RemoveAt(s, i) \in Seq(T)
         /\ Len(RemoveAt(s, i)) = Len(s) - 1
         /\ \A j \in 1..(Len(s) - 1) :
              RemoveAt(s, i)[j] = IF j < i THEN s[j] ELSE s[j + 1]
<1> DEFINE p == SubSeq(s, 1, i - 1)
           q == SubSeq(s, i + 1, Len(s))
<1>0. Len(s) \in Nat
  OBVIOUS
<1>1. /\ p \in Seq(T) /\ Len(p) = i - 1
      /\ \A j \in 1..(i - 1) : p[j] = s[j]
  BY <1>0, SubSeqProperties
<1>2. /\ q \in Seq(T) /\ Len(q) = Len(s) - i
      /\ \A j \in 1..(Len(s) - i) : q[j] = s[i + j]
  BY <1>0, SubSeqProperties
<1>3. RemoveAt(s, i) = p \o q
  BY DEF RemoveAt
<1> HIDE DEF p, q
<1>4. /\ p \o q \in Seq(T) /\ Len(p \o q) = Len(p) + Len(q)
      /\ \A j \in 1..(Len(p) + Len(q)) :
           (p \o q)[j] = IF j <= Len(p) THEN p[j] ELSE q[j - Len(p)]
  BY <1>1, <1>2, ConcatProperties
<1>5. ASSUME NEW j \in 1..(Len(s) - 1)
      PROVE  (p \o q)[j] = IF j < i THEN s[j] ELSE s[j + 1]
  BY <1>0, <1>1, <1>2, <1>4
<1>6. Len(p) + Len(q) = Len(s) - 1
  BY <1>0, <1>1, <1>2
<1> QED
  BY <1>3, <1>4, <1>5, <1>6

LEMMA SumAppend ==
  ASSUME NEW s \in Seq(Int), NEW v \in Int
  PROVE  SumFunction(Append(s, v)) = SumFunction(s) + v
<1> DEFINE n == Len(s) + 1
           t == Append(s, v)
<1>1. n \in Nat /\ Len(s) \in Nat /\ s \in [1..Len(s) -> Int]
  OBVIOUS
<1>2. t \in [1..n -> Int] /\ t[n] = v /\ \A j \in 1..Len(s) : t[j] = s[j]
  <2>1. /\ t \in Seq(Int) /\ Len(t) = n /\ t[n] = v
        /\ \A j \in 1..Len(s) : t[j] = s[j]
    BY AppendProperties
  <2> HIDE DEF t, n
  <2> QED
    BY <2>1
<1>3. (1..n) \ {n} = 1..Len(s) /\ n \in 1..n
  BY <1>1
<1>4. IsFiniteSet(1..n) /\ IsFiniteSet(1..Len(s))
  BY <1>1, FS_Interval
<1> HIDE DEF t, n
<1> DEFINE I == 1..n
<1>5. SumFunction(t) = t[n] + SumFunction([y \in I \ {n} |-> t[y]])
  <2>1. t \in [I -> Int] /\ n \in I /\ IsFiniteSet(I)
    BY <1>2, <1>3, <1>4
  <2> HIDE DEF I
  <2> QED
    BY <2>1, SumRest, ZenonT(60)
<1>6. [y \in (1..n) \ {n} |-> t[y]] = s
  BY <1>1, <1>2, <1>3
<1>7. SumFunction(s) \in Int
  BY <1>1, <1>4, SumType
<1> QED
  BY <1>2, <1>5, <1>6, <1>7 DEF t

LEMMA SumRemoveAt ==
  ASSUME NEW s \in Seq(Int), NEW i \in 1..Len(s)
  PROVE  SumFunction(RemoveAt(s, i)) = SumFunction(s) - s[i]
<1> DEFINE n == Len(s)
           t == RemoveAt(s, i)
           R == (1..n) \ {i}
           rest == [y \in R |-> s[y]]
           h == [y \in R |-> IF y < i THEN y ELSE y - 1]
<1>1. n \in Nat /\ s \in [1..n -> Int] /\ i \in 1..n /\ s[i] \in Int
  OBVIOUS
<1>2. /\ t \in Seq(Int) /\ Len(t) = n - 1
      /\ \A j \in 1..(n - 1) : t[j] = IF j < i THEN s[j] ELSE s[j + 1]
  BY RemoveAtProperties
<1>3. t \in [1..(n - 1) -> Int]
  BY <1>2
<1> HIDE DEF t, n
<1>4. IsFiniteSet(1..n) /\ IsFiniteSet(R) /\ IsFiniteSet(1..(n - 1))
  <2>1. IsFiniteSet(1..n) /\ IsFiniteSet(1..(n - 1))
    BY <1>1, FS_Interval
  <2> QED
    BY <2>1, FS_RemoveElement
<1>5. SumFunction(s) = s[i] + SumFunction(rest)
  BY <1>1, <1>4, SumRest, ZenonT(60)
<1>6. rest \in [R -> Int] /\ \A y \in R : rest[y] = s[y]
  BY <1>1
<1>7. h \in [R -> 1..(n - 1)] /\ \A y \in R : h[y] = IF y < i THEN y ELSE y - 1
  BY <1>1
<1>8. \A x, y \in R : h[x] = h[y] => x = y
  BY <1>1
<1>9. ASSUME NEW z \in 1..(n - 1) PROVE \E x \in R : h[x] = z
  <2>1. CASE z < i
    <3>1. z \in R /\ h[z] = z
      BY <1>1, <2>1
    <3> QED
      BY <3>1
  <2>2. CASE ~(z < i)
    <3>1. z + 1 \in R /\ h[z + 1] = z
      BY <1>1, <2>2
    <3> QED
      BY <3>1
  <2> QED
    BY <2>1, <2>2
<1> HIDE DEF h, rest
<1>10. ASSUME NEW y \in R PROVE rest[y] = t[h[y]]
  <2>1. y \in Nat /\ y # i /\ y <= n /\ y >= 1 /\ rest[y] = s[y]
    BY <1>1, <1>6
  <2>2. CASE y < i
    <3>1. h[y] = y /\ y \in 1..(n - 1)
      BY <1>1, <1>7, <2>1, <2>2
    <3> QED
      BY <1>2, <2>1, <2>2, <3>1
  <2>3. CASE ~(y < i)
    <3>1. h[y] = y - 1 /\ y - 1 \in 1..(n - 1) /\ ~(y - 1 < i) /\ (y - 1) + 1 = y
      BY <1>1, <1>7, <2>1, <2>3
    <3> QED
      BY <1>2, <2>1, <3>1
  <2> QED
    BY <2>2, <2>3
<1> DEFINE Q == 1..(n - 1)
<1>11. SumFunction(rest) = SumFunction(t)
  <2>1. Renames(h, R, Q) /\ t \in [Q -> Int] /\ IsFiniteSet(Q)
    BY <1>3, <1>4, <1>7, <1>8, <1>9 DEF Renames
  <2> HIDE DEF Q, R
  <2> QED
    <3>1. \A x \in R : rest[x] = t[h[x]]
      BY <1>10
    <3> QED
      BY <1>4, <1>6, <2>1, <3>1, SumRenamed
<1>12. SumFunction(rest) \in Int
  BY <1>4, <1>6, SumType
<1> QED
  BY <1>1, <1>5, <1>11, <1>12 DEF t

(* Sequences of which a number is summed: h gives the number of an element. *)

NumbersOf(h, s) == [i \in DOMAIN s |-> h[s[i]]]

LEMMA NumbersOfType ==
  ASSUME NEW T, NEW h \in [T -> Int], NEW s \in Seq(T)
  PROVE  /\ NumbersOf(h, s) \in Seq(Int) /\ Len(NumbersOf(h, s)) = Len(s)
         /\ Len(s) \in Nat /\ DOMAIN s = 1..Len(s)
         /\ \A i \in 1..Len(s) : NumbersOf(h, s)[i] = h[s[i]]
BY DEF NumbersOf

LEMMA SumNumbersAppend ==
  ASSUME NEW T, NEW h \in [T -> Int], NEW s \in Seq(T), NEW m \in T
  PROVE  SumFunction(NumbersOf(h, Append(s, m)))
           = SumFunction(NumbersOf(h, s)) + h[m]
<1>1. NumbersOf(h, s) \in Seq(Int) /\ h[m] \in Int
  BY NumbersOfType
<1>2. NumbersOf(h, Append(s, m)) = Append(NumbersOf(h, s), h[m])
  BY DEF NumbersOf
<1>3. SumFunction(Append(NumbersOf(h, s), h[m]))
        = SumFunction(NumbersOf(h, s)) + h[m]
  BY <1>1, SumAppend
<1> QED
  BY <1>2, <1>3

LEMMA SumNumbersRemoveAt ==
  ASSUME NEW T, NEW h \in [T -> Int], NEW s \in Seq(T), NEW i \in DOMAIN s
  PROVE  SumFunction(NumbersOf(h, RemoveAt(s, i)))
           = SumFunction(NumbersOf(h, s)) - h[s[i]]
<1> DEFINE f == NumbersOf(h, s)
           r == RemoveAt(s, i)
           g == RemoveAt(f, i)
           n == Len(s)
<1>1. /\ f \in Seq(Int) /\ Len(f) = n /\ n \in Nat /\ i \in 1..n
      /\ \A j \in 1..n : f[j] = h[s[j]]
  BY NumbersOfType
<1>2. /\ r \in Seq(T) /\ Len(r) = n - 1
      /\ \A j \in 1..(n - 1) : r[j] = IF j < i THEN s[j] ELSE s[j + 1]
  BY <1>1, RemoveAtProperties
<1> HIDE DEF f, r
<1>3. /\ g \in Seq(Int) /\ Len(g) = n - 1
      /\ \A j \in 1..(n - 1) : g[j] = IF j < i THEN f[j] ELSE f[j + 1]
  <2>1. i \in 1..Len(f) /\ Len(f) = n
    BY <1>1
  <2>2. /\ g \in Seq(Int) /\ Len(g) = Len(f) - 1
        /\ \A j \in 1..(Len(f) - 1) : g[j] = IF j < i THEN f[j] ELSE f[j + 1]
    BY <1>1, <2>1, RemoveAtProperties
  <2> HIDE DEF g
  <2> QED
    BY <2>1, <2>2
<1>4. SumFunction(g) = SumFunction(f) - f[i]
  BY <1>1, SumRemoveAt
<1> HIDE DEF g
<1>5. NumbersOf(h, r) = g
  <2>1. DOMAIN NumbersOf(h, r) = 1..(n - 1) /\ DOMAIN g = 1..(n - 1)
    BY <1>2, <1>3 DEF NumbersOf
  <2>2. ASSUME NEW j \in 1..(n - 1) PROVE NumbersOf(h, r)[j] = g[j]
    <3>1. NumbersOf(h, r)[j] = h[r[j]]
      <4>1. j \in 1..Len(r)
        BY <1>2
      <4> QED
        BY <1>2, <4>1, SMTT(60) DEF NumbersOf
    <3>2. j \in 1..n /\ j + 1 \in 1..n
      BY <1>1
    <3> QED
      BY <1>1, <1>2, <1>3, <3>1, <3>2
  <2>3. NumbersOf(h, r) = [j \in 1..(n - 1) |-> NumbersOf(h, r)[j]]
    BY <2>1 DEF NumbersOf
  <2>4. g = [j \in 1..(n - 1) |-> g[j]]
    BY <1>3, <2>1
  <2> QED
    BY <2>2, <2>3, <2>4
<1> QED
  BY <1>1, <1>4, <1>5 DEF f, r

(* A finite set of integers that is not empty has a greatest one.          *)
LEMMA MaxProperties ==
  ASSUME NEW S, IsFiniteSet(S), S \subseteq Int, S # {}
  PROVE  Max(S) \in S /\ \A x \in S : x <= Max(S)
<1> DEFINE Greatest(T) == \E x \in T : \A y \in T : x >= y
           G == {T \in SUBSET S : T # {} => Greatest(T)}
<1>1. ASSUME NEW T \in SUBSET S, \A U \in SUBSET T : U # T => U \in G
      PROVE  T \in G
  <2> SUFFICES ASSUME T # {} PROVE Greatest(T)
    OBVIOUS
  <2>1. PICK x \in T : TRUE
    OBVIOUS
  <2>2. T \ {x} \in G
    BY <1>1, <2>1
  <2>3. CASE T \ {x} = {}
    BY <2>1, <2>3
  <2>4. CASE T \ {x} # {}
    <3>1. PICK y \in T \ {x} : \A z \in T \ {x} : y >= z
      BY <2>2, <2>4
    <3>2. \A z \in T : z \in Int
      OBVIOUS
    <3>3. CASE x >= y
      BY <2>1, <3>1, <3>2, <3>3
    <3>4. CASE ~(x >= y)
      BY <2>1, <3>1, <3>2, <3>4
    <3> QED
      BY <3>3, <3>4
  <2> QED
    BY <2>3, <2>4
<1> HIDE DEF G
<1>2. S \in G
  BY <1>1, SubsetInduction
<1> QED
  BY <1>2 DEF G, Max

(* The element that is missing is known from what is left.                 *)
LEMMA RemoveAtSame ==
  ASSUME NEW T, NEW s \in Seq(T), NEW i \in 1..Len(s), NEW j \in 1..Len(s),
         RemoveAt(s, i) = RemoveAt(s, j)
  PROVE  s[i] = s[j]
<1>0. Len(s) \in Nat
  OBVIOUS
<1>1. \A a \in 1..Len(s), k \in 1..(Len(s) - 1) :
        RemoveAt(s, a)[k] = IF k < a THEN s[k] ELSE s[k + 1]
  BY RemoveAtProperties
<1>2. ASSUME NEW a \in 1..Len(s), NEW b \in 1..Len(s), a < b,
             RemoveAt(s, a) = RemoveAt(s, b)
      PROVE  s[a] = s[b]
  <2> DEFINE Same == {k \in a..b : s[k] = s[a]}
             k == Max(Same)
  <2>1. IsFiniteSet(Same)
    <3>1. IsFiniteSet(a..b) /\ Same \subseteq a..b
      BY FS_Interval
    <3> HIDE DEF Same
    <3> QED
      BY <3>1, FS_Subset
  <2>2. Same \subseteq Int /\ a \in Same
    BY <1>0, <1>2
  <2> HIDE DEF Same
  <2>3. k \in Same /\ \A x \in Same : x <= k
    BY <2>1, <2>2, MaxProperties
  <2> HIDE DEF k
  <2>4. CASE k = b
    BY <2>3, <2>4 DEF Same
  <2>5. CASE k # b
    <3>1. k \in a..b /\ k < b /\ k + 1 \in a..b /\ s[k] = s[a]
      BY <1>0, <2>3, <2>5 DEF Same
    <3>2. k \in 1..(Len(s) - 1)
      BY <1>0, <3>1
    <3>3. ~(k < a)
      BY <3>1
    <3>4. s[k + 1] = s[k]
      BY <1>1, <1>2, <3>1, <3>2, <3>3
    <3>5. k + 1 \in Same
      BY <3>1, <3>4 DEF Same
    <3> QED
      BY <2>3, <3>1, <3>5
  <2> QED
    BY <2>4, <2>5
<1>3. i < j \/ j < i \/ i = j
  BY <1>0
<1> QED
  BY <1>2, <1>3

-----------------------------------------------------------------------------
(* The recursive function that FoldLeft is defined with, for an operator   *)
(* given as a function F of the value so far and an index: g[T] is the     *)
(* fold over the indices in T.                                             *)

IsFoldOver(g, F, base, S) ==
  g = [T \in SUBSET S |->
         IF T = {} THEN base ELSE F[<<g[T \ {Max(T)}], Max(T)>>]]

CommonPart(T, S, R) == T \subseteq S /\ T \subseteq R /\ IsFiniteSet(T) /\ T \subseteq Int

LEMMA FoldsAgree ==
  ASSUME NEW F, NEW base, NEW S, NEW g, IsFoldOver(g, F, base, S),
         NEW R, NEW h, IsFoldOver(h, F, base, R),
         NEW T, CommonPart(T, S, R)
  PROVE  g[T] = h[T]
<1>0. T \subseteq S /\ T \subseteq R /\ IsFiniteSet(T) /\ T \subseteq Int
  BY DEF CommonPart
<1> DEFINE G == {U \in SUBSET T : g[U] = h[U]}
<1>1. ASSUME NEW U \in SUBSET T, \A V \in SUBSET U : V # U => V \in G
      PROVE  U \in G
  <2>1. CASE U = {}
    BY <1>0, <2>1 DEF IsFoldOver
  <2>2. CASE U # {}
    <3>1. Max(U) \in U
      <4>1. IsFiniteSet(U) /\ U \subseteq Int
        BY <1>0, FS_Subset
      <4> QED
        BY <2>2, <4>1, MaxProperties
    <3>2. U \ {Max(U)} \in SUBSET U /\ U \ {Max(U)} # U
      BY <3>1
    <3>3. g[U \ {Max(U)}] = h[U \ {Max(U)}]
      BY <1>1, <3>2
    <3>4. /\ g[U] = F[<<g[U \ {Max(U)}], Max(U)>>]
          /\ h[U] = F[<<h[U \ {Max(U)}], Max(U)>>]
      BY <1>0, <2>2 DEF IsFoldOver
    <3> QED
      BY <3>3, <3>4
  <2> QED
    BY <2>1, <2>2
<1> HIDE DEF G
<1>2. T \in G
  BY <1>0, <1>1, SubsetInduction
<1> QED
  BY <1>2 DEF G

(* The recursion is well defined, and stays in a set that F stays in.      *)
LEMMA FoldExists ==
  ASSUME NEW S, IsFiniteSet(S), S \subseteq Int,
         NEW D, NEW base \in D, NEW F \in [D \X S -> D]
  PROVE  \E g \in [SUBSET S -> D] : IsFoldOver(g, F, base, S)
<1> DEFINE G == {T \in SUBSET S : \E g \in [SUBSET T -> D] : IsFoldOver(g, F, base, T)}
<1>0. \A T \in SUBSET S : T # {} => Max(T) \in T
  BY FS_Subset, MaxProperties
<1>1. ASSUME NEW T \in SUBSET S, \A U \in SUBSET T : U # T => U \in G
      PROVE  T \in G
  <2> DEFINE IsFold(U, g) == g \in [SUBSET U -> D] /\ IsFoldOver(g, F, base, U)
             over(U) == CHOOSE g : IsFold(U, g)
             fold(U) == over(U)[U]
             new(U) == IF U = {} THEN base ELSE F[<<fold(U \ {Max(U)}), Max(U)>>]
             g == [U \in SUBSET T |-> new(U)]
  <2>0. \A U \in SUBSET T : U # T => IsFold(U, over(U))
    <3> SUFFICES ASSUME NEW U \in SUBSET T, U # T PROVE IsFold(U, over(U))
      OBVIOUS
    <3>1. \E h : IsFold(U, h)
      BY <1>1
    <3> HIDE DEF IsFold
    <3> QED
      BY <3>1
  <2>1. ASSUME NEW U \in SUBSET T, U # T
        PROVE  fold(U) = new(U) /\ fold(U) \in D
    <3> DEFINE h == over(U)
    <3>1. h \in [SUBSET U -> D] /\ IsFoldOver(h, F, base, U)
      BY <2>0, <2>1
    <3>2. CASE U = {}
      BY <3>1, <3>2 DEF IsFoldOver
    <3>3. CASE U # {}
      <4> DEFINE V == U \ {Max(U)}
                 k == over(V)
      <4>1. /\ V \in SUBSET U /\ V \in SUBSET T /\ V # T
            /\ IsFiniteSet(V) /\ V \subseteq Int
        <5>1. V \in SUBSET U /\ V \in SUBSET T /\ V # T /\ V \subseteq Int
          BY <2>1
        <5> QED
          BY <5>1, FS_Subset
      <4>2. IsFoldOver(k, F, base, V)
        BY <2>0, <4>1
      <4> HIDE DEF over, V, G
      <4>3. h[V] = k[V]
        <5>1. IsFoldOver(h, F, base, U)
          BY <3>1
        <5>2. CommonPart(V, U, V)
          BY <4>1 DEF CommonPart
        <5> HIDE DEF h, k
        <5>3. ASSUME NEW a, IsFoldOver(a, F, base, U),
                     NEW b, IsFoldOver(b, F, base, V)
              PROVE  a[V] = b[V]
          BY <5>2, <5>3, FoldsAgree
        <5> QED
          BY <4>2, <5>1, <5>3
      <4>4. h[U] = F[<<h[V], Max(U)>>] /\ h[U] \in D
        BY <3>1, <3>3 DEF IsFoldOver, V
      <4> QED
        BY <3>3, <4>3, <4>4 DEF V
    <3> QED
      BY <3>2, <3>3
  <2>2. \A U \in SUBSET T : U # {} =>
          /\ g[U \ {Max(U)}] = fold(U \ {Max(U)})
          /\ fold(U \ {Max(U)}) \in D /\ Max(U) \in S
    <3> SUFFICES ASSUME NEW U \in SUBSET T, U # {}
                 PROVE  /\ g[U \ {Max(U)}] = fold(U \ {Max(U)})
                        /\ fold(U \ {Max(U)}) \in D /\ Max(U) \in S
      OBVIOUS
    <3>1. Max(U) \in U
      BY <1>0
    <3>2. U \ {Max(U)} \in SUBSET T /\ U \ {Max(U)} # T
      BY <3>1
    <3> HIDE DEF fold
    <3> QED
      BY <2>1, <3>1, <3>2
  <2> HIDE DEF over, fold
  <2>3. \A U \in SUBSET T : new(U) \in D
    BY <2>2
  <2>4. g \in [SUBSET T -> D]
    BY <2>3
  <2> HIDE DEF g
  <2>5. \A U \in SUBSET T :
          new(U) = IF U = {} THEN base ELSE F[<<g[U \ {Max(U)}], Max(U)>>]
    BY <2>2
  <2> HIDE DEF new
  <2>6. IsFoldOver(g, F, base, T)
    BY <2>5 DEF IsFoldOver, g
  <2> QED
    BY <2>4, <2>6
<1> HIDE DEF G
<1>2. S \in G
  BY <1>1, SubsetInduction
<1> QED
  BY <1>2 DEF G

(* An induction over the numbers up to n, for the set of those that have   *)
(* what is to be shown.                                                    *)
LEMMA IndexInduction ==
  ASSUME NEW n \in Nat, NEW G, 0 \in G, \A i \in 1..n : i - 1 \in G => i \in G
  PROVE  \A i \in 0..n : i \in G
<1> DEFINE U == {k \in 0..n : \A i \in 0..k : i \in G}
           k == Max(U)
<1>1. 0 \in U /\ U \subseteq Int
  OBVIOUS
<1>2. IsFiniteSet(U)
  <2>1. IsFiniteSet(0..n) /\ U \subseteq 0..n
    BY FS_Interval
  <2> HIDE DEF U
  <2> QED
    BY <2>1, FS_Subset
<1> HIDE DEF U
<1>3. k \in U /\ \A x \in U : x <= k
  BY <1>1, <1>2, MaxProperties
<1> HIDE DEF k
<1>4. CASE k = n
  BY <1>3, <1>4 DEF U
<1>5. CASE k # n
  <2>1. k \in 0..n /\ k + 1 \in 1..n /\ (k + 1) - 1 = k /\ \A i \in 0..k : i \in G
    BY <1>3, <1>5 DEF U
  <2>2. k + 1 \in G
    BY <2>1
  <2>3. k + 1 \in U
    BY <2>1, <2>2 DEF U
  <2> QED
    BY <1>3, <2>1, <2>3
<1> QED
  BY <1>4, <1>5

(* A fold over the numbers up to n is the end of a path of n steps.        *)

FoldsBy(iter, F, base, D, S) ==
  /\ iter[{}] = base
  /\ \A T \in SUBSET S : T # {} /\ iter[T \ {Max(T)}] \in D
       => iter[T] = F[<<iter[T \ {Max(T)}], Max(T)>>]

IsPath(path, F, base, n) ==
  path[0] = base /\ \A i \in 1..n : path[i] = F[<<path[i - 1], i>>]

FoldsTo(iter, F, base, n, D) ==
  F \in [D \X (1..n) -> D] /\ FoldsBy(iter, F, base, D, 1..n)

\* The path leads from base through D to last.
HasPath(F, base, n, D, last) ==
  \E path \in [0..n -> D] : IsPath(path, F, base, n) /\ path[n] = last

LEMMA FoldPath ==
  ASSUME NEW n \in Nat, NEW D, NEW base \in D, NEW F, NEW iter,
         FoldsTo(iter, F, base, n, D)
  PROVE  HasPath(F, base, n, D, iter[1..n])
<1> DEFINE path == [i \in 0..n |-> iter[1..i]]
           G == {i \in 0..n : iter[1..i] \in D}
<1>0. F \in [D \X (1..n) -> D] /\ FoldsBy(iter, F, base, D, 1..n)
  BY DEF FoldsTo
<1>1. iter[1..0] = base
  <2>1. 1..0 = {}
    OBVIOUS
  <2> QED
    BY <1>0, <2>1 DEF FoldsBy
<1>2. ASSUME NEW i \in 1..n
      PROVE  /\ 1..i \in SUBSET (1..n) /\ 1..i # {}
             /\ Max(1..i) = i /\ (1..i) \ {i} = 1..(i - 1)
  <2>0. IsFiniteSet(1..i)
    BY FS_Interval
  <2>1. 1..i \subseteq Int /\ 1..i # {} /\ i \in 1..i
    <3>1. i \in Nat /\ 1 <= i
      OBVIOUS
    <3>2. i \in 1..i
      BY <3>1
    <3>3. 1..i \subseteq Int
      OBVIOUS
    <3> QED
      BY <3>2, <3>3
  <2>2. Max(1..i) \in 1..i /\ \A x \in 1..i : x <= Max(1..i)
    BY <2>0, <2>1, MaxProperties
  <2>3. Max(1..i) = i
    <3> DEFINE m == Max(1..i)
    <3>1. m \in 1..i /\ i <= m
      BY <2>1, <2>2
    <3> HIDE DEF m
    <3>2. m = i
      BY <3>1
    <3> QED
      BY <3>2 DEF m
  <2> QED
    BY <2>1, <2>3
<1>3. ASSUME NEW i \in 1..n, iter[1..(i - 1)] \in D
      PROVE  /\ iter[1..i] = F[<<iter[1..(i - 1)], i>>]
             /\ iter[1..i] \in D
  <2>1. iter[1..i] = F[<<iter[(1..i) \ {Max(1..i)}], Max(1..i)>>]
    BY <1>0, <1>2, <1>3 DEF FoldsBy
  <2>2. iter[1..i] = F[<<iter[1..(i - 1)], i>>]
    BY <1>2, <2>1
  <2> QED
    <3>1. iter[1..(i - 1)] \in D /\ i \in 1..n
      BY <1>3
    <3>2. F[<<iter[1..(i - 1)], i>>] \in D
      BY <1>0, <3>1
    <3> QED
      BY <2>2, <3>2
<1>4. \A i \in 0..n : iter[1..i] \in D
  <2>1. 0 \in G
    BY <1>1
  <2>2. ASSUME NEW i \in 1..n, i - 1 \in G PROVE i \in G
    <3>1. i \in 0..n /\ iter[1..(i - 1)] \in D
      BY <2>2
    <3> QED
      BY <1>3, <3>1
  <2> HIDE DEF G
  <2>3. \A i \in 0..n : i \in G
    BY <2>1, <2>2, IndexInduction
  <2> QED
    BY <2>3 DEF G
<1>5. path \in [0..n -> D] /\ path[n] = iter[1..n]
  BY <1>4
<1>6. IsPath(path, F, base, n)
  <2>1. path[0] = base
    BY <1>1
  <2>2. ASSUME NEW i \in 1..n PROVE path[i] = F[<<path[i - 1], i>>]
    <3>1. path[i] = iter[1..i] /\ path[i - 1] = iter[1..(i - 1)] /\ i - 1 \in 0..n
      OBVIOUS
    <3>2. iter[1..(i - 1)] \in D
      BY <1>4, <3>1
    <3> HIDE DEF path
    <3> QED
      BY <1>3, <3>1, <3>2
  <2> HIDE DEF path
  <2> QED
    BY <2>1, <2>2 DEF IsPath
<1> HIDE DEF path
<1> QED
  BY <1>5, <1>6 DEF HasPath
=============================================================================
