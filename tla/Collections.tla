----------------------------- MODULE Collections -----------------------------
(***************************************************************************)
(* Lemmas shared by the proofs: lists without one of their elements, and   *)
(* sums over finite sets, what SumFunctionOnSet of the community modules   *)
(* does to tables of balances, counts and votes when rows come, go and     *)
(* change.  The induction over sets is the existence of a least set.       *)
(***************************************************************************)
EXTENDS Integers, SequencesExt, SequenceTheorems, FiniteSetTheorems, TLAPS

-----------------------------------------------------------------------------
(* Induction *)

\* Among sets of elements of a finite set one contains no other.
LEMMA LeastSet ==
  ASSUME NEW S, IsFiniteSet(S), NEW C, C \subseteq SUBSET S, C # {}
  PROVE  \E s \in C : \A t \in C : t \subseteq s => t = s
<1>1. IsWellFoundedOn(StrictSubsetOrdering(S), SUBSET S)
  BY FS_StrictSubsetOrderingWellFounded, FS_FiniteSubsetsOfFinite
<1>2. PICK s \in C : \A t \in C : ~ (<<t, s>> \in StrictSubsetOrdering(S))
  BY <1>1, WFMin
<1>3. QED
  BY <1>2 DEF StrictSubsetOrdering

\* So a set of natural numbers that is not empty has a least element.
LEMMA LeastNat ==
  ASSUME NEW I, I \subseteq Nat, I # {}
  PROVE  \E i \in I : \A j \in I : i <= j
<1> PICK k \in I : TRUE
  OBVIOUS
<1> DEFINE S == 0..k
           C == {0..i : i \in {j \in I : j <= k}}
<1>1. PICK t \in C : \A u \in C : u \subseteq t => u = t
  <2>1. IsFiniteSet(S)
    BY FS_Interval
  <2>2. C \subseteq SUBSET S
    OBVIOUS
  <2>3. C # {}
    OBVIOUS
  <2> HIDE DEF C, S
  <2>4. QED
    BY <2>1, <2>2, <2>3, LeastSet
<1>2. PICK i \in I : i <= k /\ t = 0..i
  BY <1>1
<1>3. ASSUME NEW j \in I, j < i
      PROVE  FALSE
  <2>1. 0..j \in C /\ 0..j \subseteq t /\ i \in t /\ i \notin 0..j
    BY <1>2, <1>3
  <2>2. QED
    BY <1>1, <2>1
<1>4. QED
  BY <1>2, <1>3

\* The largest of some positions is one of them, and none is larger.
LEMMA MaxIn ==
  ASSUME NEW n \in Nat, NEW r \in SUBSET (1..n), r # {}
  PROVE  /\ Max(r) \in r /\ \A x \in r : x <= Max(r)
         /\ \A t \in SUBSET r : Max(r) \in t => Max(t) = Max(r)
<1> DEFINE I == {n - x : x \in r}
<1>0. \A x \in r : x \in Int /\ n - x \in Nat
  OBVIOUS
<1>1. I \subseteq Nat /\ I # {}
  BY <1>0
<1>2. PICK i \in I : \A j \in I : i <= j
  <2> HIDE DEF I
  <2>1. QED
    BY <1>1, LeastNat
<1>3. PICK x \in r : i = n - x
  BY <1>2
<1>4. \A y \in r : x >= y
  <2>1. ASSUME NEW y \in r
        PROVE  x >= y
    <3>1. i <= n - y /\ x \in Int /\ y \in Int
      BY <1>2
    <3>2. QED
      BY <1>3, <3>1
  <2>2. QED
    BY <2>1
<1>5. Max(r) \in r /\ \A y \in r : Max(r) >= y
  BY <1>3, <1>4 DEF Max
<1>6. ASSUME NEW t \in SUBSET r, Max(r) \in t
      PROVE  Max(t) = Max(r)
  <2> DEFINE m == Max(r)
  <2>1. m \in t /\ \A y \in t : m >= y
    BY <1>5, <1>6
  <2> HIDE DEF m
  <2>2. Max(t) \in t /\ \A y \in t : Max(t) >= y
    BY <2>1 DEF Max
  <2>3. m \in Int /\ Max(t) \in Int /\ Max(t) >= m /\ m >= Max(t)
    BY <1>0, <2>1, <2>2
  <2>4. QED
    BY <2>3 DEF m
<1>7. \A y \in r : y <= Max(r)
  <2> DEFINE m == Max(r)
  <2>1. m \in r /\ \A y \in r : m >= y
    BY <1>5
  <2> HIDE DEF m
  <2>2. \A y \in r : y <= m
    BY <1>0, <2>1
  <2>3. QED
    BY <2>2 DEF m
<1>8. QED
  BY <1>5, <1>6, <1>7

-----------------------------------------------------------------------------
(* Lists *)

\* A list without its i-th element: where the others have gone.
LEMMA RemoveAtElements ==
  ASSUME NEW S, NEW s \in Seq(S), NEW i \in DOMAIN s
  PROVE  /\ RemoveAt(s, i) \in Seq(S)
         /\ DOMAIN RemoveAt(s, i) = 1..(Len(s) - 1)
         /\ \A j \in 1..(Len(s) - 1) : RemoveAt(s, i)[j] = s[IF j < i THEN j ELSE j + 1]
<1>1. i \in 1..Len(s) /\ Len(s) \in Nat
  OBVIOUS
<1> DEFINE left == SubSeq(s, 1, i - 1)
           right == SubSeq(s, i + 1, Len(s))
<1>2. /\ left \in Seq(S) /\ Len(left) = i - 1
      /\ \A j \in 1..(i - 1) : left[j] = s[j]
  BY <1>1
<1>3. /\ right \in Seq(S) /\ Len(right) = Len(s) - i
      /\ \A j \in 1..(Len(s) - i) : right[j] = s[i + j]
  BY <1>1
<1>4. RemoveAt(s, i) = left \o right
  BY DEF RemoveAt
<1> HIDE DEF left, right
<1>5. left \o right \in Seq(S) /\ Len(left \o right) = Len(s) - 1
  BY <1>1, <1>2, <1>3
<1>6. ASSUME NEW j \in 1..(Len(s) - 1)
      PROVE  (left \o right)[j] = s[IF j < i THEN j ELSE j + 1]
  <2>1. CASE j < i
    BY <1>1, <1>2, <1>3, <2>1
  <2>2. CASE ~ (j < i)
    <3>1. (left \o right)[j] = right[j - (i - 1)]
      BY <1>1, <1>2, <1>3, <2>2
    <3>2. j - (i - 1) \in 1..(Len(s) - i) /\ i + (j - (i - 1)) = j + 1
      BY <1>1, <2>2
    <3>3. QED
      BY <1>3, <2>2, <3>1, <3>2
  <2>3. QED
    BY <2>1, <2>2
<1>7. QED
  BY <1>4, <1>5, <1>6

-----------------------------------------------------------------------------
(* The recursion *)

\* The element that a fold takes first.
First(s) == CHOOSE x \in s : TRUE

\* The functions that solve the recursion of a sum over the subsets of S.
Solves(iter, f, S) ==
  iter = [s \in SUBSET S |-> IF s = {} THEN 0 ELSE f[First(s)] + iter[s \ {First(s)}]]

\* A sum is the value of a solution.
LEMMA SumIsSolution ==
  ASSUME NEW f, NEW S
  PROVE  SumFunctionOnSet(f, S) = (CHOOSE iter : Solves(iter, f, S))[S]
BY DEF SumFunctionOnSet, FoldFunctionOnSet, MapThenFoldSet, Solves, First

\* It is an element of the set.
LEMMA FirstIn ==
  ASSUME NEW s, s # {}
  PROVE  First(s) \in s
BY DEF First

\* A solution is one for each subset, too.
LEMMA SolutionsRestrict ==
  ASSUME NEW f, NEW S, NEW T \in SUBSET S, NEW g, Solves(g, f, S)
  PROVE  Solves([s \in SUBSET T |-> g[s]], f, T)
<1> DEFINE h == [s \in SUBSET T |-> g[s]]
<1>1. ASSUME NEW s \in SUBSET T
      PROVE  h[s] = IF s = {} THEN 0 ELSE f[First(s)] + h[s \ {First(s)}]
  <2>1. s \in SUBSET S /\ s \ {First(s)} \in SUBSET T
    OBVIOUS
  <2>2. h[s] = g[s] /\ h[s \ {First(s)}] = g[s \ {First(s)}]
    BY <2>1
  <2>3. g[s] = IF s = {} THEN 0 ELSE f[First(s)] + g[s \ {First(s)}]
    BY <2>1 DEF Solves
  <2>4. QED
    BY <2>2, <2>3
<1>2. h = [s \in SUBSET T |-> h[s]]
  OBVIOUS
<1> HIDE DEF h
<1>3. h = [s \in SUBSET T |-> IF s = {} THEN 0 ELSE f[First(s)] + h[s \ {First(s)}]]
  BY <1>1, <1>2
<1>4. Solves(h, f, T)
  BY <1>3 DEF Solves
<1>5. QED
  BY <1>4 DEF h

\* There is at most one solution over a finite set.
LEMMA SolutionsAgree ==
  ASSUME NEW f, NEW S, IsFiniteSet(S), NEW g, NEW h, Solves(g, f, S), Solves(h, f, S)
  PROVE  g = h
<1> DEFINE C == {s \in SUBSET S : g[s] # h[s]}
<1>1. ASSUME C # {}
      PROVE  FALSE
  <2>1. PICK s \in C : \A t \in C : t \subseteq s => t = s
    <3>1. C \subseteq SUBSET S
      OBVIOUS
    <3> HIDE DEF C
    <3>2. QED
      BY <1>1, <3>1, LeastSet
  <2>2. s # {}
    BY <2>1 DEF Solves
  <2>3. First(s) \in s
    BY <2>2, FirstIn
  <2>4. g[s \ {First(s)}] = h[s \ {First(s)}]
    BY <2>1, <2>3
  <2>5. /\ g[s] = f[First(s)] + g[s \ {First(s)}]
        /\ h[s] = f[First(s)] + h[s \ {First(s)}]
    BY <2>1, <2>2 DEF Solves
  <2>6. QED
    BY <2>1, <2>4, <2>5
<1>2. \A s \in SUBSET S : g[s] = h[s]
  BY <1>1
<1>3. QED
  BY <1>2 DEF Solves

\* A sum is its first element and the sum of the rest.
Unfolds(f, S) ==
  SumFunctionOnSet(f, S) =
    IF S = {} THEN 0 ELSE f[First(S)] + SumFunctionOnSet(f, S \ {First(S)})

\* Sums unfold where the recursion has a solution.
LEMMA SolvedUnfolds ==
  ASSUME NEW f, NEW S, IsFiniteSet(S), NEW g, Solves(g, f, S)
  PROVE  Unfolds(f, S)
<1>1. ASSUME NEW T \in SUBSET S
      PROVE  SumFunctionOnSet(f, T) = g[T]
  <2> DEFINE h == [s \in SUBSET T |-> g[s]]
             iter == CHOOSE i : Solves(i, f, T)
  <2>1. Solves(h, f, T)
    BY SolutionsRestrict
  <2> HIDE DEF h
  <2>2. Solves(iter, f, T)
    BY <2>1
  <2>3. IsFiniteSet(T)
    BY FS_Subset
  <2>4. iter = h
    BY <2>1, <2>2, <2>3, SolutionsAgree
  <2>5. SumFunctionOnSet(f, T) = iter[T]
    BY SumIsSolution
  <2>6. QED
    BY <2>4, <2>5 DEF h
<1>2. g[S] = IF S = {} THEN 0 ELSE f[First(S)] + g[S \ {First(S)}]
  BY DEF Solves
<1>3. QED
  BY <1>1, <1>2 DEF Unfolds

\* Over a finite set it has one.
LEMMA SumUnfolds ==
  ASSUME NEW f, NEW S, IsFiniteSet(S)
  PROVE  Unfolds(f, S)
<1> DEFINE C == {s \in SUBSET S : ~ \E g : Solves(g, f, s)}
<1>1. ASSUME C # {}
      PROVE  FALSE
  <2>1. PICK s \in C : \A t \in C : t \subseteq s => t = s
    <3>1. C \subseteq SUBSET S
      OBVIOUS
    <3> HIDE DEF C
    <3>2. QED
      BY <1>1, <3>1, LeastSet
  <2> DEFINE sum == [t \in SUBSET s |-> IF t = s THEN 0 ELSE SumFunctionOnSet(f, t)]
             g == [t \in SUBSET s |-> IF t = {} THEN 0 ELSE f[First(t)] + sum[t \ {First(t)}]]
  <2>2. ASSUME NEW t \in SUBSET s, t # s
        PROVE  g[t] = SumFunctionOnSet(f, t)
    <3>1. t \notin C /\ IsFiniteSet(t)
      BY <2>1, <2>2, FS_Subset
    <3>2. Unfolds(f, t)
      BY <3>1, SolvedUnfolds
    <3>3. t # {} => t \ {First(t)} # s
      BY <2>2, FirstIn
    <3>4. QED
      BY <3>2, <3>3 DEF Unfolds
  <2>3. ASSUME NEW t \in SUBSET s, t # {}
        PROVE  sum[t \ {First(t)}] = g[t \ {First(t)}]
    <3>1. t \ {First(t)} # s /\ t \ {First(t)} \in SUBSET s
      BY <2>3, FirstIn
    <3>2. sum[t \ {First(t)}] = SumFunctionOnSet(f, t \ {First(t)})
      BY <3>1
    <3>3. QED
      BY <2>2, <3>1, <3>2
  <2>4. g = [t \in SUBSET s |-> IF t = {} THEN 0 ELSE f[First(t)] + g[t \ {First(t)}]]
    BY <2>3
  <2>5. Solves(g, f, s)
    BY <2>4 DEF Solves
  <2>6. QED
    BY <2>1, <2>5
<1>2. \E g : Solves(g, f, S)
  BY <1>1
<1>3. QED
  BY <1>2, SolvedUnfolds

-----------------------------------------------------------------------------
(* Sums of integers *)

\* A sum of nothing is zero.
LEMMA SumEmpty ==
  ASSUME NEW f
  PROVE  SumFunctionOnSet(f, {}) = 0
BY SumUnfolds, FS_EmptySet DEF Unfolds

\* A sum of integers is one.
LEMMA SumInt ==
  ASSUME NEW S, IsFiniteSet(S), NEW f, \A x \in S : f[x] \in Int
  PROVE  SumFunctionOnSet(f, S) \in Int
<1> DEFINE C == {s \in SUBSET S : SumFunctionOnSet(f, s) \notin Int}
<1>1. ASSUME C # {}
      PROVE  FALSE
  <2>1. PICK s \in C : \A t \in C : t \subseteq s => t = s
    <3>1. C \subseteq SUBSET S
      OBVIOUS
    <3> HIDE DEF C
    <3>2. QED
      BY <1>1, <3>1, LeastSet
  <2>2. s # {}
    BY <2>1, SumEmpty, 0 \in Int
  <2>3. First(s) \in s /\ IsFiniteSet(s)
    BY <2>1, <2>2, FirstIn, FS_Subset
  <2>4. SumFunctionOnSet(f, s \ {First(s)}) \in Int
    BY <2>1, <2>3
  <2>5. SumFunctionOnSet(f, s) = f[First(s)] + SumFunctionOnSet(f, s \ {First(s)})
    BY <2>2, <2>3, SumUnfolds DEF Unfolds
  <2>6. QED
    BY <2>1, <2>3, <2>4, <2>5
<1>2. QED
  BY <1>1

\* Any element can be taken out.
LEMMA SumRemove ==
  ASSUME NEW S, IsFiniteSet(S), NEW f, \A x \in S : f[x] \in Int, NEW e \in S
  PROVE  SumFunctionOnSet(f, S) = f[e] + SumFunctionOnSet(f, S \ {e})
<1> DEFINE Sum(s) == SumFunctionOnSet(f, s)
           Splits(s) == \A x \in s : Sum(s) = f[x] + Sum(s \ {x})
           C == {s \in SUBSET S : ~ Splits(s)}
<1>1. ASSUME C # {}
      PROVE  FALSE
  <2>1. PICK s \in C : \A t \in C : t \subseteq s => t = s
    <3>1. C \subseteq SUBSET S
      OBVIOUS
    <3> HIDE DEF C
    <3>2. QED
      BY <1>1, <3>1, LeastSet
  <2>2. s \in SUBSET S /\ ~ Splits(s) /\ \A t \in SUBSET s : t # s => Splits(t)
    BY <2>1
  <2>3. PICK x \in s : Sum(s) # f[x] + Sum(s \ {x})
    BY <2>2
  <2> DEFINE c == First(s)
  <2>4. c \in s /\ IsFiniteSet(s)
    BY <2>2, <2>3, FirstIn, FS_Subset
  <2>5. Sum(s) = f[c] + Sum(s \ {c})
    BY <2>4, SumUnfolds DEF Unfolds
  <2>6. \A t \in SUBSET s : Sum(t) \in Int
    BY <2>2, SumInt, FS_Subset
  <2> HIDE DEF c, Sum
  <2>7. Sum(s \ {c}) = f[x] + Sum((s \ {c}) \ {x})
    BY <2>2, <2>3, <2>4, <2>5
  <2>8. Sum(s \ {x}) = f[c] + Sum((s \ {x}) \ {c})
    BY <2>2, <2>3, <2>4, <2>5
  <2> DEFINE rest == Sum((s \ {c}) \ {x})
  <2>9. (s \ {c}) \ {x} = (s \ {x}) \ {c}
    OBVIOUS
  <2>10. Sum(s \ {x}) = f[c] + rest
    BY <2>8, <2>9
  <2>11. rest \in Int /\ f[c] \in Int /\ f[x] \in Int
    BY <2>2, <2>3, <2>4, <2>6
  <2>12. Sum(s) = f[c] + (f[x] + rest)
    BY <2>5, <2>7
  <2> HIDE DEF rest
  <2>13. Sum(s) = f[x] + Sum(s \ {x})
    BY <2>10, <2>11, <2>12
  <2>14. QED
    BY <2>3, <2>13
<1>2. QED
  BY <1>1

\* A row is added.
LEMMA SumInsert ==
  ASSUME NEW S, IsFiniteSet(S), NEW f, \A x \in S : f[x] \in Int, NEW e, e \notin S, f[e] \in Int
  PROVE  SumFunctionOnSet(f, S \cup {e}) = SumFunctionOnSet(f, S) + f[e]
<1>1. IsFiniteSet(S \cup {e})
  BY FS_AddElement
<1>2. (S \cup {e}) \ {e} = S
  OBVIOUS
<1>3. SumFunctionOnSet(f, S \cup {e}) = f[e] + SumFunctionOnSet(f, (S \cup {e}) \ {e})
  BY <1>1, SumRemove
<1>4. SumFunctionOnSet(f, S) \in Int
  BY SumInt
<1>5. SumFunctionOnSet(f, S \cup {e}) = f[e] + SumFunctionOnSet(f, S)
  BY <1>2, <1>3
<1>6. QED
  BY <1>4, <1>5

\* Sums of equal values are equal.
LEMMA SumEqual ==
  ASSUME NEW S, IsFiniteSet(S), NEW f, NEW g, \A x \in S : f[x] = g[x]
  PROVE  SumFunctionOnSet(f, S) = SumFunctionOnSet(g, S)
<1> DEFINE C == {s \in SUBSET S : SumFunctionOnSet(f, s) # SumFunctionOnSet(g, s)}
<1>1. ASSUME C # {}
      PROVE  FALSE
  <2>1. PICK s \in C : \A t \in C : t \subseteq s => t = s
    <3>1. C \subseteq SUBSET S
      OBVIOUS
    <3> HIDE DEF C
    <3>2. QED
      BY <1>1, <3>1, LeastSet
  <2>2. s # {}
    BY SumEmpty
  <2>3. First(s) \in s /\ IsFiniteSet(s)
    BY <2>2, FirstIn, FS_Subset
  <2>4. SumFunctionOnSet(f, s \ {First(s)}) = SumFunctionOnSet(g, s \ {First(s)})
    BY <2>1, <2>3
  <2>5. f[First(s)] = g[First(s)]
    BY <2>3
  <2>6. QED
    BY <2>2, <2>3, <2>4, <2>5, SumUnfolds DEF Unfolds
<1>2. QED
  BY <1>1

\* One value changes.
LEMMA SumChange ==
  ASSUME NEW S, IsFiniteSet(S), NEW f, NEW g, NEW e \in S,
         \A x \in S : f[x] \in Int /\ g[x] \in Int,
         \A x \in S \ {e} : g[x] = f[x]
  PROVE  SumFunctionOnSet(g, S) = SumFunctionOnSet(f, S) + g[e] - f[e]
<1>1. IsFiniteSet(S \ {e})
  BY FS_Subset
<1>2. SumFunctionOnSet(g, S \ {e}) = SumFunctionOnSet(f, S \ {e})
  BY <1>1, SumEqual
<1>3. /\ SumFunctionOnSet(g, S) = g[e] + SumFunctionOnSet(g, S \ {e})
      /\ SumFunctionOnSet(f, S) = f[e] + SumFunctionOnSet(f, S \ {e})
  BY SumRemove
<1>4. SumFunctionOnSet(f, S \ {e}) \in Int
  BY <1>1, SumInt
<1>5. QED
  BY <1>2, <1>3, <1>4

\* A sum of zeros is zero.
LEMMA SumZero ==
  ASSUME NEW S, IsFiniteSet(S), NEW f, \A x \in S : f[x] = 0
  PROVE  SumFunctionOnSet(f, S) = 0
<1> DEFINE C == {s \in SUBSET S : SumFunctionOnSet(f, s) # 0}
<1>1. ASSUME C # {}
      PROVE  FALSE
  <2>1. PICK s \in C : \A t \in C : t \subseteq s => t = s
    <3>1. C \subseteq SUBSET S
      OBVIOUS
    <3> HIDE DEF C
    <3>2. QED
      BY <1>1, <3>1, LeastSet
  <2>2. s # {}
    BY SumEmpty
  <2>3. First(s) \in s /\ IsFiniteSet(s)
    BY <2>2, FirstIn, FS_Subset
  <2>4. SumFunctionOnSet(f, s \ {First(s)}) = 0
    BY <2>1, <2>3
  <2>5. SumFunctionOnSet(f, s) = f[First(s)] + SumFunctionOnSet(f, s \ {First(s)})
    BY <2>2, <2>3, SumUnfolds DEF Unfolds
  <2>6. QED
    BY <2>1, <2>3, <2>4, <2>5
<1>2. QED
  BY <1>1

\* A sum of naturals is one, and no less than each of them.
LEMMA SumNat ==
  ASSUME NEW S, IsFiniteSet(S), NEW f, \A x \in S : f[x] \in Nat
  PROVE  SumFunctionOnSet(f, S) \in Nat /\ \A x \in S : f[x] <= SumFunctionOnSet(f, S)
<1> DEFINE C == {s \in SUBSET S : SumFunctionOnSet(f, s) \notin Nat}
<1>1. ASSUME C # {}
      PROVE  FALSE
  <2>1. PICK s \in C : \A t \in C : t \subseteq s => t = s
    <3>1. C \subseteq SUBSET S
      OBVIOUS
    <3> HIDE DEF C
    <3>2. QED
      BY <1>1, <3>1, LeastSet
  <2>2. s # {}
    BY SumEmpty
  <2>3. First(s) \in s /\ IsFiniteSet(s)
    BY <2>2, FirstIn, FS_Subset
  <2>4. SumFunctionOnSet(f, s \ {First(s)}) \in Nat
    BY <2>1, <2>3
  <2>5. SumFunctionOnSet(f, s) = f[First(s)] + SumFunctionOnSet(f, s \ {First(s)})
    BY <2>2, <2>3, SumUnfolds DEF Unfolds
  <2>6. QED
    BY <2>1, <2>3, <2>4, <2>5
<1>2. \A s \in SUBSET S : SumFunctionOnSet(f, s) \in Nat
  BY <1>1
<1>3. ASSUME NEW x \in S
      PROVE  f[x] <= SumFunctionOnSet(f, S)
  <2>1. SumFunctionOnSet(f, S) = f[x] + SumFunctionOnSet(f, S \ {x})
    BY SumRemove
  <2>2. QED
    BY <1>2, <2>1
<1>4. QED
  BY <1>2, <1>3

\* Some values change, each by its part.
LEMMA SumShift ==
  ASSUME NEW S, IsFiniteSet(S), NEW f, NEW g, NEW T \in SUBSET S, NEW d,
         \A x \in S : f[x] \in Int /\ g[x] \in Int,
         \A x \in T : d[x] \in Int /\ g[x] = f[x] + d[x],
         \A x \in S \ T : g[x] = f[x]
  PROVE  SumFunctionOnSet(g, S) = SumFunctionOnSet(f, S) + SumFunctionOnSet(d, T)
<1> DEFINE Shifts(s) == SumFunctionOnSet(g, s)
                          = SumFunctionOnSet(f, s) + SumFunctionOnSet(d, s \cap T)
           C == {s \in SUBSET S : ~ Shifts(s)}
<1>1. ASSUME C # {}
      PROVE  FALSE
  <2>1. PICK s \in C : \A t \in C : t \subseteq s => t = s
    <3>1. C \subseteq SUBSET S
      OBVIOUS
    <3> HIDE DEF C
    <3>2. QED
      BY <1>1, <3>1, LeastSet
  <2>2. s \in SUBSET S /\ ~ Shifts(s) /\ \A t \in SUBSET s : t # s => Shifts(t)
    BY <2>1
  <2>3. s # {}
    <3>1. {} \cap T = {}
      OBVIOUS
    <3>2. Shifts({})
      BY <3>1, SumEmpty
    <3>3. QED
      BY <2>2, <3>2
  <2> DEFINE c == First(s)
             r == s \ {c}
  <2>4. c \in s /\ c \in S /\ r \in SUBSET s /\ r # s
    BY <2>2, <2>3, FirstIn
  <2>5. IsFiniteSet(s) /\ IsFiniteSet(r) /\ IsFiniteSet(s \cap T) /\ IsFiniteSet(r \cap T)
    BY <2>2, FS_Subset
  <2>6. /\ SumFunctionOnSet(f, r) \in Int
        /\ SumFunctionOnSet(d, r \cap T) \in Int
    BY <2>2, <2>5, SumInt
  <2>7. /\ SumFunctionOnSet(g, s) = g[c] + SumFunctionOnSet(g, r)
        /\ SumFunctionOnSet(f, s) = f[c] + SumFunctionOnSet(f, r)
    BY <2>2, <2>4, <2>5, SumRemove
  <2>8. Shifts(r)
    BY <2>2, <2>4
  <2> HIDE DEF c
  <2>9. CASE c \in T
    <3>1. (s \cap T) \ {c} = r \cap T /\ c \in s \cap T
      BY <2>4, <2>9
    <3>2. \A x \in s \cap T : d[x] \in Int
      OBVIOUS
    <3>3. SumFunctionOnSet(d, s \cap T) = d[c] + SumFunctionOnSet(d, (s \cap T) \ {c})
      BY <2>5, <3>1, <3>2, SumRemove
    <3>4. SumFunctionOnSet(d, s \cap T) = d[c] + SumFunctionOnSet(d, r \cap T)
      BY <3>1, <3>3
    <3>5. g[c] = f[c] + d[c] /\ d[c] \in Int /\ f[c] \in Int
      BY <2>4, <2>9
    <3>6. SumFunctionOnSet(g, r) = SumFunctionOnSet(f, r) + SumFunctionOnSet(d, r \cap T)
      BY <2>8
    <3> HIDE DEF r
    <3>7. SumFunctionOnSet(g, s) = SumFunctionOnSet(f, s) + SumFunctionOnSet(d, s \cap T)
      BY <2>6, <2>7, <3>4, <3>5, <3>6
    <3>8. QED
      BY <2>2, <3>7
  <2>10. CASE c \notin T
    <3>1. s \cap T = r \cap T
      BY <2>10
    <3>2. g[c] = f[c] /\ f[c] \in Int
      BY <2>4, <2>10
    <3>3. SumFunctionOnSet(g, r) = SumFunctionOnSet(f, r) + SumFunctionOnSet(d, r \cap T)
      BY <2>8
    <3> HIDE DEF r
    <3>4. SumFunctionOnSet(g, s) = SumFunctionOnSet(f, s) + SumFunctionOnSet(d, s \cap T)
      <4>1. SumFunctionOnSet(d, s \cap T) = SumFunctionOnSet(d, r \cap T)
        BY <3>1
      <4>2. QED
        BY <2>6, <2>7, <3>2, <3>3, <4>1
    <3>5. QED
      BY <2>2, <3>4
  <2>11. QED
    BY <2>9, <2>10
<1>2. Shifts(S)
  BY <1>1
<1>3. S \cap T = T
  OBVIOUS
<1>4. QED
  BY <1>2, <1>3
=============================================================================
