----------------------------- MODULE FiniteSums -----------------------------
(***************************************************************************)
(* Sums over finite sets, for the proofs about what the code counts: bytes *)
(* of a batch, events of an alert, sizes of buffers.                       *)
(*                                                                         *)
(* SumFunctionOnSet is a recursive function on the subsets of its index    *)
(* set that takes out an arbitrary element at a time.  The induction       *)
(* theorems of the library take a predicate as a parameter; those below    *)
(* take a set instead, and follow from the fact that < is well-founded.    *)
(* SumDefined shows that the recursive definition has a solution, so that  *)
(* the sum satisfies its equation, and SumRemove that the order in which   *)
(* elements are taken out does not matter.                                 *)
(***************************************************************************)
EXTENDS Integers, FiniteSets, FiniteSetsExt, Functions, FiniteSetTheorems, TLAPS

\* A nonempty set of natural numbers has a least element.
LEMMA LeastNumber ==
    ASSUME NEW T \in SUBSET Nat, T # {}
    PROVE  \E x \in T : \A y \in T : x <= y
<1> DEFINE R == OpToRel(<, Nat)
<1>1. \E x \in T : \A y \in T : ~(<<y, x>> \in R)
  BY Zenon, NatLessThanWellFounded, WFMin
<1>2. \A x \in Nat, y \in Nat : y < x => <<y, x>> \in R
  BY DEF OpToRel
<1> HIDE DEF R
<1>3. PICK x \in T : \A y \in T : ~(<<y, x>> \in R)
  BY <1>1
<1>4. \A y \in T : ~(y < x)
  BY Zenon, <1>2, <1>3
<1> QED
  BY <1>4

\* Induction over the natural numbers, for the members of a set.
LEMMA NumberInduction ==
    ASSUME NEW P, 0 \in P, \A n \in Nat : n \in P => n + 1 \in P
    PROVE  Nat \subseteq P
<1> DEFINE T == {n \in Nat : n \notin P}
<1> SUFFICES ASSUME T # {} PROVE FALSE
  OBVIOUS
<1>1. PICK x \in T : \A y \in T : x <= y
  <2>1. T \in SUBSET Nat
    OBVIOUS
  <2> HIDE DEF T
  <2> QED
    BY <2>1, LeastNumber
<1>2. x # 0 /\ x - 1 \in Nat
  OBVIOUS
<1>3. x - 1 \in P
  BY <1>1, <1>2
<1> QED
  BY <1>2, <1>3

\* Induction over a finite set, for the members of a set of sets.
LEMMA SubsetInduction ==
    ASSUME NEW S, IsFiniteSet(S), NEW P, {} \in P,
           \A T \in SUBSET S, x \in S : T \in P /\ x \notin T => T \cup {x} \in P
    PROVE  S \in P
<1>0. \A T \in SUBSET S : /\ Cardinality(T) \in Nat
                          /\ Cardinality(T) = 0 <=> T = {}
                          /\ \A x \in T : Cardinality(T \ {x}) = Cardinality(T) - 1
  BY FS_Subset, FS_CardinalityType, FS_EmptySet, FS_RemoveElement
<1> DEFINE Good == {n \in Nat : \A T \in SUBSET S : Cardinality(T) = n => T \in P}
<1>1. 0 \in Good
  BY <1>0
<1>2. ASSUME NEW n \in Nat, n \in Good PROVE n + 1 \in Good
  <2> SUFFICES ASSUME NEW T \in SUBSET S, Cardinality(T) = n + 1 PROVE T \in P
    OBVIOUS
  <2>1. PICK x \in T : TRUE
    BY <1>0
  <2>2. Cardinality(T \ {x}) = n /\ T \ {x} \in SUBSET S
    BY <1>0
  <2>3. T \ {x} \in P
    BY <1>2, <2>2
  <2>4. T = (T \ {x}) \cup {x}
    OBVIOUS
  <2> QED
    BY <2>2, <2>3, <2>4
<1> HIDE DEF Good
<1>3. Nat \subseteq Good
  BY <1>1, <1>2, NumberInduction
<1> QED
  BY <1>0, <1>3 DEF Good

-----------------------------------------------------------------------------
(* The definition has a solution.                                          *)

Any(s) == CHOOSE x \in s : TRUE

\* g is the sum of f over each of the sets of D.
IsSum(g, f, D) ==
    \A s \in D : g[s] = IF s = {} THEN 0 ELSE f[Any(s)] + g[s \ {Any(s)}]

\* Taking the element out of a finite set that the definition takes out.
LEMMA RemoveAny ==
    ASSUME NEW S, IsFiniteSet(S)
    PROVE  \A s \in SUBSET S :
               /\ Cardinality(s) \in Nat
               /\ Cardinality(s) <= 0 => s = {}
               /\ s # {} => /\ Any(s) \in s /\ Any(s) \in S
                            /\ Cardinality(s \ {Any(s)}) = Cardinality(s) - 1
<1> SUFFICES ASSUME NEW s \in SUBSET S
             PROVE  /\ Cardinality(s) \in Nat
                    /\ Cardinality(s) <= 0 => s = {}
                    /\ s # {} => /\ Any(s) \in s /\ Any(s) \in S
                                 /\ Cardinality(s \ {Any(s)}) = Cardinality(s) - 1
  OBVIOUS
<1>1. IsFiniteSet(s) /\ Cardinality(s) \in Nat
  BY FS_Subset, FS_CardinalityType
<1>2. s # {} => Any(s) \in s
  BY DEF Any
<1> QED
  BY <1>1, <1>2, FS_RemoveElement, FS_EmptySet

\* There is a function that is the sum of f over every subset of S.
LEMMA SumExists ==
    ASSUME NEW S, IsFiniteSet(S), NEW f, \A x \in S : f[x] \in Int
    PROVE  \E g \in [SUBSET S -> Int] : IsSum(g, f, SUBSET S)
<1>0. \A s \in SUBSET S :
          /\ Cardinality(s) \in Nat
          /\ Cardinality(s) <= 0 => s = {}
          /\ s # {} => /\ Any(s) \in s /\ Any(s) \in S
                       /\ Cardinality(s \ {Any(s)}) = Cardinality(s) - 1
  BY RemoveAny
<1> DEFINE D(n) == {s \in SUBSET S : Cardinality(s) <= n}
           Good == {n \in Nat : \E g \in [D(n) -> Int] : IsSum(g, f, D(n))}
<1>1. 0 \in Good
  <2> DEFINE g == [s \in D(0) |-> 0]
  <2>1. \A s \in D(0) : s = {}
    BY Zenon, <1>0
  <2>2. g \in [D(0) -> Int] /\ IsSum(g, f, D(0))
    BY <2>1 DEF IsSum
  <2> QED
    BY Zenon, <2>2
<1>2. ASSUME NEW n \in Nat, n \in Good PROVE n + 1 \in Good
  <2>1. PICK g \in [D(n) -> Int] : IsSum(g, f, D(n))
    BY Zenon, <1>2
  <2> DEFINE h == [s \in D(n + 1) |-> IF s = {} THEN 0 ELSE f[Any(s)] + g[s \ {Any(s)}]]
  <2>2. \A s \in D(n + 1) : s # {} => s \ {Any(s)} \in D(n) /\ Any(s) \in S
    BY <1>0
  <2>3. h \in [D(n + 1) -> Int]
    BY <2>2
  <2>4. \A s \in D(n) : s \in D(n + 1) /\ h[s] = g[s]
    BY <1>0, <2>1 DEF IsSum
  <2>5. IsSum(h, f, D(n + 1))
    BY Zenon, <2>2, <2>4 DEF IsSum
  <2>6. n + 1 \in Nat
    OBVIOUS
  <2> HIDE DEF h
  <2> QED
    BY Zenon, <2>3, <2>5, <2>6
<1> HIDE DEF Good
<1>3. Cardinality(S) \in Good
  BY <1>1, <1>2, NumberInduction, FS_CardinalityType
<1>4. D(Cardinality(S)) = SUBSET S
  BY FS_Subset
<1> QED
  BY <1>3, <1>4 DEF Good

\* Two such functions are the same.
LEMMA SumUnique ==
    ASSUME NEW S, IsFiniteSet(S), NEW f, NEW g, NEW h,
           IsSum(g, f, SUBSET S), IsSum(h, f, SUBSET S)
    PROVE  \A s \in SUBSET S : g[s] = h[s]
<1>0. \A s \in SUBSET S :
          /\ Cardinality(s) \in Nat
          /\ Cardinality(s) <= 0 => s = {}
          /\ s # {} => /\ Any(s) \in s /\ Any(s) \in S
                       /\ Cardinality(s \ {Any(s)}) = Cardinality(s) - 1
  BY RemoveAny
<1> DEFINE Good == {n \in Nat : \A s \in SUBSET S : Cardinality(s) <= n => g[s] = h[s]}
<1>1. 0 \in Good
  <2>1. \A s \in SUBSET S : Cardinality(s) <= 0 => s = {}
    BY Zenon, <1>0
  <2>2. g[{}] = 0 /\ h[{}] = 0
    BY Zenon DEF IsSum
  <2> QED
    BY <2>1, <2>2
<1>2. ASSUME NEW n \in Nat, n \in Good PROVE n + 1 \in Good
  <2> SUFFICES ASSUME NEW s \in SUBSET S, Cardinality(s) <= n + 1 PROVE g[s] = h[s]
    OBVIOUS
  <2>1. CASE s = {}
    BY SMTT(30), <2>1 DEF IsSum
  <2>2. CASE s # {}
    <3>1. s \ {Any(s)} \in SUBSET S /\ Cardinality(s \ {Any(s)}) <= n
      BY <1>0, <2>2
    <3>2. g[s \ {Any(s)}] = h[s \ {Any(s)}]
      BY <1>2, <3>1
    <3> QED
      BY <2>2, <3>2 DEF IsSum
  <2> QED
    BY <2>1, <2>2
<1> HIDE DEF Good
<1>3. Nat \subseteq Good
  BY <1>1, <1>2, NumberInduction
<1>4. \A n \in Nat : n <= n
  OBVIOUS
<1> QED
  BY Zenon, <1>0, <1>3, <1>4 DEF Good

\* The sum of the library is the value of such a function at the whole set.
LEMMA SumDefined ==
    ASSUME NEW S, IsFiniteSet(S), NEW f, \A x \in S : f[x] \in Int
    PROVE  \E g \in [SUBSET S -> Int] :
               IsSum(g, f, SUBSET S) /\ SumFunctionOnSet(f, S) = g[S]
<1> DEFINE iter == CHOOSE g : g = [s \in SUBSET S |->
                       IF s = {} THEN 0 ELSE f[Any(s)] + g[s \ {Any(s)}]]
<1>1. SumFunctionOnSet(f, S) = iter[S]
  BY DEF SumFunctionOnSet, FoldFunctionOnSet, MapThenFoldSet, Any
<1>2. PICK g \in [SUBSET S -> Int] : IsSum(g, f, SUBSET S)
  BY Zenon, SumExists
<1>3. g = [s \in SUBSET S |-> IF s = {} THEN 0 ELSE f[Any(s)] + g[s \ {Any(s)}]]
  BY <1>2 DEF IsSum
<1>4. iter = [s \in SUBSET S |-> IF s = {} THEN 0 ELSE f[Any(s)] + iter[s \ {Any(s)}]]
  BY Zenon, <1>3
<1> HIDE DEF iter
<1>5. IsSum(iter, f, SUBSET S)
  BY Zenon, <1>4 DEF IsSum
<1>6. \A s \in SUBSET S : iter[s] = g[s]
  BY <1>2, <1>5, SumUnique
<1> QED
  BY <1>1, <1>2, <1>6

\* And its value at a subset is the sum over the subset.
LEMMA SumOfSubset ==
    ASSUME NEW S, IsFiniteSet(S), NEW f, \A x \in S : f[x] \in Int,
           NEW g, IsSum(g, f, SUBSET S), NEW T \in SUBSET S,
           NEW h, \A x \in T : h[x] = f[x]
    PROVE  SumFunctionOnSet(h, T) = g[T]
<1>1. IsFiniteSet(T)
  BY FS_Subset
<1>2. PICK k \in [SUBSET T -> Int] :
          IsSum(k, h, SUBSET T) /\ SumFunctionOnSet(h, T) = k[T]
  BY Zenon, <1>1, SumDefined
<1>3. IsSum(g, h, SUBSET T)
  <2>1. \A s \in SUBSET T : s # {} => Any(s) \in T
    BY DEF Any
  <2> QED
    BY <2>1 DEF IsSum
<1> QED
  BY <1>1, <1>2, <1>3, SumUnique

-----------------------------------------------------------------------------
(* What the proofs use.                                                    *)

\* A sum of integers is an integer.
LEMMA SumType ==
    ASSUME NEW S, IsFiniteSet(S), NEW f, \A x \in S : f[x] \in Int
    PROVE  SumFunctionOnSet(f, S) \in Int
<1>1. PICK g \in [SUBSET S -> Int] : SumFunctionOnSet(f, S) = g[S]
  BY Zenon, SumDefined
<1> QED
  BY <1>1

\* The sum over no elements is 0.
LEMMA SumEmpty ==
    ASSUME NEW f
    PROVE  SumFunctionOnSet(f, {}) = 0
<1>1. IsFiniteSet({})
  BY FS_EmptySet
<1>2. PICK g \in [SUBSET {} -> Int] :
          IsSum(g, f, SUBSET {}) /\ SumFunctionOnSet(f, {}) = g[{}]
  BY Zenon, <1>1, SumDefined
<1> QED
  BY Zenon, <1>2 DEF IsSum

\* Only the values on the index set matter.
LEMMA SumAgree ==
    ASSUME NEW S, IsFiniteSet(S), NEW f, NEW g,
           \A x \in S : f[x] \in Int, \A x \in S : g[x] = f[x]
    PROVE  SumFunctionOnSet(g, S) = SumFunctionOnSet(f, S)
<1>1. PICK k \in [SUBSET S -> Int] :
          IsSum(k, f, SUBSET S) /\ SumFunctionOnSet(f, S) = k[S]
  BY Zenon, SumDefined
<1>2. S \in SUBSET S
  OBVIOUS
<1> QED
  BY <1>1, <1>2, SumOfSubset

\* Any element can be taken out of a sum.
LEMMA SumRemove ==
    ASSUME NEW S, IsFiniteSet(S), NEW f, \A x \in S : f[x] \in Int, NEW e \in S
    PROVE  SumFunctionOnSet(f, S) = f[e] + SumFunctionOnSet(f, S \ {e})
<1>0. \A s \in SUBSET S :
          /\ Cardinality(s) \in Nat
          /\ s # {} => /\ Any(s) \in s /\ Any(s) \in S
                       /\ Cardinality(s \ {Any(s)}) = Cardinality(s) - 1
          /\ \A x \in s : Cardinality(s \ {x}) = Cardinality(s) - 1
  BY SMTT(30), RemoveAny, FS_Subset, FS_RemoveElement
<1>1. PICK g \in [SUBSET S -> Int] :
          IsSum(g, f, SUBSET S) /\ SumFunctionOnSet(f, S) = g[S]
  BY Zenon, SumDefined
<1> DEFINE Good == {n \in Nat : \A s \in SUBSET S : Cardinality(s) <= n =>
                                    \A x \in s : g[s] = f[x] + g[s \ {x}]}
<1>2. 0 \in Good
  <2> SUFFICES ASSUME NEW s \in SUBSET S, Cardinality(s) <= 0, NEW x \in s PROVE FALSE
    OBVIOUS
  <2>1. Cardinality(s \ {x}) \in Nat /\ Cardinality(s \ {x}) = Cardinality(s) - 1
        /\ Cardinality(s) \in Nat
    BY Zenon, <1>0
  <2> QED
    BY <2>1
<1>3. ASSUME NEW n \in Nat, n \in Good PROVE n + 1 \in Good
  <2> SUFFICES ASSUME NEW s \in SUBSET S, Cardinality(s) <= n + 1, NEW x \in s
               PROVE  g[s] = f[x] + g[s \ {x}]
    OBVIOUS
  <2> DEFINE a == Any(s)
  <2>1. /\ a \in s /\ s \ {a} \in SUBSET S /\ s \ {x} \in SUBSET S
        /\ Cardinality(s \ {a}) <= n /\ Cardinality(s \ {x}) <= n
    BY <1>0
  <2>2. g[s] = f[a] + g[s \ {a}]
    BY <1>1 DEF IsSum
  <2> HIDE DEF a
  <2>3. CASE a = x
    BY <2>2, <2>3
  <2>4. CASE a # x
    <3>1. g[s \ {a}] = f[x] + g[(s \ {a}) \ {x}]
      BY Zenon, <1>3, <2>1, <2>4
    <3>2. g[s \ {x}] = f[a] + g[(s \ {x}) \ {a}]
      BY Zenon, <1>3, <2>1, <2>4
    <3>3. (s \ {a}) \ {x} = (s \ {x}) \ {a} /\ (s \ {a}) \ {x} \in SUBSET S
      OBVIOUS
    <3>4. g[(s \ {a}) \ {x}] \in Int /\ f[a] \in Int /\ f[x] \in Int
      BY <1>1, <2>1, <3>3
    <3>5. g[s] = f[a] + (f[x] + g[(s \ {a}) \ {x}])
      BY <2>2, <3>1
    <3>6. f[x] + g[s \ {x}] = f[x] + (f[a] + g[(s \ {a}) \ {x}])
      BY Zenon, <3>2, <3>3
    <3> QED
      BY <3>4, <3>5, <3>6
  <2> QED
    BY <2>3, <2>4
<1> HIDE DEF Good
<1>4. Nat \subseteq Good
  BY <1>2, <1>3, NumberInduction
<1>5. g[S] = f[e] + g[S \ {e}]
  <2>1. S \in SUBSET S /\ Cardinality(S) \in Nat
    BY Zenon, <1>0
  <2>2. \A n \in Nat : n <= n
    OBVIOUS
  <2> QED
    BY Zenon, <1>4, <2>1, <2>2 DEF Good
<1>6. SumFunctionOnSet(f, S \ {e}) = g[S \ {e}]
  <2>1. S \ {e} \in SUBSET S /\ \A x \in S \ {e} : f[x] = f[x]
    OBVIOUS
  <2> QED
    BY <1>1, <2>1, SumOfSubset
<1> QED
  BY <1>1, <1>5, <1>6

\* An element is added to a sum.
LEMMA SumAdd ==
    ASSUME NEW S, IsFiniteSet(S), NEW f, \A x \in S : f[x] \in Int,
           NEW e, e \notin S, f[e] \in Int
    PROVE  /\ IsFiniteSet(S \cup {e})
           /\ SumFunctionOnSet(f, S \cup {e}) = SumFunctionOnSet(f, S) + f[e]
<1>1. IsFiniteSet(S \cup {e}) /\ (S \cup {e}) \ {e} = S /\ e \in S \cup {e}
  BY FS_AddElement
<1>2. \A x \in S \cup {e} : f[x] \in Int
  OBVIOUS
<1>3. SumFunctionOnSet(f, S \cup {e}) = f[e] + SumFunctionOnSet(f, S)
  BY <1>1, <1>2, SumRemove
<1>4. SumFunctionOnSet(f, S) \in Int
  BY SumType
<1> QED
  BY <1>1, <1>3, <1>4

\* One summand changes.
LEMMA SumUpdate ==
    ASSUME NEW S, IsFiniteSet(S), NEW f, NEW g, NEW e \in S,
           \A x \in S : f[x] \in Int, g[e] \in Int, \A x \in S \ {e} : g[x] = f[x]
    PROVE  SumFunctionOnSet(g, S) = SumFunctionOnSet(f, S) - f[e] + g[e]
<1>1. IsFiniteSet(S \ {e}) /\ \A x \in S : g[x] \in Int
  BY FS_RemoveElement
<1>2. /\ SumFunctionOnSet(f, S) = f[e] + SumFunctionOnSet(f, S \ {e})
      /\ SumFunctionOnSet(g, S) = g[e] + SumFunctionOnSet(g, S \ {e})
  BY <1>1, SumRemove
<1>3. SumFunctionOnSet(g, S \ {e}) = SumFunctionOnSet(f, S \ {e})
  BY <1>1, SumAgree
<1>4. SumFunctionOnSet(f, S \ {e}) \in Int
  BY <1>1, SumType
<1> QED
  BY <1>2, <1>3, <1>4

\* A sum grows with its summands.
LEMMA SumMonotone ==
    ASSUME NEW S, IsFiniteSet(S), NEW f, NEW g,
           \A x \in S : f[x] \in Int /\ g[x] \in Int /\ f[x] <= g[x]
    PROVE  SumFunctionOnSet(f, S) <= SumFunctionOnSet(g, S)
<1> DEFINE P == {T \in SUBSET S : SumFunctionOnSet(f, T) <= SumFunctionOnSet(g, T)}
<1>1. {} \in P
  BY SumEmpty
<1>2. ASSUME NEW T \in SUBSET S, NEW x \in S, T \in P /\ x \notin T PROVE T \cup {x} \in P
  <2>1. IsFiniteSet(T)
    BY FS_Subset
  <2>2. /\ SumFunctionOnSet(f, T \cup {x}) = SumFunctionOnSet(f, T) + f[x]
        /\ SumFunctionOnSet(g, T \cup {x}) = SumFunctionOnSet(g, T) + g[x]
    BY <1>2, <2>1, SumAdd
  <2>3. SumFunctionOnSet(f, T) \in Int /\ SumFunctionOnSet(g, T) \in Int
    BY <2>1, SumType
  <2> QED
    BY <1>2, <2>2, <2>3
<1> HIDE DEF P
<1>3. S \in P
  BY Zenon, <1>1, <1>2, SubsetInduction
<1> QED
  BY <1>3 DEF P

\* A sum of natural numbers is one, and no summand is more than the sum.
LEMMA SumOfNaturals ==
    ASSUME NEW S, IsFiniteSet(S), NEW f, \A x \in S : f[x] \in Nat
    PROVE  /\ SumFunctionOnSet(f, S) \in Nat
           /\ \A x \in S : f[x] <= SumFunctionOnSet(f, S)
<1> DEFINE P == {T \in SUBSET S : SumFunctionOnSet(f, T) \in Nat}
<1>1. {} \in P
  BY SumEmpty
<1>2. ASSUME NEW T \in SUBSET S, NEW x \in S, T \in P /\ x \notin T PROVE T \cup {x} \in P
  <2>1. IsFiniteSet(T) /\ f[x] \in Int /\ \A y \in T : f[y] \in Int
    BY FS_Subset
  <2>2. SumFunctionOnSet(f, T \cup {x}) = SumFunctionOnSet(f, T) + f[x]
    BY SMTT(30), <1>2, <2>1, SumAdd
  <2> QED
    BY <1>2, <2>2
<1> HIDE DEF P
<1>3. \A T \in SUBSET S : T \in P
  <2> SUFFICES ASSUME NEW T \in SUBSET S PROVE T \in P
    OBVIOUS
  <2>1. IsFiniteSet(T)
    BY FS_Subset
  <2>2. \A U \in SUBSET T, x \in T : U \in P /\ x \notin U => U \cup {x} \in P
    BY <1>2
  <2> QED
    BY Zenon, <1>1, <2>1, <2>2, SubsetInduction
<1>4. SumFunctionOnSet(f, S) \in Nat
  BY <1>3 DEF P
<1>5. ASSUME NEW x \in S PROVE f[x] <= SumFunctionOnSet(f, S)
  <2>1. SumFunctionOnSet(f, S) = f[x] + SumFunctionOnSet(f, S \ {x})
    BY SumRemove
  <2>2. SumFunctionOnSet(f, S \ {x}) \in Nat
    BY <1>3 DEF P
  <2> QED
    BY <2>1, <2>2
<1> QED
  BY <1>4, <1>5

\* The sums over the subsets of a set, an element at a time.
LEMMA SumSteps ==
    ASSUME NEW S, IsFiniteSet(S), NEW f, \A x \in S : f[x] \in Int
    PROVE  \A T \in SUBSET S :
               /\ SumFunctionOnSet(f, T) \in Int
               /\ \A x \in S \ T :
                      SumFunctionOnSet(f, T \cup {x}) = SumFunctionOnSet(f, T) + f[x]
<1> SUFFICES ASSUME NEW T \in SUBSET S
             PROVE  /\ SumFunctionOnSet(f, T) \in Int
                    /\ \A x \in S \ T :
                           SumFunctionOnSet(f, T \cup {x}) = SumFunctionOnSet(f, T) + f[x]
  OBVIOUS
<1>1. IsFiniteSet(T) /\ \A y \in T : f[y] \in Int
  BY FS_Subset
<1> QED
  BY Zenon, <1>1, SumType, SumAdd

\* A sum of natural numbers over a subset is not more than the whole sum.
LEMMA SumSubset ==
    ASSUME NEW S, IsFiniteSet(S), NEW f, \A x \in S : f[x] \in Nat, NEW T \in SUBSET S
    PROVE  SumFunctionOnSet(f, T) <= SumFunctionOnSet(f, S)
<1>0. \A x \in S : f[x] \in Int
  OBVIOUS
<1>1. \A U \in SUBSET S :
          /\ SumFunctionOnSet(f, U) \in Int
          /\ \A x \in S \ U :
                 SumFunctionOnSet(f, U \cup {x}) = SumFunctionOnSet(f, U) + f[x]
  BY <1>0, SumSteps
<1> DEFINE P == {U \in SUBSET S :
                    SumFunctionOnSet(f, U \cap T) <= SumFunctionOnSet(f, U)}
<1>2. {} \in P
  <2>1. {} \cap T = {} /\ {} \in SUBSET S
    OBVIOUS
  <2> QED
    BY <2>1, SumEmpty
<1>3. ASSUME NEW U \in SUBSET S, NEW x \in S, U \in P /\ x \notin U PROVE U \cup {x} \in P
  <2>1. SumFunctionOnSet(f, U \cup {x}) = SumFunctionOnSet(f, U) + f[x]
        /\ SumFunctionOnSet(f, U) \in Int /\ SumFunctionOnSet(f, U \cap T) \in Int
    BY <1>1, <1>3
  <2> SUFFICES SumFunctionOnSet(f, (U \cup {x}) \cap T) <= SumFunctionOnSet(f, U) + f[x]
    BY <2>1
  <2>0. SumFunctionOnSet(f, U \cap T) <= SumFunctionOnSet(f, U) /\ f[x] \in Nat
    BY <1>3
  <2>2. CASE x \in T
    <3>1. (U \cup {x}) \cap T = (U \cap T) \cup {x} /\ U \cap T \in SUBSET S /\ x \in S \ (U \cap T)
      BY <1>3, <2>2
    <3>2. SumFunctionOnSet(f, (U \cap T) \cup {x}) = SumFunctionOnSet(f, U \cap T) + f[x]
      BY Zenon, <1>1, <3>1
    <3> QED
      BY SMTT(30), <2>0, <2>1, <3>1, <3>2
  <2>3. CASE x \notin T
    <3>1. (U \cup {x}) \cap T = U \cap T
      BY <2>3
    <3>2. SumFunctionOnSet(f, (U \cup {x}) \cap T) = SumFunctionOnSet(f, U \cap T)
      BY <3>1
    <3> QED
      BY <2>0, <2>1, <3>2
  <2> QED
    BY <2>2, <2>3
<1> HIDE DEF P
<1>4. S \in P
  BY SMTT(30), <1>2, <1>3, SubsetInduction
<1>5. S \cap T = T
  OBVIOUS
<1> QED
  BY <1>4, <1>5 DEF P

\* Two sums over one set are added summand by summand.
LEMMA SumPlus ==
    ASSUME NEW S, IsFiniteSet(S), NEW f, NEW g, NEW h,
           \A x \in S : f[x] \in Int, \A x \in S : g[x] \in Int,
           \A x \in S : h[x] = f[x] + g[x]
    PROVE  SumFunctionOnSet(h, S) = SumFunctionOnSet(f, S) + SumFunctionOnSet(g, S)
<1>0. \A x \in S : h[x] \in Int
  OBVIOUS
<1>1. \A T \in SUBSET S :
          /\ SumFunctionOnSet(f, T) \in Int
          /\ \A x \in S \ T :
                 SumFunctionOnSet(f, T \cup {x}) = SumFunctionOnSet(f, T) + f[x]
  BY SumSteps
<1>2. \A T \in SUBSET S :
          /\ SumFunctionOnSet(g, T) \in Int
          /\ \A x \in S \ T :
                 SumFunctionOnSet(g, T \cup {x}) = SumFunctionOnSet(g, T) + g[x]
  BY SumSteps
<1>3. \A T \in SUBSET S :
          /\ SumFunctionOnSet(h, T) \in Int
          /\ \A x \in S \ T :
                 SumFunctionOnSet(h, T \cup {x}) = SumFunctionOnSet(h, T) + h[x]
  BY <1>0, SumSteps
<1> DEFINE P == {T \in SUBSET S : SumFunctionOnSet(h, T) =
                                  SumFunctionOnSet(f, T) + SumFunctionOnSet(g, T)}
<1>4. {} \in P
  BY SumEmpty
<1>5. ASSUME NEW T \in SUBSET S, NEW x \in S, T \in P /\ x \notin T PROVE T \cup {x} \in P
  BY <1>1, <1>2, <1>3, <1>5
<1> HIDE DEF P
<1>6. S \in P
  BY Zenon, <1>4, <1>5, SubsetInduction
<1> QED
  BY <1>6 DEF P

-----------------------------------------------------------------------------
(* The same for the sum of all the values of a function.                   *)

\* The sum of a function with natural or integer values.
LEMMA SumOfFunction ==
    ASSUME NEW S, IsFiniteSet(S), NEW f \in [S -> Int]
    PROVE  /\ SumFunction(f) \in Int
           /\ (\A x \in S : f[x] \in Nat) =>
                  SumFunction(f) \in Nat /\ \A x \in S : f[x] <= SumFunction(f)
<1>1. SumFunction(f) = SumFunctionOnSet(f, S)
  BY DEF SumFunction
<1>2. SumFunctionOnSet(f, S) \in Int
  BY SumType
<1>3. (\A x \in S : f[x] \in Nat) =>
          SumFunctionOnSet(f, S) \in Nat /\ \A x \in S : f[x] <= SumFunctionOnSet(f, S)
  BY SumOfNaturals
<1> QED
  BY <1>1, <1>2, <1>3

\* One value changes.
LEMMA SumOfUpdate ==
    ASSUME NEW S, IsFiniteSet(S), NEW f \in [S -> Int], NEW g \in [S -> Int], NEW e \in S,
           \A x \in S \ {e} : g[x] = f[x]
    PROVE  SumFunction(g) = SumFunction(f) - f[e] + g[e]
<1>1. SumFunction(f) = SumFunctionOnSet(f, S) /\ SumFunction(g) = SumFunctionOnSet(g, S)
  BY DEF SumFunction
<1>2. SumFunctionOnSet(g, S) = SumFunctionOnSet(f, S) - f[e] + g[e]
  BY SumUpdate
<1> QED
  BY <1>1, <1>2

\* No value gets smaller.
LEMMA SumOfGreater ==
    ASSUME NEW S, IsFiniteSet(S), NEW f \in [S -> Int], NEW g \in [S -> Int],
           \A x \in S : f[x] <= g[x]
    PROVE  SumFunction(f) <= SumFunction(g)
<1>1. SumFunction(f) = SumFunctionOnSet(f, S) /\ SumFunction(g) = SumFunctionOnSet(g, S)
  BY DEF SumFunction
<1>2. SumFunctionOnSet(f, S) <= SumFunctionOnSet(g, S)
  BY SumMonotone
<1> QED
  BY <1>1, <1>2

\* A function that is 0 everywhere.
LEMMA SumOfZeros ==
    ASSUME NEW S, IsFiniteSet(S), NEW f \in [S -> Int], \A x \in S : f[x] = 0
    PROVE  SumFunction(f) = 0
<1> DEFINE P == {T \in SUBSET S : SumFunctionOnSet(f, T) = 0}
<1>1. {} \in P
  BY SumEmpty
<1>2. ASSUME NEW T \in SUBSET S, NEW x \in S, T \in P /\ x \notin T PROVE T \cup {x} \in P
  BY <1>2, SumSteps
<1> HIDE DEF P
<1>3. S \in P
  BY Zenon, <1>1, <1>2, SubsetInduction
<1> QED
  BY <1>3 DEF P, SumFunction
\* A new index adds its value.
LEMMA SumOfExtension ==
    ASSUME NEW S, IsFiniteSet(S), NEW f \in [S -> Int], NEW T, NEW g \in [T -> Int],
           NEW e, e \notin S, T = S \cup {e}, \A x \in S : g[x] = f[x]
    PROVE  SumFunction(g) = SumFunction(f) + g[e]
<1>1. SumFunction(f) = SumFunctionOnSet(f, S) /\ SumFunction(g) = SumFunctionOnSet(g, S \cup {e})
  BY DEF SumFunction
<1>2. g[e] \in Int /\ \A x \in S : g[x] \in Int
  OBVIOUS
<1>3. SumFunctionOnSet(g, S \cup {e}) = SumFunctionOnSet(g, S) + g[e]
  BY <1>2, SumAdd
<1>4. SumFunctionOnSet(g, S) = SumFunctionOnSet(f, S)
  BY <1>2, SumAgree
<1> QED
  BY <1>1, <1>3, <1>4

-----------------------------------------------------------------------------
\* A finite set of numbers that is not empty has a greatest one, which is what
\* Max chooses.
LEMMA MaxOfFinite ==
    ASSUME NEW S \in SUBSET Int, IsFiniteSet(S), S # {}
    PROVE  Max(S) \in S /\ \A x \in S : x <= Max(S)
<1> DEFINE P == {T \in SUBSET S : T = {} \/ \E x \in T : \A y \in T : x >= y}
<1>1. {} \in P
  OBVIOUS
<1>2. ASSUME NEW T \in SUBSET S, NEW x \in S, T \in P /\ x \notin T PROVE T \cup {x} \in P
  <2>1. CASE T = {}
    BY <2>1
  <2>2. CASE T # {}
    <3>1. PICK z \in T : \A y \in T : z >= y
      BY Zenon, <1>2, <2>2
    <3>2. CASE z >= x
      BY <3>1, <3>2
    <3>3. CASE ~(z >= x)
      <4>1. \A y \in T \cup {x} : x >= y
        BY <3>1, <3>3
      <4> QED
        BY <4>1
    <3> QED
      BY <3>2, <3>3
  <2> QED
    BY <2>1, <2>2
<1> HIDE DEF P
<1>3. S \in P
  BY Zenon, <1>1, <1>2, SubsetInduction
<1>4. \E x \in S : \A y \in S : x >= y
  BY Zenon, <1>3 DEF P
<1>5. Max(S) \in S /\ \A y \in S : Max(S) >= y
  BY Zenon, <1>4 DEF Max
<1> QED
  BY <1>5
=============================================================================
