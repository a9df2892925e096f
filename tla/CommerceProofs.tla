---------------------------- MODULE CommerceProofs ----------------------------
(***************************************************************************)
(* Proofs about the wallet, the memberships, the shop and the webhook:     *)
(* the properties of module Commerce hold for any number of users,         *)
(* requests, products and events, whatever the bounds.  The tables of the  *)
(* API agree only in sums (a balance with its transactions, the stock with *)
(* the items sold), and between two statements of a request the sums are   *)
(* apart by what that request has still to write.  The invariants count    *)
(* it, so each is the equation of the property plus a sum over requests.   *)
(***************************************************************************)
EXTENDS Commerce, FiniteSetTheorems, TLAPS

------------------------------------------------------------------------------
(* Sums over a finite set.  The sum of the community modules is a function
   on subsets that is chosen to satisfy a recursion, so what it computes is
   proved by looking for a smallest subset on which it fails. *)

\* The element the fold takes first.
Chosen(s) == CHOOSE x \in s : TRUE
\* g holds the sums of f over the subsets of S.
Folds(f, S, g) == g = [s \in SUBSET S |-> IF s = {} THEN 0 ELSE f[Chosen(s)] + g[s \ {Chosen(s)}]]

\* A non-empty set of subsets of a finite set has a smallest member.
LEMMA Smallest ==
  ASSUME NEW S, IsFiniteSet(S), NEW Bad \in SUBSET SUBSET S, Bad # {}
  PROVE  \E s \in Bad : \A t \in SUBSET s : t # s => t \notin Bad
<1>1. Bad \subseteq FiniteSubsetsOf(S)
  BY FS_FiniteSubsetsOfFinite
<1>2. PICK s \in Bad : \A t \in Bad : ~ (<<t, s>> \in StrictSubsetOrdering(S))
  BY <1>1, FS_StrictSubsetOrderingWellFounded, WFMin
<1>3. ASSUME NEW t \in SUBSET s, t # s, t \in Bad PROVE FALSE
  BY <1>2, <1>3 DEF StrictSubsetOrdering
<1> QED
  BY <1>3

\* Induction over the subsets of a finite set, by the smallest exception.
LEMMA NoException ==
  ASSUME NEW S, IsFiniteSet(S), NEW Bad \in SUBSET SUBSET S,
         \A s \in SUBSET S : (\A t \in SUBSET s : t # s => t \notin Bad) => s \notin Bad
  PROVE  Bad = {}
<1> SUFFICES ASSUME Bad # {} PROVE FALSE
  OBVIOUS
<1>1. PICK s \in Bad : \A t \in SUBSET s : t # s => t \notin Bad
  BY Smallest
<1> QED
  BY <1>1

\* What the sum is, in terms of Folds.
LEMMA Unfold == ASSUME NEW f, NEW S PROVE SumOf(f, S) = (CHOOSE g : Folds(f, S, g))[S]
  BY DEF SumOf, MapThenSumSet, MapThenFoldSet, Folds, Chosen

\* An element can be chosen from a set that is not empty.
LEMMA ChosenIn == ASSUME NEW s, s # {} PROVE Chosen(s) \in s
  BY DEF Chosen

\* A non-empty set of naturals has a least one.
LEMMA LeastNatural ==
  ASSUME NEW S \in SUBSET Nat, S # {}
  PROVE  \E i \in S : \A j \in S : i <= j
<1> DEFINE below(i) == 1..i
           T == {below(i) : i \in S}
           R == StrictSubsetOrdering(Nat)
<1>1. \A i \in S : below(i) \in SUBSET Nat /\ IsFiniteSet(below(i))
  BY FS_Interval
<1>2. T \subseteq FiniteSubsetsOf(Nat) /\ T # {}
  BY <1>1 DEF FiniteSubsetsOf
<1>3. IsWellFoundedOn(R, FiniteSubsetsOf(Nat))
  BY FS_StrictSubsetOrderingWellFounded
<1> HIDE DEF R, T
<1>4. PICK t \in T : \A u \in T : ~ (<<u, t>> \in R)
  BY <1>2, <1>3, WFMin
<1>5. PICK i \in S : t = below(i)
  BY DEF T
<1>6. ASSUME NEW j \in S, j < i PROVE FALSE
  <2>1. below(j) \subseteq below(i) /\ i \in below(i) /\ i \notin below(j)
    BY <1>6
  <2>2. below(j) \in T
    BY DEF T
  <2>3. <<below(j), t>> \in R
    BY <1>1, <1>5, <2>1 DEF R, StrictSubsetOrdering
  <2> QED BY <1>4, <2>2, <2>3
<1> QED
  BY <1>6

\* Over the sets of at most n elements, the sums exist.
FoldsTo(f, S, n, g) ==
  g = [s \in SUBSET S |-> IF Cardinality(s) > n THEN 0 ELSE IF s = {} THEN 0 ELSE f[Chosen(s)] + g[s \ {Chosen(s)}]]

\* The function of sums exists: the subsets are taken by size, and a size on
\* which no function is right has a smallest such.
LEMMA FoldsExist ==
  ASSUME NEW f, NEW S, IsFiniteSet(S)
  PROVE  \E g : Folds(f, S, g)
<1> DEFINE Bad == {n \in Nat : ~ \E g : FoldsTo(f, S, n, g)}
<1>0. \A s \in SUBSET S : IsFiniteSet(s) /\ Cardinality(s) \in Nat /\ Cardinality(s) <= Cardinality(S)
  BY FS_Subset, FS_CardinalityType
<1>00. \A s \in SUBSET S : s # {} => s \ {Chosen(s)} \in SUBSET S /\ Cardinality(s \ {Chosen(s)}) = Cardinality(s) - 1
  BY <1>0, ChosenIn, FS_RemoveElement
<1>000. \A s \in SUBSET S : s # {} => Cardinality(s) > 0
  BY <1>0, FS_EmptySet
<1>1. 0 \notin Bad
  <2>1. FoldsTo(f, S, 0, [s \in SUBSET S |-> 0])
    <3> DEFINE g == [s \in SUBSET S |-> 0]
    <3> SUFFICES g = [s \in SUBSET S |-> IF Cardinality(s) > 0 THEN 0 ELSE IF s = {} THEN 0 ELSE f[Chosen(s)] + g[s \ {Chosen(s)}]]
      BY DEF FoldsTo
    <3> QED BY <1>000, <1>0
  <2> QED BY <2>1
<1>2. ASSUME NEW n \in Nat, n \notin Bad PROVE n + 1 \notin Bad
  <2>1. PICK g : FoldsTo(f, S, n, g)
    BY <1>2
  <2> DEFINE h == [s \in SUBSET S |-> IF Cardinality(s) > n + 1 THEN 0 ELSE IF s = {} THEN 0 ELSE f[Chosen(s)] + g[s \ {Chosen(s)}]]
  <2>2. \A s \in SUBSET S : Cardinality(s) <= n => h[s] = g[s]
    <3> SUFFICES ASSUME NEW s \in SUBSET S, Cardinality(s) <= n PROVE h[s] = g[s]
      OBVIOUS
    <3>0. ~ (Cardinality(s) > n) /\ ~ (Cardinality(s) > n + 1)
      BY <1>0
    <3>1. g[s] = IF Cardinality(s) > n THEN 0 ELSE IF s = {} THEN 0 ELSE f[Chosen(s)] + g[s \ {Chosen(s)}]
      BY <2>1 DEF FoldsTo
    <3> QED BY <3>0, <3>1
  <2>3. \A s \in SUBSET S : ~ (Cardinality(s) > n + 1) /\ s # {} => h[s \ {Chosen(s)}] = g[s \ {Chosen(s)}]
    <3> SUFFICES ASSUME NEW s \in SUBSET S, ~ (Cardinality(s) > n + 1), s # {} PROVE h[s \ {Chosen(s)}] = g[s \ {Chosen(s)}]
      OBVIOUS
    <3>1. Cardinality(s \ {Chosen(s)}) <= n /\ s \ {Chosen(s)} \in SUBSET S
      BY <1>0, <1>00
    <3> HIDE DEF h
    <3> QED BY <3>1, <2>2
  <2>4. h = [s \in SUBSET S |-> IF Cardinality(s) > n + 1 THEN 0 ELSE IF s = {} THEN 0 ELSE f[Chosen(s)] + h[s \ {Chosen(s)}]]
    BY <2>3, Zenon
  <2>5. FoldsTo(f, S, n + 1, h)
    <3> HIDE DEF h
    <3> QED BY <2>4 DEF FoldsTo
  <2> QED BY <2>5
<1>3. Bad = {}
  <2> SUFFICES ASSUME Bad # {} PROVE FALSE
    OBVIOUS
  <2>1. PICK m \in Bad : \A j \in Bad : m <= j
    <3> HIDE DEF Bad
    <3>1. Bad \in SUBSET Nat
      BY DEF Bad
    <3> QED BY <3>1, LeastNatural
  <2>2. m # 0 /\ m \in Nat
    BY <1>1, <2>1
  <2>3. m - 1 \in Nat /\ m - 1 \notin Bad /\ (m - 1) + 1 = m
    <3> HIDE DEF Bad
    <3> QED BY <2>1, <2>2
  <2>4. m \notin Bad
    <3> HIDE DEF Bad
    <3> QED BY <2>3, <1>2
  <2> QED BY <2>1, <2>4
<1>4. PICK g : FoldsTo(f, S, Cardinality(S), g)
  BY <1>0, <1>3
<1>5. \A s \in SUBSET S : ~ (Cardinality(s) > Cardinality(S))
  BY <1>0
<1>6. g = [s \in SUBSET S |-> IF s = {} THEN 0 ELSE f[Chosen(s)] + g[s \ {Chosen(s)}]]
  BY <1>4, <1>5 DEF FoldsTo
<1> QED
  BY <1>6 DEF Folds

\* The functions of sums for a set and for a part of it agree on that part.
LEMMA FoldsAgree ==
  ASSUME NEW f, NEW S, IsFiniteSet(S), NEW T \in SUBSET S, NEW g, NEW h, Folds(f, S, g), Folds(f, T, h)
  PROVE  h[T] = g[T]
<1> DEFINE Bad == {s \in SUBSET T : h[s] # g[s]}
<1>1. IsFiniteSet(T)
  BY FS_Subset
<1>2. ASSUME NEW s \in SUBSET T, \A t \in SUBSET s : t # s => t \notin Bad PROVE s \notin Bad
  <2>1. g[s] = IF s = {} THEN 0 ELSE f[Chosen(s)] + g[s \ {Chosen(s)}]
    BY DEF Folds
  <2>2. h[s] = IF s = {} THEN 0 ELSE f[Chosen(s)] + h[s \ {Chosen(s)}]
    BY DEF Folds
  <2>3. s # {} => h[s \ {Chosen(s)}] = g[s \ {Chosen(s)}]
    BY <1>2, ChosenIn
  <2> QED BY <2>1, <2>2, <2>3
<1>3. Bad = {}
  <2>1. Bad \in SUBSET SUBSET T
    OBVIOUS
  <2>2. \A s \in SUBSET T : (\A t \in SUBSET s : t # s => t \notin Bad) => s \notin Bad
    BY <1>2
  <2> HIDE DEF Bad
  <2> QED BY <1>1, <2>1, <2>2, NoException
<1> QED
  BY <1>3

\* The sum over nothing is zero.
LEMMA SumEmpty == ASSUME NEW f PROVE SumOf(f, {}) = 0
<1>1. \E g : Folds(f, {}, g)
  BY FS_EmptySet, FoldsExist
<1>2. Folds(f, {}, CHOOSE g : Folds(f, {}, g))
  BY <1>1
<1>3. (CHOOSE g : Folds(f, {}, g))[{}] = 0
  BY <1>2 DEF Folds
<1> QED
  BY <1>3, Unfold

\* A sum is one term plus the sum of the rest, for the term the fold takes first.
LEMMA SumChosen ==
  ASSUME NEW f, NEW S, IsFiniteSet(S), S # {}
  PROVE  SumOf(f, S) = f[Chosen(S)] + SumOf(f, S \ {Chosen(S)})
<1> DEFINE T == S \ {Chosen(S)}
<1>0. T \in SUBSET S /\ IsFiniteSet(T)
  BY FS_Subset
<1>1. PICK g : g = (CHOOSE k : Folds(f, S, k))
  OBVIOUS
<1>2. PICK h : h = (CHOOSE k : Folds(f, T, k))
  OBVIOUS
<1>3. Folds(f, S, g) /\ Folds(f, T, h)
  <2> HIDE DEF T
  <2> QED BY <1>0, <1>1, <1>2, FoldsExist
<1>4. h[T] = g[T]
  <2> HIDE DEF T
  <2> QED BY <1>0, <1>3, FoldsAgree
<1>5. g[S] = f[Chosen(S)] + g[T]
  BY <1>3 DEF Folds
<1>6. SumOf(f, S) = g[S] /\ SumOf(f, T) = h[T]
  BY <1>1, <1>2, Unfold
<1> QED
  BY <1>4, <1>5, <1>6

\* A sum of integers is an integer, and any term can be split off it: the
\* order in which the fold takes the terms does not matter.
LEMMA SumTypeAndSplit ==
  ASSUME NEW f, NEW S, IsFiniteSet(S), \A x \in S : f[x] \in Int
  PROVE  /\ SumOf(f, S) \in Int
         /\ \A x \in S : SumOf(f, S) = f[x] + SumOf(f, S \ {x})
<1> DEFINE Good(s) == /\ SumOf(f, s) \in Int
                      /\ \A x \in s : SumOf(f, s) = f[x] + SumOf(f, s \ {x})
           Bad == {s \in SUBSET S : ~ Good(s)}
<1>1. ASSUME NEW s \in SUBSET S, \A t \in SUBSET s : t # s => t \notin Bad PROVE Good(s)
  <2>1. CASE s = {}
    BY <2>1, SumEmpty
  <2>2. CASE s # {}
    <3>1. PICK c : c = Chosen(s) /\ c \in s
      BY <2>2, ChosenIn
    <3>2. \A x \in s : Good(s \ {x})
      BY <1>1
    <3>3. IsFiniteSet(s)
      BY FS_Subset
    <3>4. SumOf(f, s) = f[c] + SumOf(f, s \ {c})
      BY <2>2, <3>1, <3>3, SumChosen
    <3>5. SumOf(f, s) \in Int
      BY <3>1, <3>2, <3>4
    <3>6. ASSUME NEW x \in s PROVE SumOf(f, s) = f[x] + SumOf(f, s \ {x})
      <4>1. CASE x = c
        BY <3>4, <4>1
      <4>2. CASE x # c
        <5>1. SumOf(f, s \ {c}) = f[x] + SumOf(f, (s \ {c}) \ {x})
          BY <3>1, <3>2, <4>2
        <5>2. SumOf(f, s \ {x}) = f[c] + SumOf(f, (s \ {x}) \ {c})
          BY <3>1, <3>2, <4>2
        <5>3. (s \ {c}) \ {x} = (s \ {x}) \ {c} /\ (s \ {x}) \ {c} \in SUBSET s /\ (s \ {x}) \ {c} # s
          BY <3>1
        <5>4. SumOf(f, (s \ {x}) \ {c}) \in Int
          <6>1. (s \ {x}) \ {c} \in SUBSET S
            OBVIOUS
          <6> QED BY <1>1, <5>3, <6>1
        <5>5. f[x] \in Int /\ f[c] \in Int
          BY <3>1
        <5>6. SumOf(f, (s \ {c}) \ {x}) = SumOf(f, (s \ {x}) \ {c})
          BY <5>3
        <5>7. PICK w : w = SumOf(f, (s \ {x}) \ {c})
          OBVIOUS
        <5>8. SumOf(f, s) = f[c] + (f[x] + w) /\ SumOf(f, s \ {x}) = f[c] + w /\ w \in Int
          BY <3>4, <5>1, <5>2, <5>4, <5>6, <5>7
        <5> HIDE DEF Good, Bad
        <5> QED BY <5>5, <5>8
      <4> QED BY <4>1, <4>2
    <3> QED BY <3>5, <3>6
  <2> QED BY <2>1, <2>2
<1>2. Bad = {}
  <2>1. Bad \in SUBSET SUBSET S
    OBVIOUS
  <2>2. \A s \in SUBSET S : (\A t \in SUBSET s : t # s => t \notin Bad) => s \notin Bad
    BY <1>1
  <2> HIDE DEF Bad
  <2> QED BY <2>1, <2>2, NoException
<1>3. Good(S)
  BY <1>2
<1> QED
  BY <1>3

\* A sum of smaller terms is smaller.
LEMMA SumMonotone ==
  ASSUME NEW f, NEW g, NEW S, IsFiniteSet(S),
         \A x \in S : f[x] \in Int /\ g[x] \in Int /\ f[x] <= g[x]
  PROVE  SumOf(f, S) <= SumOf(g, S)
<1> DEFINE Good(s) == SumOf(f, s) <= SumOf(g, s)
           Bad == {s \in SUBSET S : ~ Good(s)}
<1>1. ASSUME NEW s \in SUBSET S, \A t \in SUBSET s : t # s => t \notin Bad PROVE Good(s)
  <2>1. CASE s = {}
    BY <2>1, SumEmpty
  <2>2. CASE s # {}
    <3>1. PICK x \in s : TRUE
      BY <2>2
    <3>2. Good(s \ {x})
      BY <1>1
    <3>3. IsFiniteSet(s) /\ IsFiniteSet(s \ {x})
      BY FS_Subset
    <3>4. \A y \in s : f[y] \in Int /\ g[y] \in Int
      OBVIOUS
    <3>5. SumOf(f, s) = f[x] + SumOf(f, s \ {x})
      BY <3>3, <3>4, SumTypeAndSplit
    <3>6. SumOf(g, s) = g[x] + SumOf(g, s \ {x})
      BY <3>3, <3>4, SumTypeAndSplit
    <3>7. SumOf(f, s \ {x}) \in Int
      BY <3>3, <3>4, SumTypeAndSplit
    <3>7a. SumOf(g, s \ {x}) \in Int
      BY <3>3, <3>4, SumTypeAndSplit
    <3>8. f[x] \in Int /\ g[x] \in Int /\ f[x] <= g[x]
      OBVIOUS
    <3> QED BY <3>2, <3>5, <3>6, <3>7, <3>7a, <3>8
  <2> QED BY <2>1, <2>2
<1>2. Bad = {}
  <2>1. Bad \in SUBSET SUBSET S
    OBVIOUS
  <2>2. \A s \in SUBSET S : (\A t \in SUBSET s : t # s => t \notin Bad) => s \notin Bad
    BY <1>1
  <2> HIDE DEF Bad
  <2> QED BY <2>1, <2>2, NoException
<1> QED
  BY <1>2

\* Sums of the same terms are the same.
LEMMA SumSame ==
  ASSUME NEW f, NEW g, NEW S, IsFiniteSet(S), \A x \in S : f[x] \in Int /\ f[x] = g[x]
  PROVE  SumOf(f, S) = SumOf(g, S)
<1>1. SumOf(f, S) <= SumOf(g, S)
  BY SumMonotone
<1>2. SumOf(g, S) <= SumOf(f, S)
  BY SumMonotone
<1>3. \A x \in S : f[x] \in Int /\ g[x] \in Int
  OBVIOUS
<1>4. SumOf(f, S) \in Int /\ SumOf(g, S) \in Int
  BY <1>3, SumTypeAndSplit
<1> QED
  BY <1>1, <1>2, <1>4

\* A sum of zeros is zero.
LEMMA SumZero ==
  ASSUME NEW f, NEW S, IsFiniteSet(S), \A x \in S : f[x] = 0
  PROVE  SumOf(f, S) = 0
<1> DEFINE Good(s) == SumOf(f, s) = 0
           Bad == {s \in SUBSET S : ~ Good(s)}
<1>1. ASSUME NEW s \in SUBSET S, \A t \in SUBSET s : t # s => t \notin Bad PROVE Good(s)
  <2>1. CASE s = {}
    BY <2>1, SumEmpty
  <2>2. CASE s # {}
    <3>1. PICK x \in s : TRUE
      BY <2>2
    <3>2. Good(s \ {x})
      BY <1>1
    <3>3. IsFiniteSet(s)
      BY FS_Subset
    <3>4. \A y \in s : f[y] \in Int
      OBVIOUS
    <3>5. SumOf(f, s) = f[x] + SumOf(f, s \ {x})
      BY <3>3, <3>4, SumTypeAndSplit
    <3> QED BY <3>2, <3>5
  <2> QED BY <2>1, <2>2
<1>2. Bad = {}
  <2>1. Bad \in SUBSET SUBSET S
    OBVIOUS
  <2>2. \A s \in SUBSET S : (\A t \in SUBSET s : t # s => t \notin Bad) => s \notin Bad
    BY <1>1
  <2> HIDE DEF Bad
  <2> QED BY <2>1, <2>2, NoException
<1> QED
  BY <1>2

\* A sum of naturals is a natural.
LEMMA SumNat ==
  ASSUME NEW f, NEW S, IsFiniteSet(S), \A x \in S : f[x] \in Nat
  PROVE  SumOf(f, S) \in Nat
<1> DEFINE Good(s) == SumOf(f, s) \in Nat
           Bad == {s \in SUBSET S : ~ Good(s)}
<1>1. ASSUME NEW s \in SUBSET S, \A t \in SUBSET s : t # s => t \notin Bad PROVE Good(s)
  <2>1. CASE s = {}
    BY <2>1, SumEmpty
  <2>2. CASE s # {}
    <3>1. PICK x \in s : TRUE
      BY <2>2
    <3>2. Good(s \ {x})
      BY <1>1
    <3>3. IsFiniteSet(s)
      BY FS_Subset
    <3>4. \A y \in s : f[y] \in Int
      OBVIOUS
    <3>5. SumOf(f, s) = f[x] + SumOf(f, s \ {x})
      BY <3>3, <3>4, SumTypeAndSplit
    <3> QED BY <3>2, <3>5
  <2> QED BY <2>1, <2>2
<1>2. Bad = {}
  <2>1. Bad \in SUBSET SUBSET S
    OBVIOUS
  <2>2. \A s \in SUBSET S : (\A t \in SUBSET s : t # s => t \notin Bad) => s \notin Bad
    BY <1>1
  <2> HIDE DEF Bad
  <2> QED BY <2>1, <2>2, NoException
<1> QED
  BY <1>2

\* A sum of naturals over a part is at most the sum over the whole.
LEMMA SumPart ==
  ASSUME NEW f, NEW S, IsFiniteSet(S), \A x \in S : f[x] \in Nat, NEW T \in SUBSET S
  PROVE  SumOf(f, T) <= SumOf(f, S)
<1> DEFINE Good(s) == \A t \in SUBSET s : SumOf(f, t) <= SumOf(f, s)
           Bad == {s \in SUBSET S : ~ Good(s)}
<1>0. \A s \in SUBSET S : SumOf(f, s) \in Int
  <2> SUFFICES ASSUME NEW s \in SUBSET S PROVE SumOf(f, s) \in Int
    OBVIOUS
  <2>1. IsFiniteSet(s) /\ \A x \in s : f[x] \in Int
    BY FS_Subset
  <2> QED BY <2>1, SumTypeAndSplit
<1>1. ASSUME NEW s \in SUBSET S, \A t \in SUBSET s : t # s => t \notin Bad PROVE Good(s)
  <2> SUFFICES ASSUME NEW t \in SUBSET s PROVE SumOf(f, t) <= SumOf(f, s)
    OBVIOUS
  <2>1. CASE t = s
    BY <1>0, <2>1
  <2>2. CASE t # s
    <3>1. PICK x \in s : x \notin t
      BY <2>2
    <3>2. Good(s \ {x}) /\ t \in SUBSET (s \ {x}) /\ s \ {x} \in SUBSET S /\ t \in SUBSET S
      BY <1>1, <3>1
    <3>3. IsFiniteSet(s) /\ \A y \in s : f[y] \in Int
      BY FS_Subset
    <3>4. SumOf(f, s) = f[x] + SumOf(f, s \ {x})
      BY <3>3, SumTypeAndSplit
    <3>5. SumOf(f, t) <= SumOf(f, s \ {x})
      BY <3>2
    <3>6. SumOf(f, t) \in Int /\ SumOf(f, s \ {x}) \in Int /\ f[x] \in Nat
      BY <1>0, <3>2
    <3> QED BY <3>4, <3>5, <3>6
  <2> QED BY <2>1, <2>2
<1>2. Bad = {}
  <2>1. Bad \in SUBSET SUBSET S
    OBVIOUS
  <2>2. \A s \in SUBSET S : (\A t \in SUBSET s : t # s => t \notin Bad) => s \notin Bad
    BY <1>1
  <2> HIDE DEF Bad
  <2> QED BY <2>1, <2>2, NoException
<1> QED
  BY <1>2

\* A sum changes by the difference of the one term that changes.
LEMMA SumUpdate ==
  ASSUME NEW f, NEW g, NEW S, IsFiniteSet(S), NEW x \in S,
         \A y \in S : f[y] \in Int /\ g[y] \in Int,
         \A y \in S \ {x} : f[y] = g[y]
  PROVE  SumOf(g, S) = SumOf(f, S) - f[x] + g[x]
<1>1. IsFiniteSet(S \ {x})
  BY FS_Subset
<1>2. SumOf(f, S) = f[x] + SumOf(f, S \ {x}) /\ SumOf(g, S) = g[x] + SumOf(g, S \ {x})
  BY SumTypeAndSplit
<1>3. SumOf(f, S \ {x}) = SumOf(g, S \ {x}) /\ SumOf(f, S \ {x}) \in Int
  BY <1>1, SumSame, SumTypeAndSplit
<1> QED
  BY <1>2, <1>3

------------------------------------------------------------------------------
(* What each step does to its request. *)

\* The handlers of Stripe's events.
EventOps == {"topup", "activate", "deactivate", "refund"}
\* The steps of each operation.
StepsOf == [none |-> {"idle"}, deposit |-> {"write", "log"}, subscribe |-> {"read", "write", "log", "insert", "grant"},
            cart |-> {"put"}, checkout |-> {"balance", "debit", "log", "stock", "order", "items", "clear"},
            topup |-> {"credit", "log"}, activate |-> {"deactivate", "insert", "grant"}, deactivate |-> {"cancel"},
            refund |-> {"refund", "log"}]
\* A request is at a step of its operation and holds what the operation gives it.
Shaped(q) ==
    /\ q.step \in StepsOf[q.op]
    /\ q.op \in EventOps => /\ q.event \in Events /\ q.event.kind = q.op /\ q.event.user = q.user
                            /\ q.event.sub = q.row /\ q.event.amount = q.amount
    /\ q.op \notin EventOps => q.event = NoRow
    /\ q.op = "subscribe" => q.row \in 1 .. MaxRequests /\ q.amount = TierPrice[q.tier]
    /\ q.op \in {"cart", "checkout"} => q.todo \subseteq Products
    /\ q.step = "grant" => q.todo \subseteq UNION {Features[t] : t \in Tiers}
ShapeInv == \A r \in Requests : Shaped(rq[r])
\* A step moves one request and no other.
Moved(r) == /\ rq' \in [Requests -> Request] /\ Shaped(rq[r])' 
            /\ \A s \in Requests \ {r} : rq'[s] = rq[s]

\* All but where a request stands, what it has seen and what it has to do.
SameBut(r) == /\ rq'[r].op = rq[r].op /\ rq'[r].user = rq[r].user /\ rq'[r].amount = rq[r].amount
              /\ rq'[r].basket = rq[r].basket /\ rq'[r].row = rq[r].row /\ rq'[r].tier = rq[r].tier
              /\ rq'[r].event = rq[r].event

\* The request that is not being served.
LEMMA IdleFacts == /\ Idle \in Request /\ Shaped(Idle)
                   /\ Idle.op = "none" /\ Idle.step = "idle" /\ Idle.event = NoRow /\ Idle.todo = {}
<1>1. (CHOOSE u \in Users : TRUE) \in Users
  BY CommerceAssumption
<1>2. NoItems \in [Products -> Nat]
  BY DEF NoItems
<1>3. Idle \in Request
  BY <1>1, <1>2, CommerceAssumption DEF Idle, Request
<1>4. Idle.op = "none" /\ Idle.step = "idle" /\ Idle.event = NoRow /\ Idle.todo = {}
  BY DEF Idle
<1>5. Shaped(Idle)
  BY <1>4 DEF Shaped, StepsOf, EventOps
<1> QED
  BY <1>3, <1>4, <1>5

\* What Stripe's events hold, and the first step of their handlers.
LEMMA EventFacts ==
  ASSUME NEW e \in Events
  PROVE  /\ e.kind \in EventOps /\ e.user \in Users /\ e.tier \in Tiers /\ e.amount \in Nat
         /\ e.sub \in RowIds \cup {NoRow}
         /\ FirstStep(e) \in {"credit", "deactivate", "cancel", "refund"} /\ FirstStep(e) \in StepsOf[e.kind]
<1>1. e.kind \in EventOps /\ e.user \in Users /\ e.tier \in Tiers /\ e.amount \in Nat
  BY CommerceAssumption DEF EventOps
<1>2. e.sub \in RowIds \cup {NoRow}
  BY DEF RowIds, Subs
<1> QED
  BY <1>1, <1>2 DEF EventOps, FirstStep, StepsOf

\* The total of a basket is a natural.
LEMMA BasketTotal ==
  ASSUME NEW b \in [Products -> Nat]
  PROVE  Total(b) \in Nat
<1> DEFINE f == [p \in Products |-> Price[p] * b[p]]
<1>1. \A p \in Products : Price[p] \in Nat /\ b[p] \in Nat
  BY CommerceAssumption
<1>2. \A m, n \in Nat : m * n \in Nat
  OBVIOUS
<1>3. \A p \in Products : f[p] \in Nat
  BY <1>1, <1>2
<1>4. SumOf(f, Products) \in Nat
  <2> HIDE DEF f
  <2> QED BY <1>3, CommerceAssumption, SumNat
<1> QED
  BY <1>4 DEF Total

\* A step that sets a request to a record of the right shape moves it.
LEMMA MovesTo ==
  ASSUME NEW r \in Requests, NEW q \in Request, TypeOK, Shaped(q), rq' = [rq EXCEPT ![r] = q]
  PROVE  Moved(r) /\ rq'[r] = q
  BY DEF Moved, TypeOK

\* The request's event is answered, if it has one.
Acks(r) == acked' = IF rq[r].event = NoRow THEN acked ELSE acked \cup {rq[r].event}

\* Ends(r) leaves the request idle and answers its event.
LEMMA EndsTo ==
  ASSUME NEW r \in Requests, TypeOK, Ends(r)
  PROVE  /\ Moved(r) /\ rq'[r] = Idle
         /\ Acks(r)
<1>1. rq' = [rq EXCEPT ![r] = Idle] /\ acked' = acked \cup ({rq[r].event} \ {NoRow})
  BY DEF Ends, Go
<1> QED
  BY <1>1, IdleFacts, MovesTo DEF Acks

\* A request that goes on keeps all but what its step sets.
Continues(r, step, seen, todo) ==
    /\ rq' = [rq EXCEPT ![r] = [rq[r] EXCEPT !.step = step, !.seen = seen, !.todo = todo]]
    /\ seen \in Int /\ todo \in SUBSET (Products \cup UNION {Features[t] : t \in Tiers})
    /\ step \in StepsOf[rq[r].op]
    /\ rq[r].op \in {"cart", "checkout"} => todo \subseteq Products
    /\ step = "grant" => todo \subseteq UNION {Features[t] : t \in Tiers}

\* A request that goes on moves, and keeps what identifies it.
LEMMA GoesOn ==
  ASSUME NEW r \in Requests, TypeOK, ShapeInv, NEW step, NEW seen, NEW todo, Continues(r, step, seen, todo)
  PROVE  /\ Moved(r) /\ SameBut(r)
         /\ rq'[r].step = step /\ rq'[r].seen = seen /\ rq'[r].todo = todo
<1> DEFINE q == [rq[r] EXCEPT !.step = step, !.seen = seen, !.todo = todo]
<1>0. rq[r] \in Request /\ Shaped(rq[r])
  BY DEF TypeOK, ShapeInv
<1>1. step \in {"idle", "read", "write", "log", "insert", "grant", "put", "balance", "debit", "stock",
                "order", "items", "clear", "credit", "deactivate", "cancel", "refund"}
  BY <1>0 DEF StepsOf, Request, Continues
<1>2. q \in Request
  BY <1>0, <1>1 DEF Request, Continues
<1>3. /\ q.step = step /\ q.seen = seen /\ q.todo = todo
      /\ q.op = rq[r].op /\ q.user = rq[r].user /\ q.amount = rq[r].amount
      /\ q.basket = rq[r].basket /\ q.row = rq[r].row /\ q.tier = rq[r].tier
      /\ q.event = rq[r].event
  BY <1>0 DEF Request
<1>5. rq' = [rq EXCEPT ![r] = q]
  BY DEF Continues
<1> HIDE DEF q
<1>4. Shaped(q)
  BY <1>0, <1>3 DEF Shaped, Continues
<1> QED
  BY <1>2, <1>3, <1>4, <1>5, MovesTo DEF SameBut

\* A request that only changes its step.
LEMMA StepsTo ==
  ASSUME NEW r \in Requests, TypeOK, ShapeInv, NEW step, step # "grant", step \in StepsOf[rq[r].op],
         rq' = [rq EXCEPT ![r] = [rq[r] EXCEPT !.step = step]]
  PROVE  Moved(r) /\ SameBut(r) /\ rq'[r].step = step
<1>1. rq[r] \in Request /\ Shaped(rq[r])
  BY DEF TypeOK, ShapeInv
<1>2. rq' = [rq EXCEPT ![r] = [rq[r] EXCEPT !.step = step, !.seen = rq[r].seen, !.todo = rq[r].todo]]
  BY <1>1 DEF Request
<1>3. rq[r].seen \in Int /\ rq[r].todo \in SUBSET (Products \cup UNION {Features[t] : t \in Tiers})
  BY <1>1 DEF Request
<1>4. rq[r].op \in {"cart", "checkout"} => rq[r].todo \subseteq Products
  BY <1>1 DEF Shaped
<1>5. Continues(r, step, rq[r].seen, rq[r].todo)
  BY <1>2, <1>3, <1>4 DEF Continues
<1> QED
  BY <1>5, GoesOn

\* A deposit begins with the balance it read.
LEMMA DepositReadEffect ==
  ASSUME NEW r \in Requests, NEW u \in Users, NEW n \in Amounts, TypeOK, ShapeInv, DepositRead(r, u, n)
  PROVE  /\ Moved(r) /\ rq[r] = Idle
         /\ rq'[r].op = "deposit" /\ rq'[r].step = "write"
         /\ rq'[r].user = u /\ rq'[r].seen = balance[u] /\ rq'[r].event = NoRow
<1>0. PICK step : step = "write"
  OBVIOUS
<1> DEFINE q == [Idle EXCEPT !.op = "deposit", !.step = step, !.user = u, !.amount = n, !.seen = balance[u]]
<1>1. rq' = [rq EXCEPT ![r] = q] /\ rq[r] = Idle
  BY <1>0 DEF DepositRead, Arrives, Go
<1>2. step = "write" /\ n \in Nat /\ balance[u] \in Int
  BY <1>0, CommerceAssumption DEF TypeOK
<1>3. q \in Request
  <2>1. Idle \in Request
    BY IdleFacts
  <2> QED BY <1>2, <2>1 DEF Request, EventOps
<1>4. q.op = "deposit" /\ q.step = "write" /\ q.user = u /\ q.seen = balance[u] /\ q.event = NoRow
  BY <1>0, <1>2, IdleFacts DEF Request
<1> HIDE DEF q
<1>5. Shaped(q)
  BY <1>2, <1>4, CommerceAssumption DEF Shaped, StepsOf, EventOps
<1> QED
  BY <1>1, <1>3, <1>4, <1>5, MovesTo

\* A deposit has written the balance and has to log it.
LEMMA DepositWriteEffect ==
  ASSUME NEW r \in Requests, TypeOK, ShapeInv, DepositWrite(r)
  PROVE  /\ Moved(r) /\ SameBut(r) /\ rq[r].op = "deposit" /\ rq[r].step = "write"
         /\ rq'[r].step = "log"
<1>1. rq' = [rq EXCEPT ![r] = [rq[r] EXCEPT !.step = "log"]] /\ rq[r].op = "deposit" /\ rq[r].step = "write"
  BY DEF DepositWrite, At, Go, To, WriteBalance
<1>2. "log" \in StepsOf[rq[r].op]
  BY <1>1 DEF StepsOf
<1> QED
  BY <1>1, <1>2, StepsTo

\* A subscription has written the balance and has to log it.
LEMMA SubscribeWriteEffect ==
  ASSUME NEW r \in Requests, TypeOK, ShapeInv, SubscribeWrite(r)
  PROVE  /\ Moved(r) /\ SameBut(r) /\ rq[r].op = "subscribe" /\ rq[r].step = "write"
         /\ rq'[r].step = "log"
<1>1. rq' = [rq EXCEPT ![r] = [rq[r] EXCEPT !.step = "log"]] /\ rq[r].op = "subscribe" /\ rq[r].step = "write"
  BY DEF SubscribeWrite, At, Go, To, WriteBalance
<1>2. "log" \in StepsOf[rq[r].op]
  BY <1>1 DEF StepsOf
<1> QED
  BY <1>1, <1>2, StepsTo

\* A subscription is paid for and has to insert its row.
LEMMA SubscribeLogEffect ==
  ASSUME NEW r \in Requests, TypeOK, ShapeInv, SubscribeLog(r)
  PROVE  /\ Moved(r) /\ SameBut(r) /\ rq[r].op = "subscribe" /\ rq[r].step = "log"
         /\ rq'[r].step = "insert"
<1>1. rq' = [rq EXCEPT ![r] = [rq[r] EXCEPT !.step = "insert"]] /\ rq[r].op = "subscribe" /\ rq[r].step = "log"
  BY DEF SubscribeLog, At, Go, To
<1>2. "insert" \in StepsOf[rq[r].op]
  BY <1>1 DEF StepsOf
<1> QED
  BY <1>1, <1>2, StepsTo

\* A top-up is credited and has to be logged.
LEMMA TopUpCreditEffect ==
  ASSUME NEW r \in Requests, TypeOK, ShapeInv, TopUpCredit(r)
  PROVE  /\ Moved(r) /\ SameBut(r) /\ rq[r].op = "topup" /\ rq[r].step = "credit"
         /\ rq'[r].step = "log"
<1>1. rq' = [rq EXCEPT ![r] = [rq[r] EXCEPT !.step = "log"]] /\ rq[r].op = "topup" /\ rq[r].step = "credit"
  BY DEF TopUpCredit, At, Go, To
<1>2. "log" \in StepsOf[rq[r].op]
  BY <1>1 DEF StepsOf
<1> QED
  BY <1>1, <1>2, StepsTo

\* A refund is debited and has to be logged.
LEMMA RefundDebitEffect ==
  ASSUME NEW r \in Requests, TypeOK, ShapeInv, RefundDebit(r)
  PROVE  /\ Moved(r) /\ SameBut(r) /\ rq[r].op = "refund" /\ rq[r].step = "refund"
         /\ rq'[r].step = "log"
<1>1. rq' = [rq EXCEPT ![r] = [rq[r] EXCEPT !.step = "log"]] /\ rq[r].op = "refund" /\ rq[r].step = "refund"
  BY DEF RefundDebit, At, Go, To
<1>2. "log" \in StepsOf[rq[r].op]
  BY <1>1 DEF StepsOf
<1> QED
  BY <1>1, <1>2, StepsTo

\* A checkout is debited and has to be logged.
LEMMA CheckoutDebitEffect ==
  ASSUME NEW r \in Requests, TypeOK, ShapeInv, CheckoutDebit(r)
  PROVE  /\ Moved(r) /\ SameBut(r) /\ rq[r].op = "checkout" /\ rq[r].step = "debit"
         /\ rq'[r].step = "log"
<1>1. rq' = [rq EXCEPT ![r] = [rq[r] EXCEPT !.step = "log"]] /\ rq[r].op = "checkout" /\ rq[r].step = "debit"
  BY DEF CheckoutDebit, At, Go, To
<1>2. "log" \in StepsOf[rq[r].op]
  BY <1>1 DEF StepsOf
<1> QED
  BY <1>1, <1>2, StepsTo

\* An activation has switched off the other rows and has to insert its own.
LEMMA ActivateDeactivateEffect ==
  ASSUME NEW r \in Requests, TypeOK, ShapeInv, ActivateDeactivate(r)
  PROVE  /\ Moved(r) /\ SameBut(r) /\ rq[r].op = "activate" /\ rq[r].step = "deactivate"
         /\ rq'[r].step = "insert"
<1>1. rq' = [rq EXCEPT ![r] = [rq[r] EXCEPT !.step = "insert"]] /\ rq[r].op = "activate" /\ rq[r].step = "deactivate"
  BY DEF ActivateDeactivate, At, Go, To
<1>2. "insert" \in StepsOf[rq[r].op]
  BY <1>1 DEF StepsOf
<1> QED
  BY <1>1, <1>2, StepsTo

\* A checkout that begins a loop over its basket.
LEMMA BeginsLoop ==
  ASSUME NEW r \in Requests, TypeOK, ShapeInv, rq[r].op = "checkout", NEW step \in {"stock", "items"},
         rq' = [rq EXCEPT ![r] = [rq[r] EXCEPT !.step = step, !.todo = InBasket(rq[r].basket)]]
  PROVE  Moved(r) /\ SameBut(r) /\ rq'[r].step = step /\ rq'[r].todo = InBasket(rq[r].basket)
<1>1. rq[r] \in Request /\ Shaped(rq[r])
  BY DEF TypeOK, ShapeInv
<1>2. rq' = [rq EXCEPT ![r] = [rq[r] EXCEPT !.step = step, !.seen = rq[r].seen, !.todo = InBasket(rq[r].basket)]]
  BY <1>1 DEF Request
<1>3. rq[r].seen \in Int /\ InBasket(rq[r].basket) \subseteq Products
  BY <1>1 DEF Request, InBasket
<1>4. step \in StepsOf[rq[r].op]
  BY DEF StepsOf
<1>5. Continues(r, step, rq[r].seen, InBasket(rq[r].basket))
  BY <1>2, <1>3, <1>4 DEF Continues
<1> QED
  BY <1>5, GoesOn

\* A checkout is paid for and takes its basket from the stock.
LEMMA CheckoutLogEffect ==
  ASSUME NEW r \in Requests, TypeOK, ShapeInv, CheckoutLog(r)
  PROVE  /\ Moved(r) /\ SameBut(r) /\ rq[r].op = "checkout" /\ rq[r].step = "log"
         /\ rq'[r].step = "stock" /\ rq'[r].todo = InBasket(rq[r].basket)
<1>1. rq' = [rq EXCEPT ![r] = [rq[r] EXCEPT !.step = "stock", !.todo = InBasket(rq[r].basket)]] /\ rq[r].op = "checkout" /\ rq[r].step = "log"
  BY DEF CheckoutLog, At, Go, To
<1> QED
  BY <1>1, BeginsLoop

\* A checkout has inserted its order and inserts the items.
LEMMA CheckoutOrderEffect ==
  ASSUME NEW r \in Requests, TypeOK, ShapeInv, CheckoutOrder(r)
  PROVE  /\ Moved(r) /\ SameBut(r) /\ rq[r].op = "checkout" /\ rq[r].step = "order"
         /\ rq'[r].step = "items" /\ rq'[r].todo = InBasket(rq[r].basket)
<1>1. rq' = [rq EXCEPT ![r] = [rq[r] EXCEPT !.step = "items", !.todo = InBasket(rq[r].basket)]] /\ rq[r].op = "checkout" /\ rq[r].step = "order"
  BY DEF CheckoutOrder, At, Go, To
<1> QED
  BY <1>1, BeginsLoop

\* A subscription begins with a row of its own; a free one is inserted next.
LEMMA SubscribeDeactivateEffect ==
  ASSUME NEW r \in Requests, NEW u \in Users, NEW t \in Tiers, TypeOK, ShapeInv, SubscribeDeactivate(r, u, t)
  PROVE  /\ Moved(r) /\ rq[r] = Idle
         /\ rq'[r].op = "subscribe" /\ rq'[r].step \in {"read", "insert"} /\ (rq'[r].step = "insert" => rq'[r].amount = 0)
         /\ rq'[r].user = u /\ rq'[r].tier = t /\ rq'[r].amount = TierPrice[t]
         /\ rq'[r].row = made + 1 /\ made + 1 \in 1 .. MaxRequests /\ rq'[r].event = NoRow
<1>0. PICK step : step = IF TierPrice[t] > 0 THEN "read" ELSE "insert"
  OBVIOUS
<1> DEFINE q == [Idle EXCEPT !.op = "subscribe", !.user = u, !.tier = t, !.amount = TierPrice[t], !.row = made + 1,
                          !.step = step]
<1>1. rq' = [rq EXCEPT ![r] = q] /\ rq[r] = Idle
  BY <1>0 DEF SubscribeDeactivate, Arrives, Go
<1>2. step \in {"read", "insert"} /\ (step = "insert" => TierPrice[t] = 0) /\ TierPrice[t] \in Nat
      /\ made + 1 \in 1 .. MaxRequests /\ made + 1 \in RowIds
  BY <1>0, CommerceAssumption DEF TypeOK, SubscribeDeactivate, Arrives, RowIds
<1>3. q \in Request
  <2>1. Idle \in Request
    BY IdleFacts
  <2> QED BY <1>2, <2>1 DEF Request, EventOps
<1>4. /\ q.op = "subscribe" /\ q.step \in {"read", "insert"}
      /\ (q.step = "insert" => q.amount = 0) /\ q.user = u /\ q.tier = t
      /\ q.amount = TierPrice[t] /\ q.row = made + 1 /\ made + 1 \in 1 .. MaxRequests
      /\ q.event = NoRow
  BY <1>0, <1>2, IdleFacts DEF Request
<1> HIDE DEF q
<1>5. Shaped(q)
  BY <1>2, <1>4, CommerceAssumption DEF Shaped, StepsOf, EventOps
<1> QED
  BY <1>1, <1>3, <1>4, <1>5, MovesTo

\* A delivery begins with what the event says.
LEMMA DeliverEffect ==
  ASSUME NEW r \in Requests, NEW e \in Events, TypeOK, ShapeInv, Deliver(r, e)
  PROVE  /\ Moved(r) /\ rq[r] = Idle
         /\ rq'[r].op = e.kind /\ e.kind \in EventOps
         /\ rq'[r].step = FirstStep(e) /\ rq'[r].step \in {"credit", "deactivate", "cancel", "refund"} /\ rq'[r].step \in StepsOf[e.kind]
         /\ rq'[r].event = e /\ rq'[r].user = e.user /\ rq'[r].row = e.sub /\ rq'[r].tier = e.tier /\ rq'[r].amount = e.amount
<1>0. PICK step : step = FirstStep(e)
  OBVIOUS
<1> DEFINE q == [Idle EXCEPT !.op = e.kind, !.step = step, !.user = e.user, !.amount = e.amount,
                          !.row = e.sub, !.tier = e.tier, !.event = e]
<1>1. rq' = [rq EXCEPT ![r] = q] /\ rq[r] = Idle
  BY <1>0 DEF Deliver, Arrives, Go
<1>2. /\ e.user \in Users /\ e.tier \in Tiers /\ e.amount \in Nat
     /\ e.kind \in EventOps /\ step \in {"credit", "deactivate", "cancel", "refund"} /\ step \in StepsOf[e.kind]
     /\ e.sub \in RowIds \cup {NoRow}
  BY <1>0, CommerceAssumption, EventFacts DEF TypeOK
<1>3. q \in Request
  <2>1. Idle \in Request
    BY IdleFacts
  <2> QED BY <1>2, <2>1 DEF Request, EventOps
<1>4. /\ q.op = e.kind /\ e.kind \in EventOps /\ q.step = FirstStep(e)
      /\ q.step \in {"credit", "deactivate", "cancel", "refund"} /\ q.step \in StepsOf[e.kind]
      /\ q.event = e /\ q.user = e.user /\ q.row = e.sub /\ q.tier = e.tier
      /\ q.amount = e.amount
  BY <1>0, <1>2, IdleFacts DEF Request
<1> HIDE DEF q
<1>5. Shaped(q)
  BY <1>2, <1>4, CommerceAssumption, EventFacts DEF Shaped, StepsOf, EventOps
<1> QED
  BY <1>1, <1>3, <1>4, <1>5, MovesTo

\* A product is put in the cart if there is enough of it.
LEMMA CartReadEffect ==
  ASSUME NEW r \in Requests, NEW u \in Users, NEW p \in Products, NEW n \in Quantities, TypeOK, ShapeInv, CartRead(r, u, p, n)
  PROVE  \/ rq' = rq
         \/ /\ Moved(r) /\ rq[r] = Idle
            /\ rq'[r].op = "cart" /\ rq'[r].step = "put" /\ rq'[r].event = NoRow
            /\ rq'[r].todo = {p}
<1> SUFFICES ASSUME rq' # rq PROVE /\ Moved(r) /\ rq[r] = Idle
  /\ rq'[r].op = "cart" /\ rq'[r].step = "put" /\ rq'[r].event = NoRow
  /\ rq'[r].todo = {p}
  OBVIOUS
<1> DEFINE q == [Idle EXCEPT !.op = "cart", !.step = "put", !.user = u, !.basket[p] = n, !.todo = {p}]
<1>1. rq' = [rq EXCEPT ![r] = q] /\ rq[r] = Idle
  BY DEF CartRead, Arrives, Go
<1>2. q \in Request
  <2>1. Idle \in Request
    BY IdleFacts
  <2>2. n \in Nat
    BY CommerceAssumption DEF TypeOK
  <2> QED BY <2>1, <2>2 DEF Request
<1>3. q.op = "cart" /\ q.step = "put" /\ q.event = NoRow /\ q.todo = {p}
  BY IdleFacts DEF Request
<1> HIDE DEF q
<1>4. Shaped(q)
  BY <1>3, CommerceAssumption DEF Shaped, StepsOf, EventOps
<1> QED
  BY <1>1, <1>2, <1>3, <1>4, MovesTo

\* A checkout begins with the basket it read, or is refused.
LEMMA CheckoutReadEffect ==
  ASSUME NEW r \in Requests, NEW u \in Users, TypeOK, ShapeInv, CheckoutRead(r, u)
  PROVE  \/ rq' = rq
         \/ /\ Moved(r) /\ rq[r] = Idle
            /\ rq'[r].op = "checkout" /\ rq'[r].step = "balance" /\ rq'[r].event = NoRow
            /\ rq'[r].todo = {} /\ rq'[r].user = u
<1> SUFFICES ASSUME rq' # rq PROVE /\ Moved(r) /\ rq[r] = Idle
  /\ rq'[r].op = "checkout" /\ rq'[r].step = "balance" /\ rq'[r].event = NoRow
  /\ rq'[r].todo = {} /\ rq'[r].user = u
  OBVIOUS
<1> DEFINE q == [Idle EXCEPT !.op = "checkout", !.step = "balance", !.user = u, !.basket = cart[u], !.amount = Total(cart[u])]
<1>1. rq' = [rq EXCEPT ![r] = q] /\ rq[r] = Idle
  BY DEF CheckoutRead, Arrives, Go
<1>2. q \in Request
  <2>1. Idle \in Request
    BY IdleFacts
  <2>2. cart[u] \in [Products -> Nat] /\ Total(cart[u]) \in Nat
    BY CommerceAssumption, BasketTotal DEF TypeOK
  <2> QED BY <2>1, <2>2 DEF Request
<1>3. q.op = "checkout" /\ q.step = "balance" /\ q.event = NoRow /\ q.todo = {} /\ q.user = u
  BY IdleFacts DEF Request
<1> HIDE DEF q
<1>4. Shaped(q)
  BY <1>3, CommerceAssumption DEF Shaped, StepsOf, EventOps
<1> QED
  BY <1>1, <1>2, <1>3, <1>4, MovesTo

\* The log of a deposit ends it.
LEMMA DepositLogEffect ==
  ASSUME NEW r \in Requests, TypeOK, ShapeInv, DepositLog(r)
  PROVE  /\ Moved(r) /\ rq'[r] = Idle /\ rq[r].op = "deposit" /\ rq[r].step = "log" /\ Acks(r)
<1>1. Ends(r) /\ rq[r].op = "deposit" /\ rq[r].step = "log"
  BY DEF DepositLog, At
<1> QED
  BY <1>1, EndsTo

\* The log of a top-up ends it and acknowledges its event.
LEMMA TopUpLogEffect ==
  ASSUME NEW r \in Requests, TypeOK, ShapeInv, TopUpLog(r)
  PROVE  /\ Moved(r) /\ rq'[r] = Idle /\ rq[r].op = "topup" /\ rq[r].step = "log" /\ Acks(r)
<1>1. Ends(r) /\ rq[r].op = "topup" /\ rq[r].step = "log"
  BY DEF TopUpLog, At
<1> QED
  BY <1>1, EndsTo

\* The log of a refund ends it and acknowledges its event.
LEMMA RefundLogEffect ==
  ASSUME NEW r \in Requests, TypeOK, ShapeInv, RefundLog(r)
  PROVE  /\ Moved(r) /\ rq'[r] = Idle /\ rq[r].op = "refund" /\ rq[r].step = "log" /\ Acks(r)
<1>1. Ends(r) /\ rq[r].op = "refund" /\ rq[r].step = "log"
  BY DEF RefundLog, At
<1> QED
  BY <1>1, EndsTo

\* The update of the cart ends its request.
LEMMA CartPutEffect ==
  ASSUME NEW r \in Requests, TypeOK, ShapeInv, CartPut(r)
  PROVE  /\ Moved(r) /\ rq'[r] = Idle /\ rq[r].op = "cart" /\ rq[r].step = "put" /\ Acks(r)
<1>1. Ends(r) /\ rq[r].op = "cart" /\ rq[r].step = "put"
  BY DEF CartPut, At
<1> QED
  BY <1>1, EndsTo

\* Emptying the cart ends a checkout.
LEMMA CheckoutClearEffect ==
  ASSUME NEW r \in Requests, TypeOK, ShapeInv, CheckoutClear(r)
  PROVE  /\ Moved(r) /\ rq'[r] = Idle /\ rq[r].op = "checkout" /\ rq[r].step = "clear" /\ Acks(r)
<1>1. Ends(r) /\ rq[r].op = "checkout" /\ rq[r].step = "clear"
  BY DEF CheckoutClear, At
<1> QED
  BY <1>1, EndsTo

\* The update of the row ends a cancellation and acknowledges its event.
LEMMA DeactivateSubscriptionEffect ==
  ASSUME NEW r \in Requests, TypeOK, ShapeInv, DeactivateSubscription(r)
  PROVE  /\ Moved(r) /\ rq'[r] = Idle /\ rq[r].op = "deactivate" /\ rq[r].step = "cancel" /\ Acks(r)
<1>1. Ends(r) /\ rq[r].op = "deactivate" /\ rq[r].step = "cancel"
  BY DEF DeactivateSubscription, At
<1> QED
  BY <1>1, EndsTo

\* A subscription is refused, or goes on with a balance that covers its price.
LEMMA SubscribeReadEffect ==
  ASSUME NEW r \in Requests, TypeOK, ShapeInv, SubscribeRead(r)
  PROVE  /\ Moved(r) /\ rq[r].op = "subscribe" /\ rq[r].step = "read"
         /\ \/ rq'[r] = Idle /\ acked' = acked
            \/ /\ SameBut(r) /\ acked' = acked /\ rq'[r].step = "write"
               /\ rq'[r].seen = balance[rq[r].user] /\ rq'[r].seen >= rq[r].amount
<1>0. rq[r] \in Request /\ Shaped(rq[r]) /\ rq[r].op = "subscribe" /\ rq[r].step = "read"
  BY DEF TypeOK, ShapeInv, SubscribeRead, At
<1>1. rq[r].event = NoRow
  BY <1>0 DEF Shaped, EventOps
<1>2. CASE Ends(r)
  BY <1>0, <1>1, <1>2, EndsTo DEF Acks
<1>3. CASE ~ Ends(r)
  <2>1. /\ rq' = [rq EXCEPT ![r] = [rq[r] EXCEPT !.seen = balance[rq[r].user], !.step = "write"]]
        /\ acked' = acked /\ ~ (balance[rq[r].user] < rq[r].amount)
    BY <1>3 DEF SubscribeRead, Go
  <2>2. balance[rq[r].user] \in Int /\ rq[r].amount \in Int
    BY <1>0 DEF Request, TypeOK
  <2>3. rq' = [rq EXCEPT ![r] = [rq[r] EXCEPT !.step = "write", !.seen = balance[rq[r].user], !.todo = rq[r].todo]]
    BY <1>0, <2>1 DEF Request
  <2>4. Continues(r, "write", balance[rq[r].user], rq[r].todo)
    BY <1>0, <2>2, <2>3 DEF Continues, Request, StepsOf
  <2>5. /\ Moved(r) /\ SameBut(r) /\ rq'[r].step = "write" /\ rq'[r].seen = balance[rq[r].user]
    BY <2>4, GoesOn
  <2> QED BY <1>0, <2>1, <2>2, <2>5
<1> QED
  BY <1>2, <1>3

\* A checkout is refused, or goes on with a balance that covers its total.
LEMMA CheckoutBalanceEffect ==
  ASSUME NEW r \in Requests, TypeOK, ShapeInv, CheckoutBalance(r)
  PROVE  /\ Moved(r) /\ rq[r].op = "checkout" /\ rq[r].step = "balance"
         /\ \/ rq'[r] = Idle /\ acked' = acked
            \/ /\ SameBut(r) /\ acked' = acked /\ rq'[r].step = "debit"
               /\ rq'[r].seen = balance[rq[r].user] /\ rq'[r].seen >= rq[r].amount
<1>0. rq[r] \in Request /\ Shaped(rq[r]) /\ rq[r].op = "checkout" /\ rq[r].step = "balance"
  BY DEF TypeOK, ShapeInv, CheckoutBalance, At
<1>1. rq[r].event = NoRow
  BY <1>0 DEF Shaped, EventOps
<1>2. CASE Ends(r)
  BY <1>0, <1>1, <1>2, EndsTo DEF Acks
<1>3. CASE ~ Ends(r)
  <2>1. /\ rq' = [rq EXCEPT ![r] = [rq[r] EXCEPT !.seen = balance[rq[r].user], !.step = "debit"]]
        /\ acked' = acked /\ ~ (balance[rq[r].user] < rq[r].amount)
    BY <1>3 DEF CheckoutBalance, Go
  <2>2. balance[rq[r].user] \in Int /\ rq[r].amount \in Int
    BY <1>0 DEF Request, TypeOK
  <2>3. rq' = [rq EXCEPT ![r] = [rq[r] EXCEPT !.step = "debit", !.seen = balance[rq[r].user], !.todo = rq[r].todo]]
    BY <1>0, <2>1 DEF Request
  <2>4. Continues(r, "debit", balance[rq[r].user], rq[r].todo)
    BY <1>0, <2>2, <2>3 DEF Continues, Request, StepsOf, Shaped
  <2>5. /\ Moved(r) /\ SameBut(r) /\ rq'[r].step = "debit" /\ rq'[r].seen = balance[rq[r].user]
    BY <2>4, GoesOn
  <2> QED BY <1>0, <2>1, <2>2, <2>5
<1> QED
  BY <1>2, <1>3

\* An inserted membership has its features to grant.
LEMMA InsertMembershipEffect ==
  ASSUME NEW r \in Requests, TypeOK, ShapeInv, InsertMembership(r)
  PROVE  /\ Moved(r) /\ SameBut(r) /\ rq[r].op \in {"subscribe", "activate"} /\ rq[r].step = "insert"
         /\ rq'[r].step = "grant"
<1>1. /\ rq[r].op \in {"subscribe", "activate"} /\ rq[r].step = "insert"
      /\ rq' = [rq EXCEPT ![r] = [rq[r] EXCEPT !.step = "grant", !.todo = Features[rq[r].tier]]]
  BY DEF InsertMembership, Go
<1>2. rq[r] \in Request /\ Shaped(rq[r])
  BY DEF TypeOK, ShapeInv
<1>3. rq' = [rq EXCEPT ![r] = [rq[r] EXCEPT !.step = "grant", !.seen = rq[r].seen, !.todo = Features[rq[r].tier]]]
  BY <1>1, <1>2 DEF Request
<1>4. rq[r].tier \in Tiers /\ rq[r].seen \in Int
  BY <1>2 DEF Request
<1>5. PICK todo : todo = Features[rq[r].tier]
  OBVIOUS
<1>6. todo \subseteq UNION {Features[t] : t \in Tiers}
  BY <1>4, <1>5
<1>7. Continues(r, "grant", rq[r].seen, todo)
  <2>1. rq' = [rq EXCEPT ![r] = [rq[r] EXCEPT !.step = "grant", !.seen = rq[r].seen, !.todo = todo]]
    BY <1>3, <1>5
  <2>2. "grant" \in StepsOf[rq[r].op] /\ rq[r].op \notin {"cart", "checkout"}
    BY <1>1 DEF StepsOf
  <2>3. todo \in SUBSET (Products \cup UNION {Features[t] : t \in Tiers})
    BY <1>6
  <2> QED BY <1>4, <1>6, <2>1, <2>2, <2>3 DEF Continues
<1> QED
  BY <1>1, <1>7, GoesOn

\* One feature is granted, or all are and the request ends.
LEMMA GrantEffect ==
  ASSUME NEW r \in Requests, TypeOK, ShapeInv, Grant(r)
  PROVE  /\ Moved(r) /\ rq[r].op \in {"subscribe", "activate"} /\ rq[r].step = "grant"
         /\ \/ rq'[r] = Idle /\ Acks(r) /\ granted' = granted
            \/ /\ SameBut(r) /\ rq'[r].step = "grant" /\ acked' = acked
               /\ \E f \in UNION {Features[t] : t \in Tiers} : granted' = [granted EXCEPT ![rq[r].user] = @ \cup {f}]
<1>0. rq[r] \in Request /\ Shaped(rq[r]) /\ rq[r].step = "grant"
  BY DEF TypeOK, ShapeInv, Grant
<1>1. rq[r].op \in {"subscribe", "activate"}
  BY <1>0 DEF Shaped, StepsOf, Request
<1>2. CASE rq[r].todo = {}
  <2>1. Ends(r) /\ granted' = granted
    BY <1>2 DEF Grant
  <2> QED BY <1>0, <1>1, <2>1, EndsTo
<1>3. CASE rq[r].todo # {}
  <2>1. PICK f \in rq[r].todo : /\ granted' = [granted EXCEPT ![rq[r].user] = @ \cup {f}]
                                /\ rq' = [rq EXCEPT ![r] = [rq[r] EXCEPT !.todo = @ \ {f}]] /\ acked' = acked
    BY <1>3 DEF Grant, Go
  <2>2. rq[r].todo \subseteq UNION {Features[t] : t \in Tiers} /\ rq[r].seen \in Int
    BY <1>0 DEF Shaped, Request
  <2>3. rq' = [rq EXCEPT ![r] = [rq[r] EXCEPT !.step = "grant", !.seen = rq[r].seen, !.todo = rq[r].todo \ {f}]]
    BY <1>0, <2>1 DEF Request
  <2>4. Continues(r, "grant", rq[r].seen, rq[r].todo \ {f})
    BY <1>1, <2>2, <2>3 DEF Continues, StepsOf
  <2>5. Moved(r) /\ SameBut(r) /\ rq'[r].step = "grant"
    BY <2>4, GoesOn
  <2> QED BY <1>0, <1>1, <2>1, <2>2, <2>5
<1> QED
  BY <1>2, <1>3

\* One product of the basket is taken from the stock; after the last the order is next.
LEMMA CheckoutStockEffect ==
  ASSUME NEW r \in Requests, TypeOK, ShapeInv, CheckoutStock(r)
  PROVE  /\ Moved(r) /\ SameBut(r) /\ rq[r].op = "checkout" /\ rq[r].step = "stock"
         /\ \E p \in Products \cap rq[r].todo :
               /\ stock' = [stock EXCEPT ![p] = @ - rq[r].basket[p]]
               /\ \/ rq'[r].step = "stock" /\ rq'[r].todo = rq[r].todo \ {p}
                  \/ rq'[r].step = "order" /\ rq[r].todo = {p}
<1>0. rq[r] \in Request /\ Shaped(rq[r]) /\ rq[r].op = "checkout" /\ rq[r].step = "stock"
  BY DEF TypeOK, ShapeInv, CheckoutStock, At
<1>1. rq[r].todo \subseteq Products /\ rq[r].seen \in Int
  BY <1>0 DEF Shaped, Request
<1>2. PICK p \in rq[r].todo : /\ stock' = [stock EXCEPT ![p] = @ - rq[r].basket[p]]
                              /\ Loops(r, p, [rq[r] EXCEPT !.step = "order", !.todo = {}])
  BY DEF CheckoutStock
<1>3. [rq[r] EXCEPT !.todo = @ \ {p}].todo = rq[r].todo \ {p}
  BY <1>0 DEF Request
<1>4. CASE rq[r].todo \ {p} = {}
  <2>1. rq' = [rq EXCEPT ![r] = [rq[r] EXCEPT !.step = "order", !.todo = {}]]
    BY <1>2, <1>3, <1>4 DEF Loops, Go
  <2>2. rq' = [rq EXCEPT ![r] = [rq[r] EXCEPT !.step = "order", !.seen = rq[r].seen, !.todo = {}]]
    BY <1>0, <2>1 DEF Request
  <2>3. Continues(r, "order", rq[r].seen, {})
    BY <1>0, <1>1, <2>2 DEF Continues, StepsOf
  <2>4. Moved(r) /\ SameBut(r) /\ rq'[r].step = "order"
    BY <2>3, GoesOn
  <2> QED BY <1>0, <1>1, <1>2, <1>4, <2>4
<1>5. CASE rq[r].todo \ {p} # {}
  <2>1. rq' = [rq EXCEPT ![r] = [rq[r] EXCEPT !.todo = @ \ {p}]]
    BY <1>2, <1>3, <1>5 DEF Loops, Go
  <2>2. rq' = [rq EXCEPT ![r] = [rq[r] EXCEPT !.step = "stock", !.seen = rq[r].seen, !.todo = rq[r].todo \ {p}]]
    BY <1>0, <2>1 DEF Request
  <2>3. Continues(r, "stock", rq[r].seen, rq[r].todo \ {p})
    BY <1>0, <1>1, <2>2 DEF Continues, StepsOf
  <2>4. Moved(r) /\ SameBut(r) /\ rq'[r].step = "stock" /\ rq'[r].todo = rq[r].todo \ {p}
    BY <2>3, GoesOn
  <2> QED BY <1>0, <1>1, <1>2, <2>4
<1> QED
  BY <1>4, <1>5

\* One product of the basket is inserted as an item; after the last the cart is next.
LEMMA CheckoutItemEffect ==
  ASSUME NEW r \in Requests, TypeOK, ShapeInv, CheckoutItem(r)
  PROVE  /\ Moved(r) /\ SameBut(r) /\ rq[r].op = "checkout" /\ rq[r].step = "items"
         /\ \E p \in Products \cap rq[r].todo :
               /\ items' = [items EXCEPT ![p] = @ + rq[r].basket[p]]
               /\ \/ rq'[r].step = "items" /\ rq'[r].todo = rq[r].todo \ {p}
                  \/ rq'[r].step = "clear" /\ rq[r].todo = {p}
<1>0. rq[r] \in Request /\ Shaped(rq[r]) /\ rq[r].op = "checkout" /\ rq[r].step = "items"
  BY DEF TypeOK, ShapeInv, CheckoutItem, At
<1>1. rq[r].todo \subseteq Products /\ rq[r].seen \in Int
  BY <1>0 DEF Shaped, Request
<1>2. PICK p \in rq[r].todo : /\ items' = [items EXCEPT ![p] = @ + rq[r].basket[p]]
                              /\ Loops(r, p, [rq[r] EXCEPT !.step = "clear", !.todo = {}])
  BY DEF CheckoutItem
<1>3. [rq[r] EXCEPT !.todo = @ \ {p}].todo = rq[r].todo \ {p}
  BY <1>0 DEF Request
<1>4. CASE rq[r].todo \ {p} = {}
  <2>1. rq' = [rq EXCEPT ![r] = [rq[r] EXCEPT !.step = "clear", !.todo = {}]]
    BY <1>2, <1>3, <1>4 DEF Loops, Go
  <2>2. rq' = [rq EXCEPT ![r] = [rq[r] EXCEPT !.step = "clear", !.seen = rq[r].seen, !.todo = {}]]
    BY <1>0, <2>1 DEF Request
  <2>3. Continues(r, "clear", rq[r].seen, {})
    BY <1>0, <1>1, <2>2 DEF Continues, StepsOf
  <2>4. Moved(r) /\ SameBut(r) /\ rq'[r].step = "clear"
    BY <2>3, GoesOn
  <2> QED BY <1>0, <1>1, <1>2, <1>4, <2>4
<1>5. CASE rq[r].todo \ {p} # {}
  <2>1. rq' = [rq EXCEPT ![r] = [rq[r] EXCEPT !.todo = @ \ {p}]]
    BY <1>2, <1>3, <1>5 DEF Loops, Go
  <2>2. rq' = [rq EXCEPT ![r] = [rq[r] EXCEPT !.step = "items", !.seen = rq[r].seen, !.todo = rq[r].todo \ {p}]]
    BY <1>0, <2>1 DEF Request
  <2>3. Continues(r, "items", rq[r].seen, rq[r].todo \ {p})
    BY <1>0, <1>1, <2>2 DEF Continues, StepsOf
  <2>4. Moved(r) /\ SameBut(r) /\ rq'[r].step = "items" /\ rq'[r].todo = rq[r].todo \ {p}
    BY <2>3, GoesOn
  <2> QED BY <1>0, <1>1, <1>2, <2>4
<1> QED
  BY <1>4, <1>5

\* A request that dies answers nothing.
LEMMA DieEffect ==
  ASSUME NEW r \in Requests, TypeOK, ShapeInv, Die(r)
  PROVE  Moved(r) /\ rq'[r] = Idle /\ acked' = acked
<1>1. rq' = [rq EXCEPT ![r] = Idle] /\ acked' = acked
  BY DEF Die, Go
<1> QED
  BY <1>1, IdleFacts, MovesTo

------------------------------------------------------------------------------
(* Types. *)

\* Moving one request keeps the shape of all.
LEMMA MovedShape == ASSUME NEW r \in Requests, ShapeInv, Moved(r) PROVE ShapeInv'
<1> SUFFICES ASSUME NEW s \in Requests PROVE Shaped(rq[s])'
  BY DEF ShapeInv
<1>1. CASE s = r
  BY <1>1 DEF Moved
<1>2. CASE s # r
  BY <1>2 DEF Moved, ShapeInv, Shaped
<1> QED
  BY <1>1, <1>2

\* Logging a transaction keeps the type of the transactions.
LEMMA AddTxType ==
  ASSUME TypeOK, NEW u \in Users, NEW type \in TxTypes, NEW n \in Nat, AddTx(u, type, n)
  PROVE  tx' \in [Users -> [TxTypes -> Nat]]
  BY DEF TypeOK, AddTx

\* Switching rows off keeps the type of the memberships.
LEMMA DeactivatedType ==
  ASSUME TypeOK, NEW S, \A i \in S \cap RowIds : members[i] # NoRow
  PROVE  Deactivated(S) \in [RowIds -> Row]
<1> SUFFICES ASSUME NEW i \in RowIds PROVE (IF i \in S THEN [members[i] EXCEPT !.active = FALSE] ELSE members[i]) \in Row
  BY DEF Deactivated
<1>1. members[i] \in Row
  BY DEF TypeOK
<1>2. CASE i \in S
  <2>1. members[i] \in [user : Users, tier : Tiers, active : BOOLEAN]
    BY <1>1, <1>2 DEF Row
  <2> QED BY <1>2, <2>1 DEF Row
<1> QED
  BY <1>1, <1>2

\* Inserting a row keeps the type of the memberships.
LEMMA InsertType ==
  ASSUME TypeOK, NEW r \in Requests, InsertMembership(r)
  PROVE  members' \in [RowIds -> Row]
<1> DEFINE old == members[rq[r].row]
           new == IF old = NoRow THEN [user |-> rq[r].user, tier |-> rq[r].tier, active |-> TRUE]
                                 ELSE [old EXCEPT !.active = TRUE]
<1>1. members' = [members EXCEPT ![rq[r].row] = new]
  BY DEF InsertMembership
<1>2. rq[r].user \in Users /\ rq[r].tier \in Tiers
  BY DEF TypeOK, Request
<1>3. rq[r].row \in RowIds => new \in Row
  <2> SUFFICES ASSUME rq[r].row \in RowIds PROVE new \in Row
    OBVIOUS
  <2>1. old \in Row
    BY DEF TypeOK
  <2>2. old = NoRow \/ old \in [user : Users, tier : Tiers, active : BOOLEAN]
    BY <2>1 DEF Row
  <2>3. CASE old = NoRow
    BY <1>2, <2>3 DEF Row
  <2>4. CASE old # NoRow
    BY <2>2, <2>4 DEF Row
  <2> QED BY <2>3, <2>4
<1> HIDE DEF new
<1> QED
  BY <1>1, <1>3 DEF TypeOK

\* GREATEST(0, n).
LEMMA AtLeastZero ==
  ASSUME NEW n \in Int
  PROVE  Max({0, n}) = IF n < 0 THEN 0 ELSE n
<1>1. \E x \in {0, n} : \A y \in {0, n} : x >= y
  OBVIOUS
<1> QED
  BY <1>1 DEF Max

\* Every step keeps the types.
LEMMA TypeNext ==
  ASSUME NEW r \in Requests, TypeOK, ShapeInv, Step(r), UNCHANGED found
  PROVE  TypeOK'
<1>0. rq[r].user \in Users /\ rq[r].amount \in Nat /\ rq[r].event \in Events \cup {NoRow} /\ rq[r] \in Request
      /\ \A type \in {"deposit", "purchase", "credit", "shop", "refund"} : type \in TxTypes
  BY DEF TypeOK, Request, TxTypes
<1>f. passed' \subseteq Events /\ wallets' \subseteq Users
  BY DEF TypeOK, found
<1>1. ASSUME NEW u \in Users, NEW n \in Amounts, DepositRead(r, u, n) PROVE TypeOK'
  <2>1. UNCHANGED <<balance, tx, members, granted, stock, cart, orders, items, acked, deaths, raced,
                    floored, crossed, late, begun>>
    BY <1>1 DEF DepositRead, Arrives, accounts, membership, shop, bounds, history
  <2>2. rq' \in [Requests -> Request]
    BY <1>1, DepositReadEffect DEF Moved, TypeOK
  <2>3. made' \in 0 .. MaxRequests
    BY <1>1, <1>0, CommerceAssumption DEF DepositRead, Arrives, TypeOK
  <2> QED BY <1>f, <2>1, <2>2, <2>3 DEF TypeOK
<1>2. ASSUME NEW u \in Users, NEW t \in Tiers, SubscribeDeactivate(r, u, t) PROVE TypeOK'
  <2>1. UNCHANGED <<balance, tx, granted, stock, cart, orders, items, acked, deaths, raced, floored,
                    late, begun>>
    BY <1>2 DEF SubscribeDeactivate, Arrives, accounts, membership, shop, bounds, history
  <2>2. rq' \in [Requests -> Request]
    BY <1>2, SubscribeDeactivateEffect DEF Moved, TypeOK
  <2>3. members' \in [RowIds -> Row]
    <3>1. members' = Deactivated(ActiveRows(u))
      BY <1>2 DEF SubscribeDeactivate
    <3> QED BY <3>1, DeactivatedType DEF ActiveRows
  <2>4. made' \in 0 .. MaxRequests
    BY <1>2, <1>0, CommerceAssumption DEF SubscribeDeactivate, Arrives, TypeOK
  <2>5. crossed' \subseteq Users
    BY <1>2, <1>0, CommerceAssumption DEF SubscribeDeactivate, MarkCrossed, Request, Arrives, TypeOK
  <2> QED BY <1>f, <2>1, <2>2, <2>3, <2>4, <2>5 DEF TypeOK
<1>3. ASSUME NEW u \in Users, CancelMembership(r, u) PROVE TypeOK'
  <2>1. UNCHANGED <<balance, tx, granted, stock, cart, orders, items, acked, deaths, raced, floored,
                    crossed, late, begun>>
    BY <1>3 DEF CancelMembership, Arrives, accounts, membership, shop, bounds, history
  <2>2. rq' \in [Requests -> Request]
    BY <1>3 DEF CancelMembership, TypeOK
  <2>3. members' \in [RowIds -> Row]
    <3>1. members' = Deactivated(ActiveRows(u))
      BY <1>3 DEF CancelMembership
    <3> QED BY <3>1, DeactivatedType DEF ActiveRows
  <2>4. made' \in 0 .. MaxRequests
    BY <1>3, <1>0, CommerceAssumption DEF CancelMembership, Arrives, TypeOK
  <2> QED BY <1>f, <2>1, <2>2, <2>3, <2>4 DEF TypeOK
<1>4. ASSUME NEW u \in Users, NEW p \in Products, NEW n \in Quantities, CartRead(r, u, p, n) PROVE TypeOK'
  <2>1. UNCHANGED <<balance, tx, members, granted, stock, cart, orders, items, acked, deaths, raced,
                    floored, crossed, late, begun>>
    BY <1>4 DEF CartRead, Arrives, accounts, membership, shop, bounds, history
  <2>2. rq' \in [Requests -> Request]
    BY <1>4, CartReadEffect DEF Moved, TypeOK
  <2>3. made' \in 0 .. MaxRequests
    BY <1>4, <1>0, CommerceAssumption DEF CartRead, Arrives, TypeOK
  <2> QED BY <1>f, <2>1, <2>2, <2>3 DEF TypeOK
<1>5. ASSUME NEW u \in Users, CartClear(r, u) PROVE TypeOK'
  <2>1. UNCHANGED <<balance, tx, members, granted, stock, orders, items, acked, deaths, raced,
                    floored, crossed, late, begun>>
    BY <1>5 DEF CartClear, Arrives, accounts, membership, shop, bounds, history
  <2>2. rq' \in [Requests -> Request]
    BY <1>5 DEF CartClear, TypeOK
  <2>3. cart' \in [Users -> [Products -> Nat]]
    BY <1>5, <1>0, CommerceAssumption DEF CartClear, NoItems, Request, Arrives, TypeOK
  <2>4. made' \in 0 .. MaxRequests
    BY <1>5, <1>0, CommerceAssumption DEF CartClear, Arrives, TypeOK
  <2> QED BY <1>f, <2>1, <2>2, <2>3, <2>4 DEF TypeOK
<1>6. ASSUME NEW u \in Users, CheckoutRead(r, u) PROVE TypeOK'
  <2>1. UNCHANGED <<balance, tx, members, granted, stock, cart, orders, items, acked, deaths, raced,
                    floored, crossed, late, begun>>
    BY <1>6 DEF CheckoutRead, Arrives, accounts, membership, shop, bounds, history
  <2>2. rq' \in [Requests -> Request]
    BY <1>6, CheckoutReadEffect DEF Moved, TypeOK
  <2>3. made' \in 0 .. MaxRequests
    BY <1>6, <1>0, CommerceAssumption DEF CheckoutRead, Arrives, TypeOK
  <2> QED BY <1>f, <2>1, <2>2, <2>3 DEF TypeOK
<1>7. ASSUME NEW e \in Events, Deliver(r, e) PROVE TypeOK'
  <2>1. UNCHANGED <<balance, tx, members, granted, stock, cart, orders, items, acked, deaths, raced,
                    floored, crossed>>
    BY <1>7 DEF Deliver, Arrives, accounts, membership, shop, bounds, history
  <2>2. rq' \in [Requests -> Request]
    BY <1>7, DeliverEffect DEF Moved, TypeOK
  <2>3. made' \in 0 .. MaxRequests
    <3>1. made' = made + 1 /\ made < MaxRequests
      BY <1>7 DEF Deliver, Arrives
    <3> QED BY <3>1, CommerceAssumption DEF TypeOK
  <2>4. begun' \subseteq Events
    BY <1>7, <1>0, CommerceAssumption DEF Deliver, Arrives, TypeOK
  <2>5. late' \subseteq Subs \cup {NoRow}
    BY <1>7, <1>0, CommerceAssumption DEF Deliver, Subs, Arrives, TypeOK
  <2> QED BY <1>f, <2>1, <2>2, <2>3, <2>4, <2>5 DEF TypeOK
<1>8. ASSUME DepositWrite(r) PROVE TypeOK'
  <2>1. UNCHANGED <<tx, members, granted, stock, cart, orders, items, acked, made, deaths, floored,
                    crossed, late, begun>>
    BY <1>8 DEF DepositWrite, WriteBalance, accounts, membership, shop, bounds, history
  <2>2. rq' \in [Requests -> Request]
    BY <1>8, DepositWriteEffect DEF Moved, TypeOK
  <2>3. balance' \in [Users -> Int]
    BY <1>8, <1>0, CommerceAssumption DEF DepositWrite, WriteBalance, Request, TypeOK
  <2>4. raced' \subseteq Users \X {"write", "debit"}
    BY <1>8, <1>0, CommerceAssumption DEF DepositWrite, WriteBalance, Request, TypeOK
  <2> QED BY <1>f, <2>1, <2>2, <2>3, <2>4 DEF TypeOK
<1>9. ASSUME DepositLog(r) PROVE TypeOK'
  <2>1. UNCHANGED <<balance, members, granted, stock, cart, orders, items, made, deaths, raced,
                    floored, crossed, late, begun>>
    BY <1>9 DEF DepositLog, accounts, membership, shop, bounds, history
  <2>2. rq' \in [Requests -> Request]
    BY <1>9, DepositLogEffect DEF Moved, TypeOK
  <2>3. tx' \in [Users -> [TxTypes -> Nat]]
    <3>1. AddTx(rq[r].user, "deposit", rq[r].amount)
      BY <1>9 DEF DepositLog
    <3> QED BY <1>0, <3>1, AddTxType
  <2>4. acked' \subseteq Events
    BY <1>9, <1>0, DepositLogEffect DEF Acks, Request, TypeOK
  <2> QED BY <1>f, <2>1, <2>2, <2>3, <2>4 DEF TypeOK
<1>10. ASSUME SubscribeRead(r) PROVE TypeOK'
  <2>1. UNCHANGED <<balance, tx, members, granted, stock, cart, orders, items, made, deaths, raced,
                    floored, crossed, late, begun>>
    BY <1>10 DEF SubscribeRead, accounts, membership, shop, bounds, history
  <2>2. rq' \in [Requests -> Request] /\ acked' = acked
    BY <1>10, SubscribeReadEffect DEF Moved, TypeOK
  <2> QED BY <1>f, <2>1, <2>2 DEF TypeOK
<1>11. ASSUME SubscribeWrite(r) PROVE TypeOK'
  <2>1. UNCHANGED <<tx, members, granted, stock, cart, orders, items, acked, made, deaths, floored,
                    crossed, late, begun>>
    BY <1>11 DEF SubscribeWrite, WriteBalance, accounts, membership, shop, bounds, history
  <2>2. rq' \in [Requests -> Request]
    BY <1>11, SubscribeWriteEffect DEF Moved, TypeOK
  <2>3. balance' \in [Users -> Int]
    BY <1>11, <1>0, CommerceAssumption DEF SubscribeWrite, WriteBalance, Request, TypeOK
  <2>4. raced' \subseteq Users \X {"write", "debit"}
    BY <1>11, <1>0, CommerceAssumption DEF SubscribeWrite, WriteBalance, Request, TypeOK
  <2> QED BY <1>f, <2>1, <2>2, <2>3, <2>4 DEF TypeOK
<1>12. ASSUME SubscribeLog(r) PROVE TypeOK'
  <2>1. UNCHANGED <<balance, members, granted, stock, cart, orders, items, acked, made, deaths,
                    raced, floored, crossed, late, begun>>
    BY <1>12 DEF SubscribeLog, accounts, membership, shop, bounds, history
  <2>2. rq' \in [Requests -> Request]
    BY <1>12, SubscribeLogEffect DEF Moved, TypeOK
  <2>3. tx' \in [Users -> [TxTypes -> Nat]]
    <3>1. AddTx(rq[r].user, "purchase", rq[r].amount)
      BY <1>12 DEF SubscribeLog
    <3> QED BY <1>0, <3>1, AddTxType
  <2> QED BY <1>f, <2>1, <2>2, <2>3 DEF TypeOK
<1>13. ASSUME InsertMembership(r) PROVE TypeOK'
  <2>1. UNCHANGED <<balance, tx, granted, stock, cart, orders, items, acked, made, deaths, raced,
                    floored, crossed, late, begun>>
    BY <1>13 DEF InsertMembership, accounts, membership, shop, bounds, history
  <2>2. rq' \in [Requests -> Request]
    BY <1>13, InsertMembershipEffect DEF Moved, TypeOK
  <2>3. members' \in [RowIds -> Row]
    BY <1>13, InsertType
  <2> QED BY <1>f, <2>1, <2>2, <2>3 DEF TypeOK
<1>14. ASSUME Grant(r) PROVE TypeOK'
  <2>1. UNCHANGED <<balance, tx, members, stock, cart, orders, items, made, deaths, raced, floored,
                    crossed, late, begun>>
    BY <1>14 DEF Grant, accounts, membership, shop, bounds, history
  <2>2. rq' \in [Requests -> Request]
    BY <1>14, GrantEffect DEF Moved, TypeOK
  <2>3. granted' \in [Users -> SUBSET UNION {Features[t] : t \in Tiers}]
    <3>1. \/ granted' = granted
          \/ \E f \in UNION {Features[t] : t \in Tiers} : granted' = [granted EXCEPT ![rq[r].user] = @ \cup {f}]
      BY <1>14, GrantEffect
    <3>2. PICK F : F = UNION {Features[t] : t \in Tiers}
      OBVIOUS
    <3>3. granted \in [Users -> SUBSET F]
      BY <3>2 DEF TypeOK
    <3>4. granted' \in [Users -> SUBSET F]
      BY <1>0, <3>1, <3>2, <3>3
    <3> QED BY <3>2, <3>4
  <2>4. acked' \subseteq Events
    <3>1. Acks(r) \/ acked' = acked
      BY <1>14, GrantEffect
    <3> QED BY <1>0, <3>1 DEF Acks, TypeOK
  <2> QED BY <1>f, <2>1, <2>2, <2>3, <2>4 DEF TypeOK
<1>15. ASSUME CartPut(r) PROVE TypeOK'
  <2>1. UNCHANGED <<balance, tx, members, granted, stock, orders, items, made, deaths, raced,
                    floored, crossed, late, begun>>
    BY <1>15 DEF CartPut, accounts, membership, shop, bounds, history
  <2>2. rq' \in [Requests -> Request]
    BY <1>15, CartPutEffect DEF Moved, TypeOK
  <2>3. cart' \in [Users -> [Products -> Nat]]
    <3>1. PICK p \in rq[r].todo : cart' = [cart EXCEPT ![rq[r].user][p] = rq[r].basket[p]]
      BY <1>15 DEF CartPut
    <3>2. p \in Products
      BY <1>15, CartPutEffect DEF ShapeInv, Shaped
    <3>3. rq[r].basket[p] \in Nat /\ cart \in [Users -> [Products -> Nat]]
      BY <1>0, <3>2 DEF Request, TypeOK
    <3> QED BY <1>0, <3>1, <3>2, <3>3
  <2>4. acked' \subseteq Events
    BY <1>15, <1>0, CartPutEffect DEF Acks, Request, TypeOK
  <2> QED BY <1>f, <2>1, <2>2, <2>3, <2>4 DEF TypeOK
<1>16. ASSUME CheckoutBalance(r) PROVE TypeOK'
  <2>1. UNCHANGED <<balance, tx, members, granted, stock, cart, orders, items, made, deaths, raced,
                    floored, crossed, late, begun>>
    BY <1>16 DEF CheckoutBalance, accounts, membership, shop, bounds, history
  <2>2. rq' \in [Requests -> Request] /\ acked' = acked
    BY <1>16, CheckoutBalanceEffect DEF Moved, TypeOK
  <2> QED BY <1>f, <2>1, <2>2 DEF TypeOK
<1>17. ASSUME CheckoutDebit(r) PROVE TypeOK'
  <2>1. UNCHANGED <<tx, members, granted, stock, cart, orders, items, acked, made, deaths, floored,
                    crossed, late, begun>>
    BY <1>17 DEF CheckoutDebit, accounts, membership, shop, bounds, history
  <2>2. rq' \in [Requests -> Request]
    BY <1>17, CheckoutDebitEffect DEF Moved, TypeOK
  <2>3. balance' \in [Users -> Int]
    BY <1>17, <1>0, CommerceAssumption DEF CheckoutDebit, WriteBalance, Request, TypeOK
  <2>4. raced' \subseteq Users \X {"write", "debit"}
    BY <1>17, <1>0, CommerceAssumption DEF CheckoutDebit, WriteBalance, Request, TypeOK
  <2> QED BY <1>f, <2>1, <2>2, <2>3, <2>4 DEF TypeOK
<1>18. ASSUME CheckoutLog(r) PROVE TypeOK'
  <2>1. UNCHANGED <<balance, members, granted, stock, cart, orders, items, acked, made, deaths,
                    raced, floored, crossed, late, begun>>
    BY <1>18 DEF CheckoutLog, accounts, membership, shop, bounds, history
  <2>2. rq' \in [Requests -> Request]
    BY <1>18, CheckoutLogEffect DEF Moved, TypeOK
  <2>3. tx' \in [Users -> [TxTypes -> Nat]]
    <3>1. AddTx(rq[r].user, "shop", rq[r].amount)
      BY <1>18 DEF CheckoutLog
    <3> QED BY <1>0, <3>1, AddTxType
  <2> QED BY <1>f, <2>1, <2>2, <2>3 DEF TypeOK
<1>19. ASSUME CheckoutStock(r) PROVE TypeOK'
  <2>1. UNCHANGED <<balance, tx, members, granted, cart, orders, items, acked, made, deaths, raced,
                    floored, crossed, late, begun>>
    BY <1>19 DEF CheckoutStock, accounts, membership, shop, bounds, history
  <2>2. rq' \in [Requests -> Request]
    BY <1>19, CheckoutStockEffect DEF Moved, TypeOK
  <2>3. stock' \in [Products -> Int]
    <3>1. PICK p \in Products : stock' = [stock EXCEPT ![p] = @ - rq[r].basket[p]]
      BY <1>19, CheckoutStockEffect
    <3>2. rq[r].basket[p] \in Nat /\ stock \in [Products -> Int] /\ stock[p] - rq[r].basket[p] \in Int
      BY <1>0 DEF Request, TypeOK
    <3> QED BY <3>1, <3>2
  <2> QED BY <1>f, <2>1, <2>2, <2>3 DEF TypeOK
<1>20. ASSUME CheckoutOrder(r) PROVE TypeOK'
  <2>1. UNCHANGED <<balance, tx, members, granted, stock, cart, items, acked, made, deaths, raced,
                    floored, crossed, late, begun>>
    BY <1>20 DEF CheckoutOrder, accounts, membership, shop, bounds, history
  <2>2. rq' \in [Requests -> Request]
    BY <1>20, CheckoutOrderEffect DEF Moved, TypeOK
  <2>3. orders' \in [Users -> Nat]
    BY <1>20, <1>0, CommerceAssumption DEF CheckoutOrder, Request, TypeOK
  <2> QED BY <1>f, <2>1, <2>2, <2>3 DEF TypeOK
<1>21. ASSUME CheckoutItem(r) PROVE TypeOK'
  <2>1. UNCHANGED <<balance, tx, members, granted, stock, cart, orders, acked, made, deaths, raced,
                    floored, crossed, late, begun>>
    BY <1>21 DEF CheckoutItem, accounts, membership, shop, bounds, history
  <2>2. rq' \in [Requests -> Request]
    BY <1>21, CheckoutItemEffect DEF Moved, TypeOK
  <2>3. items' \in [Products -> Nat]
    <3>1. PICK p \in Products : items' = [items EXCEPT ![p] = @ + rq[r].basket[p]]
      BY <1>21, CheckoutItemEffect
    <3>2. rq[r].basket[p] \in Nat /\ items \in [Products -> Nat] /\ items[p] + rq[r].basket[p] \in Nat
      BY <1>0 DEF Request, TypeOK
    <3> QED BY <3>1, <3>2
  <2> QED BY <1>f, <2>1, <2>2, <2>3 DEF TypeOK
<1>22. ASSUME CheckoutClear(r) PROVE TypeOK'
  <2>1. UNCHANGED <<balance, tx, members, granted, stock, orders, items, made, deaths, raced,
                    floored, crossed, late, begun>>
    BY <1>22 DEF CheckoutClear, accounts, membership, shop, bounds, history
  <2>2. rq' \in [Requests -> Request]
    BY <1>22, CheckoutClearEffect DEF Moved, TypeOK
  <2>3. cart' \in [Users -> [Products -> Nat]]
    BY <1>22, <1>0, CommerceAssumption DEF CheckoutClear, NoItems, Request, TypeOK
  <2>4. acked' \subseteq Events
    BY <1>22, <1>0, CheckoutClearEffect DEF Acks, Request, TypeOK
  <2> QED BY <1>f, <2>1, <2>2, <2>3, <2>4 DEF TypeOK
<1>23. ASSUME TopUpCredit(r) PROVE TypeOK'
  <2>1. UNCHANGED <<tx, members, granted, stock, cart, orders, items, acked, made, deaths, raced,
                    floored, crossed, late, begun>>
    BY <1>23 DEF TopUpCredit, accounts, membership, shop, bounds, history
  <2>2. rq' \in [Requests -> Request]
    BY <1>23, TopUpCreditEffect DEF Moved, TypeOK
  <2>3. balance' \in [Users -> Int]
    BY <1>23, <1>0, CommerceAssumption DEF TopUpCredit, WriteBalance, Request, TypeOK
  <2> QED BY <1>f, <2>1, <2>2, <2>3 DEF TypeOK
<1>24. ASSUME TopUpLog(r) PROVE TypeOK'
  <2>1. UNCHANGED <<balance, members, granted, stock, cart, orders, items, made, deaths, raced,
                    floored, crossed, late, begun>>
    BY <1>24 DEF TopUpLog, accounts, membership, shop, bounds, history
  <2>2. rq' \in [Requests -> Request]
    BY <1>24, TopUpLogEffect DEF Moved, TypeOK
  <2>3. tx' \in [Users -> [TxTypes -> Nat]]
    <3>1. AddTx(rq[r].user, "credit", rq[r].amount)
      BY <1>24 DEF TopUpLog
    <3> QED BY <1>0, <3>1, AddTxType
  <2>4. acked' \subseteq Events
    BY <1>24, <1>0, TopUpLogEffect DEF Acks, Request, TypeOK
  <2> QED BY <1>f, <2>1, <2>2, <2>3, <2>4 DEF TypeOK
<1>25. ASSUME ActivateDeactivate(r) PROVE TypeOK'
  <2>1. UNCHANGED <<balance, tx, granted, stock, cart, orders, items, acked, made, deaths, raced,
                    floored, late, begun>>
    BY <1>25 DEF ActivateDeactivate, accounts, membership, shop, bounds, history
  <2>2. rq' \in [Requests -> Request]
    BY <1>25, ActivateDeactivateEffect DEF Moved, TypeOK
  <2>3. members' \in [RowIds -> Row]
    <3>1. members' = Deactivated(ActiveRows(rq[r].user))
      BY <1>25 DEF ActivateDeactivate
    <3> QED BY <3>1, DeactivatedType DEF ActiveRows
  <2>4. crossed' \subseteq Users
    BY <1>25, <1>0, CommerceAssumption DEF ActivateDeactivate, MarkCrossed, Request, TypeOK
  <2> QED BY <1>f, <2>1, <2>2, <2>3, <2>4 DEF TypeOK
<1>26. ASSUME DeactivateSubscription(r) PROVE TypeOK'
  <2>1. UNCHANGED <<balance, tx, granted, stock, cart, orders, items, made, deaths, raced, floored,
                    crossed, late, begun>>
    BY <1>26 DEF DeactivateSubscription, accounts, membership, shop, bounds, history
  <2>2. rq' \in [Requests -> Request]
    BY <1>26, DeactivateSubscriptionEffect DEF Moved, TypeOK
  <2>3. members' \in [RowIds -> Row]
    <3>1. members' = Deactivated({rq[r].row} \cap {i \in RowIds : members[i] # NoRow})
      BY <1>26 DEF DeactivateSubscription
    <3> QED BY <3>1, DeactivatedType DEF ActiveRows
  <2>4. acked' \subseteq Events
    BY <1>26, <1>0, DeactivateSubscriptionEffect DEF Acks, Request, TypeOK
  <2> QED BY <1>f, <2>1, <2>2, <2>3, <2>4 DEF TypeOK
<1>27. ASSUME RefundDebit(r) PROVE TypeOK'
  <2>1. UNCHANGED <<tx, members, granted, stock, cart, orders, items, acked, made, deaths, raced,
                    crossed, late, begun>>
    BY <1>27 DEF RefundDebit, accounts, membership, shop, bounds, history
  <2>2. rq' \in [Requests -> Request]
    BY <1>27, RefundDebitEffect DEF Moved, TypeOK
  <2>3. balance' \in [Users -> Int]
    <3>1. balance' = [balance EXCEPT ![rq[r].user] = Max({0, @ - rq[r].amount})]
      BY <1>27 DEF RefundDebit
    <3>2. balance[rq[r].user] - rq[r].amount \in Int /\ balance \in [Users -> Int]
      BY <1>0 DEF TypeOK
    <3>3. Max({0, balance[rq[r].user] - rq[r].amount}) \in Int
      BY <3>2, AtLeastZero
    <3> QED BY <3>1, <3>2, <3>3
  <2>4. floored' \subseteq Users
    BY <1>27, <1>0, CommerceAssumption DEF RefundDebit, Request, TypeOK
  <2> QED BY <1>f, <2>1, <2>2, <2>3, <2>4 DEF TypeOK
<1>28. ASSUME RefundLog(r) PROVE TypeOK'
  <2>1. UNCHANGED <<balance, members, granted, stock, cart, orders, items, made, deaths, raced,
                    floored, crossed, late, begun>>
    BY <1>28 DEF RefundLog, accounts, membership, shop, bounds, history
  <2>2. rq' \in [Requests -> Request]
    BY <1>28, RefundLogEffect DEF Moved, TypeOK
  <2>3. tx' \in [Users -> [TxTypes -> Nat]]
    <3>1. AddTx(rq[r].user, "refund", rq[r].amount)
      BY <1>28 DEF RefundLog
    <3> QED BY <1>0, <3>1, AddTxType
  <2>4. acked' \subseteq Events
    BY <1>28, <1>0, RefundLogEffect DEF Acks, Request, TypeOK
  <2> QED BY <1>f, <2>1, <2>2, <2>3, <2>4 DEF TypeOK
<1>29. ASSUME Die(r) PROVE TypeOK'
  <2>1. UNCHANGED <<balance, tx, members, granted, stock, cart, orders, items, acked, made, raced,
                    floored, crossed, late, begun>>
    BY <1>29 DEF Die, accounts, membership, shop, bounds, history
  <2>2. rq' \in [Requests -> Request]
    BY <1>29, DieEffect DEF Moved, TypeOK
  <2>3. deaths' \in 0 .. MaxDeaths
    BY <1>29, <1>0, CommerceAssumption DEF Die, TypeOK
  <2> QED BY <1>f, <2>1, <2>2, <2>3 DEF TypeOK
<1> QED
  BY <1>1, <1>2, <1>3, <1>4, <1>5, <1>6, <1>7, <1>8, <1>9, <1>10, <1>11, <1>12, <1>13, <1>14, <1>15,
     <1>16, <1>17, <1>18, <1>19, <1>20, <1>21, <1>22, <1>23, <1>24, <1>25, <1>26, <1>27, <1>28,
     <1>29 DEF Step, UserRequest, Statement

------------------------------------------------------------------------------
(* What requests have still to log, to order, to insert and to take from the
   stock: the terms by which a step leaves the sums of the tables apart. *)

\* What a request has moved in u's balance and not yet logged; the invariant of
\* the wallet is the equation of BalanceIsSumOfTxs with it.
Owed(q, u) == IF q.user # u \/ q.step # "log" THEN 0
              ELSE IF q.op \in {"deposit", "topup"} THEN q.amount ELSE -q.amount
Owes(u) == SumOf([r \in Requests |-> Owed(rq[r], u)], Requests)
WalletInv == deaths = 0 => \A u \in Users : <<u, "write">> \in raced \/ u \in floored \/ balance[u] = TxSum(u) + Owes(u)

\* What a request of u has paid and not yet ordered, or not yet inserted.
Ordering(q, u) == IF q.user = u /\ q.op = "checkout" /\ q.step \in {"stock", "order"} THEN q.amount ELSE 0
Joining(q, u) == IF q.user = u /\ q.op = "subscribe" /\ q.step = "insert" THEN q.amount ELSE 0
AllOrdering(u) == SumOf([r \in Requests |-> Ordering(rq[r], u)], Requests)
AllJoining(u) == SumOf([r \in Requests |-> Joining(rq[r], u)], Requests)
PaidInv == \A u \in Users : /\ orders[u] + AllOrdering(u) <= tx[u]["shop"]
                            /\ PricesPaid(u) + AllJoining(u) <= tx[u]["purchase"]
                            /\ deaths = 0 => /\ orders[u] + AllOrdering(u) = tx[u]["shop"]
                                             /\ PricesPaid(u) + AllJoining(u) = tx[u]["purchase"]

\* How many of a product a checkout has taken from the stock and not yet sold.
Taken(q, p) == IF \/ q.op # "checkout"
                  \/ q.step \notin {"stock", "order", "items"}
                  \/ q.step = "stock" /\ p \in q.todo
                  \/ q.step = "items" /\ p \notin q.todo THEN 0 ELSE q.basket[p]
InHand(p) == SumOf([r \in Requests |-> Taken(rq[r], p)], Requests)
StockInv == \A p \in Products : /\ stock[p] + items[p] + InHand(p) <= Stock0[p]
                                /\ deaths = 0 => stock[p] + items[p] + InHand(p) = Stock0[p]

\* The terms of the sums are integers.
LEMMA TermTypes ==
  ASSUME NEW q \in Request
  PROVE  /\ \A u \in Users : Owed(q, u) \in Int /\ Ordering(q, u) \in Nat /\ Joining(q, u) \in Nat
         /\ \A p \in Products : Taken(q, p) \in Nat
<1>1. q.amount \in Nat /\ \A p \in Products : q.basket[p] \in Nat
  BY DEF Request
<1>2. -q.amount \in Int
  BY <1>1
<1> QED
  BY <1>1, <1>2 DEF Owed, Ordering, Joining, Taken

\* When one request moves, what is to be logged changes by its term.
LEMMA OwesMoves ==
  ASSUME NEW r \in Requests, TypeOK, Moved(r), NEW u \in Users
  PROVE  Owes(u) \in Int /\ Owes(u)' = Owes(u) - Owed(rq[r], u) + Owed(rq'[r], u)
<1> DEFINE f == [s \in Requests |-> Owed(rq[s], u)]
           g == [s \in Requests |-> Owed(rq'[s], u)]
<1>1. \A s \in Requests : f[s] \in Int /\ g[s] \in Int
  BY TermTypes DEF TypeOK, Moved
<1>2. \A s \in Requests \ {r} : f[s] = g[s]
  BY DEF Moved
<1>3. f[r] = Owed(rq[r], u) /\ g[r] = Owed(rq'[r], u)
  OBVIOUS
<1>4. Owes(u) = SumOf(f, Requests) /\ Owes(u)' = SumOf(g, Requests)
  BY DEF Owes
<1> HIDE DEF f, g
<1>5. IsFiniteSet(Requests)
  BY CommerceAssumption
<1>6. SumOf(g, Requests) = SumOf(f, Requests) - f[r] + g[r]
  BY <1>1, <1>2, <1>5, SumUpdate
<1>7. SumOf(f, Requests) \in Int
  BY <1>1, <1>5, SumTypeAndSplit
<1> QED
  BY <1>3, <1>4, <1>6, <1>7

\* When one request moves, what is to be ordered changes by its term.
LEMMA OrderingMoves ==
  ASSUME NEW r \in Requests, TypeOK, Moved(r), NEW u \in Users
  PROVE  AllOrdering(u) \in Int /\ AllOrdering(u)' = AllOrdering(u) - Ordering(rq[r], u) + Ordering(rq'[r], u)
<1> DEFINE f == [s \in Requests |-> Ordering(rq[s], u)]
           g == [s \in Requests |-> Ordering(rq'[s], u)]
<1>1. \A s \in Requests : f[s] \in Int /\ g[s] \in Int
  BY TermTypes DEF TypeOK, Moved
<1>2. \A s \in Requests \ {r} : f[s] = g[s]
  BY DEF Moved
<1>3. f[r] = Ordering(rq[r], u) /\ g[r] = Ordering(rq'[r], u)
  OBVIOUS
<1>4. AllOrdering(u) = SumOf(f, Requests) /\ AllOrdering(u)' = SumOf(g, Requests)
  BY DEF AllOrdering
<1> HIDE DEF f, g
<1>5. IsFiniteSet(Requests)
  BY CommerceAssumption
<1>6. SumOf(g, Requests) = SumOf(f, Requests) - f[r] + g[r]
  BY <1>1, <1>2, <1>5, SumUpdate
<1>7. SumOf(f, Requests) \in Int
  BY <1>1, <1>5, SumTypeAndSplit
<1> QED
  BY <1>3, <1>4, <1>6, <1>7

\* When one request moves, what is to be inserted changes by its term.
LEMMA JoiningMoves ==
  ASSUME NEW r \in Requests, TypeOK, Moved(r), NEW u \in Users
  PROVE  AllJoining(u) \in Int /\ AllJoining(u)' = AllJoining(u) - Joining(rq[r], u) + Joining(rq'[r], u)
<1> DEFINE f == [s \in Requests |-> Joining(rq[s], u)]
           g == [s \in Requests |-> Joining(rq'[s], u)]
<1>1. \A s \in Requests : f[s] \in Int /\ g[s] \in Int
  BY TermTypes DEF TypeOK, Moved
<1>2. \A s \in Requests \ {r} : f[s] = g[s]
  BY DEF Moved
<1>3. f[r] = Joining(rq[r], u) /\ g[r] = Joining(rq'[r], u)
  OBVIOUS
<1>4. AllJoining(u) = SumOf(f, Requests) /\ AllJoining(u)' = SumOf(g, Requests)
  BY DEF AllJoining
<1> HIDE DEF f, g
<1>5. IsFiniteSet(Requests)
  BY CommerceAssumption
<1>6. SumOf(g, Requests) = SumOf(f, Requests) - f[r] + g[r]
  BY <1>1, <1>2, <1>5, SumUpdate
<1>7. SumOf(f, Requests) \in Int
  BY <1>1, <1>5, SumTypeAndSplit
<1> QED
  BY <1>3, <1>4, <1>6, <1>7

\* When one request moves, what is in hand of a product changes by its term.
LEMMA InHandMoves ==
  ASSUME NEW r \in Requests, TypeOK, Moved(r), NEW p \in Products
  PROVE  InHand(p) \in Int /\ InHand(p)' = InHand(p) - Taken(rq[r], p) + Taken(rq'[r], p)
<1> DEFINE f == [s \in Requests |-> Taken(rq[s], p)]
           g == [s \in Requests |-> Taken(rq'[s], p)]
<1>1. \A s \in Requests : f[s] \in Int /\ g[s] \in Int
  BY TermTypes DEF TypeOK, Moved
<1>2. \A s \in Requests \ {r} : f[s] = g[s]
  BY DEF Moved
<1>3. f[r] = Taken(rq[r], p) /\ g[r] = Taken(rq'[r], p)
  OBVIOUS
<1>4. InHand(p) = SumOf(f, Requests) /\ InHand(p)' = SumOf(g, Requests)
  BY DEF InHand
<1> HIDE DEF f, g
<1>5. IsFiniteSet(Requests)
  BY CommerceAssumption
<1>6. SumOf(g, Requests) = SumOf(f, Requests) - f[r] + g[r]
  BY <1>1, <1>2, <1>5, SumUpdate
<1>7. SumOf(f, Requests) \in Int
  BY <1>1, <1>5, SumTypeAndSplit
<1> QED
  BY <1>3, <1>4, <1>6, <1>7

\* A step keeps the invariant of the wallet if it keeps the difference between
\* balance and transactions, counted with what its request has yet to log.
LEMMA WalletStep ==
  ASSUME NEW r \in Requests, TypeOK, TypeOK', WalletInv, Moved(r), deaths' = deaths,
         raced \subseteq raced', floored \subseteq floored',
         \A u \in Users : \/ <<u, "write">> \in raced' \/ u \in floored'
                          \/ balance'[u] - TxSum(u)' - Owed(rq'[r], u) = balance[u] - TxSum(u) - Owed(rq[r], u)
  PROVE  WalletInv'
<1> SUFFICES ASSUME deaths' = 0, NEW u \in Users, <<u, "write">> \notin raced', u \notin floored'
             PROVE  balance'[u] = TxSum(u)' + Owes(u)'
  BY DEF WalletInv
<1>1. balance[u] = TxSum(u) + Owes(u)
  BY DEF WalletInv
<1>2. Owes(u) \in Int /\ Owes(u)' = Owes(u) - Owed(rq[r], u) + Owed(rq'[r], u)
  BY OwesMoves
<1>3. Owed(rq[r], u) \in Int /\ Owed(rq'[r], u) \in Int
  BY TermTypes DEF TypeOK
<1>4. balance[u] \in Int /\ balance'[u] \in Int
  BY DEF TypeOK
<1>5. tx[u] \in [TxTypes -> Nat] /\ tx'[u] \in [TxTypes -> Nat]
  BY DEF TypeOK
<1>6. TxSum(u) \in Int /\ TxSum(u)' \in Int
  BY <1>5 DEF TxSum, TxTypes
<1>7. balance'[u] - TxSum(u)' - Owed(rq'[r], u) = balance[u] - TxSum(u) - Owed(rq[r], u)
  OBVIOUS
<1> HIDE DEF TxSum
<1> QED
  BY <1>1, <1>2, <1>3, <1>4, <1>6, <1>7

\* By how much the goods of r's user lag behind the payments, but for what r has to do.
OrderLag(r, u) == orders[u] + Ordering(rq[r], u) - tx[u]["shop"]
JoinLag(r, u) == PricesPaid(u) + Joining(rq[r], u) - tx[u]["purchase"]

\* A step keeps the payments ahead of the goods if it does so for its own request,
\* and even with them if that request does not die.
LEMMA PaidStep ==
  ASSUME NEW r \in Requests, TypeOK, TypeOK', PaidInv, Moved(r), deaths' = 0 => deaths = 0,
         \A u \in Users : /\ PricesPaid(u) \in Int /\ PricesPaid(u)' \in Int
                          /\ OrderLag(r, u)' <= OrderLag(r, u) /\ JoinLag(r, u)' <= JoinLag(r, u)
                          /\ deaths' = 0 => OrderLag(r, u)' = OrderLag(r, u) /\ JoinLag(r, u)' = JoinLag(r, u)
  PROVE  PaidInv'
<1> SUFFICES ASSUME NEW u \in Users
             PROVE  /\ orders'[u] + AllOrdering(u)' <= tx'[u]["shop"]
                    /\ PricesPaid(u)' + AllJoining(u)' <= tx'[u]["purchase"]
                    /\ deaths' = 0 => /\ orders'[u] + AllOrdering(u)' = tx'[u]["shop"]
                                      /\ PricesPaid(u)' + AllJoining(u)' = tx'[u]["purchase"]
  BY DEF PaidInv
<1>1. /\ orders[u] + AllOrdering(u) <= tx[u]["shop"] /\ PricesPaid(u) + AllJoining(u) <= tx[u]["purchase"]
      /\ deaths' = 0 => /\ orders[u] + AllOrdering(u) = tx[u]["shop"]
                        /\ PricesPaid(u) + AllJoining(u) = tx[u]["purchase"]
  BY DEF PaidInv
<1>2. AllOrdering(u) \in Int /\ AllOrdering(u)' = AllOrdering(u) - Ordering(rq[r], u) + Ordering(rq'[r], u)
  BY OrderingMoves
<1>3. AllJoining(u) \in Int /\ AllJoining(u)' = AllJoining(u) - Joining(rq[r], u) + Joining(rq'[r], u)
  BY JoiningMoves
<1>4. /\ Ordering(rq[r], u) \in Int /\ Ordering(rq'[r], u) \in Int
      /\ Joining(rq[r], u) \in Int /\ Joining(rq'[r], u) \in Int
  BY TermTypes DEF TypeOK
<1>5. tx[u] \in [TxTypes -> Nat] /\ tx'[u] \in [TxTypes -> Nat] /\ orders[u] \in Int /\ orders'[u] \in Int
  BY DEF TypeOK
<1>6. tx[u]["shop"] \in Int /\ tx'[u]["shop"] \in Int /\ tx[u]["purchase"] \in Int /\ tx'[u]["purchase"] \in Int
  BY <1>5 DEF TxTypes
<1>7. /\ orders'[u] + AllOrdering(u)' <= tx'[u]["shop"]
      /\ deaths' = 0 => orders'[u] + AllOrdering(u)' = tx'[u]["shop"]
  BY <1>1, <1>2, <1>4, <1>5, <1>6 DEF OrderLag
<1>8. /\ PricesPaid(u)' + AllJoining(u)' <= tx'[u]["purchase"]
      /\ deaths' = 0 => PricesPaid(u)' + AllJoining(u)' = tx'[u]["purchase"]
  <2>1. /\ PricesPaid(u) \in Int /\ PricesPaid(u)' \in Int
        /\ PricesPaid(u)' + Joining(rq'[r], u) - tx'[u]["purchase"] <= PricesPaid(u) + Joining(rq[r], u) - tx[u]["purchase"]
        /\ deaths' = 0 => PricesPaid(u)' + Joining(rq'[r], u) - tx'[u]["purchase"]
                            = PricesPaid(u) + Joining(rq[r], u) - tx[u]["purchase"]
    BY DEF JoinLag
  <2> QED BY <1>1, <1>3, <1>4, <1>6, <2>1
<1> QED
  BY <1>7, <1>8

\* A step keeps the stock if it keeps the sum of stock, items and what its
\* request has in hand, or lowers it when a request died.
LEMMA StockStep ==
  ASSUME NEW r \in Requests, TypeOK, TypeOK', StockInv, Moved(r),
         deaths' = 0 => deaths = 0,
         \A p \in Products :
            /\ stock'[p] + items'[p] + Taken(rq'[r], p) <= stock[p] + items[p] + Taken(rq[r], p)
            /\ deaths' = 0 => stock'[p] + items'[p] + Taken(rq'[r], p) = stock[p] + items[p] + Taken(rq[r], p)
  PROVE  StockInv'
<1> SUFFICES ASSUME NEW p \in Products
             PROVE  /\ stock'[p] + items'[p] + InHand(p)' <= Stock0[p]
                    /\ deaths' = 0 => stock'[p] + items'[p] + InHand(p)' = Stock0[p]
  BY DEF StockInv
<1>1. /\ stock[p] + items[p] + InHand(p) <= Stock0[p]
      /\ deaths = 0 => stock[p] + items[p] + InHand(p) = Stock0[p]
  BY DEF StockInv
<1>2. InHand(p) \in Int /\ InHand(p)' = InHand(p) - Taken(rq[r], p) + Taken(rq'[r], p)
  BY InHandMoves
<1>3. Taken(rq[r], p) \in Int /\ Taken(rq'[r], p) \in Int
  BY TermTypes DEF TypeOK
<1>4. stock[p] \in Int /\ stock'[p] \in Int /\ items[p] \in Int /\ items'[p] \in Int /\ Stock0[p] \in Int
  BY CommerceAssumption DEF TypeOK
<1> QED
  BY <1>1, <1>2, <1>3, <1>4

------------------------------------------------------------------------------
(* The wallet: balances and transactions. *)

\* A step that leaves the requests alone.
LEMMA StillMoves ==
  ASSUME NEW r \in Requests, TypeOK, ShapeInv, rq' = rq
  PROVE  Moved(r) /\ rq'[r] = rq[r]
  BY DEF Moved, TypeOK, ShapeInv, Shaped

\* The sum of a wallet's transactions is an integer.
LEMMA TxSumType ==
  ASSUME TypeOK, NEW u \in Users
  PROVE  TxSum(u) \in Int
<1>1. tx[u] \in [TxTypes -> Nat]
  BY DEF TypeOK
<1> QED
  BY <1>1 DEF TxSum, TxTypes

\* A logged transaction adds to the sum or takes from it, by its type.
LEMMA TxSumLogged ==
  ASSUME TypeOK, NEW u \in Users, NEW n \in Nat, NEW type \in TxTypes, tx' = [tx EXCEPT ![u][type] = @ + n]
  PROVE  TxSum(u)' = IF type \in {"deposit", "credit"} THEN TxSum(u) + n ELSE TxSum(u) - n
<1>1. tx[u] \in [TxTypes -> Nat] /\ tx'[u] = [tx[u] EXCEPT ![type] = @ + n]
  BY DEF TypeOK
<1> QED
  BY <1>1 DEF TxSum, TxTypes

\* A step that touches neither the wallet nor what is to be logged.
LEMMA WalletQuiet ==
  ASSUME NEW r \in Requests, TypeOK, TypeOK', WalletInv, Moved(r), UNCHANGED <<balance, tx, raced,
                                                                               floored, deaths>>,
         rq[r].step # "log", rq'[r].step # "log"
  PROVE  WalletInv'
<1>1. ASSUME NEW u \in Users
      PROVE  balance'[u] - TxSum(u)' - Owed(rq'[r], u) = balance[u] - TxSum(u) - Owed(rq[r], u)
  BY DEF Owed, TxSum
<1>2. raced \subseteq raced' /\ floored \subseteq floored' /\ deaths' = deaths
  OBVIOUS
<1> QED
  BY <1>1, <1>2, WalletStep

\* Every step keeps the equation of the wallet, short of the races it records.
LEMMA WalletNext ==
  ASSUME NEW r \in Requests, TypeOK, TypeOK', ShapeInv, WalletInv,
         Step(r)
  PROVE  WalletInv'
<1>0. rq[r].user \in Users /\ rq[r].amount \in Nat /\ rq[r].seen \in Int
      /\ \A type \in {"deposit", "purchase", "credit", "shop", "refund"} : type \in TxTypes
  BY DEF TypeOK, Request, TxTypes
<1>1. ASSUME NEW u \in Users, NEW n \in Amounts, DepositRead(r, u, n) PROVE WalletInv'
  <2>1. UNCHANGED <<balance, tx, raced, floored, deaths>>
    BY <1>1 DEF DepositRead, Arrives, accounts, membership, shop, bounds, history
  <2>2. Moved(r) /\ rq[r].step # "log" /\ rq'[r].step # "log"
    BY <1>1, DepositReadEffect, IdleFacts
  <2> QED BY <2>1, <2>2, WalletQuiet
<1>2. ASSUME NEW u \in Users, NEW t \in Tiers, SubscribeDeactivate(r, u, t) PROVE WalletInv'
  <2>1. UNCHANGED <<balance, tx, raced, floored, deaths>>
    BY <1>2 DEF SubscribeDeactivate, Arrives, accounts, membership, shop, bounds, history
  <2>2. Moved(r) /\ rq[r].step # "log" /\ rq'[r].step # "log"
    BY <1>2, SubscribeDeactivateEffect, IdleFacts
  <2> QED BY <2>1, <2>2, WalletQuiet
<1>3. ASSUME NEW u \in Users, CancelMembership(r, u) PROVE WalletInv'
  <2>1. UNCHANGED <<balance, tx, raced, floored, deaths>>
    BY <1>3 DEF CancelMembership, Arrives, accounts, membership, shop, bounds, history
  <2>2. Moved(r) /\ rq[r].step # "log" /\ rq'[r].step # "log"
    <3>1. rq' = rq /\ rq[r] = Idle
      BY <1>3 DEF CancelMembership, Arrives
    <3> QED BY <3>1, StillMoves, IdleFacts
  <2> QED BY <2>1, <2>2, WalletQuiet
<1>4. ASSUME NEW u \in Users, NEW p \in Products, NEW n \in Quantities, CartRead(r, u, p, n) PROVE WalletInv'
  <2>1. UNCHANGED <<balance, tx, raced, floored, deaths>>
    BY <1>4 DEF CartRead, Arrives, accounts, membership, shop, bounds, history
  <2>2. Moved(r) /\ rq[r].step # "log" /\ rq'[r].step # "log"
    <3>1. rq[r] = Idle
      BY <1>4 DEF CartRead, Arrives
    <3> QED BY <1>4, <3>1, CartReadEffect, StillMoves, IdleFacts
  <2> QED BY <2>1, <2>2, WalletQuiet
<1>5. ASSUME NEW u \in Users, CartClear(r, u) PROVE WalletInv'
  <2>1. UNCHANGED <<balance, tx, raced, floored, deaths>>
    BY <1>5 DEF CartClear, Arrives, accounts, membership, shop, bounds, history
  <2>2. Moved(r) /\ rq[r].step # "log" /\ rq'[r].step # "log"
    <3>1. rq' = rq /\ rq[r] = Idle
      BY <1>5 DEF CartClear, Arrives
    <3> QED BY <3>1, StillMoves, IdleFacts
  <2> QED BY <2>1, <2>2, WalletQuiet
<1>6. ASSUME NEW u \in Users, CheckoutRead(r, u) PROVE WalletInv'
  <2>1. UNCHANGED <<balance, tx, raced, floored, deaths>>
    BY <1>6 DEF CheckoutRead, Arrives, accounts, membership, shop, bounds, history
  <2>2. Moved(r) /\ rq[r].step # "log" /\ rq'[r].step # "log"
    <3>1. rq[r] = Idle
      BY <1>6 DEF CheckoutRead, Arrives
    <3> QED BY <1>6, <3>1, CheckoutReadEffect, StillMoves, IdleFacts
  <2> QED BY <2>1, <2>2, WalletQuiet
<1>7. ASSUME NEW e \in Events, Deliver(r, e) PROVE WalletInv'
  <2>1. UNCHANGED <<balance, tx, raced, floored, deaths>>
    BY <1>7 DEF Deliver, Arrives, accounts, membership, shop, bounds, history
  <2>2. Moved(r) /\ rq[r].step # "log" /\ rq'[r].step # "log"
    BY <1>7, DeliverEffect, IdleFacts
  <2> QED BY <2>1, <2>2, WalletQuiet
<1>8. ASSUME DepositWrite(r) PROVE WalletInv'
  <2>1. /\ UNCHANGED <<tx, floored,
                       deaths>> /\ balance' = [balance EXCEPT ![rq[r].user] = rq[r].seen + rq[r].amount]
        /\ raced' = IF balance[rq[r].user] # rq[r].seen THEN raced \cup {<<rq[r].user, "write">>} ELSE raced
    BY <1>8 DEF DepositWrite, WriteBalance, accounts, membership, shop, bounds, history
  <2>2. /\ Moved(r) /\ rq[r].op = "deposit" /\ rq[r].step = "write" /\ rq'[r].op = "deposit" /\ rq'[r].step = "log"
        /\ rq'[r].user = rq[r].user /\ rq'[r].amount = rq[r].amount
    BY <1>8, DepositWriteEffect DEF SameBut
  <2>3. ASSUME NEW u \in Users, ~ (<<u, "write">> \in raced' \/ u \in floored')
        PROVE  balance'[u] - TxSum(u)' - Owed(rq'[r], u) = balance[u] - TxSum(u) - Owed(rq[r], u)
    <3>1. TxSum(u)' = TxSum(u) /\ TxSum(u) \in Int /\ balance[u] \in Int
      BY <2>1, TxSumType DEF TxSum, TypeOK
    <3>2. CASE u = rq[r].user
      <4>1. rq[r].seen = balance[u]
        BY <2>1, <2>3, <3>2
      <4>2. balance'[u] = rq[r].seen + rq[r].amount
        BY <2>1, <3>2 DEF TypeOK
      <4>3. Owed(rq'[r], u) = rq[r].amount /\ Owed(rq[r], u) = 0
        BY <2>2, <3>2 DEF Owed
      <4> QED BY <1>0, <3>1, <4>1, <4>2, <4>3
    <3>3. CASE u # rq[r].user
      <4>1. balance'[u] = balance[u] /\ Owed(rq'[r], u) = 0 /\ Owed(rq[r], u) = 0
        BY <2>1, <2>2, <3>3 DEF Owed, TypeOK
      <4> QED BY <3>1, <4>1
    <3> QED BY <3>2, <3>3
  <2>4. raced \subseteq raced' /\ floored \subseteq floored' /\ deaths' = deaths
    BY <2>1
  <2> HIDE DEF TxSum
  <2> QED BY <2>2, <2>3, <2>4, WalletStep
<1>9. ASSUME DepositLog(r) PROVE WalletInv'
  <2>1. UNCHANGED <<balance, raced, floored,
                    deaths>> /\ tx' = [tx EXCEPT ![rq[r].user]["deposit"] = @ + rq[r].amount]
    BY <1>9 DEF DepositLog, AddTx, accounts, membership, shop, bounds, history
  <2>2. Moved(r) /\ rq[r].op = "deposit" /\ rq[r].step = "log" /\ rq'[r].step # "log"
    BY <1>9, DepositLogEffect, IdleFacts
  <2>3. ASSUME NEW u \in Users
        PROVE  balance'[u] - TxSum(u)' - Owed(rq'[r], u) = balance[u] - TxSum(u) - Owed(rq[r], u)
    <3>1. TxSum(u) \in Int /\ balance'[u] = balance[u] /\ balance[u] \in Int /\ Owed(rq'[r], u) = 0
      BY <2>1, <2>2, TxSumType DEF TypeOK, Owed
    <3>2. CASE u = rq[r].user
      <4>1. TxSum(u)' = TxSum(u) + rq[r].amount
        BY <1>0, <2>1, <3>2, TxSumLogged
      <4>2. Owed(rq[r], u) = rq[r].amount
        BY <2>2, <3>2 DEF Owed
      <4> QED BY <1>0, <3>1, <4>1, <4>2
    <3>3. CASE u # rq[r].user
      <4>1. TxSum(u)' = TxSum(u) /\ Owed(rq[r], u) = 0
        BY <2>1, <3>3 DEF Owed, TxSum, TypeOK
      <4> QED BY <3>1, <4>1
    <3> QED BY <3>2, <3>3
  <2>4. raced \subseteq raced' /\ floored \subseteq floored' /\ deaths' = deaths
    BY <2>1
  <2> HIDE DEF TxSum
  <2> QED BY <2>2, <2>3, <2>4, WalletStep
<1>10. ASSUME SubscribeRead(r) PROVE WalletInv'
  <2>1. UNCHANGED <<balance, tx, raced, floored, deaths>>
    BY <1>10 DEF SubscribeRead, accounts, membership, shop, bounds, history
  <2>2. Moved(r) /\ rq[r].step # "log" /\ rq'[r].step # "log"
    BY <1>10, SubscribeReadEffect, IdleFacts
  <2> QED BY <2>1, <2>2, WalletQuiet
<1>11. ASSUME SubscribeWrite(r) PROVE WalletInv'
  <2>1. /\ UNCHANGED <<tx, floored,
                       deaths>> /\ balance' = [balance EXCEPT ![rq[r].user] = rq[r].seen - rq[r].amount]
        /\ raced' = IF balance[rq[r].user] # rq[r].seen THEN raced \cup {<<rq[r].user, "write">>} ELSE raced
    BY <1>11 DEF SubscribeWrite, WriteBalance, accounts, membership, shop, bounds, history
  <2>2. /\ Moved(r) /\ rq[r].op = "subscribe" /\ rq[r].step = "write" /\ rq'[r].op = "subscribe" /\ rq'[r].step = "log"
        /\ rq'[r].user = rq[r].user /\ rq'[r].amount = rq[r].amount
    BY <1>11, SubscribeWriteEffect DEF SameBut
  <2>3. ASSUME NEW u \in Users, ~ (<<u, "write">> \in raced' \/ u \in floored')
        PROVE  balance'[u] - TxSum(u)' - Owed(rq'[r], u) = balance[u] - TxSum(u) - Owed(rq[r], u)
    <3>1. TxSum(u)' = TxSum(u) /\ TxSum(u) \in Int /\ balance[u] \in Int
      BY <2>1, TxSumType DEF TxSum, TypeOK
    <3>2. CASE u = rq[r].user
      <4>1. rq[r].seen = balance[u]
        BY <2>1, <2>3, <3>2
      <4>2. balance'[u] = rq[r].seen - rq[r].amount
        BY <2>1, <3>2 DEF TypeOK
      <4>3. Owed(rq'[r], u) = -rq[r].amount /\ Owed(rq[r], u) = 0
        BY <2>2, <3>2 DEF Owed
      <4> QED BY <1>0, <3>1, <4>1, <4>2, <4>3
    <3>3. CASE u # rq[r].user
      <4>1. balance'[u] = balance[u] /\ Owed(rq'[r], u) = 0 /\ Owed(rq[r], u) = 0
        BY <2>1, <2>2, <3>3 DEF Owed, TypeOK
      <4> QED BY <3>1, <4>1
    <3> QED BY <3>2, <3>3
  <2>4. raced \subseteq raced' /\ floored \subseteq floored' /\ deaths' = deaths
    BY <2>1
  <2> HIDE DEF TxSum
  <2> QED BY <2>2, <2>3, <2>4, WalletStep
<1>12. ASSUME SubscribeLog(r) PROVE WalletInv'
  <2>1. UNCHANGED <<balance, raced, floored,
                    deaths>> /\ tx' = [tx EXCEPT ![rq[r].user]["purchase"] = @ + rq[r].amount]
    BY <1>12 DEF SubscribeLog, AddTx, accounts, membership, shop, bounds, history
  <2>2. Moved(r) /\ rq[r].op = "subscribe" /\ rq[r].step = "log" /\ rq'[r].step # "log"
    BY <1>12, SubscribeLogEffect, IdleFacts
  <2>3. ASSUME NEW u \in Users
        PROVE  balance'[u] - TxSum(u)' - Owed(rq'[r], u) = balance[u] - TxSum(u) - Owed(rq[r], u)
    <3>1. TxSum(u) \in Int /\ balance'[u] = balance[u] /\ balance[u] \in Int /\ Owed(rq'[r], u) = 0
      BY <2>1, <2>2, TxSumType DEF TypeOK, Owed
    <3>2. CASE u = rq[r].user
      <4>1. TxSum(u)' = TxSum(u) - rq[r].amount
        BY <1>0, <2>1, <3>2, TxSumLogged
      <4>2. Owed(rq[r], u) = -rq[r].amount
        BY <2>2, <3>2 DEF Owed
      <4> QED BY <1>0, <3>1, <4>1, <4>2
    <3>3. CASE u # rq[r].user
      <4>1. TxSum(u)' = TxSum(u) /\ Owed(rq[r], u) = 0
        BY <2>1, <3>3 DEF Owed, TxSum, TypeOK
      <4> QED BY <3>1, <4>1
    <3> QED BY <3>2, <3>3
  <2>4. raced \subseteq raced' /\ floored \subseteq floored' /\ deaths' = deaths
    BY <2>1
  <2> HIDE DEF TxSum
  <2> QED BY <2>2, <2>3, <2>4, WalletStep
<1>13. ASSUME InsertMembership(r) PROVE WalletInv'
  <2>1. UNCHANGED <<balance, tx, raced, floored, deaths>>
    BY <1>13 DEF InsertMembership, accounts, membership, shop, bounds, history
  <2>2. Moved(r) /\ rq[r].step # "log" /\ rq'[r].step # "log"
    BY <1>13, InsertMembershipEffect, IdleFacts
  <2> QED BY <2>1, <2>2, WalletQuiet
<1>14. ASSUME Grant(r) PROVE WalletInv'
  <2>1. UNCHANGED <<balance, tx, raced, floored, deaths>>
    BY <1>14 DEF Grant, accounts, membership, shop, bounds, history
  <2>2. Moved(r) /\ rq[r].step # "log" /\ rq'[r].step # "log"
    BY <1>14, GrantEffect, IdleFacts
  <2> QED BY <2>1, <2>2, WalletQuiet
<1>15. ASSUME CartPut(r) PROVE WalletInv'
  <2>1. UNCHANGED <<balance, tx, raced, floored, deaths>>
    BY <1>15 DEF CartPut, accounts, membership, shop, bounds, history
  <2>2. Moved(r) /\ rq[r].step # "log" /\ rq'[r].step # "log"
    BY <1>15, CartPutEffect, IdleFacts
  <2> QED BY <2>1, <2>2, WalletQuiet
<1>16. ASSUME CheckoutBalance(r) PROVE WalletInv'
  <2>1. UNCHANGED <<balance, tx, raced, floored, deaths>>
    BY <1>16 DEF CheckoutBalance, accounts, membership, shop, bounds, history
  <2>2. Moved(r) /\ rq[r].step # "log" /\ rq'[r].step # "log"
    BY <1>16, CheckoutBalanceEffect, IdleFacts
  <2> QED BY <2>1, <2>2, WalletQuiet
<1>17. ASSUME CheckoutDebit(r) PROVE WalletInv'
  <2>1. /\ UNCHANGED <<tx, deaths, floored>>
        /\ balance' = [balance EXCEPT ![rq[r].user] = @ - rq[r].amount]
        /\ raced' = IF balance[rq[r].user] # rq[r].seen THEN raced \cup {<<rq[r].user, "debit">>} ELSE raced
    BY <1>17 DEF CheckoutDebit, accounts, membership, shop, bounds, history
  <2>2. /\ Moved(r) /\ rq[r].op = "checkout" /\ rq[r].step = "debit" /\ rq'[r].op = "checkout" /\ rq'[r].step = "log"
        /\ rq'[r].user = rq[r].user /\ rq'[r].amount = rq[r].amount
    BY <1>17, CheckoutDebitEffect DEF SameBut
  <2>3. ASSUME NEW u \in Users, ~ (<<u, "write">> \in raced' \/ u \in floored')
        PROVE  balance'[u] - TxSum(u)' - Owed(rq'[r], u) = balance[u] - TxSum(u) - Owed(rq[r], u)
    <3>1. TxSum(u)' = TxSum(u) /\ TxSum(u) \in Int /\ balance[u] \in Int
      BY <2>1, TxSumType DEF TxSum, TypeOK
    <3>2. CASE u = rq[r].user
      <4>1. balance'[u] = balance[u] - rq[r].amount
        BY <2>1, <3>2 DEF TypeOK
      <4>2. Owed(rq'[r], u) = -rq[r].amount /\ Owed(rq[r], u) = 0
        BY <2>2, <3>2 DEF Owed
      <4> QED BY <1>0, <3>1, <4>1, <4>2
    <3>3. CASE u # rq[r].user
      <4>1. balance'[u] = balance[u] /\ Owed(rq'[r], u) = 0 /\ Owed(rq[r], u) = 0
        BY <2>1, <2>2, <3>3 DEF Owed, TypeOK
      <4> QED BY <3>1, <4>1
    <3> QED BY <3>2, <3>3
  <2>4. raced \subseteq raced' /\ floored \subseteq floored' /\ deaths' = deaths
    BY <2>1
  <2> HIDE DEF TxSum
  <2> QED BY <2>2, <2>3, <2>4, WalletStep
<1>18. ASSUME CheckoutLog(r) PROVE WalletInv'
  <2>1. UNCHANGED <<balance, raced, floored,
                    deaths>> /\ tx' = [tx EXCEPT ![rq[r].user]["shop"] = @ + rq[r].amount]
    BY <1>18 DEF CheckoutLog, AddTx, accounts, membership, shop, bounds, history
  <2>2. Moved(r) /\ rq[r].op = "checkout" /\ rq[r].step = "log" /\ rq'[r].step # "log"
    BY <1>18, CheckoutLogEffect, IdleFacts
  <2>3. ASSUME NEW u \in Users
        PROVE  balance'[u] - TxSum(u)' - Owed(rq'[r], u) = balance[u] - TxSum(u) - Owed(rq[r], u)
    <3>1. TxSum(u) \in Int /\ balance'[u] = balance[u] /\ balance[u] \in Int /\ Owed(rq'[r], u) = 0
      BY <2>1, <2>2, TxSumType DEF TypeOK, Owed
    <3>2. CASE u = rq[r].user
      <4>1. TxSum(u)' = TxSum(u) - rq[r].amount
        BY <1>0, <2>1, <3>2, TxSumLogged
      <4>2. Owed(rq[r], u) = -rq[r].amount
        BY <2>2, <3>2 DEF Owed
      <4> QED BY <1>0, <3>1, <4>1, <4>2
    <3>3. CASE u # rq[r].user
      <4>1. TxSum(u)' = TxSum(u) /\ Owed(rq[r], u) = 0
        BY <2>1, <3>3 DEF Owed, TxSum, TypeOK
      <4> QED BY <3>1, <4>1
    <3> QED BY <3>2, <3>3
  <2>4. raced \subseteq raced' /\ floored \subseteq floored' /\ deaths' = deaths
    BY <2>1
  <2> HIDE DEF TxSum
  <2> QED BY <2>2, <2>3, <2>4, WalletStep
<1>19. ASSUME CheckoutStock(r) PROVE WalletInv'
  <2>1. UNCHANGED <<balance, tx, raced, floored, deaths>>
    BY <1>19 DEF CheckoutStock, accounts, membership, shop, bounds, history
  <2>2. Moved(r) /\ rq[r].step # "log" /\ rq'[r].step # "log"
    BY <1>19, CheckoutStockEffect, IdleFacts
  <2> QED BY <2>1, <2>2, WalletQuiet
<1>20. ASSUME CheckoutOrder(r) PROVE WalletInv'
  <2>1. UNCHANGED <<balance, tx, raced, floored, deaths>>
    BY <1>20 DEF CheckoutOrder, accounts, membership, shop, bounds, history
  <2>2. Moved(r) /\ rq[r].step # "log" /\ rq'[r].step # "log"
    BY <1>20, CheckoutOrderEffect, IdleFacts
  <2> QED BY <2>1, <2>2, WalletQuiet
<1>21. ASSUME CheckoutItem(r) PROVE WalletInv'
  <2>1. UNCHANGED <<balance, tx, raced, floored, deaths>>
    BY <1>21 DEF CheckoutItem, accounts, membership, shop, bounds, history
  <2>2. Moved(r) /\ rq[r].step # "log" /\ rq'[r].step # "log"
    BY <1>21, CheckoutItemEffect, IdleFacts
  <2> QED BY <2>1, <2>2, WalletQuiet
<1>22. ASSUME CheckoutClear(r) PROVE WalletInv'
  <2>1. UNCHANGED <<balance, tx, raced, floored, deaths>>
    BY <1>22 DEF CheckoutClear, accounts, membership, shop, bounds, history
  <2>2. Moved(r) /\ rq[r].step # "log" /\ rq'[r].step # "log"
    BY <1>22, CheckoutClearEffect, IdleFacts
  <2> QED BY <2>1, <2>2, WalletQuiet
<1>23. ASSUME TopUpCredit(r) PROVE WalletInv'
  <2>1. /\ UNCHANGED <<tx, deaths, raced, floored>>
        /\ balance' = [balance EXCEPT ![rq[r].user] = @ + rq[r].amount]
    BY <1>23 DEF TopUpCredit, accounts, membership, shop, bounds, history
  <2>2. /\ Moved(r) /\ rq[r].op = "topup" /\ rq[r].step = "credit" /\ rq'[r].op = "topup" /\ rq'[r].step = "log"
        /\ rq'[r].user = rq[r].user /\ rq'[r].amount = rq[r].amount
    BY <1>23, TopUpCreditEffect DEF SameBut
  <2>3. ASSUME NEW u \in Users, ~ (<<u, "write">> \in raced' \/ u \in floored')
        PROVE  balance'[u] - TxSum(u)' - Owed(rq'[r], u) = balance[u] - TxSum(u) - Owed(rq[r], u)
    <3>1. TxSum(u)' = TxSum(u) /\ TxSum(u) \in Int /\ balance[u] \in Int
      BY <2>1, TxSumType DEF TxSum, TypeOK
    <3>2. CASE u = rq[r].user
      <4>1. balance'[u] = balance[u] + rq[r].amount
        BY <2>1, <3>2 DEF TypeOK
      <4>2. Owed(rq'[r], u) = rq[r].amount /\ Owed(rq[r], u) = 0
        BY <2>2, <3>2 DEF Owed
      <4> QED BY <1>0, <3>1, <4>1, <4>2
    <3>3. CASE u # rq[r].user
      <4>1. balance'[u] = balance[u] /\ Owed(rq'[r], u) = 0 /\ Owed(rq[r], u) = 0
        BY <2>1, <2>2, <3>3 DEF Owed, TypeOK
      <4> QED BY <3>1, <4>1
    <3> QED BY <3>2, <3>3
  <2>4. raced \subseteq raced' /\ floored \subseteq floored' /\ deaths' = deaths
    BY <2>1
  <2> HIDE DEF TxSum
  <2> QED BY <2>2, <2>3, <2>4, WalletStep
<1>24. ASSUME TopUpLog(r) PROVE WalletInv'
  <2>1. UNCHANGED <<balance, raced, floored,
                    deaths>> /\ tx' = [tx EXCEPT ![rq[r].user]["credit"] = @ + rq[r].amount]
    BY <1>24 DEF TopUpLog, AddTx, accounts, membership, shop, bounds, history
  <2>2. Moved(r) /\ rq[r].op = "topup" /\ rq[r].step = "log" /\ rq'[r].step # "log"
    BY <1>24, TopUpLogEffect, IdleFacts
  <2>3. ASSUME NEW u \in Users
        PROVE  balance'[u] - TxSum(u)' - Owed(rq'[r], u) = balance[u] - TxSum(u) - Owed(rq[r], u)
    <3>1. TxSum(u) \in Int /\ balance'[u] = balance[u] /\ balance[u] \in Int /\ Owed(rq'[r], u) = 0
      BY <2>1, <2>2, TxSumType DEF TypeOK, Owed
    <3>2. CASE u = rq[r].user
      <4>1. TxSum(u)' = TxSum(u) + rq[r].amount
        BY <1>0, <2>1, <3>2, TxSumLogged
      <4>2. Owed(rq[r], u) = rq[r].amount
        BY <2>2, <3>2 DEF Owed
      <4> QED BY <1>0, <3>1, <4>1, <4>2
    <3>3. CASE u # rq[r].user
      <4>1. TxSum(u)' = TxSum(u) /\ Owed(rq[r], u) = 0
        BY <2>1, <3>3 DEF Owed, TxSum, TypeOK
      <4> QED BY <3>1, <4>1
    <3> QED BY <3>2, <3>3
  <2>4. raced \subseteq raced' /\ floored \subseteq floored' /\ deaths' = deaths
    BY <2>1
  <2> HIDE DEF TxSum
  <2> QED BY <2>2, <2>3, <2>4, WalletStep
<1>25. ASSUME ActivateDeactivate(r) PROVE WalletInv'
  <2>1. UNCHANGED <<balance, tx, raced, floored, deaths>>
    BY <1>25 DEF ActivateDeactivate, accounts, membership, shop, bounds, history
  <2>2. Moved(r) /\ rq[r].step # "log" /\ rq'[r].step # "log"
    BY <1>25, ActivateDeactivateEffect, IdleFacts
  <2> QED BY <2>1, <2>2, WalletQuiet
<1>26. ASSUME DeactivateSubscription(r) PROVE WalletInv'
  <2>1. UNCHANGED <<balance, tx, raced, floored, deaths>>
    BY <1>26 DEF DeactivateSubscription, accounts, membership, shop, bounds, history
  <2>2. Moved(r) /\ rq[r].step # "log" /\ rq'[r].step # "log"
    BY <1>26, DeactivateSubscriptionEffect, IdleFacts
  <2> QED BY <2>1, <2>2, WalletQuiet
<1>27. ASSUME RefundDebit(r) PROVE WalletInv'
  <2>1. /\ UNCHANGED <<tx, deaths, raced>>
        /\ balance' = [balance EXCEPT ![rq[r].user] = Max({0, @ - rq[r].amount})]
        /\ floored' = IF balance[rq[r].user] < rq[r].amount THEN floored \cup {rq[r].user} ELSE floored
    BY <1>27 DEF RefundDebit, accounts, membership, shop, bounds, history
  <2>2. /\ Moved(r) /\ rq[r].op = "refund" /\ rq[r].step = "refund" /\ rq'[r].op = "refund" /\ rq'[r].step = "log"
        /\ rq'[r].user = rq[r].user /\ rq'[r].amount = rq[r].amount
    BY <1>27, RefundDebitEffect DEF SameBut
  <2>3. ASSUME NEW u \in Users, ~ (<<u, "write">> \in raced' \/ u \in floored')
        PROVE  balance'[u] - TxSum(u)' - Owed(rq'[r], u) = balance[u] - TxSum(u) - Owed(rq[r], u)
    <3>1. TxSum(u)' = TxSum(u) /\ TxSum(u) \in Int /\ balance[u] \in Int
      BY <2>1, TxSumType DEF TxSum, TypeOK
    <3>2. CASE u = rq[r].user
      <4>1. balance'[u] = balance[u] - rq[r].amount
        <5>1. ~ (balance[u] < rq[r].amount)
          BY <2>1, <2>3, <3>2
        <5>2. balance[u] - rq[r].amount \in Int /\ ~ (balance[u] - rq[r].amount < 0)
          BY <1>0, <3>1, <5>1
        <5>3. Max({0, balance[u] - rq[r].amount}) = balance[u] - rq[r].amount
          BY <5>2, AtLeastZero
        <5>4. balance'[u] = Max({0, balance[u] - rq[r].amount})
          BY <2>1, <3>2 DEF TypeOK
        <5> QED BY <5>3, <5>4
      <4>2. Owed(rq'[r], u) = -rq[r].amount /\ Owed(rq[r], u) = 0
        BY <2>2, <3>2 DEF Owed
      <4> QED BY <1>0, <3>1, <4>1, <4>2
    <3>3. CASE u # rq[r].user
      <4>1. balance'[u] = balance[u] /\ Owed(rq'[r], u) = 0 /\ Owed(rq[r], u) = 0
        BY <2>1, <2>2, <3>3 DEF Owed, TypeOK
      <4> QED BY <3>1, <4>1
    <3> QED BY <3>2, <3>3
  <2>4. raced \subseteq raced' /\ floored \subseteq floored' /\ deaths' = deaths
    BY <2>1
  <2> HIDE DEF TxSum
  <2> QED BY <2>2, <2>3, <2>4, WalletStep
<1>28. ASSUME RefundLog(r) PROVE WalletInv'
  <2>1. UNCHANGED <<balance, raced, floored,
                    deaths>> /\ tx' = [tx EXCEPT ![rq[r].user]["refund"] = @ + rq[r].amount]
    BY <1>28 DEF RefundLog, AddTx, accounts, membership, shop, bounds, history
  <2>2. Moved(r) /\ rq[r].op = "refund" /\ rq[r].step = "log" /\ rq'[r].step # "log"
    BY <1>28, RefundLogEffect, IdleFacts
  <2>3. ASSUME NEW u \in Users
        PROVE  balance'[u] - TxSum(u)' - Owed(rq'[r], u) = balance[u] - TxSum(u) - Owed(rq[r], u)
    <3>1. TxSum(u) \in Int /\ balance'[u] = balance[u] /\ balance[u] \in Int /\ Owed(rq'[r], u) = 0
      BY <2>1, <2>2, TxSumType DEF TypeOK, Owed
    <3>2. CASE u = rq[r].user
      <4>1. TxSum(u)' = TxSum(u) - rq[r].amount
        BY <1>0, <2>1, <3>2, TxSumLogged
      <4>2. Owed(rq[r], u) = -rq[r].amount
        BY <2>2, <3>2 DEF Owed
      <4> QED BY <1>0, <3>1, <4>1, <4>2
    <3>3. CASE u # rq[r].user
      <4>1. TxSum(u)' = TxSum(u) /\ Owed(rq[r], u) = 0
        BY <2>1, <3>3 DEF Owed, TxSum, TypeOK
      <4> QED BY <3>1, <4>1
    <3> QED BY <3>2, <3>3
  <2>4. raced \subseteq raced' /\ floored \subseteq floored' /\ deaths' = deaths
    BY <2>1
  <2> HIDE DEF TxSum
  <2> QED BY <2>2, <2>3, <2>4, WalletStep
<1>29. ASSUME Die(r) PROVE WalletInv'
  <2>1. deaths' # 0
    BY <1>29 DEF Die, TypeOK
  <2> QED BY <2>1 DEF WalletInv
<1> QED
  BY <1>1, <1>2, <1>3, <1>4, <1>5, <1>6, <1>7, <1>8, <1>9, <1>10, <1>11, <1>12, <1>13, <1>14, <1>15,
     <1>16, <1>17, <1>18, <1>19, <1>20, <1>21, <1>22, <1>23, <1>24, <1>25, <1>26, <1>27, <1>28,
     <1>29 DEF Step, UserRequest, Statement

------------------------------------------------------------------------------
(* Which steps write which table, and how a request gets to where it stands. *)

\* Which steps write which table.
Writes(r) ==
    /\ made' >= made
    /\ tx' # tx => DepositLog(r) \/ SubscribeLog(r) \/ CheckoutLog(r) \/ TopUpLog(r) \/ RefundLog(r)
    /\ balance' # balance => DepositWrite(r) \/ SubscribeWrite(r) \/ CheckoutDebit(r) \/ TopUpCredit(r) \/ RefundDebit(r)
    /\ members' # members => \/ InsertMembership(r)
                             \/ ActivateDeactivate(r)
                             \/ DeactivateSubscription(r)
                             \/ \E u \in Users : CancelMembership(r, u)
                             \/ \E u \in Users, t \in Tiers : SubscribeDeactivate(r, u, t)
    /\ stock' # stock => CheckoutStock(r)
    /\ items' # items => CheckoutItem(r)
    /\ orders' # orders => CheckoutOrder(r)
    /\ deaths' # deaths => Die(r)
    /\ raced \subseteq raced'
    /\ crossed' # crossed => (\E u \in Users, t \in Tiers : SubscribeDeactivate(r, u, t)) \/ ActivateDeactivate(r)
    /\ late' # late => \E e \in Events : Deliver(r, e)
    /\ begun' # begun => \E e \in Events : Deliver(r, e)

\* Every step writes what Writes says.
LEMMA WritesNext ==
  ASSUME NEW r \in Requests, TypeOK, TypeOK', ShapeInv,
         Step(r)
  PROVE  Writes(r)
<1>0. made \in Nat
  BY CommerceAssumption DEF TypeOK
<1>1. ASSUME NEW u \in Users, NEW n \in Amounts, DepositRead(r, u, n) PROVE Writes(r)
  <2>1. UNCHANGED <<balance, tx, members, stock, orders, items, deaths, raced, floored, crossed,
                    late, begun>> /\ made' = made + 1
    BY <1>1 DEF DepositRead, Arrives, accounts, membership, shop, bounds, history
  <2> QED BY <1>1, <1>0, <2>1 DEF Writes
<1>2. ASSUME NEW u \in Users, NEW t \in Tiers, SubscribeDeactivate(r, u, t) PROVE Writes(r)
  <2>1. UNCHANGED <<balance, tx, stock, orders, items, deaths, raced, floored, late,
                    begun>> /\ made' = made + 1
    BY <1>2 DEF SubscribeDeactivate, Arrives, accounts, membership, shop, bounds, history
  <2> QED BY <1>2, <1>0, <2>1 DEF Writes
<1>3. ASSUME NEW u \in Users, CancelMembership(r, u) PROVE Writes(r)
  <2>1. UNCHANGED <<balance, tx, stock, orders, items, deaths, raced, floored, crossed, late,
                    begun>> /\ made' = made + 1
    BY <1>3 DEF CancelMembership, Arrives, accounts, membership, shop, bounds, history
  <2> QED BY <1>3, <1>0, <2>1 DEF Writes
<1>4. ASSUME NEW u \in Users, NEW p \in Products, NEW n \in Quantities, CartRead(r, u, p, n) PROVE Writes(r)
  <2>1. UNCHANGED <<balance, tx, members, stock, orders, items, deaths, raced, floored, crossed,
                    late, begun>> /\ made' = made + 1
    BY <1>4 DEF CartRead, Arrives, accounts, membership, shop, bounds, history
  <2> QED BY <1>4, <1>0, <2>1 DEF Writes
<1>5. ASSUME NEW u \in Users, CartClear(r, u) PROVE Writes(r)
  <2>1. UNCHANGED <<balance, tx, members, stock, orders, items, deaths, raced, floored, crossed,
                    late, begun>> /\ made' = made + 1
    BY <1>5 DEF CartClear, Arrives, accounts, membership, shop, bounds, history
  <2> QED BY <1>5, <1>0, <2>1 DEF Writes
<1>6. ASSUME NEW u \in Users, CheckoutRead(r, u) PROVE Writes(r)
  <2>1. UNCHANGED <<balance, tx, members, stock, orders, items, deaths, raced, floored, crossed,
                    late, begun>> /\ made' = made + 1
    BY <1>6 DEF CheckoutRead, Arrives, accounts, membership, shop, bounds, history
  <2> QED BY <1>6, <1>0, <2>1 DEF Writes
<1>7. ASSUME NEW e \in Events, Deliver(r, e) PROVE Writes(r)
  <2>1. UNCHANGED <<balance, tx, members, stock, orders, items, deaths, raced, floored,
                    crossed>> /\ made' = made + 1
    BY <1>7 DEF Deliver, Arrives, accounts, membership, shop, bounds, history
  <2> QED BY <1>7, <1>0, <2>1 DEF Writes
<1>8. ASSUME DepositWrite(r) PROVE Writes(r)
  <2>1. UNCHANGED <<tx, members, stock, orders, items, made, deaths, floored, crossed, late,
                    begun>> /\ raced \subseteq raced'
    BY <1>8 DEF DepositWrite, WriteBalance, accounts, membership, shop, bounds, history
  <2> QED BY <1>8, <1>0, <2>1 DEF Writes
<1>9. ASSUME DepositLog(r) PROVE Writes(r)
  <2>1. UNCHANGED <<balance, members, stock, orders, items, made, deaths, raced, floored, crossed,
                    late, begun>>
    BY <1>9 DEF DepositLog, accounts, membership, shop, bounds, history
  <2> QED BY <1>9, <1>0, <2>1 DEF Writes
<1>10. ASSUME SubscribeRead(r) PROVE Writes(r)
  <2>1. UNCHANGED <<balance, tx, members, stock, orders, items, made, deaths, raced, floored,
                    crossed, late, begun>>
    BY <1>10 DEF SubscribeRead, accounts, membership, shop, bounds, history
  <2> QED BY <1>10, <1>0, <2>1 DEF Writes
<1>11. ASSUME SubscribeWrite(r) PROVE Writes(r)
  <2>1. UNCHANGED <<tx, members, stock, orders, items, made, deaths, floored, crossed, late,
                    begun>> /\ raced \subseteq raced'
    BY <1>11 DEF SubscribeWrite, WriteBalance, accounts, membership, shop, bounds, history
  <2> QED BY <1>11, <1>0, <2>1 DEF Writes
<1>12. ASSUME SubscribeLog(r) PROVE Writes(r)
  <2>1. UNCHANGED <<balance, members, stock, orders, items, made, deaths, raced, floored, crossed,
                    late, begun>>
    BY <1>12 DEF SubscribeLog, accounts, membership, shop, bounds, history
  <2> QED BY <1>12, <1>0, <2>1 DEF Writes
<1>13. ASSUME InsertMembership(r) PROVE Writes(r)
  <2>1. UNCHANGED <<balance, tx, stock, orders, items, made, deaths, raced, floored, crossed, late,
                    begun>>
    BY <1>13 DEF InsertMembership, accounts, membership, shop, bounds, history
  <2> QED BY <1>13, <1>0, <2>1 DEF Writes
<1>14. ASSUME Grant(r) PROVE Writes(r)
  <2>1. UNCHANGED <<balance, tx, members, stock, orders, items, made, deaths, raced, floored,
                    crossed, late, begun>>
    BY <1>14 DEF Grant, accounts, membership, shop, bounds, history
  <2> QED BY <1>14, <1>0, <2>1 DEF Writes
<1>15. ASSUME CartPut(r) PROVE Writes(r)
  <2>1. UNCHANGED <<balance, tx, members, stock, orders, items, made, deaths, raced, floored,
                    crossed, late, begun>>
    BY <1>15 DEF CartPut, accounts, membership, shop, bounds, history
  <2> QED BY <1>15, <1>0, <2>1 DEF Writes
<1>16. ASSUME CheckoutBalance(r) PROVE Writes(r)
  <2>1. UNCHANGED <<balance, tx, members, stock, orders, items, made, deaths, raced, floored,
                    crossed, late, begun>>
    BY <1>16 DEF CheckoutBalance, accounts, membership, shop, bounds, history
  <2> QED BY <1>16, <1>0, <2>1 DEF Writes
<1>17. ASSUME CheckoutDebit(r) PROVE Writes(r)
  <2>1. UNCHANGED <<tx, members, stock, orders, items, made, deaths, floored, crossed, late,
                    begun>> /\ raced \subseteq raced'
    BY <1>17 DEF CheckoutDebit, accounts, membership, shop, bounds, history
  <2> QED BY <1>17, <1>0, <2>1 DEF Writes
<1>18. ASSUME CheckoutLog(r) PROVE Writes(r)
  <2>1. UNCHANGED <<balance, members, stock, orders, items, made, deaths, raced, floored, crossed,
                    late, begun>>
    BY <1>18 DEF CheckoutLog, accounts, membership, shop, bounds, history
  <2> QED BY <1>18, <1>0, <2>1 DEF Writes
<1>19. ASSUME CheckoutStock(r) PROVE Writes(r)
  <2>1. UNCHANGED <<balance, tx, members, orders, items, made, deaths, raced, floored, crossed,
                    late, begun>>
    BY <1>19 DEF CheckoutStock, accounts, membership, shop, bounds, history
  <2> QED BY <1>19, <1>0, <2>1 DEF Writes
<1>20. ASSUME CheckoutOrder(r) PROVE Writes(r)
  <2>1. UNCHANGED <<balance, tx, members, stock, items, made, deaths, raced, floored, crossed, late,
                    begun>>
    BY <1>20 DEF CheckoutOrder, accounts, membership, shop, bounds, history
  <2> QED BY <1>20, <1>0, <2>1 DEF Writes
<1>21. ASSUME CheckoutItem(r) PROVE Writes(r)
  <2>1. UNCHANGED <<balance, tx, members, stock, orders, made, deaths, raced, floored, crossed,
                    late, begun>>
    BY <1>21 DEF CheckoutItem, accounts, membership, shop, bounds, history
  <2> QED BY <1>21, <1>0, <2>1 DEF Writes
<1>22. ASSUME CheckoutClear(r) PROVE Writes(r)
  <2>1. UNCHANGED <<balance, tx, members, stock, orders, items, made, deaths, raced, floored,
                    crossed, late, begun>>
    BY <1>22 DEF CheckoutClear, accounts, membership, shop, bounds, history
  <2> QED BY <1>22, <1>0, <2>1 DEF Writes
<1>23. ASSUME TopUpCredit(r) PROVE Writes(r)
  <2>1. UNCHANGED <<tx, members, stock, orders, items, made, deaths, raced, floored, crossed, late,
                    begun>>
    BY <1>23 DEF TopUpCredit, accounts, membership, shop, bounds, history
  <2> QED BY <1>23, <1>0, <2>1 DEF Writes
<1>24. ASSUME TopUpLog(r) PROVE Writes(r)
  <2>1. UNCHANGED <<balance, members, stock, orders, items, made, deaths, raced, floored, crossed,
                    late, begun>>
    BY <1>24 DEF TopUpLog, accounts, membership, shop, bounds, history
  <2> QED BY <1>24, <1>0, <2>1 DEF Writes
<1>25. ASSUME ActivateDeactivate(r) PROVE Writes(r)
  <2>1. UNCHANGED <<balance, tx, stock, orders, items, made, deaths, raced, floored, late, begun>>
    BY <1>25 DEF ActivateDeactivate, accounts, membership, shop, bounds, history
  <2> QED BY <1>25, <1>0, <2>1 DEF Writes
<1>26. ASSUME DeactivateSubscription(r) PROVE Writes(r)
  <2>1. UNCHANGED <<balance, tx, stock, orders, items, made, deaths, raced, floored, crossed, late,
                    begun>>
    BY <1>26 DEF DeactivateSubscription, accounts, membership, shop, bounds, history
  <2> QED BY <1>26, <1>0, <2>1 DEF Writes
<1>27. ASSUME RefundDebit(r) PROVE Writes(r)
  <2>1. UNCHANGED <<tx, members, stock, orders, items, made, deaths, raced, crossed, late, begun>>
    BY <1>27 DEF RefundDebit, accounts, membership, shop, bounds, history
  <2> QED BY <1>27, <1>0, <2>1 DEF Writes
<1>28. ASSUME RefundLog(r) PROVE Writes(r)
  <2>1. UNCHANGED <<balance, members, stock, orders, items, made, deaths, raced, floored, crossed,
                    late, begun>>
    BY <1>28 DEF RefundLog, accounts, membership, shop, bounds, history
  <2> QED BY <1>28, <1>0, <2>1 DEF Writes
<1>29. ASSUME Die(r) PROVE Writes(r)
  <2>1. UNCHANGED <<balance, tx, members, stock, orders, items, made, raced, floored, crossed, late,
                    begun>>
    BY <1>29 DEF Die, accounts, membership, shop, bounds, history
  <2> QED BY <1>29, <1>0, <2>1 DEF Writes
<1> QED
  BY <1>1, <1>2, <1>3, <1>4, <1>5, <1>6, <1>7, <1>8, <1>9, <1>10, <1>11, <1>12, <1>13, <1>14, <1>15,
     <1>16, <1>17, <1>18, <1>19, <1>20, <1>21, <1>22, <1>23, <1>24, <1>25, <1>26, <1>27, <1>28,
     <1>29 DEF Step, UserRequest, Statement

\* A checkout that is at the stock or at the order.
Buying(q) == q.op = "checkout" /\ q.step \in {"stock", "order", "items"}

\* Which steps lead a request to where it stands.
Follows(r) ==
    /\ Moved(r)
    /\ Buying(rq[r]) => CheckoutStock(r) \/ CheckoutOrder(r) \/ CheckoutItem(r) \/ Die(r)
    /\ Buying(rq'[r]) => CheckoutLog(r) \/ CheckoutStock(r) \/ CheckoutOrder(r) \/ CheckoutItem(r)
    /\ rq'[r].op = "subscribe" => \/ \E u \in Users, t \in Tiers : SubscribeDeactivate(r, u, t)
                                  \/ /\ rq[r].op = "subscribe" /\ rq'[r].row = rq[r].row
                                     /\ rq'[r].user = rq[r].user
                                     /\ rq'[r].step # "grant" => rq[r].step # "grant"
                                     /\ rq'[r].step = "insert" => SubscribeLog(r)
    /\ rq'[r].op = "activate" /\ rq'[r].step = "insert" => ActivateDeactivate(r)
    /\ rq'[r].step = "write" => (\E u \in Users, n \in Amounts : DepositRead(r, u, n)) \/ SubscribeRead(r)
    /\ rq'[r].step = "debit" => CheckoutBalance(r)
    /\ rq'[r].event # NoRow => rq'[r].event = rq[r].event \/ Deliver(r, rq'[r].event)

\* What an answer that is no break follows.
Acknowledges(r) ==
    acked' # acked => /\ rq[r].event # NoRow /\ acked' = acked \cup {rq[r].event} /\ rq'[r] = Idle
                      /\ rq[r].op = "topup" => TopUpLog(r)
                      /\ rq[r].op = "deactivate" => DeactivateSubscription(r)

\* Every step moves its request the way Follows says.
LEMMA FollowsNext ==
  ASSUME NEW r \in Requests, TypeOK, TypeOK', ShapeInv,
         Step(r)
  PROVE  Follows(r) /\ Acknowledges(r)
<1>0. Idle.op = "none" /\ Idle.step = "idle" /\ Idle.event = NoRow
  BY IdleFacts
<1>1. ASSUME NEW u \in Users, NEW n \in Amounts, DepositRead(r, u, n) PROVE Follows(r) /\ Acknowledges(r)
  <2>1. acked' = acked
    BY <1>1 DEF DepositRead, Arrives, accounts, membership, shop, bounds, history
  <2> QED BY <1>1, <1>0, <2>1, DepositReadEffect DEF Follows, Acknowledges, Buying, SameBut, EventOps
<1>2. ASSUME NEW u \in Users, NEW t \in Tiers, SubscribeDeactivate(r, u, t) PROVE Follows(r) /\ Acknowledges(r)
  <2>1. acked' = acked
    BY <1>2 DEF SubscribeDeactivate, Arrives, accounts, membership, shop, bounds, history
  <2> QED BY <1>2, <1>0, <2>1, SubscribeDeactivateEffect DEF Follows, Acknowledges, Buying, SameBut, EventOps
<1>3. ASSUME NEW u \in Users, CancelMembership(r, u) PROVE Follows(r) /\ Acknowledges(r)
  <2>1. rq' = rq /\ rq[r] = Idle /\ acked' = acked
    BY <1>3 DEF CancelMembership, Arrives
  <2> QED BY <1>0, <2>1, StillMoves DEF Follows, Acknowledges, Buying
<1>4. ASSUME NEW u \in Users, NEW p \in Products, NEW n \in Quantities, CartRead(r, u, p, n) PROVE Follows(r) /\ Acknowledges(r)
  <2>1. rq[r] = Idle /\ acked' = acked
    BY <1>4 DEF CartRead, Arrives
  <2>2. CASE rq' = rq
    BY <1>0, <2>1, <2>2, StillMoves DEF Follows, Acknowledges, Buying
  <2>3. CASE rq' # rq
    <3>1. Moved(r) /\ rq'[r].op \in {"cart", "checkout"} /\ rq'[r].step \in {"put", "balance"} /\ rq'[r].event = NoRow
      BY <1>4, <2>3, CartReadEffect
    <3> QED BY <1>0, <2>1, <3>1 DEF Follows, Acknowledges, Buying
  <2> QED BY <2>2, <2>3
<1>5. ASSUME NEW u \in Users, CartClear(r, u) PROVE Follows(r) /\ Acknowledges(r)
  <2>1. rq' = rq /\ rq[r] = Idle /\ acked' = acked
    BY <1>5 DEF CartClear, Arrives
  <2> QED BY <1>0, <2>1, StillMoves DEF Follows, Acknowledges, Buying
<1>6. ASSUME NEW u \in Users, CheckoutRead(r, u) PROVE Follows(r) /\ Acknowledges(r)
  <2>1. rq[r] = Idle /\ acked' = acked
    BY <1>6 DEF CheckoutRead, Arrives
  <2>2. CASE rq' = rq
    BY <1>0, <2>1, <2>2, StillMoves DEF Follows, Acknowledges, Buying
  <2>3. CASE rq' # rq
    <3>1. Moved(r) /\ rq'[r].op \in {"cart", "checkout"} /\ rq'[r].step \in {"put", "balance"} /\ rq'[r].event = NoRow
      BY <1>6, <2>3, CheckoutReadEffect
    <3> QED BY <1>0, <2>1, <3>1 DEF Follows, Acknowledges, Buying
  <2> QED BY <2>2, <2>3
<1>7. ASSUME NEW e \in Events, Deliver(r, e) PROVE Follows(r) /\ Acknowledges(r)
  <2>1. acked' = acked
    BY <1>7 DEF Deliver, Arrives, accounts, membership, shop, bounds, history
  <2> QED BY <1>7, <1>0, <2>1, DeliverEffect DEF Follows, Acknowledges, Buying, SameBut, EventOps
<1>8. ASSUME DepositWrite(r) PROVE Follows(r) /\ Acknowledges(r)
  <2>1. acked' = acked
    BY <1>8 DEF DepositWrite, WriteBalance, accounts, membership, shop, bounds, history
  <2> QED BY <1>8, <1>0, <2>1, DepositWriteEffect DEF Follows, Acknowledges, Buying, SameBut, EventOps
<1>9. ASSUME DepositLog(r) PROVE Follows(r) /\ Acknowledges(r)
  BY <1>9, <1>0, DepositLogEffect DEF Follows, Acknowledges, Buying, SameBut, Acks
<1>10. ASSUME SubscribeRead(r) PROVE Follows(r) /\ Acknowledges(r)
  BY <1>10, <1>0, SubscribeReadEffect DEF Follows, Acknowledges, Buying, SameBut, Acks
<1>11. ASSUME SubscribeWrite(r) PROVE Follows(r) /\ Acknowledges(r)
  <2>1. acked' = acked
    BY <1>11 DEF SubscribeWrite, WriteBalance, accounts, membership, shop, bounds, history
  <2> QED BY <1>11, <1>0, <2>1, SubscribeWriteEffect DEF Follows, Acknowledges, Buying, SameBut, EventOps
<1>12. ASSUME SubscribeLog(r) PROVE Follows(r) /\ Acknowledges(r)
  <2>1. acked' = acked
    BY <1>12 DEF SubscribeLog, accounts, membership, shop, bounds, history
  <2> QED BY <1>12, <1>0, <2>1, SubscribeLogEffect DEF Follows, Acknowledges, Buying, SameBut, EventOps
<1>13. ASSUME InsertMembership(r) PROVE Follows(r) /\ Acknowledges(r)
  <2>1. acked' = acked
    BY <1>13 DEF InsertMembership, accounts, membership, shop, bounds, history
  <2> QED BY <1>13, <1>0, <2>1, InsertMembershipEffect DEF Follows, Acknowledges, Buying, SameBut, EventOps
<1>14. ASSUME Grant(r) PROVE Follows(r) /\ Acknowledges(r)
  BY <1>14, <1>0, GrantEffect DEF Follows, Acknowledges, Buying, SameBut, Acks
<1>15. ASSUME CartPut(r) PROVE Follows(r) /\ Acknowledges(r)
  BY <1>15, <1>0, CartPutEffect DEF Follows, Acknowledges, Buying, SameBut, Acks
<1>16. ASSUME CheckoutBalance(r) PROVE Follows(r) /\ Acknowledges(r)
  BY <1>16, <1>0, CheckoutBalanceEffect DEF Follows, Acknowledges, Buying, SameBut, Acks
<1>17. ASSUME CheckoutDebit(r) PROVE Follows(r) /\ Acknowledges(r)
  <2>1. acked' = acked
    BY <1>17 DEF CheckoutDebit, accounts, membership, shop, bounds, history
  <2> QED BY <1>17, <1>0, <2>1, CheckoutDebitEffect DEF Follows, Acknowledges, Buying, SameBut, EventOps
<1>18. ASSUME CheckoutLog(r) PROVE Follows(r) /\ Acknowledges(r)
  <2>1. acked' = acked
    BY <1>18 DEF CheckoutLog, accounts, membership, shop, bounds, history
  <2> QED BY <1>18, <1>0, <2>1, CheckoutLogEffect DEF Follows, Acknowledges, Buying, SameBut, EventOps
<1>19. ASSUME CheckoutStock(r) PROVE Follows(r) /\ Acknowledges(r)
  <2>1. acked' = acked
    BY <1>19 DEF CheckoutStock, accounts, membership, shop, bounds, history
  <2> QED BY <1>19, <1>0, <2>1, CheckoutStockEffect DEF Follows, Acknowledges, Buying, SameBut, EventOps
<1>20. ASSUME CheckoutOrder(r) PROVE Follows(r) /\ Acknowledges(r)
  <2>1. acked' = acked
    BY <1>20 DEF CheckoutOrder, accounts, membership, shop, bounds, history
  <2> QED BY <1>20, <1>0, <2>1, CheckoutOrderEffect DEF Follows, Acknowledges, Buying, SameBut, EventOps
<1>21. ASSUME CheckoutItem(r) PROVE Follows(r) /\ Acknowledges(r)
  <2>1. acked' = acked
    BY <1>21 DEF CheckoutItem, accounts, membership, shop, bounds, history
  <2> QED BY <1>21, <1>0, <2>1, CheckoutItemEffect DEF Follows, Acknowledges, Buying, SameBut, EventOps
<1>22. ASSUME CheckoutClear(r) PROVE Follows(r) /\ Acknowledges(r)
  BY <1>22, <1>0, CheckoutClearEffect DEF Follows, Acknowledges, Buying, SameBut, Acks
<1>23. ASSUME TopUpCredit(r) PROVE Follows(r) /\ Acknowledges(r)
  <2>1. acked' = acked
    BY <1>23 DEF TopUpCredit, accounts, membership, shop, bounds, history
  <2> QED BY <1>23, <1>0, <2>1, TopUpCreditEffect DEF Follows, Acknowledges, Buying, SameBut, EventOps
<1>24. ASSUME TopUpLog(r) PROVE Follows(r) /\ Acknowledges(r)
  BY <1>24, <1>0, TopUpLogEffect DEF Follows, Acknowledges, Buying, SameBut, Acks
<1>25. ASSUME ActivateDeactivate(r) PROVE Follows(r) /\ Acknowledges(r)
  <2>1. acked' = acked
    BY <1>25 DEF ActivateDeactivate, accounts, membership, shop, bounds, history
  <2> QED BY <1>25, <1>0, <2>1, ActivateDeactivateEffect DEF Follows, Acknowledges, Buying, SameBut, EventOps
<1>26. ASSUME DeactivateSubscription(r) PROVE Follows(r) /\ Acknowledges(r)
  BY <1>26, <1>0, DeactivateSubscriptionEffect DEF Follows, Acknowledges, Buying, SameBut, Acks
<1>27. ASSUME RefundDebit(r) PROVE Follows(r) /\ Acknowledges(r)
  <2>1. acked' = acked
    BY <1>27 DEF RefundDebit, accounts, membership, shop, bounds, history
  <2> QED BY <1>27, <1>0, <2>1, RefundDebitEffect DEF Follows, Acknowledges, Buying, SameBut, EventOps
<1>28. ASSUME RefundLog(r) PROVE Follows(r) /\ Acknowledges(r)
  BY <1>28, <1>0, RefundLogEffect DEF Follows, Acknowledges, Buying, SameBut, Acks
<1>29. ASSUME Die(r) PROVE Follows(r) /\ Acknowledges(r)
  BY <1>29, <1>0, DieEffect DEF Follows, Acknowledges, Buying, SameBut, Acks
<1> QED
  BY <1>1, <1>2, <1>3, <1>4, <1>5, <1>6, <1>7, <1>8, <1>9, <1>10, <1>11, <1>12, <1>13, <1>14, <1>15,
     <1>16, <1>17, <1>18, <1>19, <1>20, <1>21, <1>22, <1>23, <1>24, <1>25, <1>26, <1>27, <1>28,
     <1>29 DEF Step, UserRequest, Statement

------------------------------------------------------------------------------
(* The stock, and the floor of the balances. *)

\* Every step keeps the equation of the stock.
LEMMA StockNext ==
  ASSUME NEW r \in Requests, TypeOK, TypeOK', ShapeInv, StockInv, Writes(r), Follows(r)
  PROVE  StockInv'
<1>0. /\ Moved(r) /\ rq[r] \in Request /\ rq'[r] \in Request
      /\ \A p \in Products : /\ stock[p] \in Int /\ items[p] \in Nat /\ rq[r].basket[p] \in Nat
                             /\ Taken(rq[r], p) \in Nat /\ Taken(rq'[r], p) \in Nat
  BY TermTypes DEF TypeOK, Follows, Request
<1>1. CASE CheckoutLog(r)
  <2>1. /\ rq[r].step = "log" /\ rq'[r].op = "checkout" /\ rq'[r].step = "stock"
        /\ rq'[r].basket = rq[r].basket /\ rq'[r].todo = InBasket(rq[r].basket)
    BY <1>1, CheckoutLogEffect DEF SameBut
  <2>2. UNCHANGED <<stock, items, deaths>>
    BY <1>1 DEF CheckoutLog, shop, bounds
  <2>3. ASSUME NEW p \in Products PROVE Taken(rq[r], p) = 0 /\ Taken(rq'[r], p) = 0
    <3>1. p \notin rq'[r].todo => rq'[r].basket[p] = 0
      BY <1>0, <2>1 DEF InBasket
    <3> QED BY <2>1, <3>1 DEF Taken
  <2> QED BY <1>0, <2>2, <2>3, StockStep
<1>2. CASE CheckoutStock(r)
  <2>1. /\ SameBut(r) /\ rq[r].op = "checkout" /\ rq[r].step = "stock"
    BY <1>2, CheckoutStockEffect
  <2>2. PICK p \in Products \cap rq[r].todo :
           /\ stock' = [stock EXCEPT ![p] = @ - rq[r].basket[p]]
           /\ \/ rq'[r].step = "stock" /\ rq'[r].todo = rq[r].todo \ {p}
              \/ rq'[r].step = "order" /\ rq[r].todo = {p}
    BY <1>2, CheckoutStockEffect
  <2>3. UNCHANGED <<items, deaths>>
    BY <1>2 DEF CheckoutStock, bounds
  <2>4. Taken(rq[r], p) = 0 /\ Taken(rq'[r], p) = rq[r].basket[p] /\ stock'[p] = stock[p] - rq[r].basket[p]
    BY <2>1, <2>2 DEF Taken, SameBut, TypeOK
  <2>5. \A d \in Products \ {p} : Taken(rq'[r], d) = Taken(rq[r], d) /\ stock'[d] = stock[d]
    BY <2>1, <2>2 DEF Taken, SameBut, TypeOK
  <2>6. \A d \in Products : stock'[d] + items'[d] + Taken(rq'[r], d) = stock[d] + items[d] + Taken(rq[r], d)
    BY <1>0, <2>2, <2>3, <2>4, <2>5
  <2>7. \A d \in Products : stock[d] + items[d] + Taken(rq[r], d) \in Int
    BY <1>0
  <2> QED BY <1>0, <2>3, <2>6, <2>7, StockStep
<1>3. CASE CheckoutOrder(r)
  <2>1. /\ rq[r].op = "checkout" /\ rq[r].step = "order" /\ rq'[r].op = "checkout" /\ rq'[r].step = "items"
        /\ rq'[r].basket = rq[r].basket /\ rq'[r].todo = InBasket(rq[r].basket)
    BY <1>3, CheckoutOrderEffect DEF SameBut
  <2>2. UNCHANGED <<stock, items, deaths>>
    BY <1>3 DEF CheckoutOrder, bounds
  <2>3. ASSUME NEW p \in Products PROVE Taken(rq'[r], p) = Taken(rq[r], p)
    <3>1. p \notin rq'[r].todo => rq'[r].basket[p] = 0
      BY <1>0, <2>1 DEF InBasket
    <3> QED BY <2>1, <3>1 DEF Taken
  <2> QED BY <1>0, <2>2, <2>3, StockStep
<1>4. CASE CheckoutItem(r)
  <2>1. /\ SameBut(r) /\ rq[r].op = "checkout" /\ rq[r].step = "items"
    BY <1>4, CheckoutItemEffect
  <2>2. PICK p \in Products \cap rq[r].todo :
           /\ items' = [items EXCEPT ![p] = @ + rq[r].basket[p]]
           /\ \/ rq'[r].step = "items" /\ rq'[r].todo = rq[r].todo \ {p}
              \/ rq'[r].step = "clear" /\ rq[r].todo = {p}
    BY <1>4, CheckoutItemEffect
  <2>3. UNCHANGED <<stock, deaths>>
    BY <1>4 DEF CheckoutItem, bounds
  <2>4. Taken(rq'[r], p) = 0 /\ Taken(rq[r], p) = rq[r].basket[p] /\ items'[p] = items[p] + rq[r].basket[p]
    BY <2>1, <2>2 DEF Taken, SameBut, TypeOK
  <2>5. \A d \in Products \ {p} : Taken(rq'[r], d) = Taken(rq[r], d) /\ items'[d] = items[d]
    BY <2>1, <2>2 DEF Taken, SameBut, TypeOK
  <2>6. \A d \in Products : stock'[d] + items'[d] + Taken(rq'[r], d) = stock[d] + items[d] + Taken(rq[r], d)
    BY <1>0, <2>2, <2>3, <2>4, <2>5
  <2>7. \A d \in Products : stock[d] + items[d] + Taken(rq[r], d) \in Int
    BY <1>0
  <2> QED BY <1>0, <2>3, <2>6, <2>7, StockStep
<1>5. CASE Die(r)
  <2>1. rq'[r].op = "none"
    BY <1>5, DieEffect, IdleFacts
  <2>3. UNCHANGED <<stock, items>> /\ deaths' = deaths + 1 /\ deaths \in Nat
    BY <1>5, CommerceAssumption DEF Die, shop, TypeOK
  <2>2. \A p \in Products : Taken(rq'[r], p) = 0
    BY <2>1 DEF Taken
  <2>4. deaths' # 0
    BY <2>3
  <2> QED BY <1>0, <2>2, <2>3, <2>4, StockStep
<1>6. CASE ~ (CheckoutLog(r) \/ CheckoutStock(r) \/ CheckoutOrder(r) \/ CheckoutItem(r) \/ Die(r))
  <2>1. ~ Buying(rq[r]) /\ ~ Buying(rq'[r]) /\ UNCHANGED <<stock, items, deaths>>
    BY <1>6 DEF Follows, Writes
  <2>2. \A p \in Products : Taken(rq[r], p) = 0 /\ Taken(rq'[r], p) = 0
    BY <2>1 DEF Taken, Buying
  <2> QED BY <1>0, <2>1, <2>2, StockStep
<1> QED
  BY <1>1, <1>2, <1>3, <1>4, <1>5, <1>6

\* What a request has seen of the balance it is about to overwrite or to debit.
SeenOf(q) ==
    /\ q.op = "deposit" /\ q.step = "write" /\ q.seen < 0 => <<q.user, "debit">> \in raced
    /\ q.op = "subscribe" /\ q.step = "write" => q.seen >= q.amount
    /\ q.op = "checkout" /\ q.step = "debit" => q.seen >= q.amount
SeenInv == \A r \in Requests : SeenOf(rq[r])

\* Every step keeps what is known of the balances that requests have seen.
LEMMA SeenNext ==
  ASSUME NEW r \in Requests, TypeOK, TypeOK', ShapeInv, SeenInv, OverdraftNeedsRace, Writes(r), Follows(r)
  PROVE  SeenInv'
<1>0. raced \subseteq raced' /\ rq[r] \in Request
  BY DEF Writes, TypeOK
<1>1. SeenOf(rq[r])'
  <2>1. CASE \E u \in Users, n \in Amounts : DepositRead(r, u, n)
    <3>1. PICK u \in Users, n \in Amounts : DepositRead(r, u, n)
      BY <2>1
    <3>2. rq'[r].op = "deposit" /\ rq'[r].user = u /\ rq'[r].seen = balance[u]
      BY <3>1, DepositReadEffect
    <3> QED BY <1>0, <3>2 DEF SeenOf, OverdraftNeedsRace
  <2>2. CASE SubscribeRead(r)
    BY <2>2, SubscribeReadEffect, IdleFacts DEF SeenOf, SameBut
  <2>3. CASE CheckoutBalance(r)
    BY <2>3, CheckoutBalanceEffect, IdleFacts DEF SeenOf, SameBut
  <2>4. CASE rq'[r].step \notin {"write", "debit"}
    BY <2>4 DEF SeenOf
  <2> QED BY <2>1, <2>2, <2>3, <2>4 DEF Follows
<1>2. ASSUME NEW s \in Requests, s # r PROVE SeenOf(rq[s])'
  <2>1. rq'[s] = rq[s] /\ SeenOf(rq[s])
    BY <1>2 DEF Follows, Moved, SeenInv
  <2> QED BY <1>0, <2>1 DEF SeenOf
<1> QED
  BY <1>1, <1>2 DEF SeenInv

\* Every step keeps balances from falling below zero but for the race it records.
LEMMA FloorNext ==
  ASSUME NEW r \in Requests, TypeOK, TypeOK', ShapeInv, SeenInv, OverdraftNeedsRace, Writes(r), Follows(r)
  PROVE  OverdraftNeedsRace'
<1>0. /\ raced \subseteq raced' /\ rq[r].user \in Users /\ rq[r].seen \in Int /\ rq[r].amount \in Nat /\ SeenOf(rq[r])
      /\ \A u \in Users : balance[u] \in Int
  BY DEF Writes, TypeOK, SeenInv, Request
<1> SUFFICES ASSUME NEW u \in Users, balance'[u] < 0 PROVE <<u, "debit">> \in raced'
  BY DEF OverdraftNeedsRace
<1>1. CASE balance'[u] = balance[u]
  BY <1>0, <1>1 DEF OverdraftNeedsRace
<1>2. CASE balance'[u] # balance[u]
  <2>1. CASE DepositWrite(r)
    <3>1. /\ rq[r].op = "deposit" /\ rq[r].step = "write"
          /\ balance' = [balance EXCEPT ![rq[r].user] = rq[r].seen + rq[r].amount]
      BY <2>1 DEF DepositWrite, At, WriteBalance
    <3>2. u = rq[r].user /\ balance'[u] = rq[r].seen + rq[r].amount
      BY <1>0, <1>2, <3>1 DEF TypeOK
    <3>3. rq[r].seen < 0
      BY <1>0, <3>2
    <3> QED BY <1>0, <3>1, <3>2, <3>3 DEF SeenOf
  <2>2. CASE SubscribeWrite(r)
    <3>1. /\ rq[r].op = "subscribe" /\ rq[r].step = "write"
          /\ balance' = [balance EXCEPT ![rq[r].user] = rq[r].seen - rq[r].amount]
      BY <2>2 DEF SubscribeWrite, At, WriteBalance
    <3>2. u = rq[r].user /\ balance'[u] = rq[r].seen - rq[r].amount
      BY <1>0, <1>2, <3>1 DEF TypeOK
    <3>3. rq[r].seen >= rq[r].amount
      BY <1>0, <3>1 DEF SeenOf
    <3> QED BY <1>0, <3>2, <3>3
  <2>3. CASE CheckoutDebit(r)
    <3>1. /\ rq[r].op = "checkout" /\ rq[r].step = "debit"
          /\ balance' = [balance EXCEPT ![rq[r].user] = @ - rq[r].amount]
          /\ raced' = IF balance[rq[r].user] # rq[r].seen THEN raced \cup {<<rq[r].user, "debit">>} ELSE raced
      BY <2>3 DEF CheckoutDebit, At
    <3>2. u = rq[r].user /\ balance'[u] = balance[u] - rq[r].amount
      BY <1>0, <1>2, <3>1 DEF TypeOK
    <3>3. rq[r].seen >= rq[r].amount
      BY <1>0, <3>1 DEF SeenOf
    <3>4. balance[u] # rq[r].seen
      BY <1>0, <3>2, <3>3
    <3> QED BY <3>1, <3>2, <3>4
  <2>4. CASE TopUpCredit(r)
    <3>1. balance' = [balance EXCEPT ![rq[r].user] = @ + rq[r].amount]
      BY <2>4 DEF TopUpCredit
    <3>2. u = rq[r].user /\ balance'[u] = balance[u] + rq[r].amount
      BY <1>0, <1>2, <3>1 DEF TypeOK
    <3>3. balance[u] < 0
      BY <1>0, <3>2
    <3> QED BY <1>0, <3>3 DEF OverdraftNeedsRace
  <2>5. CASE RefundDebit(r)
    <3>1. balance' = [balance EXCEPT ![rq[r].user] = Max({0, @ - rq[r].amount})]
      BY <2>5 DEF RefundDebit
    <3>2. u = rq[r].user /\ balance[u] - rq[r].amount \in Int
      BY <1>0, <1>2, <3>1 DEF TypeOK
    <3>5. balance'[u] = Max({0, balance[u] - rq[r].amount})
      BY <3>1, <3>2 DEF TypeOK
    <3>3. balance'[u] >= 0
      BY <3>2, <3>5, AtLeastZero
    <3>4. balance'[u] \in Int
      BY DEF TypeOK
    <3> QED BY <3>3, <3>4
  <2> QED BY <1>2, <2>1, <2>2, <2>3, <2>4, <2>5 DEF Writes
<1> QED
  BY <1>1, <1>2

------------------------------------------------------------------------------
(* The table of memberships. *)

\* The rows of S are switched off, and the table is otherwise as it was.
SwitchedOff(S) ==
    \A i \in RowIds : /\ members'[i] = NoRow <=> members[i] = NoRow
                      /\ members[i] # NoRow => /\ members'[i].user = members[i].user
                                               /\ members'[i].tier = members[i].tier
                                               /\ members'[i].active <=> members[i].active /\ i \notin S

\* What Deactivated(S) does to the table.
LEMMA DeactivatedRows ==
  ASSUME TypeOK, NEW S, \A i \in S \cap RowIds : members[i] # NoRow, members' = Deactivated(S)
  PROVE  SwitchedOff(S)
<1> SUFFICES ASSUME NEW i \in RowIds
             PROVE  /\ members'[i] = NoRow <=> members[i] = NoRow
                    /\ members[i] # NoRow => /\ members'[i].user = members[i].user
                                             /\ members'[i].tier = members[i].tier
                                             /\ members'[i].active <=> members[i].active /\ i \notin S
  BY DEF SwitchedOff
<1>1. members'[i] = IF i \in S THEN [members[i] EXCEPT !.active = FALSE] ELSE members[i]
  BY DEF Deactivated
<1>2. CASE i \in S
  <2>1. members[i] \in [user : Users, tier : Tiers, active : BOOLEAN] /\ members[i] # NoRow
    BY <1>2 DEF TypeOK, Row
  <2>2. /\ members'[i] \in [user : Users, tier : Tiers, active : BOOLEAN]
        /\ members'[i].user = members[i].user /\ members'[i].tier = members[i].tier /\ members'[i].active = FALSE
    BY <1>1, <1>2, <2>1
  <2> QED BY <1>2, <2>1, <2>2, CommerceAssumption
<1>3. CASE i \notin S
  BY <1>1, <1>3
<1> QED
  BY <1>2, <1>3

\* A step that inserts no membership switches rows off at most.
LEMMA MembersNext ==
  ASSUME NEW r \in Requests, TypeOK, ShapeInv, Writes(r), ~ InsertMembership(r)
  PROVE  \E S : SwitchedOff(S)
<1>0. ASSUME members' = members PROVE SwitchedOff({})
  BY <1>0 DEF SwitchedOff
<1>1. ASSUME NEW u, members' = Deactivated(ActiveRows(u)) PROVE SwitchedOff(ActiveRows(u))
  BY <1>1, DeactivatedRows DEF ActiveRows
<1>2. ASSUME NEW i, members' = Deactivated({i} \cap {k \in RowIds : members[k] # NoRow})
      PROVE  SwitchedOff({i} \cap {k \in RowIds : members[k] # NoRow})
  BY <1>2, DeactivatedRows
<1>3. ASSUME members' # members
      PROVE  \/ \E u : members' = Deactivated(ActiveRows(u))
             \/ \E i : members' = Deactivated({i} \cap {k \in RowIds : members[k] # NoRow})
  <2>1. CASE ActivateDeactivate(r)
    BY <2>1 DEF ActivateDeactivate
  <2>2. CASE DeactivateSubscription(r)
    BY <2>2 DEF DeactivateSubscription
  <2>3. ASSUME NEW u \in Users, CancelMembership(r, u) PROVE members' = Deactivated(ActiveRows(u))
    BY <2>3 DEF CancelMembership
  <2>4. ASSUME NEW u \in Users, NEW t \in Tiers, SubscribeDeactivate(r, u, t) PROVE members' = Deactivated(ActiveRows(u))
    BY <2>4 DEF SubscribeDeactivate
  <2> QED BY <1>3, <2>1, <2>2, <2>3, <2>4 DEF Writes
<1> QED
  BY <1>0, <1>1, <1>2, <1>3

\* The insertion of a membership.
LEMMA Inserted ==
  ASSUME NEW r \in Requests, TypeOK, ShapeInv, InsertMembership(r), rq[r].row \in RowIds
  PROVE  /\ \A i \in RowIds \ {rq[r].row} : members'[i] = members[i]
         /\ members'[rq[r].row] # NoRow /\ members'[rq[r].row].active
         /\ members[rq[r].row] = NoRow => /\ members'[rq[r].row].user = rq[r].user
                                          /\ members'[rq[r].row].tier = rq[r].tier
         /\ members[rq[r].row] # NoRow => /\ members'[rq[r].row].user = members[rq[r].row].user
                                          /\ members'[rq[r].row].tier = members[rq[r].row].tier
<1> DEFINE i == rq[r].row
           new == IF members[i] = NoRow THEN [user |-> rq[r].user, tier |-> rq[r].tier, active |-> TRUE]
                                        ELSE [members[i] EXCEPT !.active = TRUE]
<1>1. members' = [members EXCEPT ![i] = new]
  BY DEF InsertMembership
<1>2. rq[r].user \in Users /\ rq[r].tier \in Tiers /\ members[i] \in Row
  BY DEF TypeOK, Request
<1>3. new \in [user : Users, tier : Tiers, active : BOOLEAN] /\ new.active
      /\ (members[i] = NoRow => new.user = rq[r].user /\ new.tier = rq[r].tier)
      /\ (members[i] # NoRow => new.user = members[i].user /\ new.tier = members[i].tier)
  <2>1. CASE members[i] = NoRow
    BY <1>2, <2>1
  <2>2. CASE members[i] # NoRow
    <3>1. members[i] \in [user : Users, tier : Tiers, active : BOOLEAN]
      BY <1>2, <2>2 DEF Row
    <3> QED BY <2>2, <3>1
  <2> QED BY <2>1, <2>2
<1>4. new # NoRow
  BY <1>3, CommerceAssumption
<1>5. members'[i] = new /\ \A k \in RowIds \ {i} : members'[k] = members[k]
  BY <1>1 DEF TypeOK
<1> HIDE DEF new
<1> QED
  BY <1>3, <1>4, <1>5

\* The row of an activation is Stripe's, the row of a subscription is its own.
LEMMA RowOf ==
  ASSUME NEW r \in Requests, ShapeInv
  PROVE  /\ rq[r].op = "subscribe" => rq[r].row \in 1 .. MaxRequests /\ rq[r].row \in RowIds
         /\ rq[r].op = "activate" => rq[r].row \in RowIds /\ rq[r].row \notin 1 .. MaxRequests
<1>1. Shaped(rq[r])
  BY DEF ShapeInv
<1>2. rq[r].op = "subscribe" => rq[r].row \in 1 .. MaxRequests /\ rq[r].row \in RowIds
  BY <1>1 DEF Shaped, RowIds
<1>3. ASSUME rq[r].op = "activate" PROVE rq[r].row \in Subs
  BY <1>1, <1>3, CommerceAssumption DEF Shaped, EventOps, Subs
<1> QED
  BY <1>2, <1>3, CommerceAssumption DEF RowIds

\* A subscription has a row of its own, which it alone inserts.
FreshInv ==
    /\ \A i \in 1 .. MaxRequests : i > made => members[i] = NoRow
    /\ \A r \in Requests : rq[r].op = "subscribe" => /\ rq[r].row <= made
                                                     /\ rq[r].step # "grant" => members[rq[r].row] = NoRow
    /\ \A r, s \in Requests : rq[r].op = "subscribe" /\ rq[s].op = "subscribe" /\ rq[r].row = rq[s].row => r = s

\* Every step keeps the rows of subscriptions fresh until they are inserted.
LEMMA FreshNext ==
  ASSUME NEW r \in Requests, TypeOK, TypeOK', ShapeInv, FreshInv, Writes(r), Follows(r)
  PROVE  FreshInv'
<1>0. /\ made \in Nat /\ made' \in Nat /\ made' >= made /\ MaxRequests \in Nat
      /\ \A s \in Requests \ {r} : rq'[s] = rq[s]
      /\ 1 .. MaxRequests \subseteq RowIds
  BY CommerceAssumption DEF TypeOK, Writes, Follows, Moved, RowIds
<1>1. \A s \in Requests : rq[s].op = "subscribe" => rq[s].row \in 1 .. MaxRequests
  BY RowOf
<1>2. CASE InsertMembership(r)
  <2>1. /\ rq[r].op \in {"subscribe", "activate"} /\ SameBut(r) /\ rq[r].step = "insert" /\ rq'[r].step = "grant"
    BY <1>2, InsertMembershipEffect
  <2>2. rq[r].row \in RowIds /\ (rq[r].op = "activate" => rq[r].row \notin 1 .. MaxRequests)
    BY <2>1, RowOf
  <2>3. \A i \in RowIds \ {rq[r].row} : members'[i] = members[i]
    BY <1>2, <2>2, Inserted
  <2>4. ASSUME NEW i \in 1 .. MaxRequests, i > made' PROVE members'[i] = NoRow
    <3>1. i > made /\ members[i] = NoRow
      BY <1>0, <2>4 DEF FreshInv
    <3>2. rq[r].op = "subscribe" => rq[r].row <= made /\ rq[r].row \in 1 .. MaxRequests
      BY <1>1 DEF FreshInv
    <3>3. rq[r].row # i
      BY <1>0, <2>1, <2>2, <3>1, <3>2
    <3> QED BY <1>0, <2>3, <3>1, <3>3
  <2>5. ASSUME NEW s \in Requests, rq'[s].op = "subscribe"
        PROVE  /\ rq'[s].row <= made' /\ rq[s].op = "subscribe" /\ rq'[s].row = rq[s].row
               /\ rq'[s].step # "grant" => members'[rq'[s].row] = NoRow
    <3>1. rq[s].op = "subscribe" /\ rq'[s].row = rq[s].row
      BY <1>0, <2>1, <2>5 DEF SameBut
    <3>2. rq[s].row <= made /\ rq[s].row \in 1 .. MaxRequests
      BY <1>1, <3>1 DEF FreshInv
    <3>3. ASSUME rq'[s].step # "grant" PROVE members'[rq[s].row] = NoRow
      <4>1. s # r /\ rq'[s] = rq[s]
        BY <1>0, <2>1, <3>3
      <4>2. members[rq[s].row] = NoRow
        BY <3>1, <3>3, <4>1 DEF FreshInv
      <4>3. rq[s].row # rq[r].row
        BY <2>1, <2>2, <3>1, <3>2, <4>1 DEF FreshInv
      <4> QED BY <1>0, <2>3, <3>2, <4>2, <4>3
    <3> QED BY <1>0, <3>1, <3>2, <3>3
  <2>6. \A s, d \in Requests : rq'[s].op = "subscribe" /\ rq'[d].op = "subscribe" /\ rq'[s].row = rq'[d].row => s = d
    BY <2>5 DEF FreshInv
  <2> QED BY <2>4, <2>5, <2>6 DEF FreshInv
<1>3. CASE ~ InsertMembership(r)
  <2>0. \A i \in RowIds : members[i] = NoRow => members'[i] = NoRow
    BY <1>3, MembersNext DEF SwitchedOff
  <2>1. \A i \in 1 .. MaxRequests : i > made' => members'[i] = NoRow
    BY <1>0, <2>0 DEF FreshInv
  <2>2. CASE \E u \in Users, t \in Tiers : SubscribeDeactivate(r, u, t)
    <3>1. PICK u \in Users, t \in Tiers : SubscribeDeactivate(r, u, t)
      BY <2>2
    <3>2. rq'[r].row = made + 1 /\ made + 1 \in 1 .. MaxRequests
      BY <3>1, SubscribeDeactivateEffect
    <3>3. made' = made + 1
      BY <3>1 DEF SubscribeDeactivate, Arrives
    <3>4. members'[rq'[r].row] = NoRow
      BY <1>0, <2>0, <3>2 DEF FreshInv
    <3>5. \A s \in Requests \ {r} : rq'[s].op = "subscribe" =>
             /\ rq'[s].row <= made /\ rq'[s].row \in 1 .. MaxRequests
             /\ rq'[s].step # "grant" => members'[rq'[s].row] = NoRow
      BY <1>0, <1>1, <2>0 DEF FreshInv
    <3>6. \A s \in Requests : rq'[s].op = "subscribe" => /\ rq'[s].row <= made'
                                                         /\ rq'[s].step # "grant" => members'[rq'[s].row] = NoRow
      BY <1>0, <3>2, <3>3, <3>4, <3>5
    <3>7. ASSUME NEW s \in Requests, NEW d \in Requests, rq'[s].op = "subscribe", rq'[d].op = "subscribe",
                 rq'[s].row = rq'[d].row, s # d
          PROVE  FALSE
      <4>1. s # r => rq'[s].row # made + 1
        BY <1>0, <3>5, <3>7
      <4>2. d # r => rq'[d].row # made + 1
        BY <1>0, <3>5, <3>7
      <4>3. s # r /\ d # r
        BY <3>2, <3>7, <4>1, <4>2
      <4> QED BY <1>0, <3>7, <4>3 DEF FreshInv
    <3> QED BY <2>1, <3>6, <3>7 DEF FreshInv
  <2>3. CASE ~ \E u \in Users, t \in Tiers : SubscribeDeactivate(r, u, t)
    <3>1. \A s \in Requests : rq'[s].op = "subscribe" => /\ rq[s].op = "subscribe" /\ rq'[s].row = rq[s].row
                                                         /\ rq'[s].step # "grant" => rq[s].step # "grant"
      BY <1>0, <2>3 DEF Follows
    <3>2. ASSUME NEW s \in Requests, rq'[s].op = "subscribe"
          PROVE  /\ rq'[s].row <= made'
                 /\ rq'[s].step # "grant" => members'[rq'[s].row] = NoRow
      <4>1. rq[s].row <= made /\ rq[s].row \in 1 .. MaxRequests
        BY <1>1, <3>1, <3>2 DEF FreshInv
      <4>2. rq'[s].step # "grant" => members[rq[s].row] = NoRow
        BY <3>1, <3>2 DEF FreshInv
      <4> QED BY <1>0, <2>0, <3>1, <3>2, <4>1, <4>2
    <3>3. \A s, d \in Requests : rq'[s].op = "subscribe" /\ rq'[d].op = "subscribe" /\ rq'[s].row = rq'[d].row => s = d
      BY <3>1 DEF FreshInv
    <3> QED BY <2>1, <3>2, <3>3 DEF FreshInv
  <2> QED BY <2>2, <2>3
<1> QED
  BY <1>2, <1>3

------------------------------------------------------------------------------
(* The goods paid for with the wallet. *)

\* The rows that were paid for are finitely many, and have prices.
LEMMA PricesType ==
  ASSUME TypeOK, NEW u \in Users
  PROVE  /\ IsFiniteSet(PaidRows(u)) /\ PricesPaid(u) \in Int
         /\ \A i \in PaidRows(u) : TierPrice[members[i].tier] \in Int
<1>1. MaxRequests \in Nat /\ IsFiniteSet(1 .. MaxRequests)
  BY CommerceAssumption, FS_Interval
<1>2. IsFiniteSet(PaidRows(u))
  BY <1>1, FS_Subset DEF PaidRows
<1>3. ASSUME NEW i \in PaidRows(u) PROVE TierPrice[members[i].tier] \in Int
  <2>1. i \in RowIds /\ members[i] # NoRow
    BY DEF PaidRows, RowIds
  <2>2. members[i] \in [user : Users, tier : Tiers, active : BOOLEAN]
    BY <2>1 DEF TypeOK, Row
  <2> QED BY <2>2, CommerceAssumption
<1> DEFINE f == [i \in PaidRows(u) |-> TierPrice[members[i].tier]]
<1>4. \A i \in PaidRows(u) : f[i] \in Int
  BY <1>3
<1>5. PricesPaid(u) = SumOf(f, PaidRows(u))
  BY DEF PricesPaid
<1> HIDE DEF f
<1>6. PricesPaid(u) \in Int
  BY <1>2, <1>4, <1>5, SumTypeAndSplit
<1> QED
  BY <1>2, <1>3, <1>6

\* The prices paid do not change while the rows keep their users and tiers.
LEMMA PricesKept ==
  ASSUME TypeOK, NEW u \in Users,
         \A i \in 1 .. MaxRequests : /\ members'[i] = NoRow <=> members[i] = NoRow
                                     /\ members[i] # NoRow => /\ members'[i].user = members[i].user
                                                              /\ members'[i].tier = members[i].tier
  PROVE  PricesPaid(u)' = PricesPaid(u)
<1>1. PaidRows(u)' = PaidRows(u)
  BY DEF PaidRows
<1>2. \A i \in PaidRows(u) : members'[i].tier = members[i].tier
  BY DEF PaidRows
<1> DEFINE f == [i \in PaidRows(u) |-> TierPrice[members[i].tier]]
           g == [i \in PaidRows(u) |-> TierPrice[members'[i].tier]]
<1>3. f = g
  BY <1>2
<1>4. PricesPaid(u) = SumOf(f, PaidRows(u)) /\ PricesPaid(u)' = SumOf(g, PaidRows(u))
  BY <1>1 DEF PricesPaid
<1> QED
  BY <1>3, <1>4

\* A new row adds its price to those of its user, and to nobody else's.
LEMMA PricesGrow ==
  ASSUME TypeOK, TypeOK', NEW i \in 1 .. MaxRequests, members[i] = NoRow, members'[i] # NoRow,
         \A k \in RowIds \ {i} : members'[k] = members[k], NEW u \in Users
  PROVE  PricesPaid(u)' = PricesPaid(u) + IF members'[i].user = u THEN TierPrice[members'[i].tier] ELSE 0
<1>0. 1 .. MaxRequests \subseteq RowIds /\ i \notin PaidRows(u)
  BY DEF RowIds, PaidRows
<1>1. CASE members'[i].user # u
  <2>1. PaidRows(u)' = PaidRows(u)
    BY <1>0, <1>1 DEF PaidRows
  <2>2. \A k \in PaidRows(u) : members'[k] = members[k]
    BY <1>0 DEF PaidRows
  <2> DEFINE f == [k \in PaidRows(u) |-> TierPrice[members[k].tier]]
             g == [k \in PaidRows(u) |-> TierPrice[members'[k].tier]]
  <2>3. f = g
    BY <2>2
  <2>4. PricesPaid(u) = SumOf(f, PaidRows(u)) /\ PricesPaid(u)' = SumOf(g, PaidRows(u))
    BY <2>1 DEF PricesPaid
  <2>5. PricesPaid(u)' = PricesPaid(u)
    BY <2>3, <2>4
  <2> QED BY <1>1, <2>5, PricesType
<1>2. CASE members'[i].user = u
  <2>1. PaidRows(u)' = PaidRows(u) \cup {i} /\ (PaidRows(u) \cup {i}) \ {i} = PaidRows(u)
    BY <1>0, <1>2 DEF PaidRows
  <2>2. \A k \in PaidRows(u) : members'[k] = members[k]
    BY <1>0 DEF PaidRows
  <2> DEFINE f == [k \in PaidRows(u) |-> TierPrice[members[k].tier]]
             g == [k \in PaidRows(u) \cup {i} |-> TierPrice[members'[k].tier]]
  <2>3. PricesPaid(u) = SumOf(f, PaidRows(u)) /\ PricesPaid(u)' = SumOf(g, PaidRows(u) \cup {i})
    BY <2>1 DEF PricesPaid
  <2>4. members'[i] \in [user : Users, tier : Tiers, active : BOOLEAN]
    BY <1>0 DEF TypeOK, Row
  <2>5. TierPrice[members'[i].tier] \in Int
    BY <2>4, CommerceAssumption
  <2>6. \A k \in PaidRows(u) : f[k] \in Int /\ g[k] = f[k]
    BY <2>2, PricesType
  <2>7. g[i] = TierPrice[members'[i].tier]
    OBVIOUS
  <2> HIDE DEF f, g
  <2>8. IsFiniteSet(PaidRows(u)) /\ IsFiniteSet(PaidRows(u) \cup {i})
    BY PricesType, FS_AddElement
  <2>9. \A k \in PaidRows(u) \cup {i} : g[k] \in Int
    BY <2>5, <2>6, <2>7
  <2>10. SumOf(g, PaidRows(u) \cup {i}) = g[i] + SumOf(g, PaidRows(u))
    BY <2>1, <2>8, <2>9, SumTypeAndSplit
  <2>11. SumOf(f, PaidRows(u)) = SumOf(g, PaidRows(u)) /\ SumOf(f, PaidRows(u)) \in Int
    BY <2>6, <2>8, SumSame, SumTypeAndSplit
  <2> QED BY <1>2, <2>3, <2>5, <2>7, <2>10, <2>11
<1> QED
  BY <1>1, <1>2

\* A logged transaction leaves the sums of the other types alone.
LEMMA TxGrows ==
  ASSUME TypeOK, NEW r \in Requests, Writes(r)
  PROVE  \A u \in Users : /\ tx[u] \in [TxTypes -> Nat] /\ tx[u]["shop"] \in Nat /\ tx[u]["purchase"] \in Nat /\ tx[u]["credit"] \in Nat
                          /\ tx'[u]["credit"] = tx[u]["credit"] + IF TopUpLog(r) /\ rq[r].user = u THEN rq[r].amount ELSE 0
                          /\ tx'[u]["shop"] = tx[u]["shop"] + IF CheckoutLog(r) /\ rq[r].user = u THEN rq[r].amount ELSE 0
                          /\ tx'[u]["purchase"] = tx[u]["purchase"]
                                                    + IF SubscribeLog(r) /\ rq[r].user = u THEN rq[r].amount ELSE 0
<1> SUFFICES ASSUME NEW u \in Users
             PROVE  /\ tx[u] \in [TxTypes -> Nat] /\ tx[u]["shop"] \in Nat /\ tx[u]["purchase"] \in Nat /\ tx[u]["credit"] \in Nat
                    /\ tx'[u]["credit"] = tx[u]["credit"] + IF TopUpLog(r) /\ rq[r].user = u THEN rq[r].amount ELSE 0
                    /\ tx'[u]["shop"] = tx[u]["shop"] + IF CheckoutLog(r) /\ rq[r].user = u THEN rq[r].amount ELSE 0
                    /\ tx'[u]["purchase"] = tx[u]["purchase"]
                                              + IF SubscribeLog(r) /\ rq[r].user = u THEN rq[r].amount ELSE 0
  OBVIOUS
<1>1. tx[u] \in [TxTypes -> Nat] /\ rq[r].user \in Users /\ rq[r].amount \in Nat
  BY DEF TypeOK, Request
<1>2. tx[u]["shop"] \in Nat /\ tx[u]["purchase"] \in Nat /\ tx[u]["credit"] \in Nat
  BY <1>1 DEF TxTypes
<1>3. ASSUME NEW type \in TxTypes, AddTx(rq[r].user, type, rq[r].amount)
      PROVE  /\ tx'[u]["credit"] = tx[u]["credit"] + IF type = "credit" /\ rq[r].user = u THEN rq[r].amount ELSE 0
             /\ tx'[u]["shop"] = tx[u]["shop"] + IF type = "shop" /\ rq[r].user = u THEN rq[r].amount ELSE 0
             /\ tx'[u]["purchase"] = tx[u]["purchase"] + IF type = "purchase" /\ rq[r].user = u THEN rq[r].amount ELSE 0
  <2>1. tx' = [tx EXCEPT ![rq[r].user][type] = @ + rq[r].amount]
    BY <1>3 DEF AddTx
  <2>2. CASE u # rq[r].user
    BY <1>2, <2>1, <2>2 DEF TypeOK
  <2>3. CASE u = rq[r].user
    <3>1. tx'[u] = [tx[u] EXCEPT ![type] = @ + rq[r].amount]
      BY <2>1, <2>3 DEF TypeOK
    <3> QED BY <1>1, <1>2, <2>3, <3>1 DEF TxTypes
  <2> QED BY <2>2, <2>3
<1>4. \A type \in {"deposit", "purchase", "credit", "shop", "refund"} : type \in TxTypes
  BY DEF TxTypes
<1>5. /\ CheckoutLog(r) => AddTx(rq[r].user, "shop", rq[r].amount) /\ rq[r].op = "checkout"
      /\ SubscribeLog(r) => AddTx(rq[r].user, "purchase", rq[r].amount) /\ rq[r].op = "subscribe"
      /\ DepositLog(r) => AddTx(rq[r].user, "deposit", rq[r].amount) /\ rq[r].op = "deposit"
      /\ TopUpLog(r) => AddTx(rq[r].user, "credit", rq[r].amount) /\ rq[r].op = "topup"
      /\ RefundLog(r) => AddTx(rq[r].user, "refund", rq[r].amount) /\ rq[r].op = "refund"
  BY DEF CheckoutLog, SubscribeLog, DepositLog, TopUpLog, RefundLog, At
<1>6. CASE tx' = tx
  BY <1>1, <1>2, <1>3, <1>4, <1>5, <1>6
<1>7. CASE tx' # tx
  BY <1>1, <1>2, <1>3, <1>4, <1>5, <1>7 DEF Writes
<1> QED
  BY <1>1, <1>2, <1>6, <1>7

\* A subscription that was paid for is inserted next, or dies.
PaidFor(r) == rq[r].op = "subscribe" /\ rq[r].step = "insert"
LEMMA PaidIsInserted ==
  ASSUME NEW r \in Requests, Step(r), PaidFor(r) PROVE InsertMembership(r) \/ Die(r)
<1>1. rq[r] # Idle
  BY IdleFacts DEF PaidFor
<1>2. ~ UserRequest(r)
  BY <1>1 DEF UserRequest, DepositRead, SubscribeDeactivate, CancelMembership, CartRead, CartClear, CheckoutRead, Arrives
<1>3. ~ \E e \in Events : Deliver(r, e)
  BY <1>1 DEF Deliver, Arrives
<1>4. Statement(r) => InsertMembership(r)
  BY DEF PaidFor, Statement, DepositWrite, DepositLog, SubscribeRead, SubscribeWrite, SubscribeLog, Grant, CartPut,
         CheckoutBalance, CheckoutDebit, CheckoutLog, CheckoutStock, CheckoutOrder, CheckoutItem, CheckoutClear,
         TopUpCredit, TopUpLog, ActivateDeactivate, DeactivateSubscription, RefundDebit, RefundLog, At
<1> QED BY <1>2, <1>3, <1>4 DEF Step

\* Every step keeps the payments ahead of the goods.
LEMMA PaidNext ==
  ASSUME NEW r \in Requests, TypeOK, TypeOK', ShapeInv, PaidInv, FreshInv, Writes(r), Follows(r),
         PaidFor(r) => InsertMembership(r) \/ Die(r)
  PROVE  PaidInv'
<1>0. /\ Moved(r) /\ rq[r].amount \in Nat /\ rq[r].user \in Users
      /\ \A u \in Users : /\ orders[u] \in Nat /\ PricesPaid(u) \in Int
                          /\ Ordering(rq[r], u) \in Nat /\ Joining(rq[r], u) \in Nat
                          /\ Ordering(rq'[r], u) \in Nat /\ Joining(rq'[r], u) \in Nat
  BY TermTypes, PricesType DEF TypeOK, Follows, Request
<1>1. \A u \in Users : /\ tx[u]["shop"] \in Nat /\ tx[u]["purchase"] \in Nat
                       /\ tx'[u]["shop"] = tx[u]["shop"] + IF CheckoutLog(r) /\ rq[r].user = u THEN rq[r].amount ELSE 0
                       /\ tx'[u]["purchase"] = tx[u]["purchase"]
                                                 + IF SubscribeLog(r) /\ rq[r].user = u THEN rq[r].amount ELSE 0
  BY TxGrows
<1>2. 1 .. MaxRequests \subseteq RowIds
  BY DEF RowIds
<1>3. ASSUME ~ InsertMembership(r), NEW u \in Users PROVE PricesPaid(u)' = PricesPaid(u)
  <2>1. \A i \in 1 .. MaxRequests : /\ members'[i] = NoRow <=> members[i] = NoRow
                                    /\ members[i] # NoRow => /\ members'[i].user = members[i].user
                                                             /\ members'[i].tier = members[i].tier
    BY <1>2, <1>3, MembersNext DEF SwitchedOff
  <2> QED BY <2>1, PricesKept
<1>6. deaths \in Nat /\ (deaths' = 0 => deaths = 0 /\ ~ Die(r))
  BY CommerceAssumption DEF Writes, Die, TypeOK
<1> SUFFICES ASSUME NEW u \in Users
             PROVE  /\ OrderLag(r, u)' <= OrderLag(r, u) /\ (deaths' = 0 => OrderLag(r, u)' = OrderLag(r, u))
                    /\ PricesPaid(u)' \in Int
                    /\ JoinLag(r, u)' <= JoinLag(r, u) /\ (deaths' = 0 => JoinLag(r, u)' = JoinLag(r, u))
  BY <1>0, <1>6, PaidStep
<1>4. OrderLag(r, u)' <= OrderLag(r, u) /\ (deaths' = 0 => OrderLag(r, u)' = OrderLag(r, u))
  <2>1. CASE CheckoutLog(r)
    <3>1. /\ rq[r].step = "log" /\ rq'[r].op = "checkout" /\ rq'[r].step = "stock"
          /\ rq'[r].user = rq[r].user /\ rq'[r].amount = rq[r].amount
      BY <2>1, CheckoutLogEffect DEF SameBut
    <3>2. orders' = orders
      BY <2>1 DEF CheckoutLog, shop
    <3>3. Ordering(rq[r], u) = 0 /\ Ordering(rq'[r], u) = IF rq[r].user = u THEN rq[r].amount ELSE 0
      BY <3>1 DEF Ordering
    <3>4. tx'[u]["shop"] = tx[u]["shop"] + IF rq[r].user = u THEN rq[r].amount ELSE 0
      BY <1>1, <2>1
    <3> QED BY <1>0, <1>1, <3>2, <3>3, <3>4 DEF OrderLag
  <2>2. CASE CheckoutOrder(r)
    <3>1. /\ rq[r].op = "checkout" /\ rq[r].step = "order" /\ rq'[r].step = "items"
      BY <2>2, CheckoutOrderEffect DEF SameBut
    <3>2. orders'[u] = orders[u] + IF rq[r].user = u THEN rq[r].amount ELSE 0
      BY <1>0, <2>2 DEF CheckoutOrder, TypeOK
    <3>3. Ordering(rq'[r], u) = 0 /\ Ordering(rq[r], u) = IF rq[r].user = u THEN rq[r].amount ELSE 0
      BY <3>1 DEF Ordering
    <3>4. tx'[u]["shop"] = tx[u]["shop"]
      <4>1. ~ CheckoutLog(r)
        BY <3>1 DEF CheckoutLog, At
      <4> QED BY <1>1, <4>1
    <3> QED BY <1>0, <1>1, <3>2, <3>3, <3>4 DEF OrderLag
  <2>3. CASE ~ CheckoutLog(r) /\ ~ CheckoutOrder(r)
    <3>1. orders' = orders /\ tx'[u]["shop"] = tx[u]["shop"]
      BY <1>1, <2>3 DEF Writes
    <3>2. /\ Ordering(rq'[r], u) <= Ordering(rq[r], u)
          /\ ~ Die(r) => Ordering(rq'[r], u) = Ordering(rq[r], u)
      <4>1. CASE CheckoutStock(r)
        <5>1. rq[r].op = "checkout" /\ rq[r].step = "stock"
          BY <4>1 DEF CheckoutStock, At
        <5> QED BY <1>0, <4>1, <5>1, CheckoutStockEffect DEF SameBut, Ordering
      <4>2. CASE CheckoutItem(r)
        <5>1. rq'[r].step \in {"items", "clear"}
          BY <4>2, CheckoutItemEffect
        <5>2. rq[r].step = "items"
          BY <4>2 DEF CheckoutItem, At
        <5>3. Ordering(rq'[r], u) = 0 /\ Ordering(rq[r], u) = 0
          BY <5>1, <5>2 DEF Ordering
        <5> QED BY <1>0, <5>3
      <4>3. CASE ~ CheckoutStock(r) /\ ~ CheckoutItem(r)
        <5>1. ~ Buying(rq'[r]) /\ (~ Die(r) => ~ Buying(rq[r]))
          BY <2>3, <4>3 DEF Follows
        <5>2. Ordering(rq'[r], u) = 0 /\ (~ Die(r) => Ordering(rq[r], u) = 0)
          BY <5>1 DEF Ordering, Buying
        <5> QED BY <1>0, <5>2
      <4> QED BY <4>1, <4>2, <4>3
    <3> QED BY <1>0, <1>1, <1>6, <3>1, <3>2 DEF OrderLag
  <2> QED BY <2>1, <2>2, <2>3
<1>5. /\ PricesPaid(u)' \in Int
      /\ JoinLag(r, u)' <= JoinLag(r, u) /\ (deaths' = 0 => JoinLag(r, u)' = JoinLag(r, u))
  <2>1. CASE InsertMembership(r)
    <3>1. /\ rq[r].op \in {"subscribe", "activate"} /\ rq[r].step = "insert" /\ rq'[r].step = "grant"
      BY <2>1, InsertMembershipEffect
    <3>2. Joining(rq'[r], u) = 0
      BY <3>1 DEF Joining
    <3>3. tx'[u]["purchase"] = tx[u]["purchase"]
      <4>1. ~ SubscribeLog(r)
        BY <3>1 DEF SubscribeLog, At
      <4> QED BY <1>1, <4>1
    <3>4. rq[r].row \in RowIds
      BY <3>1, RowOf
    <3>5. CASE rq[r].op = "activate"
      <4>1. \A i \in 1 .. MaxRequests : members'[i] = members[i]
        BY <1>2, <2>1, <3>4, <3>5, Inserted, RowOf
      <4>2. PricesPaid(u)' = PricesPaid(u)
        BY <4>1, PricesKept
      <4>3. Joining(rq[r], u) = 0
        BY <3>5 DEF Joining
      <4> QED BY <1>0, <1>1, <3>2, <3>3, <4>2, <4>3 DEF JoinLag
    <3>6. CASE rq[r].op = "subscribe"
      <4>1. rq[r].row \in 1 .. MaxRequests /\ members[rq[r].row] = NoRow
        BY <3>1, <3>6, RowOf DEF FreshInv
      <4>2. /\ members'[rq[r].row] # NoRow /\ \A k \in RowIds \ {rq[r].row} : members'[k] = members[k]
            /\ members'[rq[r].row].user = rq[r].user /\ members'[rq[r].row].tier = rq[r].tier
        BY <2>1, <3>4, <4>1, Inserted
      <4>3. PricesPaid(u)' = PricesPaid(u) + IF rq[r].user = u THEN TierPrice[rq[r].tier] ELSE 0
        BY <4>1, <4>2, PricesGrow
      <4>4. rq[r].amount = TierPrice[rq[r].tier]
        BY <3>6 DEF ShapeInv, Shaped
      <4>5. Joining(rq[r], u) = IF rq[r].user = u THEN TierPrice[rq[r].tier] ELSE 0
        BY <3>1, <3>6, <4>4 DEF Joining
      <4> QED BY <1>0, <1>1, <3>2, <3>3, <4>3, <4>4, <4>5 DEF JoinLag
    <3> QED BY <3>1, <3>5, <3>6
  <2>2. CASE SubscribeLog(r)
    <3>1. /\ rq[r].op = "subscribe" /\ rq[r].step = "log" /\ rq'[r].op = "subscribe" /\ rq'[r].step = "insert"
          /\ rq'[r].user = rq[r].user /\ rq'[r].amount = rq[r].amount
      BY <2>2, SubscribeLogEffect DEF SameBut
    <3>2. ~ InsertMembership(r)
      BY <3>1 DEF InsertMembership
    <3>3. Joining(rq[r], u) = 0 /\ Joining(rq'[r], u) = IF rq[r].user = u THEN rq[r].amount ELSE 0
      BY <3>1 DEF Joining
    <3>4. tx'[u]["purchase"] = tx[u]["purchase"] + IF rq[r].user = u THEN rq[r].amount ELSE 0
      BY <1>1, <2>2
    <3> QED BY <1>0, <1>1, <1>3, <3>2, <3>3, <3>4 DEF JoinLag
  <2>3. CASE ~ InsertMembership(r) /\ ~ SubscribeLog(r)
    <3>1. Joining(rq'[r], u) = 0
      <4>1. CASE \E v \in Users, t \in Tiers : SubscribeDeactivate(r, v, t)
        <5>1. rq'[r].step = "insert" => rq'[r].amount = 0
          BY <4>1, SubscribeDeactivateEffect
        <5> QED BY <5>1 DEF Joining
      <4>2. CASE ~ \E v \in Users, t \in Tiers : SubscribeDeactivate(r, v, t)
        <5>1. rq'[r].op = "subscribe" => rq'[r].step # "insert"
          BY <2>3, <4>2 DEF Follows
        <5> QED BY <5>1 DEF Joining
      <4> QED BY <4>1, <4>2
    <3>2. tx'[u]["purchase"] = tx[u]["purchase"]
      BY <1>1, <2>3
    <3>3. deaths' = 0 => Joining(rq[r], u) = 0
      BY <1>6, <2>3 DEF Joining, PaidFor
    <3> QED BY <1>0, <1>1, <1>3, <2>3, <3>1, <3>2, <3>3 DEF JoinLag
  <2> QED BY <2>1, <2>2, <2>3
<1> QED
  BY <1>4, <1>5

------------------------------------------------------------------------------
(* Acknowledgements, one membership at a time, and cancellations. *)

\* Every step keeps the acknowledged top-ups within the transactions.
LEMMA AckNext ==
  ASSUME NEW r \in Requests, TypeOK, TypeOK', ShapeInv, AckMeansApplied, Writes(r), Follows(r),
         Acknowledges(r), UNCHANGED found
  PROVE  AckMeansApplied'
<1> DEFINE f == [e \in Events |-> e.amount]
<1>0. \A S \in SUBSET Events : IsFiniteSet(S) /\ \A e \in S : f[e] \in Int
  BY CommerceAssumption, FS_Subset
<1>1. ASSUME NEW u \in Users
      PROVE  /\ AckedTopUps(u) \in SUBSET Events /\ AckedTopUps(u)' \in SUBSET Events
             /\ SumOf(f, AckedTopUps(u)) \in Int /\ SumOf(f, AckedTopUps(u)) <= tx[u]["credit"]
             /\ tx[u]["credit"] \in Nat /\ rq[r].amount \in Nat
             /\ tx'[u]["credit"] = tx[u]["credit"] + IF TopUpLog(r) /\ rq[r].user = u THEN rq[r].amount ELSE 0
  <2>1. AckedTopUps(u) \in SUBSET Events /\ AckedTopUps(u)' \in SUBSET Events
    BY DEF AckedTopUps, TypeOK
  <2>2. SumOf(f, AckedTopUps(u)) <= tx[u]["credit"]
    BY DEF AckMeansApplied
  <2>3. SumOf(f, AckedTopUps(u)) \in Int
    <3> HIDE DEF f
    <3> QED BY <1>0, <2>1, SumTypeAndSplit
  <2>4. rq[r].amount \in Nat
    BY DEF TypeOK, Request
  <2> QED BY <2>1, <2>2, <2>3, <2>4, TxGrows
<1> SUFFICES ASSUME NEW u \in Users PROVE SumOf(f, AckedTopUps(u)') <= tx'[u]["credit"]
  BY DEF AckMeansApplied
<1>2. f = [e \in Events |-> e.amount]
  OBVIOUS
<1> HIDE DEF f
<1>3. CASE AckedTopUps(u)' = AckedTopUps(u)
  BY <1>1, <1>3
<1>4. CASE AckedTopUps(u)' # AckedTopUps(u)
  <2>0. PICK e : e = rq[r].event
    OBVIOUS
  <2>1. e # NoRow /\ acked' = acked \cup {e} /\ (rq[r].op = "topup" => TopUpLog(r))
    BY <1>4, <2>0 DEF AckedTopUps, Acknowledges, found
  <2>2. e \in Events /\ e.kind = rq[r].op /\ e.user = rq[r].user /\ e.amount = rq[r].amount
    BY <2>0, <2>1 DEF ShapeInv, Shaped
  <2>3. e \notin acked /\ e.kind = "topup" /\ e.user = u /\ AckedTopUps(u)' = AckedTopUps(u) \cup {e} /\ e \notin AckedTopUps(u)
    BY <1>4, <2>1 DEF AckedTopUps, found
  <2>4. tx'[u]["credit"] = tx[u]["credit"] + rq[r].amount
    BY <1>1, <2>1, <2>2, <2>3
  <2>8. PICK S : S = AckedTopUps(u)'
    OBVIOUS
  <2>5. S \in SUBSET Events /\ S \ {e} = AckedTopUps(u) /\ e \in S
    BY <1>1, <2>2, <2>3, <2>8
  <2>9. IsFiniteSet(S) /\ \A d \in S : f[d] \in Int
    BY <1>0, <2>5
  <2>6. SumOf(f, S) = f[e] + SumOf(f, S \ {e})
    BY <2>5, <2>9, SumTypeAndSplit
  <2>7. f[e] = rq[r].amount
    BY <1>2, <2>2
  <2>10. PICK w : w = SumOf(f, AckedTopUps(u))
    OBVIOUS
  <2>11. SumOf(f, S) = rq[r].amount + w
    BY <2>5, <2>6, <2>7, <2>10
  <2>12. w \in Int /\ w <= tx[u]["credit"] /\ tx[u]["credit"] \in Nat /\ rq[r].amount \in Nat
    BY <1>1, <2>10
  <2>13. SumOf(f, S) <= tx'[u]["credit"]
    BY <2>4, <2>11, <2>12
  <2> QED BY <2>8, <2>13
<1> QED
  BY <1>3, <1>4

\* The row of a subscription is its customer's.
RowInv == \A e \in Events : e.sub # NoRow /\ members[e.sub] # NoRow => members[e.sub].user = e.user

\* Every step keeps the rows of subscriptions with their customers.
LEMMA RowNext ==
  ASSUME NEW r \in Requests, TypeOK, TypeOK', ShapeInv, RowInv, Writes(r), Follows(r)
  PROVE  RowInv'
<1> SUFFICES ASSUME NEW e \in Events, e.sub # NoRow, members'[e.sub] # NoRow
             PROVE  members'[e.sub].user = e.user
  BY DEF RowInv
<1>1. e.sub \in RowIds /\ e.sub \in Subs /\ e.sub \notin 1 .. MaxRequests
  BY CommerceAssumption DEF RowIds, Subs
<1>2. CASE InsertMembership(r)
  <2>1. rq[r].op \in {"subscribe", "activate"} /\ rq[r].row \in RowIds
    BY <1>2, InsertMembershipEffect, RowOf
  <2>2. CASE rq[r].row # e.sub
    <3>1. members'[e.sub] = members[e.sub]
      BY <1>1, <1>2, <2>1, <2>2, Inserted
    <3> QED BY <3>1 DEF RowInv
  <2>3. CASE rq[r].row = e.sub
    <3>1. rq[r].op = "activate"
      BY <1>1, <2>1, <2>3, RowOf
    <3>2. rq[r].event \in Events /\ rq[r].event.sub = e.sub /\ rq[r].event.user = rq[r].user
      BY <2>3, <3>1 DEF ShapeInv, Shaped, EventOps
    <3>3. rq[r].user = e.user
      BY <3>2, CommerceAssumption
    <3>4. members[e.sub] # NoRow => members[e.sub].user = e.user
      BY DEF RowInv
    <3> QED BY <1>2, <2>1, <2>3, <3>3, <3>4, Inserted
  <2> QED BY <2>2, <2>3
<1>3. CASE ~ InsertMembership(r)
  <2>1. members[e.sub] # NoRow /\ members'[e.sub].user = members[e.sub].user
    BY <1>1, <1>3, MembersNext DEF SwitchedOff
  <2> QED BY <2>1 DEF RowInv
<1> QED
  BY <1>2, <1>3

\* While only one request activates a membership for a user, the user has no
\* active one, and has one at most after it.
OneInv ==
    /\ \A u \in Users \ crossed : \A i, j \in ActiveRows(u) : i = j
    /\ \A r, s \in Requests : Activating(r) /\ rq[r].user \notin crossed =>
           /\ ActiveRows(rq[r].user) = {}
           /\ Activating(s) /\ rq[s].user = rq[r].user => s = r

\* Switching rows off leaves no more active, and none of those it names.
LEMMA FewerActive ==
  ASSUME NEW S, SwitchedOff(S), NEW u
  PROVE  ActiveRows(u)' \subseteq ActiveRows(u) /\ (S = ActiveRows(u) => ActiveRows(u)' = {})
  BY DEF SwitchedOff, ActiveRows

\* Every step keeps one active membership at most, but for activations that cross.
LEMMA OneNext ==
  ASSUME NEW r \in Requests, TypeOK, TypeOK', ShapeInv, OneInv, RowInv, FreshInv, Writes(r), Follows(r)
  PROVE  OneInv'
<1>0. /\ \A s \in Requests \ {r} : rq'[s] = rq[s] /\ (Activating(s)' <=> Activating(s))
      /\ rq[r].user \in Users
  BY DEF Follows, Moved, Activating, TypeOK, Request
\* A step by which a request begins an activation of u.
<1>1. ASSUME NEW u \in Users, members' = Deactivated(ActiveRows(u)), MarkCrossed(r, u), rq'[r].user = u
      PROVE  OneInv'
  <2>1. SwitchedOff(ActiveRows(u))
    BY <1>1, DeactivatedRows DEF ActiveRows
  <2>2. ActiveRows(u)' = {} /\ \A v \in Users : ActiveRows(v)' \subseteq ActiveRows(v)
    BY <2>1, FewerActive
  <2>3. crossed \subseteq crossed' /\ (u \notin crossed' => \A s \in Requests \ {r} : ~ (Activating(s) /\ rq[s].user = u))
    BY <1>1 DEF MarkCrossed
  <2>4. \A v \in Users \ crossed' : \A i, j \in ActiveRows(v)' : i = j
    BY <2>2, <2>3 DEF OneInv
  <2>5. ASSUME NEW d \in Requests, Activating(d)', rq'[d].user \notin crossed'
        PROVE  /\ ActiveRows(rq[d].user)' = {}
               /\ \A s \in Requests : Activating(s)' /\ rq'[s].user = rq'[d].user => s = d
    <3>1. CASE d = r
      BY <1>0, <1>1, <2>2, <2>3, <2>5, <3>1
    <3>2. CASE d # r
      <4>1. Activating(d) /\ rq[d] = rq'[d] /\ rq[d].user \notin crossed
        BY <1>0, <2>3, <2>5, <3>2
      <4>2. rq[d].user # u
        BY <1>1, <2>3, <2>5, <3>2, <4>1
      <4>3. rq[d].user \in Users
        BY DEF TypeOK, Request
      <4> QED BY <1>0, <1>1, <2>2, <4>1, <4>2, <4>3 DEF OneInv
    <3> QED BY <3>1, <3>2
  <2> QED BY <2>4, <2>5 DEF OneInv
<1>2. CASE \E u \in Users, t \in Tiers : SubscribeDeactivate(r, u, t)
  <2>1. PICK u \in Users, t \in Tiers : SubscribeDeactivate(r, u, t)
    BY <1>2
  <2>2. members' = Deactivated(ActiveRows(u)) /\ MarkCrossed(r, u)
    BY <2>1 DEF SubscribeDeactivate
  <2>3. rq'[r].user = u
    BY <2>1, SubscribeDeactivateEffect
  <2> QED BY <1>1, <2>2, <2>3
<1>3. CASE ActivateDeactivate(r)
  <2>1. members' = Deactivated(ActiveRows(rq[r].user)) /\ MarkCrossed(r, rq[r].user)
    BY <1>3 DEF ActivateDeactivate
  <2>2. rq'[r].user = rq[r].user
    BY <1>3, ActivateDeactivateEffect DEF SameBut
  <2> QED BY <1>0, <1>1, <2>1, <2>2
<1>4. CASE InsertMembership(r)
  <2>1. /\ rq[r].op \in {"subscribe", "activate"} /\ rq[r].step = "insert" /\ rq'[r].step = "grant"
        /\ rq'[r].user = rq[r].user /\ rq[r].row \in RowIds
    BY <1>4, InsertMembershipEffect, RowOf DEF SameBut
  <2>2. crossed' = crossed
    BY <1>4 DEF InsertMembership, history
  <2>3. Activating(r) /\ ~ Activating(r)'
    BY <2>1 DEF Activating
  <2>4. members'[rq[r].row].user = rq[r].user
    <3>1. CASE members[rq[r].row] = NoRow
      BY <1>4, <2>1, <3>1, Inserted
    <3>2. CASE members[rq[r].row] # NoRow
      <4>1. members'[rq[r].row].user = members[rq[r].row].user
        BY <1>4, <2>1, <3>2, Inserted
      <4>2. CASE rq[r].op = "activate"
        <5>1. /\ rq[r].event \in Events /\ rq[r].event.sub = rq[r].row /\ rq[r].event.user = rq[r].user
              /\ rq[r].event.kind = "activate"
          BY <4>2 DEF ShapeInv, Shaped, EventOps
        <5>2. rq[r].event.sub # NoRow
          BY <5>1, CommerceAssumption
        <5> QED BY <3>2, <4>1, <5>1, <5>2 DEF RowInv
      <4>3. CASE rq[r].op = "subscribe"
        BY <2>1, <3>2, <4>3 DEF FreshInv
      <4> QED BY <2>1, <4>2, <4>3
    <3> QED BY <3>1, <3>2
  <2>5. \A v \in Users \ {rq[r].user} : ActiveRows(v)' \subseteq ActiveRows(v)
    BY <1>4, <2>1, <2>4, Inserted DEF ActiveRows
  <2>6. ActiveRows(rq[r].user)' \subseteq ActiveRows(rq[r].user) \cup {rq[r].row}
    BY <1>4, <2>1, Inserted DEF ActiveRows
  <2>9. rq[r].user \notin crossed => ActiveRows(rq[r].user)' \subseteq {rq[r].row}
    BY <2>3, <2>6 DEF OneInv
  <2>7. \A v \in Users \ crossed' : \A i, j \in ActiveRows(v)' : i = j
    <3> SUFFICES ASSUME NEW v \in Users, v \notin crossed', NEW i \in ActiveRows(v)', NEW j \in ActiveRows(v)'
                 PROVE  i = j
      OBVIOUS
    <3>1. CASE v = rq[r].user
      BY <2>1, <2>2, <2>9, <3>1
    <3>2. CASE v # rq[r].user
      <4>1. i \in ActiveRows(v) /\ j \in ActiveRows(v) /\ v \notin crossed
        BY <2>2, <2>5, <3>2
      <4> QED BY <4>1 DEF OneInv
    <3> QED BY <3>1, <3>2
  <2>8. ASSUME NEW d \in Requests, Activating(d)', rq'[d].user \notin crossed'
        PROVE  /\ ActiveRows(rq[d].user)' = {}
               /\ \A s \in Requests : Activating(s)' /\ rq'[s].user = rq'[d].user => s = d
    <3>1. d # r /\ Activating(d) /\ rq'[d] = rq[d] /\ rq[d].user \notin crossed /\ rq[d].user \in Users
      BY <1>0, <2>2, <2>3, <2>8 DEF TypeOK, Request
    <3>2. rq[d].user # rq[r].user
      BY <2>3, <3>1 DEF OneInv
    <3> QED BY <1>0, <2>3, <2>5, <3>1, <3>2 DEF OneInv
  <2> QED BY <2>7, <2>8 DEF OneInv
<1>5. CASE ~ (InsertMembership(r) \/ ActivateDeactivate(r) \/ \E u \in Users, t \in Tiers : SubscribeDeactivate(r, u, t))
  <2>1. \A v \in Users : ActiveRows(v)' \subseteq ActiveRows(v)
    BY <1>5, MembersNext, FewerActive
  <2>2. crossed' = crossed
    BY <1>5 DEF Writes
  <2>3. Activating(r)' => Activating(r) /\ rq'[r].user = rq[r].user
    <3>1. Shaped(rq[r])' /\ rq'[r] \in Request /\ Shaped(rq[r]) /\ rq[r] \in Request
      BY DEF Follows, Moved, TypeOK, ShapeInv
    <3>2. rq[r].op = "subscribe" => rq[r].step \in {"read", "write", "log", "insert", "grant"}
      BY <3>1 DEF Shaped, StepsOf
    <3>3. rq'[r].op = "activate" => rq'[r].step \in {"deactivate", "insert", "grant"}
      BY <3>1 DEF Shaped, StepsOf
    <3>4. rq'[r].op = "subscribe" => /\ rq[r].op = "subscribe" /\ rq'[r].user = rq[r].user
                                     /\ rq'[r].step # "grant" => rq[r].step # "grant"
      BY <1>5 DEF Follows
    <3>5. rq'[r].op = "activate" => rq'[r].step # "insert"
      BY <1>5 DEF Follows
    <3> QED BY <3>2, <3>3, <3>4, <3>5 DEF Activating
  <2>4. \A v \in Users \ crossed' : \A i, j \in ActiveRows(v)' : i = j
    BY <2>1, <2>2 DEF OneInv
  <2>5. ASSUME NEW d \in Requests, Activating(d)', rq'[d].user \notin crossed'
        PROVE  /\ ActiveRows(rq[d].user)' = {}
               /\ \A s \in Requests : Activating(s)' /\ rq'[s].user = rq'[d].user => s = d
    <3>1. Activating(d) /\ rq'[d].user = rq[d].user /\ rq[d].user \notin crossed /\ rq[d].user \in Users
      BY <1>0, <2>2, <2>3, <2>5 DEF TypeOK, Request
    <3>2. \A s \in Requests : Activating(s)' /\ rq'[s].user = rq'[d].user => Activating(s) /\ rq[s].user = rq[d].user
      BY <1>0, <2>3, <3>1
    <3> QED BY <2>1, <3>1, <3>2 DEF OneInv
  <2> QED BY <2>4, <2>5 DEF OneInv
<1> QED
  BY <1>2, <1>3, <1>4, <1>5

\* While the newest event of a subscription is a cancellation that nothing
\* crossed, whatever is being served for the subscription is that event.
LateInv ==
    /\ acked \ passed \subseteq begun
    /\ \A r \in Requests : rq[r].event # NoRow => rq[r].event \in begun
    /\ \A e \in begun : e.kind = "deactivate" /\ Newest(e) /\ e.sub \notin late =>
          \A r \in Requests : rq[r].event # NoRow /\ rq[r].event.sub = e.sub => rq[r].event = e

\* Every step keeps the events of a subscription apart, but for those it records.
LEMMA LateNext ==
  ASSUME NEW r \in Requests, TypeOK, TypeOK', ShapeInv, LateInv, Writes(r), Follows(r),
         Acknowledges(r), UNCHANGED found
  PROVE  LateInv'
<1>0. /\ \A s \in Requests \ {r} : rq'[s] = rq[s]
      /\ rq'[r].event # NoRow => rq'[r].event = rq[r].event \/ Deliver(r, rq'[r].event)
      /\ rq'[r].event \in Events \cup {NoRow} /\ \A s \in Requests : rq[s].event \in Events \cup {NoRow}
      /\ acked' # acked => rq[r].event # NoRow /\ acked' = acked \cup {rq[r].event}
  BY DEF Follows, Acknowledges, Moved, TypeOK, Request
<1>f. passed' = passed
  BY DEF found
<1>1. CASE \E e \in Events : Deliver(r, e)
  <2>1. PICK e0 \in Events : Deliver(r, e0)
    BY <1>1
  <2>2. rq'[r].event = e0
    BY <2>1, DeliverEffect
  <2>3. /\ begun' = begun \cup {e0} /\ acked' = acked
        /\ late' = IF \E d \in Events : /\ d.sub = e0.sub
                                        /\ InFlight(d) \/ (d \in begun /\ d.seq > e0.seq)
                   THEN late \cup {e0.sub} ELSE late
    BY <2>1 DEF Deliver
  <2>4. acked' \ passed' \subseteq begun' /\ \A s \in Requests : rq'[s].event # NoRow => rq'[s].event \in begun'
    BY <1>0, <1>f, <2>2, <2>3 DEF LateInv
  <2>5. ASSUME NEW e \in begun', e.kind = "deactivate", Newest(e)', e.sub \notin late',
               NEW s \in Requests, rq'[s].event # NoRow, rq'[s].event.sub = e.sub
        PROVE  rq'[s].event = e
    <3>1. e \in Events /\ e.seq \in Nat /\ e0.seq \in Nat
      BY CommerceAssumption DEF TypeOK
    <3>2. CASE s = r
      <4>1. SUFFICES ASSUME e # e0 PROVE FALSE
        BY <2>2, <3>2
      <4>2. e \in begun /\ e0.sub = e.sub
        BY <2>2, <2>3, <2>5, <3>2, <4>1
      <4>3. e0.seq < e.seq
        BY <2>3, <2>5, <4>1, <4>2 DEF Newest
      <4>4. e0.sub \in late'
        BY <2>3, <3>1, <4>2, <4>3
      <4> QED BY <2>5, <4>2, <4>4
    <3>3. CASE s # r
      <4>1. rq'[s] = rq[s]
        BY <1>0, <3>3
      <4>2. InFlight(rq[s].event) /\ rq[s].event \in Events
        BY <1>0, <2>5, <4>1 DEF InFlight
      <4>3. e0.sub # e.sub
        BY <2>3, <2>5, <4>1, <4>2
      <4>4. e \in begun /\ Newest(e) /\ e.sub \notin late
        BY <2>3, <2>5, <4>3 DEF Newest
      <4> QED BY <2>5, <4>1, <4>4 DEF LateInv
    <3> QED BY <3>2, <3>3
  <2> QED BY <2>4, <2>5 DEF LateInv
<1>2. CASE ~ \E e \in Events : Deliver(r, e)
  <2>1. late' = late /\ begun' = begun
    BY <1>2 DEF Writes
  <2>2. \A s \in Requests : rq'[s].event # NoRow => rq'[s].event = rq[s].event
    BY <1>0, <1>2
  <2>3. acked' \ passed' \subseteq begun'
    BY <1>0, <1>f, <2>1 DEF LateInv
  <2>4. \A e : Newest(e)' <=> Newest(e)
    BY <2>1 DEF Newest
  <2> QED BY <2>1, <2>2, <2>3, <2>4 DEF LateInv
<1> QED
  BY <1>1, <1>2

\* Every step keeps a cancelled subscription inactive.
LEMMA CancelledNext ==
  ASSUME NEW r \in Requests, TypeOK, TypeOK', ShapeInv, LateInv, CancelledStaysCancelled, Writes(r), Follows(r),
         Acknowledges(r), UNCHANGED found
  PROVE  CancelledStaysCancelled'
<1>f. passed' = passed
  BY DEF found
<1> SUFFICES ASSUME NEW e \in acked' \ passed, e.kind = "deactivate", Newest(e)', e.sub \notin late'
             PROVE  members'[e.sub] = NoRow \/ ~ members'[e.sub].active
  BY <1>f DEF CancelledStaysCancelled
<1>0. begun \subseteq begun' /\ late \subseteq late'
  <2>1. CASE \E d \in Events : Deliver(r, d)
    BY <2>1 DEF Deliver
  <2>2. CASE ~ \E d \in Events : Deliver(r, d)
    BY <2>2 DEF Writes
  <2> QED BY <2>1, <2>2
<1>1. Newest(e) /\ e.sub \notin late
  BY <1>0 DEF Newest
<1>2. e \in Events /\ e.sub # NoRow /\ e.sub \in RowIds /\ e.sub \notin 1 .. MaxRequests
  <2>1. e \in Events /\ e.sub # NoRow
    BY CommerceAssumption DEF TypeOK
  <2> QED BY <2>1, CommerceAssumption DEF Subs, RowIds
<1>3. CASE e \in acked
  <2>1. members[e.sub] = NoRow \/ ~ members[e.sub].active
    BY <1>1, <1>3 DEF CancelledStaysCancelled
  <2>2. CASE InsertMembership(r)
    <3>1. rq[r].op \in {"subscribe", "activate"} /\ rq[r].row \in RowIds
      BY <2>2, InsertMembershipEffect, RowOf
    <3>2. rq[r].row # e.sub
      <4>1. SUFFICES ASSUME rq[r].row = e.sub PROVE FALSE
        OBVIOUS
      <4>2. rq[r].op = "activate"
        BY <1>2, <3>1, <4>1, RowOf
      <4>3. rq[r].event \in Events /\ rq[r].event.sub = e.sub /\ rq[r].event.kind = "activate"
        BY <4>1, <4>2 DEF ShapeInv, Shaped, EventOps
      <4>4. rq[r].event # NoRow
        BY <4>3, CommerceAssumption
      <4>5. rq[r].event = e
        BY <1>1, <1>3, <4>3, <4>4 DEF LateInv
      <4> QED BY <4>3, <4>5
    <3>3. members'[e.sub] = members[e.sub]
      BY <1>2, <2>2, <3>1, <3>2, Inserted
    <3> QED BY <2>1, <3>3
  <2>3. CASE ~ InsertMembership(r)
    BY <1>2, <2>1, <2>3, MembersNext DEF SwitchedOff
  <2> QED BY <2>2, <2>3
<1>4. CASE e \notin acked
  <2>1. rq[r].event = e /\ rq[r].event # NoRow /\ (rq[r].op = "deactivate" => DeactivateSubscription(r))
    BY <1>4 DEF Acknowledges
  <2>2. rq[r].op = "deactivate" /\ rq[r].row = e.sub
    BY <2>1 DEF ShapeInv, Shaped
  <2> DEFINE S == {e.sub} \cap {i \in RowIds : members[i] # NoRow}
  <2>3. members' = Deactivated(S)
    BY <2>1, <2>2 DEF DeactivateSubscription
  <2>4. SwitchedOff(S)
    BY <2>3, DeactivatedRows
  <2> QED BY <1>2, <2>4 DEF SwitchedOff
<1> QED
  BY <1>3, <1>4

------------------------------------------------------------------------------
(* The inductive invariant, and what follows from it. *)

\* The inductive invariant.
CommerceInv ==
    /\ TypeOK /\ ShapeInv
    /\ WalletInv /\ SeenInv /\ OverdraftNeedsRace
    /\ FreshInv /\ PaidInv /\ StockInv /\ AckMeansApplied
    /\ RowInv /\ OneInv /\ LateInv /\ CancelledStaysCancelled

\* The initial state has the right types, and nothing in flight.
LEMMA InitTypes == Init => TypeOK /\ ShapeInv /\ \A r \in Requests : rq[r].op = "none" /\ rq[r].step = "idle" /\ rq[r].event = NoRow
<1> SUFFICES ASSUME Init PROVE TypeOK /\ ShapeInv /\ \A r \in Requests : rq[r].op = "none" /\ rq[r].step = "idle" /\ rq[r].event = NoRow
  OBVIOUS
<1>1. /\ rq \in [Requests -> Request] /\ ShapeInv
      /\ \A r \in Requests : rq[r].op = "none" /\ rq[r].step = "idle" /\ rq[r].event = NoRow
  BY IdleFacts DEF Init, ShapeInv, Shaped
<1>2. balance \in [Users -> Int] /\ orders \in [Users -> Nat] /\ items \in [Products -> Nat]
  BY CommerceAssumption DEF Init, NoItems
<1>3. tx \in [Users -> [TxTypes -> Nat]]
  BY CommerceAssumption DEF Init
<1>4. members \in [RowIds -> Row]
  BY DEF Init, Row
<1>5. granted \in [Users -> SUBSET UNION {Features[t] : t \in Tiers}]
  BY DEF Init
<1>6. stock \in [Products -> Int] /\ cart \in [Users -> [Products -> Nat]]
  BY CommerceAssumption DEF Init
<1>7. acked \subseteq Events /\ made \in 0 .. MaxRequests /\ deaths \in 0 .. MaxDeaths
      /\ raced \subseteq Users \X {"write", "debit"} /\ floored \subseteq Users /\ crossed \subseteq Users
      /\ late \subseteq Subs \cup {NoRow} /\ begun \subseteq Events
      /\ passed \subseteq Events /\ wallets \subseteq Users
  BY CommerceAssumption DEF Init
<1> QED
  BY <1>1, <1>2, <1>3, <1>4, <1>5, <1>6, <1>7 DEF TypeOK

\* The invariant holds when the service starts.
LEMMA InitInv == Init => CommerceInv
<1> SUFFICES ASSUME Init PROVE CommerceInv
  OBVIOUS
<1>1. TypeOK /\ ShapeInv /\ \A r \in Requests : rq[r].op = "none" /\ rq[r].step = "idle" /\ rq[r].event = NoRow
  BY InitTypes
<1>2. IsFiniteSet(Requests) /\ MaxRequests \in Nat
  BY CommerceAssumption
<1>3. WalletInv
  <2> SUFFICES ASSUME NEW u \in Users PROVE balance[u] = TxSum(u) + Owes(u)
    BY DEF WalletInv
  <2>1. balance[u] \in Int
    BY <1>1 DEF TypeOK
  <2>2. TxSum(u) = balance[u]
    <3>1. /\ tx[u]["deposit"] = balance[u] /\ tx[u]["credit"] = 0 /\ tx[u]["purchase"] = 0
          /\ tx[u]["shop"] = 0 /\ tx[u]["refund"] = 0
      BY DEF Init, TxTypes
    <3> QED BY <2>1, <3>1 DEF TxSum
  <2>3. Owes(u) = 0
    <3> DEFINE f == [r \in Requests |-> Owed(rq[r], u)]
    <3>1. \A r \in Requests : f[r] = 0
      BY <1>1 DEF Owed
    <3>2. Owes(u) = SumOf(f, Requests)
      BY DEF Owes
    <3> HIDE DEF f
    <3> QED BY <1>2, <3>1, <3>2, SumZero
  <2> QED BY <2>1, <2>2, <2>3
<1>4. SeenInv
  BY <1>1 DEF SeenInv, SeenOf
<1>5. OverdraftNeedsRace
  BY CommerceAssumption DEF Init, OverdraftNeedsRace
<1>6. FreshInv
  BY <1>1 DEF Init, FreshInv, RowIds
<1>7. PaidInv
  <2> SUFFICES ASSUME NEW u \in Users
               PROVE  /\ orders[u] + AllOrdering(u) = tx[u]["shop"] /\ tx[u]["shop"] \in Int
                      /\ PricesPaid(u) + AllJoining(u) = tx[u]["purchase"] /\ tx[u]["purchase"] \in Int
    BY DEF PaidInv
  <2>1. orders[u] = 0 /\ tx[u]["shop"] = 0 /\ tx[u]["purchase"] = 0
    BY DEF Init, TxTypes
  <2>2. AllOrdering(u) = 0
    <3> DEFINE f == [r \in Requests |-> Ordering(rq[r], u)]
    <3>1. \A r \in Requests : f[r] = 0
      BY <1>1 DEF Ordering
    <3>2. AllOrdering(u) = SumOf(f, Requests)
      BY DEF AllOrdering
    <3> HIDE DEF f
    <3> QED BY <1>2, <3>1, <3>2, SumZero
  <2>3. AllJoining(u) = 0
    <3> DEFINE f == [r \in Requests |-> Joining(rq[r], u)]
    <3>1. \A r \in Requests : f[r] = 0
      BY <1>1 DEF Joining
    <3>2. AllJoining(u) = SumOf(f, Requests)
      BY DEF AllJoining
    <3> HIDE DEF f
    <3> QED BY <1>2, <3>1, <3>2, SumZero
  <2>4. PricesPaid(u) = 0
    <3>1. PaidRows(u) = {}
      BY DEF Init, PaidRows, RowIds
    <3> QED BY <3>1, SumEmpty DEF PricesPaid
  <2> QED BY <2>1, <2>2, <2>3, <2>4
<1>8. StockInv
  <2> SUFFICES ASSUME NEW p \in Products PROVE stock[p] + items[p] + InHand(p) = Stock0[p] /\ Stock0[p] \in Int
    BY DEF StockInv
  <2>1. stock[p] = Stock0[p] /\ items[p] = 0 /\ Stock0[p] \in Int
    BY CommerceAssumption DEF Init, NoItems
  <2>2. InHand(p) = 0
    <3> DEFINE f == [r \in Requests |-> Taken(rq[r], p)]
    <3>1. \A r \in Requests : f[r] = 0
      BY <1>1 DEF Taken
    <3>2. InHand(p) = SumOf(f, Requests)
      BY DEF InHand
    <3> HIDE DEF f
    <3> QED BY <1>2, <3>1, <3>2, SumZero
  <2> QED BY <2>1, <2>2
<1>9. AckMeansApplied
  <2> SUFFICES ASSUME NEW u \in Users PROVE SumOf([e \in Events |-> e.amount], AckedTopUps(u)) <= tx[u]["credit"]
    BY DEF AckMeansApplied
  <2>1. tx[u]["credit"] = 0 /\ AckedTopUps(u) = {}
    BY DEF Init, TxTypes, AckedTopUps
  <2> QED BY <2>1, SumEmpty
<1>10. RowInv
  BY DEF Init, RowInv, RowIds, Subs
<1>11. OneInv
  BY <1>1 DEF Init, OneInv, ActiveRows, Activating
<1>12. LateInv /\ CancelledStaysCancelled
  BY <1>1 DEF Init, LateInv, CancelledStaysCancelled
<1> QED
  BY <1>1, <1>3, <1>4, <1>5, <1>6, <1>7, <1>8, <1>9, <1>10, <1>11, <1>12 DEF CommerceInv

\* Every step of a request that finds its user and wallet keeps the invariant.
LEMMA StepInv ==
  ASSUME CommerceInv, NEW r \in Requests, Step(r), UNCHANGED found PROVE CommerceInv'
<1> USE DEF CommerceInv
<1>1. TypeOK'
  BY TypeNext
<1>2. Writes(r)
  BY <1>1, WritesNext
<1>3. Follows(r) /\ Acknowledges(r)
  BY <1>1, FollowsNext
<1>4. ShapeInv'
  BY <1>3, MovedShape DEF Follows
<1>5. WalletInv'
  BY <1>1, WalletNext
<1>6. SeenInv' /\ OverdraftNeedsRace'
  BY <1>1, <1>2, <1>3, SeenNext, FloorNext
<1>7. FreshInv' /\ PaidInv'
  <2>1. PaidFor(r) => InsertMembership(r) \/ Die(r)
    BY PaidIsInserted
  <2> QED BY <1>1, <1>2, <1>3, <2>1, FreshNext, PaidNext
<1>8. StockInv' /\ AckMeansApplied'
  BY <1>1, <1>2, <1>3, StockNext, AckNext
<1>9. RowInv' /\ OneInv'
  BY <1>1, <1>2, <1>3, RowNext, OneNext
<1>10. LateInv' /\ CancelledStaysCancelled'
  BY <1>1, <1>2, <1>3, LateNext, CancelledNext
<1> QED
  BY <1>1, <1>4, <1>5, <1>6, <1>7, <1>8, <1>9, <1>10

\* An event that is answered with nothing applied.
Passes(r) == (\E e \in Events : PassOver(r, e)) \/ NoWallet(r)
LEMMA PassInv ==
  ASSUME CommerceInv, NEW r \in Requests, Passes(r) PROVE CommerceInv'
<1>0. TypeOK /\ ShapeInv /\ rq[r] \in Request /\ Shaped(rq[r])
  BY DEF CommerceInv, TypeOK, ShapeInv
<1>1. /\ UNCHANGED <<balance, tx, members, granted, stock, cart, orders, items, deaths, raced, floored, crossed,
                       late, begun, wallets>>
      /\ made' >= made /\ made' \in 0 .. MaxRequests
  BY <1>0, CommerceAssumption DEF Passes, PassOver, NoWallet, Arrives, accounts, membership, shop, bounds, history, TypeOK
<1>2. /\ Moved(r) /\ rq[r].step # "log" /\ ~ Buying(rq[r])
      /\ rq'[r] \in {rq[r], Idle} /\ (rq'[r] = rq[r] => rq[r] = Idle)
  <2>1. CASE \E e \in Events : PassOver(r, e)
    BY <1>0, <2>1, IdleFacts, StillMoves DEF PassOver, Arrives, Buying
  <2>2. CASE NoWallet(r)
    <3>1. Ends(r) /\ rq[r].step \in {"credit", "refund"} /\ rq[r].op # "checkout"
      BY <2>2 DEF NoWallet, At
    <3> QED BY <1>0, <3>1, EndsTo, IdleFacts DEF Buying
  <2> QED BY <2>1, <2>2 DEF Passes
<1>3. PICK e \in Events \cup {NoRow} : acked' \subseteq acked \cup {e} /\ passed' = passed \cup {e} /\ e # NoRow
      /\ acked' \subseteq Events
  <2>1. CASE \E e \in Events : PassOver(r, e)
    BY <1>0, <2>1, CommerceAssumption DEF PassOver, TypeOK
  <2>2. CASE NoWallet(r)
    <3>1. rq[r].event \in Events /\ rq[r].event # NoRow
      BY <1>0, <2>2, CommerceAssumption DEF NoWallet, At, Shaped, EventOps
    <3> QED BY <1>0, <2>2, <3>1 DEF NoWallet, Ends, TypeOK
  <2> QED BY <2>1, <2>2 DEF Passes
<1>4. acked' \ passed' \subseteq acked \ passed
  BY <1>3
<1>5. rq'[r].op = "none" /\ rq'[r].step = "idle" /\ rq'[r].event = NoRow
  BY <1>2, IdleFacts
<1>6. TypeOK' /\ ShapeInv'
  <2>1. rq' \in [Requests -> Request] /\ passed' \subseteq Events
    BY <1>0, <1>2, <1>3 DEF Moved, TypeOK
  <2> QED BY <1>0, <1>1, <1>2, <1>3, <2>1, MovedShape DEF TypeOK
<1>7. Writes(r)
  BY <1>1 DEF Writes
<1>8. Follows(r)
  BY <1>2, <1>5 DEF Follows, Buying
<1>9. WalletInv'
  BY <1>0, <1>1, <1>2, <1>5, <1>6, WalletQuiet DEF CommerceInv
<1>a. ~ PaidFor(r)
  BY IdleFacts DEF PaidFor, Passes, PassOver, NoWallet, Arrives, At
<1>10. SeenInv' /\ OverdraftNeedsRace' /\ FreshInv' /\ PaidInv' /\ StockInv' /\ RowInv' /\ OneInv'
  BY <1>0, <1>6, <1>7, <1>8, <1>a, SeenNext, FloorNext, FreshNext, PaidNext, StockNext, RowNext, OneNext DEF CommerceInv
<1>11. AckMeansApplied'
  <2> DEFINE f == [d \in Events |-> d.amount]
  <2>1. SUFFICES ASSUME NEW u \in Users PROVE SumOf(f, AckedTopUps(u)') <= tx'[u]["credit"]
    BY DEF AckMeansApplied
  <2>2. SumOf(f, AckedTopUps(u)) <= tx[u]["credit"] /\ tx[u]["credit"] \in Int
    BY <1>0 DEF CommerceInv, AckMeansApplied, TypeOK, TxTypes
  <2>3. AckedTopUps(u) \in SUBSET Events /\ AckedTopUps(u)' \in SUBSET AckedTopUps(u)
    BY <1>0, <1>4 DEF AckedTopUps, TypeOK
  <2>4. \A d \in Events : f[d] \in Nat
    BY CommerceAssumption
  <2>5. IsFiniteSet(Events)
    BY CommerceAssumption
  <2>6. IsFiniteSet(AckedTopUps(u)) /\ \A d \in AckedTopUps(u) : f[d] \in Nat /\ f[d] \in Int
    BY <2>3, <2>4, <2>5, FS_Subset
  <2>7. PICK S : S = AckedTopUps(u)
    OBVIOUS
  <2>8. PICK T : T = AckedTopUps(u)'
    OBVIOUS
  <2>9. IsFiniteSet(S) /\ IsFiniteSet(T) /\ T \in SUBSET S /\ \A d \in S : f[d] \in Nat
    BY <2>3, <2>6, <2>7, <2>8, FS_Subset
  <2>10. \A d \in S : f[d] \in Int
    BY <2>6, <2>7
  <2>11. \A d \in T : f[d] \in Int
    BY <2>9, <2>10
  <2> HIDE DEF f
  <2>12. SumOf(f, T) <= SumOf(f, S)
    BY <2>9, SumPart
  <2>13. SumOf(f, S) \in Int /\ SumOf(f, T) \in Int
    BY <2>9, <2>10, <2>11, SumTypeAndSplit
  <2> QED BY <1>1, <2>2, <2>7, <2>8, <2>12, <2>13
<1>12. LateInv' /\ CancelledStaysCancelled'
  <2>1. \A s \in Requests : rq'[s].event # NoRow => rq'[s] = rq[s]
    BY <1>2, <1>5 DEF Moved
  <2>2. \A d : Newest(d)' <=> Newest(d)
    BY <1>1 DEF Newest
  <2>3. LateInv'
    BY <1>1, <1>4, <2>1, <2>2 DEF CommerceInv, LateInv
  <2>4. CancelledStaysCancelled'
    BY <1>1, <1>4, <2>2 DEF CommerceInv, CancelledStaysCancelled
  <2> QED BY <2>3, <2>4
<1> QED BY <1>6, <1>9, <1>10, <1>11, <1>12 DEF CommerceInv

\* A step of something else keeps the invariant.
LEMMA StutterInv == CommerceInv /\ UNCHANGED vars => CommerceInv'
<1> SUFFICES ASSUME CommerceInv, UNCHANGED vars PROVE CommerceInv'
  OBVIOUS
<1>1. UNCHANGED <<balance, tx, members, granted, stock, cart, orders, items, rq, acked, made, deaths,
                  raced, floored, crossed, late, begun, wallets, passed>>
  BY DEF vars, accounts, membership, shop, bounds, history, found
<1>2. TypeOK' /\ ShapeInv'
  BY <1>1 DEF CommerceInv, TypeOK, ShapeInv, Shaped
<1>3. WalletInv' /\ SeenInv' /\ OverdraftNeedsRace'
  BY <1>1 DEF CommerceInv, WalletInv, TxSum, Owes, Owed, SeenInv, SeenOf, OverdraftNeedsRace
<1>4. PaidInv' /\ FreshInv'
  BY <1>1 DEF CommerceInv, PaidInv, AllOrdering, AllJoining, Ordering, Joining, PricesPaid,
     PaidRows, FreshInv
<1>5. StockInv' /\ AckMeansApplied'
  BY <1>1 DEF CommerceInv, StockInv, InHand, Taken, AckMeansApplied, AckedTopUps
<1>6. RowInv' /\ OneInv' /\ LateInv' /\ CancelledStaysCancelled'
  BY <1>1 DEF CommerceInv, RowInv, OneInv, ActiveRows, Activating, LateInv, Newest,
     CancelledStaysCancelled
<1> QED
  BY <1>2, <1>3, <1>4, <1>5, <1>6 DEF CommerceInv

\* The inductive invariant: the sums over the tables, counted with what the
\* requests in flight have still to write (wallet.ts, membership.ts, shop.ts,
\* stripeWebhook.ts).
THEOREM CommerceIsSound == Spec => []CommerceInv
<1>1. Init => CommerceInv
  BY InitInv
<1>2. CommerceInv /\ [Next]_vars => CommerceInv'
  BY StepInv, PassInv, StutterInv DEF Next, Passes
<1> QED
  BY <1>1, <1>2, PTL DEF Spec

\* When nothing is in flight nothing is owed.
LEMMA QuietOwesNothing ==
  ASSUME Quiet
  PROVE  /\ deaths = 0 /\ \A u \in Users : Owes(u) = 0
         /\ \A p \in Products : InHand(p) = 0
         /\ \A u \in Users : AllOrdering(u) = 0 /\ AllJoining(u) = 0
<1>1. \A r \in Requests : rq[r].op = "none" /\ rq[r].step = "idle"
  BY IdleFacts DEF Quiet
<1>2. IsFiniteSet(Requests)
  BY CommerceAssumption
<1>3. ASSUME NEW u \in Users PROVE Owes(u) = 0
  <2> DEFINE f == [r \in Requests |-> Owed(rq[r], u)]
  <2>1. \A r \in Requests : f[r] = 0
    BY <1>1 DEF Owed
  <2>2. Owes(u) = SumOf(f, Requests)
    BY DEF Owes
  <2> HIDE DEF f
  <2> QED BY <1>2, <2>1, <2>2, SumZero
<1>4. ASSUME NEW p \in Products PROVE InHand(p) = 0
  <2> DEFINE f == [r \in Requests |-> Taken(rq[r], p)]
  <2>1. \A r \in Requests : f[r] = 0
    BY <1>1 DEF Taken
  <2>2. InHand(p) = SumOf(f, Requests)
    BY DEF InHand
  <2> HIDE DEF f
  <2> QED BY <1>2, <2>1, <2>2, SumZero
<1>5. ASSUME NEW u \in Users PROVE AllOrdering(u) = 0
  <2> DEFINE f == [r \in Requests |-> Ordering(rq[r], u)]
  <2>1. \A r \in Requests : f[r] = 0
    BY <1>1 DEF Ordering
  <2>2. AllOrdering(u) = SumOf(f, Requests)
    BY DEF AllOrdering
  <2> HIDE DEF f
  <2> QED BY <1>2, <2>1, <2>2, SumZero
<1>6. ASSUME NEW u \in Users PROVE AllJoining(u) = 0
  <2> DEFINE f == [r \in Requests |-> Joining(rq[r], u)]
  <2>1. \A r \in Requests : f[r] = 0
    BY <1>1 DEF Joining
  <2>2. AllJoining(u) = SumOf(f, Requests)
    BY DEF AllJoining
  <2> HIDE DEF f
  <2> QED BY <1>2, <2>1, <2>2, SumZero
<1> QED
  BY <1>3, <1>4, <1>5, <1>6 DEF Quiet

\* The balance is the sum of the wallet's transactions when nothing is in flight
\* and none died, unless a balance computed from an outdated one was written or a
\* refund was cut off at zero; and it is negative only after a checkout debited a
\* balance that had changed (wallet.ts:94, shop.ts:182-193, stripeWebhook.ts:162).
THEOREM MoneyIsSafe == Spec => []MoneyAddsUp
<1>1. CommerceInv => MoneyAddsUp
  <2> SUFFICES ASSUME CommerceInv PROVE BalanceIsSumOfTxs
    BY DEF CommerceInv, MoneyAddsUp
  <2> SUFFICES ASSUME Quiet, NEW u \in Users, <<u, "write">> \notin raced, u \notin floored
               PROVE  balance[u] = TxSum(u)
    BY DEF BalanceIsSumOfTxs
  <2>1. balance[u] = TxSum(u) + Owes(u) /\ Owes(u) = 0
    BY QuietOwesNothing DEF CommerceInv, WalletInv
  <2>2. TxSum(u) \in Int
    BY TxSumType DEF CommerceInv
  <2> HIDE DEF TxSum
  <2> QED BY <2>1, <2>2
<1> QED
  BY <1>1, CommerceIsSound, PTL

\* Orders never exceed the shop's debits, nor memberships the purchases, and no
\* item is sold that was not taken from the stock, wherever requests die; when
\* none did and nothing is in flight, what was paid for was ordered or joined,
\* and every item is in stock or in an order
\* (shop.ts:190-228, membership.ts:94-121).
THEOREM GoodsAreSafe == Spec => []GoodsAreAccounted
<1>1. CommerceInv => GoodsAreAccounted
  <2> SUFFICES ASSUME CommerceInv PROVE GoodsAreAccounted
    OBVIOUS
  <2>1. ASSUME NEW u \in Users
        PROVE  /\ orders[u] <= tx[u]["shop"] /\ PricesPaid(u) <= tx[u]["purchase"]
               /\ Quiet => orders[u] = tx[u]["shop"] /\ PricesPaid(u) = tx[u]["purchase"]
    <3>1. /\ orders[u] + AllOrdering(u) <= tx[u]["shop"] /\ PricesPaid(u) + AllJoining(u) <= tx[u]["purchase"]
          /\ deaths = 0 => /\ orders[u] + AllOrdering(u) = tx[u]["shop"]
                           /\ PricesPaid(u) + AllJoining(u) = tx[u]["purchase"]
      BY DEF CommerceInv, PaidInv
    <3>6. Quiet => deaths = 0 /\ AllOrdering(u) = 0 /\ AllJoining(u) = 0
      BY QuietOwesNothing
    <3>2. AllOrdering(u) \in Nat
      <4> DEFINE f == [r \in Requests |-> Ordering(rq[r], u)]
      <4>1. \A r \in Requests : f[r] \in Nat
        BY TermTypes DEF CommerceInv, TypeOK
      <4>2. AllOrdering(u) = SumOf(f, Requests)
        BY DEF AllOrdering
      <4> HIDE DEF f
      <4> QED BY <4>1, <4>2, CommerceAssumption, SumNat
    <3>3. AllJoining(u) \in Nat
      <4> DEFINE f == [r \in Requests |-> Joining(rq[r], u)]
      <4>1. \A r \in Requests : f[r] \in Nat
        BY TermTypes DEF CommerceInv, TypeOK
      <4>2. AllJoining(u) = SumOf(f, Requests)
        BY DEF AllJoining
      <4> HIDE DEF f
      <4> QED BY <4>1, <4>2, CommerceAssumption, SumNat
    <3>4. orders[u] \in Int /\ tx[u] \in [TxTypes -> Nat] /\ PricesPaid(u) \in Int
      BY PricesType DEF CommerceInv, TypeOK
    <3>5. tx[u]["shop"] \in Int /\ tx[u]["purchase"] \in Int
      BY <3>4 DEF TxTypes
    <3> QED BY <3>1, <3>2, <3>3, <3>4, <3>5, <3>6
  <2>2. PaidBeforeGoods
    BY <2>1 DEF PaidBeforeGoods
  <2>3. ASSUME NEW p \in Products
        PROVE  stock[p] + items[p] <= Stock0[p] /\ (Quiet => stock[p] + items[p] = Stock0[p])
    <3>1. /\ stock[p] + items[p] + InHand(p) <= Stock0[p]
          /\ deaths = 0 => stock[p] + items[p] + InHand(p) = Stock0[p]
      BY DEF CommerceInv, StockInv
    <3>2. InHand(p) \in Nat
      <4> DEFINE f == [r \in Requests |-> Taken(rq[r], p)]
      <4>1. \A r \in Requests : f[r] \in Nat
        BY TermTypes DEF CommerceInv, TypeOK
      <4>2. InHand(p) = SumOf(f, Requests)
        BY DEF InHand
      <4> HIDE DEF f
      <4> QED BY <4>1, <4>2, CommerceAssumption, SumNat
    <3>3. stock[p] \in Int /\ items[p] \in Int /\ Stock0[p] \in Int
      BY CommerceAssumption DEF CommerceInv, TypeOK
    <3>4. Quiet => deaths = 0 /\ InHand(p) = 0
      BY QuietOwesNothing
    <3> QED BY <3>1, <3>2, <3>3, <3>4
  <2>4. StockIsAccounted
    BY <2>3 DEF StockIsAccounted
  <2> QED BY <2>2, <2>4 DEF GoodsAreAccounted
<1> QED
  BY <1>1, CommerceIsSound, PTL

\* A user has one active membership at most unless two activations crossed, and
\* a cancelled subscription stays inactive unless its events crossed or came out
\* of order (membership.ts:88, stripeWebhook.ts:51, 129-150).
THEOREM MembershipsAreSafe == Spec => []MembershipsHold
<1>1. CommerceInv => MembershipsHold
  <2> SUFFICES ASSUME CommerceInv, NEW u \in Users, u \notin crossed PROVE Cardinality(ActiveRows(u)) <= 1
    BY DEF CommerceInv, MembershipsHold, OneActiveMembership
  <2>1. \A i, j \in ActiveRows(u) : i = j
    BY DEF CommerceInv, OneInv
  <2>2. CASE ActiveRows(u) = {}
    BY <2>2, FS_EmptySet
  <2>3. CASE ActiveRows(u) # {}
    <3>1. PICK i : ActiveRows(u) = {i}
      BY <2>1, <2>3
    <3> QED BY <3>1, FS_Singleton
  <2> QED BY <2>2, <2>3
<1> QED
  BY <1>1, CommerceIsSound, PTL

\* The top-ups answered with 200 are in the wallet's transactions, wherever
\* handlers die and however often Stripe delivers, but for those that found no
\* customer, no user or no wallet (stripeWebhook.ts:33-41, 94-97, 209-217).
THEOREM AcksAreSafe == Spec => []AckMeansApplied
<1>1. CommerceInv => AckMeansApplied
  BY DEF CommerceInv
<1> QED
  BY <1>1, CommerceIsSound, PTL

===============================================================================
