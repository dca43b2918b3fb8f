----------------------------- MODULE SumTheorems -----------------------------
(***************************************************************************)
(* Facts about SumFunction of the community module Functions, which the    *)
(* models add amounts of documents and entries with.  Its recursive        *)
(* definition is unfolded once, by minimal counterexamples over finite     *)
(* sets (WFMin); the rest follows from what one element adds to a sum.     *)
(***************************************************************************)
EXTENDS Integers, FiniteSets, Functions, FiniteSetTheorems, WellFoundedInduction, TLAPS

-----------------------------------------------------------------------------
(* Minimal counterexamples *)

(* A set of numbers has a least one: 1 .. n is a smaller set for a smaller
   n, and no finite set has smaller and smaller subsets for ever.          *)
LEMMA LeastNumber ==
    ASSUME NEW T, T \subseteq Nat, T # {}
    PROVE  \E n \in T : \A m \in T : n <= m
<1> DEFINE F == FiniteSubsetsOf(Nat)
           R == StrictSubsetOrdering(Nat)
           I == {1 .. n : n \in T}
<1>1. I \subseteq F /\ I # {}
  <2>1. ASSUME NEW n \in T PROVE 1 .. n \in F
    BY FS_Interval, n \in Nat DEF FiniteSubsetsOf
  <2>2. QED
    BY <2>1
<1>2. PICK i \in I : \A j \in I : <<j, i>> \notin R
  <2>1. IsWellFoundedOn(R, F)
    BY FS_StrictSubsetOrderingWellFounded
  <2> HIDE DEF R, F, I
  <2>2. QED
    BY <2>1, <1>1, WFMin
<1>3. PICK n \in T : i = 1 .. n
  BY <1>2
<1>4. ASSUME NEW m \in T, m < n PROVE FALSE
  <2>1. 1 .. m \in I
    BY <1>4
  <2>2. m \in Nat /\ n \in Nat /\ 1 .. m \subseteq 1 .. n /\ n \in 1 .. n /\ n \notin 1 .. m
    BY <1>4
  <2>3. <<1 .. m, i>> \in R
    BY <1>3, <2>2 DEF StrictSubsetOrdering
  <2>4. QED
    BY <1>2, <2>1, <2>3
<1>5. QED
  BY <1>4

(* Among finite sets there is one with the fewest elements.               *)
LEMMA SmallestSet ==
    ASSUME NEW T, T # {}, \A s \in T : IsFiniteSet(s)
    PROVE  \E s \in T : \A r \in T : Cardinality(s) <= Cardinality(r)
<1> DEFINE N == {Cardinality(s) : s \in T}
<1>1. N \subseteq Nat /\ N # {}
  BY FS_CardinalityType
<1>2. PICK n \in N : \A m \in N : n <= m
  BY <1>1, LeastNumber
<1>3. QED
  BY <1>2

-----------------------------------------------------------------------------
(* The recursion of SumFunctionOnSet *)

(* The element a sum takes next, and the equation its table satisfies.    *)
Choice(s) == CHOOSE x \in s : TRUE
Unfolds(g, f, D) ==
    g = [s \in D |-> IF s = {} THEN 0 ELSE f[Choice(s)] + g[s \ {Choice(s)}]]
Upto(S, n) == {s \in SUBSET S : Cardinality(s) < n}

(* A set that is not empty has the element that is chosen.               *)
LEMMA ChoiceIn == ASSUME NEW s, s # {} PROVE Choice(s) \in s
  BY DEF Choice

(* A finite set without its next element is smaller.                      *)
LEMMA Smaller ==
    ASSUME NEW s, IsFiniteSet(s), NEW x \in s
    PROVE  /\ IsFiniteSet(s \ {x})
           /\ Cardinality(s \ {x}) \in Nat /\ Cardinality(s) \in Nat
           /\ Cardinality(s \ {x}) < Cardinality(s)
<1>1. IsFiniteSet(s \ {x}) /\ Cardinality(s \ {x}) = Cardinality(s) - 1
  BY FS_RemoveElement
<1>2. Cardinality(s) \in Nat /\ Cardinality(s \ {x}) \in Nat
  BY <1>1, FS_CardinalityType
<1>3. QED
  BY <1>1, <1>2

(* The table exists for the subsets of every size ...                     *)
LEMMA TableUpto ==
    ASSUME NEW f, NEW S, IsFiniteSet(S), NEW n \in Nat
    PROVE  \E g : Unfolds(g, f, Upto(S, n))
<1> DEFINE T == {m \in Nat : ~\E g : Unfolds(g, f, Upto(S, m))}
<1> SUFFICES ASSUME T # {} PROVE FALSE
  OBVIOUS
<1>1. PICK m \in T : \A k \in T : m <= k
  BY LeastNumber
<1>2. CASE m = 0
  <2>1. Upto(S, 0) = {}
    BY FS_CardinalityType, FS_Subset DEF Upto
  <2>2. Unfolds([s \in {} |-> 0], f, {})
    BY DEF Unfolds
  <2>3. QED
    BY <1>1, <1>2, <2>1, <2>2
<1>3. CASE m # 0
  <2>1. m - 1 \in Nat /\ m - 1 \notin T
    BY <1>1, <1>3
  <2>2. PICK g : Unfolds(g, f, Upto(S, m - 1))
    BY <2>1
  <2> DEFINE h == [s \in Upto(S, m) |-> IF s = {} THEN 0 ELSE f[Choice(s)] + g[s \ {Choice(s)}]]
  <2>3. ASSUME NEW s \in Upto(S, m), s # {}
        PROVE  s \ {Choice(s)} \in Upto(S, m - 1) /\ s \ {Choice(s)} \in Upto(S, m)
    <3>1. s \subseteq S /\ IsFiniteSet(s) /\ Cardinality(s) < m
      BY FS_Subset DEF Upto
    <3>2. Cardinality(s \ {Choice(s)}) \in Nat /\ Cardinality(s) \in Nat
          /\ Cardinality(s \ {Choice(s)}) < Cardinality(s)
      BY <3>1, <2>3, ChoiceIn, Smaller
    <3>3. QED
      BY <3>1, <3>2, <1>1 DEF Upto
  <2>4. ASSUME NEW s \in Upto(S, m - 1) PROVE h[s] = g[s]
    <3>1. s \in Upto(S, m)
      BY <1>1, FS_Subset, FS_CardinalityType DEF Upto
    <3>2. QED
      BY <3>1, <2>2 DEF Unfolds
  <2>5. h = [s \in Upto(S, m) |-> IF s = {} THEN 0 ELSE f[Choice(s)] + h[s \ {Choice(s)}]]
    <3> HIDE DEF h
    <3>1. ASSUME NEW s \in Upto(S, m), s # {} PROVE g[s \ {Choice(s)}] = h[s \ {Choice(s)}]
      BY <3>1, <2>3, <2>4
    <3>2. QED
      BY <3>1 DEF h
  <2>6. Unfolds(h, f, Upto(S, m))
    BY <2>5 DEF Unfolds
  <2>7. QED
    BY <2>6, <1>1
<1>4. QED
  BY <1>2, <1>3

(* ... so it exists for all of them, ...                                  *)
LEMMA TableExists ==
    ASSUME NEW f, NEW S, IsFiniteSet(S)
    PROVE  \E g : Unfolds(g, f, SUBSET S)
<1>1. Cardinality(S) + 1 \in Nat
  BY FS_CardinalityType
<1>2. Upto(S, Cardinality(S) + 1) = SUBSET S
  BY <1>1, FS_Subset, FS_CardinalityType DEF Upto
<1>3. \E g : Unfolds(g, f, Upto(S, Cardinality(S) + 1))
  BY <1>1, TableUpto
<1>4. QED
  BY <1>2, <1>3

(* ... and says the same of a set whatever it is a table of.              *)
LEMMA TableUnique ==
    ASSUME NEW e, NEW f, NEW g, NEW h, NEW S, NEW T, IsFiniteSet(T), S \subseteq T,
           \A x \in S : e[x] = f[x],
           Unfolds(g, e, SUBSET S), Unfolds(h, f, SUBSET T)
    PROVE  g[S] = h[S]
<1> DEFINE Bad == {s \in SUBSET S : g[s] # h[s]}
<1>1. SUFFICES ASSUME Bad # {} PROVE FALSE
  OBVIOUS
<1>2. \A s \in Bad : IsFiniteSet(s)
  BY FS_Subset
<1>3. PICK s \in Bad : \A r \in Bad : Cardinality(s) <= Cardinality(r)
  BY <1>1, <1>2, SmallestSet
<1>4. s # {}
  BY <1>3 DEF Unfolds
<1>5. s \ {Choice(s)} \notin Bad
  BY <1>2, <1>3, <1>4, ChoiceIn, Smaller
<1>6. g[s \ {Choice(s)}] = h[s \ {Choice(s)}] /\ Choice(s) \in S
  BY <1>3, <1>4, <1>5, ChoiceIn
<1>7. g[s] = e[Choice(s)] + g[s \ {Choice(s)}] /\ h[s] = f[Choice(s)] + h[s \ {Choice(s)}]
  BY <1>3, <1>4 DEF Unfolds
<1>8. QED
  BY <1>3, <1>6, <1>7

(* A table of a set is a table of its subsets.                           *)
LEMMA TableRestricted ==
    ASSUME NEW f, NEW g, NEW h, NEW R, NEW S, IsFiniteSet(S), R \subseteq S,
           Unfolds(g, f, SUBSET R), Unfolds(h, f, SUBSET S)
    PROVE  g[R] = h[R]
<1>1. PICK e : e = f
  OBVIOUS
<1>2. \A x \in R : e[x] = f[x]
  BY <1>1
<1>3. Unfolds(g, e, SUBSET R)
  BY <1>1
<1>4. QED
  BY <1>2, <1>3, TableUnique

(* A sum is what its table says.                                          *)
LEMMA SumTable ==
    ASSUME NEW f, NEW S, IsFiniteSet(S)
    PROVE  \E g : Unfolds(g, f, SUBSET S) /\ SumFunctionOnSet(f, S) = g[S]
<1> DEFINE g == CHOOSE g : Unfolds(g, f, SUBSET S)
<1>1. Unfolds(g, f, SUBSET S)
  BY TableExists
<1>2. SumFunctionOnSet(f, S) = g[S]
  BY DEF SumFunctionOnSet, FoldFunctionOnSet, MapThenFoldSet, Unfolds, Choice
<1>3. QED
  BY <1>1, <1>2

(* The sums over the subsets come from one table.                        *)
LEMMA SumTables ==
    ASSUME NEW f, NEW S, IsFiniteSet(S)
    PROVE  \E h : /\ Unfolds(h, f, SUBSET S)
                  /\ \A R \in SUBSET S : SumFunctionOnSet(f, R) = h[R]
<1>1. ASSUME NEW R \in SUBSET S, NEW h, Unfolds(h, f, SUBSET S)
      PROVE  SumFunctionOnSet(f, R) = h[R]
  <2>1. IsFiniteSet(R)
    BY FS_Subset
  <2>2. PICK g : Unfolds(g, f, SUBSET R) /\ SumFunctionOnSet(f, R) = g[R]
    BY <2>1, SumTable
  <2>3. R \subseteq S /\ Unfolds(g, f, SUBSET R)
    BY <2>2
  <2>4. Unfolds(h, f, SUBSET S)
    BY <1>1
  <2>5. g[R] = h[R]
    BY <2>3, <2>4, TableRestricted
  <2>6. QED
    BY <2>2, <2>5
<1>2. PICK h : Unfolds(h, f, SUBSET S)
  BY TableExists
<1>3. QED
  BY <1>1, <1>2

(* Only the values on the set matter.                                     *)
LEMMA SumAgree ==
    ASSUME NEW e, NEW f, NEW S, IsFiniteSet(S), \A x \in S : e[x] = f[x]
    PROVE  SumFunctionOnSet(e, S) = SumFunctionOnSet(f, S)
<1>1. PICK g : Unfolds(g, e, SUBSET S) /\ SumFunctionOnSet(e, S) = g[S]
  BY SumTable
<1>2. PICK h : Unfolds(h, f, SUBSET S) /\ SumFunctionOnSet(f, S) = h[S]
  BY SumTable
<1>3. g[S] = h[S]
  BY <1>1, <1>2, S \subseteq S, TableUnique
<1>4. QED
  BY <1>1, <1>2, <1>3

(* Nothing adds up to nothing.                                           *)
LEMMA SumOnEmpty == ASSUME NEW f PROVE SumFunctionOnSet(f, {}) = 0
<1>1. PICK g : Unfolds(g, f, SUBSET {}) /\ SumFunctionOnSet(f, {}) = g[{}]
  BY SumTable, FS_EmptySet, Zenon
<1>2. g[{}] = 0
  BY <1>1 DEF Unfolds
<1>3. QED
  BY <1>1, <1>2

(* A sum is its next element and the sum of the rest, ...                 *)
LEMMA SumNext ==
    ASSUME NEW f, NEW S, IsFiniteSet(S), S # {}
    PROVE  SumFunctionOnSet(f, S)
             = f[Choice(S)] + SumFunctionOnSet(f, S \ {Choice(S)})
<1>1. PICK h : /\ Unfolds(h, f, SUBSET S)
               /\ \A R \in SUBSET S : SumFunctionOnSet(f, R) = h[R]
  BY SumTables
<1>2. S \in SUBSET S /\ S \ {Choice(S)} \in SUBSET S
  OBVIOUS
<1>3. h[S] = f[Choice(S)] + h[S \ {Choice(S)}]
  BY <1>1, <1>2 DEF Unfolds
<1>4. QED
  BY <1>1, <1>2, <1>3

(* ... an integer when its values are, ...                                *)
LEMMA SumOnInt ==
    ASSUME NEW f, NEW S, IsFiniteSet(S), \A x \in S : f[x] \in Int
    PROVE  SumFunctionOnSet(f, S) \in Int
<1> DEFINE Bad == {s \in SUBSET S : SumFunctionOnSet(f, s) \notin Int}
<1>1. SUFFICES ASSUME Bad # {} PROVE FALSE
  OBVIOUS
<1>2. \A s \in Bad : IsFiniteSet(s)
  BY FS_Subset
<1>3. PICK s \in Bad : \A r \in Bad : Cardinality(s) <= Cardinality(r)
  BY <1>1, <1>2, SmallestSet
<1>4. s # {}
  BY <1>3, SumOnEmpty
<1>5. s \ {Choice(s)} \notin Bad /\ Choice(s) \in S
  BY <1>2, <1>3, <1>4, ChoiceIn, Smaller
<1>6. SumFunctionOnSet(f, s \ {Choice(s)}) \in Int /\ f[Choice(s)] \in Int
  BY <1>3, <1>5
<1>7. QED
  BY <1>2, <1>3, <1>4, <1>6, SumNext

(* ... and any element may be taken first.                                *)
LEMMA SumAny ==
    ASSUME NEW f, NEW S, IsFiniteSet(S), \A y \in S : f[y] \in Int, NEW x \in S
    PROVE  SumFunctionOnSet(f, S) = f[x] + SumFunctionOnSet(f, S \ {x})
<1> DEFINE Bad == {s \in SUBSET S : \E y \in s :
                     SumFunctionOnSet(f, s) # f[y] + SumFunctionOnSet(f, s \ {y})}
<1>1. SUFFICES ASSUME Bad # {} PROVE FALSE
  OBVIOUS
<1>2. \A s \in Bad : IsFiniteSet(s)
  BY FS_Subset
<1>3. PICK s \in Bad : \A r \in Bad : Cardinality(s) <= Cardinality(r)
  BY <1>1, <1>2, SmallestSet
<1>4. PICK y \in s : SumFunctionOnSet(f, s) # f[y] + SumFunctionOnSet(f, s \ {y})
  BY <1>3
<1> DEFINE c == Choice(s)
<1>5. c \in s /\ IsFiniteSet(s) /\ s \subseteq S
  BY <1>2, <1>3, <1>4, ChoiceIn
<1>6. SumFunctionOnSet(f, s) = f[c] + SumFunctionOnSet(f, s \ {c})
  BY <1>4, <1>5, SumNext
<1>7. y # c
  BY <1>4, <1>6
<1> HIDE DEF c
<1>8. s \ {c} \notin Bad /\ s \ {y} \notin Bad
  <2> HIDE DEF Bad
  <2>1. QED
    BY <1>2, <1>3, <1>4, <1>5, Smaller
<1>9. y \in s \ {c} /\ c \in s \ {y} /\ s \ {c} \in SUBSET S /\ s \ {y} \in SUBSET S
  BY <1>4, <1>5, <1>7
<1>10. SumFunctionOnSet(f, s \ {c}) = f[y] + SumFunctionOnSet(f, (s \ {c}) \ {y})
  BY <1>8, <1>9
<1>11. SumFunctionOnSet(f, s \ {y}) = f[c] + SumFunctionOnSet(f, (s \ {y}) \ {c})
  BY <1>8, <1>9
<1>12. (s \ {c}) \ {y} = (s \ {y}) \ {c}
  OBVIOUS
<1>13. SumFunctionOnSet(f, (s \ {c}) \ {y}) \in Int /\ f[c] \in Int /\ f[y] \in Int
  <2>1. IsFiniteSet((s \ {c}) \ {y}) /\ (s \ {c}) \ {y} \subseteq S
    BY <1>5, FS_Subset
  <2>2. QED
    BY <2>1, <1>4, <1>5, SumOnInt
<1>14. SumFunctionOnSet(f, s) = f[y] + SumFunctionOnSet(f, s \ {y})
  <2> DEFINE m == SumFunctionOnSet(f, (s \ {c}) \ {y})
             a == f[c]
             b == f[y]
  <2>1. /\ m \in Int /\ a \in Int /\ b \in Int
        /\ SumFunctionOnSet(f, s) = a + (b + m) /\ SumFunctionOnSet(f, s \ {y}) = a + m
    BY <1>6, <1>10, <1>11, <1>12, <1>13, Zenon
  <2> HIDE DEF m, a, b
  <2>2. SumFunctionOnSet(f, s) = b + SumFunctionOnSet(f, s \ {y})
    BY <2>1
  <2>3. QED
    BY <2>2 DEF b
<1>15. QED
  BY <1>4, <1>14

-----------------------------------------------------------------------------
(* Sums over finite sets, as the models take them *)

(* Nothing adds up to nothing.                                            *)
LEMMA SumEmpty ==
    ASSUME NEW f, DOMAIN f = {}
    PROVE  SumFunction(f) = 0
  BY SumOnEmpty DEF SumFunction

(* Integers add up to an integer, ...                                     *)
LEMMA SumInt ==
    ASSUME NEW S, IsFiniteSet(S), NEW f \in [S -> Int]
    PROVE  SumFunction(f) \in Int
  BY SumOnInt DEF SumFunction

(* ... whichever is added last, ...                                       *)
LEMMA SumInsert ==
    ASSUME NEW S, IsFiniteSet(S), NEW x, x \notin S,
           NEW f \in [S -> Int], NEW g \in [S \cup {x} -> Int], \A y \in S : g[y] = f[y]
    PROVE  SumFunction(g) = SumFunction(f) + g[x]
<1> DEFINE T == S \cup {x}
<1>1. IsFiniteSet(T) /\ x \in T /\ T \ {x} = S /\ DOMAIN g = T /\ DOMAIN f = S
  BY FS_AddElement
<1> HIDE DEF T
<1>2. \A y \in T : g[y] \in Int
  BY <1>1 DEF T
<1>3. SumFunctionOnSet(g, T) = g[x] + SumFunctionOnSet(g, S)
  BY <1>1, <1>2, SumAny
<1>4. SumFunctionOnSet(g, S) = SumFunctionOnSet(f, S)
  BY SumAgree
<1>5. SumFunctionOnSet(f, S) \in Int
  BY SumOnInt
<1>6. QED
  BY <1>1, <1>2, <1>3, <1>4, <1>5 DEF SumFunction

(* ... so a set that may have got one more element adds its value, ...     *)
LEMMA SumExtend ==
    ASSUME NEW S, IsFiniteSet(S), NEW x, x \notin S, NEW T, S \subseteq T, T \subseteq S \cup {x},
           NEW f \in [S -> Int], NEW g \in [T -> Int], \A y \in S : g[y] = f[y]
    PROVE  /\ IsFiniteSet(T)
           /\ SumFunction(g) = SumFunction(f) + (IF x \in T THEN g[x] ELSE 0)
<1>1. CASE x \in T
  <2>1. T = S \cup {x}
    BY <1>1
  <2>2. g \in [S \cup {x} -> Int] /\ IsFiniteSet(S \cup {x})
    BY <2>1, FS_AddElement
  <2>3. SumFunction(g) = SumFunction(f) + g[x]
    BY <2>2, SumInsert
  <2>4. QED
    BY <1>1, <2>1, <2>2, <2>3
<1>2. CASE x \notin T
  <2>1. T = S /\ g = f
    BY <1>2
  <2>2. SumFunction(f) \in Int
    BY SumInt
  <2>3. QED
    BY <1>2, <2>1, <2>2
<1>3. QED
  BY <1>1, <1>2

(* ... and a sum changes by what one of them changes.                     *)
LEMMA SumChange ==
    ASSUME NEW S, IsFiniteSet(S), NEW x \in S,
           NEW f \in [S -> Int], NEW g \in [S -> Int], \A y \in S \ {x} : g[y] = f[y]
    PROVE  SumFunction(g) = SumFunction(f) - f[x] + g[x]
<1> DEFINE R == S \ {x}
           e == [y \in R |-> f[y]]
<1>1. IsFiniteSet(R) /\ x \notin R /\ S = R \cup {x} /\ e \in [R -> Int]
  BY FS_RemoveElement
<1>2. \A y \in R : f[y] = e[y] /\ g[y] = e[y]
  OBVIOUS
<1> HIDE DEF R, e
<1>3. f \in [R \cup {x} -> Int] /\ g \in [R \cup {x} -> Int]
  BY <1>1
<1>4. SumFunction(f) = SumFunction(e) + f[x] /\ SumFunction(g) = SumFunction(e) + g[x]
  BY <1>1, <1>2, <1>3, SumInsert
<1>5. SumFunction(e) \in Int
  BY <1>1, SumInt
<1>6. QED
  BY <1>4, <1>5

(* The least counterexample: a statement about the sums over the subsets of
   a finite set holds when it holds of the empty set and of a set whenever
   it holds of the set without one of its elements.                        *)
LEMMA SubsetInduction ==
    ASSUME NEW S, IsFiniteSet(S), NEW Good, {} \in Good,
           \A R \in SUBSET S : \A x \in R : R \ {x} \in Good => R \in Good
    PROVE  S \in Good
<1> DEFINE Bad == {R \in SUBSET S : R \notin Good}
<1>1. SUFFICES ASSUME Bad # {} PROVE FALSE
  OBVIOUS
<1>2. \A R \in Bad : IsFiniteSet(R)
  BY FS_Subset
<1>3. PICK R \in Bad : \A Q \in Bad : Cardinality(R) <= Cardinality(Q)
  BY <1>1, <1>2, SmallestSet
<1>4. PICK x \in R : TRUE
  BY <1>3
<1>5. R \ {x} \notin Bad
  BY <1>2, <1>3, Smaller
<1>6. R \ {x} \in Good
  BY <1>5
<1>7. QED
  BY <1>3, <1>4, <1>6

(* Sums of natural numbers are natural numbers, ...                       *)
LEMMA SumNat ==
    ASSUME NEW S, IsFiniteSet(S), NEW f \in [S -> Nat]
    PROVE  SumFunction(f) \in Nat
<1> DEFINE Good == {R \in SUBSET S : SumFunctionOnSet(f, R) \in Nat}
<1>1. {} \in Good
  BY SumOnEmpty
<1>2. ASSUME NEW R \in SUBSET S, NEW x \in R, R \ {x} \in Good PROVE R \in Good
  <2>1. IsFiniteSet(R) /\ \A y \in R : f[y] \in Int
    BY FS_Subset
  <2>2. SumFunctionOnSet(f, R) = f[x] + SumFunctionOnSet(f, R \ {x})
    BY <2>1, SumAny
  <2>3. QED
    BY <1>2, <2>2
<1>3. S \in Good
  <2> HIDE DEF Good
  <2>1. QED
    BY <1>1, <1>2, SubsetInduction
<1>4. QED
  BY <1>3 DEF SumFunction

(* ... sums are added term by term, ...                                   *)
LEMMA SumPlus ==
    ASSUME NEW S, IsFiniteSet(S),
           NEW f \in [S -> Int], NEW g \in [S -> Int], NEW h \in [S -> Int],
           \A x \in S : h[x] = f[x] + g[x]
    PROVE  SumFunction(h) = SumFunction(f) + SumFunction(g)
<1> DEFINE Good == {R \in SUBSET S :
                      SumFunctionOnSet(h, R) = SumFunctionOnSet(f, R) + SumFunctionOnSet(g, R)}
<1>1. {} \in Good
  BY SumOnEmpty
<1>2. ASSUME NEW R \in SUBSET S, NEW x \in R, R \ {x} \in Good PROVE R \in Good
  <2>1. /\ IsFiniteSet(R) /\ IsFiniteSet(R \ {x})
        /\ \A y \in R : f[y] \in Int /\ g[y] \in Int /\ h[y] \in Int
    BY FS_Subset
  <2>2. /\ SumFunctionOnSet(f, R) = f[x] + SumFunctionOnSet(f, R \ {x})
        /\ SumFunctionOnSet(g, R) = g[x] + SumFunctionOnSet(g, R \ {x})
        /\ SumFunctionOnSet(h, R) = h[x] + SumFunctionOnSet(h, R \ {x})
    BY <2>1, SumAny
  <2>3. SumFunctionOnSet(f, R \ {x}) \in Int /\ SumFunctionOnSet(g, R \ {x}) \in Int
    BY <2>1, SumOnInt
  <2>4. h[x] = f[x] + g[x] /\ f[x] \in Int /\ g[x] \in Int
    BY <2>1
  <2>5. QED
    BY <1>2, <2>2, <2>3, <2>4
<1>3. S \in Good
  <2> HIDE DEF Good
  <2>1. QED
    BY <1>1, <1>2, SubsetInduction
<1>4. QED
  BY <1>3 DEF SumFunction

Adds(S, f, g, h) ==
    /\ IsFiniteSet(S) /\ f \in [S -> Int] /\ g \in [S -> Int] /\ h \in [S -> Int]
    /\ \A x \in S : h[x] = f[x] + g[x]

(* ... or, in one word, ...                                               *)
LEMMA SumAdds ==
    ASSUME NEW S, NEW f, NEW g, NEW h, Adds(S, f, g, h)
    PROVE  SumFunction(h) = SumFunction(f) + SumFunction(g)
  BY SumPlus DEF Adds

(* ... zeros add up to zero, ...                                          *)
LEMMA SumZero ==
    ASSUME NEW S, IsFiniteSet(S), NEW f \in [S -> Int], \A x \in S : f[x] = 0
    PROVE  SumFunction(f) = 0
<1>1. SumFunction(f) = SumFunction(f) + SumFunction(f)
  BY SumPlus
<1>2. SumFunction(f) \in Int
  BY SumInt
<1>3. \A k \in Int : k = k + k => k = 0
  OBVIOUS
<1>4. QED
  BY <1>1, <1>2, <1>3

(* ... zeros may be left out, ...                                         *)
LEMMA SumSupport ==
    ASSUME NEW S, IsFiniteSet(S), NEW T, T \subseteq S,
           NEW f \in [S -> Int], NEW g \in [T -> Int],
           \A x \in T : f[x] = g[x], \A x \in S \ T : f[x] = 0
    PROVE  SumFunction(f) = SumFunction(g)
<1> DEFINE Good == {R \in SUBSET S : SumFunctionOnSet(f, R) = SumFunctionOnSet(f, R \cap T)}
<1>1. {} \in Good
  BY {} \cap T = {}
<1>2. ASSUME NEW R \in SUBSET S, NEW x \in R, R \ {x} \in Good PROVE R \in Good
  <2>1. /\ IsFiniteSet(R) /\ IsFiniteSet(R \cap T)
        /\ \A y \in R : f[y] \in Int
        /\ \A y \in R \cap T : f[y] \in Int
    BY FS_Subset
  <2>2. SumFunctionOnSet(f, R) = f[x] + SumFunctionOnSet(f, R \ {x})
    BY <2>1, SumAny
  <2>3. SumFunctionOnSet(f, R \ {x}) = SumFunctionOnSet(f, (R \ {x}) \cap T)
    BY <1>2
  <2>4. CASE x \in T
    <3>1. x \in R \cap T /\ (R \cap T) \ {x} = (R \ {x}) \cap T
      BY <2>4
    <3>2. SumFunctionOnSet(f, R \cap T) = f[x] + SumFunctionOnSet(f, (R \cap T) \ {x})
      BY <2>1, <3>1, SumAny
    <3>3. QED
      BY <2>2, <2>3, <3>1, <3>2
  <2>5. CASE x \notin T
    <3>1. (R \ {x}) \cap T = R \cap T /\ f[x] = 0
      BY <2>5
    <3>2. SumFunctionOnSet(f, R \cap T) \in Int
      BY <2>1, SumOnInt
    <3>3. QED
      BY <2>2, <2>3, <3>1, <3>2
  <2>6. QED
    BY <2>4, <2>5
<1>3. S \in Good
  <2> HIDE DEF Good
  <2>1. QED
    BY <1>1, <1>2, SubsetInduction
<1>4. IsFiniteSet(T) /\ S \cap T = T
  BY FS_Subset
<1>5. SumFunctionOnSet(f, T) = SumFunctionOnSet(g, T)
  BY <1>4, SumAgree
<1>6. QED
  BY <1>3, <1>4, <1>5 DEF SumFunction

(* A sum in which only some terms are not zero, ...                       *)
Supports(S, T, f, g) ==
    /\ IsFiniteSet(S) /\ T \subseteq S /\ f \in [S -> Int] /\ g \in [T -> Int]
    /\ \A x \in T : f[x] = g[x]
    /\ \A x \in S \ T : f[x] = 0

(* ... in one word.                                                       *)
LEMMA SumSupports ==
    ASSUME NEW S, NEW T, NEW f, NEW g, Supports(S, T, f, g)
    PROVE  SumFunction(f) = SumFunction(g)
  BY SumSupport DEF Supports

(* ... and larger terms to a larger sum.                                  *)
LEMMA SumMonotone ==
    ASSUME NEW S, IsFiniteSet(S), NEW f \in [S -> Int], NEW g \in [S -> Int],
           \A x \in S : f[x] <= g[x]
    PROVE  SumFunction(f) <= SumFunction(g)
<1> DEFINE d == [x \in S |-> g[x] - f[x]]
<1>1. d \in [S -> Nat] /\ d \in [S -> Int] /\ \A x \in S : g[x] = f[x] + d[x]
  OBVIOUS
<1> HIDE DEF d
<1>2. SumFunction(g) = SumFunction(f) + SumFunction(d)
  BY <1>1, SumPlus
<1>3. SumFunction(d) \in Nat /\ SumFunction(f) \in Int
  BY <1>1, SumNat, SumInt
<1>4. QED
  BY <1>2, <1>3

(* No term of a sum of natural numbers exceeds it.                        *)
LEMMA SumBounds ==
    ASSUME NEW S, IsFiniteSet(S), NEW f \in [S -> Nat], NEW x \in S
    PROVE  f[x] <= SumFunction(f)
<1> DEFINE R == S \ {x}
           e == [y \in R |-> f[y]]
<1>1. /\ IsFiniteSet(R) /\ x \notin R /\ S = R \cup {x} /\ f \in [S -> Int]
      /\ e \in [R -> Int] /\ e \in [R -> Nat] /\ \A y \in R : f[y] = e[y]
  BY FS_RemoveElement
<1> HIDE DEF R, e
<1>2. f \in [R \cup {x} -> Int]
  BY <1>1
<1>3. SumFunction(f) = SumFunction(e) + f[x]
  BY <1>1, <1>2, SumInsert
<1>4. SumFunction(e) \in Nat
  BY <1>1, SumNat
<1>5. QED
  BY <1>3, <1>4


(* The sum over a sequence that got one more element.                     *)
LEMMA SumAppended ==
    ASSUME NEW n \in Nat, NEW f \in [1 .. n -> Int], NEW g \in [1 .. n + 1 -> Int],
           \A k \in 1 .. n : g[k] = f[k]
    PROVE  SumFunction(g) = SumFunction(f) + g[n + 1] /\ SumFunction(f) \in Int
<1> DEFINE S == 1 .. n
           T == 1 .. n + 1
<1>1. IsFiniteSet(S)
  BY FS_Interval
<1>2. n + 1 \notin S /\ n + 1 \in T /\ S \subseteq T /\ T \subseteq S \cup {n + 1}
  OBVIOUS
<1>3. f \in [S -> Int] /\ g \in [T -> Int] /\ \A k \in S : g[k] = f[k]
  OBVIOUS
<1> HIDE DEF S, T
<1>4. SumFunction(g) = SumFunction(f) + (IF n + 1 \in T THEN g[n + 1] ELSE 0)
  BY <1>1, <1>2, <1>3, SumExtend
<1>5. QED
  BY <1>1, <1>2, <1>3, <1>4, SumInt

(* The sum of one number.                                                 *)
LEMMA SumSingle ==
    ASSUME NEW x, NEW g \in [{x} -> Int]
    PROVE  SumFunction(g) = g[x]
<1> DEFINE S == {}
           T == {x}
           e == [y \in S |-> 0]
<1>1. /\ IsFiniteSet(S) /\ x \notin S /\ S \subseteq T /\ T \subseteq S \cup {x} /\ x \in T
      /\ e \in [S -> Int] /\ g \in [T -> Int] /\ \A y \in S : g[y] = e[y]
  BY FS_EmptySet
<1>2. SumFunction(e) = 0
  BY SumEmpty
<1>3. g[x] \in Int
  OBVIOUS
<1> HIDE DEF S, T, e
<1>4. SumFunction(g) = SumFunction(e) + (IF x \in T THEN g[x] ELSE 0)
  BY <1>1, SumExtend
<1>5. QED
  BY <1>1, <1>2, <1>3, <1>4

(* The sums over two sets without a common element.                       *)
Joins(S, T, f, g, h) ==
    /\ IsFiniteSet(S) /\ IsFiniteSet(T) /\ S \cap T = {}
    /\ f \in [S -> Int] /\ g \in [T -> Int] /\ h \in [S \cup T -> Int]
    /\ \A x \in S : h[x] = f[x]
    /\ \A x \in T : h[x] = g[x]

(* One sum is the other two.                                              *)
LEMMA SumUnion ==
    ASSUME NEW S, NEW T, NEW f, NEW g, NEW h, Joins(S, T, f, g, h)
    PROVE  SumFunction(h) = SumFunction(f) + SumFunction(g)
<1> USE DEF Joins
<1> DEFINE U == S \cup T
           e == [x \in U |-> IF x \in S THEN f[x] ELSE 0]
           d == [x \in U |-> IF x \in T THEN g[x] ELSE 0]
<1>1. IsFiniteSet(U) /\ S \subseteq U /\ T \subseteq U
  BY FS_Union
<1>2. e \in [U -> Int] /\ d \in [U -> Int] /\ h \in [U -> Int]
  OBVIOUS
<1>3. \A x \in U : h[x] = e[x] + d[x]
  OBVIOUS
<1>4. /\ \A x \in S : e[x] = f[x]
      /\ \A x \in U \ S : e[x] = 0
      /\ \A x \in T : d[x] = g[x]
      /\ \A x \in U \ T : d[x] = 0
  OBVIOUS
<1> HIDE DEF U, e, d
<1>5. SumFunction(h) = SumFunction(e) + SumFunction(d)
  BY <1>1, <1>2, <1>3, SumPlus
<1>6. SumFunction(e) = SumFunction(f) /\ SumFunction(d) = SumFunction(g)
  BY <1>1, <1>2, <1>4, SumSupport
<1>7. QED
  BY <1>5, <1>6

(* Every t has the sum of its part of f: of the elements it is the key of. *)
SumsOfParts(S, T, key, f, part, g) ==
    /\ IsFiniteSet(S) /\ IsFiniteSet(T)
    /\ key \in [S -> T] /\ f \in [S -> Int] /\ g \in [T -> Int]
    /\ \A t \in T : /\ part[t] \in [{x \in S : key[x] = t} -> Int]
                    /\ \A x \in S : key[x] = t => part[t][x] = f[x]
                    /\ g[t] = SumFunction(part[t])

(* What is added up part by part is added up.                             *)
LEMMA SumGroups ==
    ASSUME NEW S, NEW T, NEW key, NEW f, NEW part, NEW g, SumsOfParts(S, T, key, f, part, g)
    PROVE  SumFunction(g) = SumFunction(f)
<1> USE DEF SumsOfParts
<1> DEFINE Group(R, t) == {y \in R : key[y] = t}
           Grouped(R) == [t \in T |-> SumFunctionOnSet(f, Group(R, t))]
           Good == {R \in SUBSET S : SumFunction(Grouped(R)) = SumFunctionOnSet(f, R)}
<1>1. ASSUME NEW R \in SUBSET S
      PROVE  /\ IsFiniteSet(R) /\ \A x \in R : f[x] \in Int
             /\ \A t \in T : IsFiniteSet(Group(R, t)) /\ Group(R, t) \subseteq R
             /\ Grouped(R) \in [T -> Int]
             /\ \A t \in T : Grouped(R)[t] = SumFunctionOnSet(f, Group(R, t))
  <2>1. IsFiniteSet(R) /\ \A x \in R : f[x] \in Int
    BY FS_Subset
  <2>2. \A t \in T : IsFiniteSet(Group(R, t)) /\ Group(R, t) \subseteq R
    BY <2>1, FS_Subset
  <2>3. ASSUME NEW t \in T PROVE SumFunctionOnSet(f, Group(R, t)) \in Int
    BY <2>1, <2>2, SumOnInt
  <2>4. Grouped(R) \in [T -> Int] /\ \A t \in T : Grouped(R)[t] = SumFunctionOnSet(f, Group(R, t))
    BY <2>3
  <2>5. QED
    BY <2>1, <2>2, <2>4
<1>2. {} \in Good
  <2>1. \A t \in T : Group({}, t) = {}
    OBVIOUS
  <2>2. Grouped({}) \in [T -> Int] /\ \A t \in T : Grouped({})[t] = SumFunctionOnSet(f, Group({}, t))
    BY <1>1
  <2> HIDE DEF Grouped, Group
  <2>3. \A t \in T : Grouped({})[t] = 0
    BY <2>1, <2>2, SumOnEmpty
  <2>4. SumFunction(Grouped({})) = 0
    BY <2>2, <2>3, SumZero
  <2>5. QED
    BY <2>4, SumOnEmpty
<1>3. ASSUME NEW R \in SUBSET S, NEW x \in R, R \ {x} \in Good PROVE R \in Good
  <2> DEFINE Q == R \ {x}
             k == key[x]
  <2>1. Q \in SUBSET S /\ k \in T /\ f[x] \in Int
    OBVIOUS
  <2>2. \A t \in T \ {k} : Group(R, t) = Group(Q, t)
    OBVIOUS
  <2>3. x \in Group(R, k) /\ Group(R, k) \ {x} = Group(Q, k)
    OBVIOUS
  <2>4. PICK A : A = Group(R, k)
    OBVIOUS
  <2>5. IsFiniteSet(A) /\ x \in A /\ A \ {x} = Group(Q, k) /\ \A y \in A : f[y] \in Int
    BY <1>1, <2>1, <2>3, <2>4
  <2>6. PICK G, H : G = Grouped(R) /\ H = Grouped(Q)
    OBVIOUS
  <2>7. /\ G \in [T -> Int] /\ H \in [T -> Int] /\ H[k] \in Int /\ SumFunction(H) = SumFunctionOnSet(f, Q)
        /\ \A t \in T : G[t] = SumFunctionOnSet(f, Group(R, t)) /\ H[t] = SumFunctionOnSet(f, Group(Q, t))
    <3>1. /\ Grouped(R) \in [T -> Int]
          /\ \A t \in T : Grouped(R)[t] = SumFunctionOnSet(f, Group(R, t))
      BY <1>1
    <3>2. /\ Grouped(Q) \in [T -> Int]
          /\ \A t \in T : Grouped(Q)[t] = SumFunctionOnSet(f, Group(Q, t))
      BY <1>1, <2>1
    <3>3. SumFunction(Grouped(Q)) = SumFunctionOnSet(f, Q)
      BY <1>3
    <3> HIDE DEF Grouped, Group, Q, k
    <3>4. QED
      BY <2>1, <2>6, <3>1, <3>2, <3>3
  <2>8. SumFunctionOnSet(f, R) = f[x] + SumFunctionOnSet(f, Q) /\ SumFunctionOnSet(f, Q) \in Int
    BY <1>1, <2>1, SumAny, SumOnInt
  <2> HIDE DEF Grouped, Group, Q, k
  <2>9. SumFunctionOnSet(f, A) = f[x] + SumFunctionOnSet(f, A \ {x})
    BY <2>5, SumAny
  <2>10. G[k] = f[x] + H[k]
    BY <2>1, <2>4, <2>5, <2>7, <2>9
  <2>11. \A t \in T \ {k} : G[t] = H[t]
    BY <2>2, <2>7
  <2>12. SumFunction(G) = SumFunction(H) - H[k] + G[k]
    BY <2>1, <2>7, <2>11, SumChange
  <2>13. SumFunction(G) = SumFunctionOnSet(f, R)
    BY <2>1, <2>7, <2>8, <2>10, <2>12
  <2>14. QED
    BY <2>6, <2>13
<1>4. S \in Good
  <2> HIDE DEF Good
  <2>1. QED
    BY <1>2, <1>3, SubsetInduction
<1>5. Grouped(S) = g
  <2>1. ASSUME NEW t \in T PROVE g[t] = SumFunctionOnSet(f, Group(S, t))
    <3>1. PICK A, p : A = Group(S, t) /\ p = part[t]
      OBVIOUS
    <3>2. DOMAIN p = A /\ IsFiniteSet(A) /\ \A x \in A : p[x] = f[x]
      BY <1>1, <3>1 DEF SumsOfParts
    <3>3. SumFunctionOnSet(p, A) = SumFunctionOnSet(f, A)
      BY <3>2, SumAgree
    <3>4. SumFunction(p) = SumFunctionOnSet(p, A)
      BY <3>2 DEF SumFunction
    <3>5. g[t] = SumFunction(p)
      BY <3>1 DEF SumsOfParts
    <3>6. QED
      BY <3>1, <3>3, <3>4, <3>5
  <2>2. /\ \A t \in T : Grouped(S)[t] = SumFunctionOnSet(f, Group(S, t))
        /\ Grouped(S) \in [T -> Int]
    BY <1>1
  <2> HIDE DEF Grouped, Group
  <2>3. QED
    BY <2>1, <2>2
<1>6. QED
  BY <1>4, <1>5 DEF SumFunction

(* The terms of two sums, each with another name in the other.            *)
Renames(S, T, name, f, g) ==
    /\ IsFiniteSet(S) /\ IsFiniteSet(T) /\ name \in [S -> T]
    /\ \A t \in T : \E x \in S : {y \in S : name[y] = t} = {x}
    /\ f \in [S -> Int] /\ g \in [T -> Int] /\ \A x \in S : f[x] = g[name[x]]

(* It does not matter how the terms are called.                           *)
LEMMA SumRenamed ==
    ASSUME NEW S, NEW T, NEW name, NEW f, NEW g, Renames(S, T, name, f, g)
    PROVE  SumFunction(f) = SumFunction(g)
<1> USE DEF Renames
<1> DEFINE Group(t) == {y \in S : name[y] = t}
           part == [t \in T |-> [x \in Group(t) |-> f[x]]]
<1>1. ASSUME NEW t \in T
      PROVE  part[t] \in [Group(t) -> Int] /\ \A x \in Group(t) : part[t][x] = f[x]
  OBVIOUS
<1>2. ASSUME NEW t \in T PROVE g[t] = SumFunction(part[t])
  <2>1. PICK x \in S : Group(t) = {x}
    OBVIOUS
  <2>2. PICK p : p = part[t]
    OBVIOUS
  <2>3. name[x] = t /\ p \in [{x} -> Int] /\ p[x] = f[x]
    BY <1>1, <2>1, <2>2
  <2> HIDE DEF part, Group
  <2>4. SumFunction(p) = p[x]
    BY <2>3, SumSingle
  <2>5. QED
    BY <2>2, <2>3, <2>4
<1> HIDE DEF part
<1>3. SumsOfParts(S, T, name, f, part, g)
  BY <1>1, <1>2 DEF SumsOfParts
<1>4. QED
  BY <1>3, SumGroups

(* A running total: a start, and one more number after another.           *)
RunsOver(r, n, start, f) == r = [k \in 0 .. n |-> IF k = 0 THEN start ELSE r[k - 1] + f[k]]

(* The numbers up to one are those before it and that one.                *)
LEMMA SumUpTo ==
    ASSUME NEW n \in Nat, NEW f \in [1 .. n -> Int], NEW k \in 1 .. n
    PROVE  /\ SumFunctionOnSet(f, 1 .. k) = f[k] + SumFunctionOnSet(f, 1 .. (k - 1))
           /\ SumFunctionOnSet(f, 1 .. (k - 1)) \in Int /\ f[k] \in Int
<1>1. PICK S, R : S = 1 .. k /\ R = 1 .. (k - 1)
  OBVIOUS
<1>2. k \in S /\ S \ {k} = R /\ R \subseteq S /\ (\A j \in S : f[j] \in Int) /\ k \in Int /\ k - 1 \in Int
  BY <1>1
<1>3. IsFiniteSet(S) /\ IsFiniteSet(R)
  BY <1>1, <1>2, FS_Interval
<1>4. SumFunctionOnSet(f, S) = f[k] + SumFunctionOnSet(f, S \ {k})
  <2>1. PICK g, x : g = f /\ x = k
    OBVIOUS
  <2>2. x \in S /\ \A y \in S : g[y] \in Int
    BY <1>2, <2>1
  <2>3. SumFunctionOnSet(g, S) = g[x] + SumFunctionOnSet(g, S \ {x})
    BY <1>3, <2>2, SumAny
  <2>4. QED
    BY <2>1, <2>3
<1>5. SumFunctionOnSet(f, R) \in Int
  BY <1>2, <1>3, SumOnInt
<1>6. QED
  BY <1>1, <1>2, <1>4, <1>5

(* There is one, ...                                                      *)
LEMMA RunExists ==
    ASSUME NEW n \in Nat, NEW f \in [1 .. n -> Int], NEW start \in Int
    PROVE  \E r : RunsOver(r, n, start, f)
<1>1. PICK r : r = [k \in 0 .. n |-> start + SumFunctionOnSet(f, 1 .. k)]
  OBVIOUS
<1>2. r[0] = start
  <2>1. 1 .. 0 = {} /\ 0 \in 0 .. n
    OBVIOUS
  <2>2. SumFunctionOnSet(f, {}) = 0
    BY SumOnEmpty
  <2>3. r[0] = start + SumFunctionOnSet(f, {})
    BY <1>1, <2>1
  <2>4. QED
    BY <2>2, <2>3
<1>3. ASSUME NEW k \in 1 .. n PROVE r[k] = r[k - 1] + f[k]
  <2>1. PICK s, b : s = SumFunctionOnSet(f, 1 .. k) /\ b = SumFunctionOnSet(f, 1 .. (k - 1))
    OBVIOUS
  <2>2. s = f[k] + b /\ b \in Int /\ f[k] \in Int
    BY <2>1, SumUpTo
  <2>3. r[k] = start + s /\ r[k - 1] = start + b
    BY <1>1, <2>1
  <2>4. QED
    BY <2>2, <2>3
<1>4. \A k \in 0 .. n : r[k] = IF k = 0 THEN start ELSE r[k - 1] + f[k]
  BY <1>2, <1>3
<1>5. QED
  BY <1>1, <1>4 DEF RunsOver

(* ... and it ends at the start and the sum of all of them.               *)
LEMMA RunTotal ==
    ASSUME NEW n \in Nat, NEW f \in [1 .. n -> Int], NEW start \in Int,
           NEW r, RunsOver(r, n, start, f)
    PROVE  r[n] = start + SumFunction(f)
<1> DEFINE Bad == {k \in 0 .. n : r[k] # start + SumFunctionOnSet(f, 1 .. k)}
<1>1. r[0] = start /\ \A k \in 1 .. n : r[k] = r[k - 1] + f[k]
  BY DEF RunsOver
<1>2. SUFFICES Bad = {}
  <2>1. n \notin Bad /\ n \in 0 .. n
    BY <1>2
  <2>2. r[n] = start + SumFunctionOnSet(f, 1 .. n)
    BY <2>1
  <2>3. QED
    BY <2>2 DEF SumFunction
<1>3. SUFFICES ASSUME Bad # {} PROVE FALSE
  OBVIOUS
<1>4. PICK k \in Bad : \A j \in Bad : k <= j
  <2>1. Bad \subseteq Nat
    OBVIOUS
  <2> HIDE DEF Bad
  <2>2. QED
    BY <1>3, <2>1, LeastNumber
<1>5. CASE k = 0
  <2>1. 1 .. 0 = {}
    OBVIOUS
  <2>2. SumFunctionOnSet(f, {}) = 0
    BY SumOnEmpty
  <2>3. SumFunctionOnSet(f, 1 .. k) = 0
    BY <1>5, <2>1, <2>2
  <2>4. QED
    BY <1>1, <1>4, <1>5, <2>3
<1>6. CASE k # 0
  <2>1. k \in 1 .. n /\ k - 1 \in 0 .. n /\ k - 1 \notin Bad
    BY <1>4, <1>6
  <2>2. PICK s, b : s = SumFunctionOnSet(f, 1 .. k) /\ b = SumFunctionOnSet(f, 1 .. (k - 1))
    OBVIOUS
  <2>3. s = f[k] + b /\ b \in Int /\ f[k] \in Int
    BY <2>1, <2>2, SumUpTo
  <2>4. r[k - 1] = start + b
    BY <2>1, <2>2
  <2>5. r[k] = start + s
    BY <1>1, <2>1, <2>3, <2>4
  <2>6. QED
    BY <1>4, <2>2, <2>5
<1>7. QED
  BY <1>5, <1>6

=============================================================================
