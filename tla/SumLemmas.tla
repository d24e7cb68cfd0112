------------------------------ MODULE SumLemmas ------------------------------
(***************************************************************************)
(* Sums over finite sets.  SumFunctionOnSet(f, S) adds up f[x] for the     *)
(* members x of S; these lemmas say what it yields when the set or the     *)
(* function changes at one place, and compare and combine sums.  Each of   *)
(* the money and contract invariants rests on them.                        *)
(*                                                                         *)
(* The recursion behind the operator is over the subsets of S.  Induction  *)
(* over a finite set is used in the form FiniteInduction, with the subsets *)
(* that a fact holds of as a set, because no prover at hand instantiates a *)
(* theorem that takes the fact as an operator.                             *)
(***************************************************************************)
EXTENDS FiniteSetTheorems, TLAPS

\* A fact that holds of every subset of S whose proper subsets it holds of, holds of S.
LEMMA FiniteInduction ==
    ASSUME NEW S, IsFiniteSet(S), NEW Good,
           \A T \in SUBSET S : (\A R \in SUBSET T : R # T => R \in Good) => T \in Good
    PROVE  S \in Good
<1> DEFINE bad == {T \in FiniteSubsetsOf(S) : T \notin Good}
<1>1. SUFFICES ASSUME S \notin Good PROVE FALSE
  OBVIOUS
<1>2. bad \subseteq FiniteSubsetsOf(S) /\ bad # {}
  BY <1>1 DEF FiniteSubsetsOf
<1>3. PICK T \in bad : \A R \in bad : <<R, T>> \notin StrictSubsetOrdering(S)
  <2>1. IsWellFoundedOn(StrictSubsetOrdering(S), FiniteSubsetsOf(S))
    BY FS_StrictSubsetOrderingWellFounded
  <2> HIDE DEF bad
  <2>. QED
    BY <1>2, <2>1, WFMin
<1>4. T \in SUBSET S /\ IsFiniteSet(T)
  BY DEF FiniteSubsetsOf
<1>5. ASSUME NEW R \in SUBSET T, R # T PROVE R \in Good
  <2>1. R \in FiniteSubsetsOf(S)
    BY <1>4, FS_Subset DEF FiniteSubsetsOf
  <2>2. <<R, T>> \in StrictSubsetOrdering(S)
    BY <1>4, <1>5 DEF StrictSubsetOrdering
  <2>. QED
    BY <1>3, <2>1, <2>2
<1>. QED
  BY <1>4, <1>5

\* Of finitely many members that R puts in an order, one comes first.
LEMMA FirstMember ==
    ASSUME NEW S, IsFiniteSet(S), S # {}, NEW R,
           \A x, y \in S : x = y \/ <<x, y>> \in R \/ <<y, x>> \in R,
           \A x, y, z \in S : <<x, y>> \in R /\ <<y, z>> \in R => <<x, z>> \in R
    PROVE  \E x \in S : \A y \in S \ {x} : <<x, y>> \in R
<1> DEFINE good == {T \in SUBSET S : T # {} => \E x \in T : \A y \in T \ {x} : <<x, y>> \in R}
<1>1. ASSUME NEW T \in SUBSET S, \A Q \in SUBSET T : Q # T => Q \in good
      PROVE  T \in good
  <2>1. CASE T = {}
    BY <2>1
  <2>2. CASE T # {}
    <3>1. PICK a \in T : TRUE
      BY <2>2
    <3>2. PICK Q \in SUBSET T : Q = T \ {a}
      OBVIOUS
    <3>3. Q # T /\ Q \in good
      BY <1>1, <3>1, <3>2
    <3>4. CASE Q = {}
      BY <3>1, <3>2, <3>4
    <3>5. CASE Q # {}
      <4>1. PICK x \in Q : \A y \in Q \ {x} : <<x, y>> \in R
        BY <3>3, <3>5
      <4>2. x \in S /\ a \in S /\ x # a /\ \A y \in Q : y \in S
        BY <3>2, <4>1
      <4>3. CASE <<a, x>> \in R
        <5>1. \A y \in T \ {a} : <<a, y>> \in R
          BY <3>2, <4>1, <4>2, <4>3
        <5>. QED
          BY <5>1
      <4>4. CASE <<x, a>> \in R
        <5>1. \A y \in T \ {x} : <<x, y>> \in R
          BY <3>2, <4>1, <4>4
        <5>. QED
          BY <3>2, <4>1, <5>1
      <4>. QED
        BY <4>2, <4>3, <4>4
    <3>. QED
      BY <3>4, <3>5
  <2>. QED
    BY <2>1, <2>2
<1>2. S \in good
  <2> HIDE DEF good
  <2>. QED
    BY <1>1, FiniteInduction
<1>. QED
  BY <1>2

----------------------------------------------------------------------------
(***************************************************************************)
(* The recursive function behind a sum, and that there is one.             *)
(***************************************************************************)

\* The member that a sum adds first.
Pick(s) == CHOOSE x \in s : TRUE

Below(s) == s \ {Pick(s)}

IsSum(g, f, S) ==
    g = [s \in SUBSET S |-> IF s = {} THEN 0 ELSE f[Pick(s)] + g[Below(s)]]

TheSum(f, S) == CHOOSE g : IsSum(g, f, S)

\* The operator of the library is this function's value.
LEMMA SumIsChoice ==
    ASSUME NEW f, NEW S
    PROVE  SumFunctionOnSet(f, S) = TheSum(f, S)[S]
  BY DEF SumFunctionOnSet, FoldFunctionOnSet, MapThenFoldSet, TheSum, IsSum, Pick, Below

\* What is left after the first member.
LEMMA BelowSmaller ==
    ASSUME NEW s, s # {}
    PROVE  Pick(s) \in s /\ Below(s) \in SUBSET s /\ Below(s) # s
  BY DEF Pick, Below

\* Such a function's values.
LEMMA SumValue ==
    ASSUME NEW g, NEW f, NEW S, IsSum(g, f, S), NEW s \in SUBSET S
    PROVE  /\ s = {} => g[s] = 0
           /\ s # {} => g[s] = f[Pick(s)] + g[Below(s)]
  BY DEF IsSum

\* Two such functions agree where both are defined.
LEMMA SumUnique ==
    ASSUME NEW f, NEW S, NEW T, NEW g, NEW h, IsSum(g, f, S), IsSum(h, f, T),
           NEW s, s \in SUBSET S, s \in SUBSET T, IsFiniteSet(s)
    PROVE  g[s] = h[s]
<1> DEFINE good == {t \in SUBSET s : g[t] = h[t]}
<1>1. ASSUME NEW t \in SUBSET s, \A r \in SUBSET t : r # t => r \in good PROVE t \in good
  <2>1. CASE t = {}
    BY <2>1, SumValue
  <2>2. CASE t # {}
    <3>1. Below(t) \in good
      BY <1>1, <2>2, BelowSmaller
    <3>. QED
      BY <2>2, <3>1, SumValue
  <2>. QED
    BY <2>1, <2>2
<1>2. \A t \in SUBSET s : (\A r \in SUBSET t : r # t => r \in good) => t \in good
  BY <1>1
<1> HIDE DEF good
<1>3. s \in good
  BY <1>2, FiniteInduction
<1>. QED
  BY <1>3 DEF good

\* There is one for every finite set.
LEMMA SumExists ==
    ASSUME NEW f, NEW S, IsFiniteSet(S)
    PROVE  IsSum(TheSum(f, S), f, S)
<1> DEFINE good == {T \in SUBSET S : IsSum(TheSum(f, T), f, T)}
<1>1. ASSUME NEW T \in SUBSET S, \A R \in SUBSET T : R # T => R \in good PROVE T \in good
  <2> DEFINE h == [s \in SUBSET T |->
                      IF s = {} THEN 0 ELSE f[Pick(s)] + TheSum(f, Below(s))[Below(s)]]
  <2>1. ASSUME NEW s \in SUBSET T, s # T PROVE h[s] = TheSum(f, s)[s]
    <3>1. IsSum(TheSum(f, s), f, s)
      BY <1>1, <2>1
    <3>2. CASE s = {}
      BY <3>1, <3>2, SumValue
    <3>3. CASE s # {}
      <4>1. Below(s) \in SUBSET s /\ Below(s) # T /\ Below(s) \in SUBSET T
        BY <3>3, BelowSmaller
      <4>2. IsSum(TheSum(f, Below(s)), f, Below(s))
        BY <1>1, <4>1
      <4>3. IsFiniteSet(Below(s))
        BY <4>1, FS_Subset
      <4>4. TheSum(f, s)[Below(s)] = TheSum(f, Below(s))[Below(s)]
        BY <3>1, <4>1, <4>2, <4>3, SumUnique
      <4>. QED
        BY <3>1, <3>3, <4>4, SumValue
    <3>. QED
      BY <3>2, <3>3
  <2>2. ASSUME NEW s \in SUBSET T, s # {} PROVE TheSum(f, Below(s))[Below(s)] = h[Below(s)]
    <3>1. Below(s) \in SUBSET T /\ Below(s) # T
      BY <2>2, BelowSmaller
    <3> HIDE DEF h
    <3>. QED
      BY <2>1, <3>1
  <2>3. h = [s \in SUBSET T |-> IF s = {} THEN 0 ELSE f[Pick(s)] + h[Below(s)]]
    BY <2>2
  <2>4. IsSum(h, f, T)
    BY <2>3 DEF IsSum
  <2>. QED
    BY <2>4 DEF TheSum
<1>2. \A T \in SUBSET S : (\A R \in SUBSET T : R # T => R \in good) => T \in good
  BY <1>1
<1> HIDE DEF good
<1>3. S \in good
  BY <1>2, FiniteInduction
<1>. QED
  BY <1>3 DEF good

----------------------------------------------------------------------------
(***************************************************************************)
(* Sums, member by member.                                                 *)
(***************************************************************************)

\* The sum over no members.
LEMMA SumEmpty ==
    ASSUME NEW f
    PROVE  SumFunctionOnSet(f, {}) = 0
  BY FS_EmptySet, SumExists, SumIsChoice, SumValue

\* The first member, and the others.
LEMMA SumUnfold ==
    ASSUME NEW f, NEW S, IsFiniteSet(S), S # {}
    PROVE  SumFunctionOnSet(f, S) = f[Pick(S)] + SumFunctionOnSet(f, Below(S))
<1>1. Below(S) \in SUBSET S /\ IsFiniteSet(Below(S))
  BY BelowSmaller, FS_Subset
<1>2. IsSum(TheSum(f, S), f, S) /\ IsSum(TheSum(f, Below(S)), f, Below(S))
  BY <1>1, SumExists
<1>3. TheSum(f, S)[Below(S)] = TheSum(f, Below(S))[Below(S)]
  BY <1>1, <1>2, SumUnique
<1>4. TheSum(f, S)[S] = f[Pick(S)] + TheSum(f, S)[Below(S)]
  BY <1>2, SumValue
<1>. QED
  BY <1>3, <1>4, SumIsChoice

\* A sum of integers is an integer, one of naturals a natural.
LEMMA SumInt ==
    ASSUME NEW f, NEW S, IsFiniteSet(S), \A x \in S : f[x] \in Int
    PROVE  SumFunctionOnSet(f, S) \in Int
<1> DEFINE good == {T \in SUBSET S : SumFunctionOnSet(f, T) \in Int}
<1>1. ASSUME NEW T \in SUBSET S, \A R \in SUBSET T : R # T => R \in good PROVE T \in good
  <2>1. CASE T = {}
    BY <2>1, SumEmpty
  <2>2. CASE T # {}
    <3>1. Below(T) \in good /\ Pick(T) \in S
      BY <1>1, <2>2, BelowSmaller
    <3>2. SumFunctionOnSet(f, T) = f[Pick(T)] + SumFunctionOnSet(f, Below(T))
      BY <2>2, FS_Subset, SumUnfold
    <3>. QED
      BY <3>1, <3>2
  <2>. QED
    BY <2>1, <2>2
<1>2. \A T \in SUBSET S : (\A R \in SUBSET T : R # T => R \in good) => T \in good
  BY <1>1
<1> HIDE DEF good
<1>3. S \in good
  BY <1>2, FiniteInduction
<1>. QED
  BY <1>3 DEF good

LEMMA SumNat ==
    ASSUME NEW f, NEW S, IsFiniteSet(S), \A x \in S : f[x] \in Nat
    PROVE  SumFunctionOnSet(f, S) \in Nat
<1> DEFINE good == {T \in SUBSET S : SumFunctionOnSet(f, T) \in Nat}
<1>1. ASSUME NEW T \in SUBSET S, \A R \in SUBSET T : R # T => R \in good PROVE T \in good
  <2>1. CASE T = {}
    BY <2>1, SumEmpty
  <2>2. CASE T # {}
    <3>1. Below(T) \in good /\ Pick(T) \in S
      BY <1>1, <2>2, BelowSmaller
    <3>2. SumFunctionOnSet(f, T) = f[Pick(T)] + SumFunctionOnSet(f, Below(T))
      BY <2>2, FS_Subset, SumUnfold
    <3>. QED
      BY <3>1, <3>2
  <2>. QED
    BY <2>1, <2>2
<1>2. \A T \in SUBSET S : (\A R \in SUBSET T : R # T => R \in good) => T \in good
  BY <1>1
<1> HIDE DEF good
<1>3. S \in good
  BY <1>2, FiniteInduction
<1>. QED
  BY <1>3 DEF good

\* Any member may be taken out first.
LEMMA SumMember ==
    ASSUME NEW f, NEW S, IsFiniteSet(S), \A x \in S : f[x] \in Int, NEW y \in S
    PROVE  SumFunctionOnSet(f, S) = f[y] + SumFunctionOnSet(f, S \ {y})
<1> DEFINE good == {T \in SUBSET S : \A x \in T :
                       SumFunctionOnSet(f, T) = f[x] + SumFunctionOnSet(f, T \ {x})}
<1>1. ASSUME NEW T \in SUBSET S, \A R \in SUBSET T : R # T => R \in good,
             NEW x \in T
      PROVE  SumFunctionOnSet(f, T) = f[x] + SumFunctionOnSet(f, T \ {x})
  <2> DEFINE p == Pick(T)
  <2>1. p \in T /\ IsFiniteSet(T) /\ Below(T) = T \ {p}
    BY FS_Subset, BelowSmaller DEF Below
  <2>2. SumFunctionOnSet(f, T) = f[p] + SumFunctionOnSet(f, T \ {p})
    BY <2>1, SumUnfold
  <2>3. CASE x = p
    BY <2>2, <2>3
  <2>4. CASE x # p
    <3>1. T \ {p} \in good /\ T \ {x} \in good /\ x \in T \ {p} /\ p \in T \ {x}
      BY <1>1, <2>1, <2>4
    <3>2. SumFunctionOnSet(f, T \ {p}) = f[x] + SumFunctionOnSet(f, (T \ {p}) \ {x})
      BY <3>1
    <3>3. SumFunctionOnSet(f, T \ {x}) = f[p] + SumFunctionOnSet(f, (T \ {x}) \ {p})
      BY <3>1
    <3>4. (T \ {p}) \ {x} = (T \ {x}) \ {p}
      OBVIOUS
    <3>5. SumFunctionOnSet(f, (T \ {x}) \ {p}) \in Int
      BY FS_Subset, SumInt
    <3>6. f[p] \in Int /\ f[x] \in Int
      BY <2>1
    <3> HIDE DEF p, good
    <3> DEFINE rest == SumFunctionOnSet(f, (T \ {x}) \ {p})
    <3>7. SumFunctionOnSet(f, T) = f[p] + (f[x] + rest)
      BY <2>2, <3>2, <3>4
    <3>8. SumFunctionOnSet(f, T \ {x}) = f[p] + rest /\ rest \in Int
      BY <3>3, <3>5
    <3> HIDE DEF rest
    <3>. QED
      BY <3>6, <3>7, <3>8
  <2>. QED
    BY <2>3, <2>4
<1>2. \A T \in SUBSET S : (\A R \in SUBSET T : R # T => R \in good) => T \in good
  BY <1>1
<1> HIDE DEF good
<1>3. S \in good
  BY <1>2, FiniteInduction
<1>. QED
  BY <1>3 DEF good

----------------------------------------------------------------------------
(***************************************************************************)
(* Sums of other functions, and over other sets.                           *)
(***************************************************************************)

\* A member more.
LEMMA SumAdded ==
    ASSUME NEW f, NEW S, IsFiniteSet(S), NEW y, y \notin S, \A x \in S : f[x] \in Int,
           f[y] \in Int
    PROVE  SumFunctionOnSet(f, S \cup {y}) = SumFunctionOnSet(f, S) + f[y]
<1>1. IsFiniteSet(S \cup {y}) /\ (S \cup {y}) \ {y} = S
  BY FS_AddElement
<1>2. SumFunctionOnSet(f, S \cup {y})
         = f[y] + SumFunctionOnSet(f, (S \cup {y}) \ {y})
  BY <1>1, SumMember
<1>3. SumFunctionOnSet(f, S) \in Int
  BY SumInt
<1> DEFINE rest == SumFunctionOnSet(f, S)
<1>4. SumFunctionOnSet(f, S \cup {y}) = f[y] + rest
  BY <1>1, <1>2
<1> HIDE DEF rest
<1>5. f[y] + rest = rest + f[y]
  BY <1>3 DEF rest
<1>. QED
  BY <1>4, <1>5 DEF rest

\* The sum depends on the values at the members alone.
LEMMA SumEqual ==
    ASSUME NEW f, NEW g, NEW S, IsFiniteSet(S), \A x \in S : f[x] = g[x]
    PROVE  SumFunctionOnSet(f, S) = SumFunctionOnSet(g, S)
<1> DEFINE good == {T \in SUBSET S : SumFunctionOnSet(f, T) = SumFunctionOnSet(g, T)}
<1>1. ASSUME NEW T \in SUBSET S, \A R \in SUBSET T : R # T => R \in good PROVE T \in good
  <2>1. CASE T = {}
    BY <2>1, SumEmpty
  <2>2. CASE T # {}
    <3>1. Below(T) \in good /\ Pick(T) \in S
      BY <1>1, <2>2, BelowSmaller
    <3>2. /\ SumFunctionOnSet(f, T) = f[Pick(T)] + SumFunctionOnSet(f, Below(T))
          /\ SumFunctionOnSet(g, T) = g[Pick(T)] + SumFunctionOnSet(g, Below(T))
      BY <2>2, FS_Subset, SumUnfold
    <3>. QED
      BY <3>1, <3>2
  <2>. QED
    BY <2>1, <2>2
<1>2. \A T \in SUBSET S : (\A R \in SUBSET T : R # T => R \in good) => T \in good
  BY <1>1
<1> HIDE DEF good
<1>3. S \in good
  BY <1>2, FiniteInduction
<1>. QED
  BY <1>3 DEF good

\* Another value at one member.
LEMMA SumChanged ==
    ASSUME NEW f, NEW g, NEW S, IsFiniteSet(S), NEW y \in S,
           \A x \in S : f[x] \in Int, g[y] \in Int, \A x \in S \ {y} : g[x] = f[x]
    PROVE  SumFunctionOnSet(g, S) = SumFunctionOnSet(f, S) + (g[y] - f[y])
<1> DEFINE rest == SumFunctionOnSet(f, S \ {y})
<1>1. IsFiniteSet(S \ {y})
  BY FS_Subset
<1>2. SumFunctionOnSet(g, S \ {y}) = rest /\ rest \in Int
  BY <1>1, SumEqual, SumInt
<1>3. SumFunctionOnSet(f, S) = f[y] + rest /\ SumFunctionOnSet(g, S) = g[y] + rest
  BY <1>2, SumMember
<1> HIDE DEF rest
<1>. QED
  BY <1>2, <1>3

\* The same amounts added everywhere.
LEMMA SumPlus ==
    ASSUME NEW f, NEW g, NEW h, NEW S, IsFiniteSet(S),
           \A x \in S : f[x] \in Int /\ g[x] \in Int /\ h[x] = f[x] + g[x]
    PROVE  SumFunctionOnSet(h, S) = SumFunctionOnSet(f, S) + SumFunctionOnSet(g, S)
<1> DEFINE good == {T \in SUBSET S :
                       SumFunctionOnSet(h, T) = SumFunctionOnSet(f, T) + SumFunctionOnSet(g, T)}
<1>1. ASSUME NEW T \in SUBSET S, \A R \in SUBSET T : R # T => R \in good PROVE T \in good
  <2>1. CASE T = {}
    BY <2>1, SumEmpty
  <2>2. CASE T # {}
    <3> DEFINE p == Pick(T)
               a == SumFunctionOnSet(f, Below(T))
               b == SumFunctionOnSet(g, Below(T))
    <3>1. Below(T) \in good /\ p \in S /\ IsFiniteSet(Below(T)) /\ Below(T) \in SUBSET S
      BY <1>1, <2>2, BelowSmaller, FS_Subset
    <3>2. /\ SumFunctionOnSet(f, T) = f[p] + a
          /\ SumFunctionOnSet(g, T) = g[p] + b
          /\ SumFunctionOnSet(h, T) = h[p] + SumFunctionOnSet(h, Below(T))
      BY <2>2, FS_Subset, SumUnfold
    <3>3. a \in Int /\ b \in Int /\ SumFunctionOnSet(h, Below(T)) = a + b
      BY <3>1, SumInt
    <3>4. f[p] \in Int /\ g[p] \in Int /\ h[p] = f[p] + g[p]
      BY <3>1
    <3> HIDE DEF a, b, p, good
    <3>5. SumFunctionOnSet(h, T) = (f[p] + g[p]) + (a + b)
      BY <3>2, <3>3, <3>4
    <3>6. SumFunctionOnSet(h, T) = SumFunctionOnSet(f, T) + SumFunctionOnSet(g, T)
      BY <3>2, <3>3, <3>4, <3>5
    <3>. QED
      BY <3>6 DEF good
  <2>. QED
    BY <2>1, <2>2
<1>2. \A T \in SUBSET S : (\A R \in SUBSET T : R # T => R \in good) => T \in good
  BY <1>1
<1> HIDE DEF good
<1>3. S \in good
  BY <1>2, FiniteInduction
<1>. QED
  BY <1>3 DEF good

\* Nothing everywhere.
LEMMA SumZero ==
    ASSUME NEW f, NEW S, IsFiniteSet(S), \A x \in S : f[x] = 0
    PROVE  SumFunctionOnSet(f, S) = 0
<1> DEFINE good == {T \in SUBSET S : SumFunctionOnSet(f, T) = 0}
<1>1. ASSUME NEW T \in SUBSET S, \A R \in SUBSET T : R # T => R \in good PROVE T \in good
  <2>1. CASE T = {}
    BY <2>1, SumEmpty
  <2>2. CASE T # {}
    <3>1. Below(T) \in good /\ Pick(T) \in S
      BY <1>1, <2>2, BelowSmaller
    <3>2. SumFunctionOnSet(f, T) = f[Pick(T)] + SumFunctionOnSet(f, Below(T))
      BY <2>2, FS_Subset, SumUnfold
    <3>. QED
      BY <3>1, <3>2
  <2>. QED
    BY <2>1, <2>2
<1>2. \A T \in SUBSET S : (\A R \in SUBSET T : R # T => R \in good) => T \in good
  BY <1>1
<1> HIDE DEF good
<1>3. S \in good
  BY <1>2, FiniteInduction
<1>. QED
  BY <1>3 DEF good

\* A sum over some members only is one over all members, of nothing at the others.
LEMMA SumOfSome ==
    ASSUME NEW f, NEW g, NEW S, IsFiniteSet(S), NEW R \in SUBSET S,
           \A x \in R : f[x] \in Int /\ g[x] = f[x], \A x \in S \ R : g[x] = 0
    PROVE  SumFunctionOnSet(f, R) = SumFunctionOnSet(g, S)
<1> DEFINE good == {T \in SUBSET S :
                       SumFunctionOnSet(f, T \cap R) = SumFunctionOnSet(g, T)}
<1>1. ASSUME NEW T \in SUBSET S, \A Q \in SUBSET T : Q # T => Q \in good PROVE T \in good
  <2>1. CASE T = {}
    <3>1. T \cap R = {}
      BY <2>1
    <3>. QED
      BY <2>1, <3>1, SumEmpty
  <2>2. CASE T # {}
    <3> DEFINE p == Pick(T)
    <3>1. /\ p \in T /\ p \in S /\ IsFiniteSet(T) /\ IsFiniteSet(T \cap R)
          /\ T \ {p} \in good /\ T \ {p} \in SUBSET S
      <4>1. p \in T /\ Below(T) = T \ {p} /\ Below(T) \in SUBSET T /\ Below(T) # T
        BY <2>2, BelowSmaller DEF Below
      <4>2. IsFiniteSet(T) /\ IsFiniteSet(T \cap R)
        BY FS_Subset
      <4>3. Below(T) \in good
        BY <1>1, <4>1
      <4>. QED
        BY <4>1, <4>2, <4>3
    <3>2. SumFunctionOnSet(g, T) = g[p] + SumFunctionOnSet(g, T \ {p})
      BY <2>2, <3>1, SumUnfold DEF Below
    <3>3. SumFunctionOnSet(f, (T \ {p}) \cap R) = SumFunctionOnSet(g, T \ {p})
      BY <3>1
    <3>4. SumFunctionOnSet(g, T \ {p}) \in Int
      BY <3>1, FS_Subset, SumInt
    <3>5. CASE p \in R
      <4>1. (T \cap R) \ {p} = (T \ {p}) \cap R
        OBVIOUS
      <4>2. SumFunctionOnSet(f, T \cap R) = f[p] + SumFunctionOnSet(f, (T \cap R) \ {p})
        BY <3>1, <3>5, SumMember
      <4>. QED
        BY <3>2, <3>3, <3>5, <4>1, <4>2
    <3>6. CASE p \notin R
      <4>1. (T \ {p}) \cap R = T \cap R
        BY <3>6
      <4>2. g[p] = 0
        BY <3>1, <3>6
      <4> HIDE DEF p, good
      <4>3. SumFunctionOnSet(g, T) = SumFunctionOnSet(g, T \ {p})
        BY <3>2, <3>4, <4>2
      <4>. QED
        BY <3>3, <4>1, <4>3 DEF good
    <3>. QED
      BY <3>5, <3>6
  <2>. QED
    BY <2>1, <2>2
<1>2. \A T \in SUBSET S : (\A Q \in SUBSET T : Q # T => Q \in good) => T \in good
  BY <1>1
<1> HIDE DEF good
<1>3. S \in good
  BY <1>2, FiniteInduction
<1>4. S \cap R = R
  OBVIOUS
<1>. QED
  BY <1>3, <1>4 DEF good

\* Every amount counted under its key: the sum of the sums is the sum of all.
LEMMA SumByKey ==
    ASSUME NEW f, NEW key, NEW S, IsFiniteSet(S), NEW K, IsFiniteSet(K),
           \A x \in S : f[x] \in Int /\ key[x] \in K
    PROVE  SumFunctionOnSet([k \in K |-> SumFunctionOnSet(f, {x \in S : key[x] = k})], K)
               = SumFunctionOnSet(f, S)
<1> DEFINE Part(T) == [k \in K |-> SumFunctionOnSet(f, {x \in T : key[x] = k})]
           good == {T \in SUBSET S :
                       SumFunctionOnSet(Part(T), K) = SumFunctionOnSet(f, T)}
<1>1. ASSUME NEW T \in SUBSET S, \A R \in SUBSET T : R # T => R \in good PROVE T \in good
  <2>1. CASE T = {}
    <3>1. \A k \in K : {x \in T : key[x] = k} = {}
      BY <2>1
    <3>2. \A k \in K : Part(T)[k] = 0
      BY <3>1, SumEmpty
    <3> HIDE DEF Part
    <3>. QED
      BY <2>1, <3>2, SumZero, SumEmpty
  <2>2. CASE T # {}
    <3> DEFINE p == Pick(T)
               Of(k) == {x \in T : key[x] = k}
               Rest(k) == {x \in T \ {p} : key[x] = k}
    <3>1. /\ p \in T /\ p \in S /\ IsFiniteSet(T) /\ T \ {p} \in good
          /\ IsFiniteSet(T \ {p})
      <4>1. p \in T /\ Below(T) = T \ {p} /\ Below(T) \in SUBSET T /\ Below(T) # T
        BY <2>2, BelowSmaller DEF Below
      <4>2. IsFiniteSet(T) /\ IsFiniteSet(T \ {p})
        BY FS_Subset
      <4>3. Below(T) \in good
        BY <1>1, <4>1
      <4>. QED
        BY <4>1, <4>2, <4>3
    <3>2. SumFunctionOnSet(f, T) = f[p] + SumFunctionOnSet(f, T \ {p})
      BY <2>2, <3>1, SumUnfold DEF Below
    <3>3. \A k \in K : IsFiniteSet(Of(k)) /\ IsFiniteSet(Rest(k))
      BY <3>1, FS_Subset
    <3>4. \A k \in K : /\ SumFunctionOnSet(f, Of(k)) \in Int
                       /\ SumFunctionOnSet(f, Rest(k)) \in Int
      BY <3>3, SumInt
    <3>5. \A k \in K \ {key[p]} : Of(k) = Rest(k)
      OBVIOUS
    <3>6. SumFunctionOnSet(f, Of(key[p])) = f[p] + SumFunctionOnSet(f, Rest(key[p]))
      <4>1. p \in Of(key[p]) /\ Of(key[p]) \ {p} = Rest(key[p])
        BY <3>1
      <4>2. \A x \in Of(key[p]) : f[x] \in Int
        OBVIOUS
      <4>3. IsFiniteSet(Of(key[p]))
        BY <3>1, <3>3
      <4> HIDE DEF Of, Rest, p
      <4>. QED
        BY <4>1, <4>2, <4>3, SumMember
    <3> DEFINE a == Part(T)
               b == Part(T \ {p})
               q == key[p]
    <3>7. /\ \A k \in K : b[k] \in Int /\ a[k] \in Int
          /\ \A k \in K \ {q} : a[k] = b[k]
          /\ a[q] = f[p] + b[q]
          /\ q \in K /\ f[p] \in Int
      BY <3>1, <3>4, <3>5, <3>6
    <3>8. SumFunctionOnSet(b, K) = SumFunctionOnSet(f, T \ {p})
      BY <3>1
    <3>9. SumFunctionOnSet(f, T \ {p}) \in Int
      BY <3>1, SumInt
    <3> HIDE DEF a, b, q, p, good, Part
    <3>10. SumFunctionOnSet(a, K) = SumFunctionOnSet(b, K) + (a[q] - b[q])
      BY <3>7, SumChanged
    <3>11. a[q] - b[q] = f[p]
      BY <3>7
    <3>12. SumFunctionOnSet(a, K) = SumFunctionOnSet(f, T)
      BY <3>2, <3>7, <3>8, <3>9, <3>10, <3>11
    <3>. QED
      BY <3>12 DEF a, good
  <2>. QED
    BY <2>1, <2>2
<1>2. \A T \in SUBSET S : (\A R \in SUBSET T : R # T => R \in good) => T \in good
  BY <1>1
<1> HIDE DEF good
<1>3. S \in good
  BY <1>2, FiniteInduction
<1>. QED
  BY <1>3 DEF good

\* More members make no less.
LEMMA SumOfMore ==
    ASSUME NEW f, NEW S, IsFiniteSet(S), \A x \in S : f[x] \in Nat, NEW R \in SUBSET S
    PROVE  /\ SumFunctionOnSet(f, R) \in Nat /\ SumFunctionOnSet(f, S) \in Nat
           /\ SumFunctionOnSet(f, R) <= SumFunctionOnSet(f, S)
<1>1. PICK g : g = [x \in S |-> IF x \in R THEN f[x] ELSE 0]
  OBVIOUS
<1>2. PICK h : h = [x \in S |-> IF x \in R THEN 0 ELSE f[x]]
  OBVIOUS
<1>3. \A x \in S : g[x] \in Int /\ h[x] \in Int /\ f[x] = g[x] + h[x] /\ h[x] \in Nat
  BY <1>1, <1>2
<1>4. SumFunctionOnSet(f, S) = SumFunctionOnSet(g, S) + SumFunctionOnSet(h, S)
  BY <1>3, SumPlus
<1>5. \A x \in R : f[x] \in Int /\ g[x] = f[x]
  BY <1>1
<1>6. \A x \in S \ R : g[x] = 0
  BY <1>1
<1>7. SumFunctionOnSet(f, R) = SumFunctionOnSet(g, S)
  BY <1>5, <1>6, SumOfSome
<1>8. SumFunctionOnSet(h, S) \in Nat /\ SumFunctionOnSet(f, S) \in Nat
  BY <1>3, SumNat
<1>9. SumFunctionOnSet(f, R) \in Nat
  BY FS_Subset, SumNat
<1>. QED
  BY <1>4, <1>7, <1>8, <1>9

\* No amount below nothing: none exceeds the sum.
LEMMA SumBounds ==
    ASSUME NEW f, NEW S, IsFiniteSet(S), \A x \in S : f[x] \in Nat, NEW y \in S
    PROVE  f[y] <= SumFunctionOnSet(f, S)
<1>1. IsFiniteSet(S \ {y})
  BY FS_Subset
<1>2. SumFunctionOnSet(f, S \ {y}) \in Nat
  BY <1>1, SumNat
<1>3. SumFunctionOnSet(f, S) = f[y] + SumFunctionOnSet(f, S \ {y})
  BY SumMember
<1>. QED
  BY <1>2, <1>3

\* a has the sums of the rows of the table f; g is the table f with rows and columns
\* exchanged.
RowSum(a, f, S, K) == \A x \in S : a[x] = SumFunctionOnSet(f[x], K)
Transposed(g, f, S, K) == \A y \in K, x \in S : g[y][x] = f[x][y]

\* A double sum may be taken in either order.
LEMMA SumSwap ==
    ASSUME NEW f, NEW S, IsFiniteSet(S), NEW K, IsFiniteSet(K),
           \A x \in S, y \in K : f[x][y] \in Int,
           NEW a, RowSum(a, f, S, K), NEW g, Transposed(g, f, S, K),
           NEW b, RowSum(b, g, K, S)
    PROVE  SumFunctionOnSet(a, S) = SumFunctionOnSet(b, K)
<1> DEFINE Column(y) == [x \in S |-> f[x][y]]
           rows(T) == [x \in S |-> SumFunctionOnSet(f[x], T)]
           columns == [y \in K |-> SumFunctionOnSet(Column(y), S)]
           Swapped(T) == SumFunctionOnSet(rows(T), S) = SumFunctionOnSet(columns, T)
           good == {T \in SUBSET K : Swapped(T)}
<1>1. ASSUME NEW T \in SUBSET K, \A R \in SUBSET T : R # T => R \in good
      PROVE  T \in good
  <2>1. IsFiniteSet(T)
    BY FS_Subset
  <2>2. CASE T = {}
    <3>1. \A x \in S : rows(T)[x] = 0
      BY <2>2, SumEmpty
    <3>2. PICK p : p = rows(T)
      OBVIOUS
    <3>3. SumFunctionOnSet(p, S) = 0
      BY <3>1, <3>2, SumZero
    <3>4. SumFunctionOnSet(columns, T) = 0
      BY <2>2, SumEmpty
    <3>. QED
      BY <3>2, <3>3, <3>4
  <2>3. CASE T # {}
    <3>1. PICK y : y \in T
      BY <2>3
    <3>2. PICK rest : rest = T \ {y}
      OBVIOUS
    <3>3. rest \in SUBSET T /\ rest # T /\ rest \in SUBSET K /\ IsFiniteSet(rest)
      BY <2>1, <3>1, <3>2, FS_Subset
    <3>4. SumFunctionOnSet(rows(rest), S) = SumFunctionOnSet(columns, rest)
      BY <1>1, <3>3
    <3>5. PICK p : p = rows(T)
      OBVIOUS
    <3>6. PICK h : h = rows(rest)
      OBVIOUS
    <3>7. PICK c : c = Column(y)
      OBVIOUS
    <3>8. ASSUME NEW x \in S PROVE c[x] \in Int /\ h[x] \in Int /\ p[x] = c[x] + h[x]
      <4>1. PICK row : row = f[x]
        OBVIOUS
      <4>2. \A k \in T : row[k] \in Int
        BY <4>1
      <4>3. SumFunctionOnSet(row, T) = row[y] + SumFunctionOnSet(row, rest)
        BY <2>1, <3>1, <3>2, <4>2, SumMember
      <4>4. SumFunctionOnSet(row, rest) \in Int
        BY <3>3, <4>2, SumInt
      <4>. QED
        BY <3>1, <3>5, <3>6, <3>7, <4>1, <4>2, <4>3, <4>4
    <3>9. SumFunctionOnSet(p, S) = SumFunctionOnSet(c, S) + SumFunctionOnSet(h, S)
      BY <3>8, SumPlus
    <3>10. \A k \in K : columns[k] \in Int
      <4> SUFFICES ASSUME NEW k \in K PROVE columns[k] \in Int
        OBVIOUS
      <4>1. PICK d : d = Column(k)
        OBVIOUS
      <4>2. \A x \in S : d[x] \in Int
        BY <4>1
      <4>3. SumFunctionOnSet(d, S) \in Int
        BY <4>2, SumInt
      <4>. QED
        BY <4>1, <4>3
    <3>11. PICK totals : totals = columns
      OBVIOUS
    <3>12. SumFunctionOnSet(totals, T) = totals[y] + SumFunctionOnSet(totals, rest)
      <4>1. \A k \in T : totals[k] \in Int
        <5> HIDE DEF columns
        <5>. QED
          BY <3>10, <3>11
      <4>. QED
        BY <2>1, <3>1, <3>2, <4>1, SumMember
    <3>13. totals[y] = SumFunctionOnSet(c, S)
      BY <3>1, <3>7, <3>11
    <3>. QED
      BY <3>4, <3>5, <3>6, <3>9, <3>11, <3>12, <3>13
  <2>. QED
    BY <2>2, <2>3
<1>2. \A T \in SUBSET K : (\A R \in SUBSET T : R # T => R \in good) => T \in good
  BY <1>1
<1>3. K \in good
  <2> HIDE DEF good
  <2>. QED
    BY <1>2, FiniteInduction
<1>4. Swapped(K)
  <2> HIDE DEF Swapped
  <2>. QED
    BY <1>3
<1>5. SumFunctionOnSet(a, S) = SumFunctionOnSet(rows(K), S)
  <2>1. PICK r : r = rows(K)
    OBVIOUS
  <2>2. \A x \in S : a[x] = r[x]
    BY <2>1 DEF RowSum
  <2>3. SumFunctionOnSet(a, S) = SumFunctionOnSet(r, S)
    BY <2>2, SumEqual
  <2>. QED
    BY <2>1, <2>3
<1>6. SumFunctionOnSet(b, K) = SumFunctionOnSet(columns, K)
  <2>1. PICK c : c = columns
    OBVIOUS
  <2>2. ASSUME NEW y \in K PROVE b[y] = c[y]
    <3>1. PICK d : d = Column(y)
      OBVIOUS
    <3>2. PICK e : e = g[y]
      OBVIOUS
    <3>3. \A x \in S : d[x] = e[x]
      BY <3>1, <3>2 DEF Transposed
    <3>4. SumFunctionOnSet(d, S) = SumFunctionOnSet(e, S)
      BY <3>3, SumEqual
    <3>. QED
      BY <2>1, <3>1, <3>2, <3>4 DEF RowSum
  <2>3. SumFunctionOnSet(b, K) = SumFunctionOnSet(c, K)
    BY <2>2, SumEqual
  <2>. QED
    BY <2>1, <2>3
<1>. QED
  BY <1>4, <1>5, <1>6

\* A sum of which only one member is not nothing.
LEMMA SumAt ==
    ASSUME NEW S, IsFiniteSet(S), NEW y \in S, NEW a \in Int
    PROVE  SumFunctionOnSet([x \in S |-> IF x = y THEN a ELSE 0], S) = a
<1>1. PICK f : f = [x \in S |-> IF x = y THEN a ELSE 0]
  OBVIOUS
<1>2. PICK g : g = [x \in S |-> 0]
  OBVIOUS
<1>3. /\ \A x \in S : f[x] \in Int /\ g[x] \in Int /\ g[x] = 0
      /\ \A x \in S \ {y} : f[x] = g[x]
      /\ f[y] = a
  BY <1>1, <1>2
<1>4. SumFunctionOnSet(g, S) = 0
  BY <1>3, SumZero
<1>5. SumFunctionOnSet(f, S) = SumFunctionOnSet(g, S) + (f[y] - g[y])
  BY <1>3, SumChanged
<1>. QED
  BY <1>1, <1>3, <1>4, <1>5

\* A common factor.
LEMMA SumScaled ==
    ASSUME NEW f, NEW S, IsFiniteSet(S), \A x \in S : f[x] \in Int, NEW c \in Int
    PROVE  SumFunctionOnSet([x \in S |-> c * f[x]], S) = c * SumFunctionOnSet(f, S)
<1>1. PICK g : g = [x \in S |-> c * f[x]]
  OBVIOUS
<1>2. \A x \in S : g[x] = c * f[x] /\ g[x] \in Int
  BY <1>1
<1> DEFINE good == {T \in SUBSET S : SumFunctionOnSet(g, T) = c * SumFunctionOnSet(f, T)}
<1>3. ASSUME NEW T \in SUBSET S, \A R \in SUBSET T : R # T => R \in good
      PROVE  T \in good
  <2>1. IsFiniteSet(T)
    BY FS_Subset
  <2>2. CASE T = {}
    <3>1. SumFunctionOnSet(g, T) = 0 /\ SumFunctionOnSet(f, T) = 0
      BY <2>2, SumEmpty
    <3>2. c * 0 = 0
      OBVIOUS
    <3>. QED
      BY <3>1, <3>2
  <2>3. CASE T # {}
    <3>1. PICK y : y \in T
      BY <2>3
    <3>2. PICK rest : rest = T \ {y}
      OBVIOUS
    <3>3. rest \in SUBSET T /\ rest # T /\ IsFiniteSet(rest)
      BY <2>1, <3>1, <3>2, FS_Subset
    <3>4. SumFunctionOnSet(g, rest) = c * SumFunctionOnSet(f, rest)
      BY <1>3, <3>3
    <3>5. /\ SumFunctionOnSet(f, T) = f[y] + SumFunctionOnSet(f, rest)
          /\ SumFunctionOnSet(g, T) = g[y] + SumFunctionOnSet(g, rest)
      BY <1>2, <2>1, <3>1, <3>2, SumMember
    <3>6. SumFunctionOnSet(f, rest) \in Int
      BY <3>3, SumInt
    <3>7. PICK a \in Int, b \in Int : a = f[y] /\ b = SumFunctionOnSet(f, rest)
      BY <3>1, <3>6
    <3>8. c * (a + b) = c * a + c * b
      OBVIOUS
    <3>9. SumFunctionOnSet(g, T) = c * a + c * b /\ SumFunctionOnSet(f, T) = a + b
      BY <1>2, <3>1, <3>4, <3>5, <3>7
    <3>. QED
      BY <3>8, <3>9
  <2>. QED
    BY <2>2, <2>3
<1>4. \A T \in SUBSET S : (\A R \in SUBSET T : R # T => R \in good) => T \in good
  BY <1>3
<1>5. S \in good
  <2> HIDE DEF good
  <2>. QED
    BY <1>4, FiniteInduction
<1>6. SumFunctionOnSet(g, S) = c * SumFunctionOnSet(f, S)
  BY <1>5
<1>. QED
  BY <1>1, <1>6

=============================================================================
