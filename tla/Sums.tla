--------------------------------- MODULE Sums ---------------------------------
(***************************************************************************)
(* Facts of the sums the components take over finite sets: the community   *)
(* module's sum is the solution of a recursive equation over the subsets   *)
(* of a set.  A proof by induction is made here from a minimal             *)
(* counterexample, which needs no operator as a parameter.                 *)
(***************************************************************************)
EXTENDS Integers, Functions, FiniteSetTheorems, WellFoundedInduction, TLAPS

Sum(f, S) == SumFunctionOnSet(f, S)

First(s) == CHOOSE x \in s : TRUE

\* g adds up f over every subset of S.
Adds(f, g, S) ==
  g = [s \in SUBSET S |-> IF s = {} THEN 0 ELSE f[First(s)] + g[s \ {First(s)}]]

Ints(f, S) == \A x \in S : f[x] \in Int
Nats(f, S) == \A x \in S : f[x] \in Nat

-----------------------------------------------------------------------------
(* Sums are defined *)

LEMMA FirstIn == \A s : s # {} => First(s) \in s
  BY DEF First

\* A set of subsets of a finite set has one that contains no other.
LEMMA Smallest ==
  ASSUME NEW S, IsFiniteSet(S), NEW T, T \subseteq SUBSET S, T # {}
  PROVE  \E x \in T : \A y \in T : y \subseteq x => y = x
<1>1. IsWellFoundedOn(StrictSubsetOrdering(S), FiniteSubsetsOf(S))
  BY FS_StrictSubsetOrderingWellFounded
<1>2. T \subseteq FiniteSubsetsOf(S)
  BY FS_FiniteSubsetsOfFinite
<1>3. PICK x \in T : \A y \in T : ~ (<<y, x>> \in StrictSubsetOrdering(S))
  BY <1>1, <1>2, WFMin
<1>4. ASSUME NEW y \in T, y \subseteq x, y # x PROVE FALSE
  <2>1. <<y, x>> \in (SUBSET S) \X (SUBSET S)
    OBVIOUS
  <2>2. <<y, x>> \in StrictSubsetOrdering(S)
    BY <1>4, <2>1 DEF StrictSubsetOrdering
  <2> QED
    BY <1>3, <2>2
<1> QED
  BY <1>4

LEMMA AddsOne ==
  ASSUME NEW f, NEW g, NEW S, Adds(f, g, S), NEW s, s \subseteq S
  PROVE  g[s] = IF s = {} THEN 0 ELSE f[First(s)] + g[s \ {First(s)}]
  BY DEF Adds

\* Two functions that add up f agree where both are defined.
LEMMA AddsUnique ==
  ASSUME NEW f, NEW g, NEW h, NEW S, NEW T, Adds(f, g, S), Adds(f, h, T),
         NEW U, U \subseteq S, U \subseteq T, IsFiniteSet(U)
  PROVE  g[U] = h[U]
<1> DEFINE bad == {s \in SUBSET U : g[s] # h[s]}
<1>1. SUFFICES ASSUME bad # {} PROVE FALSE
  OBVIOUS
<1>2. PICK x \in bad : \A y \in bad : y \subseteq x => y = x
  <2>1. bad \subseteq SUBSET U
    OBVIOUS
  <2> HIDE DEF bad
  <2> QED
    BY <1>1, <2>1, Smallest
<1>3. x \subseteq S /\ x \subseteq T /\ x \subseteq U /\ g[x] # h[x]
  OBVIOUS
<1>4. /\ g[x] = IF x = {} THEN 0 ELSE f[First(x)] + g[x \ {First(x)}]
      /\ h[x] = IF x = {} THEN 0 ELSE f[First(x)] + h[x \ {First(x)}]
  BY <1>3, AddsOne
<1>5. x # {}
  BY <1>3, <1>4
<1>6. First(x) \in x
  BY <1>5, FirstIn
<1>7. x \ {First(x)} \in SUBSET U /\ x \ {First(x)} \subseteq x /\ x \ {First(x)} # x
  BY <1>3, <1>6
<1>8. g[x \ {First(x)}] = h[x \ {First(x)}]
  BY <1>2, <1>7
<1> QED
  BY <1>3, <1>4, <1>5, <1>8

LEMMA AddsExists ==
  ASSUME NEW f, NEW S, IsFiniteSet(S)
  PROVE  \E g : Adds(f, g, S)
<1> DEFINE bad == {s \in SUBSET S : ~ \E g : Adds(f, g, s)}
<1>1. SUFFICES ASSUME bad # {} PROVE FALSE
  OBVIOUS
<1>2. PICK x \in bad : \A y \in bad : y \subseteq x => y = x
  <2>1. bad \subseteq SUBSET S
    OBVIOUS
  <2> HIDE DEF bad
  <2> QED
    BY <1>1, <2>1, Smallest
<1> DEFINE h(s) == CHOOSE g : Adds(f, g, s)
           rest == x \ {First(x)}
           total == IF x = {} THEN 0 ELSE f[First(x)] + h(rest)[rest]
           sum == [s \in SUBSET x |-> IF s = x THEN total ELSE h(s)[s]]
<1>3. ASSUME NEW s, s \subseteq x, s # x PROVE Adds(f, h(s), s)
  <2>1. s \notin bad /\ s \in SUBSET S
    BY <1>2, <1>3
  <2>2. \E g : Adds(f, g, s)
    BY <2>1
  <2> QED
    BY <2>2
<1>4. IsFiniteSet(x)
  BY FS_Subset
<1>5. ASSUME NEW s \in SUBSET x
      PROVE  sum[s] = IF s = {} THEN 0 ELSE f[First(s)] + sum[s \ {First(s)}]
  <2>1. CASE s = x /\ x = {}
    BY <2>1
  <2>2. CASE s = x /\ x # {}
    <3>1. rest \in SUBSET x /\ rest # x
      BY <2>2, FirstIn
    <3>2. sum[rest] = h(rest)[rest]
      BY <3>1
    <3>3. sum[x] = f[First(x)] + h(rest)[rest]
      BY <2>2
    <3> QED
      BY <2>2, <3>2, <3>3
  <2>3. CASE s # x
    <3> DEFINE less == s \ {First(s)}
    <3>1. Adds(f, h(s), s)
      BY <1>3, <2>3
    <3>2. sum[s] = h(s)[s]
      BY <2>3
    <3>3. h(s)[s] = IF s = {} THEN 0 ELSE f[First(s)] + h(s)[less]
      <4> HIDE DEF h
      <4> QED
        BY <3>1, AddsOne
    <3>4. CASE s # {}
      <4>1. less \subseteq x /\ less # x /\ less \subseteq s /\ less \in SUBSET x
        BY <2>3
      <4>2. Adds(f, h(less), less)
        BY <1>3, <4>1
      <4>3. h(s)[less] = h(less)[less]
        <5>1. IsFiniteSet(less)
          BY <1>4, <4>1, FS_Subset
        <5> HIDE DEF h, less
        <5> QED
          BY <3>1, <4>1, <4>2, <5>1, AddsUnique
      <4>4. sum[less] = h(less)[less]
        BY <4>1
      <4> QED
        BY <3>2, <3>3, <3>4, <4>3, <4>4
    <3> QED
      BY <3>2, <3>3, <3>4
  <2> QED
    BY <2>1, <2>2, <2>3
<1>6. sum = [s \in SUBSET x |-> IF s = {} THEN 0 ELSE f[First(s)] + sum[s \ {First(s)}]]
  <2>1. sum = [s \in SUBSET x |-> sum[s]]
    OBVIOUS
  <2> HIDE DEF sum
  <2> QED
    BY <1>5, <2>1
<1>7. Adds(f, sum, x)
  BY <1>6 DEF Adds
<1> QED
  BY <1>7

\* A sum is what any function that adds up f gives.
LEMMA SumIs ==
  ASSUME NEW f, NEW S, IsFiniteSet(S)
  PROVE  \E g : Adds(f, g, S) /\ Sum(f, S) = g[S]
<1>1. Sum(f, S) = (CHOOSE g : Adds(f, g, S))[S]
  BY DEF Sum, SumFunctionOnSet, FoldFunctionOnSet, MapThenFoldSet, Adds, First
<1>2. Adds(f, CHOOSE g : Adds(f, g, S), S)
  BY AddsExists
<1> QED
  BY <1>1, <1>2

-----------------------------------------------------------------------------
(* What sums are *)

LEMMA SumEmpty == \A f : Sum(f, {}) = 0
<1> SUFFICES ASSUME NEW f PROVE Sum(f, {}) = 0
  OBVIOUS
<1>1. PICK g : Adds(f, g, {}) /\ Sum(f, {}) = g[{}]
  BY SumIs, FS_EmptySet
<1> QED
  BY <1>1, AddsOne

\* A sum and the sum without the element the definition takes first.
LEMMA SumFirst ==
  ASSUME NEW f, NEW S, IsFiniteSet(S), S # {}
  PROVE  Sum(f, S) = f[First(S)] + Sum(f, S \ {First(S)})
<1> DEFINE rest == S \ {First(S)}
<1>1. IsFiniteSet(rest)
  BY FS_Subset
<1>2. PICK g : Adds(f, g, S) /\ Sum(f, S) = g[S]
  BY SumIs
<1>3. PICK h : Adds(f, h, rest) /\ Sum(f, rest) = h[rest]
  <2> HIDE DEF rest
  <2> QED
    BY <1>1, SumIs
<1>4. g[rest] = h[rest]
  <2>1. rest \subseteq S
    OBVIOUS
  <2> HIDE DEF rest
  <2> QED
    BY <1>1, <1>2, <1>3, <2>1, AddsUnique
<1>5. g[S] = f[First(S)] + g[rest]
  BY <1>2, AddsOne
<1> QED
  BY <1>2, <1>3, <1>4, <1>5

LEMMA SumInt ==
  ASSUME NEW f, NEW S, IsFiniteSet(S), Ints(f, S)
  PROVE  Sum(f, S) \in Int
<1> DEFINE bad == {s \in SUBSET S : Sum(f, s) \notin Int}
<1>1. SUFFICES ASSUME bad # {} PROVE FALSE
  OBVIOUS
<1>2. PICK x \in bad : \A y \in bad : y \subseteq x => y = x
  <2>1. bad \subseteq SUBSET S
    OBVIOUS
  <2> HIDE DEF bad
  <2> QED
    BY <1>1, <2>1, Smallest
<1>3. x \subseteq S /\ Sum(f, x) \notin Int /\ IsFiniteSet(x)
  BY FS_Subset
<1>4. x # {}
  BY <1>3, SumEmpty
<1>5. First(x) \in x
  BY <1>4, FirstIn
<1>6. Sum(f, x \ {First(x)}) \in Int
  BY <1>2, <1>3, <1>5
<1> QED
  BY <1>3, <1>4, <1>5, <1>6, SumFirst DEF Ints

LEMMA SumNat ==
  ASSUME NEW f, NEW S, IsFiniteSet(S), Nats(f, S)
  PROVE  Sum(f, S) \in Nat
<1> DEFINE bad == {s \in SUBSET S : Sum(f, s) \notin Nat}
<1>1. SUFFICES ASSUME bad # {} PROVE FALSE
  OBVIOUS
<1>2. PICK x \in bad : \A y \in bad : y \subseteq x => y = x
  <2>1. bad \subseteq SUBSET S
    OBVIOUS
  <2> HIDE DEF bad
  <2> QED
    BY <1>1, <2>1, Smallest
<1>3. x \subseteq S /\ Sum(f, x) \notin Nat /\ IsFiniteSet(x)
  BY FS_Subset
<1>4. x # {}
  BY <1>3, SumEmpty
<1>5. First(x) \in x
  BY <1>4, FirstIn
<1>6. Sum(f, x \ {First(x)}) \in Nat
  BY <1>2, <1>3, <1>5
<1> QED
  BY <1>3, <1>4, <1>5, <1>6, SumFirst DEF Nats

\* Whichever element is taken out, the sum is that element and the rest.
LEMMA SumTake ==
  ASSUME NEW f, NEW S, IsFiniteSet(S), Ints(f, S), NEW x \in S
  PROVE  Sum(f, S) = f[x] + Sum(f, S \ {x})
<1> DEFINE bad == {s \in SUBSET S : \E e \in s : Sum(f, s) # f[e] + Sum(f, s \ {e})}
<1>1. SUFFICES ASSUME bad # {} PROVE FALSE
  OBVIOUS
<1>2. PICK s \in bad : \A t \in bad : t \subseteq s => t = s
  <2>1. bad \subseteq SUBSET S
    OBVIOUS
  <2> HIDE DEF bad
  <2> QED
    BY <1>1, <2>1, Smallest
<1>3. PICK e \in s : Sum(f, s) # f[e] + Sum(f, s \ {e})
  OBVIOUS
<1>4. \A t \in SUBSET s : t # s => \A d \in t : Sum(f, t) = f[d] + Sum(f, t \ {d})
  BY <1>2
<1>5. s \subseteq S /\ IsFiniteSet(s)
  BY FS_Subset
<1> DEFINE a == First(s)
<1>6. a \in s /\ Sum(f, s) = f[a] + Sum(f, s \ {a})
  BY <1>5, FirstIn, SumFirst
<1>7. a # e
  BY <1>3, <1>6
<1>8. /\ s \ {a} \in SUBSET s /\ s \ {a} # s /\ e \in s \ {a}
      /\ s \ {e} \in SUBSET s /\ s \ {e} # s /\ a \in s \ {e}
      /\ (s \ {a}) \ {e} = (s \ {e}) \ {a}
  BY <1>6, <1>7
<1> HIDE DEF a
<1>9. Sum(f, s \ {a}) = f[e] + Sum(f, (s \ {a}) \ {e})
  BY <1>4, <1>8
<1>10. Sum(f, s \ {e}) = f[a] + Sum(f, (s \ {e}) \ {a})
  BY <1>4, <1>8
<1>11. f[a] \in Int /\ f[e] \in Int /\ Sum(f, (s \ {a}) \ {e}) \in Int
  <2>1. IsFiniteSet((s \ {a}) \ {e}) /\ Ints(f, (s \ {a}) \ {e})
    BY <1>5, FS_Subset DEF Ints
  <2>2. Sum(f, (s \ {a}) \ {e}) \in Int
    BY <2>1, SumInt
  <2> QED
    BY <1>5, <1>6, <2>2 DEF Ints
<1>12. Sum(f, (s \ {a}) \ {e}) = Sum(f, (s \ {e}) \ {a})
  BY <1>8, Zenon
<1> HIDE DEF bad
<1> QED
  BY <1>3, <1>6, <1>9, <1>10, <1>11, <1>12

\* Only the values on the set count.
LEMMA SumSame ==
  ASSUME NEW f, NEW g, NEW S, IsFiniteSet(S), \A x \in S : f[x] = g[x]
  PROVE  Sum(f, S) = Sum(g, S)
<1> DEFINE bad == {s \in SUBSET S : Sum(f, s) # Sum(g, s)}
<1>1. SUFFICES ASSUME bad # {} PROVE FALSE
  OBVIOUS
<1>2. PICK x \in bad : \A y \in bad : y \subseteq x => y = x
  <2>1. bad \subseteq SUBSET S
    OBVIOUS
  <2> HIDE DEF bad
  <2> QED
    BY <1>1, <2>1, Smallest
<1>3. x \subseteq S /\ Sum(f, x) # Sum(g, x) /\ IsFiniteSet(x)
  BY FS_Subset
<1>4. x # {}
  BY <1>3, SumEmpty
<1>5. First(x) \in x
  BY <1>4, FirstIn
<1>6. Sum(f, x \ {First(x)}) = Sum(g, x \ {First(x)})
  BY <1>2, <1>3, <1>5
<1>7. Sum(f, x) = f[First(x)] + Sum(f, x \ {First(x)}) /\ Sum(g, x) = g[First(x)] + Sum(g, x \ {First(x)})
  BY <1>3, <1>4, SumFirst
<1> QED
  BY <1>3, <1>5, <1>6, <1>7

-----------------------------------------------------------------------------
(* How sums change *)

LEMMA SumAdd ==
  ASSUME NEW f, NEW S, IsFiniteSet(S), NEW x, x \notin S, Ints(f, S \cup {x})
  PROVE  Sum(f, S \cup {x}) = f[x] + Sum(f, S)
<1>1. IsFiniteSet(S \cup {x}) /\ x \in S \cup {x} /\ (S \cup {x}) \ {x} = S
  BY FS_AddElement
<1> QED
  BY <1>1, SumTake

\* One value changed.
LEMMA SumChange ==
  ASSUME NEW f, NEW g, NEW S, IsFiniteSet(S), Ints(f, S), Ints(g, S), NEW x \in S,
         \A y \in S \ {x} : f[y] = g[y]
  PROVE  Sum(g, S) = Sum(f, S) - f[x] + g[x] /\ Sum(f, S) \in Int /\ Sum(g, S) \in Int
<1>1. IsFiniteSet(S \ {x})
  BY FS_Subset
<1>2. Sum(f, S \ {x}) = Sum(g, S \ {x})
  BY <1>1, SumSame
<1>3. Sum(f, S) = f[x] + Sum(f, S \ {x}) /\ Sum(g, S) = g[x] + Sum(g, S \ {x})
  BY SumTake
<1>4. Sum(f, S \ {x}) \in Int /\ f[x] \in Int /\ g[x] \in Int
  BY <1>1, SumInt DEF Ints
<1> QED
  BY <1>2, <1>3, <1>4

\* A part is summed apart.
LEMMA SumSplit ==
  ASSUME NEW f, NEW S, IsFiniteSet(S), Ints(f, S), NEW T, T \subseteq S
  PROVE  Sum(f, S) = Sum(f, T) + Sum(f, S \ T)
<1> DEFINE bad == {t \in SUBSET T : Sum(f, S) # Sum(f, t) + Sum(f, S \ t)}
<1>1. SUFFICES ASSUME bad # {} PROVE FALSE
  OBVIOUS
<1>2. PICK t \in bad : \A u \in bad : u \subseteq t => u = t
  <2>1. bad \subseteq SUBSET T /\ IsFiniteSet(T)
    BY FS_Subset
  <2> HIDE DEF bad
  <2> QED
    BY <1>1, <2>1, Smallest
<1>3. t \subseteq T /\ Sum(f, S) # Sum(f, t) + Sum(f, S \ t)
  OBVIOUS
<1>4. CASE t = {}
  <2>1. S \ t = S
    BY <1>4
  <2>2. Sum(f, S \ t) = Sum(f, S)
    BY <2>1, Zenon
  <2>3. Sum(f, t) = 0
    BY <1>4, SumEmpty
  <2>4. Sum(f, S) \in Int
    BY SumInt
  <2> HIDE DEF bad
  <2> QED
    BY <1>3, <2>2, <2>3, <2>4
<1>5. CASE t # {}
  <2>1. PICK x : x \in t
    BY <1>5
  <2> DEFINE u == t \ {x}
  <2>2. u \subseteq T /\ u \subseteq t /\ u # t /\ u \in SUBSET T
    BY <1>3, <2>1
  <2>3. Sum(f, S) = Sum(f, u) + Sum(f, S \ u)
    BY <1>2, <2>2
  <2>4. IsFiniteSet(t) /\ Ints(f, t) /\ IsFiniteSet(S \ u) /\ Ints(f, S \ u)
        /\ IsFiniteSet(S \ t) /\ Ints(f, S \ t) /\ IsFiniteSet(u) /\ Ints(f, u)
    BY <1>3, FS_Subset DEF Ints
  <2>5. Sum(f, t) = f[x] + Sum(f, u)
    BY <2>1, <2>4, SumTake
  <2>6. Sum(f, S \ u) = f[x] + Sum(f, S \ t)
    <3>1. x \in S \ u /\ (S \ u) \ {x} = S \ t
      BY <1>3, <2>1
    <3> HIDE DEF u
    <3> QED
      BY <2>4, <3>1, SumTake
  <2>7. f[x] \in Int /\ Sum(f, u) \in Int /\ Sum(f, S \ t) \in Int
    <3> HIDE DEF u
    <3> QED
      BY <1>3, <2>1, <2>4, SumInt DEF Ints
  <2> QED
    BY <1>3, <2>3, <2>5, <2>6, <2>7
<1> QED
  BY <1>4, <1>5

LEMMA SumUnion ==
  ASSUME NEW f, NEW S, NEW T, IsFiniteSet(S), IsFiniteSet(T), S \cap T = {},
         Ints(f, S), Ints(f, T)
  PROVE  Sum(f, S \cup T) = Sum(f, S) + Sum(f, T)
<1>1. IsFiniteSet(S \cup T) /\ Ints(f, S \cup T)
  BY FS_Union DEF Ints
<1>2. S \subseteq S \cup T /\ (S \cup T) \ S = T
  OBVIOUS
<1> QED
  BY <1>1, <1>2, SumSplit

LEMMA SumZero ==
  ASSUME NEW f, NEW S, IsFiniteSet(S), \A x \in S : f[x] = 0
  PROVE  Sum(f, S) = 0
<1> DEFINE bad == {s \in SUBSET S : Sum(f, s) # 0}
<1>1. SUFFICES ASSUME bad # {} PROVE FALSE
  OBVIOUS
<1>2. PICK x \in bad : \A y \in bad : y \subseteq x => y = x
  <2>1. bad \subseteq SUBSET S
    OBVIOUS
  <2> HIDE DEF bad
  <2> QED
    BY <1>1, <2>1, Smallest
<1>3. x \subseteq S /\ Sum(f, x) # 0 /\ IsFiniteSet(x)
  BY FS_Subset
<1>4. x # {}
  BY <1>3, SumEmpty
<1>5. First(x) \in x
  BY <1>4, FirstIn
<1>6. Sum(f, x \ {First(x)}) = 0 /\ f[First(x)] = 0
  BY <1>2, <1>3, <1>5
<1> QED
  BY <1>3, <1>4, <1>6, SumFirst

\* A sum of amounts is no less than any part of it.
LEMMA SumPart ==
  ASSUME NEW f, NEW S, IsFiniteSet(S), Nats(f, S), NEW T, T \subseteq S
  PROVE  Sum(f, T) \in Nat /\ Sum(f, S) \in Nat /\ Sum(f, T) <= Sum(f, S)
<1>1. Ints(f, S) /\ IsFiniteSet(T) /\ IsFiniteSet(S \ T) /\ Nats(f, T) /\ Nats(f, S \ T)
  BY FS_Subset DEF Ints, Nats
<1>2. Sum(f, S) = Sum(f, T) + Sum(f, S \ T)
  BY <1>1, SumSplit
<1>3. Sum(f, T) \in Nat /\ Sum(f, S \ T) \in Nat
  BY <1>1, SumNat
<1> QED
  BY <1>2, <1>3

\* Greater values, greater sum.
LEMMA SumMono ==
  ASSUME NEW f, NEW g, NEW S, IsFiniteSet(S), Ints(f, S), Ints(g, S), \A x \in S : f[x] <= g[x]
  PROVE  Sum(f, S) <= Sum(g, S)
<1> DEFINE bad == {s \in SUBSET S : ~(Sum(f, s) <= Sum(g, s))}
<1>1. SUFFICES ASSUME bad # {} PROVE FALSE
  OBVIOUS
<1>2. PICK x \in bad : \A y \in bad : y \subseteq x => y = x
  <2>1. bad \subseteq SUBSET S
    OBVIOUS
  <2> HIDE DEF bad
  <2> QED
    BY <1>1, <2>1, Smallest
<1>3. x \subseteq S /\ ~(Sum(f, x) <= Sum(g, x)) /\ IsFiniteSet(x)
  BY FS_Subset
<1>4. x # {}
  BY <1>3, SumEmpty
<1> DEFINE a == First(x)
           rest == x \ {a}
<1>5. a \in x /\ rest \in SUBSET S /\ rest \subseteq x /\ rest # x
  BY <1>3, <1>4, FirstIn
<1>6. Sum(f, rest) <= Sum(g, rest)
  BY <1>2, <1>5
<1>7. Sum(f, x) = f[a] + Sum(f, rest) /\ Sum(g, x) = g[a] + Sum(g, rest)
  BY <1>3, <1>4, SumFirst
<1>8. Sum(f, rest) \in Int /\ Sum(g, rest) \in Int
  <2>1. IsFiniteSet(rest) /\ Ints(f, rest) /\ Ints(g, rest)
    BY <1>3, <1>5, FS_Subset DEF Ints
  <2> HIDE DEF rest
  <2> QED
    BY <2>1, SumInt
<1>9. f[a] \in Int /\ g[a] \in Int /\ f[a] <= g[a]
  BY <1>3, <1>5 DEF Ints
<1> HIDE DEF a, rest, bad
<1> QED
  BY <1>3, <1>6, <1>7, <1>8, <1>9

\* A sum of sums.
LEMMA SumPlus ==
  ASSUME NEW f, NEW g, NEW h, NEW S, IsFiniteSet(S), Ints(f, S), Ints(g, S),
         \A x \in S : h[x] = f[x] + g[x]
  PROVE  Sum(h, S) = Sum(f, S) + Sum(g, S)
<1> DEFINE bad == {s \in SUBSET S : Sum(h, s) # Sum(f, s) + Sum(g, s)}
<1>1. SUFFICES ASSUME bad # {} PROVE FALSE
  OBVIOUS
<1>2. PICK x \in bad : \A y \in bad : y \subseteq x => y = x
  <2>1. bad \subseteq SUBSET S
    OBVIOUS
  <2> HIDE DEF bad
  <2> QED
    BY <1>1, <2>1, Smallest
<1>3. x \subseteq S /\ Sum(h, x) # Sum(f, x) + Sum(g, x) /\ IsFiniteSet(x)
  BY FS_Subset
<1>4. x # {}
  BY <1>3, SumEmpty
<1> DEFINE a == First(x)
           rest == x \ {a}
<1>5. a \in x /\ rest \in SUBSET S /\ rest \subseteq x /\ rest # x
  BY <1>3, <1>4, FirstIn
<1>6. Sum(h, rest) = Sum(f, rest) + Sum(g, rest)
  BY <1>2, <1>5
<1>7. Sum(f, x) = f[a] + Sum(f, rest) /\ Sum(g, x) = g[a] + Sum(g, rest) /\ Sum(h, x) = h[a] + Sum(h, rest)
  BY <1>3, <1>4, SumFirst
<1>8. Sum(f, rest) \in Int /\ Sum(g, rest) \in Int
  <2>1. IsFiniteSet(rest) /\ Ints(f, rest) /\ Ints(g, rest)
    BY <1>3, <1>5, FS_Subset DEF Ints
  <2> HIDE DEF rest
  <2> QED
    BY <2>1, SumInt
<1>9. f[a] \in Int /\ g[a] \in Int /\ h[a] = f[a] + g[a]
  BY <1>3, <1>5 DEF Ints
<1> HIDE DEF a, rest, bad
<1> QED
  BY <1>3, <1>6, <1>7, <1>8, <1>9


\* What an injective map m makes of S adds up to what S does.
LEMMA SumImage ==
  ASSUME NEW f, NEW g, NEW m, NEW S, IsFiniteSet(S), Ints(g, S),
         \A x \in S : f[m[x]] = g[x], \A x, y \in S : m[x] = m[y] => x = y
  PROVE  IsFiniteSet({m[x] : x \in S}) /\ Sum(f, {m[x] : x \in S}) = Sum(g, S)
<1> DEFINE Image(s) == {m[x] : x \in s}
           bad == {s \in SUBSET S : ~(IsFiniteSet(Image(s)) /\ Sum(f, Image(s)) = Sum(g, s))}
<1>1. SUFFICES ASSUME bad # {} PROVE FALSE
  OBVIOUS
<1>2. PICK s \in bad : \A t \in bad : t \subseteq s => t = s
  <2>1. bad \subseteq SUBSET S
    OBVIOUS
  <2> HIDE DEF bad
  <2> QED
    BY <1>1, <2>1, Smallest
<1>3. s \subseteq S /\ IsFiniteSet(s) /\ ~(IsFiniteSet(Image(s)) /\ Sum(f, Image(s)) = Sum(g, s))
  BY FS_Subset
<1>4. s # {}
  <2>1. Image({}) = {}
    OBVIOUS
  <2> QED
    BY <1>3, <2>1, SumEmpty, FS_EmptySet
<1> DEFINE a == First(s)
           rest == s \ {a}
<1>5. a \in s /\ rest \in SUBSET S /\ rest \subseteq s /\ rest # s
  BY <1>3, <1>4, FirstIn
<1>6. IsFiniteSet(Image(rest)) /\ Sum(f, Image(rest)) = Sum(g, rest)
  BY <1>2, <1>5
<1>7. Sum(g, s) = g[a] + Sum(g, rest)
  BY <1>3, <1>4, SumFirst
<1>8. Image(s) = Image(rest) \cup {m[a]} /\ m[a] \notin Image(rest) /\ f[m[a]] = g[a]
  BY <1>3, <1>5
<1>9. Ints(f, Image(rest) \cup {m[a]})
  BY <1>3, <1>5 DEF Ints
<1>10. PICK b, T : b = m[a] /\ T = Image(rest)
  OBVIOUS
<1>11. IsFiniteSet(T) /\ b \notin T /\ Ints(f, T \cup {b})
  BY <1>6, <1>8, <1>9, <1>10
<1>12. Sum(f, T \cup {b}) = f[b] + Sum(f, T) /\ IsFiniteSet(T \cup {b})
  BY <1>11, SumAdd, FS_AddElement
<1> HIDE DEF Image, rest, a, bad
<1> QED
  BY <1>3, <1>6, <1>7, <1>8, <1>10, <1>12

LEMMA FiniteImage ==
  ASSUME NEW m, NEW S, IsFiniteSet(S)
  PROVE  IsFiniteSet({m[x] : x \in S})
<1> DEFINE Image(s) == {m[x] : x \in s}
           bad == {s \in SUBSET S : ~IsFiniteSet(Image(s))}
<1>1. SUFFICES ASSUME bad # {} PROVE FALSE
  OBVIOUS
<1>2. PICK s \in bad : \A t \in bad : t \subseteq s => t = s
  <2>1. bad \subseteq SUBSET S
    OBVIOUS
  <2> HIDE DEF bad
  <2> QED
    BY <1>1, <2>1, Smallest
<1>3. Image({}) = {}
  OBVIOUS
<1>4. PICK a : a \in s
  BY <1>2, <1>3, FS_EmptySet
<1>5. IsFiniteSet(Image(s \ {a}))
  <2>1. PICK rest : rest = s \ {a}
    OBVIOUS
  <2>2. rest \in SUBSET S /\ rest \subseteq s /\ rest # s
    BY <1>2, <1>4, <2>1
  <2>3. IsFiniteSet(Image(rest))
    BY <1>2, <2>2
  <2> QED
    BY <2>1, <2>3
<1>6. Image(s) = Image(s \ {a}) \cup {m[a]}
  BY <1>4
<1>7. IsFiniteSet(Image(s \ {a}) \cup {m[a]})
  <2> HIDE DEF Image
  <2> QED
    BY <1>5, FS_AddElement
<1> QED
  BY <1>2, <1>6, <1>7

\* A finite set of numbers has a least and a greatest.
LEMMA Extremes ==
  ASSUME NEW S, IsFiniteSet(S), \A y \in S : y \in Int, S # {}
  PROVE  (\E m \in S : \A y \in S : m <= y) /\ (\E m \in S : \A y \in S : m >= y)
<1> DEFINE Bounded(s) == (\E m \in s : \A y \in s : m <= y) /\ (\E m \in s : \A y \in s : m >= y)
           bad == {s \in SUBSET S : s # {} /\ ~Bounded(s)}
<1>1. bad = {}
  <2>1. SUFFICES ASSUME bad # {} PROVE FALSE
    OBVIOUS
  <2>2. PICK s \in bad : \A t \in bad : t \subseteq s => t = s
    <3>1. bad \subseteq SUBSET S
      OBVIOUS
    <3>2. bad # {}
      BY <2>1
    <3> HIDE DEF bad, Bounded
    <3>3. \E x \in bad : \A y \in bad : y \subseteq x => y = x
      BY <3>1, <3>2, Smallest
    <3> QED
      BY <3>3
  <2>3. PICK e : e \in s
    OBVIOUS
  <2>4. CASE s \ {e} = {}
    <3>1. s = {e} /\ e \in Int
      BY <2>3, <2>4
    <3>2. Bounded(s)
      BY <3>1
    <3> QED
      BY <3>2
  <2>5. CASE s \ {e} # {}
    <3>1. s \ {e} \notin bad
      BY <2>2, <2>3
    <3>2. Bounded(s \ {e})
      BY <2>5, <3>1
    <3>3. PICK lo \in s \ {e} : \A y \in s \ {e} : lo <= y
      BY <3>2
    <3>4. PICK hi \in s \ {e} : \A y \in s \ {e} : hi >= y
      BY <3>2
    <3>5. \A y \in s : y \in Int
      OBVIOUS
    <3>6. \E m \in s : \A y \in s : m <= y
      <4>1. CASE e <= lo
        BY <2>3, <3>3, <3>5, <4>1
      <4>2. CASE ~(e <= lo)
        BY <2>3, <3>3, <3>5, <4>2
      <4> QED
        BY <4>1, <4>2
    <3>7. \E m \in s : \A y \in s : m >= y
      <4>1. CASE e >= hi
        BY <2>3, <3>4, <3>5, <4>1
      <4>2. CASE ~(e >= hi)
        BY <2>3, <3>4, <3>5, <4>2
      <4> QED
        BY <4>1, <4>2
    <3> QED
      BY <3>6, <3>7
  <2> QED
    BY <2>4, <2>5
<1>2. Bounded(S)
  BY <1>1
<1> QED
  BY <1>2

===============================================================================
