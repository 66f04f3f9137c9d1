----------------------------- MODULE SumTheorems -----------------------------
(***************************************************************************)
(* What the invariants that add up over sets need to know of SumOver, those *)
(* that multiply repeatedly of Power, and those about recursive functions   *)
(* of induction and recursion over numbers.                                 *)
(***************************************************************************)
EXTENDS Sums, FiniteSetTheorems, WellFoundedInduction, TLAPS

\* f has a natural number for each element of the finite set S.
Summable(f, S) == IsFiniteSet(S) /\ \A x \in S : f[x] \in Nat

LEMMA UnitsMember ==
  ASSUME NEW f, NEW S, NEW u
  PROVE  u \in Units(f, S) <=> \E x \in S : \E k \in 1 .. f[x] : u = <<x, k>>
BY DEF Units

\* The units of one element.
LEMMA UnitsOfOne ==
  ASSUME NEW x, NEW n \in Nat
  PROVE  IsFiniteSet({x} \X (1 .. n)) /\ Cardinality({x} \X (1 .. n)) = n
<1> DEFINE one == {x}
           units == 1 .. n
<1>1. IsFiniteSet(one) /\ Cardinality(one) = 1
  BY FS_Singleton
<1>2. IsFiniteSet(units) /\ Cardinality(units) = n
  BY FS_Interval
<1> HIDE DEF one, units
<1>3. IsFiniteSet(one \X units)
  BY <1>1, <1>2, FS_Product
<1>4. Cardinality(one \X units) = Cardinality(one) * Cardinality(units)
  BY <1>1, <1>2, FS_Product
<1>5. Cardinality(one \X units) = n
  BY <1>1, <1>2, <1>4
<1> QED
  BY <1>3, <1>5 DEF one, units

\* A sum is a natural number.
LEMMA SumType ==
  ASSUME NEW f, NEW S, Summable(f, S)
  PROVE  IsFiniteSet(Units(f, S)) /\ SumOver(f, S) \in Nat
<1> DEFINE parts == {{x} \X (1 .. f[x]) : x \in S}
           part == [x \in S |-> {x} \X (1 .. f[x])]
<1>1. part \in Surjection(S, parts)
  <2>1. part \in [S -> parts]
    OBVIOUS
  <2>2. \A y \in parts : \E x \in S : part[x] = y
    OBVIOUS
  <2> QED
    BY <2>1, <2>2 DEF Surjection
<1>2. IsFiniteSet(parts)
  BY <1>1, FS_Surjection DEF Summable
<1>3. \A y \in parts : IsFiniteSet(y)
  <2>1. \A x \in S : IsFiniteSet({x} \X (1 .. f[x]))
    BY UnitsOfOne DEF Summable
  <2> QED
    BY <2>1
<1>4. IsFiniteSet(UNION parts)
  BY <1>2, <1>3, FS_UNION
<1> QED
  BY <1>4, FS_CardinalityType DEF Units, SumOver

\* Sums of the same numbers are the same.
LEMMA SumSame ==
  ASSUME NEW f, NEW g, NEW S, \A x \in S : f[x] = g[x]
  PROVE  SumOver(f, S) = SumOver(g, S)
<1>1. \A u : u \in Units(f, S) <=> u \in Units(g, S)
  BY UnitsMember
<1>2. Units(f, S) = Units(g, S)
  BY <1>1
<1> QED
  BY <1>2 DEF SumOver

\* One more element adds its number.
LEMMA SumMore ==
  ASSUME NEW f, NEW S, NEW x, x \notin S, Summable(f, S), f[x] \in Nat
  PROVE  Summable(f, S \cup {x}) /\ SumOver(f, S \cup {x}) = SumOver(f, S) + f[x]
<1> DEFINE old == Units(f, S)
           new == {x} \X (1 .. f[x])
<1>1. Summable(f, S \cup {x})
  BY FS_AddElement DEF Summable
<1>2. Units(f, S \cup {x}) = old \cup new
  BY DEF Units
<1>3. old \cap new = {}
  <2>1. \A u \in new : u[1] = x
    OBVIOUS
  <2>2. \A u \in old : u[1] \in S
    BY UnitsMember
  <2> QED
    BY <2>1, <2>2
<1>4. IsFiniteSet(old) /\ Cardinality(old) = SumOver(f, S) /\ SumOver(f, S) \in Nat
  BY SumType DEF SumOver
<1>5. IsFiniteSet(new) /\ Cardinality(new) = f[x]
  BY UnitsOfOne
<1> HIDE DEF old, new
<1>6. Cardinality(old \cup new) = Cardinality(old) + Cardinality(new) - Cardinality({})
  BY <1>3, <1>4, <1>5, FS_Union
<1>7. Cardinality({}) = 0
  BY FS_EmptySet
<1>8. Cardinality(old \cup new) = SumOver(f, S) + f[x]
  BY <1>4, <1>5, <1>6, <1>7
<1>9. SumOver(f, S \cup {x}) = Cardinality(old \cup new)
  BY <1>2 DEF SumOver
<1> QED
  BY <1>1, <1>8, <1>9

\* One element less takes its number away.
LEMMA SumLess ==
  ASSUME NEW f, NEW S, NEW x \in S, Summable(f, S)
  PROVE  Summable(f, S \ {x}) /\ SumOver(f, S) = SumOver(f, S \ {x}) + f[x]
<1>1. Summable(f, S \ {x})
  BY FS_RemoveElement DEF Summable
<1>2. (S \ {x}) \cup {x} = S /\ x \notin S \ {x} /\ f[x] \in Nat
  BY DEF Summable
<1>3. SumOver(f, (S \ {x}) \cup {x}) = SumOver(f, S \ {x}) + f[x]
  BY <1>1, <1>2, SumMore
<1> QED
  BY <1>1, <1>2, <1>3

\* A change of one number changes the sum by as much.
LEMMA SumChanged ==
  ASSUME NEW f, NEW g, NEW S, NEW x \in S, Summable(f, S), g[x] \in Nat,
         \A y \in S \ {x} : g[y] = f[y]
  PROVE  Summable(g, S) /\ SumOver(g, S) = SumOver(f, S) + (g[x] - f[x])
<1>1. Summable(g, S)
  BY DEF Summable
<1>2. SumOver(f, S) = SumOver(f, S \ {x}) + f[x] /\ Summable(f, S \ {x})
  BY SumLess
<1>3. SumOver(g, S) = SumOver(g, S \ {x}) + g[x]
  BY <1>1, SumLess
<1>4. SumOver(g, S \ {x}) = SumOver(f, S \ {x})
  BY SumSame
<1>5. SumOver(f, S \ {x}) \in Nat /\ f[x] \in Nat
  BY <1>2, SumType DEF Summable
<1> QED
  BY <1>1, <1>2, <1>3, <1>4, <1>5

\* The same number for each element of T, and nothing for the others.
LEMMA SumEqualParts ==
  ASSUME NEW f, NEW S, NEW T, NEW n \in Nat, IsFiniteSet(T), T \subseteq S,
         \A x \in S : f[x] = IF x \in T THEN n ELSE 0
  PROVE  SumOver(f, S) = Cardinality(T) * n
<1>1. \A u : u \in Units(f, S) <=> u \in T \X (1 .. n)
  <2>1. ASSUME NEW u
        PROVE  u \in Units(f, S) <=> u \in T \X (1 .. n)
    <3>1. ASSUME u \in Units(f, S)
          PROVE  u \in T \X (1 .. n)
      <4>1. PICK x \in S : \E k \in 1 .. f[x] : u = <<x, k>>
        BY <3>1, UnitsMember
      <4>2. PICK k \in 1 .. f[x] : u = <<x, k>>
        BY <4>1
      <4>3. x \in T
        BY <4>2
      <4> QED
        BY <4>2, <4>3
    <3>2. ASSUME u \in T \X (1 .. n)
          PROVE  u \in Units(f, S)
      BY <3>2, UnitsMember
    <3> QED
      BY <3>1, <3>2
  <2> QED
    BY <2>1
<1>2. Units(f, S) = T \X (1 .. n)
  BY <1>1
<1>3. IsFiniteSet(1 .. n) /\ Cardinality(1 .. n) = n
  BY FS_Interval
<1>4. Cardinality(T \X (1 .. n)) = Cardinality(T) * n
  BY <1>3, FS_Product
<1> QED
  BY <1>2, <1>4 DEF SumOver

\* Nothing adds up to nothing.
LEMMA SumOfNothing ==
  ASSUME NEW f, NEW S, \A x \in S : f[x] = 0
  PROVE  SumOver(f, S) = 0
<1>1. \A u : u \notin Units(f, S)
  BY UnitsMember
<1>2. Units(f, S) = {}
  BY <1>1
<1> QED
  BY <1>2, FS_EmptySet DEF SumOver

-----------------------------------------------------------------------------
\* A product grows with its factor.
LEMMA ProductBounded ==
  ASSUME NEW amount \in Nat, NEW bps \in Nat, NEW cap \in Nat, bps <= cap
  PROVE  amount * bps \in Nat /\ amount * bps <= amount * cap
<1>1. PICK rest \in Nat : cap = bps + rest
  BY cap - bps \in Nat
<1> DEFINE kept == amount * bps
           left == amount * rest
<1>2. kept \in Nat /\ left \in Nat
  OBVIOUS
<1>3. amount * cap = kept + left
  BY <1>1
<1> HIDE DEF kept, left
<1>4. kept <= amount * cap
  BY <1>2, <1>3
<1> QED
  BY <1>2, <1>4 DEF kept

\* There are finitely many functions from 1 .. n into a finite set: as many as
\* there are graphs of such functions, and no more than sets of pairs.
LEMMA FunctionsFinite ==
  ASSUME NEW n \in Nat, NEW T, IsFiniteSet(T)
  PROVE  IsFiniteSet([1 .. n -> T])
<1> DEFINE D == 1 .. n
           F == [D -> T]
           G == SUBSET (D \X T)
           graph == [f \in F |-> {<<i, f[i]>> : i \in D}]
<1>1. IsFiniteSet(D)
  BY FS_Interval
<1> HIDE DEF D
<1>2. IsFiniteSet(D \X T)
  BY <1>1, FS_Product
<1>3. IsFiniteSet(G)
  BY <1>2, FS_SUBSET
<1>4. graph \in [F -> G]
  <2>1. ASSUME NEW f \in F
        PROVE  {<<i, f[i]>> : i \in D} \in G
    BY <2>1
  <2> QED
    BY <2>1
<1>5. ASSUME NEW f \in F, NEW g \in F, graph[f] = graph[g]
      PROVE  f = g
  <2>1. ASSUME NEW i \in D
        PROVE  f[i] = g[i]
    <3>1. <<i, f[i]>> \in graph[f]
      OBVIOUS
    <3>2. <<i, f[i]>> \in {<<k, g[k]>> : k \in D}
      BY <1>5, <3>1
    <3>3. PICK k \in D : <<i, f[i]>> = <<k, g[k]>>
      BY <3>2
    <3> QED
      BY <3>3
  <2> QED
    BY <2>1
<1> HIDE DEF F, G, graph
<1>6. graph \in Injection(F, G)
  BY <1>4, <1>5 DEF Injection, IsInjective
<1>7. IsFiniteSet(F)
  BY <1>3, <1>6, FS_Injection
<1> QED
  BY <1>7 DEF F, D

\* A power is a natural number, and 1 when there is nothing to choose.
LEMMA PowerType ==
  ASSUME NEW base \in Nat, NEW n \in Nat
  PROVE  Power(base, n) \in Nat
<1>1. IsFiniteSet(1 .. base)
  BY FS_Interval
<1>2. IsFiniteSet([1 .. n -> 1 .. base])
  BY <1>1, FunctionsFinite
<1> QED
  BY <1>2, FS_CardinalityType DEF Power

LEMMA PowerOfZero ==
  ASSUME NEW base \in Nat
  PROVE  Power(base, 0) = 1
<1> DEFINE f == [i \in {} |-> i]
<1>1. 1 .. 0 = {}
  OBVIOUS
<1>2. [{} -> 1 .. base] = {f}
  <2>1. f \in [{} -> 1 .. base]
    OBVIOUS
  <2>2. \A g \in [{} -> 1 .. base] : g = f
    OBVIOUS
  <2> QED
    BY <2>1, <2>2
<1>3. Power(base, 0) = Cardinality({f})
  BY <1>1, <1>2 DEF Power
<1> QED
  BY <1>3, FS_Singleton

\* One more factor: a choice of n + 1 values is one of n values and a last one.
LEMMA PowerNext ==
  ASSUME NEW base \in Nat, NEW n \in Nat
  PROVE  Power(base, n + 1) = Power(base, n) * base
<1> DEFINE T == 1 .. base
           short == [1 .. n -> T]
           long == [1 .. (n + 1) -> T]
           split == [f \in long |-> <<[i \in 1 .. n |-> f[i]], f[n + 1]>>]
<1>1. IsFiniteSet(T) /\ Cardinality(T) = base
  BY FS_Interval
<1> HIDE DEF T
<1>2. IsFiniteSet(short) /\ IsFiniteSet(long)
  <2>1. n + 1 \in Nat
    OBVIOUS
  <2> QED
    BY <1>1, <2>1, FunctionsFinite
<1>3. /\ 1 .. n \subseteq 1 .. (n + 1) /\ n + 1 \in 1 .. (n + 1)
      /\ n + 1 \notin 1 .. n
      /\ \A i \in 1 .. (n + 1) : i = n + 1 \/ i \in 1 .. n
  OBVIOUS
<1>4. split \in [long -> short \X T]
  BY <1>3
<1>5. ASSUME NEW f \in long, NEW g \in long, split[f] = split[g]
      PROVE  f = g
  <2>1. /\ [i \in 1 .. n |-> f[i]] = [i \in 1 .. n |-> g[i]]
        /\ f[n + 1] = g[n + 1]
    BY <1>5
  <2>2. \A i \in 1 .. n : f[i] = g[i]
    BY <2>1
  <2>3. \A i \in 1 .. (n + 1) : f[i] = g[i]
    BY <1>3, <2>1, <2>2
  <2> QED
    BY <2>3
<1>6. ASSUME NEW pair \in short \X T
      PROVE  \E f \in long : split[f] = pair
  <2> DEFINE f == [i \in 1 .. (n + 1) |-> IF i = n + 1 THEN pair[2] ELSE pair[1][i]]
  <2>1. pair[1] \in short /\ pair[2] \in T /\ pair = <<pair[1], pair[2]>>
    OBVIOUS
  <2>2. f \in long
    BY <1>3, <2>1
  <2>3. f[n + 1] = pair[2] /\ \A i \in 1 .. n : f[i] = pair[1][i]
    BY <1>3
  <2>4. [i \in 1 .. n |-> f[i]] = pair[1]
    BY <2>1, <2>3
  <2>5. split[f] = <<[i \in 1 .. n |-> f[i]], f[n + 1]>>
    BY <2>2
  <2>6. split[f] = pair
    BY <2>1, <2>3, <2>4, <2>5
  <2> QED
    BY <2>2, <2>6
<1> HIDE DEF short, long, split
<1>7. split \in Injection(long, short \X T)
  BY <1>4, <1>5 DEF Injection, IsInjective
<1>8. split \in Surjection(long, short \X T)
  BY <1>4, <1>6 DEF Surjection
<1>9. Cardinality(short \X T) = Cardinality(long)
  BY <1>2, <1>7, <1>8, FS_Surjection
<1>10. Cardinality(short \X T) = Cardinality(short) * Cardinality(T)
  BY <1>1, <1>2, FS_Product
<1>11. Power(base, n) = Cardinality(short) /\ Power(base, n + 1) = Cardinality(long)
  BY DEF Power, short, long, T
<1> QED
  BY <1>1, <1>9, <1>10, <1>11

-----------------------------------------------------------------------------
(* Induction and recursion over numbers, for sets and functions: the        *)
(* library's theorems are about operators.                                  *)

\* Induction up to n, on a set.
LEMMA UpTo ==
  ASSUME NEW n \in Nat, NEW S, 0 \in S, \A i \in 1 .. n : i - 1 \in S => i \in S
  PROVE  \A i \in 0 .. n : i \in S
<1> DEFINE left == {i \in 0 .. n : i \notin S}
<1> SUFFICES ASSUME left # {}
             PROVE  FALSE
  OBVIOUS
<1>1. left \subseteq Nat
  OBVIOUS
<1>2. PICK j \in left : \A k \in left : <<k, j>> \notin OpToRel(<, Nat)
  <2> HIDE DEF left
  <2> QED
    BY <1>1, NatLessThanWellFounded, WFMin
<1>3. j \in 1 .. n /\ j - 1 \in Nat
  OBVIOUS
<1>4. j - 1 \notin left
  <2>1. <<j - 1, j>> \in OpToRel(<, Nat)
    BY <1>3 DEF OpToRel
  <2> QED
    BY <1>2, <2>1
<1> QED
  BY <1>3, <1>4

\* Recursion up to n: there is a function that starts at base and goes on as
\* step says.
Stepping(step, n, S) == step \in [(1 .. n) \X S -> S]
Iterates(f, n, S, base, step) ==
  /\ f \in [0 .. n -> S] /\ f[0] = base
  /\ \A i \in 1 .. n : f[i] = step[<<i, f[i - 1]>>]

LEMMA Recursion ==
  ASSUME NEW n \in Nat, NEW S, NEW base \in S, NEW step, Stepping(step, n, S)
  PROVE  \E f : Iterates(f, n, S, base, step)
<1> DEFINE Goes(f, k) ==
             /\ f \in [0 .. k -> S] /\ f[0] = base
             /\ \A i \in 1 .. k : f[i] = step[<<i, f[i - 1]>>]
           reached == {k \in 0 .. n : \E f : Goes(f, k)}
<1>. USE DEF Stepping
<1>1. 0 \in reached
  <2>1. Goes([i \in 0 .. 0 |-> base], 0)
    OBVIOUS
  <2> HIDE DEF Goes
  <2>2. \E f : Goes(f, 0)
    BY <2>1
  <2> QED
    BY <2>2
<1>2. ASSUME NEW k \in 1 .. n, k - 1 \in reached
      PROVE  k \in reached
  <2>1. PICK f : Goes(f, k - 1)
    BY <1>2
  <2> DEFINE new == step[<<k, f[k - 1]>>]
             g == [i \in 0 .. k |-> IF i = k THEN new ELSE f[i]]
  <2>2. k - 1 \in 0 .. k - 1 /\ f[k - 1] \in S
    BY <2>1
  <2>3. new \in S
    BY <2>2
  <2> HIDE DEF new
  <2>4. \A i \in 0 .. k : i # k => i \in 0 .. k - 1
    OBVIOUS
  <2>5. g \in [0 .. k -> S] /\ g[0] = base
    BY <2>1, <2>3, <2>4
  <2>6. ASSUME NEW i \in 1 .. k
        PROVE  g[i] = step[<<i, g[i - 1]>>]
    <3>1. i - 1 \in 0 .. k - 1 /\ i - 1 # k
      OBVIOUS
    <3>2. g[i - 1] = f[i - 1]
      BY <3>1
    <3>3. CASE i = k
      <4>1. k \in 0 .. k /\ g[k] = new
        OBVIOUS
      <4>2. g[i] = new /\ g[i - 1] = f[k - 1]
        BY <3>2, <3>3, <4>1
      <4> HIDE DEF g
      <4> QED
        BY <3>3, <4>2 DEF new
    <3>4. CASE i # k
      <4>1. i \in 1 .. k - 1 /\ i \in 0 .. k
        BY <3>4
      <4>2. g[i] = f[i]
        BY <3>4, <4>1
      <4> QED
        BY <2>1, <3>2, <4>1, <4>2
    <3> QED
      BY <3>3, <3>4
  <2>7. Goes(g, k)
    BY <2>5, <2>6
  <2> HIDE DEF Goes
  <2>8. \E h : Goes(h, k)
    BY <2>7
  <2> QED
    BY <2>8
<1>3. n \in reached
  <2> HIDE DEF reached
  <2>1. \A k \in 0 .. n : k \in reached
    BY <1>1, <1>2, UpTo
  <2> QED
    BY <2>1
<1> QED
  BY <1>3 DEF Iterates

=============================================================================
