-------------------------- MODULE CapacityProofs --------------------------
(***************************************************************************)
(* For every set of pools, tenant budgets, costs and thresholds: the       *)
(* limits the rebalancer moves stay above their floors and above what is   *)
(* in flight, and a pool is never refused its reserved capacity.  For      *)
(* these what a decision contains does not matter: adjust_ceiling and      *)
(* adjust_tenant_burst check every change against the present controller.  *)
(*                                                                         *)
(* The counters are what callers hold (Sums over finite sets of counts);   *)
(* and a fresh decision moves capacity without creating any, for which     *)
(* what it contains is all that matters (A fresh rebalance).               *)
(*                                                                         *)
(* And of the two other ways to be turned away for load, for any limits:   *)
(* the rate limiter (L), whose grants are spaced because the bucket backs  *)
(* each of them, and the quotas on new identities (Y), where the           *)
(* admissions under way are counted with those recorded.                   *)
(***************************************************************************)
EXTENDS MCCapacity, SequenceTheorems, FiniteSetTheorems, WellFoundedInduction, TLAPS

-----------------------------------------------------------------------------
(* Sums over finite sets of counts *)

\* The units that x contributes, and all of those of S.
UnitsOf(f, x) == {x} \X (1..f[x])
Units(f, S) == UNION {UnitsOf(f, x) : x \in S}

LEMMA NumbersCount == ASSUME NEW n \in Nat PROVE IsFiniteSet(1..n) /\ Cardinality(1..n) = n
<1>1. 1 \in Int /\ n \in Int OBVIOUS
<1>2. IsFiniteSet(1..n) /\ Cardinality(1..n) = IF 1 > n THEN 0 ELSE n - 1 + 1
  BY <1>1, FS_Interval, Zenon
<1>3. CASE 1 > n
  <2>1. Cardinality(1..n) = 0 BY <1>2, <1>3, Zenon
  <2>2. n = 0 BY <1>3
  <2> QED BY <1>2, <2>1, <2>2
<1>4. CASE ~(1 > n)
  <2>1. Cardinality(1..n) = n - 1 + 1 BY <1>2, <1>4, Zenon
  <2>2. n - 1 + 1 = n OBVIOUS
  <2> QED BY <1>2, <2>1, <2>2
<1> QED BY <1>3, <1>4

\* One member more.
LEMMA SumStep ==
    ASSUME NEW f, NEW S, NEW x \in S, f[x] \in Nat, IsFiniteSet(Units(f, S \ {x}))
    PROVE  /\ IsFiniteSet(Units(f, S))
           /\ SumOver(f, S) = f[x] + SumOver(f, S \ {x})
<1>1. Units(f, S) = Units(f, S \ {x}) \cup UnitsOf(f, x) BY DEF Units
<1>2. Units(f, S \ {x}) \cap UnitsOf(f, x) = {} BY DEF Units, UnitsOf
<1>3. IsFiniteSet(1..f[x]) /\ Cardinality(1..f[x]) = f[x] BY NumbersCount
<1>4. IsFiniteSet({x}) /\ Cardinality({x}) = 1 BY FS_Singleton
<1>5. IsFiniteSet(UnitsOf(f, x)) /\ Cardinality(UnitsOf(f, x)) = f[x]
  <2>1. /\ IsFiniteSet({x} \X (1..f[x]))
        /\ Cardinality({x} \X (1..f[x])) = Cardinality({x}) * Cardinality(1..f[x])
    BY <1>3, <1>4, FS_Product
  <2> QED BY <1>3, <1>4, <2>1 DEF UnitsOf
<1>6. Cardinality(Units(f, S \ {x}) \cap UnitsOf(f, x)) = 0 BY <1>2, FS_EmptySet
<1>7. /\ IsFiniteSet(Units(f, S \ {x}) \cup UnitsOf(f, x))
      /\ Cardinality(Units(f, S \ {x}) \cup UnitsOf(f, x)) =
           Cardinality(Units(f, S \ {x})) + Cardinality(UnitsOf(f, x))
             - Cardinality(Units(f, S \ {x}) \cap UnitsOf(f, x))
  BY <1>5, FS_Union
<1>8. Cardinality(Units(f, S \ {x})) \in Nat BY FS_CardinalityType
<1>9. Cardinality(Units(f, S)) = f[x] + Cardinality(Units(f, S \ {x}))
  BY <1>1, <1>5, <1>6, <1>7, <1>8
<1>10. /\ SumOver(f, S) = Cardinality(Units(f, S))
       /\ SumOver(f, S \ {x}) = Cardinality(Units(f, S \ {x}))
  BY DEF SumOver, Units, UnitsOf
<1> QED BY <1>1, <1>7, <1>9, <1>10

\* The units of a finite set of counts are finite, so the sum is a number.
LEMMA SumNatural ==
    ASSUME NEW f, NEW S, IsFiniteSet(S), \A x \in S : f[x] \in Nat
    PROVE  IsFiniteSet(Units(f, S)) /\ SumOver(f, S) \in Nat
<1> DEFINE parts == {UnitsOf(f, x) : x \in S}
           g == [x \in S |-> UnitsOf(f, x)]
<1>1. g \in Surjection(S, parts) BY DEF Surjection
<1>2. IsFiniteSet(parts) BY <1>1, FS_Surjection
<1>3. \A p \in parts : IsFiniteSet(p)
  <2> SUFFICES ASSUME NEW x \in S PROVE IsFiniteSet(UnitsOf(f, x)) OBVIOUS
  <2>1. IsFiniteSet(1..f[x]) BY FS_Interval
  <2>2. IsFiniteSet({x}) BY FS_Singleton
  <2> QED BY <2>1, <2>2, FS_Product DEF UnitsOf
<1>4. IsFiniteSet(UNION parts) BY <1>2, <1>3, FS_UNION
<1>5. IsFiniteSet(Units(f, S)) BY <1>4 DEF Units
<1>6. SumOver(f, S) = Cardinality(Units(f, S)) BY DEF SumOver, Units, UnitsOf
<1> QED BY <1>5, <1>6, FS_CardinalityType

\* A sum is that of one member and that of the others.
LEMMA SumSplit ==
    ASSUME NEW f, NEW S, IsFiniteSet(S), \A y \in S : f[y] \in Nat, NEW x \in S
    PROVE  SumOver(f, S) = f[x] + SumOver(f, S \ {x}) /\ SumOver(f, S \ {x}) \in Nat
<1>1. IsFiniteSet(S \ {x}) BY FS_RemoveElement
<1>2. IsFiniteSet(Units(f, S \ {x})) /\ SumOver(f, S \ {x}) \in Nat BY <1>1, SumNatural
<1>3. f[x] \in Nat OBVIOUS
<1>4. SumOver(f, S) = f[x] + SumOver(f, S \ {x}) BY <1>2, <1>3, SumStep
<1> QED BY <1>2, <1>4

LEMMA SumEmpty == \A f : SumOver(f, {}) = 0
<1> SUFFICES ASSUME NEW f PROVE SumOver(f, {}) = 0 OBVIOUS
<1>1. UNION {{x} \X (1..f[x]) : x \in {}} = {} OBVIOUS
<1> QED BY <1>1, FS_EmptySet DEF SumOver

\* A sum depends on the counts of its set alone.
LEMMA SumSame ==
    ASSUME NEW f, NEW g, NEW S, \A x \in S : f[x] = g[x]
    PROVE  SumOver(f, S) = SumOver(g, S)
<1>1. {{x} \X (1..f[x]) : x \in S} = {{x} \X (1..g[x]) : x \in S} OBVIOUS
<1> QED BY <1>1 DEF SumOver

\* What is added to one count is added to the sum (acquire, release).
LEMMA SumCharged ==
    ASSUME NEW S, IsFiniteSet(S), NEW f, \A y \in S : f[y] \in Nat,
           NEW g, \A y \in S : g[y] \in Nat,
           NEW x \in S, NEW delta \in Int, g[x] = f[x] + delta,
           \A y \in S \ {x} : g[y] = f[y]
    PROVE  SumOver(g, S) = SumOver(f, S) + delta
<1>1. SumOver(f, S) = f[x] + SumOver(f, S \ {x}) /\ SumOver(f, S \ {x}) \in Nat BY SumSplit
<1>2. SumOver(g, S) = g[x] + SumOver(g, S \ {x}) BY SumSplit
<1>3. SumOver(f, S \ {x}) = SumOver(g, S \ {x}) BY SumSame
<1> QED BY <1>1, <1>2, <1>3

\* The pools and the budgets are finitely many.
LEMMA FinitelyMany ==
    /\ IsFiniteSet(Pool) /\ IsFiniteSet(Key) /\ IsFiniteSet(Caller)
    /\ \A p \in Pool : OthersReserved(p) \in Nat
<1>1. IsFiniteSet(Pool)
  <2>1. Pools \in Surjection(1..Len(Pools), Pool)
    <3>1. Pools \in Seq(Pool) BY CapacityAssumption
    <3>2. Pools \in [1..Len(Pools) -> Pool] /\ DOMAIN Pools = 1..Len(Pools) BY <3>1
    <3> QED BY <3>2 DEF Pool, Surjection
  <2>2. IsFiniteSet(1..Len(Pools))
    <3>1. Len(Pools) \in Int BY CapacityAssumption
    <3> QED BY <3>1, FS_Interval
  <2> QED BY <2>1, <2>2, FS_Surjection
<1>2. IsFiniteSet(Key)
  <2>1. Budgets \in Surjection(1..Len(Budgets), Key)
    <3>1. Budgets \in Seq(Key) BY CapacityAssumption
    <3>2. Budgets \in [1..Len(Budgets) -> Key] /\ DOMAIN Budgets = 1..Len(Budgets) BY <3>1
    <3> QED BY <3>2 DEF Key, Surjection
  <2>2. IsFiniteSet(1..Len(Budgets))
    <3>1. Len(Budgets) \in Int BY CapacityAssumption
    <3> QED BY <3>1, FS_Interval
  <2> QED BY <2>1, <2>2, FS_Surjection
<1>3. IsFiniteSet(Caller)
  <2>1. IsFiniteSet({NoTenant}) BY FS_Singleton
  <2>2. IsFiniteSet(Pool \X {NoTenant}) BY <1>1, <2>1, FS_Product
  <2> QED BY <1>2, <2>2, FS_Union DEF Caller
<1>4. ASSUME NEW p \in Pool PROVE OthersReserved(p) \in Nat
  <2>1. IsFiniteSet(Pool \ {p}) BY <1>1, FS_RemoveElement
  <2>2. \A q \in Pool \ {p} : Reserved[q] \in Nat BY CapacityAssumption
  <2> QED BY <2>1, <2>2, SumNatural DEF OthersReserved
<1> QED BY <1>1, <1>2, <1>3, <1>4

\* A set of numbers has a least one.
LEMMA LeastNatural ==
    ASSUME NEW N \in SUBSET Nat, N # {}
    PROVE  \E x \in N : \A y \in N : x <= y
<1>1. PICK x \in N : \A y \in N : ~(<<y, x>> \in OpToRel(<, Nat))
  BY NatLessThanWellFounded, WFMin
<1>2. ASSUME NEW y \in N PROVE x <= y
  <2>1. ~(<<y, x>> \in {ss \in Nat \X Nat : ss[1] < ss[2]}) BY <1>1 DEF OpToRel
  <2>2. ~(y < x) BY <2>1
  <2> QED BY <2>2
<1> QED BY <1>2

\* What holds of the empty set and carries over to one member more holds of every
\* finite set: F is the set of those it holds of.
LEMMA SetInduction ==
    ASSUME NEW S, IsFiniteSet(S), NEW F, {} \in F,
           \A T \in F : T \in SUBSET S => \A x \in S \ T : T \cup {x} \in F
    PROVE  S \in F
<1> DEFINE Left == {n \in Nat : \E T \in SUBSET S : T \in F /\ Cardinality(S \ T) = n}
<1>1. \A T \in SUBSET S : IsFiniteSet(S \ T) /\ Cardinality(S \ T) \in Nat
  <2> SUFFICES ASSUME NEW T \in SUBSET S
               PROVE  IsFiniteSet(S \ T) /\ Cardinality(S \ T) \in Nat
    OBVIOUS
  <2>1. S \ T \in SUBSET S OBVIOUS
  <2> QED BY <2>1, FS_Subset, FS_CardinalityType
<1>2. Left \in SUBSET Nat /\ Left # {}
  <2>1. {} \in SUBSET S OBVIOUS
  <2>2. Cardinality(S \ {}) \in Left BY <1>1, <2>1
  <2> QED BY <2>2
<1>3. PICK n \in Left : \A m \in Left : n <= m BY <1>2, LeastNatural
<1>4. PICK T \in SUBSET S : T \in F /\ Cardinality(S \ T) = n OBVIOUS
<1>5. CASE S \ T = {}
  <2>1. T = S BY <1>5
  <2> QED BY <1>4, <2>1
<1>6. CASE S \ T # {}
  <2>1. PICK x \in S \ T : TRUE BY <1>6
  <2>2. T \cup {x} \in F /\ T \cup {x} \in SUBSET S BY <1>4, <2>1
  <2>3. S \ (T \cup {x}) = (S \ T) \ {x} OBVIOUS
  <2>4. Cardinality((S \ T) \ {x}) = n - 1 BY <1>1, <1>4, <2>1, FS_RemoveElement
  <2>5. Cardinality(S \ (T \cup {x})) = n - 1 BY <2>3, <2>4, Zenon
  <2>6. n - 1 \in Nat BY <1>1, <2>2, <2>5
  <2>7. n - 1 \in Left BY <2>2, <2>5, <2>6
  <2> HIDE DEF Left
  <2> QED BY <1>2, <1>3, <2>6, <2>7
<1> QED BY <1>5, <1>6

\* The same of the numbers, from zero up.
LEMMA NumberInduction ==
    ASSUME NEW F, 0 \in F, \A n \in Nat : n \in F => n + 1 \in F
    PROVE  \A n \in Nat : n \in F
<1> DEFINE Out == {n \in Nat : n \notin F}
<1>1. SUFFICES ASSUME Out # {} PROVE FALSE OBVIOUS
<1>2. PICK n \in Out : \A m \in Out : n <= m BY <1>1, LeastNatural
<1>3. n # 0 /\ n \in Nat /\ n \notin F OBVIOUS
<1>4. n - 1 \in Nat /\ (n - 1) + 1 = n BY <1>3
<1>5. n - 1 \notin F BY <1>3, <1>4
<1>6. n - 1 \in Out BY <1>4, <1>5
<1> HIDE DEF Out
<1> QED BY <1>2, <1>4, <1>6

LEMMA SumMore ==
    ASSUME NEW f, NEW T, IsFiniteSet(T), NEW x, x \notin T, f[x] \in Nat,
           \A y \in T : f[y] \in Nat
    PROVE  /\ IsFiniteSet(T \cup {x}) /\ \A y \in T \cup {x} : f[y] \in Nat
           /\ SumOver(f, T) \in Nat
           /\ SumOver(f, T \cup {x}) = f[x] + SumOver(f, T)
<1>1. IsFiniteSet(T \cup {x}) BY FS_AddElement
<1>2. \A y \in T \cup {x} : f[y] \in Nat OBVIOUS
<1>3. (T \cup {x}) \ {x} = T /\ x \in T \cup {x} OBVIOUS
<1>4. /\ SumOver(f, T \cup {x}) = f[x] + SumOver(f, (T \cup {x}) \ {x})
      /\ SumOver(f, (T \cup {x}) \ {x}) \in Nat
  BY <1>1, <1>2, <1>3, SumSplit
<1> QED BY <1>1, <1>2, <1>3, <1>4

\* A sum of sums, and of lesser counts.
LEMMA SumAdds ==
    ASSUME NEW S, IsFiniteSet(S), NEW f, NEW g, NEW h,
           \A x \in S : f[x] \in Nat /\ g[x] \in Nat /\ h[x] \in Nat /\ h[x] = f[x] + g[x]
    PROVE  SumOver(h, S) = SumOver(f, S) + SumOver(g, S)
<1> DEFINE F == {T \in SUBSET S : SumOver(h, T) = SumOver(f, T) + SumOver(g, T)}
<1>1. {} \in F BY SumEmpty
<1>2. ASSUME NEW T \in F, NEW x \in S \ T PROVE T \cup {x} \in F
  <2>1. T \in SUBSET S /\ IsFiniteSet(T) BY FS_Subset
  <2>2. SumOver(f, T) \in Nat /\ SumOver(f, T \cup {x}) = f[x] + SumOver(f, T) BY <2>1, SumMore
  <2>3. SumOver(g, T) \in Nat /\ SumOver(g, T \cup {x}) = g[x] + SumOver(g, T) BY <2>1, SumMore
  <2>4. SumOver(h, T) \in Nat /\ SumOver(h, T \cup {x}) = h[x] + SumOver(h, T) BY <2>1, SumMore
  <2>5. SumOver(h, T) = SumOver(f, T) + SumOver(g, T) OBVIOUS
  <2>6. SumOver(h, T \cup {x}) = SumOver(f, T \cup {x}) + SumOver(g, T \cup {x})
    BY <2>2, <2>3, <2>4, <2>5
  <2> QED BY <2>1, <2>6
<1> HIDE DEF F
<1>3. S \in F BY <1>1, <1>2, SetInduction
<1> QED BY <1>3 DEF F

LEMMA SumBounds ==
    ASSUME NEW S, IsFiniteSet(S), NEW f, NEW g,
           \A x \in S : f[x] \in Nat /\ g[x] \in Nat /\ f[x] <= g[x]
    PROVE  SumOver(f, S) <= SumOver(g, S)
<1> DEFINE h == [x \in S |-> g[x] - f[x]]
<1>1. \A x \in S : h[x] \in Nat /\ g[x] = f[x] + h[x] OBVIOUS
<1> HIDE DEF h
<1>2. SumOver(g, S) = SumOver(f, S) + SumOver(h, S) BY <1>1, SumAdds
<1>3. SumOver(f, S) \in Nat /\ SumOver(h, S) \in Nat BY <1>1, SumNatural
<1> QED BY <1>2, <1>3

\* What lies outside T counts for nothing where it is zero, and for something where
\* it is not.
LEMMA SumWithin ==
    ASSUME NEW S, IsFiniteSet(S), NEW T \in SUBSET S, NEW f, NEW g,
           \A x \in S : f[x] \in Nat,
           \A x \in T : g[x] = f[x], \A x \in S \ T : f[x] = 0
    PROVE  SumOver(f, S) = SumOver(g, T)
<1> DEFINE F == {U \in SUBSET S : SumOver(f, U) = SumOver(g, U \cap T)}
<1>1. {} \in F
  <2>1. {} \cap T = {} OBVIOUS
  <2> QED BY <2>1, SumEmpty
<1>2. ASSUME NEW U \in F, NEW x \in S \ U PROVE U \cup {x} \in F
  <2>1. U \in SUBSET S /\ IsFiniteSet(U) /\ IsFiniteSet(U \cap T) BY FS_Subset
  <2>2. SumOver(f, U) \in Nat /\ SumOver(f, U \cup {x}) = f[x] + SumOver(f, U) BY <2>1, SumMore
  <2>3. SumOver(f, U) = SumOver(g, U \cap T) OBVIOUS
  <2>4. CASE x \in T
    <3>1. (U \cup {x}) \cap T = (U \cap T) \cup {x} /\ x \notin U \cap T BY <2>4
    <3>2. SumOver(g, (U \cap T) \cup {x}) = g[x] + SumOver(g, U \cap T)
      BY <2>1, <2>4, <3>1, SumMore
    <3>3. SumOver(f, U \cup {x}) = SumOver(g, (U \cup {x}) \cap T) BY <2>2, <2>3, <2>4, <3>1, <3>2
    <3> QED BY <2>1, <3>3
  <2>5. CASE x \notin T
    <3>1. (U \cup {x}) \cap T = U \cap T /\ f[x] = 0 BY <2>5
    <3>2. SumOver(f, U \cup {x}) = SumOver(f, U) BY <2>2, <3>1
    <3>3. SumOver(f, U \cup {x}) = SumOver(g, (U \cup {x}) \cap T)
      BY <2>3, <3>1, <3>2, Zenon
    <3> QED BY <2>1, <3>3
  <2> QED BY <2>4, <2>5
<1> HIDE DEF F
<1>3. S \in F BY <1>1, <1>2, SetInduction
<1>4. S \cap T = T OBVIOUS
<1> QED BY <1>3, <1>4 DEF F

LEMMA SumOfPart ==
    ASSUME NEW S, IsFiniteSet(S), NEW T \in SUBSET S, NEW f, \A x \in S : f[x] \in Nat
    PROVE  SumOver(f, T) <= SumOver(f, S)
<1> DEFINE g == [x \in S |-> IF x \in T THEN f[x] ELSE 0]
<1>1. /\ \A x \in S : g[x] \in Nat /\ g[x] <= f[x]
      /\ \A x \in T : f[x] = g[x]
      /\ \A x \in S \ T : g[x] = 0
  OBVIOUS
<1> HIDE DEF g
<1>2. SumOver(g, S) = SumOver(f, T) BY <1>1, SumWithin
<1>3. SumOver(g, S) <= SumOver(f, S) BY <1>1, SumBounds
<1> QED BY <1>2, <1>3

LEMMA SumHasMember ==
    ASSUME NEW S, IsFiniteSet(S), NEW f, \A x \in S : f[x] \in Nat, NEW x \in S
    PROVE  f[x] <= SumOver(f, S)
<1>1. SumOver(f, S) = f[x] + SumOver(f, S \ {x}) /\ SumOver(f, S \ {x}) \in Nat BY SumSplit
<1> QED BY <1>1

\* The same counts under other names.
LEMMA SumRenamed ==
    ASSUME NEW I, IsFiniteSet(I), NEW name, \A i, j \in I : name[i] = name[j] => i = j,
           NEW f, NEW g, \A i \in I : f[i] = g[name[i]] /\ f[i] \in Nat
    PROVE  SumOver(f, I) = SumOver(g, {name[i] : i \in I})
<1> DEFINE F == {T \in SUBSET I : /\ SumOver(f, T) = SumOver(g, {name[i] : i \in T})
                                  /\ IsFiniteSet({name[i] : i \in T})}
<1>1. {} \in F
  <2>1. {name[i] : i \in {}} = {} OBVIOUS
  <2> QED BY <2>1, SumEmpty, FS_EmptySet
<1>2. ASSUME NEW T \in F, NEW x \in I \ T PROVE T \cup {x} \in F
  <2> DEFINE N == {name[i] : i \in T}
  <2>1. T \in SUBSET I /\ IsFiniteSet(T) BY FS_Subset
  <2>2. SumOver(f, T) \in Nat /\ SumOver(f, T \cup {x}) = f[x] + SumOver(f, T) BY <2>1, SumMore
  <2>3. {name[i] : i \in T \cup {x}} = N \cup {name[x]} OBVIOUS
  <2>4. name[x] \notin N BY <2>1
  <2>5. IsFiniteSet(N) /\ SumOver(f, T) = SumOver(g, N) OBVIOUS
  <2>6. \A n \in N : g[n] \in Nat BY <2>1
  <2>7. g[name[x]] \in Nat /\ g[name[x]] = f[x] OBVIOUS
  <2> HIDE DEF N
  <2>8. /\ IsFiniteSet(N \cup {name[x]})
        /\ SumOver(g, N \cup {name[x]}) = g[name[x]] + SumOver(g, N)
    BY <2>4, <2>5, <2>6, <2>7, SumMore
  <2>9. SumOver(f, T \cup {x}) = SumOver(g, N \cup {name[x]}) BY <2>2, <2>5, <2>7, <2>8
  <2> QED BY <2>1, <2>3, <2>8, <2>9
<1> HIDE DEF F
<1>3. I \in F BY <1>1, <1>2, SetInduction
<1> QED BY <1>3 DEF F

LEMMA SumOfNothing ==
    ASSUME NEW S, NEW f, \A x \in S : f[x] = 0
    PROVE  SumOver(f, S) = 0
<1>1. \A x \in S : 1..f[x] = {} OBVIOUS
<1>2. UNION {{x} \X (1..f[x]) : x \in S} = {} BY <1>1
<1> QED BY <1>2, FS_EmptySet DEF SumOver

-----------------------------------------------------------------------------
(* Limits, floors and uses *)

\* The inductive invariant.
Inv == TypeOK /\ NoRetroactiveOvercommit /\ FloorGuard

\* Adding to one count leaves the other counts alone (acquire, release).
LEMMA ChargedCounts ==
    ASSUME NEW S, NEW counts \in [S -> Nat], NEW key, NEW delta \in Int,
           key \in S => counts[key] + delta \in Nat
    PROVE  /\ Charged(counts, key, delta) \in [S -> Nat]
           /\ \A k \in S : Charged(counts, key, delta)[k] =
                             IF k = key THEN counts[k] + delta ELSE counts[k]
  BY DEF Charged

\* A limit that changed carries the value of a change of that unit that landed
\* (apply).
LEMMA AdjustedLimits ==
    ASSUME NEW S, NEW limit \in [S -> Nat], NEW changes, NEW landed
    PROVE  LET new == Adjusted(limit, changes, landed)
           IN  /\ new = [u \in S |-> new[u]]
               /\ \A u \in S : \/ new[u] = limit[u]
                               \/ \E i \in landed : /\ changes[i].unit = u
                                                    /\ new[u] = changes[i].new
  <1> DEFINE new == Adjusted(limit, changes, landed)
  <1>1. DOMAIN limit = S
    OBVIOUS
  <1>2. new = [u \in S |-> IF \E i \in landed : changes[i].unit = u
                             THEN changes[CHOOSE i \in landed : changes[i].unit = u].new
                             ELSE limit[u]]
    BY <1>1 DEF Adjusted
  <1>3. ASSUME NEW u \in S, new[u] # limit[u]
        PROVE  \E i \in landed : changes[i].unit = u /\ new[u] = changes[i].new
    BY <1>2, <1>3
  <1> QED
    BY <1>2, <1>3

\* Applying a decision, however stale, keeps every limit above its floor and
\* above what is in flight (apply, adjust_ceiling, adjust_tenant_burst).
LEMMA ApplyKeepsLimits ==
    ASSUME Inv, NEW d, Apply(d), UNCHANGED uses
    PROVE  Inv'
  <1> USE DEF Inv
  <1>0. /\ inPool' = inPool /\ inTenant' = inTenant /\ held' = held
    BY DEF uses
  <1> DEFINE cs == d.ceilings
             bs == d.bursts
             lc == Landed(cs, {i \in DOMAIN cs : CeilingAccepted(cs[i])})
             lb == Landed(bs, {i \in DOMAIN bs : BurstAccepted(bs[i])})
  <1>1. ceiling' = Adjusted(ceiling, cs, lc)
    BY DEF Apply
  <1>2. \/ burst' = Adjusted(burst, bs, lb)
        \/ burst' = burst
    BY DEF Apply
  <1>3. ceiling \in [Pool -> Nat] /\ burst \in [Key -> Nat]
    BY DEF TypeOK
  <1>a. \A i \in lc : i \in DOMAIN cs /\ CeilingAccepted(cs[i])
    BY DEF Landed
  <1>b. \A i \in lb : i \in DOMAIN bs /\ BurstAccepted(bs[i])
    BY DEF Landed
  <1> HIDE DEF cs, bs, lc, lb, Inv
  <1>4. /\ ceiling' = [p \in Pool |-> ceiling'[p]]
        /\ \A p \in Pool : \/ ceiling'[p] = ceiling[p]
                           \/ \E i \in DOMAIN cs : /\ cs[i].unit = p
                                                   /\ CeilingAccepted(cs[i])
                                                   /\ ceiling'[p] = cs[i].new
    BY <1>1, <1>3, <1>a, AdjustedLimits
  <1>5. /\ burst' = [k \in Key |-> burst'[k]]
        /\ \A k \in Key : \/ burst'[k] = burst[k]
                          \/ \E i \in DOMAIN bs : /\ bs[i].unit = k
                                                  /\ BurstAccepted(bs[i])
                                                  /\ burst'[k] = bs[i].new
    <2>1. CASE burst' = burst
      BY <2>1, <1>3
    <2>2. CASE burst' = Adjusted(burst, bs, lb)
      BY <2>2, <1>3, <1>b, AdjustedLimits
    <2> QED
      BY <1>2, <2>1, <2>2
  <1>6. \A p \in Pool : /\ ceiling'[p] \in Nat
                        /\ Reserved[p] <= ceiling'[p] /\ inPool[p] <= ceiling'[p]
    BY <1>4, <1>3 DEF Inv, NoRetroactiveOvercommit, CeilingAccepted
  <1>7. \A k \in Key : /\ burst'[k] \in Nat
                       /\ Reserve[k] <= burst'[k] /\ inTenant[k] <= burst'[k]
    BY <1>5, <1>3 DEF Inv, NoRetroactiveOvercommit, BurstAccepted
  <1>8. ceiling' \in [Pool -> Nat] /\ burst' \in [Key -> Nat]
    BY <1>4, <1>5, <1>6, <1>7
  <1> QED
    BY <1>0, <1>6, <1>7, <1>8 DEF Inv, TypeOK, NoRetroactiveOvercommit, FloorGuard

\* A grant keeps the pool under its ceiling and clear of the other pools'
\* reserved capacity, and the tenant under its burst (acquire).
LEMMA AcquireKeepsLimits ==
    ASSUME Inv, NEW k \in Caller, NEW cost \in Cost, Acquire(k[1], cost, k[2])
    PROVE  Inv'
  <1> DEFINE pool == k[1]
             key == <<k[1], k[2]>>
  <1>1. cost \in Nat /\ pool \in Pool /\ key \in Caller
    BY CapacityAssumption DEF Caller
  <1>2. /\ inPool \in [Pool -> Nat] /\ inTenant \in [Key -> Nat] /\ held \in [Caller -> Nat]
        /\ ceiling \in [Pool -> Nat] /\ burst \in [Key -> Nat]
    BY DEF Inv, TypeOK
  <1>3. /\ inPool' = Charged(inPool, pool, cost)
        /\ inTenant' = Charged(inTenant, key, cost)
        /\ held' = Charged(held, key, cost)
        /\ ceiling' = ceiling /\ burst' = burst
    BY DEF Acquire, limits
  <1>4. /\ inPool[pool] + cost <= ceiling[pool]
        /\ inPool[pool] + cost > Reserved[pool] => inPool[pool] + cost <= MaxForPool(pool)
        /\ key \in Key => inTenant[key] + cost <= burst[key]
    BY DEF Acquire, Admits
  <1> HIDE DEF pool, key
  <1>5. /\ inPool' \in [Pool -> Nat]
        /\ \A p \in Pool : inPool'[p] = IF p = pool THEN inPool[p] + cost ELSE inPool[p]
    BY <1>1, <1>2, <1>3, ChargedCounts
  <1>6. /\ inTenant' \in [Key -> Nat]
        /\ \A j \in Key : inTenant'[j] = IF j = key THEN inTenant[j] + cost ELSE inTenant[j]
    BY <1>1, <1>2, <1>3, ChargedCounts
  <1>7. held' \in [Caller -> Nat]
    BY <1>1, <1>2, <1>3, ChargedCounts
  <1>8. inPool[pool] + cost + OthersReserved(pool) <= Total
    <2>1. /\ OthersReserved(pool) \in Nat /\ Reserved[pool] \in Nat /\ Total \in Nat
          /\ Reserved[pool] <= Total - OthersReserved(pool)
      BY <1>1, CapacityAssumption, FinitelyMany DEF MaxForPool
    <2>2. inPool[pool] \in Nat
      BY <1>1, <1>2
    <2> QED
      BY <1>1, <1>4, <2>1, <2>2 DEF MaxForPool
  <1> QED
    BY <1>1, <1>2, <1>3, <1>4, <1>5, <1>6, <1>7, <1>8
       DEF Inv, TypeOK, NoRetroactiveOvercommit, FloorGuard

\* A release only lowers counts, and none below zero, whichever tenant it
\* names (release).
LEMMA ReleaseKeepsLimits ==
    ASSUME Inv, NEW k \in Caller, NEW cost \in Cost, Release(k[1], cost, k[2]),
           held' \in [Caller -> Nat]
    PROVE  Inv'
  <1> DEFINE pool == k[1]
             key == <<k[1], k[2]>>
  <1>1. cost \in Nat /\ -cost \in Int /\ pool \in Pool
    BY CapacityAssumption DEF Caller
  <1>2. /\ inPool \in [Pool -> Nat] /\ inTenant \in [Key -> Nat]
        /\ ceiling \in [Pool -> Nat] /\ burst \in [Key -> Nat]
    BY DEF Inv, TypeOK
  <1>3. /\ cost <= inPool[pool]
        /\ inPool' = Charged(inPool, pool, -cost)
        /\ inTenant' = IF key \in Key /\ cost > inTenant[key]
                         THEN inTenant ELSE Charged(inTenant, key, -cost)
        /\ ceiling' = ceiling /\ burst' = burst
    BY DEF Release, limits
  <1> HIDE DEF pool, key
  <1>5. /\ inPool' \in [Pool -> Nat]
        /\ \A p \in Pool : inPool'[p] <= inPool[p]
    <2>1. inPool[pool] + (-cost) \in Nat
      BY <1>1, <1>2, <1>3
    <2>2. /\ inPool' \in [Pool -> Nat]
          /\ \A p \in Pool : inPool'[p] = IF p = pool THEN inPool[p] + (-cost) ELSE inPool[p]
      BY <1>1, <1>2, <1>3, <2>1, ChargedCounts
    <2> QED
      BY <1>1, <1>2, <2>2
  <1>6. /\ inTenant' \in [Key -> Nat]
        /\ \A j \in Key : inTenant'[j] <= inTenant[j]
    <2>1. CASE key \in Key /\ cost > inTenant[key]
      BY <1>2, <1>3, <2>1
    <2>2. CASE ~(key \in Key /\ cost > inTenant[key])
      <3>1. key \in Key => inTenant[key] + (-cost) \in Nat
        BY <1>1, <1>2, <2>2
      <3>2. inTenant' = Charged(inTenant, key, -cost)
        BY <1>3, <2>2
      <3>3. /\ inTenant' \in [Key -> Nat]
            /\ \A j \in Key : inTenant'[j] = IF j = key THEN inTenant[j] + (-cost) ELSE inTenant[j]
        BY <1>1, <1>2, <3>1, <3>2, ChargedCounts
      <3> QED
        BY <1>1, <1>2, <3>3
    <2> QED
      BY <2>1, <2>2
  <1>7. \A p \in Pool : inPool'[p] + OthersReserved(p) <= Total
    <2>1. \A p \in Pool : OthersReserved(p) \in Nat /\ Total \in Nat
      BY CapacityAssumption, FinitelyMany
    <2> QED
      BY <1>2, <1>5, <2>1 DEF Inv, FloorGuard
  <1>8. \A p \in Pool : inPool'[p] <= ceiling'[p] /\ Reserved[p] <= ceiling'[p]
    BY <1>2, <1>3, <1>5 DEF Inv, NoRetroactiveOvercommit
  <1>9. \A j \in Key : inTenant'[j] <= burst'[j] /\ Reserve[j] <= burst'[j]
    BY <1>2, <1>3, <1>6 DEF Inv, NoRetroactiveOvercommit
  <1> QED
    BY <1>2, <1>3, <1>5, <1>6, <1>7, <1>8, <1>9
       DEF Inv, TypeOK, NoRetroactiveOvercommit, FloorGuard

\* What is held shrinks by what is returned (release).
LEMMA ReturnedHolds ==
    ASSUME Inv, NEW j \in Caller, NEW cost \in Cost, cost <= held[j]
    PROVE  Charged(held, j, -cost) \in [Caller -> Nat]
  <1>1. cost \in Nat /\ -cost \in Int
    BY CapacityAssumption
  <1>2. held \in [Caller -> Nat]
    BY DEF Inv, TypeOK
  <1>3. held[j] + (-cost) \in Nat
    BY <1>1, <1>2
  <1> QED
    BY <1>1, <1>2, <1>3, ChargedCounts

LEMMA InitHolds == Init => Inv
  <1> SUFFICES ASSUME Init PROVE Inv
    OBVIOUS
  <1>1. ceiling \in [Pool -> Nat] /\ \A p \in Pool : Reserved[p] <= ceiling[p]
    BY CapacityAssumption DEF Init
  <1>2. burst \in [Key -> Nat] /\ \A k \in Key : Reserve[k] <= burst[k]
    BY CapacityAssumption DEF Init
  <1>3. /\ inPool = [p \in Pool |-> 0] /\ inTenant = [k \in Key |-> 0]
        /\ held = [k \in Caller |-> 0]
    BY DEF Init
  <1>4. \A p \in Pool : /\ Reserved[p] \in Nat /\ OthersReserved(p) \in Nat /\ Total \in Nat
                        /\ Reserved[p] <= Total - OthersReserved(p)
    BY CapacityAssumption, FinitelyMany DEF MaxForPool
  <1>5. TypeOK
    BY <1>1, <1>2, <1>3 DEF TypeOK
  <1>6. NoRetroactiveOvercommit
    BY <1>1, <1>2, <1>3 DEF NoRetroactiveOvercommit
  <1>7. FloorGuard
    BY <1>3, <1>4 DEF FloorGuard
  <1> QED
    BY <1>5, <1>6, <1>7 DEF Inv

LEMMA CallerPairs == \A k \in Caller : k = <<k[1], k[2]>> /\ k[1] \in Pool
<1>1. \A k \in Key : k = <<k[1], k[2]>> /\ k[1] \in Pool BY CapacityAssumption
<1>2. \A k \in Pool \X {NoTenant} : k = <<k[1], k[2]>> /\ k[1] \in Pool OBVIOUS
<1> QED BY <1>1, <1>2 DEF Caller

LEMMA NextKeeps == Inv /\ [Next]_vars => Inv'
  <1> SUFFICES ASSUME Inv, [Next]_vars PROVE Inv'
    OBVIOUS
  <1>1. ASSUME NEW k \in Caller, NEW cost \in Cost, Acquire(k[1], cost, k[2])
        PROVE  Inv'
    BY <1>1, AcquireKeepsLimits
  <1>2. ASSUME NEW k \in Caller, NEW cost \in Cost, ReleaseHeld(k[1], cost, k[2])
        PROVE  Inv'
    <2>1. k = <<k[1], k[2]>> /\ <<k[1], k[2]>> \in Caller
      BY CallerPairs
    <2>2. held' \in [Caller -> Nat]
      BY <1>2, <2>1, ReturnedHolds DEF ReleaseHeld
    <2> QED
      BY <1>2, <2>2, ReleaseKeepsLimits DEF ReleaseHeld
  <1>3. ASSUME NEW k \in Caller, NEW cost \in Cost, ReleaseStray(k[1], cost, k[2])
        PROVE  Inv'
    <2>1. PICK j \in Caller : /\ cost <= held[j]
                              /\ Release(k[1], cost, k[2])
                              /\ held' = Charged(held, j, -cost)
      BY <1>3 DEF ReleaseStray
    <2>2. held' \in [Caller -> Nat]
      BY <2>1, ReturnedHolds
    <2> QED
      BY <2>1, <2>2, ReleaseKeepsLimits
  <1>4. CASE Draft
    BY <1>4 DEF Draft, Inv, TypeOK, NoRetroactiveOvercommit, FloorGuard, limits, uses
  <1>5. CASE ApplyDraft
    <2>1. PICK d \in draft : Apply(d) /\ UNCHANGED uses
      BY <1>5 DEF ApplyDraft
    <2> QED
      BY <2>1, ApplyKeepsLimits
  <1>6. CASE EvaluateAndApply
    <2>1. Apply(Decision) /\ UNCHANGED uses
      BY <1>6 DEF EvaluateAndApply, uses
    <2> QED
      BY <2>1, ApplyKeepsLimits
  <1>7. CASE UNCHANGED vars
    BY <1>7 DEF vars, Inv, TypeOK, NoRetroactiveOvercommit, FloorGuard
  <1> QED
    BY <1>1, <1>2, <1>3, <1>4, <1>5, <1>6, <1>7 DEF Next, HonestNext

\* The counters and limits keep their types: no count goes below zero, not
\* even when a release fails halfway.
THEOREM TypeCorrect == Spec => []TypeOK
  <1>1. Inv => TypeOK
    BY DEF Inv
  <1> QED
    BY <1>1, InitHolds, NextKeeps, PTL DEF Spec

\* The rebalancer's documented invariants, for decisions of any age.
THEOREM NeverOvercommitted == Spec => []NoRetroactiveOvercommit
  <1>1. Inv => NoRetroactiveOvercommit
    BY DEF Inv
  <1> QED
    BY <1>1, InitHolds, NextKeeps, PTL DEF Spec

\* No pool alone reaches into the others' reserved capacity, wherever its
\* ceiling was configured.
THEOREM FloorsGuarded == Spec => []FloorGuard
  <1>1. Inv => FloorGuard
    BY DEF Inv
  <1> QED
    BY <1>1, InitHolds, NextKeeps, PTL DEF Spec

\* Reserved capacity is never refused to its pool.
THEOREM ReservedAdmitted ==
    ASSUME \A p \in Pool : <<p, NoTenant>> \notin Key
    PROVE  Spec => []FloorAdmitted
  <1>1. Inv => FloorAdmitted
    <2> SUFFICES ASSUME Inv, NEW p \in Pool, NEW c \in Cost,
                        inPool[p] + c <= Reserved[p]
                 PROVE  Admits(p, c, NoTenant)
      BY DEF FloorAdmitted
    <2>1. /\ inPool[p] \in Nat /\ c \in Nat /\ ceiling[p] \in Nat /\ Reserved[p] \in Nat
      BY CapacityAssumption DEF Inv, TypeOK
    <2>2. Reserved[p] <= ceiling[p]
      BY DEF Inv, NoRetroactiveOvercommit
    <2> QED
      BY <2>1, <2>2 DEF Admits
  <1> QED
    BY <1>1, InitHolds, NextKeeps, PTL DEF Spec

\* A grant or a return changes both counts of a tenant alike, where every caller
\* names the tenant it acquired for (acquire, release).
LEMMA TenantNextExact ==
    ASSUME TypeOK, TenantAccountExact, [HonestNext]_vars
    PROVE  TenantAccountExact'
<1>1. /\ \A k \in Key : inTenant[k] = held[k] /\ k \in Caller
      /\ inTenant \in [Key -> Nat] /\ held \in [Caller -> Nat]
  BY DEF TypeOK, TenantAccountExact, Caller
<1>2. ASSUME UNCHANGED <<inTenant, held>> PROVE TenantAccountExact'
  BY <1>2 DEF TenantAccountExact
<1>3. ASSUME NEW u, NEW cost \in Int,
             inTenant' = Charged(inTenant, u, cost), held' = Charged(held, u, cost),
             u \in Caller => held[u] + cost \in Nat
      PROVE  TenantAccountExact'
  <2>1. \A k \in Key : inTenant'[k] = held'[k] BY <1>1, <1>3 DEF Charged
  <2> QED BY <2>1 DEF TenantAccountExact
<1>4. ASSUME NEW c \in Caller, NEW cost \in Cost, Acquire(c[1], cost, c[2]) PROVE TenantAccountExact'
  <2>1. cost \in Nat BY CapacityAssumption
  <2>2. /\ inTenant' = Charged(inTenant, <<c[1], c[2]>>, cost)
        /\ held' = Charged(held, <<c[1], c[2]>>, cost)
    BY <1>4 DEF Acquire
  <2>3. <<c[1], c[2]>> \in Caller => held[<<c[1], c[2]>>] + cost \in Nat BY <1>1, <2>1
  <2> QED BY <1>3, <2>1, <2>2, <2>3
<1>5. ASSUME NEW c \in Caller, NEW cost \in Cost, ReleaseHeld(c[1], cost, c[2]) PROVE TenantAccountExact'
  <2> DEFINE u == <<c[1], c[2]>>
  <2>1. cost \in Nat BY CapacityAssumption
  <2>2. /\ cost <= held[u] /\ held' = Charged(held, u, -cost)
        /\ inTenant' = IF u \in Key /\ cost > inTenant[u]
                       THEN inTenant ELSE Charged(inTenant, u, -cost)
    BY <1>5 DEF ReleaseHeld, Release
  <2> HIDE DEF u
  <2>3. ~(u \in Key /\ cost > inTenant[u]) BY <1>1, <2>1, <2>2
  <2>4. inTenant' = Charged(inTenant, u, -cost) BY <2>2, <2>3
  <2>5. -cost \in Int /\ (u \in Caller => held[u] + (-cost) \in Nat) BY <1>1, <2>1, <2>2
  <2> QED BY <1>3, <2>2, <2>4, <2>5
<1>6. CASE Draft BY <1>2, <1>6 DEF Draft, uses
<1>7. CASE ApplyDraft BY <1>2, <1>7 DEF ApplyDraft, uses
<1>8. CASE EvaluateAndApply BY <1>2, <1>8 DEF EvaluateAndApply, uses
<1>9. CASE UNCHANGED vars BY <1>2, <1>9 DEF vars
<1> QED BY <1>4, <1>5, <1>6, <1>7, <1>8, <1>9 DEF HonestNext

\* A change of what a caller holds, and of its pool's count with it, keeps the
\* pools' counts exact (acquire, release).
LEMMA PoolStaysExact ==
    ASSUME TypeOK, PoolAccountExact, NEW j \in Caller, NEW delta \in Int,
           inPool[j[1]] + delta \in Nat, held[j] + delta \in Nat,
           inPool' = Charged(inPool, j[1], delta), held' = Charged(held, j, delta)
    PROVE  PoolAccountExact'
<1>1. inPool \in [Pool -> Nat] /\ held \in [Caller -> Nat] BY DEF TypeOK
<1>2. j[1] \in Pool BY CallerPairs
<1>3. \A p \in Pool : inPool'[p] = IF p = j[1] THEN inPool[p] + delta ELSE inPool[p]
  BY <1>1, <1>2, ChargedCounts
<1>4. /\ \A k \in Caller : held'[k] = IF k = j THEN held[k] + delta ELSE held[k]
      /\ held' \in [Caller -> Nat]
  BY <1>1, ChargedCounts
<1>5. ASSUME NEW p \in Pool
      PROVE  inPool'[p] = SumOver(held', {k \in Caller : k[1] = p})
  <2> DEFINE own == {k \in Caller : k[1] = p}
  <2>1. inPool[p] = SumOver(held, own) BY DEF PoolAccountExact
  <2>2. IsFiniteSet(own) BY FinitelyMany, FS_Subset
  <2>3. \A k \in own : held[k] \in Nat /\ held'[k] \in Nat BY <1>1, <1>4
  <2>4. CASE p = j[1]
    <3>1. j \in own /\ held'[j] = held[j] + delta /\ \A k \in own \ {j} : held'[k] = held[k]
      BY <1>4, <2>4
    <3>2. SumOver(held', own) = SumOver(held, own) + delta BY <2>2, <2>3, <3>1, SumCharged
    <3> QED BY <1>3, <2>1, <2>4, <3>2
  <2>5. CASE p # j[1]
    <3>1. \A k \in own : held'[k] = held[k] BY <1>4, <2>5
    <3>2. SumOver(held', own) = SumOver(held, own) BY <3>1, SumSame
    <3> QED BY <1>3, <2>1, <2>5, <3>2
  <2> QED BY <2>4, <2>5
<1> QED BY <1>5 DEF PoolAccountExact

LEMMA PoolNextExact ==
    ASSUME Inv, PoolAccountExact, [Next]_vars
    PROVE  PoolAccountExact'
<1>1. TypeOK /\ inPool \in [Pool -> Nat] /\ held \in [Caller -> Nat] BY DEF Inv, TypeOK
<1>2. \A k \in Caller : k = <<k[1], k[2]>> /\ k[1] \in Pool BY CallerPairs
<1>3. \A cost \in Cost : cost \in Nat BY CapacityAssumption
<1>4. ASSUME NEW k \in Caller, NEW cost \in Cost, Acquire(k[1], cost, k[2])
      PROVE  PoolAccountExact'
  <2>1. inPool' = Charged(inPool, k[1], cost) /\ held' = Charged(held, k, cost)
    BY <1>2, <1>4 DEF Acquire
  <2>2. inPool[k[1]] + cost \in Nat /\ held[k] + cost \in Nat BY <1>1, <1>2, <1>3
  <2> QED BY <1>1, <1>3, <2>1, <2>2, PoolStaysExact
<1>5. ASSUME NEW j \in Caller, NEW cost \in Cost, cost <= held[j], cost <= inPool[j[1]],
             inPool' = Charged(inPool, j[1], -cost), held' = Charged(held, j, -cost)
      PROVE  PoolAccountExact'
  <2>1. inPool[j[1]] \in Nat /\ held[j] \in Nat /\ cost \in Nat BY <1>1, <1>2, <1>3
  <2>2. /\ inPool[j[1]] + (-cost) \in Nat /\ held[j] + (-cost) \in Nat /\ -cost \in Int
    BY <1>5, <2>1
  <2> QED BY <1>1, <1>5, <2>2, PoolStaysExact
<1>6. ASSUME NEW k \in Caller, NEW cost \in Cost, ReleaseHeld(k[1], cost, k[2])
      PROVE  PoolAccountExact'
  <2>1. /\ cost <= held[k] /\ cost <= inPool[k[1]]
        /\ inPool' = Charged(inPool, k[1], -cost) /\ held' = Charged(held, k, -cost)
    BY <1>2, <1>6 DEF ReleaseHeld, Release
  <2> QED BY <1>5, <2>1
<1>7. ASSUME NEW k \in Caller, NEW cost \in Cost, ReleaseStray(k[1], cost, k[2])
      PROVE  PoolAccountExact'
  <2>1. PICK j \in Caller : /\ j[1] = k[1] /\ cost <= held[j]
                            /\ Release(k[1], cost, k[2])
                            /\ held' = Charged(held, j, -cost)
    BY <1>7 DEF ReleaseStray
  <2>2. cost <= inPool[j[1]] /\ inPool' = Charged(inPool, j[1], -cost) BY <2>1 DEF Release
  <2> QED BY <1>5, <2>1, <2>2
<1>8. CASE UNCHANGED <<inPool, held>> BY <1>8 DEF PoolAccountExact
<1>9. CASE Draft BY <1>8, <1>9 DEF Draft, uses
<1>10. CASE ApplyDraft BY <1>8, <1>10 DEF ApplyDraft, uses
<1>11. CASE EvaluateAndApply BY <1>8, <1>11 DEF EvaluateAndApply, uses
<1>12. CASE UNCHANGED vars BY <1>8, <1>12 DEF vars
<1> QED BY <1>4, <1>6, <1>7, <1>9, <1>10, <1>11, <1>12 DEF Next, HonestNext

LEMMA PoolInitExact == Init => PoolAccountExact
<1> SUFFICES ASSUME Init, NEW p \in Pool
             PROVE  inPool[p] = SumOver(held, {k \in Caller : k[1] = p})
  BY DEF PoolAccountExact
<1> DEFINE own == {k \in Caller : k[1] = p}
<1>1. inPool[p] = 0 /\ \A k \in own : held[k] = 0 BY DEF Init
<1>2. \A k \in own : 1..held[k] = {} BY <1>1
<1>3. UNION {{k} \X (1..held[k]) : k \in own} = {} BY <1>2
<1>4. SumOver(held, own) = 0 BY <1>3, FS_EmptySet DEF SumOver
<1> QED BY <1>1, <1>4

\* Where every caller names the tenant it acquired for, the count of a tenant is
\* exactly what its callers hold: no sequence of grants, refusals, returns and
\* rebalances leaks a tenant's burst (acquire, release).
THEOREM TenantAccountsExact == Init /\ [][HonestNext]_vars => []TenantAccountExact
<1>1. Init => Inv /\ TenantAccountExact BY InitHolds DEF Init, TenantAccountExact, Caller
<1>2. Inv /\ TenantAccountExact /\ [HonestNext]_vars => Inv' /\ TenantAccountExact'
  BY NextKeeps, TenantNextExact DEF Inv, Next
<1> QED BY <1>1, <1>2, PTL

\* For any pools, budgets and costs, whatever tenant a release names and wherever it
\* fails (acquire, release): a pool's count is exactly what its callers hold, and a
\* tenant's is where no caller strays.
THEOREM AccountsAreExact == MCSpec => []AccountsExact
<1> DEFINE Straight == focus # "strays" => TenantAccountExact
<1>1. MCInit => Inv /\ PoolAccountExact /\ Straight
  BY InitHolds, PoolInitExact DEF MCInit, Init, TenantAccountExact, Caller
<1>2. ASSUME Inv, PoolAccountExact, Straight,
             [MCNext]_<<focus, vars, limiterVars, sybilVars>>
      PROVE  Inv' /\ PoolAccountExact' /\ Straight'
  <2>1. focus' = focus /\ [Next]_vars BY <1>2 DEF MCNext, Next
  <2>2. focus # "strays" => [HonestNext]_vars BY <1>2 DEF MCNext
  <2>3. Inv' /\ PoolAccountExact' BY <1>2, <2>1, NextKeeps, PoolNextExact
  <2>4. ASSUME focus # "strays" PROVE TenantAccountExact'
    BY <1>2, <2>2, <2>4, TenantNextExact DEF Inv
  <2> QED BY <2>1, <2>3, <2>4
<1>3. PoolAccountExact /\ Straight => AccountsExact BY DEF AccountsExact
<1> HIDE DEF Straight
<1> QED BY <1>1, <1>2, <1>3, PTL DEF MCSpec

-----------------------------------------------------------------------------
(* A fresh rebalance: what the donors give is what the recipients are      *)
(* offered, so that the limits that move add up to what they were.         *)

\* What a count is divided into, and a part of a count.
LEMMA Division ==
    \A n \in Nat \ {0}, t \in Nat :
        /\ t \div n \in Nat /\ t % n \in Nat /\ t % n < n
        /\ t = n * (t \div n) + (t % n)
<1>1. ASSUME NEW n \in Nat \ {0}, NEW t \in Nat
      PROVE  t \div n \in Nat /\ t % n \in Nat /\ t % n < n
  OBVIOUS
<1>2. ASSUME NEW n \in Nat \ {0}, NEW t \in Nat PROVE t = n * (t \div n) + (t % n)
  BY Z3
<1> QED BY <1>1, <1>2

LEMMA PartOfCount ==
    ASSUME NEW h \in Nat, NEW a \in Nat, NEW b \in Nat \ {0}, a <= b
    PROVE  (h * a) \div b \in Nat /\ (h * a) \div b <= h
OBVIOUS

\* Where nobody exceeds its limit, the shares are even and add up to the total
\* (_allocate_transfer): the first c of them to c quotients, and to c more or to the
\* rest.
LEMMA EvenShares ==
    ASSUME NEW N \in Nat, NEW some \in SUBSET (1..N), some # {},
           NEW excess, DOMAIN excess = some, \A i \in some : excess[i] = 0,
           NEW total \in Nat
    PROVE  /\ \A i \in some : Shares(excess, total)[i] \in Nat
           /\ SumOver(Shares(excess, total), some) = total
<1> DEFINE n == Cardinality(some)
           place(i) == Cardinality({j \in some : j <= i})
           q == total \div n
           r == total % n
           share == [i \in some |-> q + IF place(i) <= r THEN 1 ELSE 0]
<1>0. IsFiniteSet(some)
  <2>1. IsFiniteSet(1..N) BY NumbersCount
  <2> QED BY <2>1, FS_Subset
<1>1. n \in Nat \ {0}
  <2>1. n \in Nat BY <1>0, FS_CardinalityType
  <2>2. n # 0 BY <1>0, FS_EmptySet
  <2> QED BY <2>1, <2>2
<1>2. SumOver(excess, some) = 0 BY SumOfNothing
<1>3. Shares(excess, total) = share
  <2>1. ~(SumOver(excess, DOMAIN excess) > 0) BY <1>2
  <2> QED BY <2>1 DEF Shares
<1>4. q \in Nat /\ r \in Nat /\ r < n /\ total = n * q + r BY <1>1, Division
<1> HIDE DEF n, q, r
<1>5. \A i \in some : place(i) \in Nat
  <2> SUFFICES ASSUME NEW i \in some PROVE place(i) \in Nat OBVIOUS
  <2>1. {j \in some : j <= i} \in SUBSET some OBVIOUS
  <2> QED BY <1>0, <2>1, FS_Subset, FS_CardinalityType
<1> HIDE DEF place
<1>6. \A i \in some : /\ place(i) <= r => share[i] = q + 1
                      /\ ~(place(i) <= r) => share[i] = q
  BY <1>4, <1>5
<1> HIDE DEF share
<1>7. \A i \in some : share[i] \in Nat BY <1>4, <1>6
<1> DEFINE upTo(k) == {j \in some : j <= k}
           F == {k \in Nat : \A c \in Nat, s \in Nat :
                    c = Cardinality(upTo(k)) /\ s = SumOver(share, upTo(k)) =>
                      /\ c <= r => s = c * q + c
                      /\ ~(c <= r) => s = c * q + r}
<1>8. 0 \in F
  <2>1. upTo(0) = {}
    <3> SUFFICES ASSUME NEW j \in upTo(0) PROVE FALSE OBVIOUS
    <3>1. j \in 1..N /\ j <= 0 OBVIOUS
    <3> QED BY <3>1
  <2>2. Cardinality(upTo(0)) = 0 /\ SumOver(share, upTo(0)) = 0 BY <2>1, SumEmpty, FS_EmptySet
  <2> HIDE DEF upTo
  <2>3. 0 * q = 0 BY <1>4
  <2> QED BY <1>4, <2>2, <2>3
<1>9. ASSUME NEW k \in Nat, k \in F PROVE k + 1 \in F
  <2>1. /\ upTo(k) \in SUBSET some /\ IsFiniteSet(upTo(k)) /\ Cardinality(upTo(k)) \in Nat
        /\ \A i \in upTo(k) : share[i] \in Nat
    <3>1. upTo(k) \in SUBSET some OBVIOUS
    <3> QED BY <1>0, <1>7, <3>1, FS_Subset, FS_CardinalityType
  <2>2. CASE k + 1 \notin some
    <3>1. upTo(k + 1) = upTo(k)
      <4>1. \A j \in some : j \in Int /\ j # k + 1 BY <2>2
      <4>2. \A j \in some : j <= k + 1 <=> j <= k BY <4>1
      <4> QED BY <4>2
    <3> HIDE DEF upTo
    <3> QED BY <1>9, <3>1
  <2>3. CASE k + 1 \in some
    <3>1. upTo(k + 1) = upTo(k) \cup {k + 1} /\ k + 1 \notin upTo(k)
      <4>1. \A j \in some : j \in Int OBVIOUS
      <4>2. \A j \in some : j <= k + 1 <=> (j <= k \/ j = k + 1) BY <4>1
      <4>3. ~(k + 1 <= k) OBVIOUS
      <4>4. k + 1 \notin upTo(k) BY <4>3
      <4>5. upTo(k + 1) = upTo(k) \cup {k + 1} BY <2>3, <4>2
      <4> QED BY <4>4, <4>5
    <3>2. PICK c \in Nat : c = Cardinality(upTo(k)) BY <2>1
    <3>3. PICK s \in Nat : s = SumOver(share, upTo(k)) BY <2>1, SumNatural
    <3>4. (c <= r => s = c * q + c) /\ (~(c <= r) => s = c * q + r) BY <1>9, <3>2, <3>3
    <3>5. place(k + 1) = Cardinality(upTo(k + 1)) BY DEF place
    <3> HIDE DEF upTo, F
    <3>6. Cardinality(upTo(k + 1)) = c + 1 BY <2>1, <3>1, <3>2, FS_AddElement
    <3>7. SumOver(share, upTo(k + 1)) = share[k + 1] + s
      BY <1>7, <2>1, <2>3, <3>1, <3>3, SumMore
    <3>8. (c + 1 <= r => share[k + 1] = q + 1) /\ (~(c + 1 <= r) => share[k + 1] = q)
      BY <1>6, <2>3, <3>5, <3>6
    <3>9. share[k + 1] \in Nat BY <1>7, <2>3
    <3>10. PICK a \in Nat : a = c * q BY <1>4
    <3>11. (c + 1) * q = a + q BY <1>4, <3>10
    <3>12. (c + 1 <= r => share[k + 1] + s = a + q + (c + 1))
      BY <1>4, <3>4, <3>8, <3>10
    <3>13. (~(c + 1 <= r) => share[k + 1] + s = a + q + r)
      <4>1. CASE c = r BY <1>4, <3>4, <3>8, <3>10, <4>1
      <4>2. CASE c # r BY <1>4, <3>4, <3>8, <3>10, <4>2
      <4> QED BY <4>1, <4>2
    <3>14. c + 1 \in Nat /\ share[k + 1] + s \in Nat BY <3>9
    <3> QED BY <3>6, <3>7, <3>11, <3>12, <3>13, <3>14 DEF F
  <2> QED BY <2>2, <2>3
<1>10. N \in F
  <2> HIDE DEF F
  <2>1. \A k \in Nat : k \in F BY <1>8, <1>9, NumberInduction
  <2> QED BY <2>1
<1>11. upTo(N) = some
  <2>1. \A j \in some : j <= N OBVIOUS
  <2> QED BY <2>1
<1>12. SumOver(share, some) \in Nat BY <1>0, <1>7, SumNatural
<1>13. SumOver(share, some) = n * q + r BY <1>1, <1>4, <1>10, <1>11, <1>12 DEF n
<1> QED BY <1>3, <1>4, <1>7, <1>13

\* A unit is not under stress and idle at once (signals).
LEMMA StressedOrSlack ==
    ASSUME NEW use \in Nat, NEW limit \in Nat
    PROVE  ~(Stressed(use, limit) /\ Slack(use, limit))
<1> SUFFICES ASSUME Stressed(use, limit), Slack(use, limit) PROVE FALSE OBVIOUS
<1>1. PICK a \in Nat : a = SlackThreshold[1] BY RebalancerAssumption
<1>2. PICK b \in Nat \ {0} : b = SlackThreshold[2] BY RebalancerAssumption
<1>3. PICK c \in Nat : c = StressThreshold[1] BY RebalancerAssumption
<1>4. PICK d \in Nat \ {0} : d = StressThreshold[2] BY RebalancerAssumption
<1>5. a * d < c * b BY <1>1, <1>2, <1>3, <1>4, RebalancerAssumption
<1>6. limit > 0 /\ use * d >= c * limit /\ use * b <= a * limit
  BY <1>1, <1>2, <1>3, <1>4 DEF Stressed, Slack
<1> HIDE <1>1, <1>2, <1>3, <1>4
<1> QED BY <1>5, <1>6

LEMMA DonationWithin ==
    ASSUME NEW headroom \in Nat
    PROVE  Donation(headroom) \in Nat /\ Donation(headroom) <= headroom
<1>1. /\ TransferFraction[1] \in Nat /\ TransferFraction[2] \in Nat \ {0}
      /\ TransferFraction[1] <= TransferFraction[2]
  BY RebalancerAssumption
<1> QED BY <1>1, PartOfCount DEF Donation

\* The limits at the places P when the idle ones give what the stressed ones are
\* offered.
LEMMA MovesBalance ==
    ASSUME NEW P, IsFiniteSet(P), NEW slack \in SUBSET P, NEW stressed \in SUBSET P,
           slack \cap stressed = {},
           NEW gives, NEW takes, NEW lim, NEW aft,
           \A i \in P : lim[i] \in Nat /\ aft[i] \in Nat,
           \A i \in slack : gives[i] \in Nat /\ aft[i] + gives[i] = lim[i],
           \A i \in stressed : takes[i] \in Nat /\ aft[i] <= lim[i] + takes[i],
           \A i \in P \ (slack \cup stressed) : aft[i] = lim[i],
           SumOver(takes, stressed) = SumOver(gives, slack)
    PROVE  /\ SumOver(aft, P) <= SumOver(lim, P)
           /\ (\A i \in stressed : aft[i] = lim[i] + takes[i]) =>
                SumOver(aft, P) = SumOver(lim, P)
           /\ SumOver(gives, slack) <= SumOver(lim, P)
<1> DEFINE out == [i \in P |-> IF i \in slack THEN gives[i] ELSE 0]
           in == [i \in P |-> IF i \in stressed THEN takes[i] ELSE 0]
           mid == [i \in P |-> lim[i] + in[i]]
           end == [i \in P |-> aft[i] + out[i]]
<1>1. \A i \in P : /\ i \in slack => out[i] = gives[i]
                   /\ i \notin slack => out[i] = 0
                   /\ out[i] \in Nat
  OBVIOUS
<1>2. \A i \in P : /\ i \in stressed => in[i] = takes[i]
                   /\ i \notin stressed => in[i] = 0
                   /\ in[i] \in Nat
  OBVIOUS
<1> HIDE DEF out, in
<1>3. \A i \in P : /\ mid[i] = lim[i] + in[i] /\ mid[i] \in Nat
                   /\ end[i] = aft[i] + out[i] /\ end[i] \in Nat
  BY <1>1, <1>2
<1> HIDE DEF mid, end
<1>4. \A i \in P : i \in stressed => i \notin slack OBVIOUS
<1>5. ASSUME NEW i \in P
      PROVE  /\ end[i] <= mid[i]
             /\ (i \in stressed => aft[i] = lim[i] + takes[i]) => end[i] = mid[i]
  <2>1. CASE i \in slack
    <3>1. i \notin stressed BY <1>4, <2>1
    <3> QED BY <1>1, <1>2, <1>3, <2>1, <3>1
  <2>2. CASE i \in stressed
    <3>1. i \notin slack BY <1>4, <2>2
    <3> QED BY <1>1, <1>2, <1>3, <2>2, <3>1
  <2>3. CASE i \notin slack \cup stressed BY <1>1, <1>2, <1>3, <2>3
  <2> QED BY <2>1, <2>2, <2>3
<1>6. SumOver(out, P) = SumOver(gives, slack)
  <2>1. /\ \A i \in P : out[i] \in Nat
        /\ \A i \in slack : gives[i] = out[i]
        /\ \A i \in P \ slack : out[i] = 0
    BY <1>1
  <2> QED BY <2>1, SumWithin
<1>7. SumOver(in, P) = SumOver(gives, slack)
  <2>1. /\ \A i \in P : in[i] \in Nat
        /\ \A i \in stressed : takes[i] = in[i]
        /\ \A i \in P \ stressed : in[i] = 0
    BY <1>2
  <2>2. SumOver(in, P) = SumOver(takes, stressed) BY <2>1, SumWithin
  <2> QED BY <2>2
<1>8. SumOver(mid, P) = SumOver(lim, P) + SumOver(in, P) BY <1>2, <1>3, SumAdds
<1>9. SumOver(end, P) = SumOver(aft, P) + SumOver(out, P) BY <1>1, <1>3, SumAdds
<1>10. SumOver(end, P) <= SumOver(mid, P) BY <1>3, <1>5, SumBounds
<1>11. /\ SumOver(aft, P) \in Nat /\ SumOver(lim, P) \in Nat /\ SumOver(out, P) \in Nat
       /\ SumOver(in, P) \in Nat
  BY <1>1, <1>2, SumNatural
<1>12. SumOver(aft, P) <= SumOver(lim, P) BY <1>6, <1>7, <1>8, <1>9, <1>10, <1>11
<1>13. ASSUME \A i \in stressed : aft[i] = lim[i] + takes[i]
       PROVE  SumOver(aft, P) = SumOver(lim, P)
  <2>1. \A i \in P : end[i] = mid[i] BY <1>5, <1>13
  <2>2. SumOver(end, P) = SumOver(mid, P) BY <2>1, SumSame
  <2> QED BY <1>6, <1>7, <1>8, <1>9, <1>11, <2>2
<1>14. SumOver(gives, slack) <= SumOver(lim, P)
  <2>1. \A i \in P : out[i] <= lim[i]
    <3> SUFFICES ASSUME NEW i \in P PROVE out[i] <= lim[i] OBVIOUS
    <3>1. CASE i \in slack BY <1>1, <3>1
    <3>2. CASE i \notin slack BY <1>1, <3>2
    <3> QED BY <3>1, <3>2
  <2>2. SumOver(out, P) <= SumOver(lim, P) BY <1>1, <2>1, SumBounds
  <2> QED BY <1>6, <2>2
<1> QED BY <1>12, <1>13, <1>14

\* The changes cs take the limits to `target`: those that move, and one for each
\* unit that it moves, all of them in `own`.
LeadsTo(cs, limit, own, target) ==
    /\ DOMAIN target = DOMAIN limit
    /\ \A u \in DOMAIN limit : target[u] \in Nat
    /\ \A i \in Moving(cs) : /\ cs[i].unit \in own /\ cs[i].unit \in DOMAIN limit
                             /\ cs[i].old = limit[cs[i].unit]
                             /\ cs[i].new = target[cs[i].unit]
    /\ \A u \in DOMAIN limit : target[u] # limit[u] =>
         u \in own /\ \E i \in Moving(cs) : cs[i].unit = u

\* A sequence after another of its length.
LEMMA TwoInARow ==
    ASSUME NEW S, NEW N \in Nat, NEW down \in Seq(S), NEW up \in Seq(S),
           Len(down) = N, Len(up) = N
    PROVE  /\ down \o up \in Seq(S) /\ DOMAIN (down \o up) = 1..(N + N)
           /\ \A i \in 1..N : (down \o up)[i] = down[i] /\ (down \o up)[N + i] = up[i]
<1> DEFINE cs == down \o up
<1>1. cs \in Seq(S) /\ Len(cs) = N + N BY ConcatProperties
<1>2. \A i \in 1..(Len(down) + Len(up)) :
        cs[i] = IF i <= Len(down) THEN down[i] ELSE up[i - Len(down)]
  BY ConcatProperties, Zenon
<1> HIDE DEF cs
<1>3. ASSUME NEW i \in 1..N PROVE cs[i] = down[i] /\ cs[N + i] = up[i]
  <2>1. /\ i \in 1..(Len(down) + Len(up)) /\ i <= Len(down)
        /\ N + i \in 1..(Len(down) + Len(up)) /\ ~(N + i <= Len(down))
        /\ (N + i) - Len(down) = i
    OBVIOUS
  <2> QED BY <1>2, <2>1, Zenon
<1>4. DOMAIN cs = 1..(N + N) BY <1>1
<1> QED BY <1>1, <1>3, <1>4 DEF cs

\* What the donors and then the recipients get to are such changes.
ChangesSetting(U, N, order, limit, slack, stressed, given, taken, own, target, cs) ==
    /\ N \in Nat /\ order \in [1..N -> U] /\ limit \in [U -> Nat] /\ target \in [U -> Nat]
    /\ slack \in SUBSET (1..N) /\ stressed \in SUBSET (1..N)
    /\ \A i \in 1..N : /\ i \notin slack => given[i] = limit[order[i]]
                       /\ i \notin stressed => taken[i] = limit[order[i]]
    /\ \A i \in slack : order[i] \in own /\ target[order[i]] = given[i]
    /\ \A i \in stressed : order[i] \in own /\ target[order[i]] = taken[i]
    /\ \A u \in U : target[u] # limit[u] => \E i \in slack \cup stressed : order[i] = u
    /\ DOMAIN cs = 1..(N + N)
    /\ \A i \in 1..N :
         /\ cs[i].unit = order[i] /\ cs[i].old = limit[order[i]] /\ cs[i].new = given[i]
         /\ cs[N + i].unit = order[i] /\ cs[N + i].old = limit[order[i]]
         /\ cs[N + i].new = taken[i]

LEMMA ChangesLead ==
    ASSUME NEW U, NEW N, NEW order, NEW limit, NEW slack, NEW stressed, NEW given, NEW taken,
           NEW own, NEW target, NEW cs,
           ChangesSetting(U, N, order, limit, slack, stressed, given, taken, own, target, cs)
    PROVE  LeadsTo(cs, limit, own, target)
<1> USE DEF ChangesSetting
<1>1. \A i \in 1..N : order[i] \in U /\ limit[order[i]] \in Nat
  OBVIOUS
<1>2. ASSUME NEW k \in Moving(cs)
      PROVE  /\ cs[k].unit \in own /\ cs[k].unit \in U
             /\ cs[k].old = limit[cs[k].unit] /\ cs[k].new = target[cs[k].unit]
  <2>1. k \in 1..(N + N) /\ cs[k].new # cs[k].old BY DEF Moving
  <2>2. CASE k <= N
    <3>1. k \in 1..N BY <2>1, <2>2
    <3>2. k \in slack BY <2>1, <3>1
    <3> QED BY <1>1, <3>1, <3>2
  <2>3. CASE ~(k <= N)
    <3>1. PICK i \in 1..N : k = N + i
      <4>1. k - N \in 1..N /\ k = N + (k - N) BY <2>1, <2>3
      <4> QED BY <4>1
    <3>2. i \in stressed BY <2>1, <3>1
    <3> QED BY <1>1, <3>1, <3>2
  <2> QED BY <2>2, <2>3
<1>3. ASSUME NEW u \in U, target[u] # limit[u]
      PROVE  u \in own /\ \E k \in Moving(cs) : cs[k].unit = u
  <2>1. PICK i \in slack \cup stressed : order[i] = u BY <1>3
  <2>2. i \in 1..N OBVIOUS
  <2>3. CASE i \in slack
    <3>1. cs[i].unit = u /\ cs[i].new # cs[i].old BY <1>3, <2>1, <2>2, <2>3
    <3>2. i \in DOMAIN cs BY <2>2
    <3> QED BY <2>1, <2>3, <3>1, <3>2 DEF Moving
  <2>4. CASE i \in stressed
    <3>1. cs[N + i].unit = u /\ cs[N + i].new # cs[N + i].old
      BY <1>3, <2>1, <2>2, <2>4
    <3>2. N + i \in DOMAIN cs BY <2>2
    <3> QED BY <2>1, <2>4, <3>1, <3>2 DEF Moving
  <2> QED BY <2>3, <2>4
<1>4. DOMAIN target = U /\ DOMAIN limit = U /\ \A u \in U : target[u] \in Nat OBVIOUS
<1> QED BY <1>2, <1>3, <1>4 DEF LeadsTo

\* A rebalance of the units `among` moves limits among them, takes nothing below its
\* floor or use, and creates nothing; and where no cap binds, it loses nothing
\* (_allocate_transfer, _evaluate_pools, _evaluate_tenants).
TransferSetting(U, order, among, use, limit, floor, cap) ==
    /\ IsFiniteSet(U)
    /\ order \in Seq(U) /\ \A i, j \in DOMAIN order : order[i] = order[j] => i = j
    /\ among \in SUBSET DOMAIN order
    /\ use \in [U -> Nat] /\ limit \in [U -> Nat] /\ floor \in [U -> Nat] /\ cap \in [U -> Nat]
    /\ \A u \in U : floor[u] <= limit[u] /\ use[u] <= limit[u]

\* What is claimed of the limits they end with, `own` being the units among which they move.
TransferResult(U, cs, use, limit, floor, cap, own, target) ==
    /\ LeadsTo(cs, limit, own, target)
    /\ SumOver(target, own) <= SumOver(limit, own)
    /\ (\A u \in U : limit[u] + SumOver(limit, U) <= cap[u]) =>
         /\ SumOver(target, own) = SumOver(limit, own)
         /\ \A u \in U : floor[u] <= target[u] /\ use[u] <= target[u]

LEMMA LargerSmaller ==
    ASSUME NEW a \in Int, NEW b \in Int
    PROVE  /\ b <= a => AtLeast(a, b) = a /\ AtLeast(b, a) = a
           /\ a <= b => AtMost(a, b) = a
           /\ AtMost(a, b) <= a /\ AtMost(a, b) \in {a, b} /\ AtLeast(a, b) \in {a, b}
           /\ a <= AtLeast(a, b) /\ b <= AtLeast(a, b)
<1>1. CASE a < b BY <1>1 DEF AtLeast, AtMost
<1>2. CASE a = b BY <1>2 DEF AtLeast, AtMost
<1>3. CASE b < a BY <1>3 DEF AtLeast, AtMost
<1> QED BY <1>1, <1>2, <1>3

LEMMA TransferMoves ==
    ASSUME NEW U, NEW order, NEW among, NEW use, NEW limit, NEW floor, NEW cap,
           TransferSetting(U, order, among, use, limit, floor, cap)
    PROVE  LET own == {order[i] : i \in among}
               cs == Transfer(order, among, use, limit, floor, cap)
           IN  /\ cs \in Seq([unit : U, old : Nat, new : Nat])
               /\ \E target : TransferResult(U, cs, use, limit, floor, cap, own, target)
<1> DEFINE own == {order[i] : i \in among}
           cs == Transfer(order, among, use, limit, floor, cap)
           N == Len(order)
           stressed == {i \in among : Stressed(use[order[i]], limit[order[i]])}
           slack == {i \in among : Slack(use[order[i]], limit[order[i]])}
           base(u) == AtLeast(floor[u], use[u])
           gives == [i \in slack |-> Donation(AtLeast(0, limit[order[i]] - base(order[i])))]
           excess == [i \in stressed |-> AtLeast(0, use[order[i]] - limit[order[i]])]
           takes == Shares(excess, SumOver(gives, slack))
           given(i, u) == IF i \in slack /\ gives[i] > 0
                            THEN AtLeast(limit[u] - gives[i], base(u)) ELSE limit[u]
           taken(i, u) == IF i \in stressed /\ takes[i] > 0
                            THEN AtMost(limit[u] + takes[i], cap[u]) ELSE limit[u]
           cascades == /\ Cardinality(stressed) >= CascadeMin
                       /\ slack # {}
                       /\ SumOver(gives, slack) > 0
           down == [i \in DOMAIN order |-> Change(order[i], limit[order[i]], given(i, order[i]))]
           up == [i \in DOMAIN order |-> Change(order[i], limit[order[i]], taken(i, order[i]))]
           Changes == [unit : U, old : Nat, new : Nat]
<1>0. SUFFICES /\ cs \in Seq(Changes)
               /\ \E target : TransferResult(U, cs, use, limit, floor, cap, own, target)
  OBVIOUS
<1>a. /\ IsFiniteSet(U) /\ order \in Seq(U)
      /\ among \in SUBSET DOMAIN order
  BY DEF TransferSetting
<1>b. \A i, j \in DOMAIN order : order[i] = order[j] => i = j BY DEF TransferSetting
<1>c. /\ use \in [U -> Nat] /\ limit \in [U -> Nat] /\ floor \in [U -> Nat]
      /\ cap \in [U -> Nat]
  BY DEF TransferSetting
<1>d. \A u \in U : floor[u] <= limit[u] /\ use[u] <= limit[u] BY DEF TransferSetting
<1>1. cs = IF cascades THEN down \o up ELSE <<>> BY DEF Transfer
<1>2. /\ N \in Nat /\ DOMAIN order = 1..N /\ order \in [1..N -> U]
      /\ \A i \in 1..N : order[i] \in U
      /\ DOMAIN limit = U
  <2>1. \A i \in 1..N : order[i] \in U BY <1>a, ElementOfSeq
  <2> QED BY <1>a, <1>c, <2>1
<1>3. /\ among \in SUBSET (1..N) /\ slack \in SUBSET among /\ stressed \in SUBSET among
      /\ \A i \in among : order[i] \in U
  BY <1>a, <1>2
<1>4. IsFiniteSet(among) /\ IsFiniteSet(slack) /\ IsFiniteSet(stressed)
  <2>1. IsFiniteSet(1..N) BY <1>2, NumbersCount
  <2> QED BY <1>3, <2>1, FS_Subset
<1>5. slack \cap stressed = {}
  <2> SUFFICES ASSUME NEW i \in slack, i \in stressed PROVE FALSE OBVIOUS
  <2>1. use[order[i]] \in Nat /\ limit[order[i]] \in Nat BY <1>3, <1>c
  <2> QED BY <2>1, StressedOrSlack
<1>6. \A u \in U : /\ base(u) \in Nat /\ base(u) <= limit[u] /\ limit[u] \in Nat
                   /\ floor[u] <= base(u) /\ use[u] <= base(u)
  <2> SUFFICES ASSUME NEW u \in U
               PROVE  /\ base(u) \in Nat /\ base(u) <= limit[u] /\ limit[u] \in Nat
                      /\ floor[u] <= base(u) /\ use[u] <= base(u)
    OBVIOUS
  <2>1. floor[u] \in Nat /\ use[u] \in Nat /\ limit[u] \in Nat BY <1>c
  <2>2. /\ base(u) \in {floor[u], use[u]}
        /\ floor[u] <= base(u) /\ use[u] <= base(u)
    BY <2>1, LargerSmaller
  <2> HIDE DEF base
  <2> QED BY <1>d, <2>1, <2>2
<1> HIDE DEF base
<1>7. \A i \in slack : gives[i] \in Nat /\ gives[i] <= limit[order[i]] - base(order[i])
  <2> SUFFICES ASSUME NEW i \in slack
               PROVE  gives[i] \in Nat /\ gives[i] <= limit[order[i]] - base(order[i])
    OBVIOUS
  <2>1. PICK l \in Nat : l = limit[order[i]] BY <1>3, <1>c
  <2>2. PICK b \in Nat : b = base(order[i]) /\ b <= l BY <1>3, <1>6, <2>1
  <2>3. gives[i] = Donation(AtLeast(0, l - b)) BY <2>1, <2>2
  <2>4. AtLeast(0, l - b) = l - b /\ l - b \in Nat
    <3>1. l - b \in Nat BY <2>2
    <3> QED BY <3>1, LargerSmaller
  <2> HIDE DEF gives
  <2> QED BY <2>1, <2>2, <2>3, <2>4, DonationWithin
<1>8. \A i \in stressed : excess[i] = 0
  <2> SUFFICES ASSUME NEW i \in stressed PROVE excess[i] = 0 OBVIOUS
  <2>1. PICK u \in U : u = order[i] BY <1>3
  <2>2. PICK l \in Nat : l = limit[u] BY <1>c
  <2>3. PICK n \in Nat : n = use[u] /\ n <= l BY <1>c, <1>d, <2>2
  <2>4. excess[i] = AtLeast(0, n - l) BY <2>1, <2>2, <2>3
  <2>5. ~(0 < n - l) BY <2>2, <2>3
  <2> QED BY <2>4, <2>5, Zenon DEF AtLeast
<1>9. DOMAIN excess = stressed OBVIOUS
<1>10. SumOver(gives, slack) \in Nat BY <1>4, <1>7, SumNatural
<1>11. ASSUME NEW i \in 1..N
       PROVE  /\ i \in slack => given(i, order[i]) = limit[order[i]] - gives[i]
              /\ i \notin slack => given(i, order[i]) = limit[order[i]]
  <2>1. PICK l \in Nat : l = limit[order[i]] BY <1>2, <1>c
  <2>2. CASE i \notin slack
    <3> HIDE DEF slack, gives
    <3> QED BY <2>2, Zenon
  <2>3. CASE i \in slack
    <3>1. PICK g \in Nat : g = gives[i] /\ g <= l - base(order[i]) BY <1>7, <2>1, <2>3
    <3>2. PICK b \in Nat : b = base(order[i]) BY <1>2, <1>6
    <3> HIDE DEF slack, gives
    <3>3. CASE g > 0
      <4>1. given(i, order[i]) = AtLeast(l - g, b) BY <2>1, <2>3, <3>1, <3>2, <3>3, Zenon
      <4>2. AtLeast(l - g, b) = l - g
        <5>1. l - g \in Int /\ b <= l - g BY <2>1, <3>1, <3>2
        <5> QED BY <3>2, <5>1, LargerSmaller
      <4> HIDE DEF given
      <4> QED BY <2>1, <2>3, <3>1, <4>1, <4>2
    <3>4. CASE ~(g > 0)
      <4>1. given(i, order[i]) = l BY <2>1, <3>1, <3>4, Zenon
      <4>2. l = l - g BY <2>1, <3>1, <3>4
      <4> HIDE DEF given
      <4> QED BY <2>1, <2>3, <3>1, <4>1, <4>2
    <3> QED BY <3>3, <3>4
  <2> QED BY <2>2, <2>3
<1>12. ASSUME NEW i \in 1..N, i \in stressed => takes[i] \in Nat
       PROVE  /\ i \in stressed => /\ taken(i, order[i]) \in Nat
                                   /\ taken(i, order[i]) <= limit[order[i]] + takes[i]
                                   /\ limit[order[i]] + takes[i] <= cap[order[i]] =>
                                        taken(i, order[i]) = limit[order[i]] + takes[i]
              /\ i \notin stressed => taken(i, order[i]) = limit[order[i]]
  <2>1. PICK l \in Nat : l = limit[order[i]] BY <1>2, <1>c
  <2>2. PICK c \in Nat : c = cap[order[i]] BY <1>2, <1>c
  <2> HIDE DEF stressed, takes
  <2>3. CASE i \notin stressed BY <2>3, Zenon
  <2>4. CASE i \in stressed
    <3>1. PICK t \in Nat : t = takes[i] BY <1>12, <2>4
    <3>2. CASE t > 0
      <4>1. taken(i, order[i]) = AtMost(l + t, c) BY <2>1, <2>2, <2>4, <3>1, <3>2, Zenon
      <4>2. /\ AtMost(l + t, c) \in Nat /\ AtMost(l + t, c) <= l + t
            /\ l + t <= c => AtMost(l + t, c) = l + t
        <5>1. l + t \in Nat OBVIOUS
        <5> QED BY <5>1, LargerSmaller
      <4> HIDE DEF taken
      <4> QED BY <2>1, <2>2, <2>4, <3>1, <4>1, <4>2
    <3>3. CASE ~(t > 0)
      <4>1. taken(i, order[i]) = l BY <2>1, <3>1, <3>3, Zenon
      <4>2. l = l + t BY <2>1, <3>1, <3>3
      <4> HIDE DEF taken
      <4> QED BY <2>1, <2>2, <2>4, <3>1, <4>1, <4>2
    <3> QED BY <3>2, <3>3
  <2> QED BY <2>3, <2>4
<1> HIDE DEF given, taken, gives, excess
<1>13. CASE ~cascades
  <2>1. cs = <<>> BY <1>1, <1>13
  <2>2. cs \in Seq(Changes) /\ Moving(cs) = {} BY <2>1 DEF Moving
  <2>3. LeadsTo(cs, limit, own, limit) BY <1>2, <1>6, <2>2 DEF LeadsTo
  <2>4. own \in SUBSET U /\ IsFiniteSet(own)
    <3>1. own \in SUBSET U BY <1>3
    <3> QED BY <1>a, <3>1, FS_Subset
  <2>5. SumOver(limit, own) \in Nat BY <1>6, <2>4, SumNatural
  <2> HIDE DEF cs, own
  <2>6. TransferResult(U, cs, use, limit, floor, cap, own, limit)
    BY <1>d, <2>3, <2>5 DEF TransferResult
  <2> QED BY <2>2, <2>6
<1>14. CASE cascades
  <2>1. stressed # {}
    <3>1. CascadeMin \in Nat \ {0} BY RebalancerAssumption
    <3>2. stressed = {} => Cardinality(stressed) = 0 BY FS_EmptySet
    <3> QED BY <1>14, <3>1, <3>2
  <2> HIDE DEF stressed, slack, N, cascades
  <2>2. /\ \A i \in stressed : takes[i] \in Nat
        /\ SumOver(takes, stressed) = SumOver(gives, slack)
    <3>1. stressed \in SUBSET (1..N) BY <1>3
    <3> QED BY <1>2, <1>8, <1>9, <1>10, <2>1, <3>1, EvenShares
  <2> HIDE DEF takes
  <2>3. cs = down \o up BY <1>1, <1>14
  <2> DEFINE lim == [i \in among |-> limit[order[i]]]
             aft == [i \in among |-> IF i \in slack THEN given(i, order[i])
                                     ELSE IF i \in stressed THEN taken(i, order[i])
                                     ELSE limit[order[i]]]
             target == [u \in U |-> IF u \in own THEN aft[CHOOSE i \in among : order[i] = u]
                                    ELSE limit[u]]
  <2>4. ASSUME NEW i \in among
        PROVE  /\ lim[i] = limit[order[i]] /\ lim[i] \in Nat
               /\ i \in slack => aft[i] = given(i, order[i])
               /\ i \in stressed => aft[i] = taken(i, order[i])
               /\ i \notin slack \cup stressed => aft[i] = lim[i]
    <3>1. lim[i] = limit[order[i]] /\ lim[i] \in Nat BY <1>3, <1>c
    <3>2. i \in stressed => i \notin slack BY <1>5
    <3> QED BY <3>1, <3>2
  <2>5. \A i \in among : target[order[i]] = aft[i] /\ order[i] \in own
    <3> SUFFICES ASSUME NEW i \in among PROVE target[order[i]] = aft[i] /\ order[i] \in own
      OBVIOUS
    <3>1. order[i] \in own /\ order[i] \in U BY <1>3
    <3>2. (CHOOSE j \in among : order[j] = order[i]) = i BY <1>2, <1>3, <1>b
    <3> HIDE DEF aft
    <3> QED BY <3>1, <3>2
  <2>6. /\ DOMAIN target = U /\ own \in SUBSET U
        /\ \A u \in U : u \notin own => target[u] = limit[u]
        /\ target = [u \in U |-> target[u]]
    BY <1>3
  <2> HIDE DEF lim, aft, target, cs
  <2>7. \A i \in among : /\ aft[i] \in Nat
                         /\ i \in slack => aft[i] + gives[i] = lim[i] /\ base(order[i]) <= aft[i]
                         /\ i \in stressed => aft[i] <= lim[i] + takes[i]
    <3> SUFFICES ASSUME NEW i \in among
                 PROVE  /\ aft[i] \in Nat
                        /\ i \in slack => aft[i] + gives[i] = lim[i] /\ base(order[i]) <= aft[i]
                        /\ i \in stressed => aft[i] <= lim[i] + takes[i]
      OBVIOUS
    <3>1. i \in 1..N /\ order[i] \in U BY <1>3
    <3>2. PICK b \in Nat : b = base(order[i]) BY <1>6, <3>1
    <3>3. CASE i \in slack
      <4>1. i \notin stressed BY <1>5, <3>3
      <4>2. aft[i] = lim[i] - gives[i] BY <1>11, <2>4, <3>1, <3>3
      <4>3. lim[i] \in Nat /\ gives[i] \in Nat /\ gives[i] <= lim[i] - b
        BY <1>7, <2>4, <3>2, <3>3
      <4>4. aft[i] \in Nat /\ aft[i] + gives[i] = lim[i] /\ b <= aft[i] BY <4>2, <4>3
      <4> QED BY <3>2, <4>1, <4>4
    <3>4. CASE i \in stressed
      <4>1. i \notin slack BY <1>5, <3>4
      <4> QED BY <1>12, <2>2, <2>4, <3>1, <3>4, <4>1
    <3>5. CASE i \notin slack \cup stressed BY <2>4, <3>5
    <3> QED BY <3>3, <3>4, <3>5
  <2>8. /\ SumOver(aft, among) <= SumOver(lim, among)
        /\ (\A i \in stressed : aft[i] = lim[i] + takes[i]) =>
             SumOver(aft, among) = SumOver(lim, among)
        /\ SumOver(gives, slack) <= SumOver(lim, among)
    <3>1. /\ \A i \in among : lim[i] \in Nat /\ aft[i] \in Nat
          /\ \A i \in slack : gives[i] \in Nat /\ aft[i] + gives[i] = lim[i]
          /\ \A i \in stressed : takes[i] \in Nat /\ aft[i] <= lim[i] + takes[i]
          /\ \A i \in among \ (slack \cup stressed) : aft[i] = lim[i]
      BY <1>3, <1>7, <2>2, <2>4, <2>7
    <3> QED BY <1>3, <1>4, <1>5, <2>2, <3>1, MovesBalance
  <2>9. \A i, j \in among : order[i] = order[j] => i = j BY <1>b, <1>2, <1>3
  <2>10. SumOver(aft, among) = SumOver(target, own)
    <3>1. \A i \in among : aft[i] = target[order[i]] /\ aft[i] \in Nat BY <2>5, <2>7
    <3> QED BY <1>4, <2>9, <3>1, SumRenamed
  <2>11. SumOver(lim, among) = SumOver(limit, own)
    <3>1. \A i \in among : lim[i] = limit[order[i]] /\ lim[i] \in Nat BY <2>4
    <3> QED BY <1>4, <2>9, <3>1, SumRenamed
  <2>12. target \in [U -> Nat]
    <3>1. ASSUME NEW u \in U PROVE target[u] \in Nat
      <4>1. CASE u \in own
        <5>1. PICK i \in among : u = order[i] BY <4>1
        <5> QED BY <2>5, <2>7, <5>1
      <4>2. CASE u \notin own BY <1>6, <2>6, <4>2
      <4> QED BY <4>1, <4>2
    <3> QED BY <2>6, <3>1
  <2>13. ASSUME \A u \in U : limit[u] + SumOver(limit, U) <= cap[u]
         PROVE  /\ SumOver(target, own) = SumOver(limit, own)
                /\ \A u \in U : floor[u] <= target[u] /\ use[u] <= target[u]
    <3>1. PICK m \in Nat : m = SumOver(limit, U) BY <1>a, <1>6, SumNatural
    <3>2. SumOver(limit, own) <= m BY <1>a, <1>6, <2>6, <3>1, SumOfPart
    <3>3. PICK g \in Nat : g = SumOver(gives, slack) BY <1>10
    <3>4. PICK w \in Nat : w = SumOver(limit, own)
      <4>1. IsFiniteSet(own) /\ \A u \in own : limit[u] \in Nat BY <1>a, <1>6, <2>6, FS_Subset
      <4> QED BY <4>1, SumNatural
    <3>5. g <= w /\ w <= m BY <2>8, <2>11, <3>2, <3>3, <3>4
    <3>6. ASSUME NEW i \in stressed PROVE aft[i] = lim[i] + takes[i]
      <4>1. takes[i] <= g BY <1>4, <2>2, <3>3, SumHasMember
      <4>2. i \in among /\ i \in 1..N /\ order[i] \in U BY <1>3
      <4>3. PICK l \in Nat : l = limit[order[i]] BY <1>c, <4>2
      <4>4. PICK t \in Nat : t = takes[i] BY <2>2
      <4>5. PICK c \in Nat : c = cap[order[i]] BY <1>c, <4>2
      <4>6. l + m <= c BY <2>13, <3>1, <4>2, <4>3, <4>5
      <4>7. l + t <= c BY <3>5, <4>1, <4>4, <4>6
      <4>8. taken(i, order[i]) = l + t BY <1>12, <4>2, <4>3, <4>4, <4>5, <4>7
      <4> QED BY <2>4, <4>2, <4>3, <4>4, <4>8
    <3>7. SumOver(target, own) = SumOver(limit, own) BY <2>8, <2>10, <2>11, <3>6
    <3>8. ASSUME NEW u \in U PROVE floor[u] <= target[u] /\ use[u] <= target[u]
      <4>1. CASE u \in own
        <5>1. PICK i \in among : u = order[i] BY <4>1
        <5>2. base(u) <= aft[i]
          <6>1. PICK b \in Nat : b = base(u) /\ b <= limit[u] BY <1>6
          <6>2. limit[u] \in Nat /\ lim[i] = limit[u] BY <2>4, <5>1
          <6>3. CASE i \in slack BY <2>7, <5>1, <6>3
          <6>4. CASE i \in stressed
            <7>1. aft[i] = limit[u] + takes[i] /\ takes[i] \in Nat BY <2>2, <3>6, <6>2, <6>4
            <7> QED BY <6>1, <6>2, <7>1
          <6>5. CASE i \notin slack \cup stressed BY <2>4, <6>1, <6>2, <6>5
          <6> QED BY <6>3, <6>4, <6>5
        <5>3. target[u] = aft[i] /\ aft[i] \in Nat BY <2>5, <2>7, <5>1
        <5>4. PICK b \in Nat : b = base(u) /\ floor[u] <= b /\ use[u] <= b BY <1>6
        <5>5. floor[u] \in Nat /\ use[u] \in Nat BY <1>c
        <5> QED BY <5>2, <5>3, <5>4, <5>5
      <4>2. CASE u \notin own BY <1>d, <2>6, <4>2
      <4> QED BY <4>1, <4>2
    <3> QED BY <3>7, <3>8
  <2> DEFINE Given == [i \in 1..N |-> given(i, order[i])]
             Taken == [i \in 1..N |-> taken(i, order[i])]
  <2>14. \A i \in 1..N : /\ Given[i] = given(i, order[i]) /\ Taken[i] = taken(i, order[i])
                         /\ Given[i] \in Nat /\ Taken[i] \in Nat
                         /\ i \notin slack => Given[i] = limit[order[i]]
                         /\ i \notin stressed => Taken[i] = limit[order[i]]
    <3> SUFFICES ASSUME NEW i \in 1..N
                 PROVE  /\ given(i, order[i]) \in Nat /\ taken(i, order[i]) \in Nat
                        /\ i \notin slack => given(i, order[i]) = limit[order[i]]
                        /\ i \notin stressed => taken(i, order[i]) = limit[order[i]]
      OBVIOUS
    <3>1. limit[order[i]] \in Nat BY <1>2, <1>c
    <3>2. i \in slack => given(i, order[i]) \in Nat BY <1>3, <2>4, <2>7
    <3>3. i \in stressed => taken(i, order[i]) \in Nat BY <1>12, <2>2
    <3>4. i \notin stressed => taken(i, order[i]) = limit[order[i]] BY <1>12
    <3> QED BY <1>11, <3>1, <3>2, <3>3, <3>4
  <2> HIDE DEF Given, Taken
  <2>15. \A i \in 1..N :
           /\ down[i] = [unit |-> order[i], old |-> limit[order[i]], new |-> Given[i]]
           /\ up[i] = [unit |-> order[i], old |-> limit[order[i]], new |-> Taken[i]]
    BY <1>2, <2>14 DEF Change
  <2>16. DOMAIN down = 1..N /\ DOMAIN up = 1..N BY <1>2
  <2>17. down = [i \in 1..N |-> down[i]] /\ up = [i \in 1..N |-> up[i]] BY <1>2
  <2> HIDE DEF down, up
  <2>18. \A i \in 1..N : down[i] \in Changes /\ up[i] \in Changes
    <3> SUFFICES ASSUME NEW i \in 1..N PROVE down[i] \in Changes /\ up[i] \in Changes
      OBVIOUS
    <3>0. Given[i] \in Nat /\ Taken[i] \in Nat BY <2>14
    <3>1. order[i] \in U /\ limit[order[i]] \in Nat BY <1>2, <1>c
    <3>2. /\ [unit |-> order[i], old |-> limit[order[i]], new |-> Given[i]] \in Changes
          /\ [unit |-> order[i], old |-> limit[order[i]], new |-> Taken[i]] \in Changes
      BY <3>0, <3>1
    <3> HIDE DEF Changes
    <3> QED BY <2>15, <3>2, Zenon
  <2> HIDE DEF Changes
  <2>19. down \in Seq(Changes) /\ up \in Seq(Changes) /\ Len(down) = N /\ Len(up) = N
    <3>1. down \in [1..N -> Changes] /\ up \in [1..N -> Changes] BY <2>16, <2>17, <2>18
    <3>2. down \in Seq(Changes) /\ up \in Seq(Changes) BY <1>2, <3>1
    <3> QED BY <1>2, <2>16, <3>2
  <2>20. /\ cs \in Seq(Changes) /\ DOMAIN cs = 1..(N + N)
         /\ \A i \in 1..N : cs[i] = down[i] /\ cs[N + i] = up[i]
    <3>1. /\ down \o up \in Seq(Changes) /\ DOMAIN (down \o up) = 1..(N + N)
          /\ \A i \in 1..N : (down \o up)[i] = down[i] /\ (down \o up)[N + i] = up[i]
      BY <1>2, <2>19, TwoInARow
    <3> QED BY <2>3, <3>1, Zenon
  <2>21. LeadsTo(cs, limit, own, target)
    <3>1. /\ slack \in SUBSET (1..N) /\ stressed \in SUBSET (1..N) BY <1>3
    <3>2. \A i \in slack : order[i] \in own /\ target[order[i]] = Given[i]
      BY <1>3, <2>4, <2>5, <2>14
    <3>3. \A i \in stressed : order[i] \in own /\ target[order[i]] = Taken[i]
      BY <1>3, <2>4, <2>5, <2>14
    <3>4. ASSUME NEW u \in U, target[u] # limit[u]
          PROVE  \E i \in slack \cup stressed : order[i] = u
      <4>1. u \in own BY <2>6, <3>4
      <4>2. PICK i \in among : order[i] = u BY <4>1
      <4>3. aft[i] # lim[i] BY <2>4, <2>5, <3>4, <4>2
      <4> QED BY <2>4, <4>2, <4>3
    <3>5. \A i \in 1..N :
            /\ cs[i].unit = order[i] /\ cs[i].old = limit[order[i]] /\ cs[i].new = Given[i]
            /\ cs[N + i].unit = order[i] /\ cs[N + i].old = limit[order[i]]
            /\ cs[N + i].new = Taken[i]
      <4> SUFFICES ASSUME NEW i \in 1..N
                   PROVE  /\ cs[i].unit = order[i] /\ cs[i].old = limit[order[i]]
                          /\ cs[i].new = Given[i]
                          /\ cs[N + i].unit = order[i] /\ cs[N + i].old = limit[order[i]]
                          /\ cs[N + i].new = Taken[i]
        OBVIOUS
      <4>1. cs[i] = [unit |-> order[i], old |-> limit[order[i]], new |-> Given[i]]
        BY <2>15, <2>20, Zenon
      <4>2. cs[N + i] = [unit |-> order[i], old |-> limit[order[i]], new |-> Taken[i]]
        BY <2>15, <2>20, Zenon
      <4> QED BY <4>1, <4>2
    <3>6. order \in [1..N -> U] /\ limit \in [U -> Nat] /\ N \in Nat BY <1>2, <1>c
    <3>7. \A i \in 1..N : /\ i \notin slack => Given[i] = limit[order[i]]
                          /\ i \notin stressed => Taken[i] = limit[order[i]]
      BY <2>14
    <3> HIDE DEF own
    <3>8. ChangesSetting(U, N, order, limit, slack, stressed, Given, Taken, own, target, cs)
      BY <2>12, <2>20, <3>1, <3>2, <3>3, <3>4, <3>5, <3>6, <3>7 DEF ChangesSetting
    <3> QED BY <3>8, ChangesLead
  <2> HIDE DEF own
  <2>22. TransferResult(U, cs, use, limit, floor, cap, own, target)
    BY <2>8, <2>10, <2>11, <2>13, <2>21 DEF TransferResult
  <2> QED BY <2>20, <2>22
<1> QED BY <1>13, <1>14

\* What a flattening contains: the elements of its parts.
Flattens(g, seqs, n) ==
    g = [i \in 1..n |-> IF i = 1 THEN seqs[i] ELSE g[i - 1] \o seqs[i]]

LEMMA FlattenExists == ASSUME NEW seqs, NEW n \in Nat PROVE \E g : Flattens(g, seqs, n)
<1> DEFINE F == {k \in Nat : \E g : Flattens(g, seqs, k)}
<1>1. 0 \in F
  <2>1. 1..0 = {} OBVIOUS
  <2> DEFINE g == [i \in {} |-> i]
  <2>2. Flattens(g, seqs, 0) BY <2>1 DEF Flattens
  <2> HIDE DEF g
  <2> QED BY <2>2
<1>2. ASSUME NEW k \in Nat, k \in F PROVE k + 1 \in F
  <2>0. PICK g : Flattens(g, seqs, k) BY <1>2
  <2>1. g = [i \in 1..k |-> IF i = 1 THEN seqs[i] ELSE g[i - 1] \o seqs[i]] BY <2>0 DEF Flattens
  <2> DEFINE h == [i \in 1..(k + 1) |->
                     IF i = k + 1 THEN IF i = 1 THEN seqs[i] ELSE g[i - 1] \o seqs[i]
                     ELSE g[i]]
  <2>2. \A i \in 1..k : i \in 1..(k + 1) /\ i # k + 1 /\ h[i] = g[i] OBVIOUS
  <2>3. DOMAIN h = 1..(k + 1) /\ h = [i \in 1..(k + 1) |-> h[i]] OBVIOUS
  <2>4. h[k + 1] = IF k + 1 = 1 THEN seqs[k + 1] ELSE g[(k + 1) - 1] \o seqs[k + 1] OBVIOUS
  <2> HIDE DEF h
  <2>5. ASSUME NEW i \in 1..(k + 1)
        PROVE  h[i] = IF i = 1 THEN seqs[i] ELSE h[i - 1] \o seqs[i]
    <3>1. CASE i = 1
      <4>1. CASE k = 0 BY <2>4, <3>1, <4>1
      <4>2. CASE k # 0
        <5>1. 1 \in 1..k BY <4>2
        <5>2. g[1] = seqs[1] BY <2>1, <5>1
        <5> QED BY <2>2, <3>1, <5>1, <5>2
      <4> QED BY <4>1, <4>2
    <3>2. CASE i # 1 /\ i = k + 1
      <4>1. i - 1 \in 1..k BY <3>2
      <4>2. h[i - 1] = g[i - 1] BY <2>2, <4>1
      <4>3. h[i] = g[i - 1] \o seqs[i] BY <2>4, <3>2
      <4> QED BY <3>2, <4>2, <4>3, Zenon
    <3>3. CASE i # 1 /\ i # k + 1
      <4>1. i \in 1..k /\ i - 1 \in 1..k BY <3>3
      <4>2. h[i - 1] = g[i - 1] /\ h[i] = g[i] BY <2>2, <4>1
      <4>3. g[i] = g[i - 1] \o seqs[i] BY <2>1, <3>3, <4>1
      <4> QED BY <3>3, <4>2, <4>3, Zenon
    <3> QED BY <3>1, <3>2, <3>3
  <2>6. h = [i \in 1..(k + 1) |-> IF i = 1 THEN seqs[i] ELSE h[i - 1] \o seqs[i]]
    BY <2>3, <2>5, Zenon
  <2>7. Flattens(h, seqs, k + 1) BY <2>6 DEF Flattens
  <2>8. k + 1 \in Nat OBVIOUS
  <2> QED BY <2>7, <2>8
<1> HIDE DEF F
<1>3. \A k \in Nat : k \in F BY <1>1, <1>2, NumberInduction
<1> QED BY <1>3 DEF F

Holds(s, c) == \E i \in DOMAIN s : s[i] = c

LEMMA FlattenedHolds ==
    ASSUME NEW C, NEW n \in Nat, NEW seqs, seqs \in [1..n -> Seq(C)]
    PROVE  /\ FlattenSeq(seqs) \in Seq(C)
           /\ \A c : Holds(FlattenSeq(seqs), c) <=> \E p \in 1..n : Holds(seqs[p], c)
<1>1. seqs \in Seq(Seq(C)) /\ Len(seqs) = n OBVIOUS
<1>2. CASE n = 0
  <2>1. FlattenSeq(seqs) = seqs BY <1>1, <1>2 DEF FlattenSeq
  <2>2. DOMAIN seqs = {} /\ seqs = <<>> /\ 1..n = {} BY <1>1, <1>2
  <2>3. seqs \in Seq(C) BY <2>2
  <2> QED BY <2>1, <2>2, <2>3, Zenon DEF Holds
<1>3. CASE n # 0
  <2> DEFINE flat == CHOOSE g : Flattens(g, seqs, n)
  <2>1. FlattenSeq(seqs) = flat[n] BY <1>1, <1>3 DEF FlattenSeq, Flattens
  <2>2. Flattens(flat, seqs, n) BY FlattenExists
  <2> HIDE DEF flat
  <2>3. flat[1] = seqs[1] /\ \A i \in 1..n : i # 1 => flat[i] = flat[i - 1] \o seqs[i]
    <3>1. \A i \in 1..n : flat[i] = IF i = 1 THEN seqs[i] ELSE flat[i - 1] \o seqs[i]
      BY <2>2, Zenon DEF Flattens
    <3>2. 1 \in 1..n BY <1>3
    <3> QED BY <3>1, <3>2, Zenon
  <2> DEFINE F == {k \in Nat : k + 1 \in 1..n =>
                     /\ flat[k + 1] \in Seq(C)
                     /\ \A c : Holds(flat[k + 1], c) <=>
                                 \E p \in 1..(k + 1) : Holds(seqs[p], c)}
  <2>4. 0 \in F
    <3>1. 1 \in 1..n /\ seqs[1] \in Seq(C) BY <1>3
    <3>2. 1..1 = {1} OBVIOUS
    <3> QED BY <2>3, <3>1, <3>2
  <2>5. ASSUME NEW k \in Nat, k \in F PROVE k + 1 \in F
    <3> SUFFICES ASSUME (k + 1) + 1 \in 1..n
                 PROVE  /\ flat[(k + 1) + 1] \in Seq(C)
                        /\ \A c : Holds(flat[(k + 1) + 1], c) <=>
                                    \E p \in 1..((k + 1) + 1) : Holds(seqs[p], c)
      OBVIOUS
    <3>1. PICK m \in Nat : m = k + 1 /\ m \in 1..n /\ m + 1 \in 1..n OBVIOUS
    <3>2. /\ flat[m] \in Seq(C)
          /\ \A c : Holds(flat[m], c) <=> \E p \in 1..m : Holds(seqs[p], c)
      BY <2>5, <3>1
    <3>3. flat[m + 1] = flat[m] \o seqs[m + 1]
      <4>1. m + 1 # 1 /\ (m + 1) - 1 = m BY <3>1
      <4> QED BY <2>3, <3>1, <4>1, Zenon
    <3>4. seqs[m + 1] \in Seq(C) BY <3>1
    <3>5. /\ flat[m] \o seqs[m + 1] \in Seq(C)
          /\ \A c : Holds(flat[m] \o seqs[m + 1], c) <=>
                      Holds(flat[m], c) \/ Holds(seqs[m + 1], c)
      <4> DEFINE a == flat[m]
                 b == seqs[m + 1]
      <4>1. a \in Seq(C) /\ b \in Seq(C) BY <3>2, <3>4
      <4> HIDE DEF a, b
      <4>2. /\ a \o b \in Seq(C) /\ DOMAIN (a \o b) = 1..(Len(a) + Len(b))
            /\ Len(a) \in Nat /\ Len(b) \in Nat
            /\ DOMAIN a = 1..Len(a) /\ DOMAIN b = 1..Len(b)
        BY <4>1
      <4>3. ASSUME NEW c, Holds(a \o b, c) PROVE Holds(a, c) \/ Holds(b, c)
        <5>1. PICK i \in 1..(Len(a) + Len(b)) : (a \o b)[i] = c BY <4>2, <4>3 DEF Holds
        <5>2. CASE i <= Len(a)
          <6>1. i \in 1..Len(a) /\ a[i] = c BY <4>1, <4>2, <5>1, <5>2
          <6> QED BY <4>2, <6>1 DEF Holds
        <5>3. CASE ~(i <= Len(a))
          <6>1. i - Len(a) \in 1..Len(b) /\ b[i - Len(a)] = c BY <4>1, <4>2, <5>1, <5>3
          <6> QED BY <4>2, <6>1 DEF Holds
        <5> QED BY <5>2, <5>3
      <4>4. ASSUME NEW c, Holds(a, c) PROVE Holds(a \o b, c)
        <5>1. PICK i \in 1..Len(a) : a[i] = c BY <4>2, <4>4 DEF Holds
        <5>2. i \in 1..(Len(a) + Len(b)) /\ (a \o b)[i] = c BY <4>1, <4>2, <5>1
        <5> QED BY <4>2, <5>2 DEF Holds
      <4>5. ASSUME NEW c, Holds(b, c) PROVE Holds(a \o b, c)
        <5>1. PICK i \in 1..Len(b) : b[i] = c BY <4>2, <4>5 DEF Holds
        <5>2. Len(a) + i \in 1..(Len(a) + Len(b)) /\ (a \o b)[Len(a) + i] = c
          BY <4>1, <4>2, <5>1
        <5> QED BY <4>2, <5>2 DEF Holds
      <4>6. /\ a \o b \in Seq(C)
            /\ \A c : Holds(a \o b, c) <=> Holds(a, c) \/ Holds(b, c)
        BY <4>2, <4>3, <4>4, <4>5
      <4> QED BY <4>6 DEF a, b
    <3>6. 1..(m + 1) = (1..m) \cup {m + 1} OBVIOUS
    <3>7. /\ flat[m + 1] \in Seq(C)
          /\ \A c : Holds(flat[m + 1], c) <=> \E p \in 1..(m + 1) : Holds(seqs[p], c)
      BY <3>2, <3>3, <3>5, <3>6, Zenon
    <3> QED BY <3>1, <3>7, Zenon
  <2> HIDE DEF F
  <2>6. \A k \in Nat : k \in F BY <2>4, <2>5, NumberInduction
  <2>7. n - 1 \in F /\ (n - 1) + 1 = n /\ n \in 1..n
    <3>1. n - 1 \in Nat BY <1>3
    <3> QED BY <1>3, <2>6, <3>1
  <2>8. /\ flat[n] \in Seq(C)
        /\ \A c : Holds(flat[n], c) <=> \E p \in 1..n : Holds(seqs[p], c)
    BY <2>7, Zenon DEF F
  <2> QED BY <2>1, <2>8, Zenon
<1> QED BY <1>2, <1>3

\* What landed takes each limit there or leaves it; all the shrinks landed or no growth
\* did (apply).
LEMMA LandedWithin ==
    ASSUME NEW U, NEW limit \in [U -> Nat], NEW own, NEW target, NEW cs, NEW acc,
           LeadsTo(cs, limit, own, target)
    PROVE  LET new == Adjusted(limit, cs, Landed(cs, acc))
           IN  /\ \A u \in U : new[u] \in {limit[u], target[u]} /\ new[u] \in Nat
               /\ (\A u \in U : new[u] <= target[u]) \/ (\A u \in U : new[u] <= limit[u])
               /\ Landed(cs, acc) = Moving(cs) => \A u \in U : new[u] = target[u]
<1> DEFINE landed == Landed(cs, acc)
           new == Adjusted(limit, cs, landed)
<1>1. /\ \A u \in U : limit[u] \in Nat /\ target[u] \in Nat
      /\ \A i \in Moving(cs) : /\ cs[i].unit \in U /\ cs[i].old = limit[cs[i].unit]
                               /\ cs[i].new = target[cs[i].unit]
      /\ \A u \in U : target[u] # limit[u] => \E i \in Moving(cs) : cs[i].unit = u
  BY DEF LeadsTo
<1>2. landed \in SUBSET Moving(cs) BY DEF Landed
<1> HIDE DEF landed
<1>3. \A u \in U : \/ new[u] = target[u] /\ \E i \in landed : cs[i].unit = u
                   \/ new[u] = limit[u] /\ ~\E i \in landed : cs[i].unit = u
  <2> SUFFICES ASSUME NEW u \in U
               PROVE  \/ new[u] = target[u] /\ \E i \in landed : cs[i].unit = u
                      \/ new[u] = limit[u] /\ ~\E i \in landed : cs[i].unit = u
    OBVIOUS
  <2>1. new[u] = IF \E i \in landed : cs[i].unit = u
                   THEN cs[CHOOSE i \in landed : cs[i].unit = u].new ELSE limit[u]
    BY DEF Adjusted
  <2> HIDE DEF new
  <2>2. CASE \E i \in landed : cs[i].unit = u
    <3>1. PICK i \in landed : i = (CHOOSE j \in landed : cs[j].unit = u) /\ cs[i].unit = u BY <2>2
    <3>2. new[u] = cs[i].new BY <2>1, <2>2, <3>1
    <3> QED BY <1>1, <1>2, <2>2, <3>1, <3>2
  <2>3. CASE ~\E i \in landed : cs[i].unit = u BY <2>1, <2>3
  <2> QED BY <2>2, <2>3
<1> HIDE DEF new
<1>4. \A u \in U : new[u] \in {limit[u], target[u]} /\ new[u] \in Nat BY <1>1, <1>3
<1>5. (\A u \in U : new[u] <= target[u]) \/ (\A u \in U : new[u] <= limit[u])
  <2>1. CASE \E i \in landed : ~Shrinks(cs[i])
    <3>1. PICK i \in landed : ~Shrinks(cs[i]) BY <2>1
    <3>2. \A k \in Moving(cs) : Earlier(cs, k, i) => k \in acc BY <3>1 DEF landed, Landed
    <3>3. \A k \in Moving(cs) : Shrinks(cs[k]) => k \in acc BY <3>1, <3>2 DEF Earlier
    <3>4. \A j \in Moving(cs) : Shrinks(cs[j]) => j \in landed
      <4> SUFFICES ASSUME NEW j \in Moving(cs), Shrinks(cs[j]) PROVE j \in landed OBVIOUS
      <4>1. \A k \in Moving(cs) : Earlier(cs, k, j) => k \in acc BY <3>3 DEF Earlier
      <4> QED BY <3>3, <4>1 DEF landed, Landed
    <3>5. ASSUME NEW u \in U PROVE new[u] <= target[u]
      <4>1. limit[u] \in Nat /\ target[u] \in Nat BY <1>1
      <4>2. CASE target[u] < limit[u]
        <5>1. target[u] # limit[u] BY <4>1, <4>2
        <5>2. PICK j \in Moving(cs) : cs[j].unit = u BY <1>1, <5>1
        <5>3. Shrinks(cs[j]) BY <1>1, <4>2, <5>2 DEF Shrinks
        <5>4. new[u] = target[u] BY <1>3, <3>4, <5>2, <5>3
        <5> QED BY <4>1, <5>4
      <4>3. CASE ~(target[u] < limit[u])
        <5>1. new[u] = limit[u] \/ new[u] = target[u] BY <1>4
        <5> QED BY <4>1, <4>3, <5>1
      <4> QED BY <4>2, <4>3
    <3> QED BY <3>5
  <2>2. CASE ~\E i \in landed : ~Shrinks(cs[i])
    <3>1. ASSUME NEW u \in U PROVE new[u] <= limit[u]
      <4>1. limit[u] \in Nat /\ target[u] \in Nat BY <1>1
      <4>2. CASE \E i \in landed : cs[i].unit = u
        <5>1. PICK i \in landed : cs[i].unit = u BY <4>2
        <5>2. cs[i].new < cs[i].old BY <2>2 DEF Shrinks
        <5>3. new[u] = target[u] BY <1>3, <4>2
        <5>4. cs[i].new = target[u] /\ cs[i].old = limit[u] BY <1>1, <1>2, <5>1
        <5> QED BY <4>1, <5>2, <5>3, <5>4
      <4>3. CASE ~\E i \in landed : cs[i].unit = u
        <5>1. new[u] = limit[u] BY <1>3, <4>3
        <5> QED BY <4>1, <5>1
      <4> QED BY <4>2, <4>3
    <3> QED BY <3>1
  <2> QED BY <2>1, <2>2
<1>6. ASSUME landed = Moving(cs), NEW u \in U PROVE new[u] = target[u]
  BY <1>1, <1>3, <1>6
<1> QED BY <1>4, <1>5, <1>6 DEF new, landed

\* The ceilings after a fresh rebalance, whichever of its changes are accepted.
LEMMA CeilingsNotGrown ==
    ASSUME Inv, NEW acc
    PROVE  SumOver(Adjusted(ceiling, CeilingChanges, Landed(CeilingChanges, acc)), Pool)
             <= SumOver(ceiling, Pool)
<1> DEFINE cap == [p \in Pool |-> MaxForPool(p)]
           own == {Pools[i] : i \in DOMAIN Pools}
           cs == CeilingChanges
           new == Adjusted(ceiling, cs, Landed(cs, acc))
<1>1. ceiling \in [Pool -> Nat] /\ IsFiniteSet(Pool) BY FinitelyMany DEF Inv, TypeOK
<1>2. cap \in [Pool -> Nat]
  <2> SUFFICES ASSUME NEW p \in Pool PROVE MaxForPool(p) \in Nat OBVIOUS
  <2>1. OthersReserved(p) \in Nat BY FinitelyMany
  <2>2. Reserved[p] \in Nat /\ Reserved[p] <= MaxForPool(p) /\ Total \in Nat
    BY CapacityAssumption
  <2>3. MaxForPool(p) = Total - OthersReserved(p) BY DEF MaxForPool
  <2> QED BY <2>1, <2>2, <2>3
<1>3. own = Pool BY DEF Pool
<1>4. TransferSetting(Pool, Pools, DOMAIN Pools, inPool, ceiling, Reserved, cap)
  <2>1. /\ Pools \in Seq(Pool) /\ Reserved \in [Pool -> Nat]
        /\ \A i, j \in DOMAIN Pools : Pools[i] = Pools[j] => i = j
    BY CapacityAssumption
  <2>2. inPool \in [Pool -> Nat] /\ \A p \in Pool : Reserved[p] <= ceiling[p] /\ inPool[p] <= ceiling[p]
    BY DEF Inv, TypeOK, NoRetroactiveOvercommit
  <2> HIDE DEF cap
  <2> QED BY <1>1, <1>2, <2>1, <2>2 DEF TransferSetting
<1>5. cs = Transfer(Pools, DOMAIN Pools, inPool, ceiling, Reserved, cap) BY DEF CeilingChanges
<1> HIDE DEF cap, own, cs
<1>6. PICK target : TransferResult(Pool, cs, inPool, ceiling, Reserved, cap, own, target)
  BY <1>4, <1>5, TransferMoves DEF own
<1>7. LeadsTo(cs, ceiling, own, target) /\ SumOver(target, Pool) <= SumOver(ceiling, Pool)
  BY <1>3, <1>6 DEF TransferResult
<1>8. /\ \A p \in Pool : new[p] \in Nat
      /\ (\A p \in Pool : new[p] <= target[p]) \/ (\A p \in Pool : new[p] <= ceiling[p])
  BY <1>1, <1>7, LandedWithin
<1> HIDE DEF new
<1>9. \A p \in Pool : target[p] \in Nat /\ ceiling[p] \in Nat BY <1>1, <1>7 DEF LeadsTo
<1>10. SumOver(new, Pool) \in Nat /\ SumOver(target, Pool) \in Nat /\ SumOver(ceiling, Pool) \in Nat
  BY <1>1, <1>8, <1>9, SumNatural
<1>11. CASE \A p \in Pool : new[p] <= target[p]
  <2>1. SumOver(new, Pool) <= SumOver(target, Pool) BY <1>1, <1>8, <1>9, <1>11, SumBounds
  <2>2. SumOver(new, Pool) <= SumOver(ceiling, Pool) BY <1>7, <1>10, <2>1
  <2> QED BY <2>2 DEF new, cs
<1>12. CASE \A p \in Pool : new[p] <= ceiling[p]
  <2>1. SumOver(new, Pool) <= SumOver(ceiling, Pool) BY <1>1, <1>8, <1>9, <1>12, SumBounds
  <2> QED BY <2>1 DEF new, cs
<1> QED BY <1>8, <1>11, <1>12

Tenants(pool) == {k \in Key : k[1] = pool}

\* Where the bursts of a fresh rebalance lead: to what the tenants of each pool had
\* together, and to nothing adjust_tenant_burst refuses.
LEMMA BurstsLead ==
    ASSUME Inv
    PROVE  \E target :
             /\ LeadsTo(BurstChanges, burst, Key, target)
             /\ \A p \in Pool : SumOver(target, Tenants(p)) = SumOver(burst, Tenants(p))
             /\ \A k \in Key : Reserve[k] <= target[k] /\ inTenant[k] <= target[k]
<1> DEFINE n == Len(Pools)
           changes(p) == Transfer(Budgets, PoolBudgets(Pools[p]), inTenant, burst, Reserve, Uncapped)
           parts == [p \in DOMAIN Pools |-> changes(p)]
           Changes == [unit : Key, old : Nat, new : Nat]
           Result(p, t) == TransferResult(Key, parts[p], inTenant, burst, Reserve, Uncapped,
                                          Tenants(Pools[p]), t)
           aim(p) == CHOOSE t : Result(p, t)
           at(k) == CHOOSE p \in 1..n : Pools[p] = k[1]
           target == [k \in Key |-> aim(at(k))[k]]
<1>1. /\ burst \in [Key -> Nat] /\ inTenant \in [Key -> Nat] /\ IsFiniteSet(Key)
      /\ \A k \in Key : Reserve[k] <= burst[k] /\ inTenant[k] <= burst[k]
  BY FinitelyMany DEF Inv, TypeOK, NoRetroactiveOvercommit
<1>2. n \in Nat /\ DOMAIN Pools = 1..n /\ \A i \in 1..n : Pools[i] \in Pool
  BY CapacityAssumption DEF Pool
<1>3. /\ Uncapped \in [Key -> Nat]
      /\ \A k \in Key : burst[k] + SumOver(burst, Key) <= Uncapped[k]
  <2>1. PICK m \in Nat : m = SumOver(burst, Key) BY <1>1, SumNatural
  <2>2. Uncapped = [k \in Key |-> burst[k] + m] BY <2>1 DEF Uncapped
  <2> QED BY <1>1, <2>1, <2>2
<1>4. ASSUME NEW p \in 1..n
      PROVE  parts[p] \in Seq(Changes) /\ \E t : Result(p, t)
  <2>1. TransferSetting(Key, Budgets, PoolBudgets(Pools[p]), inTenant, burst, Reserve, Uncapped)
    <3>1. /\ Budgets \in Seq(Key) /\ Reserve \in [Key -> Nat]
          /\ \A i, j \in DOMAIN Budgets : Budgets[i] = Budgets[j] => i = j
      BY CapacityAssumption
    <3>2. PoolBudgets(Pools[p]) \in SUBSET DOMAIN Budgets BY DEF PoolBudgets
    <3> QED BY <1>1, <1>3, <3>1, <3>2 DEF TransferSetting
  <2>2. {Budgets[i] : i \in PoolBudgets(Pools[p])} = Tenants(Pools[p])
    BY DEF PoolBudgets, Tenants, Key
  <2>3. parts[p] = changes(p) BY <1>2
  <2>4. /\ changes(p) \in Seq(Changes)
        /\ \E t : TransferResult(Key, changes(p), inTenant, burst, Reserve, Uncapped,
                                 {Budgets[i] : i \in PoolBudgets(Pools[p])}, t)
    BY <2>1, TransferMoves
  <2> HIDE DEF parts, changes, Changes
  <2> QED BY <2>2, <2>3, <2>4
<1>5. ASSUME NEW p \in 1..n
      PROVE  /\ LeadsTo(parts[p], burst, Tenants(Pools[p]), aim(p))
             /\ SumOver(aim(p), Tenants(Pools[p])) = SumOver(burst, Tenants(Pools[p]))
             /\ \A k \in Key : Reserve[k] <= aim(p)[k] /\ inTenant[k] <= aim(p)[k]
  <2> HIDE DEF Result, parts
  <2>1. Result(p, aim(p)) BY <1>4
  <2> HIDE DEF aim
  <2> QED BY <1>3, <2>1 DEF Result, TransferResult
<1>6. ASSUME NEW p \in 1..n, NEW k \in Key, k[1] = Pools[p] PROVE at(k) = p
  <2>1. \A i, j \in 1..n : Pools[i] = Pools[j] => i = j BY <1>2, CapacityAssumption
  <2> QED BY <1>6, <2>1
<1>7. \A k \in Key : at(k) \in 1..n /\ Pools[at(k)] = k[1]
  <2> SUFFICES ASSUME NEW k \in Key PROVE at(k) \in 1..n /\ Pools[at(k)] = k[1] OBVIOUS
  <2>1. k[1] \in Pool BY CapacityAssumption
  <2>2. \E p \in 1..n : Pools[p] = k[1] BY <1>2, <2>1 DEF Pool
  <2> QED BY <2>2
<1> HIDE DEF aim, at, parts, Result, n
<1>8. \A p \in 1..n : \A k \in Tenants(Pools[p]) : target[k] = aim(p)[k]
  BY <1>6 DEF Tenants
<1>9. \A k \in Key : target[k] = aim(at(k))[k] /\ k \in Tenants(Pools[at(k)])
  BY <1>7 DEF Tenants
<1>10. DOMAIN target = Key OBVIOUS
<1> HIDE DEF target
<1>11. \A k \in Key : /\ target[k] \in Nat
                      /\ Reserve[k] <= target[k] /\ inTenant[k] <= target[k]
  <2> SUFFICES ASSUME NEW k \in Key
               PROVE  /\ target[k] \in Nat
                      /\ Reserve[k] <= target[k] /\ inTenant[k] <= target[k]
    OBVIOUS
  <2>1. PICK p \in 1..n : p = at(k) BY <1>7
  <2>2. target[k] = aim(p)[k] BY <1>9, <2>1
  <2>3. /\ aim(p)[k] \in Nat
        /\ Reserve[k] <= aim(p)[k] /\ inTenant[k] <= aim(p)[k]
    BY <1>1, <1>5 DEF LeadsTo
  <2> QED BY <2>2, <2>3
<1>12. \A p \in Pool : SumOver(target, Tenants(p)) = SumOver(burst, Tenants(p))
  <2> SUFFICES ASSUME NEW p \in Pool
               PROVE  SumOver(target, Tenants(p)) = SumOver(burst, Tenants(p))
    OBVIOUS
  <2>1. PICK i \in 1..n : Pools[i] = p BY <1>2 DEF Pool
  <2>2. SumOver(target, Tenants(p)) = SumOver(aim(i), Tenants(p)) BY <1>8, <2>1, SumSame
  <2> QED BY <1>5, <2>1, <2>2
<1>13. /\ BurstChanges \in Seq(Changes)
       /\ \A c : Holds(BurstChanges, c) <=> \E p \in 1..n : Holds(parts[p], c)
  <2>1. BurstChanges = FlattenSeq(parts) BY DEF BurstChanges, parts
  <2>2. parts \in [1..n -> Seq(Changes)]
    <3>1. parts = [p \in 1..n |-> parts[p]] BY <1>2 DEF parts
    <3> HIDE DEF Changes
    <3> QED BY <1>4, <3>1
  <2> HIDE DEF Changes
  <2> QED BY <1>2, <2>1, <2>2, FlattenedHolds
<1>14. ASSUME NEW i \in Moving(BurstChanges)
       PROVE  LET c == BurstChanges[i]
              IN  /\ c.unit \in Key /\ c.old = burst[c.unit] /\ c.new = target[c.unit]
  <2>1. PICK c : c = BurstChanges[i] OBVIOUS
  <2>2. Holds(BurstChanges, c) /\ c.new # c.old BY <2>1 DEF Holds, Moving
  <2>3. PICK p \in 1..n : Holds(parts[p], c) BY <1>13, <2>2
  <2>4. PICK j \in DOMAIN parts[p] : parts[p][j] = c BY <2>3 DEF Holds
  <2>5. j \in Moving(parts[p]) BY <2>2, <2>4 DEF Moving
  <2>6. LeadsTo(parts[p], burst, Tenants(Pools[p]), aim(p)) BY <1>5
  <2>7. /\ c.unit \in Tenants(Pools[p]) /\ c.unit \in DOMAIN burst
        /\ c.old = burst[c.unit] /\ c.new = aim(p)[c.unit]
    BY <2>4, <2>5, <2>6 DEF LeadsTo
  <2> QED BY <1>1, <1>8, <2>1, <2>7
<1>15. ASSUME NEW k \in Key, target[k] # burst[k]
       PROVE  \E i \in Moving(BurstChanges) : BurstChanges[i].unit = k
  <2>1. PICK p \in 1..n : p = at(k) BY <1>7
  <2>2. aim(p)[k] # burst[k] BY <1>9, <1>15, <2>1
  <2>3. LeadsTo(parts[p], burst, Tenants(Pools[p]), aim(p)) BY <1>5
  <2>4. PICK j \in Moving(parts[p]) : parts[p][j].unit = k BY <1>1, <2>2, <2>3 DEF LeadsTo
  <2>5. PICK c : c = parts[p][j] OBVIOUS
  <2>6. Holds(parts[p], c) /\ c.new # c.old BY <2>5 DEF Moving, Holds
  <2>7. Holds(BurstChanges, c) BY <1>13, <2>6
  <2>8. PICK i \in DOMAIN BurstChanges : BurstChanges[i] = c BY <2>7 DEF Holds
  <2>9. i \in Moving(BurstChanges) BY <2>6, <2>8 DEF Moving
  <2> QED BY <2>4, <2>5, <2>8, <2>9
<1>16. LeadsTo(BurstChanges, burst, Key, target)
  BY <1>1, <1>10, <1>11, <1>14, <1>15 DEF LeadsTo
<1> QED BY <1>11, <1>12, <1>16

\* For any pools, budgets, thresholds and loads: evaluating and applying in one call
\* never raises the ceilings together, and leaves the bursts of each pool's tenants
\* together as they were, whichever changes the controller refuses
\* (evaluate_and_apply, _allocate_transfer, apply).
THEOREM RebalanceConserves == Spec => TransferConserves
<1>1. ASSUME Inv, EvaluateAndApply
      PROVE  /\ SumOver(ceiling', Pool) <= SumOver(ceiling, Pool)
             /\ \A pool \in Pool :
                  LET own == {k \in Key : k[1] = pool}
                  IN  SumOver(burst', own) = SumOver(burst, own)
  <2> DEFINE cs == CeilingChanges
             bs == BurstChanges
             landed == Landed(cs, {i \in DOMAIN cs : CeilingAccepted(cs[i])})
             accepted == {i \in DOMAIN bs : BurstAccepted(bs[i])}
  <2>1. /\ ceiling' = Adjusted(ceiling, cs, landed)
        /\ burst' = IF landed = Moving(cs) THEN Adjusted(burst, bs, Landed(bs, accepted))
                    ELSE burst
    BY <1>1 DEF EvaluateAndApply, Apply, Decision
  <2>2. SumOver(ceiling', Pool) <= SumOver(ceiling, Pool) BY <1>1, <2>1, CeilingsNotGrown
  <2>3. PICK target :
          /\ LeadsTo(bs, burst, Key, target)
          /\ \A p \in Pool : SumOver(target, Tenants(p)) = SumOver(burst, Tenants(p))
          /\ \A k \in Key : Reserve[k] <= target[k] /\ inTenant[k] <= target[k]
    BY <1>1, BurstsLead
  <2> HIDE DEF cs, bs, landed
  <2>4. burst \in [Key -> Nat] BY <1>1 DEF Inv, TypeOK
  <2>5. Landed(bs, accepted) = Moving(bs)
    <3>1. \A i \in Moving(bs) : i \in accepted
      <4> SUFFICES ASSUME NEW i \in Moving(bs) PROVE i \in accepted OBVIOUS
      <4>1. bs[i].unit \in Key /\ bs[i].new = target[bs[i].unit] /\ target[bs[i].unit] \in Nat
        BY <2>3, <2>4 DEF LeadsTo
      <4>2. i \in DOMAIN bs BY DEF Moving
      <4> QED BY <2>3, <4>1, <4>2 DEF BurstAccepted
    <3> HIDE DEF accepted
    <3> QED BY <3>1 DEF Landed
  <2> HIDE DEF accepted
  <2>6. ASSUME NEW p \in Pool PROVE SumOver(burst', Tenants(p)) = SumOver(burst, Tenants(p))
    <3>1. CASE landed = Moving(cs)
      <4>1. burst' = Adjusted(burst, bs, Landed(bs, accepted)) BY <2>1, <3>1
      <4>2. \A k \in Key : Adjusted(burst, bs, Landed(bs, accepted))[k] = target[k]
        BY <2>3, <2>4, <2>5, LandedWithin
      <4>3. \A k \in Tenants(p) : burst'[k] = target[k] BY <4>1, <4>2 DEF Tenants
      <4>4. SumOver(burst', Tenants(p)) = SumOver(target, Tenants(p)) BY <4>3, SumSame
      <4> QED BY <2>3, <4>4
    <3>2. CASE landed # Moving(cs)
      <4>1. burst' = burst BY <2>1, <3>2
      <4> QED BY <4>1
    <3> QED BY <3>1, <3>2
  <2> QED BY <2>2, <2>6 DEF Tenants
<1>2. Inv /\ [Next]_vars =>
        [EvaluateAndApply =>
           /\ SumOver(ceiling', Pool) <= SumOver(ceiling, Pool)
           /\ \A pool \in Pool :
                LET own == {k \in Key : k[1] = pool}
                IN  SumOver(burst', own) = SumOver(burst, own)]_vars
  BY <1>1
<1> QED BY <1>2, InitHolds, NextKeeps, PTL DEF Spec, TransferConserves

-----------------------------------------------------------------------------
(* The rate limiter *)

\* A set of numbers that has a bound has a greatest one.
LEMMA GreatestNatural ==
    ASSUME NEW N \in SUBSET Nat, N # {}, NEW top \in Nat, \A x \in N : x <= top
    PROVE  \E x \in N : \A y \in N : x >= y
<1> DEFINE M == {top - x : x \in N}
<1>0. PICK x0 \in N : TRUE OBVIOUS
<1>1. M \in SUBSET Nat /\ M # {}
  <2>1. top - x0 \in M OBVIOUS
  <2>2. \A x \in N : top - x \in Nat OBVIOUS
  <2> QED BY <2>1, <2>2
<1>2. (\A y \in N : top - y \in M) /\ (\A z \in M : \E x \in N : z = top - x) OBVIOUS
<1> HIDE DEF M
<1>3. PICK z \in M : \A y \in M : z <= y BY <1>1, LeastNatural
<1>4. PICK x \in N : z = top - x BY <1>2
<1>5. ASSUME NEW y \in N PROVE x >= y
  <2>1. top - x <= top - y BY <1>2, <1>3, <1>4
  <2>2. x \in Nat /\ y \in Nat OBVIOUS
  <2> QED BY <2>1, <2>2
<1> QED BY <1>5

\* The purge drops a prefix, all of it before the window.
LEMMA PurgedSuffix ==
    ASSUME NEW b \in Seq(Int), NEW cutoff \in Int
    PROVE  LET p == L!Purged(b, cutoff)
           IN  /\ p \in Seq(Int)
               /\ \E e \in Nat : /\ Len(b) = e + Len(p)
                                 /\ \A n \in 1..Len(p) : p[n] = b[e + n]
                                 /\ \A n \in 1..e : b[n] < cutoff
<1> DEFINE old == {k \in 0..Len(b) : \A j \in 1..k : b[j] < cutoff}
           e == L!Max(old)
           p == L!Purged(b, cutoff)
<1>1. Len(b) \in Nat OBVIOUS
<1>2. e \in old
  <2>1. old \in SUBSET Nat /\ old # {} /\ \A x \in old : x <= Len(b)
    <3>1. 0 \in old BY <1>1
    <3> QED BY <1>1, <3>1
  <2> HIDE DEF old
  <2>2. \E x \in old : \A y \in old : x >= y BY <1>1, <2>1, GreatestNatural
  <2> QED BY <2>2 DEF L!Max
<1>3. p = SubSeq(b, e + 1, Len(b)) BY DEF L!Purged
<1>4. e \in 0..Len(b) /\ \A n \in 1..e : b[n] < cutoff BY <1>2
<1> HIDE DEF e, p
<1>5. /\ SubSeq(b, e + 1, Len(b)) \in Seq(Int)
      /\ Len(SubSeq(b, e + 1, Len(b))) = Len(b) - e
      /\ \A n \in 1..(Len(b) - e) : SubSeq(b, e + 1, Len(b))[n] = b[e + n]
  <2>1. SubSeq(b, e + 1, Len(b)) \in Seq(Int) BY <1>1, <1>4
  <2>2. Len(SubSeq(b, e + 1, Len(b))) = Len(b) - e BY <1>1, <1>4
  <2>3. \A n \in 1..(Len(b) - e) : SubSeq(b, e + 1, Len(b))[n] = b[(e + 1) + n - 1] BY <1>1, <1>4
  <2>4. \A n \in 1..(Len(b) - e) : (e + 1) + n - 1 = e + n BY <1>1, <1>4
  <2> QED BY <2>1, <2>2, <2>3, <2>4
<1>6. e \in Nat /\ Len(b) = e + Len(p) BY <1>1, <1>3, <1>4, <1>5
<1>7. p \in Seq(Int) /\ \A n \in 1..Len(p) : p[n] = b[e + n] BY <1>3, <1>5
<1> QED BY <1>4, <1>6, <1>7 DEF p

\* Counted from the newest, the bucket has a time no older than each time granted,
\* unless that is out of every window to come.
Backed(b, g, cutoff) ==
    \A k \in 1..Len(g) :
      \/ g[Len(g) + 1 - k] < cutoff
      \/ k <= Len(b) /\ b[Len(b) + 1 - k] >= g[Len(g) + 1 - k]

\* Times in the order of the clock.
Ordered(s, t) ==
    /\ s \in Seq(Int) /\ \A n \in 1..Len(s) : s[n] <= t
    /\ \A m, n \in 1..Len(s) : m <= n => s[m] <= s[n]

\* `limit` grants later, the window has passed.
Spaced(g, limit, width) ==
    \A n \in 1..Len(g) : n > limit => g[n - limit] < g[n] - width

\* At most `limit` of spaced times are in a window.
LEMMA SpacedCount ==
    ASSUME NEW g, NEW t \in Int, NEW limit \in Nat, NEW width \in Nat,
           Ordered(g, t), Spaced(g, limit, width), NEW a \in Int, limit > 0
    PROVE  LET W == {n \in DOMAIN g : g[n] \in a..(a + width)}
           IN  Cardinality(W) <= limit
<1> DEFINE W == {n \in DOMAIN g : g[n] \in a..(a + width)}
<1>1. Len(g) \in Nat /\ DOMAIN g = 1..Len(g) /\ \A n \in DOMAIN g : g[n] \in Int BY DEF Ordered
<1>2. CASE W = {} BY <1>2, FS_EmptySet
<1>3. CASE W # {}
  <2>1. W \in SUBSET Nat BY <1>1
  <2>2. \A n \in W : n \in 1..Len(g) /\ g[n] \in Int /\ a <= g[n] /\ g[n] <= a + width BY <1>1
  <2> HIDE DEF W
  <2>3. PICK f \in W : \A n \in W : f <= n BY <1>3, <2>1, LeastNatural
  <2>4. W \subseteq f..(f + limit - 1)
    <3> SUFFICES ASSUME NEW n \in W, ~(n \in f..(f + limit - 1)) PROVE FALSE OBVIOUS
    <3>1. /\ n \in 1..Len(g) /\ f \in 1..Len(g) /\ g[n] \in Int /\ g[f] \in Int
          /\ a <= g[f] /\ g[n] <= a + width /\ f <= n
      BY <2>2, <2>3
    <3>2. n - limit >= f /\ n > limit /\ n - limit \in 1..Len(g) BY <1>1, <3>1
    <3>3. g[n - limit] < g[n] - width BY <3>1, <3>2 DEF Spaced
    <3>4. g[f] <= g[n - limit] BY <3>1, <3>2 DEF Ordered
    <3>5. g[n - limit] \in Int BY <1>1, <3>2
    <3> QED BY <3>1, <3>3, <3>4, <3>5, SMTT(30)
  <2>5. f \in Int /\ f + limit - 1 \in Int BY <2>1
  <2>6. /\ IsFiniteSet(f..(f + limit - 1))
        /\ Cardinality(f..(f + limit - 1)) =
             IF f > f + limit - 1 THEN 0 ELSE (f + limit - 1) - f + 1
    BY <2>5, FS_Interval
  <2>7. Cardinality(f..(f + limit - 1)) = limit BY <2>5, <2>6
  <2> QED BY <2>4, <2>6, <2>7, FS_Subset DEF W
<1> QED BY <1>2, <1>3

\* One more time at the end.
LEMMA AppendOrdered ==
    ASSUME NEW s, NEW t \in Int, Ordered(s, t)
    PROVE  /\ Ordered(Append(s, t), t)
           /\ Len(Append(s, t)) = Len(s) + 1 /\ Append(s, t)[Len(s) + 1] = t
           /\ \A n \in 1..Len(s) : Append(s, t)[n] = s[n]
<1> DEFINE r == Append(s, t)
<1>1. s \in Seq(Int) /\ Len(s) \in Nat /\ \A n \in 1..Len(s) : s[n] \in Int /\ s[n] <= t
  BY DEF Ordered
<1>2. /\ r \in Seq(Int) /\ Len(r) = Len(s) + 1 /\ r[Len(s) + 1] = t
      /\ \A n \in 1..Len(s) : r[n] = s[n]
  BY <1>1
<1> HIDE DEF r
<1>3. \A n \in 1..Len(r) : r[n] \in Int /\ r[n] <= t BY <1>1, <1>2
<1>4. ASSUME NEW m \in 1..Len(r), NEW n \in 1..Len(r), m <= n PROVE r[m] <= r[n]
  <2>1. CASE n = Len(s) + 1 BY <1>2, <1>3, <2>1
  <2>2. CASE n # Len(s) + 1
    <3>1. m \in 1..Len(s) /\ n \in 1..Len(s) BY <1>1, <1>2, <1>4, <2>2
    <3>2. s[m] <= s[n] BY <1>4, <3>1 DEF Ordered
    <3> QED BY <1>2, <3>1, <3>2
  <2> QED BY <2>1, <2>2
<1>5. Ordered(r, t) BY <1>2, <1>3, <1>4 DEF Ordered
<1> QED BY <1>2, <1>5 DEF r

\* What check does to a bucket b and the grants g.
LEMMA CheckKeeps ==
    ASSUME NEW b, NEW g, NEW t \in Int, NEW limit \in Nat, limit > 0, NEW width \in Nat,
           Ordered(b, t), Ordered(g, t), Spaced(g, limit, width), Backed(b, g, t - width)
    PROVE  LET r == Append(L!Purged(b, t - width), t)
               h == Append(g, t)
           IN  /\ Ordered(r, t) /\ Backed(r, g, t - width)
               /\ Len(r) <= limit =>
                    Ordered(h, t) /\ Spaced(h, limit, width) /\ Backed(r, h, t - width)
<1> DEFINE p == L!Purged(b, t - width)
           r == Append(p, t)
           h == Append(g, t)
           cutoff == t - width
<1>1. b \in Seq(Int) /\ Len(b) \in Nat /\ \A n \in 1..Len(b) : b[n] \in Int /\ b[n] <= t
  BY DEF Ordered
<1>2. g \in Seq(Int) /\ Len(g) \in Nat /\ \A n \in 1..Len(g) : g[n] \in Int /\ g[n] <= t
  BY DEF Ordered
<1>3. cutoff \in Int OBVIOUS
<1>4. /\ p \in Seq(Int)
      /\ \E e \in Nat : /\ Len(b) = e + Len(p) /\ \A n \in 1..Len(p) : p[n] = b[e + n]
                        /\ \A n \in 1..e : b[n] < cutoff
  BY <1>1, <1>3, PurgedSuffix
<1> HIDE DEF p, cutoff
<1>5. PICK e \in Nat : /\ Len(b) = e + Len(p) /\ \A n \in 1..Len(p) : p[n] = b[e + n]
                       /\ \A n \in 1..e : b[n] < cutoff
  BY <1>4
<1>6. Len(p) \in Nat BY <1>4
<1>7. Ordered(p, t)
  <2>1. \A n \in 1..Len(p) : e + n \in 1..Len(b) BY <1>5, <1>6
  <2>2. \A n \in 1..Len(p) : p[n] <= t BY <1>1, <1>5, <2>1
  <2>3. ASSUME NEW m \in 1..Len(p), NEW n \in 1..Len(p), m <= n PROVE p[m] <= p[n]
    <3>1. e + m <= e + n BY <1>5, <1>6, <2>3
    <3>2. b[e + m] <= b[e + n] BY <2>1, <3>1 DEF Ordered
    <3> QED BY <1>5, <3>2
  <2> QED BY <1>4, <2>2, <2>3 DEF Ordered
<1>8. /\ Ordered(r, t) /\ Len(r) = Len(p) + 1 /\ r[Len(p) + 1] = t
      /\ \A n \in 1..Len(p) : r[n] = p[n]
  BY <1>7, AppendOrdered
<1>9. /\ Ordered(h, t) /\ Len(h) = Len(g) + 1 /\ h[Len(g) + 1] = t
      /\ \A n \in 1..Len(g) : h[n] = g[n]
  BY AppendOrdered
<1> HIDE DEF r, h
\* The k-th newest of what the purge kept, or an old grant.
<1>10. ASSUME NEW k \in 1..Len(g), ~(g[Len(g) + 1 - k] < cutoff)
       PROVE  k <= Len(p) /\ p[Len(p) + 1 - k] >= g[Len(g) + 1 - k]
  <2>1. k <= Len(b) /\ b[Len(b) + 1 - k] >= g[Len(g) + 1 - k] BY <1>10 DEF Backed, cutoff
  <2>2. Len(b) + 1 - k \in 1..Len(b) /\ Len(g) + 1 - k \in 1..Len(g) BY <1>1, <1>2, <2>1
  <2>3. b[Len(b) + 1 - k] \in Int /\ g[Len(g) + 1 - k] \in Int BY <1>1, <1>2, <2>2
  <2>4. ~(b[Len(b) + 1 - k] < cutoff) BY <1>3, <1>10, <2>1, <2>3
  <2>5. ~(Len(b) + 1 - k \in 1..e) BY <1>5, <2>4
  <2>6. k <= Len(p) /\ Len(p) + 1 - k \in 1..Len(p) /\ e + (Len(p) + 1 - k) = Len(b) + 1 - k
    BY <1>5, <1>6, <2>2, <2>5
  <2>7. p[Len(p) + 1 - k] = b[Len(b) + 1 - k] BY <1>5, <2>6
  <2> QED BY <2>1, <2>6, <2>7
<1>11. Backed(r, g, cutoff)
  <2> SUFFICES ASSUME NEW k \in 1..Len(g), ~(g[Len(g) + 1 - k] < cutoff)
               PROVE  k <= Len(r) /\ r[Len(r) + 1 - k] >= g[Len(g) + 1 - k]
    BY DEF Backed
  <2>1. k <= Len(p) /\ p[Len(p) + 1 - k] >= g[Len(g) + 1 - k] BY <1>10
  <2>2. /\ Len(p) + 1 - k \in 1..Len(r) /\ Len(r) + 1 - k \in 1..Len(r)
        /\ Len(p) + 1 - k <= Len(r) + 1 - k /\ Len(p) + 1 - k \in 1..Len(p)
    BY <1>2, <1>6, <1>8, <2>1, SMTT(30)
  <2>3. r[Len(p) + 1 - k] <= r[Len(r) + 1 - k] BY <1>8, <2>2 DEF Ordered
  <2>4. r[Len(p) + 1 - k] = p[Len(p) + 1 - k] BY <1>8, <2>2
  <2>5. r[Len(p) + 1 - k] \in Int /\ r[Len(r) + 1 - k] \in Int
    <3>1. \A n \in 1..Len(r) : r[n] \in Int BY <1>8 DEF Ordered
    <3> QED BY <2>2, <3>1
  <2>6. g[Len(g) + 1 - k] \in Int BY <1>2
  <2>7. k <= Len(r) BY <1>6, <1>8, <2>1
  <2> QED BY <2>1, <2>3, <2>4, <2>5, <2>6, <2>7, SMTT(30)
<1>12. Backed(r, h, cutoff)
  <2> SUFFICES ASSUME NEW k \in 1..Len(h), ~(h[Len(h) + 1 - k] < cutoff)
               PROVE  k <= Len(r) /\ r[Len(r) + 1 - k] >= h[Len(h) + 1 - k]
    BY DEF Backed
  <2>1. CASE k = 1
    <3>1. Len(h) + 1 - k = Len(g) + 1 /\ Len(r) + 1 - k = Len(p) + 1 /\ k <= Len(r)
      BY <1>2, <1>6, <1>8, <1>9, <2>1
    <3> QED BY <1>8, <1>9, <3>1
  <2>2. CASE k # 1
    <3>1. /\ k - 1 \in 1..Len(g) /\ Len(h) + 1 - k = Len(g) + 1 - (k - 1)
          /\ Len(g) + 1 - (k - 1) \in 1..Len(g)
      BY <1>2, <1>9, <2>2
    <3>2. h[Len(h) + 1 - k] = g[Len(g) + 1 - (k - 1)] BY <1>9, <3>1
    <3>3. k - 1 <= Len(p) /\ p[Len(p) + 1 - (k - 1)] >= g[Len(g) + 1 - (k - 1)]
      BY <1>10, <3>1, <3>2
    <3>4. /\ k <= Len(r) /\ Len(r) + 1 - k = Len(p) + 1 - (k - 1)
          /\ Len(p) + 1 - (k - 1) \in 1..Len(p)
      BY <1>6, <1>8, <3>1, <3>3
    <3>5. r[Len(r) + 1 - k] = p[Len(p) + 1 - (k - 1)] BY <1>8, <3>4
    <3> QED BY <3>2, <3>3, <3>4, <3>5
  <2> QED BY <2>1, <2>2
<1>13. ASSUME Len(r) <= limit PROVE Spaced(h, limit, width)
  <2> SUFFICES ASSUME NEW n \in 1..Len(h), n > limit PROVE h[n - limit] < h[n] - width
    BY DEF Spaced
  <2>1. CASE n = Len(g) + 1
    <3>1. limit + 1 \in 1..Len(h) /\ Len(h) + 1 - (limit + 1) = n - limit
      BY <1>2, <1>9, <2>1
    <3>2. ~(limit + 1 <= Len(r)) BY <1>6, <1>8, <1>13
    <3>3. h[n - limit] < cutoff BY <1>12, <3>1, <3>2 DEF Backed
    <3> QED BY <1>9, <2>1, <3>3 DEF cutoff
  <2>2. CASE n # Len(g) + 1
    <3>1. n \in 1..Len(g) /\ n - limit \in 1..Len(g) BY <1>2, <1>9, <2>2, SMTT(30)
    <3>2. g[n - limit] < g[n] - width BY <3>1 DEF Spaced
    <3> QED BY <1>9, <3>1, <3>2
  <2> QED BY <2>1, <2>2
<1> QED BY <1>8, <1>9, <1>11, <1>12, <1>13 DEF r, h, p, cutoff

\* A bucket b and the grants g of an identity at time t.
LimiterRight(b, g, t, limit) ==
    /\ Ordered(b, t) /\ Ordered(g, t)
    /\ Spaced(g, limit, Window) /\ Backed(b, g, t - Window)

LEMMA EmptyRight ==
    ASSUME NEW t \in Int, NEW limit \in Nat PROVE LimiterRight(<<>>, <<>>, t, limit)
<1>1. Len(<<>>) = 0 /\ 1..0 = {} /\ <<>> \in Seq(Int) OBVIOUS
<1> QED BY <1>1 DEF LimiterRight, Ordered, Spaced, Backed

LEMMA LaterRight ==
    ASSUME NEW b, NEW g, NEW t \in Int, NEW limit \in Nat, LimiterRight(b, g, t, limit)
    PROVE  LimiterRight(b, g, t + 1, limit)
<1>1. Window \in Nat BY LimiterAssumption DEF L!LimiterConstants
<1>2. ASSUME NEW s, Ordered(s, t) PROVE Ordered(s, t + 1)
  <2>1. \A n \in 1..Len(s) : s[n] \in Int /\ s[n] <= t BY <1>2 DEF Ordered
  <2>2. \A n \in 1..Len(s) : s[n] <= t + 1 BY <2>1
  <2> QED BY <1>2, <2>2 DEF Ordered
<1>3. Backed(b, g, (t + 1) - Window)
  <2>1. Len(g) \in Nat /\ \A n \in 1..Len(g) : g[n] \in Int BY DEF LimiterRight, Ordered
  <2>2. \A k \in 1..Len(g) : g[Len(g) + 1 - k] \in Int BY <2>1
  <2>3. \A k \in 1..Len(g) :
          g[Len(g) + 1 - k] < t - Window => g[Len(g) + 1 - k] < (t + 1) - Window
    BY <1>1, <2>2
  <2> QED BY <2>3 DEF Backed, LimiterRight
<1>4. Ordered(b, t) /\ Ordered(g, t) /\ Spaced(g, limit, Window) BY DEF LimiterRight
<1>5. Ordered(b, t + 1) /\ Ordered(g, t + 1) BY <1>2, <1>4
<1> QED BY <1>3, <1>4, <1>5, Zenon DEF LimiterRight

LEMMA CheckedRight ==
    ASSUME NEW b, NEW g, NEW t \in Int, NEW limit \in Nat, limit > 0,
           LimiterRight(b, g, t, limit), NEW r, r = L!Recorded(b, t)
    PROVE  LimiterRight(r, IF Len(r) <= limit THEN Append(g, t) ELSE g, t, limit)
<1>1. Window \in Nat BY LimiterAssumption DEF L!LimiterConstants
<1>2. /\ Ordered(b, t) /\ Ordered(g, t)
      /\ Spaced(g, limit, Window) /\ Backed(b, g, t - Window)
  BY DEF LimiterRight
<1>3. r = Append(L!Purged(b, t - Window), t) BY DEF L!Recorded
<1>4. /\ Ordered(r, t) /\ Backed(r, g, t - Window)
      /\ Len(r) <= limit => /\ Ordered(Append(g, t), t) /\ Spaced(Append(g, t), limit, Window)
                            /\ Backed(r, Append(g, t), t - Window)
  BY <1>1, <1>2, <1>3, CheckKeeps
<1> QED BY <1>2, <1>4 DEF LimiterRight

LimiterInv ==
    /\ clock \in Nat /\ DOMAIN bucket = Identity /\ DOMAIN granted = Identity
    /\ \A i \in Identity : LimiterRight(bucket[i], granted[i], clock, EffectiveLimit[i])

LEMMA LimiterNext == LimiterInv /\ [L!Next]_<<clock, bucket, granted>> => LimiterInv'
<1> SUFFICES ASSUME LimiterInv, [L!Next]_<<clock, bucket, granted>> PROVE LimiterInv' OBVIOUS
<1>1. \A i \in Identity : EffectiveLimit[i] \in Nat /\ EffectiveLimit[i] > 0
  BY LimiterAssumption DEF L!LimiterConstants
<1>2. /\ clock \in Nat /\ DOMAIN bucket = Identity /\ DOMAIN granted = Identity
      /\ \A i \in Identity : LimiterRight(bucket[i], granted[i], clock, EffectiveLimit[i])
  BY DEF LimiterInv
<1>3. CASE L!Tick
  <2>1. clock' = clock + 1 /\ bucket' = bucket /\ granted' = granted
    BY <1>3 DEF L!Tick, L!limiterVars
  <2>2. \A i \in Identity : LimiterRight(bucket[i], granted[i], clock + 1, EffectiveLimit[i])
    BY <1>1, <1>2, LaterRight
  <2> QED BY <1>2, <2>1, <2>2 DEF LimiterInv
<1>4. ASSUME NEW i \in Identity, L!Check(i), UNCHANGED clock PROVE LimiterInv'
  <2> DEFINE r == L!Recorded(bucket[i], clock)
             h == IF Len(r) <= EffectiveLimit[i] THEN Append(granted[i], clock) ELSE granted[i]
  <2>1. /\ bucket' = [bucket EXCEPT ![i] = r]
        /\ granted' = IF Len(r) <= EffectiveLimit[i]
                      THEN [granted EXCEPT ![i] = Append(@, clock)] ELSE granted
    BY <1>4 DEF L!Check, L!Allowed
  <2>2. LimiterRight(r, h, clock, EffectiveLimit[i]) BY <1>1, <1>2, CheckedRight, SMTT(30)
  <2> HIDE DEF r
  <2>3. /\ DOMAIN bucket' = Identity /\ bucket'[i] = r
        /\ \A j \in Identity : j # i => bucket'[j] = bucket[j]
    BY <1>2, <2>1
  <2>4. /\ DOMAIN granted' = Identity /\ granted'[i] = h
        /\ \A j \in Identity : j # i => granted'[j] = granted[j]
    BY <1>2, <2>1
  <2> HIDE DEF h
  <2>5. \A j \in Identity : LimiterRight(bucket'[j], granted'[j], clock, EffectiveLimit[j])
    BY <1>2, <2>2, <2>3, <2>4
  <2> QED BY <1>2, <1>4, <2>3, <2>4, <2>5 DEF LimiterInv
<1>5. ASSUME NEW i \in Identity, L!Reset(i), UNCHANGED clock PROVE LimiterInv'
  <2>1. /\ bucket' = [bucket EXCEPT ![i] = <<>>] /\ granted' = [granted EXCEPT ![i] = <<>>]
    BY <1>5 DEF L!Reset
  <2>2. /\ DOMAIN bucket' = Identity /\ bucket'[i] = <<>> /\ DOMAIN granted' = Identity
        /\ granted'[i] = <<>>
        /\ \A j \in Identity : j # i => bucket'[j] = bucket[j] /\ granted'[j] = granted[j]
    BY <1>2, <2>1
  <2>3. LimiterRight(<<>>, <<>>, clock, EffectiveLimit[i]) BY <1>1, <1>2, EmptyRight
  <2>4. \A j \in Identity : LimiterRight(bucket'[j], granted'[j], clock, EffectiveLimit[j])
    BY <1>2, <2>2, <2>3
  <2> QED BY <1>2, <1>5, <2>2, <2>4 DEF LimiterInv
<1>6. CASE UNCHANGED <<clock, bucket, granted>> BY <1>2, <1>6 DEF LimiterInv
<1> QED BY <1>3, <1>4, <1>5, <1>6 DEF L!Next

\* However checks, refusals, resets and time interleave, and for any limits and
\* any window, no window of the configured length, both ends included, holds more
\* granted checks of an identity than its limit (IdentityRateLimiter.check).
THEOREM WindowsRespected == L!Spec => []WindowRespected
<1>1. L!Init => LimiterInv
  <2> SUFFICES ASSUME L!Init PROVE LimiterInv OBVIOUS
  <2>1. /\ clock = 0 /\ DOMAIN bucket = Identity /\ DOMAIN granted = Identity
        /\ \A i \in Identity : bucket[i] = <<>> /\ granted[i] = <<>>
    BY DEF L!Init, L!InitLimiter
  <2>2. \A i \in Identity : EffectiveLimit[i] \in Nat
    BY LimiterAssumption DEF L!LimiterConstants
  <2>3. \A i \in Identity : LimiterRight(<<>>, <<>>, 0, EffectiveLimit[i]) BY <2>2, EmptyRight
  <2> QED BY <2>1, <2>3 DEF LimiterInv
<1>2. LimiterInv => WindowRespected
  <2> SUFFICES ASSUME LimiterInv, NEW i \in Identity, NEW a \in 0..MaxTime
               PROVE  L!Cardinality({n \in DOMAIN granted[i] : granted[i][n] \in a..(a + Window)})
                        <= EffectiveLimit[i]
    BY DEF WindowRespected, L!WindowRespected
  <2>1. /\ Window \in Nat /\ EffectiveLimit[i] \in Nat /\ EffectiveLimit[i] > 0 /\ a \in Int
    BY LimiterAssumption DEF L!LimiterConstants
  <2> DEFINE W == {n \in DOMAIN granted[i] : granted[i][n] \in a..(a + Window)}
  <2>2. Cardinality(W) <= EffectiveLimit[i]
    <3>1. Ordered(granted[i], clock) /\ Spaced(granted[i], EffectiveLimit[i], Window) /\ clock \in Int
      BY DEF LimiterInv, LimiterRight
    <3> QED BY <2>1, <3>1, SpacedCount
  <2>3. L!Cardinality(W) = Cardinality(W) BY Zenon DEF L!Cardinality, Cardinality
  <2> QED BY <2>2, <2>3
<1> QED BY <1>1, <1>2, LimiterNext, PTL DEF L!Spec

-----------------------------------------------------------------------------
(* Quotas on new identities *)

\* An entry of the ledger.
Admission == [issuer : Issuer, at : Nat]

\* The admissions of `is` in the window from a, and the callers that may still add
\* to them: they have evaluated by its end.
Minting(m, is, a) ==
    {n \in DOMAIN m : m[n].issuer \in is /\ m[n].at \in a..(a + MintWindow)}
Pending(adm, cs, is, a) ==
    {c \in cs : adm[c] # Nothing /\ adm[c].issuer \in is /\ adm[c].at <= a + MintWindow}

\* The quota `cap` of `is`, with the admissions under way counted.
Within(m, adm, cs, is, cap) ==
    \A a \in Nat :
      Cardinality(Minting(m, is, a)) + Cardinality(Pending(adm, cs, is, a))
        <= cap + (Cardinality(cs) - 1)

\* The ledger has dropped only what is older than the window.
Ledger(es, m, t) ==
    \E d \in Nat :
      /\ Len(m) = d + Len(es)
      /\ \A n \in 1..Len(es) : es[n] = m[d + n]
      /\ \A n \in 1..d : m[n].at < t - MintWindow

MintTypes ==
    /\ day \in Nat /\ callers \subseteq Admitter
    /\ admitting \in [Admitter -> Admission \cup {Nothing}]
    /\ \A c \in Admitter : admitting[c] # Nothing => c \in callers /\ admitting[c].at <= day
    /\ minted \in Seq(Admission) /\ \A n \in 1..Len(minted) : minted[n].at <= day
    /\ events \in Seq(Admission)

MintInv ==
    /\ MintTypes /\ callers # {} /\ Ledger(events, minted, day)
    /\ \A i \in Issuer : /\ Within(minted, admitting, callers, {i}, MaxPerIssuer)
                         /\ Within(minted, admitting, callers, Y!Tenants(i), MaxPerTenant)

LEMMA MintFinite ==
    ASSUME NEW m \in Seq(Admission), NEW adm, NEW cs \in SUBSET Admitter, NEW is, NEW a
    PROVE  /\ IsFiniteSet(Minting(m, is, a)) /\ Cardinality(Minting(m, is, a)) \in Nat
           /\ IsFiniteSet(Pending(adm, cs, is, a)) /\ Cardinality(Pending(adm, cs, is, a)) \in Nat
           /\ Cardinality(Pending(adm, cs, is, a)) <= Cardinality(cs)
           /\ IsFiniteSet(cs) /\ Cardinality(cs) \in Nat
<1>1. IsFiniteSet(Admitter)
  BY SybilAssumption, Zenon DEF Y!SybilConstants, Y!IsFiniteSet, IsFiniteSet
<1>2. IsFiniteSet(cs) BY <1>1, FS_Subset
<1>3. Pending(adm, cs, is, a) \in SUBSET cs BY DEF Pending
<1>4. Minting(m, is, a) \in SUBSET (1..Len(m)) BY DEF Minting
<1>5. IsFiniteSet(1..Len(m))
  <2>1. 1 \in Int /\ Len(m) \in Int OBVIOUS
  <2> QED BY <2>1, FS_Interval
<1>6. IsFiniteSet(Minting(m, is, a)) BY <1>4, <1>5, FS_Subset
<1>7. /\ IsFiniteSet(Pending(adm, cs, is, a))
      /\ Cardinality(Pending(adm, cs, is, a)) <= Cardinality(cs)
  BY <1>2, <1>3, FS_Subset
<1> QED BY <1>2, <1>6, <1>7, FS_CardinalityType

\* Whatever the ledger's count misses is outside the windows that are not over.
LEMMA LedgerCounts ==
    ASSUME NEW es \in Seq(Admission), NEW m \in Seq(Admission), NEW t \in Nat,
           Ledger(es, m, t), NEW is, NEW a \in Nat, t <= a + MintWindow
    PROVE  LET C == {n \in DOMAIN es : es[n].issuer \in is /\ es[n].at >= t - MintWindow}
           IN  Cardinality(C) \in Nat /\ Cardinality(Minting(m, is, a)) <= Cardinality(C)
<1> DEFINE C == {n \in DOMAIN es : es[n].issuer \in is /\ es[n].at >= t - MintWindow}
           M == Minting(m, is, a)
<1>1. MintWindow \in Nat BY SybilAssumption DEF Y!SybilConstants
<1>2. PICK d \in Nat : /\ Len(m) = d + Len(es)
                       /\ \A n \in 1..Len(es) : es[n] = m[d + n]
                       /\ \A n \in 1..d : m[n].at < t - MintWindow
  BY DEF Ledger
<1>3. Len(es) \in Nat /\ DOMAIN es = 1..Len(es) /\ DOMAIN m = 1..Len(m) OBVIOUS
<1>4. \A n \in 1..Len(m) : m[n] \in Admission /\ m[n].at \in Int
  <2>1. \A n \in 1..Len(m) : m[n] \in Admission BY ElementOfSeq
  <2> QED BY <2>1 DEF Admission
<1>5. ASSUME NEW n \in M PROVE n - d \in C /\ n \in Int
  <2>1. /\ n \in 1..Len(m) /\ m[n].issuer \in is /\ m[n].at \in Int
        /\ a <= m[n].at /\ m[n].at <= a + MintWindow
    BY <1>3, <1>4 DEF Minting
  <2>2. m[n].at >= t - MintWindow BY <1>1, <2>1
  <2>3. ~(n \in 1..d)
    <3> SUFFICES ASSUME n \in 1..d PROVE FALSE OBVIOUS
    <3>1. m[n].at < t - MintWindow BY <1>2
    <3> QED BY <1>1, <2>1, <2>2, <3>1
  <2>4. n - d \in 1..Len(es) /\ d + (n - d) = n BY <1>2, <1>3, <2>1, <2>3
  <2>5. es[n - d] = m[n] BY <1>2, <2>4
  <2> QED BY <1>3, <2>1, <2>2, <2>4, <2>5
<1>6. IsFiniteSet(C)
  <2>1. C \in SUBSET (1..Len(es)) BY <1>3
  <2>2. 1 \in Int /\ Len(es) \in Int BY <1>3
  <2> HIDE DEF C
  <2> QED BY <2>1, <2>2, FS_Interval, FS_Subset
<1> DEFINE f == [n \in M |-> n - d]
<1> HIDE DEF C, M
<1>7. f \in Injection(M, C)
  <2>1. f \in [M -> C] BY <1>5
  <2>2. \A x, y \in M : f[x] = f[y] => x = y BY <1>5
  <2> QED BY <2>1, <2>2 DEF Injection, IsInjective
<1> HIDE DEF f
<1>8. Cardinality(M) <= Cardinality(C) BY <1>6, <1>7, FS_Injection
<1>9. Cardinality(C) \in Nat BY <1>6, FS_CardinalityType
<1> QED BY <1>8, <1>9 DEF M, C

\* The trim drops a prefix, all of it older than the cutoff.
LEMMA TrimmedSuffix ==
    ASSUME NEW es \in Seq(Admission), NEW cutoff \in Int
    PROVE  LET p == Y!Trimmed(es, cutoff)
           IN  /\ p \in Seq(Admission)
               /\ \E e \in Nat : /\ Len(es) = e + Len(p)
                                 /\ \A n \in 1..Len(p) : p[n] = es[e + n]
                                 /\ \A n \in 1..e : es[n].at < cutoff
<1> DEFINE old == {k \in 0..Len(es) : \A j \in 1..k : es[j].at < cutoff}
           e == Y!Max(old)
           p == Y!Trimmed(es, cutoff)
<1>1. Len(es) \in Nat OBVIOUS
<1>2. e \in old
  <2>1. old \in SUBSET Nat /\ old # {} /\ \A x \in old : x <= Len(es)
    <3>1. 0 \in old BY <1>1
    <3> QED BY <1>1, <3>1
  <2> HIDE DEF old
  <2>2. \E x \in old : \A y \in old : x >= y BY <1>1, <2>1, GreatestNatural
  <2> QED BY <2>2 DEF Y!Max
<1>3. p = SubSeq(es, e + 1, Len(es)) BY DEF Y!Trimmed
<1>4. e \in 0..Len(es) /\ \A n \in 1..e : es[n].at < cutoff BY <1>2
<1> HIDE DEF e, p
<1>5. /\ SubSeq(es, e + 1, Len(es)) \in Seq(Admission)
      /\ Len(SubSeq(es, e + 1, Len(es))) = Len(es) - e
      /\ \A n \in 1..(Len(es) - e) : SubSeq(es, e + 1, Len(es))[n] = es[e + n]
  <2>1. SubSeq(es, e + 1, Len(es)) \in Seq(Admission) BY <1>1, <1>4, SubSeqProperties
  <2>2. Len(SubSeq(es, e + 1, Len(es))) = Len(es) - e BY <1>1, <1>4
  <2>3. \A n \in 1..(Len(es) - e) : SubSeq(es, e + 1, Len(es))[n] = es[(e + 1) + n - 1]
    BY <1>1, <1>4
  <2>4. \A n \in 1..(Len(es) - e) : (e + 1) + n - 1 = e + n BY <1>1, <1>4
  <2> QED BY <2>1, <2>2, <2>3, <2>4
<1>6. e \in Nat /\ Len(es) = e + Len(p) BY <1>1, <1>3, <1>4, <1>5
<1>7. p \in Seq(Admission) /\ \A n \in 1..Len(p) : p[n] = es[e + n] BY <1>3, <1>5
<1> QED BY <1>4, <1>6, <1>7 DEF p

\* The ledger after record_admission at a time that is not past t.
LEMMA LedgerGrows ==
    ASSUME NEW es \in Seq(Admission), NEW m \in Seq(Admission), NEW t \in Nat,
           Ledger(es, m, t), NEW x \in Admission, x.at <= t
    PROVE  /\ Y!Trimmed(Append(es, x), x.at - Retention) \in Seq(Admission)
           /\ Ledger(Y!Trimmed(Append(es, x), x.at - Retention), Append(m, x), t)
<1> DEFINE es2 == Append(es, x)
           m2 == Append(m, x)
           cutoff == x.at - Retention
           p == Y!Trimmed(es2, cutoff)
<1>1. MintWindow \in Nat /\ Retention \in Nat /\ Retention >= MintWindow
  BY SybilAssumption DEF Y!SybilConstants
<1>2. x.at \in Nat BY DEF Admission
<1>3. cutoff \in Int /\ cutoff <= t - MintWindow BY <1>1, <1>2
<1>4. PICK d \in Nat : /\ Len(m) = d + Len(es)
                       /\ \A n \in 1..Len(es) : es[n] = m[d + n]
                       /\ \A n \in 1..d : m[n].at < t - MintWindow
  BY DEF Ledger
<1>5. Len(es) \in Nat /\ Len(m) \in Nat OBVIOUS
<1>6. /\ es2 \in Seq(Admission) /\ Len(es2) = Len(es) + 1 /\ es2[Len(es) + 1] = x
      /\ \A n \in 1..Len(es) : es2[n] = es[n]
  BY AppendProperties
<1>7. /\ m2 \in Seq(Admission) /\ Len(m2) = Len(m) + 1 /\ m2[Len(m) + 1] = x
      /\ \A n \in 1..Len(m) : m2[n] = m[n]
  BY AppendProperties
<1> HIDE DEF es2, m2, cutoff
<1>8. /\ p \in Seq(Admission)
      /\ \E e \in Nat : /\ Len(es2) = e + Len(p)
                        /\ \A n \in 1..Len(p) : p[n] = es2[e + n]
                        /\ \A n \in 1..e : es2[n].at < cutoff
  BY <1>3, <1>6, TrimmedSuffix
<1> HIDE DEF p
<1>9. PICK e \in Nat : /\ Len(es2) = e + Len(p)
                       /\ \A n \in 1..Len(p) : p[n] = es2[e + n]
                       /\ \A n \in 1..e : es2[n].at < cutoff
  BY <1>8
<1>10. Len(p) \in Nat BY <1>8
<1>11. ASSUME NEW n \in 1..Len(es2) PROVE es2[n] = m2[d + n]
  <2>1. CASE n = Len(es) + 1
    <3>1. d + n = Len(m) + 1 BY <1>4, <1>5, <2>1
    <3> QED BY <1>6, <1>7, <2>1, <3>1
  <2>2. CASE n # Len(es) + 1
    <3>1. n \in 1..Len(es) /\ d + n \in 1..Len(m) BY <1>4, <1>5, <1>6, <2>2
    <3> QED BY <1>4, <1>6, <1>7, <3>1
  <2> QED BY <2>1, <2>2
<1>12. Len(m2) = (d + e) + Len(p) BY <1>4, <1>5, <1>6, <1>7, <1>9, <1>10, SMTT(30)
<1>13. ASSUME NEW n \in 1..Len(p) PROVE p[n] = m2[(d + e) + n]
  <2>1. e + n \in 1..Len(es2) /\ d + (e + n) = (d + e) + n BY <1>9, <1>10
  <2>2. p[n] = es2[e + n] BY <1>9
  <2>3. es2[e + n] = m2[d + (e + n)] BY <1>11, <2>1
  <2> QED BY <2>1, <2>2, <2>3
<1>14. ASSUME NEW n \in 1..(d + e) PROVE m2[n].at < t - MintWindow
  <2>1. CASE n \in 1..d
    <3>1. n \in 1..Len(m) BY <1>4, <1>5, <2>1
    <3>2. m2[n] = m[n] BY <1>7, <3>1
    <3> QED BY <1>4, <2>1, <3>2
  <2>2. CASE n \notin 1..d
    <3>1. n - d \in 1..e /\ n - d \in 1..Len(es2) /\ d + (n - d) = n BY <1>9, <1>10, <2>2
    <3>2. es2[n - d] = m2[n] BY <1>11, <3>1
    <3>3. es2[n - d].at < cutoff BY <1>9, <3>1
    <3>4. es2[n - d] \in Admission BY <1>6, <3>1, ElementOfSeq
    <3>5. es2[n - d].at \in Int BY <3>4 DEF Admission
    <3>6. es2[n - d].at < t - MintWindow BY <1>1, <1>3, <3>3, <3>5
    <3> QED BY <3>2, <3>6
  <2> QED BY <2>1, <2>2
<1>15. Ledger(p, m2, t)
  <2>1. d + e \in Nat OBVIOUS
  <2> QED BY <1>12, <1>13, <1>14, <2>1 DEF Ledger
<1> QED BY <1>8, <1>15 DEF p, m2, es2, cutoff

\* An evaluation that found room, for the sets `is` that the issuer belongs to.
LEMMA EvaluatedWithin ==
    ASSUME MintTypes, callers # {}, Ledger(events, minted, day), NEW is, NEW cap \in Nat,
           Within(minted, admitting, callers, is, cap),
           NEW c \in callers, admitting[c] = Nothing, NEW i \in Issuer,
           NEW adm, adm = [admitting EXCEPT ![c] = [issuer |-> i, at |-> day]],
           i \in is => Cardinality({n \in DOMAIN events :
                          events[n].issuer \in is /\ events[n].at >= day - MintWindow}) < cap
    PROVE  Within(minted, adm, callers, is, cap)
<1> SUFFICES ASSUME NEW a \in Nat
             PROVE  Cardinality(Minting(minted, is, a)) + Cardinality(Pending(adm, callers, is, a))
                      <= cap + (Cardinality(callers) - 1)
  BY DEF Within
<1>1. MintWindow \in Nat BY SybilAssumption DEF Y!SybilConstants
<1>2. /\ Cardinality(Minting(minted, is, a)) \in Nat
      /\ Cardinality(Pending(adm, callers, is, a)) \in Nat
      /\ Cardinality(Pending(adm, callers, is, a)) <= Cardinality(callers)
      /\ Cardinality(callers) \in Nat
  BY MintFinite DEF MintTypes
<1>3. CASE i \in is /\ day <= a + MintWindow
  <2> DEFINE C == {n \in DOMAIN events : events[n].issuer \in is /\ events[n].at >= day - MintWindow}
  <2>1. Cardinality(C) \in Nat /\ Cardinality(Minting(minted, is, a)) <= Cardinality(C)
    BY <1>3, LedgerCounts DEF MintTypes
  <2>2. Cardinality(C) < cap BY <1>3
  <2> HIDE DEF C
  <2> QED BY <1>2, <2>1, <2>2
<1>4. CASE ~(i \in is /\ day <= a + MintWindow)
  <2>1. Pending(adm, callers, is, a) = Pending(admitting, callers, is, a)
    <3>1. /\ DOMAIN admitting = Admitter /\ c \in Admitter
      BY DEF MintTypes
    <3>2. adm[c] = [issuer |-> i, at |-> day] /\ \A k \in callers : k # c => adm[k] = admitting[k]
      BY <3>1 DEF MintTypes
    <3>3. adm[c].issuer = i /\ adm[c].at = day BY <3>2
    <3>4. c \notin Pending(adm, callers, is, a) BY <1>4, <3>3 DEF Pending
    <3>5. c \notin Pending(admitting, callers, is, a) BY DEF Pending
    <3> QED BY <3>2, <3>4, <3>5 DEF Pending
  <2> QED BY <2>1 DEF Within
<1> QED BY <1>3, <1>4

\* An admission that is recorded was pending; one that is abandoned only leaves.
LEMMA RecordedWithin ==
    ASSUME MintTypes, NEW is, NEW cap \in Nat,
           Within(minted, admitting, callers, is, cap),
           NEW c \in Admitter, admitting[c] # Nothing,
           NEW adm, adm = [admitting EXCEPT ![c] = Nothing],
           NEW x \in Admission, x.issuer = admitting[c].issuer, admitting[c].at <= x.at
    PROVE  /\ Within(Append(minted, x), adm, callers, is, cap)
           /\ Within(minted, adm, callers, is, cap)
<1> DEFINE m2 == Append(minted, x)
<1>1. MintWindow \in Nat BY SybilAssumption DEF Y!SybilConstants
<1>2. /\ c \in callers /\ minted \in Seq(Admission) /\ callers \in SUBSET Admitter
      /\ admitting[c] \in Admission /\ admitting[c].at \in Nat /\ x.at \in Nat
  BY DEF MintTypes, Admission
<1>3. adm[c] = Nothing /\ \A k \in callers : k # c => adm[k] = admitting[k]
  BY DEF MintTypes
<1>4. /\ m2 \in Seq(Admission) /\ Len(m2) = Len(minted) + 1 /\ m2[Len(minted) + 1] = x
      /\ \A n \in 1..Len(minted) : m2[n] = minted[n]
  BY <1>2, AppendProperties
<1>5. Len(minted) \in Nat /\ DOMAIN minted = 1..Len(minted) /\ DOMAIN m2 = 1..(Len(minted) + 1)
  BY <1>2, <1>4
<1> HIDE DEF m2
<1>6. ASSUME NEW a \in Nat
      PROVE  /\ Cardinality(Minting(m2, is, a)) + Cardinality(Pending(adm, callers, is, a))
                  <= cap + (Cardinality(callers) - 1)
             /\ Cardinality(Minting(minted, is, a)) + Cardinality(Pending(adm, callers, is, a))
                  <= cap + (Cardinality(callers) - 1)
  <2> DEFINE M == Minting(minted, is, a)
             M2 == Minting(m2, is, a)
             P == Pending(admitting, callers, is, a)
             P2 == Pending(adm, callers, is, a)
             k == Len(minted) + 1
  <2>1. /\ IsFiniteSet(M) /\ Cardinality(M) \in Nat /\ IsFiniteSet(P) /\ Cardinality(P) \in Nat
        /\ Cardinality(callers) \in Nat
    BY <1>2, MintFinite
  <2>2. P2 = P \ {c} BY <1>3 DEF Pending
  <2>3. k \notin M BY <1>5 DEF Minting
  <2>4. M2 = M \cup (IF x.issuer \in is /\ x.at \in a..(a + MintWindow) THEN {k} ELSE {})
    <3>1. \A n \in 1..Len(minted) : n \in M2 <=> n \in M
      BY <1>4, <1>5 DEF Minting
    <3>2. k \in M2 <=> x.issuer \in is /\ x.at \in a..(a + MintWindow) BY <1>4, <1>5 DEF Minting
    <3>3. M2 \subseteq 1..(Len(minted) + 1) /\ M \subseteq 1..Len(minted) BY <1>5 DEF Minting
    <3> HIDE DEF M, M2
    <3> QED BY <1>5, <3>1, <3>2, <3>3
  <2>5. x.issuer \in is /\ x.at \in a..(a + MintWindow) => c \in P
    <3> SUFFICES ASSUME x.issuer \in is, x.at \in a..(a + MintWindow) PROVE c \in P OBVIOUS
    <3>1. admitting[c].at <= a + MintWindow BY <1>1, <1>2
    <3> QED BY <1>2, <3>1 DEF Pending
  <2>6. Cardinality(M) + Cardinality(P) <= cap + (Cardinality(callers) - 1) BY DEF Within
  <2> HIDE DEF M, M2, P, P2, k
  <2>7. Cardinality(P2) = (IF c \in P THEN Cardinality(P) - 1 ELSE Cardinality(P))
    BY <2>1, <2>2, FS_RemoveElement
  <2>8. CASE x.issuer \in is /\ x.at \in a..(a + MintWindow)
    <3>1. Cardinality(M2) = Cardinality(M) + 1
      <4>1. M2 = M \cup {k} BY <2>4, <2>8
      <4> QED BY <2>1, <2>3, <4>1, FS_AddElement
    <3>2. Cardinality(P2) = Cardinality(P) - 1 BY <2>5, <2>7, <2>8
    <3>3. /\ Cardinality(M2) + Cardinality(P2) <= cap + (Cardinality(callers) - 1)
          /\ Cardinality(M) + Cardinality(P2) <= cap + (Cardinality(callers) - 1)
      BY <2>1, <2>6, <3>1, <3>2
    <3> QED BY <3>3 DEF M, M2, P2
  <2>9. CASE ~(x.issuer \in is /\ x.at \in a..(a + MintWindow))
    <3>1. M2 = M BY <2>4, <2>9
    <3>2. Cardinality(M) + Cardinality(P2) <= cap + (Cardinality(callers) - 1)
      BY <2>1, <2>6, <2>7
    <3> QED BY <3>1, <3>2 DEF M, M2, P2
  <2> QED BY <2>8, <2>9
<1> QED BY <1>6 DEF Within, m2

LEMMA MintNext == MintInv /\ [Y!Next]_(Y!vars) => MintInv'
<1> SUFFICES ASSUME MintInv, [Y!Next]_(Y!vars) PROVE MintInv' OBVIOUS
<1>1. /\ MintTypes /\ callers # {} /\ Ledger(events, minted, day)
      /\ \A i \in Issuer : /\ Within(minted, admitting, callers, {i}, MaxPerIssuer)
                           /\ Within(minted, admitting, callers, Y!Tenants(i), MaxPerTenant)
  BY DEF MintInv
<1>2. MaxPerIssuer \in Nat /\ MaxPerTenant \in Nat /\ MintWindow \in Nat
  BY SybilAssumption DEF Y!SybilConstants
<1>3. ASSUME UNCHANGED <<day, callers, events, admitting, minted>> PROVE MintInv'
  <2>1. MintTypes' BY <1>1, <1>3 DEF MintTypes
  <2> QED BY <1>1, <1>3, <2>1 DEF MintInv
<1>4. CASE Y!Tick
  <2>1. day' = day + 1 /\ UNCHANGED <<callers, events, admitting, minted>> BY <1>4 DEF Y!Tick
  <2>2. MintTypes'
    <3>1. day \in Nat /\ \A c \in Admitter : admitting[c] # Nothing => admitting[c].at \in Nat
      BY <1>1 DEF MintTypes, Admission
    <3>2. \A c \in Admitter : admitting[c] # Nothing => c \in callers /\ admitting[c].at <= day + 1
      BY <1>1, <3>1 DEF MintTypes
    <3>3. \A n \in 1..Len(minted) : minted[n] \in Admission BY <1>1, ElementOfSeq DEF MintTypes
    <3>4. \A n \in 1..Len(minted) : minted[n].at \in Nat BY <3>3 DEF Admission
    <3>5. \A n \in 1..Len(minted) : minted[n].at <= day + 1 BY <1>1, <3>1, <3>4 DEF MintTypes
    <3> QED BY <1>1, <2>1, <3>1, <3>2, <3>5 DEF MintTypes
  <2>3. Ledger(events, minted, day + 1)
    <3>1. PICK d \in Nat : /\ Len(minted) = d + Len(events)
                           /\ \A n \in 1..Len(events) : events[n] = minted[d + n]
                           /\ \A n \in 1..d : minted[n].at < day - MintWindow
      BY <1>1 DEF Ledger
    <3>2. \A n \in 1..d : minted[n].at < (day + 1) - MintWindow
      <4>1. Len(events) \in Nat /\ day \in Nat BY <1>1 DEF MintTypes
      <4>2. \A n \in 1..Len(minted) : minted[n] \in Admission BY <1>1, ElementOfSeq DEF MintTypes
      <4>3. \A n \in 1..d : minted[n].at \in Nat BY <3>1, <4>1, <4>2 DEF Admission
      <4> QED BY <1>2, <3>1, <4>1, <4>3
    <3> QED BY <3>1, <3>2 DEF Ledger
  <2> QED BY <1>1, <2>1, <2>2, <2>3 DEF MintInv
<1>5. ASSUME NEW c \in Admitter, NEW i \in Issuer, NEW p \in Proofs, Y!Evaluate(c, i, p)
      PROVE  MintInv'
  <2> DEFINE x == [issuer |-> i, at |-> day]
  <2>1. /\ c \in callers /\ admitting[c] = Nothing
        /\ admitting' = IF Y!Allows(i, p) THEN [admitting EXCEPT ![c] = x] ELSE admitting
        /\ UNCHANGED <<day, callers, events, minted>>
    BY <1>5 DEF Y!Evaluate
  <2>2. CASE ~Y!Allows(i, p) BY <1>3, <2>1, <2>2
  <2>3. CASE Y!Allows(i, p)
    <3>1. x \in Admission /\ x.at <= day BY <1>1 DEF Admission, MintTypes
    <3> DEFINE C(is) == {n \in DOMAIN events :
                           events[n].issuer \in is /\ events[n].at >= day - MintWindow}
    <3>2. /\ ~(Y!Cardinality(C({i})) >= MaxPerIssuer)
          /\ ~(Y!Cardinality(C(Y!Tenants(i))) >= MaxPerTenant)
      BY <2>3 DEF Y!Allows, Y!QuotaFull, Y!CountSince
    <3>3. \A S : Y!Cardinality(S) = Cardinality(S) BY Zenon DEF Y!Cardinality, Cardinality
    <3>4. \A is : Cardinality(C(is)) \in Nat
      <4>1. \A is : C(is) \in SUBSET (1..Len(events)) BY <1>1 DEF MintTypes
      <4>2. IsFiniteSet(1..Len(events))
        <5>1. 1 \in Int /\ Len(events) \in Int BY <1>1 DEF MintTypes
        <5> QED BY <5>1, FS_Interval
      <4> HIDE DEF C
      <4> QED BY <4>1, <4>2, FS_Subset, FS_CardinalityType
    <3>5. Cardinality(C({i})) < MaxPerIssuer /\ Cardinality(C(Y!Tenants(i))) < MaxPerTenant
      <4> HIDE DEF C
      <4> QED BY <1>2, <3>2, <3>3, <3>4
    <3>6. admitting' = [admitting EXCEPT ![c] = x] BY <2>1, <2>3
    <3>7. ASSUME NEW j \in Issuer
          PROVE  Within(minted, admitting', callers, {j}, MaxPerIssuer)
      <4>1. i \in {j} => Cardinality(C({j})) < MaxPerIssuer
        <5> HIDE DEF C
        <5>1. i \in {j} => i = j OBVIOUS
        <5> QED BY <3>5, <5>1
      <4> QED BY <1>1, <1>2, <2>1, <3>6, <4>1, EvaluatedWithin
    <3>8. ASSUME NEW j \in Issuer
          PROVE  Within(minted, admitting', callers, Y!Tenants(j), MaxPerTenant)
      <4>1. i \in Y!Tenants(j) => Cardinality(C(Y!Tenants(j))) < MaxPerTenant
        <5> HIDE DEF C
        <5>1. i \in Y!Tenants(j) => Y!Tenants(i) = Y!Tenants(j) BY DEF Y!Tenants
        <5> QED BY <3>5, <5>1
      <4> QED BY <1>1, <1>2, <2>1, <3>6, <4>1, EvaluatedWithin
    <3>9. MintTypes'
      <4>1. admitting' \in [Admitter -> Admission \cup {Nothing}]
        BY <1>1, <3>1, <3>6 DEF MintTypes
      <4>2. admitting'[c] = x /\ \A k \in Admitter : k # c => admitting'[k] = admitting[k]
        BY <1>1, <3>6 DEF MintTypes
      <4> HIDE DEF x
      <4>3. \A k \in Admitter : admitting'[k] # Nothing => k \in callers /\ admitting'[k].at <= day
        BY <1>1, <2>1, <3>1, <4>2 DEF MintTypes
      <4> QED BY <1>1, <2>1, <4>1, <4>3 DEF MintTypes
    <3> QED BY <1>1, <2>1, <3>7, <3>8, <3>9 DEF MintInv
  <2> QED BY <2>2, <2>3
\* A caller is done: what it had under way is recorded, or not.
<1>6. ASSUME NEW c \in Admitter, admitting[c] # Nothing,
             admitting' = [admitting EXCEPT ![c] = Nothing], UNCHANGED <<day, callers>>,
             NEW x \in Admission, x.issuer = admitting[c].issuer, admitting[c].at <= x.at,
             x.at <= day,
             \/ minted' = minted /\ events' = events
             \/ /\ minted' = Append(minted, x)
                /\ events' = Y!Trimmed(Append(events, x), x.at - Retention)
      PROVE  MintInv'
  <2>1. /\ admitting' \in [Admitter -> Admission \cup {Nothing}]
        /\ \A k \in Admitter : admitting'[k] # Nothing => k \in callers /\ admitting'[k].at <= day
    <3>1. admitting'[c] = Nothing /\ \A k \in Admitter : k # c => admitting'[k] = admitting[k]
      BY <1>1, <1>6 DEF MintTypes
    <3>2. admitting' \in [Admitter -> Admission \cup {Nothing}] BY <1>1, <1>6 DEF MintTypes
    <3> QED BY <1>1, <3>1, <3>2 DEF MintTypes
  <2>2. CASE minted' = minted /\ events' = events
    <3>1. \A i \in Issuer :
            /\ Within(minted, admitting', callers, {i}, MaxPerIssuer)
            /\ Within(minted, admitting', callers, Y!Tenants(i), MaxPerTenant)
      BY <1>1, <1>2, <1>6, RecordedWithin
    <3>2. MintTypes' BY <1>1, <1>6, <2>1, <2>2 DEF MintTypes
    <3> QED BY <1>1, <1>6, <2>2, <3>1, <3>2 DEF MintInv
  <2>3. CASE /\ minted' = Append(minted, x)
             /\ events' = Y!Trimmed(Append(events, x), x.at - Retention)
    <3>1. \A i \in Issuer :
            /\ Within(minted', admitting', callers, {i}, MaxPerIssuer)
            /\ Within(minted', admitting', callers, Y!Tenants(i), MaxPerTenant)
      BY <1>1, <1>2, <1>6, <2>3, RecordedWithin
    <3>2. events' \in Seq(Admission) /\ Ledger(events', minted', day)
      BY <1>1, <1>6, <2>3, LedgerGrows DEF MintTypes
    <3>3. minted' \in Seq(Admission) /\ \A n \in 1..Len(minted') : minted'[n].at <= day
      <4>1. minted \in Seq(Admission) /\ Len(minted) \in Nat BY <1>1 DEF MintTypes
      <4>2. /\ minted' \in Seq(Admission) /\ Len(minted') = Len(minted) + 1
            /\ minted'[Len(minted) + 1] = x
            /\ \A n \in 1..Len(minted) : minted'[n] = minted[n]
        BY <2>3, <4>1, AppendProperties
      <4>3. \A n \in 1..Len(minted) : minted[n].at <= day BY <1>1 DEF MintTypes
      <4>4. \A n \in 1..(Len(minted) + 1) : n = Len(minted) + 1 \/ n \in 1..Len(minted) BY <4>1
      <4> QED BY <1>6, <4>2, <4>3, <4>4
    <3>4. MintTypes' BY <1>1, <1>6, <2>1, <3>2, <3>3 DEF MintTypes
    <3> QED BY <1>1, <1>6, <3>1, <3>2, <3>4 DEF MintInv
  <2> QED BY <1>6, <2>2, <2>3
<1>7. ASSUME NEW c \in Admitter, Y!Abandon(c) PROVE MintInv'
  <2>1. /\ admitting[c] # Nothing /\ admitting' = [admitting EXCEPT ![c] = Nothing]
        /\ UNCHANGED <<day, callers, events, minted>>
    BY <1>7 DEF Y!Abandon
  <2>2. admitting[c] \in Admission /\ admitting[c].at <= day /\ admitting[c].at <= admitting[c].at
    BY <1>1, <2>1 DEF MintTypes, Admission
  <2> QED BY <1>6, <2>1, <2>2
<1>8. ASSUME NEW c \in Admitter, Y!RecordAdmission(c) PROVE MintInv'
  <2>1. /\ admitting[c] # Nothing /\ admitting' = [admitting EXCEPT ![c] = Nothing]
        /\ UNCHANGED <<day, callers>>
    BY <1>8 DEF Y!RecordAdmission
  <2>2. PICK at \in {admitting[c].at, day} :
          /\ events' = Y!Trimmed(Append(events, [issuer |-> admitting[c].issuer, at |-> at]),
                                 at - Retention)
          /\ minted' = Append(minted, [issuer |-> admitting[c].issuer, at |-> at])
    BY <1>8 DEF Y!RecordAdmission
  <2>3. /\ admitting[c] \in Admission /\ admitting[c].issuer \in Issuer /\ admitting[c].at \in Nat
        /\ admitting[c].at <= day /\ day \in Nat
    BY <1>1, <2>1 DEF MintTypes, Admission
  <2>4. at \in Nat /\ admitting[c].at <= at /\ at <= day BY <2>2, <2>3
  <2> DEFINE x == [issuer |-> admitting[c].issuer, at |-> at]
  <2>5. x \in Admission /\ x.issuer = admitting[c].issuer /\ x.at = at BY <2>3, <2>4 DEF Admission
  <2>6. minted' = Append(minted, x) /\ events' = Y!Trimmed(Append(events, x), x.at - Retention)
    BY <2>2, <2>5
  <2> HIDE DEF x
  <2> QED BY <1>6, <2>1, <2>4, <2>5, <2>6
<1>9. ASSUME NEW i \in Issuer, Y!Reward(i) \/ Y!Penalize(i) PROVE MintInv'
  BY <1>3, <1>9 DEF Y!Reward, Y!Penalize
<1>10. CASE UNCHANGED Y!vars BY <1>3, <1>10 DEF Y!vars
<1> QED BY <1>4, <1>5, <1>7, <1>8, <1>9, <1>10 DEF Y!Next

\* For any quotas, windows and number of callers: in no window does an issuer, or
\* its whole tenant, mint more identities than its quota and one for each further
\* caller, although evaluating and recording are separate calls and the ledger is
\* trimmed by the time of each admission (SybilDeterrence.evaluate,
\* record_admission, InMemorySybilLedger._trim).
THEOREM QuotasHeld == Y!Spec => []QuotaHeld
<1>1. Y!Init => MintInv
  <2> SUFFICES ASSUME Y!Init PROVE MintInv OBVIOUS
  <2>1. /\ day = 0 /\ callers \in SUBSET Admitter /\ callers # {} /\ events = <<>> /\ minted = <<>>
        /\ admitting = [c \in Admitter |-> Nothing]
    BY DEF Y!Init
  <2>2. MintTypes BY <2>1 DEF MintTypes
  <2>3. Ledger(events, minted, day)
    <3>1. Len(<<>>) = 0 /\ Len(<<>>) = 0 + Len(<<>>) /\ 1..0 = {} OBVIOUS
    <3> QED BY <2>1, <3>1 DEF Ledger
  <2>4. MaxPerIssuer \in Nat /\ MaxPerTenant \in Nat BY SybilAssumption DEF Y!SybilConstants
  <2>5. Cardinality(callers) \in Nat /\ Cardinality(callers) > 0
    <3>1. IsFiniteSet(Admitter)
      BY SybilAssumption, Zenon DEF Y!SybilConstants, Y!IsFiniteSet, IsFiniteSet
    <3>2. IsFiniteSet(callers) BY <2>1, <3>1, FS_Subset
    <3> QED BY <2>1, <3>2, FS_EmptySet, FS_CardinalityType
  <2>6. ASSUME NEW is, NEW cap \in Nat PROVE Within(minted, admitting, callers, is, cap)
    <3>1. \A a : Minting(minted, is, a) = {} BY <2>1 DEF Minting
    <3>2. \A a : Pending(admitting, callers, is, a) = {} BY <2>1 DEF Pending
    <3> QED BY <2>5, <3>1, <3>2, FS_EmptySet DEF Within
  <2> QED BY <2>1, <2>2, <2>3, <2>4, <2>6 DEF MintInv
<1>2. MintInv => QuotaHeld
  <2> SUFFICES ASSUME MintInv PROVE QuotaHeld OBVIOUS
  <2>1. \A S : Y!Cardinality(S) = Cardinality(S) BY Zenon DEF Y!Cardinality, Cardinality
  <2>2. ASSUME NEW is, NEW cap \in Nat, NEW a \in Nat,
               Within(minted, admitting, callers, is, cap)
        PROVE  Y!MintedIn(is, a, a + MintWindow) <= cap + (Y!Cardinality(callers) - 1)
    <3>1. Y!MintedIn(is, a, a + MintWindow) = Cardinality(Minting(minted, is, a))
      BY <2>1 DEF Y!MintedIn, Minting
    <3>2. Cardinality(Minting(minted, is, a)) + Cardinality(Pending(admitting, callers, is, a))
            <= cap + (Cardinality(callers) - 1)
      BY <2>2 DEF Within
    <3>3. /\ Cardinality(Minting(minted, is, a)) \in Nat
          /\ Cardinality(Pending(admitting, callers, is, a)) \in Nat
          /\ Cardinality(callers) \in Nat
      BY MintFinite DEF MintInv, MintTypes
    <3> QED BY <2>1, <3>1, <3>2, <3>3
  <2>3. MaxPerIssuer \in Nat /\ MaxPerTenant \in Nat /\ 0..MaxDay \subseteq Nat
    BY SybilAssumption DEF Y!SybilConstants
  <2>4. ASSUME NEW i \in Issuer, NEW a \in 0..MaxDay
        PROVE  /\ Y!MintedIn({i}, a, a + MintWindow) <= MaxPerIssuer + (Y!Cardinality(callers) - 1)
               /\ Y!MintedIn(Y!Tenants(i), a, a + MintWindow)
                    <= MaxPerTenant + (Y!Cardinality(callers) - 1)
    BY <2>2, <2>3 DEF MintInv
  <2> QED BY <2>4, Zenon DEF QuotaHeld, Y!QuotaHeld
<1> QED BY <1>1, <1>2, MintNext, PTL DEF Y!Spec

=============================================================================
