--------------------------- MODULE Dataset_proofs ---------------------------
(***************************************************************************)
(* Proofs about the dataset build, for any inventory of artifacts, any     *)
(* sources and any number of commands: a file that passes for verified is  *)
(* of one version, a receipt is of the products that are there, a sample   *)
(* has its minimum of people from everywhere, no stage refuses what an     *)
(* earlier one accepted, and nobody of an exported day teleports.          *)
(***************************************************************************)
EXTENDS DatasetBuild, SequenceTheorems, FiniteSetTheorems, WellFoundedInduction, TLAPS

-----------------------------------------------------------------------------
(* Ranks and samples.                                                      *)

\* A use of the hash puts some people in a strict order.
Orders(use, some) ==
  \A p, q \in some :
    /\ Shuffle[use][p.id] \in Int
    /\ Shuffle[use][p.id] = Shuffle[use][q.id] => p = q

\* The first n of them.
FirstOf(some, n, use) == {p \in some : Rank(p, some, use) <= n}

\* Ranks begin at 1, end at the number of people, and are different for different people.
LEMMA Ranks ==
  ASSUME NEW some, IsFiniteSet(some), NEW use, Orders(use, some)
  PROVE  [p \in some |-> Rank(p, some, use)] \in Bijection(some, 1..Cardinality(some))
PROOF
<1> DEFINE Before(p) == {q \in some : Shuffle[use][q.id] < Shuffle[use][p.id]}
           n == Cardinality(some)
           f == [p \in some |-> Rank(p, some, use)]
<1>1. n \in Nat
  BY FS_CardinalityType
<1>2. \A p \in some : /\ IsFiniteSet(Before(p)) /\ Cardinality(Before(p)) \in Nat
                      /\ p \notin Before(p)
                      /\ Rank(p, some, use) = 1 + Cardinality(Before(p))
  <2> TAKE p \in some
  <2>1. Before(p) \in SUBSET some
    OBVIOUS
  <2>2. IsFiniteSet(Before(p))
    BY <2>1, FS_Subset
  <2>3. p \notin Before(p)
    BY DEF Orders
  <2> QED
    BY <2>2, <2>3, FS_CardinalityType DEF Rank
<1>3. \A p \in some : Rank(p, some, use) \in 1..n
  <2> TAKE p \in some
  <2>1. Before(p) \cup {p} \in SUBSET some
    OBVIOUS
  <2>2. Cardinality(Before(p) \cup {p}) <= n
    BY <2>1, FS_Subset
  <2>3. Cardinality(Before(p) \cup {p}) = Cardinality(Before(p)) + 1
    BY <1>2, FS_AddElement
  <2> HIDE DEF Before, n
  <2> QED
    BY <1>1, <1>2, <2>2, <2>3
<1>4. \A p, q \in some : p # q => Rank(p, some, use) # Rank(q, some, use)
  <2>1. \A p, q \in some : Shuffle[use][p.id] < Shuffle[use][q.id]
          => Rank(p, some, use) < Rank(q, some, use)
    <3> SUFFICES ASSUME NEW p \in some, NEW q \in some, Shuffle[use][p.id] < Shuffle[use][q.id]
                 PROVE  Rank(p, some, use) < Rank(q, some, use)
      OBVIOUS
    <3>1. Before(p) \cup {p} \in SUBSET Before(q)
      BY DEF Orders
    <3>2. Cardinality(Before(p) \cup {p}) <= Cardinality(Before(q))
      BY <1>2, <3>1, FS_Subset
    <3>3. Cardinality(Before(p) \cup {p}) = Cardinality(Before(p)) + 1
      BY <1>2, FS_AddElement
    <3> HIDE DEF Before
    <3> QED
      BY <1>2, <3>2, <3>3
  <2>2. \A p \in some : Rank(p, some, use) \in Int
    BY <1>1, <1>3
  <2>3. \A p, q \in some : p # q => \/ Shuffle[use][p.id] < Shuffle[use][q.id]
                                     \/ Shuffle[use][q.id] < Shuffle[use][p.id]
    BY DEF Orders
  <2> HIDE DEF f, n, Before
  <2> QED
    BY <2>1, <2>2, <2>3
<1> HIDE DEF n
<1>5. f \in Injection(some, 1..n)
  BY <1>3, <1>4 DEF Injection, IsInjective
<1>6. IsFiniteSet(1..n) /\ Cardinality(1..n) = n
  BY <1>1, FS_Interval
<1>7. f \in Surjection(some, 1..n)
  BY <1>5, <1>6, FS_Injection DEF n
<1> QED
  BY <1>5, <1>7 DEF Bijection, n

\* There are n first people, if there are that many at all, and never more than n.
LEMMA HowManyFirst ==
  ASSUME NEW some, IsFiniteSet(some), NEW use, Orders(use, some), NEW n \in Nat
  PROVE  /\ IsFiniteSet(FirstOf(some, n, use))
         /\ Cardinality(FirstOf(some, n, use)) <= n
         /\ n <= Cardinality(some) => Cardinality(FirstOf(some, n, use)) = n
PROOF
<1> DEFINE f == [p \in some |-> Rank(p, some, use)]
           size == Cardinality(some)
           m == IF n <= size THEN n ELSE size
           F == FirstOf(some, n, use)
           g == [p \in F |-> Rank(p, some, use)]
<1>1. size \in Nat
  BY FS_CardinalityType
<1>2. f \in Bijection(some, 1..size)
  BY Ranks
<1>3. /\ \A p \in some : Rank(p, some, use) \in 1..size
      /\ \A p, q \in some : Rank(p, some, use) = Rank(q, some, use) => p = q
      /\ \A r \in 1..size : \E p \in some : Rank(p, some, use) = r
  BY <1>2 DEF Bijection, Injection, IsInjective, Surjection
<1>4. F \subseteq some
  BY DEF FirstOf
<1> HIDE DEF size
<1>5. \A p \in F : Rank(p, some, use) \in 1..m
  BY <1>1, <1>3 DEF FirstOf
<1>6. \A r \in 1..m : \E p \in F : Rank(p, some, use) = r
  BY <1>1, <1>3 DEF FirstOf
<1>7. g \in Bijection(F, 1..m)
  <2> HIDE DEF m, F
  <2>1. g \in Injection(F, 1..m)
    BY <1>3, <1>4, <1>5 DEF Injection, IsInjective
  <2>2. g \in Surjection(F, 1..m)
    BY <1>5, <1>6 DEF Surjection
  <2> QED
    BY <2>1, <2>2 DEF Bijection
<1>8. IsFiniteSet(F)
  BY <1>4, FS_Subset
<1>9. Cardinality(1..m) = Cardinality(F)
  <2> HIDE DEF F, g, m
  <2>1. ExistsBijection(F, 1..m)
    BY <1>7 DEF ExistsBijection
  <2> QED
    BY <1>8, <2>1, FS_Bijection
<1>10. m \in Nat /\ Cardinality(1..m) = m
  <2>1. m \in Nat
    BY <1>1
  <2> HIDE DEF m
  <2> QED
    BY <2>1, FS_Interval
<1> HIDE DEF F
<1> QED
  BY <1>1, <1>8, <1>9, <1>10 DEF F, size

\* Those of a CBSA.
In(people, cbsa) == {p \in people : p.cbsa = cbsa}

\* Nobody's order among some people changes when there are fewer of them.
LEMMA FewerInOrder ==
  ASSUME NEW use, NEW some, Orders(use, some), NEW fewer \in SUBSET some
  PROVE  Orders(use, fewer)
PROOF
  BY DEF Orders

\* Of every CBSA with enough people the minimum is reserved.
LEMMA ReservedOfCbsa ==
  ASSUME NEW people, IsFiniteSet(people), Orders("draw", people), MinimumPerCbsa \in Nat,
         NEW cbsa, Cardinality(In(people, cbsa)) >= MinimumPerCbsa
  PROVE  Cardinality(In(Reserved(people), cbsa)) = MinimumPerCbsa
PROOF
<1>1. In(people, cbsa) \in SUBSET people
  BY DEF In
<1>2. IsFiniteSet(In(people, cbsa)) /\ Cardinality(In(people, cbsa)) \in Nat
  BY <1>1, FS_Subset, FS_CardinalityType
<1>3. Orders("draw", In(people, cbsa))
  BY <1>1, FewerInOrder
<1>4. Cardinality(FirstOf(In(people, cbsa), MinimumPerCbsa, "draw")) = MinimumPerCbsa
  BY <1>2, <1>3, HowManyFirst
<1>5. In(Reserved(people), cbsa) = FirstOf(In(people, cbsa), MinimumPerCbsa, "draw")
  BY DEF In, Reserved, FirstOf
<1> QED
  BY <1>4, <1>5

\* No more people of a CBSA make room than are added.
LEMMA RemovedOfCbsa ==
  ASSUME NEW chosen, IsFiniteSet(chosen), Orders("removal", chosen), NEW seed,
         NEW missing, IsFiniteSet(missing), NEW cbsa
  PROVE  Cardinality(In(Removed(chosen, seed, missing), cbsa)) <= Cardinality(In(missing, cbsa))
PROOF
<1> DEFINE free == {p \in chosen : \A t \in seed : p.id \notin {t.a, t.b}}
           needed == Cardinality(In(missing, cbsa))
<1>1. In(free, cbsa) \in SUBSET chosen /\ In(missing, cbsa) \in SUBSET missing
  BY DEF In
<1>2. IsFiniteSet(In(free, cbsa)) /\ needed \in Nat
  BY <1>1, FS_Subset, FS_CardinalityType
<1>3. Orders("removal", In(free, cbsa))
  BY <1>1, FewerInOrder
<1>4. Cardinality(FirstOf(In(free, cbsa), needed, "removal")) <= needed
  <2> HIDE DEF free, needed
  <2> QED
    BY <1>2, <1>3, HowManyFirst
<1>5. In(Removed(chosen, seed, missing), cbsa) = FirstOf(In(free, cbsa), needed, "removal")
  BY DEF In, Removed, FirstOf
<1> QED
  BY <1>4, <1>5

\* A sample has the minimum of people of every CBSA that has as many.
LEMMA SampleOfCbsa ==
  ASSUME NEW people, IsFiniteSet(people), MinimumPerCbsa \in Nat,
         Orders("draw", people), Orders("removal", people), NEW ties,
         NEW cbsa, Cardinality(In(people, cbsa)) >= MinimumPerCbsa
  PROVE  Cardinality(In(Sampled(people, ties).people, cbsa)) >= MinimumPerCbsa
PROOF
<1> DEFINE reserved == Reserved(people)
           chosen == reserved \cup RoundRobin(people, reserved)
           seed == SeedTies(people, chosen, ties)
           missing == Missing(people, chosen, seed)
           removed == Removed(chosen, seed, missing)
           sample == (chosen \ removed) \cup missing
<1>1. Sampled(people, ties).people = sample
  BY DEF Sampled
<1>2. chosen \in SUBSET people /\ reserved \subseteq chosen
  BY DEF Reserved, RoundRobin
<1>3. missing \in SUBSET people /\ missing \cap chosen = {}
  BY DEF Missing
<1>4. removed \subseteq chosen
  BY DEF Removed
<1>5. IsFiniteSet(chosen) /\ IsFiniteSet(missing)
  BY <1>2, <1>3, FS_Subset
<1>6. Orders("removal", chosen)
  BY <1>2, FewerInOrder
<1>7. Cardinality(In(reserved, cbsa)) = MinimumPerCbsa
  BY ReservedOfCbsa
<1>8. Cardinality(In(removed, cbsa)) <= Cardinality(In(missing, cbsa))
  BY <1>5, <1>6, RemovedOfCbsa
<1> HIDE DEF reserved, chosen, seed, missing, removed
<1> DEFINE C == In(chosen, cbsa)
           R == In(removed, cbsa)
           M == In(missing, cbsa)
<1>9. /\ C \in SUBSET chosen /\ M \in SUBSET missing /\ R \in SUBSET C
      /\ In(reserved, cbsa) \in SUBSET C
      /\ (C \ R) \cap M = {} /\ In(sample, cbsa) = (C \ R) \cup M
      /\ C \cap R = R
  BY <1>2, <1>3, <1>4 DEF In
<1> HIDE DEF C, R, M
<1>10. /\ IsFiniteSet(C) /\ IsFiniteSet(M) /\ IsFiniteSet(R)
       /\ Cardinality(C) \in Nat /\ Cardinality(M) \in Nat /\ Cardinality(R) \in Nat
  BY <1>5, <1>9, FS_Subset, FS_CardinalityType
<1>11. Cardinality(C) >= MinimumPerCbsa
  BY <1>7, <1>9, <1>10, FS_Subset
<1>12. IsFiniteSet(C \ R) /\ Cardinality(C \ R) = Cardinality(C) - Cardinality(R)
  BY <1>9, <1>10, FS_Difference
<1>13. Cardinality((C \ R) \cup M)
          = Cardinality(C \ R) + Cardinality(M) - Cardinality((C \ R) \cap M)
  BY <1>10, <1>12, FS_Union
<1>14. Cardinality((C \ R) \cap M) = 0
  BY <1>9, FS_EmptySet
<1>15. Cardinality(R) <= Cardinality(M)
  BY <1>8 DEF R, M
<1>16. Cardinality((C \ R) \cup M) >= MinimumPerCbsa
  BY <1>10, <1>11, <1>12, <1>13, <1>14, <1>15
<1> QED
  BY <1>1, <1>9, <1>16

\* What Population returns is of the size of the profile and leaves no CBSA out.
LEMMA PopulationIsExact ==
  ASSUME NEW w \in DOMAIN Worlds, NEW profile \in Profiles[w]
  PROVE  /\ Cardinality(profile.people) = PersonLimit
         /\ \A cbsa \in Worlds[w].cbsas :
              Cardinality({p \in profile.people : p.cbsa = cbsa}) >= MinimumPerCbsa
PROOF
<1> DEFINE source == Worlds[w].source
           tables == StateTables(source)
           people == CandidatePeople(tables, Worlds[w].cbsas)
           sample == Sampled(people, tables.ties)
<1>1. profile \in Population(source, Worlds[w].cbsas)
  BY DEF Profiles
<1>2. /\ Enough(people, Worlds[w].cbsas)
      /\ profile = ProfileTables(tables, sample.people)
      /\ ProfileAccepted(profile, Worlds[w].cbsas)
  BY <1>1 DEF Population
<1>3. profile.people = sample.people
  <2> HIDE DEF tables, sample
  <2> QED
    BY <1>2 DEF ProfileTables
<1>4. people \in SUBSET PersonRows(source)
  BY DEF CandidatePeople, StateTables
<1>5. IsFiniteSet(people) /\ MinimumPerCbsa \in Nat
  <2>1. people \in SUBSET source.people
    BY DEF CandidatePeople, StateTables, PersonRows
  <2>2. IsFiniteSet(source.people) /\ MinimumPerCbsa \in Nat
    BY DatasetAssumption
  <2> HIDE DEF people, source
  <2> QED
    BY <2>1, <2>2, FS_Subset
<1>6. Orders("draw", people) /\ Orders("removal", people)
  <2>1. \A use \in {"draw", "removal"} : Orders(use, PersonRows(source))
    BY DatasetAssumption DEF Orders
  <2> HIDE DEF people, source
  <2> QED
    BY <1>4, <2>1, FewerInOrder
<1>7. sample.people \subseteq people
  BY DEF Sampled, Reserved, RoundRobin, Missing
<1>8. ASSUME NEW cbsa \in Worlds[w].cbsas
      PROVE  Cardinality(In(people, cbsa)) >= MinimumPerCbsa
  <2>1. PICK p \in people : p.cbsa = cbsa
    BY <1>2, <1>3, <1>7 DEF ProfileAccepted
  <2> QED
    BY <1>2, <2>1 DEF Enough, In
<1> HIDE DEF people, tables
<1>9. ASSUME NEW cbsa \in Worlds[w].cbsas
      PROVE  Cardinality(In(sample.people, cbsa)) >= MinimumPerCbsa
  BY <1>5, <1>6, <1>8, SampleOfCbsa
<1> QED
  BY <1>2, <1>3, <1>9 DEF ProfileAccepted, In
-----------------------------------------------------------------------------
(* Folds.  The community modules define a fold by a function on the        *)
(* subsets of a set; there is one, by induction on their cardinality, and  *)
(* on the prefixes of a sequence it takes one step after another.          *)

\* A set of naturals has a least element.
LEMMA LeastNat == ASSUME NEW S \in SUBSET Nat, S # {} PROVE \E x \in S : \A y \in S : x <= y
<1> DEFINE R == OpToRel(<, Nat)
<1>1. IsWellFoundedOn(R, Nat)
  BY NatLessThanWellFounded
<1> HIDE DEF R
<1>2. \E x \in S : \A y \in S : <<y, x>> \notin R
  BY <1>1, WFMin
<1>3. \A x, y \in S : <<y, x>> \notin R => x <= y
  BY DEF R, OpToRel
<1> QED
  BY <1>2, <1>3

\* The community modules' Min is the least element of a set of naturals,
\* and their Max the greatest of a set with a bound.
LEMMA MaxOfNats ==
  ASSUME NEW S \in SUBSET Nat, S # {}, NEW n \in Nat, \A y \in S : y <= n
  PROVE  Max(S) \in S /\ \A y \in S : y <= Max(S)
<1> DEFINE T == {n - y : y \in S}
<1>1. T \in SUBSET Nat /\ T # {}
  <2>1. \A y \in S : n - y \in Nat
    OBVIOUS
  <2>2. PICK y \in S : TRUE
    OBVIOUS
  <2>3. n - y \in T
    OBVIOUS
  <2> QED BY <2>1, <2>3
<1>2. PICK x \in T : \A y \in T : x <= y
  BY <1>1, LeastNat
<1>3. PICK m \in S : x = n - m
  OBVIOUS
<1>4. \A y \in S : y <= m
  <2> SUFFICES ASSUME NEW y \in S PROVE y <= m
    OBVIOUS
  <2>1. n - m <= n - y
    BY <1>2, <1>3
  <2> QED BY <2>1
<1> QED BY <1>4 DEF Max

\* Induction over the naturals, for a set.
LEMMA Induction ==
  ASSUME NEW G \in SUBSET Nat, 0 \in G, \A n \in Nat : n \in G => n + 1 \in G
  PROVE  G = Nat
<1> SUFFICES ASSUME Nat \ G # {} PROVE FALSE
  OBVIOUS
<1>1. PICK n \in Nat \ G : \A k \in Nat \ G : n <= k
  BY LeastNat
<1>2. n # 0 /\ n - 1 \in Nat /\ ~(n <= n - 1) /\ (n - 1) + 1 = n
  BY <1>1
<1>3. n - 1 \in G
  BY <1>1, <1>2
<1> QED BY <1>1, <1>2, <1>3

\* To take an element out of a subset of a finite set makes it smaller by one.
LEMMA OneLess ==
  ASSUME NEW S, IsFiniteSet(S), NEW s \in SUBSET S
  PROVE  /\ IsFiniteSet(s) /\ Cardinality(s) \in Nat /\ Cardinality(s) <= Cardinality(S)
         /\ Cardinality(s) = 0 <=> s = {}
         /\ \A x \in s : s \ {x} \in SUBSET S /\ Cardinality(s \ {x}) + 1 = Cardinality(s)
<1>1. IsFiniteSet(s) /\ Cardinality(s) \in Nat /\ Cardinality(s) <= Cardinality(S)
  BY FS_Subset, FS_CardinalityType
<1>2. Cardinality(s) = 0 <=> s = {}
  BY <1>1, FS_EmptySet
<1>3. ASSUME NEW x \in s PROVE s \ {x} \in SUBSET S /\ Cardinality(s \ {x}) + 1 = Cardinality(s)
  <2>1. Cardinality(s \ {x}) = Cardinality(s) - 1
    BY <1>1, FS_RemoveElement
  <2> QED BY <1>1, <2>1
<1> QED BY <1>1, <1>2, <1>3

\* A choice of an element of every subset, and steps from T to T for every element.
Picks(pick, S) == \A s \in SUBSET S : s # {} => pick[s] \in s
StepsFor(step, S, T) == \A x \in S : \A t \in T : step[x][t] \in T

\* f(s) is the fold of the subset s.
IsFold(f, S, T, base, pick, step) ==
  /\ f \in [SUBSET S -> T]
  /\ \A s \in SUBSET S : f[s] = IF s = {} THEN base ELSE step[pick[s]][f[s \ {pick[s]}]]

\* There is such a function, by induction on the size of the subsets.
LEMMA FoldExists ==
  ASSUME NEW S, IsFiniteSet(S), NEW T, NEW base \in T, NEW pick, NEW step,
         Picks(pick, S), StepsFor(step, S, T)
  PROVE  \E f : IsFold(f, S, T, base, pick, step)
<1> DEFINE Small(n) == {s \in SUBSET S : Cardinality(s) <= n}
           Folds(f, n) ==
             \A s \in Small(n) : f[s] = IF s = {} THEN base ELSE step[pick[s]][f[s \ {pick[s]}]]
           G == {n \in Nat : \E f \in [Small(n) -> T] : Folds(f, n)}
<1>0. ASSUME NEW n \in Nat, NEW s \in Small(n + 1), s # {}
      PROVE  s \ {pick[s]} \in Small(n) /\ s \ {pick[s]} \in Small(n + 1)
  <2> DEFINE r == s \ {pick[s]}
             c == Cardinality(s)
             d == Cardinality(r)
  <2>1. s \in SUBSET S /\ pick[s] \in s
    BY <1>0 DEF Picks
  <2>2. r \in SUBSET S /\ d + 1 = c /\ c \in Nat
    BY <2>1, OneLess
  <2>3. d \in Nat
    BY <2>2, OneLess
  <2>4. c <= n + 1
    BY <1>0
  <2> HIDE DEF r, c, d
  <2>5. d <= n /\ d <= n + 1
    BY <2>2, <2>3, <2>4
  <2> QED BY <2>2, <2>5 DEF r, d
<1>1. 0 \in G
  <2> DEFINE f == [s \in Small(0) |-> base]
  <2>1. \A s \in Small(0) : s = {}
    <3> SUFFICES ASSUME NEW s \in SUBSET S, Cardinality(s) <= 0 PROVE s = {}
      OBVIOUS
    <3>1. Cardinality(s) \in Nat /\ (Cardinality(s) = 0 <=> s = {})
      BY OneLess
    <3> QED BY <3>1
  <2>2. f \in [Small(0) -> T] /\ Folds(f, 0)
    BY <2>1
  <2> QED BY <2>2
<1>2. ASSUME NEW n \in Nat, n \in G PROVE n + 1 \in G
  <2>1. PICK f \in [Small(n) -> T] : Folds(f, n)
    BY <1>2
  <2> DEFINE g == [s \in Small(n + 1) |->
                     IF s = {} THEN base ELSE step[pick[s]][f[s \ {pick[s]}]]]
  <2>2. \A s \in Small(n + 1) : s # {} => s \ {pick[s]} \in Small(n) /\ s \ {pick[s]} \in Small(n + 1)
    BY <1>0, <1>2
  <2>3. \A s \in Small(n) : s \in Small(n + 1)
    <3> SUFFICES ASSUME NEW s \in SUBSET S, Cardinality(s) <= n PROVE Cardinality(s) <= n + 1
      OBVIOUS
    <3>1. Cardinality(s) \in Nat
      BY OneLess
    <3> QED BY <3>1
  <2>4. \A s \in Small(n) : g[s] = f[s]
    BY <2>1, <2>3
  <2>5. \A s \in Small(n + 1) : g[s] \in T
    <3> SUFFICES ASSUME NEW s \in Small(n + 1), s # {} PROVE step[pick[s]][f[s \ {pick[s]}]] \in T
      OBVIOUS
    <3>1. f[s \ {pick[s]}] \in T /\ pick[s] \in S
      BY <2>1, <2>2 DEF Picks
    <3> QED BY <3>1 DEF StepsFor
  <2>6. g \in [Small(n + 1) -> T]
    BY <2>5
  <2>7. Folds(g, n + 1)
    <3> SUFFICES ASSUME NEW s \in Small(n + 1)
                 PROVE  g[s] = IF s = {} THEN base ELSE step[pick[s]][g[s \ {pick[s]}]]
      OBVIOUS
    <3>1. g[s] = IF s = {} THEN base ELSE step[pick[s]][f[s \ {pick[s]}]]
      OBVIOUS
    <3>2. s # {} => g[s \ {pick[s]}] = f[s \ {pick[s]}]
      BY <2>2, <2>4
    <3> HIDE DEF g
    <3> QED BY <3>1, <3>2
  <2>8. n + 1 \in Nat
    OBVIOUS
  <2> HIDE DEF g, Folds, Small
  <2> QED BY <2>6, <2>7, <2>8
<1>3. G = Nat
  <2>1. G \in SUBSET Nat
    OBVIOUS
  <2> HIDE DEF G
  <2> QED BY <1>1, <1>2, <2>1, Induction
<1> DEFINE c == Cardinality(S)
<1>4. c \in Nat /\ Small(c) = SUBSET S
  <2>1. c \in Nat /\ \A s \in SUBSET S : Cardinality(s) <= c
    BY FS_Subset, FS_CardinalityType
  <2> HIDE DEF c
  <2> QED BY <2>1
<1>5. PICK f \in [Small(c) -> T] : Folds(f, c)
  <2>1. c \in G
    BY <1>3, <1>4
  <2> HIDE DEF c, Small, Folds
  <2> QED BY <2>1
<1> HIDE DEF c, Small
<1> QED BY <1>4, <1>5 DEF IsFold

\* Folds over the indices of a sequence, the greatest one last.
FoldsIndices(f, n, T, base, step) ==
  /\ f \in [SUBSET (1..n) -> T]
  /\ \A s \in SUBSET (1..n) :
       /\ s = {} => f[s] = base
       /\ s # {} => /\ Max(s) \in 1..n /\ f[s \ {Max(s)}] \in T
                    /\ f[s] = step[Max(s)][f[s \ {Max(s)}]]

\* The fold of the indices of a sequence, one of them after another.
LEMMA FoldOfIndices ==
  ASSUME NEW n \in Nat, NEW T, NEW base \in T, NEW step, StepsFor(step, 1..n, T)
  PROVE  \E f : FoldsIndices(f, n, T, base, step)
<1> DEFINE S == 1..n
           pick == [s \in SUBSET S |-> Max(s)]
<1>1. IsFiniteSet(S)
  BY FS_Interval
<1>2. \A s \in SUBSET S : s # {} => Max(s) \in s
  <2> SUFFICES ASSUME NEW s \in SUBSET S, s # {} PROVE Max(s) \in s
    OBVIOUS
  <2>1. s \in SUBSET Nat /\ \A y \in s : y <= n
    OBVIOUS
  <2> QED BY <2>1, MaxOfNats
<1> HIDE DEF S
<1>3. Picks(pick, S)
  <2> HIDE DEF pick
  <2>1. \A s \in SUBSET S : pick[s] = Max(s)
    BY DEF pick
  <2> QED BY <1>2, <2>1 DEF Picks
<1>4. PICK f : IsFold(f, S, T, base, pick, step)
  <2> HIDE DEF pick
  <2>1. StepsFor(step, S, T)
    BY DEF S
  <2> QED BY <1>1, <1>3, <2>1, FoldExists
<1>5. \A s \in SUBSET S :
           /\ s = {} => f[s] = base
           /\ s # {} => /\ Max(s) \in S /\ f[s \ {Max(s)}] \in T
                        /\ f[s] = step[Max(s)][f[s \ {Max(s)}]]
  BY <1>2, <1>4 DEF IsFold
<1>6. f \in [SUBSET S -> T]
  BY <1>4 DEF IsFold
<1> QED BY <1>5, <1>6 DEF S, FoldsIndices

\* The indices of a prefix, the last of which is their greatest.
LEMMA PrefixIs ==
  ASSUME NEW n \in Nat, NEW i \in 1..n
  PROVE  /\ 1..i \in SUBSET (1..n) /\ 1..i # {} /\ Max(1..i) = i
         /\ 1..(i - 1) \in SUBSET (1..n) /\ (1..i) \ {i} = 1..(i - 1)
<1>1. 1..i \in SUBSET Nat /\ 1..i # {} /\ \A y \in 1..i : y <= i
  OBVIOUS
<1>2. Max(1..i) \in 1..i /\ \A y \in 1..i : y <= Max(1..i)
  <2> DEFINE s == 1..i
  <2>1. s \in SUBSET Nat /\ s # {} /\ i \in Nat /\ \A y \in s : y <= i
    BY <1>1
  <2> HIDE DEF s
  <2>2. Max(s) \in s /\ \A y \in s : y <= Max(s)
    BY <2>1, MaxOfNats
  <2> QED BY <2>2 DEF s
<1>3. i \in 1..i
  OBVIOUS
<1>4. Max(1..i) <= i /\ i <= Max(1..i) /\ Max(1..i) \in Nat
  BY <1>2, <1>3
<1>5. Max(1..i) = i
  <2> DEFINE m == Max(1..i)
  <2> HIDE DEF m
  <2> QED BY <1>4 DEF m
<1> QED BY <1>5

\* Induction over the numbers up to n.
LEMMA UpTo ==
  ASSUME NEW n \in Nat, NEW G, 0 \in G, \A i \in 1..n : i - 1 \in G => i \in G
  PROVE  \A i \in 0..n : i \in G
<1> DEFINE H == {i \in Nat : i <= n => i \in G}
<1>1. 0 \in H
  OBVIOUS
<1>2. \A i \in Nat : i \in H => i + 1 \in H
  <2> SUFFICES ASSUME NEW i \in Nat, i \in H, i + 1 <= n PROVE i + 1 \in G
    OBVIOUS
  <2>1. i \in G /\ i + 1 \in 1..n /\ (i + 1) - 1 = i
    OBVIOUS
  <2> QED BY <2>1
<1>3. H = Nat
  <2>1. H \in SUBSET Nat
    OBVIOUS
  <2> HIDE DEF H
  <2> QED BY <1>1, <1>2, <2>1, Induction
<1>4. \A i \in Nat : i <= n => i \in G
  BY <1>3
<1> QED BY <1>4
\* The greater of two numbers.
LEMMA MaxOfTwo ==
  ASSUME NEW a \in Int, NEW b \in Int
  PROVE  /\ Max({a, b}) \in Int /\ Max({a, b}) >= a /\ Max({a, b}) >= b
         /\ Max({a, b}) = a \/ Max({a, b}) = b
<1>1. Max({a, b}) = CHOOSE x \in {a, b} : \A y \in {a, b} : x >= y
  BY DEF Max
<1>2. \E x \in {a, b} : \A y \in {a, b} : x >= y
  <2>1. CASE a >= b
    BY <2>1
  <2>2. CASE b >= a
    BY <2>2
  <2> QED BY <2>1, <2>2
<1>3. Max({a, b}) \in {a, b} /\ \A y \in {a, b} : Max({a, b}) >= y
  BY <1>1, <1>2
<1> HIDE DEF Max
<1> QED BY <1>3
-----------------------------------------------------------------------------
(* Days.  Whatever a diary says, its rows become a whole day.              *)

\* The rows of a diary and of a donor's day.
DiaryRows == [kind : DiaryKinds, start : Int, end : Int]
Rows == [kind : DiaryKinds \cup {"home"}, start : Int, end : Int]

\* Rows that follow one another from the first minute to a given one.
UpToMinute(rows, minute) ==
  \/ rows = <<>> /\ minute = 0
  \/ /\ rows # <<>> /\ rows[1].start = 0 /\ rows[Len(rows)].end = minute
     /\ \A i \in 1..Len(rows) : rows[i].start < rows[i].end
     /\ \A i \in 1..(Len(rows) - 1) : rows[i].end = rows[i+1].start

\* Rows have minutes.
Timed(R) == \A row \in R : row.start \in Int /\ row.end \in Int

\* A whole day is one up to its last minute.
LEMMA WholeIsUpToEnd ==
  ASSUME NEW R, NEW rows \in Seq(R)
  PROVE  WholeDay(rows) <=> rows # <<>> /\ UpToMinute(rows, DayEnd)
<1>1. DOMAIN rows = 1..Len(rows)
  BY LenProperties
<1> QED
  BY <1>1, DayAssumption DEF WholeDay, UpToMinute, Last

\* A row that begins in the minute up to which a day goes makes it longer.
LEMMA OneMoreRow ==
  ASSUME NEW R, Timed(R), NEW rows \in Seq(R), NEW minute \in Int, UpToMinute(rows, minute),
         NEW row \in R, row.start = minute, row.start < row.end
  PROVE  /\ Append(rows, row) \in Seq(R) /\ Append(rows, row) # <<>>
         /\ UpToMinute(Append(rows, row), row.end)
<1> DEFINE n == Len(rows)
           more == Append(rows, row)
<1>1. /\ n \in Nat /\ more \in Seq(R) /\ more # <<>> /\ Len(more) = n + 1
      /\ \A i \in 1..n : more[i] = rows[i]
      /\ more[n + 1] = row
      /\ rows = <<>> => n = 0
      /\ rows # <<>> => n \in Nat \ {0}
  BY LenProperties, AppendProperties, EmptySeq
<1> HIDE DEF more, n
<1>2. ASSUME rows = <<>> PROVE UpToMinute(more, row.end)
  <2>1. Len(more) = 1 /\ more[1] = row /\ row.start = 0
    BY <1>1, <1>2 DEF UpToMinute
  <2>2. more # <<>> /\ row.start < row.end
    BY <1>1
  <2>3. \A i \in 1..Len(more) : more[i].start < more[i].end
    BY <2>1, <2>2
  <2>4. 1..(Len(more) - 1) = {}
    BY <2>1
  <2>5. more[1].start = 0 /\ more[Len(more)].end = row.end
    BY <2>1
  <2> QED BY <2>2, <2>3, <2>4, <2>5 DEF UpToMinute
<1>3. ASSUME rows # <<>> PROVE UpToMinute(more, row.end)
  <2>1. /\ rows[1].start = 0 /\ rows[n].end = minute
        /\ \A i \in 1..n : rows[i].start < rows[i].end
        /\ \A i \in 1..(n - 1) : rows[i].end = rows[i+1].start
    BY <1>3 DEF UpToMinute, n
  <2>2. more[1].start = 0 /\ more[n + 1].end = row.end
    BY <1>1, <1>3, <2>1
  <2>3. \A i \in 1..(n + 1) : more[i].start < more[i].end
    <3>1. \A i \in 1..n : more[i].start < more[i].end
      BY <1>1, <2>1
    <3>2. more[n + 1].start < more[n + 1].end
      BY <1>1
    <3>3. \A i \in 1..(n + 1) : i \in 1..n \/ i = n + 1
      BY <1>1
    <3> QED BY <3>1, <3>2, <3>3
  <2>4. \A i \in 1..n : more[i].end = more[i+1].start
    <3> SUFFICES ASSUME NEW i \in 1..n PROVE more[i].end = more[i+1].start
      OBVIOUS
    <3>1. CASE i = n
      <4>1. more[i] = rows[n] /\ more[i + 1] = row
        BY <1>1, <3>1
      <4> QED BY <2>1, <4>1
    <3>2. CASE i # n
      <4>1. i \in 1..(n - 1) /\ i + 1 \in 1..n
        BY <1>1, <3>2
      <4> QED BY <1>1, <2>1, <4>1
    <3> QED BY <3>1, <3>2
  <2>5. (n + 1) - 1 = n
    BY <1>1
  <2> QED BY <1>1, <2>2, <2>3, <2>4, <2>5 DEF UpToMinute
<1> QED BY <1>1, <1>2, <1>3 DEF more

\* The last row may end later.
LEMMA LongerRow ==
  ASSUME NEW R, Timed(R), NEW rows \in Seq(R), rows # <<>>, NEW minute \in Int, UpToMinute(rows, minute),
         NEW row \in R, row.start = rows[Len(rows)].start, row.start < row.end
  PROVE  /\ [rows EXCEPT ![Len(rows)] = row] \in Seq(R) /\ [rows EXCEPT ![Len(rows)] = row] # <<>>
         /\ UpToMinute([rows EXCEPT ![Len(rows)] = row], row.end)
<1> DEFINE n == Len(rows)
           more == [rows EXCEPT ![n] = row]
<1>0. n \in Nat \ {0}
  BY EmptySeq
<1>1. n \in 1..n
  BY <1>0
<1>2. more \in Seq(R) /\ Len(more) = n /\ \A i \in 1..n : more[i] = IF i = n THEN row ELSE rows[i]
  BY <1>1, ExceptSeq
<1>3. more # <<>>
  <2> HIDE DEF more, n
  <2> QED BY <1>0, <1>2, EmptySeq
<1> HIDE DEF more, n
<1>4. /\ rows[1].start = 0
      /\ \A i \in 1..n : rows[i].start < rows[i].end
      /\ \A i \in 1..(n - 1) : rows[i].end = rows[i+1].start
  BY DEF UpToMinute, n
<1>5. row.start = rows[n].start
  BY DEF n
<1>6. \A i \in 1..n : more[i].start = rows[i].start /\ (i # n => more[i].end = rows[i].end)
  BY <1>2, <1>5
<1>7. more[1].start = 0 /\ more[n].end = row.end
  BY <1>0, <1>1, <1>2, <1>4, <1>6
<1>8. \A i \in 1..n : more[i].start < more[i].end
  BY <1>2, <1>4
<1>9. \A i \in 1..(n - 1) : more[i].end = more[i+1].start
  <2> SUFFICES ASSUME NEW i \in 1..(n - 1) PROVE more[i].end = more[i+1].start
    OBVIOUS
  <2>1. i \in 1..n /\ i # n /\ i + 1 \in 1..n
    BY <1>0
  <2> QED BY <1>4, <1>6, <2>1
<1>10. UpToMinute(more, row.end)
  BY <1>2, <1>3, <1>7, <1>8, <1>9 DEF UpToMinute
<1> QED BY <1>2, <1>3, <1>10 DEF more, n
\* A day that Filled has filled up to a minute.
Partial == [cursor : Int, rows : Seq(Rows)]

\* A day that is filled up to its cursor.
FilledTo(day) == day.cursor \in 0..DayEnd /\ UpToMinute(day.rows, day.cursor)

\* So does to let the last row end later.
LEMMA Stretched ==
  ASSUME NEW rows \in Seq(Rows), rows # <<>>, NEW end \in Int
  PROVE  LET row == [kind |-> rows[Len(rows)].kind, start |-> rows[Len(rows)].start, end |-> end]
         IN row \in Rows /\ [rows EXCEPT ![Len(rows)].end = end] = [rows EXCEPT ![Len(rows)] = row]
<1> DEFINE n == Len(rows)
           last == rows[n]
<1>1. n \in 1..n
  BY EmptySeq
<1>2. last \in Rows
  BY <1>1, ElementOfSeq
<1>3. [rows EXCEPT ![n].end = end] = [rows EXCEPT ![n] = [last EXCEPT !.end = end]]
  OBVIOUS
<1> HIDE DEF n, last
<1>4. [last EXCEPT !.end = end] = [kind |-> last.kind, start |-> last.start, end |-> end]
  BY <1>2 DEF Rows
<1>5. [kind |-> last.kind, start |-> last.start, end |-> end] \in Rows
  BY <1>2 DEF Rows
<1> QED BY <1>3, <1>4, <1>5 DEF n, last

\* A step of Filled keeps a day that is whole so far.
LEMMA FillKeeps ==
  ASSUME NEW day \in Partial, NEW row \in Rows
  PROVE  /\ Fill(day, row) \in Partial
         /\ FilledTo(day) /\ row.start \in 0..DayEnd /\ row.end \in 0..DayEnd => FilledTo(Fill(day, row))
<1> DEFINE start == Max({day.cursor, row.start})
           gap == Row("home", day.cursor, row.start)
           sofar == IF row.start > day.cursor THEN Append(day.rows, gap) ELSE day.rows
           rest == Row(row.kind, start, row.end)
           stretched == [sofar EXCEPT ![Len(sofar)].end = row.end]
           rows == IF sofar # <<>> /\ Last(sofar).kind = row.kind THEN stretched ELSE Append(sofar, rest)
           fits == FilledTo(day) /\ row.start \in 0..DayEnd /\ row.end \in 0..DayEnd
<1>1. /\ day.cursor \in Int /\ day.rows \in Seq(Rows)
      /\ row.start \in Int /\ row.end \in Int /\ row.kind \in DiaryKinds \cup {"home"}
  BY DEF Partial, Rows
<1>2. start \in Int /\ start >= row.start /\ start >= day.cursor /\ (start = row.start \/ start = day.cursor)
  BY <1>1, MaxOfTwo
<1> HIDE DEF start
<1>3. Fill(day, row) = IF row.end <= start THEN day ELSE [cursor |-> row.end, rows |-> rows]
  BY DEF Fill, start
<1>4. gap \in Rows /\ gap.start = day.cursor /\ gap.end = row.start
  BY <1>1 DEF Row, Rows
<1>5. rest \in Rows /\ rest.start = start /\ rest.end = row.end
  BY <1>1, <1>2 DEF Row, Rows
<1> HIDE DEF gap, rest
<1>6. Timed(Rows)
  BY DEF Timed, Rows
<1>7. sofar \in Seq(Rows)
  BY <1>1, <1>4, AppendProperties
<1>8. ASSUME fits PROVE UpToMinute(sofar, start)
  <2>1. UpToMinute(day.rows, day.cursor)
    BY <1>8 DEF FilledTo
  <2>2. CASE row.start > day.cursor
    <3>1. start = row.start
      BY <1>1, <1>2, <2>2
    <3>2. UpToMinute(Append(day.rows, gap), gap.end)
      BY <1>1, <1>4, <1>6, <2>1, <2>2, OneMoreRow
    <3> QED BY <1>4, <2>2, <3>1, <3>2
  <2>3. CASE ~(row.start > day.cursor)
    BY <1>1, <1>2, <2>1, <2>3
  <2> QED BY <2>2, <2>3
<1> HIDE DEF sofar
<1>9. ASSUME row.end > start
      PROVE  rows \in Seq(Rows) /\ (fits => UpToMinute(rows, row.end))
  <2>1. CASE sofar # <<>> /\ Last(sofar).kind = row.kind
    <3> DEFINE last == [kind |-> sofar[Len(sofar)].kind, start |-> sofar[Len(sofar)].start, end |-> row.end]
    <3>1. last \in Rows /\ stretched = [sofar EXCEPT ![Len(sofar)] = last]
      BY <1>1, <1>7, <2>1, Stretched
    <3>2. Len(sofar) \in 1..Len(sofar)
      BY <1>7, <2>1, EmptySeq
    <3>3. stretched \in Seq(Rows)
      BY <1>7, <3>1, <3>2, ExceptSeq
    <3>4. ASSUME fits PROVE UpToMinute(stretched, row.end)
      <4>1. last.start = sofar[Len(sofar)].start /\ last.end = row.end
        OBVIOUS
      <4>2. sofar[Len(sofar)].start < sofar[Len(sofar)].end /\ sofar[Len(sofar)].end = start
        BY <1>8, <2>1, <3>2, <3>4 DEF UpToMinute
      <4>3. sofar[Len(sofar)] \in Rows
        BY <1>7, <3>2, ElementOfSeq
      <4>4. last.start < last.end
        BY <1>1, <1>2, <1>9, <4>1, <4>2, <4>3 DEF Rows
      <4> HIDE DEF last
      <4>5. UpToMinute([sofar EXCEPT ![Len(sofar)] = last], last.end)
        BY <1>2, <1>6, <1>7, <1>8, <2>1, <3>1, <3>4, <4>1, <4>4, LongerRow
      <4> QED BY <3>1, <4>1, <4>5
    <3> QED BY <2>1, <3>3, <3>4
  <2>2. CASE ~(sofar # <<>> /\ Last(sofar).kind = row.kind)
    <3>1. Append(sofar, rest) \in Seq(Rows)
      BY <1>5, <1>7, AppendProperties
    <3>2. ASSUME fits PROVE UpToMinute(Append(sofar, rest), row.end)
      <4>1. rest.start < rest.end
        BY <1>1, <1>2, <1>5, <1>9
      <4> QED BY <1>2, <1>5, <1>6, <1>7, <1>8, <3>2, <4>1, OneMoreRow
    <3> QED BY <2>2, <3>1, <3>2
  <2> QED BY <2>1, <2>2
<1> HIDE DEF rows
<1>10. CASE row.end <= start
  BY <1>3, <1>10
<1>11. CASE ~(row.end <= start)
  <2>1. row.end > start
    BY <1>1, <1>2, <1>11
  <2>2. Fill(day, row) = [cursor |-> row.end, rows |-> rows]
    BY <1>3, <1>11
  <2>3. [cursor |-> row.end, rows |-> rows] \in Partial
    BY <1>1, <1>9, <2>1 DEF Partial
  <2>4. fits => FilledTo([cursor |-> row.end, rows |-> rows])
    BY <1>9, <2>1 DEF FilledTo
  <2> QED BY <2>2, <2>3, <2>4
<1> QED BY <1>10, <1>11

\* A filled day is whole.
LEMMA FilledIsWhole ==
  ASSUME NEW rows \in Seq(Rows),
         \A i \in 1..Len(rows) : rows[i].start \in 0..DayEnd /\ rows[i].end \in 0..DayEnd
  PROVE  Filled(rows) \in Seq(Rows) /\ Filled(rows) # <<>> /\ UpToMinute(Filled(rows), DayEnd)
<1> DEFINE n == Len(rows)
           base == [cursor |-> 0, rows |-> <<>>]
           step == [i \in 1..n |-> [day \in Partial |-> Fill(day, rows[i])]]
           Is(f) == f = [s \in SUBSET (1..n) |->
                          IF s = {} THEN base ELSE Fill(f[s \ {Max(s)}], rows[Max(s)])]
           iter == CHOOSE f : Is(f)
           filled == FoldLeft(Fill, base, rows)
<1>1. n \in Nat /\ DOMAIN rows = 1..n /\ \A i \in 1..n : rows[i] \in Rows
  BY LenProperties, ElementOfSeq
<1>2. filled = iter[1..n]
  BY <1>1 DEF FoldLeft, MapThenFoldSet
<1>3. base \in Partial /\ FilledTo(base)
  BY DayAssumption DEF Partial, FilledTo, UpToMinute
<1> HIDE DEF n, base, filled
<1>4. \A i \in 1..n : \A day \in Partial : step[i][day] = Fill(day, rows[i]) /\ step[i][day] \in Partial
  BY <1>1, FillKeeps
<1>5. PICK f : FoldsIndices(f, n, Partial, base, step)
  <2> HIDE DEF step
  <2>1. StepsFor(step, 1..n, Partial)
    BY <1>4 DEF StepsFor
  <2>2. n \in Nat /\ base \in Partial
    BY <1>1, <1>3
  <2> QED BY <2>1, <2>2, FoldOfIndices
<1>6. Is(f)
  <2> HIDE DEF step
  <2>1. \A s \in SUBSET (1..n) : f[s] = IF s = {} THEN base ELSE Fill(f[s \ {Max(s)}], rows[Max(s)])
    BY <1>4, <1>5 DEF FoldsIndices
  <2> QED BY <1>5, <2>1 DEF FoldsIndices
<1> HIDE DEF step
<1>7. Is(iter)
  <2> HIDE DEF Is
  <2> QED BY <1>6
<1>8. iter[{}] = base /\ \A i \in 1..n : iter[1..i] = Fill(iter[1..(i-1)], rows[i])
  <2>1. \A s \in SUBSET (1..n) : iter[s] = IF s = {} THEN base ELSE Fill(iter[s \ {Max(s)}], rows[Max(s)])
    BY <1>7
  <2> HIDE DEF iter
  <2> QED BY <1>1, <2>1, PrefixIs
<1> HIDE DEF iter, Is
<1> DEFINE G == {i \in 0..n : iter[1..i] \in Partial /\ FilledTo(iter[1..i])}
<1>9. 0 \in G
  <2>1. 1..0 = {} /\ 0 \in 0..n
    BY <1>1
  <2> QED BY <1>3, <1>8, <2>1
<1>10. ASSUME NEW i \in 1..n, i - 1 \in G PROVE i \in G
  <2>1. rows[i].start \in 0..DayEnd /\ rows[i].end \in 0..DayEnd /\ i \in 0..n
    BY <1>1 DEF n
  <2>2. iter[1..(i-1)] \in Partial /\ FilledTo(iter[1..(i-1)])
    BY <1>10
  <2>3. iter[1..i] \in Partial /\ FilledTo(iter[1..i])
    BY <1>1, <1>8, <2>1, <2>2, FillKeeps
  <2> QED BY <2>1, <2>3
<1>11. n \in G
  <2> HIDE DEF G
  <2>1. \A i \in 0..n : i \in G
    BY <1>1, <1>9, <1>10, UpTo
  <2> QED BY <1>1, <2>1
<1>12. filled \in Partial /\ FilledTo(filled)
  BY <1>2, <1>11
<1>13. Filled(rows) = IF filled.cursor < DayEnd
                      THEN Append(filled.rows, Row("home", filled.cursor, DayEnd)) ELSE filled.rows
  BY DEF Filled, filled, base
<1> DEFINE end == Row("home", filled.cursor, DayEnd)
<1>14. /\ filled.cursor \in 0..DayEnd /\ filled.rows \in Seq(Rows) /\ UpToMinute(filled.rows, filled.cursor)
       /\ filled.cursor \in Int /\ end \in Rows /\ end.start = filled.cursor /\ end.end = DayEnd
  BY <1>12, DayAssumption DEF Partial, FilledTo, Row, Rows
<1> HIDE DEF end
<1>15. CASE filled.cursor < DayEnd
  <2>1. Timed(Rows)
    BY DEF Timed, Rows
  <2>2. end.start < end.end
    BY <1>14, <1>15
  <2> QED BY <1>13, <1>14, <1>15, <2>1, <2>2, OneMoreRow DEF end
<1>16. CASE ~(filled.cursor < DayEnd)
  <2>1. filled.cursor = DayEnd /\ filled.cursor # 0
    BY <1>14, <1>16, DayAssumption
  <2>2. filled.rows # <<>>
    BY <1>14, <2>1 DEF UpToMinute
  <2> QED BY <1>13, <1>14, <1>16, <2>1, <2>2
<1> QED BY <1>15, <1>16

\* The rows up to the i-th are compacted.
CompactedTo(rows, kept, i) ==
  /\ kept \in Seq(Rows)
  /\ i \in 1..Len(rows) => rows[i].end > 0
  /\ kept = <<>> => i # Len(rows)
  /\ kept # <<>> => i \in 1..Len(rows) /\ UpToMinute(kept, rows[i].end)

\* A step of Compacted keeps a day that is whole so far.
LEMMA CompactKeeps ==
  ASSUME NEW rows \in Seq(Rows), rows # <<>>, UpToMinute(rows, DayEnd), NEW kept \in Seq(Rows),
         NEW i \in 1..Len(rows)
  PROVE  /\ Compact(rows, kept, i) \in Seq(Rows)
         /\ CompactedTo(rows, kept, i - 1) => CompactedTo(rows, Compact(rows, kept, i), i)
<1> DEFINE n == Len(rows)
           this == rows[i]
           row == IF kept = <<>> THEN [this EXCEPT !.start = rows[1].start] ELSE this
           enough == row.end - row.start >= MinimumRoutable \/ (kept = <<>> /\ i = n)
           before == CompactedTo(rows, kept, i - 1)
           stretched == [kept EXCEPT ![Len(kept)].end = row.end]
           new == Compact(rows, kept, i)
<1>1. n \in Nat \ {0} /\ this \in Rows /\ i \in 1..n /\ rows[1].start = 0
  BY EmptySeq, LenProperties, ElementOfSeq DEF UpToMinute
<1>2. /\ \A j \in 1..n : rows[j].start < rows[j].end
      /\ \A j \in 1..(n - 1) : rows[j].end = rows[j+1].start
      /\ \A j \in 1..n : rows[j] \in Rows
  BY ElementOfSeq DEF UpToMinute
<1>3. /\ row \in Rows /\ row.end = this.end
      /\ kept = <<>> => row.start = 0
      /\ kept # <<>> => row.start = this.start
  <2>1. this.start \in Int /\ this.end \in Int /\ this = [kind |-> this.kind, start |-> this.start, end |-> this.end]
        /\ this.kind \in DiaryKinds \cup {"home"}
    BY <1>1 DEF Rows
  <2> HIDE DEF this
  <2>2. [this EXCEPT !.start = rows[1].start] = [kind |-> this.kind, start |-> 0, end |-> this.end]
    BY <1>1, <2>1
  <2>3. [kind |-> this.kind, start |-> 0, end |-> this.end] \in Rows
    BY <2>1 DEF Rows
  <2> QED BY <1>1, <2>1, <2>2, <2>3
<1>4. new = IF enough THEN Append(kept, row) ELSE IF kept = <<>> THEN kept ELSE stretched
  BY DEF Compact
<1>5. /\ this.start < this.end /\ this.start \in Int /\ this.end \in Int
      /\ i - 1 \in 1..n => this.start = rows[i - 1].end
      /\ i - 1 \notin 1..n => i = 1 /\ this.start = 0
  <2>1. this.start < this.end /\ this.start \in Int /\ this.end \in Int
    BY <1>1, <1>2 DEF Rows
  <2>2. ASSUME i - 1 \in 1..n PROVE this.start = rows[i - 1].end
    <3>1. i - 1 \in 1..(n - 1) /\ (i - 1) + 1 = i
      BY <1>1, <2>2
    <3>2. rows[i - 1].end = rows[(i - 1) + 1].start
      BY <1>2, <3>1
    <3> QED BY <3>1, <3>2
  <2>3. i - 1 \notin 1..n => i = 1
    BY <1>1
  <2> QED BY <1>1, <2>1, <2>2, <2>3
<1>6. Timed(Rows)
  BY DEF Timed, Rows
<1> HIDE DEF this, row, new
<1>7. ASSUME before PROVE this.end > 0
  <2>1. CASE i - 1 \in 1..n
    <3>1. rows[i - 1].end > 0 /\ rows[i - 1].end = this.start
      BY <1>5, <1>7, <2>1 DEF CompactedTo
    <3> QED BY <1>5, <3>1
  <2>2. CASE i - 1 \notin 1..n
    BY <1>5, <2>2
  <2> QED BY <2>1, <2>2
<1>8. ASSUME enough PROVE new \in Seq(Rows) /\ (before => CompactedTo(rows, new, i))
  <2>1. Append(kept, row) \in Seq(Rows) /\ Append(kept, row) # <<>>
    BY <1>3, AppendProperties
  <2>2. ASSUME before PROVE UpToMinute(Append(kept, row), this.end)
    <3>1. CASE kept = <<>>
      <4>1. UpToMinute(kept, 0) /\ row.start = 0 /\ row.start < row.end
        BY <1>3, <1>5, <1>7, <2>2, <3>1 DEF UpToMinute
      <4> QED BY <1>3, <1>6, <4>1, OneMoreRow
    <3>2. CASE kept # <<>>
      <4>1. UpToMinute(kept, this.start) /\ row.start = this.start /\ row.start < row.end
        BY <1>3, <1>5, <2>2, <3>2 DEF CompactedTo
      <4> QED BY <1>3, <1>5, <1>6, <4>1, OneMoreRow
    <3> QED BY <3>1, <3>2
  <2>3. new = Append(kept, row)
    BY <1>4, <1>8
  <2> QED BY <1>1, <1>7, <2>1, <2>2, <2>3 DEF CompactedTo, this
<1>9. ASSUME ~enough, kept = <<>> PROVE new \in Seq(Rows) /\ (before => CompactedTo(rows, new, i))
  <2>1. new = kept /\ i # n
    BY <1>4, <1>9
  <2>2. before => rows[i].end > 0
    BY <1>7 DEF this
  <2> QED BY <1>9, <2>1, <2>2 DEF CompactedTo
<1>10. ASSUME ~enough, kept # <<>> PROVE new \in Seq(Rows) /\ (before => CompactedTo(rows, new, i))
  <2> DEFINE k == Len(kept)
             last == [kind |-> kept[k].kind, start |-> kept[k].start, end |-> row.end]
  <2>1. new = stretched
    BY <1>4, <1>10
  <2>2. last \in Rows /\ stretched = [kept EXCEPT ![k] = last]
    BY <1>3, <1>5, <1>10, Stretched
  <2>3. k \in 1..k
    BY <1>10, EmptySeq
  <2>4. stretched \in Seq(Rows) /\ Len(stretched) = k
    BY <2>2, <2>3, ExceptSeq
  <2>5. stretched # <<>>
    BY <2>3, <2>4, EmptySeq
  <2>6. ASSUME before PROVE UpToMinute(stretched, this.end)
    <3>1. UpToMinute(kept, this.start)
      BY <1>5, <1>10, <2>6 DEF CompactedTo
    <3>2. kept[k].start < kept[k].end /\ kept[k].end = this.start
      BY <1>10, <2>3, <3>1 DEF UpToMinute
    <3>3. kept[k] \in Rows
      BY <2>3, ElementOfSeq
    <3>4. last.start = kept[k].start /\ last.end = this.end
      BY <1>3
    <3>5. kept[k].start \in Int /\ kept[k].end \in Int
      BY <3>3 DEF Rows
    <3> HIDE DEF last
    <3>6. last.start < last.end
      BY <1>5, <3>2, <3>4, <3>5
    <3>7. UpToMinute([kept EXCEPT ![k] = last], last.end)
      BY <1>5, <1>6, <1>10, <2>2, <3>1, <3>4, <3>6, LongerRow
    <3> QED BY <2>2, <3>4, <3>7
  <2> HIDE DEF stretched
  <2>7. before => rows[i].end > 0
    BY <1>7 DEF this
  <2> QED BY <1>1, <2>1, <2>4, <2>5, <2>6, <2>7 DEF CompactedTo, this
<1> QED BY <1>8, <1>9, <1>10 DEF new

\* A compacted day is whole.
LEMMA CompactedIsWhole ==
  ASSUME NEW rows \in Seq(Rows), rows # <<>>, UpToMinute(rows, DayEnd)
  PROVE  Compacted(rows) \in Seq(Rows) /\ Compacted(rows) # <<>> /\ UpToMinute(Compacted(rows), DayEnd)
<1> DEFINE n == Len(rows)
           ids == [i \in DOMAIN rows |-> i]
           step == [i \in 1..n |-> [kept \in Seq(Rows) |-> Compact(rows, kept, i)]]
           Is(f) == f = [s \in SUBSET (1..n) |->
                          IF s = {} THEN <<>> ELSE Compact(rows, f[s \ {Max(s)}], ids[Max(s)])]
           iter == CHOOSE f : Is(f)
<1>1. n \in Nat \ {0} /\ DOMAIN rows = 1..n /\ <<>> \in Seq(Rows)
  BY LenProperties, EmptySeq
<1>2. DOMAIN ids = 1..n /\ \A i \in 1..n : ids[i] = i
  BY <1>1
<1>3. Compacted(rows) = iter[1..n]
  <2>1. Compacted(rows) = FoldLeft(LAMBDA kept, i : Compact(rows, kept, i), <<>>, ids)
    BY DEF Compacted, FoldLeftDomain
  <2> HIDE DEF ids
  <2> QED BY <1>2, <2>1 DEF FoldLeft, MapThenFoldSet
<1> HIDE DEF n, ids
<1>4. \A i \in 1..n : \A kept \in Seq(Rows) :
        step[i][kept] = Compact(rows, kept, i) /\ step[i][kept] \in Seq(Rows)
  BY CompactKeeps DEF n
<1>5. PICK f : FoldsIndices(f, n, Seq(Rows), <<>>, step)
  <2> HIDE DEF step
  <2>1. StepsFor(step, 1..n, Seq(Rows))
    BY <1>4 DEF StepsFor
  <2>2. n \in Nat /\ <<>> \in Seq(Rows)
    BY <1>1
  <2> QED BY <2>1, <2>2, FoldOfIndices
<1>6. Is(f)
  <2> HIDE DEF step
  <2>1. \A s \in SUBSET (1..n) : f[s] = IF s = {} THEN <<>> ELSE Compact(rows, f[s \ {Max(s)}], ids[Max(s)])
    BY <1>2, <1>4, <1>5 DEF FoldsIndices
  <2> QED BY <1>5, <2>1 DEF FoldsIndices
<1> HIDE DEF step
<1>7. Is(iter)
  <2> HIDE DEF Is
  <2> QED BY <1>6
<1>8. iter[{}] = <<>> /\ \A i \in 1..n : iter[1..i] = Compact(rows, iter[1..(i-1)], i)
  <2>1. \A s \in SUBSET (1..n) : iter[s] = IF s = {} THEN <<>> ELSE Compact(rows, iter[s \ {Max(s)}], ids[Max(s)])
    BY <1>7
  <2> HIDE DEF iter
  <2>2. iter[{}] = <<>>
    BY <2>1
  <2>3. ASSUME NEW i \in 1..n PROVE iter[1..i] = Compact(rows, iter[1..(i-1)], i)
    <3>1. 1..i \in SUBSET (1..n) /\ 1..i # {} /\ Max(1..i) = i /\ (1..i) \ {i} = 1..(i - 1)
      BY <1>1, PrefixIs
    <3>2. iter[1..i] = Compact(rows, iter[1..(i-1)], ids[i])
      BY <2>1, <3>1
    <3> QED BY <1>2, <3>2
  <2> QED BY <2>2, <2>3
<1> HIDE DEF iter, Is
<1> DEFINE G == {i \in 0..n : CompactedTo(rows, iter[1..i], i)}
<1>9. 0 \in G
  <2>1. 1..0 = {} /\ 0 \in 0..n /\ 0 # n /\ 0 \notin 1..n
    BY <1>1
  <2> QED BY <1>1, <1>8, <2>1 DEF CompactedTo, n
<1>10. ASSUME NEW i \in 1..n, i - 1 \in G PROVE i \in G
  <2>1. i \in 0..n /\ CompactedTo(rows, iter[1..(i-1)], i - 1)
    BY <1>1, <1>10
  <2>2. iter[1..(i-1)] \in Seq(Rows)
    BY <2>1 DEF CompactedTo
  <2>3. CompactedTo(rows, iter[1..i], i)
    BY <1>8, <2>1, <2>2, CompactKeeps DEF n
  <2> QED BY <2>1, <2>3
<1>11. CompactedTo(rows, iter[1..n], n)
  <2> HIDE DEF G
  <2>1. \A i \in 0..n : i \in G
    BY <1>1, <1>9, <1>10, UpTo
  <2>2. n \in G
    BY <1>1, <2>1
  <2> QED BY <2>2 DEF G
<1>12. rows[n].end = DayEnd
  BY DEF UpToMinute, n
<1> QED BY <1>3, <1>11, <1>12 DEF CompactedTo, n
\* A remainder is less than what was divided by.
LEMMA Modulus ==
  ASSUME NEW a \in Int, NEW b \in Nat \ {0}
  PROVE  a % b \in 0..(b - 1)
OBVIOUS

\* A function of the first numbers is a sequence.
LEMMA FunctionIsSeq ==
  ASSUME NEW S, NEW n \in Nat, NEW f \in [1..n -> S]
  PROVE  f \in Seq(S) /\ Len(f) = n
OBVIOUS

\* A staged row has minutes of the day.
LEMMA StagedRows ==
  ASSUME NEW diary \in Seq(DiaryRows)
  PROVE  /\ Staged(diary) \in Seq(Rows) /\ Len(Staged(diary)) = Len(diary)
         /\ \A i \in 1..Len(diary) : /\ Staged(diary)[i].start \in 0..DayEnd
                                     /\ Staged(diary)[i].end \in 0..DayEnd
<1> DEFINE start(i) == (diary[i].start - DiaryStart) % DayEnd
           stop(i) == (diary[i].end - DiaryStart) % DayEnd
           row(i) == Row(diary[i].kind, start(i), IF stop(i) <= start(i) THEN DayEnd ELSE stop(i))
<1>1. DOMAIN diary = 1..Len(diary) /\ Len(diary) \in Nat /\ \A i \in 1..Len(diary) : diary[i] \in DiaryRows
  BY LenProperties, ElementOfSeq
<1>2. Staged(diary) = [i \in 1..Len(diary) |-> row(i)]
  BY <1>1 DEF Staged
<1>3. ASSUME NEW i \in 1..Len(diary)
      PROVE  row(i) \in Rows /\ row(i).start \in 0..DayEnd /\ row(i).end \in 0..DayEnd
  <2>1. diary[i].kind \in DiaryKinds /\ diary[i].start - DiaryStart \in Int /\ diary[i].end - DiaryStart \in Int
    BY <1>1, DayAssumption DEF DiaryRows
  <2>2. start(i) \in 0..(DayEnd - 1) /\ stop(i) \in 0..(DayEnd - 1)
    <3>1. DayEnd \in Nat \ {0}
      BY DayAssumption
    <3>2. \A a \in Int : a % DayEnd \in 0..(DayEnd - 1)
      BY <3>1, Modulus
    <3> QED BY <2>1, <3>2
  <2> HIDE DEF start, stop
  <2>3. start(i) \in 0..DayEnd /\ (IF stop(i) <= start(i) THEN DayEnd ELSE stop(i)) \in 0..DayEnd
    BY <2>2, DayAssumption
  <2>4. \A x \in 0..DayEnd : x \in Int
    OBVIOUS
  <2> QED BY <2>1, <2>3, <2>4 DEF Row, Rows
<1> HIDE DEF row
<1>4. [i \in 1..Len(diary) |-> row(i)] \in Seq(Rows)
      /\ Len([i \in 1..Len(diary) |-> row(i)]) = Len(diary)
  <2>1. [i \in 1..Len(diary) |-> row(i)] \in [1..Len(diary) -> Rows]
    BY <1>3
  <2> QED BY <1>1, <2>1, FunctionIsSeq
<1>5. Len(Staged(diary)) = Len(diary)
  BY <1>2, <1>4
<1> QED BY <1>2, <1>3, <1>4, <1>5

\* The day of a diary is whole.
LEMMA NormalizedIsWhole ==
  ASSUME NEW diary \in Seq(DiaryRows)
  PROVE  Normalized(diary) \in Seq(Rows) /\ Normalized(diary) # <<>> /\ UpToMinute(Normalized(diary), DayEnd)
<1>1. Filled(Staged(diary)) \in Seq(Rows) /\ Filled(Staged(diary)) # <<>>
      /\ UpToMinute(Filled(Staged(diary)), DayEnd)
  BY StagedRows, FilledIsWhole
<1> QED BY <1>1, CompactedIsWhole DEF Normalized
-----------------------------------------------------------------------------
(* Stays.                                                                  *)

\* Some rows are all trips.
Trips(rows, from, to) == \A j \in from..to : rows[j].kind = "travel"

\* The stays of the first i rows are those whose indices are in f; the others are trips.
StaysIn(rows, stays, f, i) ==
  /\ f \in Seq(1..i) /\ Len(f) = Len(stays)
  /\ \A k \in 1..Len(stays) : stays[k] = rows[f[k]] /\ rows[f[k]].kind # "travel"
  /\ \A k \in 1..(Len(stays) - 1) : f[k] < f[k+1] /\ Trips(rows, f[k] + 1, f[k+1] - 1)
  /\ stays = <<>> => Trips(rows, 1, i)
  /\ stays # <<>> => Trips(rows, 1, f[1] - 1) /\ Trips(rows, f[Len(stays)] + 1, i)

\* A step of Stays.
KeepStay(stays, row) == IF row.kind = "travel" THEN stays ELSE Append(stays, row)

\* A step of Stays keeps the stays so far apart from the trips.
LEMMA StayKeeps ==
  ASSUME NEW R, NEW rows \in Seq(R), NEW stays \in Seq(R), NEW i \in 1..Len(rows),
         NEW f, StaysIn(rows, stays, f, i - 1)
  PROVE  \E g : StaysIn(rows, KeepStay(stays, rows[i]), g, i)
<1> DEFINE n == Len(stays)
           row == rows[i]
           new == KeepStay(stays, row)
<1>1. /\ i \in Nat \ {0} /\ row \in R /\ n \in Nat
      /\ stays = <<>> => n = 0
      /\ stays # <<>> => n > 0
  BY ElementOfSeq, LenProperties, EmptySeq
<1>2. /\ f \in Seq(1..(i-1)) /\ Len(f) = n
      /\ \A k \in 1..n : f[k] \in 1..(i-1)
  <2>1. f \in Seq(1..(i-1)) /\ Len(f) = n
    BY DEF StaysIn
  <2> QED BY <2>1, ElementOfSeq
<1>3. f \in Seq(1..i)
  <2>1. 1..(i-1) \subseteq 1..i
    BY <1>1
  <2> QED BY <1>2, <2>1, SeqMonotonic
<1>4. i \in 1..i /\ \A j \in 1..i : j \in 1..(i-1) \/ j = i
  BY <1>1
<1> HIDE DEF row
<1>5. CASE row.kind = "travel"
  <2>1. new = stays
    BY <1>5 DEF KeepStay
  <2>2. ASSUME stays = <<>> PROVE Trips(rows, 1, i)
    BY <1>4, <1>5, <2>2 DEF StaysIn, Trips, row
  <2>3. ASSUME stays # <<>> PROVE Trips(rows, 1, f[1] - 1) /\ Trips(rows, f[n] + 1, i)
    <3>1. Trips(rows, 1, f[1] - 1) /\ Trips(rows, f[n] + 1, i - 1)
      BY <2>3 DEF StaysIn, n
    <3>2. \A j \in (f[n] + 1)..i : j \in (f[n] + 1)..(i - 1) \/ j = i
      BY <1>1, <1>2, <2>3
    <3> QED BY <1>5, <3>1, <3>2 DEF Trips, row
  <2> HIDE DEF new
  <2>4. StaysIn(rows, new, f, i)
    BY <1>3, <2>1, <2>2, <2>3 DEF StaysIn, n
  <2> QED BY <2>4 DEF row, new
<1>6. CASE row.kind # "travel"
  <2> DEFINE g == Append(f, i)
  <2>1. /\ new = Append(stays, row) /\ new \in Seq(R) /\ new # <<>> /\ Len(new) = n + 1
        /\ \A k \in 1..n : new[k] = stays[k]
        /\ new[n + 1] = row
    BY <1>1, <1>6, AppendProperties DEF KeepStay
  <2>2. /\ g \in Seq(1..i) /\ Len(g) = n + 1
        /\ \A k \in 1..n : g[k] = f[k]
        /\ g[n + 1] = i
    BY <1>2, <1>3, <1>4, AppendProperties
  <2> HIDE DEF g, new
  <2>3. \A k \in 1..(n + 1) : k \in 1..n \/ k = n + 1
    BY <1>1
  <2>4. \A k \in 1..(n + 1) : new[k] = rows[g[k]] /\ rows[g[k]].kind # "travel"
    <3>1. \A k \in 1..n : stays[k] = rows[f[k]] /\ rows[f[k]].kind # "travel"
      BY DEF StaysIn, n
    <3>2. \A k \in 1..n : new[k] = rows[g[k]] /\ rows[g[k]].kind # "travel"
      BY <2>1, <2>2, <3>1
    <3>3. new[n + 1] = rows[g[n + 1]] /\ rows[g[n + 1]].kind # "travel"
      BY <1>6, <2>1, <2>2 DEF row
    <3> QED BY <2>3, <3>2, <3>3
  <2>5. \A k \in 1..n : g[k] < g[k+1] /\ Trips(rows, g[k] + 1, g[k+1] - 1)
    <3> SUFFICES ASSUME NEW k \in 1..n PROVE g[k] < g[k+1] /\ Trips(rows, g[k] + 1, g[k+1] - 1)
      OBVIOUS
    <3>1. CASE k = n
      <4>1. g[k] = f[n] /\ g[k+1] = i /\ f[n] \in 1..(i-1)
        BY <1>2, <2>2, <3>1
      <4>2. stays # <<>>
        BY <1>1, <3>1
      <4>3. Trips(rows, f[n] + 1, i - 1)
        BY <4>2 DEF StaysIn, n
      <4> QED BY <1>1, <4>1, <4>3
    <3>2. CASE k # n
      <4>1. k \in 1..(n - 1) /\ k + 1 \in 1..n
        BY <1>1, <3>2
      <4>2. f[k] < f[k+1] /\ Trips(rows, f[k] + 1, f[k+1] - 1)
        BY <4>1 DEF StaysIn, n
      <4>3. g[k] = f[k] /\ g[k+1] = f[k+1]
        BY <2>2, <4>1
      <4> QED BY <4>2, <4>3
    <3> QED BY <3>1, <3>2
  <2>6. Trips(rows, 1, g[1] - 1) /\ Trips(rows, g[n + 1] + 1, i)
    <3>1. Trips(rows, g[n + 1] + 1, i)
      BY <1>1, <2>2 DEF Trips
    <3>2. CASE stays = <<>>
      <4>1. Trips(rows, 1, i - 1) /\ g[1] = i
        BY <1>1, <2>2, <3>2 DEF StaysIn
      <4> QED BY <3>1, <4>1
    <3>3. CASE stays # <<>>
      <4>1. Trips(rows, 1, f[1] - 1) /\ g[1] = f[1]
        BY <1>1, <2>2, <3>3 DEF StaysIn
      <4> QED BY <3>1, <4>1
    <3> QED BY <3>2, <3>3
  <2>7. (n + 1) - 1 = n
    BY <1>1
  <2>8. StaysIn(rows, new, g, i)
    BY <2>1, <2>2, <2>4, <2>5, <2>6, <2>7 DEF StaysIn
  <2> QED BY <2>8 DEF row, new
<1> QED BY <1>5, <1>6
\* The stays of a day are its rows that are no trips, in their order.
LEMMA StaysAre ==
  ASSUME NEW R, NEW rows \in Seq(R)
  PROVE  Stays(rows) \in Seq(R) /\ \E f : StaysIn(rows, Stays(rows), f, Len(rows))
<1> DEFINE n == Len(rows)
           step == [i \in 1..n |-> [stays \in Seq(R) |-> KeepStay(stays, rows[i])]]
           Is(f) == f = [s \in SUBSET (1..n) |->
                          IF s = {} THEN <<>> ELSE KeepStay(f[s \ {Max(s)}], rows[Max(s)])]
           iter == CHOOSE f : Is(f)
<1>1. n \in Nat /\ DOMAIN rows = 1..n /\ <<>> \in Seq(R) /\ \A i \in 1..n : rows[i] \in R
  BY LenProperties, EmptySeq, ElementOfSeq
<1>2. Stays(rows) = iter[1..n]
  BY <1>1 DEF Stays, KeepStay, FoldLeft, MapThenFoldSet
<1> HIDE DEF n
<1>4. \A i \in 1..n : \A stays \in Seq(R) :
        step[i][stays] = KeepStay(stays, rows[i]) /\ step[i][stays] \in Seq(R)
  BY <1>1, AppendProperties DEF KeepStay
<1>5. PICK f : FoldsIndices(f, n, Seq(R), <<>>, step)
  <2> HIDE DEF step
  <2>1. StepsFor(step, 1..n, Seq(R))
    BY <1>4 DEF StepsFor
  <2>2. n \in Nat /\ <<>> \in Seq(R)
    BY <1>1
  <2> QED BY <2>1, <2>2, FoldOfIndices
<1>6. Is(f)
  <2> HIDE DEF step
  <2>1. \A s \in SUBSET (1..n) : f[s] = IF s = {} THEN <<>> ELSE KeepStay(f[s \ {Max(s)}], rows[Max(s)])
    BY <1>4, <1>5 DEF FoldsIndices
  <2> QED BY <1>5, <2>1 DEF FoldsIndices
<1>7. Is(iter)
  <2> HIDE DEF Is
  <2> QED BY <1>6
<1>8. iter[{}] = <<>> /\ \A i \in 1..n : iter[1..i] = KeepStay(iter[1..(i-1)], rows[i])
  <2>1. \A s \in SUBSET (1..n) : iter[s] = IF s = {} THEN <<>> ELSE KeepStay(iter[s \ {Max(s)}], rows[Max(s)])
    BY <1>7
  <2> HIDE DEF iter
  <2> QED BY <1>1, <2>1, PrefixIs
<1> HIDE DEF iter, Is
<1> DEFINE P(i) == iter[1..i] \in Seq(R) /\ \E g : StaysIn(rows, iter[1..i], g, i)
           G == {i \in 0..n : P(i)}
<1>9. 0 \in G
  <2>1. 1..0 = {} /\ 0 \in 0..n
    BY <1>1
  <2>2. StaysIn(rows, <<>>, <<>>, 0)
    BY EmptySeq DEF StaysIn, Trips
  <2> QED BY <1>1, <1>8, <2>1, <2>2
<1>10. ASSUME NEW i \in 1..n, i - 1 \in G PROVE i \in G
  <2>1. i \in 0..n /\ iter[1..(i-1)] \in Seq(R)
    BY <1>1, <1>10
  <2>2. PICK g : StaysIn(rows, iter[1..(i-1)], g, i - 1)
    BY <1>10
  <2>3. \E h : StaysIn(rows, KeepStay(iter[1..(i-1)], rows[i]), h, i)
    BY <2>1, <2>2, StayKeeps DEF n
  <2>4. iter[1..i] = KeepStay(iter[1..(i-1)], rows[i])
    BY <1>8
  <2>5. step[i][iter[1..(i-1)]] = iter[1..i] /\ iter[1..i] \in Seq(R)
    BY <1>4, <2>1, <2>4
  <2> QED BY <2>1, <2>3, <2>4, <2>5
<1>11. P(n)
  <2> HIDE DEF G
  <2>1. \A i \in 0..n : i \in G
    BY <1>1, <1>9, <1>10, UpTo
  <2>2. n \in G
    BY <1>1, <2>1
  <2> QED BY <2>2 DEF G
<1> QED BY <1>2, <1>11 DEF n
\* Rows that follow one another begin later and later.
LEMMA LaterStarts ==
  ASSUME NEW R, Timed(R), NEW rows \in Seq(R), NEW minute, UpToMinute(rows, minute),
         NEW j \in 1..Len(rows), NEW k \in 1..Len(rows), j < k
  PROVE  rows[j].end <= rows[k].start
<1> DEFINE n == Len(rows)
           G == {i \in 0..n : j < i => rows[j].end <= rows[i].start}
<1>1. n \in Nat /\ \A i \in 1..n : rows[i].start \in Int /\ rows[i].end \in Int
  BY LenProperties, ElementOfSeq DEF Timed
<1>2. /\ \A i \in 1..n : rows[i].start < rows[i].end
      /\ \A i \in 1..(n - 1) : rows[i].end = rows[i+1].start
  BY LenProperties, EmptySeq DEF UpToMinute
<1> USE DEF n
<1>3. 0 \in G
  BY <1>1
<1>4. ASSUME NEW i \in 1..n, i - 1 \in G PROVE i \in G
  <2> SUFFICES ASSUME j < i PROVE rows[j].end <= rows[i].start
    BY <1>1
  <2>1. i - 1 \in 1..(n - 1) /\ (i - 1) + 1 = i /\ i - 1 \in 1..n
    BY <1>1
  <2>2. rows[i - 1].end = rows[i].start
    BY <1>2, <2>1
  <2>3. CASE j = i - 1
    BY <1>1, <2>2, <2>3
  <2>4. CASE j # i - 1
    <3>1. rows[j].end <= rows[i - 1].start
      BY <1>1, <1>4, <2>4
    <3>2. rows[i - 1].start < rows[i - 1].end
      BY <1>2, <2>1
    <3> QED BY <1>1, <2>1, <2>2, <3>1, <3>2
  <2> QED BY <2>3, <2>4
<1>5. k \in G
  <2> HIDE DEF G
  <2>1. \A i \in 0..n : i \in G
    BY <1>1, <1>3, <1>4, UpTo
  <2> QED BY <1>1, <2>1
<1> QED BY <1>5

\* The activities, and the ways a place was chosen.
Kinds == DiaryKinds \cup {"home"} \cup Anchored \cup Discretionary
Bases == {"anchor", "boundary_travel_home_fallback", "donor_travel_placeholder", "home_anchor",
          "sampled_destination", "straight_line_proxy", "retained"}
StayRows(Q) == [kind : Kinds, start : Int, end : Int, place : Q, basis : Bases]

\* Rows of the model's days begin and end in minutes.
LEMMA StaysHaveTimes == \A Q : Timed(StayRows(Q))
BY DEF Timed, StayRows

\* Without its trips a day is whole still.
LEMMA StationaryIsWhole ==
  ASSUME NEW Q, NEW rows \in Seq(StayRows(Q)), rows # <<>>, UpToMinute(rows, DayEnd),
         rows[1].kind # "travel", rows[Len(rows)].kind # "travel"
  PROVE  /\ Stationary(rows) \in Seq(StayRows(Q)) /\ Stationary(rows) # <<>>
         /\ UpToMinute(Stationary(rows), DayEnd)
         /\ \A i \in 1..Len(Stationary(rows)) : \E j \in 1..Len(rows) :
              /\ rows[j].kind # "travel"
              /\ Stationary(rows)[i].kind = rows[j].kind
              /\ Stationary(rows)[i].place = rows[j].place
<1> DEFINE R == StayRows(Q)
           N == Len(rows)
           stays == Stays(rows)
           n == Len(stays)
           all == Stationary(rows)
           until(i) == [kind |-> stays[i].kind, start |-> stays[i].start, end |-> stays[i+1].start,
                        place |-> stays[i].place, basis |-> stays[i].basis]
<1>1. stays \in Seq(R) /\ n \in Nat /\ DOMAIN stays = 1..n /\ N \in Nat \ {0}
      /\ \A i \in 1..n : stays[i] \in R
  BY StaysAre, LenProperties, ElementOfSeq, EmptySeq
<1>2. PICK f : StaysIn(rows, stays, f, N)
  BY StaysAre
<1>3. f \in Seq(1..N) /\ Len(f) = n /\ \A k \in 1..n : f[k] \in 1..N
  <2>1. f \in Seq(1..N) /\ Len(f) = n
    BY <1>2 DEF StaysIn
  <2> QED BY <2>1, ElementOfSeq
<1>4. Timed(R)
  BY StaysHaveTimes
<1>5. all = [i \in 1..n |-> IF i = n THEN stays[i] ELSE [stays[i] EXCEPT !.end = stays[i+1].start]]
  BY <1>1 DEF Stationary
<1> HIDE DEF stays, all
<1>6. stays # <<>> /\ n # 0
  <2>1. ~Trips(rows, 1, N)
    BY <1>1 DEF Trips
  <2>2. stays # <<>>
    BY <1>2, <2>1 DEF StaysIn
  <2> QED BY <1>1, <2>2, EmptySeq
<1> HIDE DEF N, n
<1>7. f[1] = 1 /\ f[n] = N
  <2>1. Trips(rows, 1, f[1] - 1) /\ Trips(rows, f[n] + 1, N)
    BY <1>2, <1>6 DEF StaysIn, n
  <2>2. f[1] \in 1..N /\ f[n] \in 1..N
    BY <1>1, <1>3, <1>6
  <2>3. f[1] = 1
    <3> SUFFICES ASSUME f[1] # 1 PROVE FALSE
      OBVIOUS
    <3>1. 1 \in 1..(f[1] - 1)
      BY <1>1, <2>2
    <3> QED BY <2>1, <3>1 DEF Trips
  <2>4. f[n] = N
    <3> SUFFICES ASSUME f[n] # N PROVE FALSE
      OBVIOUS
    <3>1. N \in (f[n] + 1)..N
      BY <1>1, <2>2
    <3> QED BY <2>1, <3>1 DEF Trips, N
  <2> QED BY <2>3, <2>4
<1>8. \A k \in 1..n : stays[k] = rows[f[k]] /\ rows[f[k]].kind # "travel"
  BY <1>2 DEF StaysIn, n
<1>9. \A k \in 1..(n - 1) : stays[k].start < stays[k+1].start
  <2> SUFFICES ASSUME NEW k \in 1..(n - 1) PROVE stays[k].start < stays[k+1].start
    OBVIOUS
  <2>1. k \in 1..n /\ k + 1 \in 1..n /\ f[k] \in 1..N /\ f[k+1] \in 1..N /\ f[k] < f[k+1]
    BY <1>1, <1>2, <1>3 DEF StaysIn, n
  <2>2. rows[f[k]].end <= rows[f[k+1]].start
    BY <1>4, <2>1, LaterStarts DEF N
  <2>3. rows[f[k]].start < rows[f[k]].end
    BY <2>1 DEF UpToMinute, N
  <2>4. rows[f[k]] \in R /\ rows[f[k+1]] \in R
    BY <2>1, ElementOfSeq DEF N
  <2>5. rows[f[k]].start \in Int /\ rows[f[k]].end \in Int /\ rows[f[k+1]].start \in Int
    BY <1>4, <2>4 DEF Timed
  <2>6. rows[f[k]].start < rows[f[k+1]].start
    BY <2>2, <2>3, <2>5
  <2> QED BY <1>8, <2>1, <2>6
<1>10. ASSUME NEW i \in 1..n
       PROVE  /\ all[i] \in R
              /\ all[i].kind = stays[i].kind /\ all[i].place = stays[i].place /\ all[i].start = stays[i].start
              /\ all[i].end = IF i = n THEN stays[i].end ELSE stays[i+1].start
  <2>1. stays[i] \in R
    BY <1>1
  <2>2. CASE i = n
    BY <1>5, <2>1, <2>2
  <2>3. CASE i # n
    <3>1. i + 1 \in 1..n
      BY <1>1, <2>3
    <3>2. stays[i+1].start \in Int
      BY <1>1, <1>4, <3>1 DEF Timed
    <3>3. all[i] = [stays[i] EXCEPT !.end = stays[i+1].start]
      BY <1>5, <2>3
    <3>4. all[i] = until(i)
      <4> HIDE DEF all
      <4>1. stays[i] = [kind |-> stays[i].kind, start |-> stays[i].start, end |-> stays[i].end,
                        place |-> stays[i].place, basis |-> stays[i].basis]
        BY <2>1 DEF StayRows
      <4> QED BY <3>3, <4>1
    <3>5. until(i) \in R
      BY <2>1, <3>2 DEF StayRows
    <3> QED BY <2>3, <3>4, <3>5
  <2> QED BY <2>2, <2>3
<1>11. all \in Seq(R) /\ Len(all) = n
  <2>1. all \in [1..n -> R]
    BY <1>5, <1>10
  <2> QED BY <1>1, <2>1, FunctionIsSeq
<1>12. all # <<>>
  BY <1>1, <1>6, <1>11, EmptySeq
<1>13. all[1].start = 0 /\ all[n].end = DayEnd
  <2>1. 1 \in 1..n /\ n \in 1..n
    BY <1>1, <1>6
  <2>2. rows[1].start = 0 /\ rows[N].end = DayEnd
    BY DEF UpToMinute, N
  <2> QED BY <1>7, <1>8, <1>10, <2>1, <2>2
<1>14. \A i \in 1..n : all[i].start < all[i].end
  <2> SUFFICES ASSUME NEW i \in 1..n PROVE all[i].start < all[i].end
    OBVIOUS
  <2>1. CASE i = n
    <3>1. stays[n] = rows[N] /\ rows[N].start < rows[N].end
      <4>1. N \in 1..N
        BY <1>1
      <4> QED BY <1>7, <1>8, <2>1, <4>1 DEF UpToMinute, N
    <3> QED BY <1>10, <2>1, <3>1
  <2>2. CASE i # n
    <3>1. i \in 1..(n - 1)
      BY <1>1, <2>2
    <3> QED BY <1>9, <1>10, <2>2, <3>1
  <2> QED BY <2>1, <2>2
<1>15. \A i \in 1..(n - 1) : all[i].end = all[i+1].start
  <2> SUFFICES ASSUME NEW i \in 1..(n - 1) PROVE all[i].end = all[i+1].start
    OBVIOUS
  <2>1. i \in 1..n /\ i # n /\ i + 1 \in 1..n
    BY <1>1
  <2> QED BY <1>10, <2>1
<1>16. UpToMinute(all, DayEnd)
  BY <1>11, <1>12, <1>13, <1>14, <1>15 DEF UpToMinute
<1>17. \A i \in 1..n : \E j \in 1..N :
         rows[j].kind # "travel" /\ all[i].kind = rows[j].kind /\ all[i].place = rows[j].place
  BY <1>3, <1>8, <1>10
<1> QED BY <1>11, <1>12, <1>16, <1>17 DEF all, N
\* Every trip lies between two stays at different places and takes its minutes, and stays
\* that follow one another directly are at one place.
TripsFit(day) ==
  /\ \A j \in 1..(Len(day) - 1) :
       day[j].kind # "travel" /\ day[j+1].kind # "travel" => day[j].place = day[j+1].place
  /\ \A j \in 1..Len(day) : day[j].kind = "travel" =>
       /\ j - 1 \in 1..Len(day) /\ j + 1 \in 1..Len(day)
       /\ day[j-1].kind # "travel" /\ day[j+1].kind # "travel"
       /\ day[j-1].place # day[j+1].place
       /\ day[j].end - day[j].start = MinutesBetween[day[j-1].place, day[j+1].place]

\* Between stays at different places lie the minutes of the trip.
Apart(stays) ==
  \A i \in 1..(Len(stays) - 1) :
    stays[i+1].start - stays[i].end =
      IF stays[i].place = stays[i+1].place THEN 0
      ELSE MinutesBetween[stays[i].place, stays[i+1].place]

\* When the trips of a day fit, its stays are as far apart as their places.
LEMMA ExportedIsApart ==
  ASSUME NEW R, Timed(R), NEW day \in Seq(R), NEW minute, UpToMinute(day, minute), TripsFit(day)
  PROVE  Apart(Exported(day))
<1> DEFINE N == Len(day)
           stays == Stays(day)
           n == Len(stays)
<1>1. stays \in Seq(R) /\ n \in Nat /\ N \in Nat
  BY StaysAre, LenProperties
<1>2. PICK f : StaysIn(day, stays, f, N)
  BY StaysAre
<1>3. f \in Seq(1..N) /\ Len(f) = n /\ \A k \in 1..n : f[k] \in 1..N
  <2>1. f \in Seq(1..N) /\ Len(f) = n
    BY <1>2 DEF StaysIn
  <2> QED BY <2>1, ElementOfSeq
<1> HIDE DEF stays, n, N
<1>4. /\ \A i \in 1..(N - 1) : day[i].end = day[i+1].start
      /\ \A i \in 1..N : day[i].start \in Int /\ day[i].end \in Int
  BY EmptySeq, ElementOfSeq DEF UpToMinute, N, Timed
<1>5. ASSUME NEW i \in 1..(n - 1)
      PROVE  stays[i+1].start - stays[i].end =
               IF stays[i].place = stays[i+1].place THEN 0
               ELSE MinutesBetween[stays[i].place, stays[i+1].place]
  <2> DEFINE a == f[i]
             b == f[i+1]
  <2>1. i \in 1..n /\ i + 1 \in 1..n
    BY <1>1
  <2>2. /\ a \in 1..N /\ b \in 1..N /\ a < b /\ Trips(day, a + 1, b - 1)
        /\ stays[i] = day[a] /\ stays[i+1] = day[b]
        /\ day[a].kind # "travel" /\ day[b].kind # "travel"
    BY <1>2, <1>3, <2>1 DEF StaysIn, n
  <2> HIDE DEF a, b
  <2>3. CASE b = a + 1
    <3>1. a \in 1..(N - 1)
      BY <1>1, <2>2, <2>3
    <3>2. day[a].place = day[b].place
      BY <2>2, <2>3, <3>1 DEF TripsFit, N
    <3>3. day[b].start - day[a].end = 0
      BY <1>4, <2>2, <2>3, <3>1
    <3> QED BY <2>2, <3>2, <3>3
  <2>4. CASE b # a + 1
    <3>1. a + 1 \in (a + 1)..(b - 1) /\ a + 1 \in 1..N /\ (a + 1) - 1 = a /\ (a + 1) + 1 = a + 2
      BY <1>1, <2>2, <2>4
    <3>2. day[a+1].kind = "travel"
      BY <2>2, <3>1 DEF Trips
    <3>3. /\ a + 2 \in 1..N /\ day[a+2].kind # "travel"
          /\ day[a].place # day[a+2].place
          /\ day[a+1].end - day[a+1].start = MinutesBetween[day[a].place, day[a+2].place]
      BY <3>1, <3>2 DEF TripsFit, N
    <3>4. b = a + 2
      <4> SUFFICES ASSUME b # a + 2 PROVE FALSE
        OBVIOUS
      <4>1. a + 2 \in (a + 1)..(b - 1)
        BY <1>1, <2>2, <2>4
      <4> QED BY <2>2, <3>3, <4>1 DEF Trips
    <3>5. day[a].end = day[a+1].start /\ day[a+1].end = day[a+2].start
      <4>0. a \in 1..N /\ a + 2 \in 1..N
        BY <2>2, <3>3
      <4>1. a \in 1..(N - 1) /\ a + 1 \in 1..(N - 1) /\ (a + 1) + 1 = a + 2
        BY <1>1, <4>0
      <4>2. day[a+1].end = day[(a+1)+1].start
        BY <1>4, <4>1
      <4> QED BY <1>4, <3>1, <4>1, <4>2
    <3>6. day[b].start - day[a].end = MinutesBetween[day[a].place, day[b].place]
      BY <3>3, <3>4, <3>5
    <3>7. day[a].place # day[b].place
      BY <3>3, <3>4
    <3> QED BY <2>2, <3>6, <3>7
  <2> QED BY <2>3, <2>4
<1> HIDE DEF Apart
<1>6. Apart(stays)
  BY <1>5 DEF Apart, n
<1> QED BY <1>6 DEF Exported, stays
-----------------------------------------------------------------------------
(* Routes.                                                                 *)

\* A row of a day by its fields.
StayOf(kind, start, end, place, basis) ==
  [kind |-> kind, start |-> start, end |-> end, place |-> place, basis |-> basis]

\* The fields of a stay.
LEMMA StayFields ==
  ASSUME NEW Q, NEW row \in StayRows(Q)
  PROVE  /\ row.kind \in Kinds /\ row.start \in Int /\ row.end \in Int /\ row.place \in Q /\ row.basis \in Bases
         /\ row = StayOf(row.kind, row.start, row.end, row.place, row.basis)
BY DEF StayRows, StayOf

\* The stay of given fields.
LEMMA StayIs ==
  ASSUME NEW Q, NEW kind \in Kinds, NEW start \in Int, NEW end \in Int, NEW place \in Q, NEW basis \in Bases
  PROVE  /\ StayOf(kind, start, end, place, basis) \in StayRows(Q)
         /\ StayOf(kind, start, end, place, basis).kind = kind
         /\ StayOf(kind, start, end, place, basis).start = start
         /\ StayOf(kind, start, end, place, basis).end = end
         /\ StayOf(kind, start, end, place, basis).place = place
         /\ StayOf(kind, start, end, place, basis).basis = basis
BY DEF StayRows, StayOf

\* A stay that ends at another minute.
LEMMA EndsAt ==
  ASSUME NEW Q, NEW row \in StayRows(Q), NEW end \in Int
  PROVE  /\ [row EXCEPT !.end = end] = StayOf(row.kind, row.start, end, row.place, row.basis)
         /\ StayOf(row.kind, row.start, end, row.place, row.basis) \in StayRows(Q)
BY DEF StayRows, StayOf

\* A stay ends at another minute.
LEMMA LeftEarly ==
  ASSUME NEW Q, NEW day \in Seq(StayRows(Q)), day # <<>>, NEW end \in Int
  PROVE  LET last == day[Len(day)]
             row == StayOf(last.kind, last.start, end, last.place, last.basis)
         IN row \in StayRows(Q) /\ [day EXCEPT ![Len(day)].end = end] = [day EXCEPT ![Len(day)] = row]
<1> DEFINE n == Len(day)
           last == day[n]
<1>1. n \in 1..n
  BY EmptySeq
<1>2. last \in StayRows(Q)
  BY <1>1, ElementOfSeq
<1>3. [day EXCEPT ![n].end = end] = [day EXCEPT ![n] = [last EXCEPT !.end = end]]
  OBVIOUS
<1> HIDE DEF n, last
<1>4. [last EXCEPT !.end = end] = StayOf(last.kind, last.start, end, last.place, last.basis)
  BY <1>2, EndsAt
<1>5. StayOf(last.kind, last.start, end, last.place, last.basis) \in StayRows(Q)
  BY <1>2, EndsAt
<1> QED BY <1>3, <1>4, <1>5 DEF n, last

\* Who stays does so for as long, at the place and with the activity.
LEMMA RetainedIs ==
  ASSUME NEW E, NEW wanted \in StayRows(E), NEW here
  PROVE  Retained(wanted, here) = StayOf(here.kind, wanted.start, wanted.end, here.place, "retained")
<1> DEFINE same == [wanted EXCEPT !.kind = here.kind]
<1>1. same.kind = here.kind /\ same.start = wanted.start /\ same.end = wanted.end
  BY DEF StayRows
<1> HIDE DEF same
<1>2. Retained(wanted, here) = Stay(same, here.place, "retained")
  BY DEF Retained, same
<1> QED BY <1>1, <1>2 DEF Stay, StayOf

\* Between different places lies at least a minute.
Far(Q) == \A a, b \in Q : a # b => MinutesBetween[a, b] \in Nat \ {0}

\* Days with a last place from which there are roads.
Placed(E, Q) == {day \in Seq(StayRows(E)) : day # <<>> /\ day[Len(day)].place \in Q}

\* A step of Routed is one from days to days.
LEMMA RouteTyped ==
  ASSUME NEW Q, NEW E, E = Q \cup {Nowhere}, Far(Q), NEW day \in Placed(E, Q), NEW wanted \in StayRows(Q)
  PROVE  Route(day, wanted) \in Placed(E, Q)
<1> DEFINE R == StayRows(E)
           here == Last(day)
           trip == MinutesBetween[here.place, wanted.place]
           stays == Retained(wanted, here)
           away == Row("travel", wanted.start - trip, wanted.start)
           travel == Stay(away, Nowhere, "straight_line_proxy")
           left == [day EXCEPT ![Len(day)].end = wanted.start - trip]
<1>1. /\ day \in Seq(R) /\ day # <<>> /\ here = day[Len(day)] /\ here.place \in Q
      /\ Len(day) \in 1..Len(day)
  <2>1. day \in Seq(R) /\ day # <<>> /\ day[Len(day)].place \in Q
    BY DEF Placed
  <2>2. Len(day) \in 1..Len(day)
    BY <2>1, EmptySeq
  <2> QED BY <2>1, <2>2 DEF Last
<1>2. /\ here \in R /\ here.kind \in Kinds /\ here.place \in E
      /\ wanted \in R /\ wanted.place \in Q /\ wanted.start \in Int /\ wanted.end \in Int
  <2>1. here \in R
    <3> HIDE DEF R, here
    <3> QED BY <1>1, ElementOfSeq
  <2>2. wanted \in R
    BY DEF StayRows
  <2> QED BY <2>1, <2>2, StayFields
<1> HIDE DEF here
<1>3. stays \in R /\ stays.place \in Q
  <2>1. stays = StayOf(here.kind, wanted.start, wanted.end, here.place, "retained")
    BY RetainedIs
  <2> HIDE DEF stays
  <2>2. here.kind \in Kinds /\ wanted.start \in Int /\ wanted.end \in Int /\ here.place \in E
    BY <1>2
  <2>4. "retained" \in Bases
    BY DEF Bases
  <2> DEFINE kind == here.kind
             place == here.place
             start == wanted.start
             end == wanted.end
  <2>5. kind \in Kinds /\ start \in Int /\ end \in Int /\ place \in E
    BY <2>2
  <2> HIDE DEF kind, place, start, end
  <2>6. StayOf(kind, start, end, place, "retained") \in StayRows(E)
        /\ StayOf(kind, start, end, place, "retained").place = place
    BY <2>4, <2>5, StayIs
  <2>3. StayOf(here.kind, wanted.start, wanted.end, here.place, "retained") \in StayRows(E)
        /\ StayOf(here.kind, wanted.start, wanted.end, here.place, "retained").place = here.place
    BY <2>6 DEF kind, place, start, end
  <2> QED BY <1>1, <2>1, <2>3
<1> HIDE DEF here, stays
<1>4. ASSUME NEW d \in Seq(R), NEW row \in R, row.place \in Q
      PROVE  Append(d, row) \in Placed(E, Q)
  <2> DEFINE new == Append(d, row)
  <2>1. new \in Seq(R) /\ new # <<>> /\ Len(new) = Len(d) + 1 /\ new[Len(d) + 1] = row
    BY AppendProperties
  <2> HIDE DEF new
  <2>2. new \in Placed(E, Q)
    BY <1>4, <2>1 DEF Placed
  <2> QED BY <2>2 DEF new
<1>5. CASE here.place = wanted.place
  BY <1>1, <1>2, <1>4, <1>5 DEF Route, here
<1>6. CASE here.place # wanted.place /\ TooLong(trip, here)
  <2>1. Route(day, wanted) = Append(day, stays)
    BY <1>6 DEF Route, here, stays
  <2> QED BY <1>1, <1>3, <1>4, <2>1
<1>7. CASE here.place # wanted.place /\ ~TooLong(trip, here)
  <2>1. trip \in Nat
    BY <1>1, <1>2, <1>7 DEF Far
  <2>2. Route(day, wanted) = Append(Append(left, travel), wanted)
    BY <1>7 DEF Route, Leaving, here
  <2>3. wanted.start - trip \in Int
    <3> HIDE DEF trip
    <3>1. wanted.start \in Int
      BY <1>2
    <3> QED BY <2>1, <3>1
  <2>4. left \in Seq(R)
    <3> DEFINE short == StayOf(day[Len(day)].kind, day[Len(day)].start, wanted.start - trip,
                               day[Len(day)].place, day[Len(day)].basis)
    <3>1. short \in R /\ left = [day EXCEPT ![Len(day)] = short]
      BY <1>1, <2>3, LeftEarly
    <3> HIDE DEF short, R, left
    <3> QED BY <1>1, <3>1, ExceptSeq
  <2>5. travel \in R
    <3>1. travel = StayOf("travel", wanted.start - trip, wanted.start, Nowhere, "straight_line_proxy")
      BY DEF Stay, Row, StayOf
    <3>2. "travel" \in Kinds /\ Nowhere \in E
      BY DEF Kinds, DiaryKinds
    <3> DEFINE start == wanted.start - trip
    <3>3. start \in Int
      BY <2>3
    <3>5. wanted.start \in Int
      BY <1>2
    <3>6. "straight_line_proxy" \in Bases
      BY DEF Bases
    <3> HIDE DEF start
    <3>4. StayOf("travel", start, wanted.start, Nowhere, "straight_line_proxy") \in StayRows(E)
      BY <3>2, <3>3, <3>5, <3>6, StayIs
    <3> QED BY <3>1, <3>4 DEF start
  <2> HIDE DEF left, travel
  <2>6. Append(left, travel) \in Seq(R)
    BY <2>4, <2>5, AppendProperties
  <2> QED BY <1>2, <1>4, <2>2, <2>6
<1> QED BY <1>5, <1>6, <1>7
\* The supply has the place of a row for its activity.
Offered(supply, row) == \E s \in supply : s.place = row.place /\ s.kind = row.kind

\* A routed row is a trip or at a place that the supply has for it.
RowFits(supply, Q, row) ==
  IF row.kind = "travel" THEN row.place = Nowhere ELSE row.place \in Q /\ Offered(supply, row)

\* A day that is routed up to a minute.
RoutedTo(supply, Q, day, minute) ==
  /\ day \in Seq(StayRows(Q \cup {Nowhere})) /\ day # <<>>
  /\ UpToMinute(day, minute) /\ TripsFit(day)
  /\ day[Len(day)].kind # "travel"
  /\ \A j \in 1..Len(day) : RowFits(supply, Q, day[j])

\* Who stays at a place keeps a day that fits.
LEMMA StayThere ==
  ASSUME NEW supply, NEW Q, NEW day, NEW minute \in Int, RoutedTo(supply, Q, day, minute),
         NEW row \in StayRows(Q \cup {Nowhere}), row.kind # "travel", Offered(supply, row),
         row.place = day[Len(day)].place, row.start = minute, row.start < row.end
  PROVE  RoutedTo(supply, Q, Append(day, row), row.end)
<1> DEFINE R == StayRows(Q \cup {Nowhere})
           n == Len(day)
           new == Append(day, row)
<1>1. /\ day \in Seq(R) /\ day # <<>> /\ UpToMinute(day, minute)
      /\ n \in Nat \ {0} /\ n \in 1..n
  <2>1. day \in Seq(R) /\ day # <<>> /\ UpToMinute(day, minute)
    BY DEF RoutedTo
  <2> QED BY <2>1, EmptySeq
<1>2. /\ new \in Seq(R) /\ Len(new) = n + 1 /\ new[n + 1] = row
      /\ \A j \in 1..n : new[j] = day[j]
  BY <1>1, AppendProperties
<1>3. new # <<>> /\ UpToMinute(new, row.end)
  <2>1. Timed(R)
    BY StaysHaveTimes
  <2> HIDE DEF R
  <2> QED BY <1>1, <2>1, OneMoreRow DEF R
<1>4. /\ day[n].kind # "travel" /\ \A j \in 1..n : RowFits(supply, Q, day[j])
      /\ TripsFit(day)
  BY DEF RoutedTo, n
<1> HIDE DEF n, new, R
<1>5. \A j \in 1..(n + 1) : j \in 1..n \/ j = n + 1
  BY <1>1
<1>6. \A j \in 1..(n + 1) : RowFits(supply, Q, new[j])
  <2>1. RowFits(supply, Q, row)
    BY <1>1, <1>4 DEF RowFits, n
  <2> QED BY <1>2, <1>4, <1>5, <2>1
<1>7. TripsFit(new)
  <2>1. ASSUME NEW j \in 1..n, new[j].kind # "travel", new[j+1].kind # "travel"
        PROVE  new[j].place = new[j+1].place
    <3>1. CASE j = n
      BY <1>1, <1>2, <3>1 DEF n
    <3>2. CASE j # n
      <4>1. j \in 1..(n - 1) /\ j + 1 \in 1..n
        BY <1>1, <3>2
      <4> QED BY <1>2, <1>4, <2>1, <4>1 DEF TripsFit, n
    <3> QED BY <3>1, <3>2
  <2>2. ASSUME NEW j \in 1..(n + 1), new[j].kind = "travel"
        PROVE  /\ j - 1 \in 1..(n + 1) /\ j + 1 \in 1..(n + 1)
               /\ new[j-1].kind # "travel" /\ new[j+1].kind # "travel"
               /\ new[j-1].place # new[j+1].place
               /\ new[j].end - new[j].start = MinutesBetween[new[j-1].place, new[j+1].place]
    <3>1. j \in 1..n
      BY <1>2, <1>5, <2>2
    <3>2. day[j].kind = "travel" /\ new[j] = day[j]
      BY <1>2, <2>2, <3>1
    <3>3. /\ j - 1 \in 1..n /\ j + 1 \in 1..n
          /\ day[j-1].kind # "travel" /\ day[j+1].kind # "travel"
          /\ day[j-1].place # day[j+1].place
          /\ day[j].end - day[j].start = MinutesBetween[day[j-1].place, day[j+1].place]
      BY <1>4, <3>1, <3>2 DEF TripsFit, n
    <3>4. new[j-1] = day[j-1] /\ new[j+1] = day[j+1]
      BY <1>2, <3>3
    <3>5. j - 1 \in 1..(n + 1) /\ j + 1 \in 1..(n + 1)
      <4>1. j - 1 \in 1..n /\ j + 1 \in 1..n
        BY <3>3
      <4> QED BY <1>1, <4>1
    <3> QED BY <3>2, <3>3, <3>4, <3>5
  <2>3. (n + 1) - 1 = n
    BY <1>1
  <2> QED BY <1>2, <2>1, <2>2, <2>3 DEF TripsFit
<1>8. RoutedTo(supply, Q, new, row.end)
  <2>1. \A j \in 1..Len(new) : RowFits(supply, Q, new[j])
    BY <1>2, <1>6
  <2>2. new[Len(new)].kind # "travel"
    BY <1>2
  <2>3. new \in Seq(StayRows(Q \cup {Nowhere}))
    BY <1>2 DEF R
  <2> QED BY <1>3, <1>7, <2>1, <2>2, <2>3 DEF RoutedTo
<1> QED BY <1>8 DEF new
\* There is the time to go from a place to that of the next stay.
InTime(here, row, trip) ==
  /\ row.place # here.place
  /\ trip = MinutesBetween[here.place, row.place]
  /\ trip \in Nat /\ trip # 0 /\ trip < here.end - here.start

\* Who leaves in time arrives when the next stay begins.
LEMMA SetOut ==
  ASSUME NEW supply, NEW Q, NEW day, NEW minute \in Int, RoutedTo(supply, Q, day, minute),
         NEW row \in StayRows(Q \cup {Nowhere}), row.kind # "travel", Offered(supply, row), row.place \in Q,
         row.start = minute, row.start < row.end, NEW trip, InTime(day[Len(day)], row, trip)
  PROVE  RoutedTo(supply, Q, Append(Leaving(day, trip, row), row), row.end)
<1> DEFINE E == Q \cup {Nowhere}
           R == StayRows(E)
           n == Len(day)
           here == day[n]
           start == minute - trip
           short == StayOf(here.kind, here.start, start, here.place, here.basis)
           left == [day EXCEPT ![n] = short]
           travel == StayOf("travel", start, minute, Nowhere, "straight_line_proxy")
           gone == Append(left, travel)
           new == Append(gone, row)
<1>1. /\ day \in Seq(R) /\ day # <<>> /\ UpToMinute(day, minute)
      /\ n \in Nat \ {0} /\ n \in 1..n /\ n # 0
  <2>1. day \in Seq(R) /\ day # <<>> /\ UpToMinute(day, minute)
    BY DEF RoutedTo
  <2> QED BY <2>1, EmptySeq
<1>2. here \in R
  <2> HIDE DEF R
  <2> QED BY <1>1, ElementOfSeq
<1>3. here.kind \in Kinds /\ here.start \in Int /\ here.end \in Int /\ here.place \in E /\ here.basis \in Bases
  BY <1>2, StayFields
<1>4. here.end = minute
  BY <1>1 DEF UpToMinute
<1>5. start \in Int /\ here.start < start /\ start < minute /\ minute - start = trip
  <2>1. InTime(here, row, trip)
    OBVIOUS
  <2> HIDE DEF here, start
  <2>2. trip \in Nat /\ trip # 0 /\ trip < here.end - here.start
    BY <2>1 DEF InTime
  <2> QED BY <1>3, <1>4, <2>2 DEF start
<1>6. Leaving(day, trip, row) = gone
  <2>1. [day EXCEPT ![n].end = start] = left
    BY <1>1, <1>5, LeftEarly
  <2>2. travel = Stay(Row("travel", start, minute), Nowhere, "straight_line_proxy")
    BY DEF Stay, Row, StayOf
  <2> HIDE DEF left, travel
  <2> QED BY <2>1, <2>2 DEF Leaving
<1>7. /\ short \in R /\ short.kind = here.kind /\ short.start = here.start
      /\ short.end = start /\ short.place = here.place
  <2>1. short.kind = here.kind /\ short.start = here.start /\ short.end = start /\ short.place = here.place
    BY DEF StayOf
  <2> HIDE DEF start
  <2>2. start \in Int
    BY <1>5
  <2> DEFINE kind == here.kind
             from == here.start
             place == here.place
             basis == here.basis
  <2>3. kind \in Kinds /\ from \in Int /\ place \in E /\ basis \in Bases
    BY <1>3
  <2> HIDE DEF kind, from, place, basis
  <2>4. StayOf(kind, from, start, place, basis) \in StayRows(E)
    BY <2>2, <2>3, StayIs
  <2>5. short \in R
    BY <2>4 DEF kind, from, place, basis
  <2> QED BY <2>1, <2>5
<1>8. travel \in R /\ travel.kind = "travel" /\ travel.place = Nowhere /\ travel.start = start /\ travel.end = minute
  <2>1. "travel" \in Kinds /\ Nowhere \in E /\ "straight_line_proxy" \in Bases
    BY DEF Kinds, DiaryKinds, Bases
  <2> HIDE DEF start
  <2>2. StayOf("travel", start, minute, Nowhere, "straight_line_proxy") \in StayRows(E)
    BY <1>5, <2>1, StayIs
  <2>3. travel.kind = "travel" /\ travel.place = Nowhere /\ travel.start = start /\ travel.end = minute
    BY DEF StayOf
  <2> QED BY <2>2, <2>3
<1>9. row \in R /\ Timed(R)
  BY StaysHaveTimes
<1> HIDE DEF E, R, short, travel, start, here
<1>10. /\ left \in Seq(R) /\ Len(left) = n
       /\ \A j \in 1..n : left[j] = IF j = n THEN short ELSE day[j]
  BY <1>1, <1>7, ExceptSeq
<1>11. left # <<>>
  BY <1>1, <1>10, EmptySeq
<1>12. UpToMinute(left, start)
  BY <1>1, <1>5, <1>7, <1>9, <1>11, LongerRow DEF here
<1> HIDE DEF left
<1>13. /\ gone \in Seq(R) /\ Len(gone) = n + 1 /\ gone[n + 1] = travel
       /\ \A j \in 1..n : gone[j] = left[j]
  BY <1>8, <1>10, AppendProperties
<1>14. gone # <<>> /\ UpToMinute(gone, minute)
  BY <1>5, <1>8, <1>9, <1>10, <1>12, OneMoreRow
<1> HIDE DEF gone
<1>15. /\ new \in Seq(R) /\ Len(new) = n + 2 /\ new[n + 2] = row
       /\ \A j \in 1..(n + 1) : new[j] = gone[j]
  <2>1. /\ new \in Seq(R) /\ Len(new) = Len(gone) + 1 /\ new[Len(gone) + 1] = row
        /\ \A j \in 1..Len(gone) : new[j] = gone[j]
    BY <1>9, <1>13, AppendProperties
  <2>2. (n + 1) + 1 = n + 2
    BY <1>1
  <2> QED BY <1>13, <2>1, <2>2
<1>16. new # <<>> /\ UpToMinute(new, row.end)
  BY <1>9, <1>13, <1>14, OneMoreRow
<1> HIDE DEF new
<1>17. /\ new[n + 2] = row /\ new[n + 1] = travel /\ new[n] = short
       /\ \A j \in 1..n : new[j].kind = day[j].kind /\ new[j].place = day[j].place
       /\ \A j \in 1..n : j # n => new[j] = day[j]
  <2>1. \A j \in 1..n : j \in 1..(n + 1) /\ n + 1 \in 1..(n + 1)
    BY <1>1
  <2>2. \A j \in 1..n : new[j] = IF j = n THEN short ELSE day[j]
    BY <1>10, <1>13, <1>15, <2>1
  <2> QED BY <1>1, <1>7, <1>13, <1>15, <2>1, <2>2 DEF here
<1>18. /\ day[n].kind # "travel" /\ \A j \in 1..n : RowFits(supply, Q, day[j])
       /\ TripsFit(day)
  BY DEF RoutedTo, n
<1>19. \A j \in 1..(n + 2) : j \in 1..n \/ j = n + 1 \/ j = n + 2
  BY <1>1
<1> HIDE DEF n
<1>20. \A j \in 1..(n + 2) : RowFits(supply, Q, new[j])
  <2>1. \A j \in 1..n : RowFits(supply, Q, new[j])
    BY <1>17, <1>18 DEF RowFits, Offered
  <2>2. RowFits(supply, Q, new[n + 1])
    BY <1>8, <1>17 DEF RowFits
  <2>3. RowFits(supply, Q, new[n + 2])
    BY <1>17 DEF RowFits
  <2> QED BY <1>19, <2>1, <2>2, <2>3
<1>21. TripsFit(new)
  <2>1. ASSUME NEW j \in 1..(n + 1), new[j].kind # "travel", new[j+1].kind # "travel"
        PROVE  new[j].place = new[j+1].place
    <3>1. j # n + 1 /\ j + 1 # n + 1
      BY <1>8, <1>17, <2>1
    <3>2. j \in 1..(n - 1) /\ j \in 1..n /\ j + 1 \in 1..n
      BY <1>1, <3>1
    <3>3. new[j].kind = day[j].kind /\ new[j].place = day[j].place
          /\ new[j+1].kind = day[j+1].kind /\ new[j+1].place = day[j+1].place
      BY <1>17, <3>2
    <3>4. day[j].kind # "travel" /\ day[j+1].kind # "travel" => day[j].place = day[j+1].place
      BY <1>18, <3>2 DEF TripsFit, n
    <3> QED BY <2>1, <3>3, <3>4
  <2>2. ASSUME NEW j \in 1..(n + 2), new[j].kind = "travel"
        PROVE  /\ j - 1 \in 1..(n + 2) /\ j + 1 \in 1..(n + 2)
               /\ new[j-1].kind # "travel" /\ new[j+1].kind # "travel"
               /\ new[j-1].place # new[j+1].place
               /\ new[j].end - new[j].start = MinutesBetween[new[j-1].place, new[j+1].place]
    <3>1. CASE j \in 1..n
      <4>1. day[j].kind = "travel" /\ j # n /\ new[j] = day[j]
        BY <1>17, <1>18, <2>2, <3>1
      <4>2. /\ j - 1 \in 1..n /\ j + 1 \in 1..n
            /\ day[j-1].kind # "travel" /\ day[j+1].kind # "travel"
            /\ day[j-1].place # day[j+1].place
            /\ day[j].end - day[j].start = MinutesBetween[day[j-1].place, day[j+1].place]
        BY <1>18, <3>1, <4>1 DEF TripsFit, n
      <4>3. /\ new[j-1].kind = day[j-1].kind /\ new[j-1].place = day[j-1].place
            /\ new[j+1].kind = day[j+1].kind /\ new[j+1].place = day[j+1].place
        BY <1>17, <4>2
      <4>4. j - 1 \in 1..(n + 2) /\ j + 1 \in 1..(n + 2)
        <5>1. j - 1 \in 1..n /\ j + 1 \in 1..n
          BY <4>2
        <5> QED BY <1>1, <5>1
      <4> QED BY <4>1, <4>2, <4>3, <4>4
    <3>2. CASE j = n + 1
      <4>1. j - 1 = n /\ j + 1 = n + 2 /\ n \in 1..(n + 2) /\ n + 2 \in 1..(n + 2) /\ n \in 1..n
        BY <1>1, <3>2
      <4>2. new[n].kind = day[n].kind /\ new[n].place = day[n].place
        BY <1>17, <4>1
      <4>3. travel.end - travel.start = trip
        BY <1>5, <1>8
      <4>4. trip = MinutesBetween[day[n].place, row.place] /\ row.place # day[n].place
        BY DEF InTime, n
      <4> QED BY <1>17, <1>18, <3>2, <4>1, <4>2, <4>3, <4>4
    <3>3. CASE j = n + 2
      BY <1>17, <2>2, <3>3
    <3> QED BY <1>19, <3>1, <3>2, <3>3
  <2>3. (n + 2) - 1 = n + 1
    BY <1>1
  <2> QED BY <1>15, <2>1, <2>2, <2>3 DEF TripsFit
<1>22. RoutedTo(supply, Q, new, row.end)
  <2>1. \A j \in 1..Len(new) : RowFits(supply, Q, new[j])
    BY <1>15, <1>20
  <2>2. new[Len(new)].kind # "travel"
    BY <1>15
  <2>3. new \in Seq(StayRows(Q \cup {Nowhere}))
    BY <1>15 DEF R, E
  <2> QED BY <1>16, <1>21, <2>1, <2>2, <2>3 DEF RoutedTo
<1> QED BY <1>6, <1>22 DEF new
\* A step of Routed keeps a day that fits so far.
LEMMA RouteKeeps ==
  ASSUME NEW supply, NEW Q, Far(Q), NEW day, NEW minute \in Int, RoutedTo(supply, Q, day, minute),
         NEW wanted \in StayRows(Q), wanted.kind # "travel", Offered(supply, wanted),
         wanted.start = minute, wanted.start < wanted.end
  PROVE  RoutedTo(supply, Q, Route(day, wanted), wanted.end)
<1> DEFINE E == Q \cup {Nowhere}
           here == day[Len(day)]
           trip == MinutesBetween[here.place, wanted.place]
           stays == Retained(wanted, here)
<1>1. /\ day \in Seq(StayRows(E)) /\ here.kind # "travel"
      /\ Len(day) \in 1..Len(day) /\ RowFits(supply, Q, here)
  <2>1. /\ day \in Seq(StayRows(E)) /\ day # <<>> /\ here.kind # "travel"
        /\ \A j \in 1..Len(day) : RowFits(supply, Q, day[j])
    BY DEF RoutedTo
  <2>2. Len(day) \in 1..Len(day)
    BY <2>1, EmptySeq
  <2> QED BY <2>1, <2>2
<1>2. here \in StayRows(E)
  BY <1>1, ElementOfSeq
<1>3. here.kind \in Kinds /\ here.place \in Q /\ Offered(supply, here) /\ here.start \in Int /\ here.end \in Int
  BY <1>1, <1>2, StayFields DEF RowFits
<1>4. wanted.start \in Int /\ wanted.end \in Int /\ wanted.place \in Q
  BY StayFields
<1>5. wanted \in StayRows(E)
  BY DEF StayRows
<1>6. Route(day, wanted) = IF here.place = wanted.place THEN Append(day, wanted)
                           ELSE IF TooLong(trip, here) THEN Append(day, stays)
                           ELSE Append(Leaving(day, trip, wanted), wanted)
  BY DEF Route, Last
<1> HIDE DEF here, trip
<1>7. CASE here.place = wanted.place
  BY <1>5, <1>6, <1>7, StayThere DEF here
<1>8. CASE here.place # wanted.place /\ TooLong(trip, here)
  <2> DEFINE kind == here.kind
             place == here.place
             start == wanted.start
             end == wanted.end
  <2>1. kind \in Kinds /\ start \in Int /\ end \in Int /\ place \in E
    BY <1>3, <1>4
  <2>2. stays = StayOf(kind, start, end, place, "retained")
    BY RetainedIs
  <2> HIDE DEF kind, place, start, end, stays
  <2>3. "retained" \in Bases
    BY DEF Bases
  <2>4. stays \in StayRows(E) /\ stays.kind = kind /\ stays.start = start /\ stays.end = end /\ stays.place = place
    <3>1. StayOf(kind, start, end, place, "retained") \in StayRows(E)
      BY <2>1, <2>3, StayIs
    <3> QED BY <2>2, <3>1 DEF StayOf
  <2>5. /\ stays.kind # "travel" /\ Offered(supply, stays) /\ stays.place = day[Len(day)].place
        /\ stays.start = minute /\ stays.start < stays.end /\ stays.end = wanted.end
    BY <1>1, <1>3, <2>4 DEF Offered, kind, place, start, end, here
  <2>6. RoutedTo(supply, Q, Append(day, stays), stays.end)
    BY <2>4, <2>5, StayThere
  <2>7. Route(day, wanted) = Append(day, stays)
    BY <1>6, <1>8 DEF stays
  <2> QED BY <2>5, <2>6, <2>7
<1>9. CASE here.place # wanted.place /\ ~TooLong(trip, here)
  <2>1. trip \in Nat /\ trip # 0
    BY <1>3, <1>4, <1>9 DEF Far, trip
  <2>2. trip < here.end - here.start
    BY <1>3, <1>9, <2>1 DEF TooLong
  <2>3. InTime(here, wanted, trip)
    BY <1>9, <2>1, <2>2 DEF InTime, trip
  <2>4. InTime(day[Len(day)], wanted, trip)
    BY <2>3 DEF here
  <2>5. RoutedTo(supply, Q, Append(Leaving(day, trip, wanted), wanted), wanted.end)
    BY <1>4, <1>5, <2>4, SetOut
  <2> QED BY <1>6, <1>9, <2>5
<1> QED BY <1>7, <1>8, <1>9
\* A day of stays at places between which there are roads is routed to its end.
LEMMA RoutedIsFit ==
  ASSUME NEW supply, NEW Q, Far(Q), NEW rows \in Seq(StayRows(Q)), rows # <<>>, UpToMinute(rows, DayEnd),
         \A i \in 1..Len(rows) : rows[i].kind # "travel" /\ Offered(supply, rows[i])
  PROVE  RoutedTo(supply, Q, Routed(rows), DayEnd)
<1> DEFINE E == Q \cup {Nowhere}
           T == Placed(E, Q)
           N == Len(rows)
           tail == Tail(rows)
           n == Len(tail)
           base == <<rows[1]>>
           step == [i \in 1..n |-> [day \in T |-> Route(day, tail[i])]]
           Is(f) == f = [s \in SUBSET (1..n) |->
                          IF s = {} THEN base ELSE Route(f[s \ {Max(s)}], tail[Max(s)])]
           iter == CHOOSE f : Is(f)
<1>1. N \in Nat \ {0} /\ 1 \in 1..N /\ \A i \in 1..N : rows[i] \in StayRows(Q)
  BY EmptySeq, ElementOfSeq
<1>2. /\ tail \in Seq(StayRows(Q)) /\ n = N - 1 /\ n \in Nat
      /\ \A i \in 1..n : tail[i] = rows[i+1]
  BY <1>1, HeadTailProperties
<1>3. DOMAIN tail = 1..n /\ \A i \in 1..n : tail[i] \in StayRows(Q)
  BY <1>2, LenProperties, ElementOfSeq
<1> HIDE DEF tail, base
<1>4. Routed(rows) = iter[1..n]
  BY <1>3 DEF Routed, FoldLeft, MapThenFoldSet, tail, base
<1> HIDE DEF N, n, E
<1>5. /\ \A i \in 1..N : rows[i].start < rows[i].end
      /\ \A i \in 1..(N - 1) : rows[i].end = rows[i+1].start
      /\ rows[1].start = 0 /\ rows[N].end = DayEnd
  BY DEF UpToMinute, N
<1>6. \A i \in 1..N : rows[i].start \in Int /\ rows[i].end \in Int /\ rows[i].place \in Q
                      /\ rows[i].kind # "travel" /\ Offered(supply, rows[i])
  BY <1>1, StayFields DEF N
<1>7. base \in T /\ RoutedTo(supply, Q, base, rows[1].end)
  <2> DEFINE R == StayRows(E)
             row == rows[1]
  <2>1. row \in R
    BY <1>1 DEF E, StayRows
  <2>2. row.place \in Q /\ row.kind # "travel" /\ Offered(supply, row) /\ row.start < row.end
        /\ row.start = 0 /\ row.end \in Int
    BY <1>1, <1>5, <1>6
  <2> HIDE DEF R, row
  <2>3. base \in Seq(R) /\ base # <<>> /\ Len(base) = 1 /\ base[1] = row
    BY <2>1 DEF base, row
  <2> HIDE DEF base
  <2>4. UpToMinute(base, row.end)
    BY <2>2, <2>3 DEF UpToMinute
  <2>5. TripsFit(base)
    BY <2>2, <2>3 DEF TripsFit
  <2>6. \A j \in 1..Len(base) : RowFits(supply, Q, base[j])
    BY <2>2, <2>3 DEF RowFits
  <2>7. base[Len(base)].kind # "travel" /\ base[Len(base)].place \in Q
    BY <2>2, <2>3
  <2>8. RoutedTo(supply, Q, base, row.end)
    BY <2>3, <2>4, <2>5, <2>6, <2>7 DEF RoutedTo, R, E
  <2> QED BY <2>3, <2>7, <2>8 DEF Placed, R, row
<1>8. \A i \in 1..n : \A day \in T : step[i][day] = Route(day, tail[i]) /\ step[i][day] \in T
  BY <1>3, RouteTyped DEF E
<1> HIDE DEF T
<1>9. PICK f : FoldsIndices(f, n, T, base, step)
  <2> HIDE DEF step
  <2>1. StepsFor(step, 1..n, T)
    BY <1>8 DEF StepsFor
  <2>2. n \in Nat /\ base \in T
    BY <1>2, <1>7
  <2> QED BY <2>1, <2>2, FoldOfIndices
<1>10. Is(f)
  <2> HIDE DEF step
  <2>1. \A s \in SUBSET (1..n) : f[s] = IF s = {} THEN base ELSE Route(f[s \ {Max(s)}], tail[Max(s)])
    BY <1>8, <1>9 DEF FoldsIndices
  <2> QED BY <1>9, <2>1 DEF FoldsIndices
<1> HIDE DEF step
<1>11. Is(iter)
  <2> HIDE DEF Is
  <2> QED BY <1>10
<1>12. iter[{}] = base /\ \A i \in 1..n : iter[1..i] = Route(iter[1..(i-1)], tail[i])
  <2>1. \A s \in SUBSET (1..n) : iter[s] = IF s = {} THEN base ELSE Route(iter[s \ {Max(s)}], tail[Max(s)])
    BY <1>11
  <2> HIDE DEF iter
  <2>2. iter[{}] = base
    BY <2>1
  <2>3. ASSUME NEW i \in 1..n PROVE iter[1..i] = Route(iter[1..(i-1)], tail[i])
    <3>1. n \in Nat
      BY <1>2
    <3>2. 1..i \in SUBSET (1..n) /\ 1..i # {} /\ Max(1..i) = i /\ (1..i) \ {i} = 1..(i - 1)
      BY <3>1, PrefixIs
    <3> QED BY <2>1, <3>2
  <2> QED BY <2>2, <2>3
<1> HIDE DEF iter, Is
<1> DEFINE G == {i \in 0..n : RoutedTo(supply, Q, iter[1..i], rows[i+1].end)}
<1>13. 0 \in G
  <2>1. 1..0 = {} /\ 0 \in 0..n /\ 0 + 1 = 1
    BY <1>2
  <2> QED BY <1>7, <1>12, <2>1
<1>14. ASSUME NEW i \in 1..n, i - 1 \in G PROVE i \in G
  <2> DEFINE day == iter[1..(i-1)]
             wanted == rows[i+1]
             minute == rows[i].end
  <2>1. i \in 0..n /\ i \in 1..N /\ i + 1 \in 1..N /\ i \in 1..(N - 1) /\ (i - 1) + 1 = i
    BY <1>1, <1>2
  <2>2. RoutedTo(supply, Q, day, minute)
    BY <1>14, <2>1
  <2>3. /\ wanted \in StayRows(Q) /\ wanted.kind # "travel" /\ Offered(supply, wanted)
        /\ wanted.start = minute /\ wanted.start < wanted.end /\ minute \in Int
    BY <1>1, <1>5, <1>6, <2>1
  <2>4. iter[1..i] = Route(day, wanted)
    BY <1>2, <1>12
  <2> HIDE DEF day, wanted, minute
  <2>5. RoutedTo(supply, Q, Route(day, wanted), wanted.end)
    BY <2>2, <2>3, RouteKeeps
  <2>6. RoutedTo(supply, Q, iter[1..i], rows[i+1].end)
    BY <2>4, <2>5 DEF wanted
  <2> QED BY <2>1, <2>6
<1>15. RoutedTo(supply, Q, iter[1..n], rows[n+1].end)
  <2> HIDE DEF G
  <2>1. \A i \in 0..n : i \in G
    BY <1>2, <1>13, <1>14, UpTo
  <2>2. n \in G
    BY <1>2, <2>1
  <2> QED BY <2>2 DEF G
<1>16. n + 1 = N
  BY <1>1, <1>2
<1> QED BY <1>4, <1>5, <1>15, <1>16

\* A routed day passes the checks of the runtime, if no two rows of the supply are of one
\* place, and nobody teleports in it.
LEMMA RoutedIsAccepted ==
  ASSUME NEW supply, NEW Q, NEW day, RoutedTo(supply, Q, day, DayEnd)
  PROVE  (~Collides(supply) => RoutedDayAccepted(supply, day)) /\ Apart(Exported(day))
<1> DEFINE R == StayRows(Q \cup {Nowhere})
           n == Len(day)
<1>1. day \in Seq(R) /\ day # <<>> /\ UpToMinute(day, DayEnd) /\ TripsFit(day)
      /\ \A j \in 1..n : RowFits(supply, Q, day[j])
  BY DEF RoutedTo
<1>2. Timed(R)
  BY StaysHaveTimes
<1> HIDE DEF R
<1>3. Apart(Exported(day))
  BY <1>1, <1>2, ExportedIsApart
<1>4. n \in Nat \ {0} /\ DOMAIN day = 1..n /\ \A i \in 1..n : day[i].start \in Int /\ day[i].end \in Int
  <2>1. n \in Nat \ {0} /\ DOMAIN day = 1..n
    BY <1>1, EmptySeq, LenProperties
  <2>2. \A i \in 1..n : day[i] \in R
    BY <1>1, ElementOfSeq
  <2> QED BY <1>2, <2>1, <2>2 DEF Timed
<1> HIDE DEF n
<1>5. /\ \A i \in 1..n : day[i].start < day[i].end
      /\ \A i \in 1..(n - 1) : day[i].end = day[i+1].start
      /\ day[1].start = 0 /\ day[n].end = DayEnd
  BY <1>1 DEF UpToMinute, n
<1>6. \A i \in 1..n : 0 <= day[i].start /\ day[i].end <= DayEnd
  <2> SUFFICES ASSUME NEW i \in 1..n PROVE 0 <= day[i].start /\ day[i].end <= DayEnd
    OBVIOUS
  <2>1. 1 \in 1..n /\ n \in 1..n
    BY <1>4
  <2>2. 0 <= day[i].start
    <3>1. CASE i = 1
      BY <1>5, <3>1
    <3>2. CASE i # 1
      <4>1. 1 < i
        BY <1>4, <3>2
      <4>2. day[1].end <= day[i].start
        BY <1>1, <1>2, <2>1, <4>1, LaterStarts DEF n
      <4> QED BY <1>4, <1>5, <2>1, <4>2
    <3> QED BY <3>1, <3>2
  <2>3. day[i].end <= DayEnd
    <3>1. CASE i = n
      BY <1>5, <3>1, DayAssumption
    <3>2. CASE i # n
      <4>1. i < n
        BY <1>4, <3>2
      <4>2. day[i].end <= day[n].start
        BY <1>1, <1>2, <2>1, <4>1, LaterStarts DEF n
      <4> QED BY <1>4, <1>5, <2>1, <4>2, DayAssumption
    <3> QED BY <3>1, <3>2
  <2> QED BY <2>2, <2>3
<1>7. ASSUME ~Collides(supply) PROVE RoutedDayAccepted(supply, day)
  <2>1. \A i \in DOMAIN day : IF day[i].kind = "travel" THEN day[i].place = Nowhere
                              ELSE \E s \in supply : s.place = day[i].place /\ s.kind = day[i].kind
    BY <1>1, <1>4 DEF RowFits, Offered, n
  <2>2. \A s, t \in supply : s.place = t.place => s = t
    BY <1>7 DEF Collides
  <2>3. \A i \in DOMAIN day : IF day[i].kind = "travel" THEN day[i].place = Nowhere
                              ELSE LET there == {s \in supply : s.place = day[i].place}
                                   IN there # {} /\ \A s \in there : s.kind = day[i].kind
    BY <2>1, <2>2
  <2> QED BY <1>4, <1>5, <1>6, <2>3 DEF RoutedDayAccepted, n
<1> QED BY <1>3, <1>7
-----------------------------------------------------------------------------
(* Schedules.                                                              *)

\* The n-th of finitely many numbers is one of them.
LEMMA DrawIsOne ==
  ASSUME NEW ids \in SUBSET Int, IsFiniteSet(ids), ids # {}, NEW n \in Int
  PROVE  Draw(ids, n) \in ids
<1> DEFINE Less(id) == {other \in ids : other < id}
           m == Cardinality(ids)
           f == [id \in ids |-> 1 + Cardinality(Less(id))]
<1>1. m \in Nat \ {0}
  <2>1. m \in Nat
    BY FS_CardinalityType
  <2>2. m = 0 <=> ids = {}
    BY FS_EmptySet
  <2> HIDE DEF m
  <2> QED BY <2>1, <2>2
<1>2. ASSUME NEW id \in ids
      PROVE  /\ IsFiniteSet(Less(id)) /\ Cardinality(Less(id)) \in Nat
             /\ Less(id) \cup {id} \in SUBSET ids
             /\ Cardinality(Less(id) \cup {id}) = Cardinality(Less(id)) + 1
  <2>1. Less(id) \in SUBSET ids /\ id \notin Less(id)
    OBVIOUS
  <2>2. IsFiniteSet(Less(id))
    BY <2>1, FS_Subset
  <2> HIDE DEF Less
  <2> QED BY <2>1, <2>2, FS_CardinalityType, FS_AddElement
<1>3. ASSUME NEW id \in ids PROVE f[id] \in 1..m
  <2>1. Cardinality(Less(id) \cup {id}) <= m
    BY <1>2, FS_Subset
  <2> HIDE DEF Less, m
  <2> QED BY <1>1, <1>2, <2>1
<1>4. ASSUME NEW a \in ids, NEW b \in ids, a < b PROVE f[a] # f[b]
  <2>1. Less(a) \cup {a} \in SUBSET Less(b)
    <3>1. a \in Int /\ b \in Int /\ \A x \in ids : x \in Int
      OBVIOUS
    <3>2. \A x \in ids : x < a => x < b
      BY <1>4, <3>1
    <3>3. a \in Less(b)
      BY <1>4
    <3> QED BY <3>2, <3>3
  <2> DEFINE A == Less(a)
             B == Less(b)
  <2>2. f[a] = 1 + Cardinality(A) /\ f[b] = 1 + Cardinality(B)
    OBVIOUS
  <2>3. /\ IsFiniteSet(B) /\ Cardinality(A) \in Nat /\ Cardinality(B) \in Nat
        /\ Cardinality(A \cup {a}) = Cardinality(A) + 1
    BY <1>2
  <2> HIDE DEF A, B, f
  <2>4. Cardinality(A \cup {a}) <= Cardinality(B)
    BY <2>1, <2>3, FS_Subset DEF A, B
  <2> QED BY <2>2, <2>3, <2>4
<1> HIDE DEF m
<1>5. f \in Injection(ids, 1..m)
  <2>1. \A a, b \in ids : f[a] = f[b] => a = b
    <3> SUFFICES ASSUME NEW a \in ids, NEW b \in ids, a # b PROVE f[a] # f[b]
      OBVIOUS
    <3>1. a < b \/ b < a
      OBVIOUS
    <3> HIDE DEF f
    <3>2. CASE a < b
      BY <1>4, <3>2
    <3>3. CASE b < a
      <4>1. f[b] # f[a]
        BY <1>4, <3>3
      <4> QED BY <4>1
    <3> QED BY <3>1, <3>2, <3>3
  <2>2. f \in [ids -> 1..m]
    BY <1>3
  <2> HIDE DEF f
  <2> QED BY <2>1, <2>2 DEF Injection, IsInjective
<1>6. IsFiniteSet(1..m) /\ Cardinality(1..m) = m
  BY <1>1, FS_Interval
<1>7. f \in Surjection(ids, 1..m)
  BY <1>5, <1>6, FS_Injection DEF m
<1>8. n % m \in 0..(m - 1)
  BY <1>1, Modulus
<1>9. (n % m) + 1 \in 1..m
  <2> DEFINE r == n % m
  <2> HIDE DEF r
  <2>1. r \in 0..(m - 1)
    BY <1>8 DEF r
  <2>2. r + 1 \in 1..m
    BY <1>1, <2>1
  <2> QED BY <2>2 DEF r
<1>10. PICK id \in ids : f[id] = (n % m) + 1
  <2> HIDE DEF f
  <2> QED BY <1>7, <1>9 DEF Surjection
<1>11. Cardinality(Less(id)) = n % m
  <2> DEFINE r == n % m
             c == Cardinality(Less(id))
  <2>1. c \in Nat /\ f[id] = 1 + c
    BY <1>2
  <2> HIDE DEF r, c, f
  <2>2. r \in 0..(m - 1) /\ f[id] = r + 1
    BY <1>8, <1>10 DEF r
  <2>3. r \in Int
    BY <1>1, <2>2
  <2>4. c = r
    BY <2>1, <2>2, <2>3
  <2> QED BY <2>4 DEF r, c
<1> QED BY <1>11 DEF Draw, m

\* There is a diary for everybody, and its day is whole.
LEMMA DonorDay ==
  ASSUME NEW donors, DiariesComplete(donors), NEW day \in {"weekday", "weekend"}, NEW p, p.id \in Int
  PROVE  /\ DonorRows(donors, day, p) \in Seq(Rows) /\ DonorRows(donors, day, p) # <<>>
         /\ UpToMinute(DonorRows(donors, day, p), DayEnd)
<1> DEFINE some == Candidates(donors, day, p)
           n == p.id + (IF day = "weekday" THEN 0 ELSE 1)
           D == [day : {"weekday", "weekend"}, age : Nat, sex : Nat, rows : Seq(DiaryRows)]
<1>1. donors \in Seq(D) /\ \E d \in DOMAIN donors : donors[d].day = day
  BY DEF DiariesComplete, DiaryRows
<1>2. Len(donors) \in Nat /\ DOMAIN donors = 1..Len(donors) /\ \A d \in 1..Len(donors) : donors[d] \in D
  <2> HIDE DEF D
  <2> QED BY <1>1, LenProperties, ElementOfSeq
<1>3. some \in SUBSET (1..Len(donors)) /\ some # {}
  BY <1>1, <1>2 DEF Candidates
<1> HIDE DEF some
<1>4. some \in SUBSET Int /\ IsFiniteSet(some)
  <2>1. IsFiniteSet(1..Len(donors))
    BY <1>2, FS_Interval
  <2>2. IsFiniteSet(some)
    BY <1>3, <2>1, FS_Subset
  <2> QED BY <1>3, <2>2
<1>5. n \in Int
  OBVIOUS
<1> HIDE DEF n
<1>6. Draw(some, n) \in some
  BY <1>3, <1>4, <1>5, DrawIsOne
<1>7. Donor(donors, day, p) = donors[Draw(some, n)]
  BY DEF Donor, some, n
<1>8. Donor(donors, day, p) \in D
  <2> HIDE DEF D
  <2> QED BY <1>2, <1>3, <1>6, <1>7
<1>9. Donor(donors, day, p).rows \in Seq(DiaryRows)
  BY <1>8
<1> QED BY <1>9, NormalizedIsWhole DEF DonorRows
\* Rows of the same times are as whole.
LEMMA SameTimes ==
  ASSUME NEW R, NEW rows \in Seq(R), NEW S, NEW new \in Seq(S), Len(new) = Len(rows),
         \A i \in 1..Len(rows) : new[i].start = rows[i].start /\ new[i].end = rows[i].end,
         NEW minute, rows # <<>>, UpToMinute(rows, minute)
  PROVE  new # <<>> /\ UpToMinute(new, minute)
<1> DEFINE n == Len(rows)
<1>1. n \in Nat \ {0} /\ Len(new) = n
  BY EmptySeq
<1>2. new # <<>>
  BY <1>1, EmptySeq
<1>3. \A i \in 1..n : new[i].start = rows[i].start /\ new[i].end = rows[i].end
  OBVIOUS
<1>4. /\ rows[1].start = 0 /\ rows[n].end = minute
      /\ \A i \in 1..n : rows[i].start < rows[i].end
      /\ \A i \in 1..(n - 1) : rows[i].end = rows[i+1].start
  BY DEF UpToMinute
<1> HIDE DEF n
<1>5. 1 \in 1..n /\ n \in 1..n
  BY <1>1
<1>6. \A i \in 1..(n - 1) : new[i].end = new[i+1].start
  <2> SUFFICES ASSUME NEW i \in 1..(n - 1) PROVE new[i].end = new[i+1].start
    OBVIOUS
  <2>1. i \in 1..n /\ i + 1 \in 1..n
    BY <1>1
  <2> QED BY <1>3, <1>4, <2>1
<1>7. new[1].start = 0 /\ new[n].end = minute
  BY <1>3, <1>4, <1>5
<1>8. \A i \in 1..n : new[i].start < new[i].end
  BY <1>3, <1>4
<1> QED BY <1>1, <1>2, <1>6, <1>7, <1>8 DEF UpToMinute

\* A row of a schedule is at home, or at the place of work, of school or of care of whoever
\* is assigned there.
HomeOrSite(p, places, row) ==
  IF row.kind = "travel" THEN row.place = Nowhere
  ELSE IF row.kind \in Anchored THEN GoesTo(p, row.kind, places) /\ row.place = p.site
  ELSE row.place = p.hh

\* A row of a schedule has the times of its diary and does not travel at the ends of the day.
ScheduledRow(p, places, row, start, end) ==
  /\ row \in StayRows(places \cup {Nowhere}) /\ row.start = start /\ row.end = end
  /\ HomeOrSite(p, places, row)
  /\ row.kind = "travel" => start # 0 /\ end # DayEnd

\* The row of given fields is one of a schedule.
LEMMA ScheduledRowIs ==
  ASSUME NEW p, NEW places, NEW kind \in Kinds, NEW start \in Int, NEW end \in Int,
         NEW place \in places \cup {Nowhere}, NEW basis \in Bases,
         IF kind = "travel" THEN place = Nowhere /\ start # 0 /\ end # DayEnd
         ELSE IF kind \in Anchored THEN GoesTo(p, kind, places) /\ place = p.site
         ELSE place = p.hh
  PROVE  ScheduledRow(p, places, StayOf(kind, start, end, place, basis), start, end)
<1> DEFINE row == StayOf(kind, start, end, place, basis)
<1>1. row \in StayRows(places \cup {Nowhere})
  BY StayIs
<1>2. row.kind = kind /\ row.start = start /\ row.end = end /\ row.place = place
  BY DEF StayOf
<1> HIDE DEF row
<1>3. HomeOrSite(p, places, row) /\ (row.kind = "travel" => start # 0 /\ end # DayEnd)
  BY <1>2 DEF HomeOrSite
<1> QED BY <1>1, <1>2, <1>3 DEF ScheduledRow, row

\* Every row of an adult is one of a schedule.
LEMMA AdultRowIs ==
  ASSUME NEW p, NEW places, p.hh \in places, NEW row \in Rows
  PROVE  ScheduledRow(p, places, AdultRow(p, row, places), row.start, row.end)
<1> DEFINE kind == row.kind
           start == row.start
           end == row.end
           home == [row EXCEPT !.kind = "home"]
           goes == kind \in {"work", "school"} /\ GoesTo(p, kind, places)
           edge == kind = "travel" /\ (start = 0 \/ end = DayEnd)
           new == AdultRow(p, row, places)
<1>1. kind \in DiaryKinds \cup {"home"} /\ start \in Int /\ end \in Int
  BY DEF Rows
<1>2. home.kind = "home" /\ home.start = start /\ home.end = end
  BY DEF Rows
<1> HIDE DEF home
<1>3. /\ "home" \in Kinds /\ kind \in Kinds /\ "home" # "travel" /\ "home" \notin Anchored
      /\ "anchor" \in Bases /\ "boundary_travel_home_fallback" \in Bases
      /\ "donor_travel_placeholder" \in Bases /\ "home_anchor" \in Bases
      /\ kind \in Anchored <=> kind \in {"work", "school"}
      /\ kind \in {"work", "school"} => kind # "travel"
  BY <1>1 DEF Kinds, Bases, DiaryKinds, Anchored
<1>4. new = IF goes THEN StayOf(kind, start, end, p.site, "anchor")
            ELSE IF edge THEN StayOf("home", start, end, p.hh, "boundary_travel_home_fallback")
            ELSE IF kind = "travel" THEN StayOf("travel", start, end, Nowhere, "donor_travel_placeholder")
            ELSE IF kind \in {"work", "school"} THEN StayOf("home", start, end, p.hh, "home_anchor")
            ELSE StayOf(kind, start, end, p.hh, "home_anchor")
  BY <1>2 DEF AdultRow, Stay, StayOf, home
<1> HIDE DEF kind, start, end, new
<1>5. CASE goes
  <2> DEFINE site == p.site
  <2>1. site \in places /\ site = p.site
    BY <1>5 DEF GoesTo
  <2> HIDE DEF site
  <2>2. ScheduledRow(p, places, StayOf(kind, start, end, site, "anchor"), start, end)
    BY <1>1, <1>3, <1>5, <2>1, ScheduledRowIs
  <2> QED BY <1>4, <1>5, <2>1, <2>2 DEF new, start, end
<1>6. CASE ~goes /\ edge
  <2> DEFINE hh == p.hh
  <2> HIDE DEF hh
  <2>1. hh \in places /\ hh = p.hh
    BY DEF hh
  <2>2. ScheduledRow(p, places, StayOf("home", start, end, hh, "boundary_travel_home_fallback"), start, end)
    BY <1>1, <1>3, <2>1, ScheduledRowIs
  <2> QED BY <1>4, <1>6, <2>1, <2>2 DEF new, start, end
<1>7. CASE ~goes /\ ~edge /\ kind = "travel"
  <2>1. ScheduledRow(p, places, StayOf("travel", start, end, Nowhere, "donor_travel_placeholder"), start, end)
    BY <1>1, <1>3, <1>7, ScheduledRowIs
  <2> QED BY <1>4, <1>7, <2>1 DEF new, start, end
<1>8. CASE ~goes /\ ~edge /\ kind \in {"work", "school"}
  <2> DEFINE hh == p.hh
  <2> HIDE DEF hh
  <2>1. hh \in places /\ hh = p.hh
    BY DEF hh
  <2>2. ScheduledRow(p, places, StayOf("home", start, end, hh, "home_anchor"), start, end)
    BY <1>1, <1>3, <2>1, ScheduledRowIs
  <2> QED BY <1>3, <1>4, <1>8, <2>1, <2>2 DEF new, start, end
<1>9. CASE ~goes /\ ~edge /\ kind # "travel" /\ kind \notin {"work", "school"}
  <2> DEFINE hh == p.hh
  <2> HIDE DEF hh
  <2>1. hh \in places /\ hh = p.hh
    BY DEF hh
  <2>2. ScheduledRow(p, places, StayOf(kind, start, end, hh, "home_anchor"), start, end)
    BY <1>1, <1>3, <1>9, <2>1, ScheduledRowIs
  <2> QED BY <1>4, <1>9, <2>1, <2>2 DEF new, start, end
<1> HIDE DEF goes, edge
<1> QED BY <1>5, <1>6, <1>7, <1>8, <1>9
\* What every day of a schedule is.
Scheduled(p, places, rows) ==
  /\ rows \in Seq(StayRows(places \cup {Nowhere})) /\ rows # <<>> /\ UpToMinute(rows, DayEnd)
  /\ \A i \in 1..Len(rows) : ScheduledRow(p, places, rows[i], rows[i].start, rows[i].end)

\* The day of a child is one of a schedule.
LEMMA ChildDay ==
  ASSUME NEW p, NEW places, p.hh \in places, NEW day
  PROVE  Scheduled(p, places, ChildRows(p, day, places))
<1> DEFINE E == places \cup {Nowhere}
           kind == IF p.age <= 4 THEN "daycare" ELSE "school"
           from == IF p.age <= 4 THEN DayEnd \div 3 ELSE (17 * DayEnd) \div 48
           to == IF p.age <= 4 THEN (17 * DayEnd) \div 24 ELSE (31 * DayEnd) \div 48
           hh == p.hh
           site == p.site
           home(start, end) == StayOf("home", start, end, hh, "home_anchor")
           there == StayOf(kind, from, to, site, "anchor")
           goes == day = "weekday" /\ GoesTo(p, kind, places)
           rows == ChildRows(p, day, places)
<1>1. DayEnd \in Int /\ DayEnd >= 24
  BY DayAssumption
<1>2. from \in Int /\ to \in Int /\ 0 < from /\ from < to /\ to < DayEnd
  BY <1>1
<1>3. kind \in Anchored /\ kind \in Kinds /\ kind # "travel" /\ "home" \in Kinds /\ "home" \notin Anchored
      /\ "home" # "travel" /\ "home_anchor" \in Bases /\ "anchor" \in Bases
  BY DEF Kinds, Anchored, Bases
<1>4. rows = IF goes THEN <<home(0, from), there, home(to, DayEnd)>> ELSE <<home(0, DayEnd)>>
  BY DEF ChildRows, Stay, Row, StayOf
<1> HIDE DEF kind, from, to
<1>5. hh \in places
  OBVIOUS
<1>6. ASSUME NEW start \in Int, NEW end \in Int
      PROVE  ScheduledRow(p, places, home(start, end), start, end)
  <2>1. hh = p.hh
    OBVIOUS
  <2> HIDE DEF hh
  <2> QED BY <1>3, <1>5, <2>1, ScheduledRowIs
<1>7. home(0, from).start = 0 /\ home(0, from).end = from /\ home(to, DayEnd).start = to
      /\ home(to, DayEnd).end = DayEnd /\ home(0, DayEnd).start = 0 /\ home(0, DayEnd).end = DayEnd
      /\ there.start = from /\ there.end = to
  BY DEF StayOf
<1>8. goes => ScheduledRow(p, places, there, from, to)
  <2> SUFFICES ASSUME goes PROVE ScheduledRow(p, places, there, from, to)
    OBVIOUS
  <2>1. site \in places /\ site = p.site /\ GoesTo(p, kind, places)
    BY DEF GoesTo
  <2> HIDE DEF site, goes
  <2> QED BY <1>2, <1>3, <2>1, ScheduledRowIs
<1>9. ScheduledRow(p, places, home(0, from), 0, from) /\ ScheduledRow(p, places, home(to, DayEnd), to, DayEnd)
      /\ ScheduledRow(p, places, home(0, DayEnd), 0, DayEnd)
  BY <1>1, <1>2, <1>6
<1> DEFINE a == home(0, from)
           b == home(to, DayEnd)
           c == home(0, DayEnd)
<1>10. a \in StayRows(E) /\ b \in StayRows(E) /\ c \in StayRows(E) /\ (goes => there \in StayRows(E))
  BY <1>8, <1>9 DEF ScheduledRow
<1> HIDE DEF E, home, there, goes, rows, a, b, c
<1>11. CASE goes
  <2>1. rows = <<a, there, b>>
    BY <1>4, <1>11 DEF a, b
  <2>2. rows \in Seq(StayRows(E)) /\ rows # <<>> /\ Len(rows) = 3
        /\ rows[1] = a /\ rows[2] = there /\ rows[3] = b
    <3> DEFINE R == StayRows(E)
    <3>1. a \in R /\ there \in R /\ b \in R
      BY <1>10, <1>11
    <3> HIDE DEF R
    <3>2. <<a, there, b>> \in Seq(R)
      BY <3>1
    <3>3. Len(rows) = 3 /\ rows[1] = a /\ rows[2] = there /\ rows[3] = b
      BY <2>1
    <3>4. rows # <<>>
      BY <2>1
    <3> QED BY <2>1, <3>2, <3>3, <3>4 DEF R
  <2>3. \A i \in 1..3 : i = 1 \/ i = 2 \/ i = 3
    OBVIOUS
  <2>4. \A i \in 1..2 : i = 1 \/ i = 2
    OBVIOUS
  <2>5. a.start = 0 /\ a.end = from /\ there.start = from /\ there.end = to /\ b.start = to /\ b.end = DayEnd
    BY <1>7 DEF a, b
  <2>6. \A i \in 1..3 : rows[i].start < rows[i].end
    BY <1>2, <2>2, <2>3, <2>5
  <2>7. \A i \in 1..2 : rows[i].end = rows[i+1].start
    BY <2>2, <2>4, <2>5
  <2>8. UpToMinute(rows, DayEnd)
    BY <2>2, <2>5, <2>6, <2>7 DEF UpToMinute
  <2>9. \A i \in 1..3 : ScheduledRow(p, places, rows[i], rows[i].start, rows[i].end)
    BY <1>8, <1>9, <1>11, <2>2, <2>3, <2>5 DEF a, b
  <2> QED BY <2>2, <2>8, <2>9 DEF Scheduled, rows, E
<1>12. CASE ~goes
  <2>1. rows = <<c>>
    BY <1>4, <1>12 DEF c
  <2>2. rows \in Seq(StayRows(E)) /\ rows # <<>> /\ Len(rows) = 1 /\ rows[1] = c
    BY <1>10, <2>1
  <2>3. \A i \in 1..1 : i = 1
    OBVIOUS
  <2>5. c.start = 0 /\ c.end = DayEnd /\ 0 < DayEnd
    BY <1>1, <1>7 DEF c
  <2>6. \A i \in 1..1 : rows[i].start < rows[i].end
    BY <2>2, <2>3, <2>5
  <2>7. 1..(1 - 1) = {}
    OBVIOUS
  <2>8. UpToMinute(rows, DayEnd)
    BY <2>2, <2>5, <2>6, <2>7 DEF UpToMinute
  <2>9. \A i \in 1..1 : ScheduledRow(p, places, rows[i], rows[i].start, rows[i].end)
    BY <1>9, <2>2, <2>3, <2>5 DEF c
  <2> QED BY <2>2, <2>8, <2>9 DEF Scheduled, rows, E
<1> QED BY <1>11, <1>12

\* Every schedule of the builder passes its checks.
LEMMA ScheduleIsAccepted ==
  ASSUME NEW donors, DiariesComplete(donors), NEW day \in {"weekday", "weekend"}, NEW p, p.id \in Int,
         NEW places, p.hh \in places
  PROVE  /\ Scheduled(p, places, Schedule(donors, day, p, places))
         /\ ScheduleAccepted(Schedule(donors, day, p, places), places)
<1> DEFINE E == places \cup {Nowhere}
           rows == Schedule(donors, day, p, places)
           diary == DonorRows(donors, day, p)
           n == Len(diary)
           adult == [i \in DOMAIN diary |-> AdultRow(p, diary[i], places)]
<1>1. rows = IF p.age < 15 THEN ChildRows(p, day, places) ELSE adult
  BY DEF Schedule
<1>2. Scheduled(p, places, adult)
  <2>1. diary \in Seq(Rows) /\ diary # <<>> /\ UpToMinute(diary, DayEnd)
    BY DonorDay
  <2> HIDE DEF diary
  <2>2. n \in Nat /\ DOMAIN diary = 1..n /\ \A i \in 1..n : diary[i] \in Rows
    BY <2>1, LenProperties, ElementOfSeq
  <2>3. ASSUME NEW i \in 1..n
        PROVE  /\ ScheduledRow(p, places, adult[i], adult[i].start, adult[i].end)
               /\ adult[i].start = diary[i].start /\ adult[i].end = diary[i].end
    <3> DEFINE row == diary[i]
    <3>1. row \in Rows /\ adult[i] = AdultRow(p, row, places)
      BY <2>2
    <3> HIDE DEF row, adult
    <3>2. ScheduledRow(p, places, AdultRow(p, row, places), row.start, row.end)
      BY <3>1, AdultRowIs
    <3>3. AdultRow(p, row, places).start = row.start /\ AdultRow(p, row, places).end = row.end
      BY <3>2 DEF ScheduledRow
    <3> QED BY <3>1, <3>2, <3>3 DEF row
  <2>4. DOMAIN adult = 1..n /\ adult = [i \in 1..n |-> adult[i]]
    BY <2>2
  <2> HIDE DEF adult, n
  <2>5. adult \in Seq(StayRows(E)) /\ Len(adult) = n
    <3> DEFINE R == StayRows(E)
    <3>1. \A i \in 1..n : adult[i] \in R
      BY <2>3 DEF ScheduledRow
    <3> HIDE DEF R
    <3>2. adult \in [1..n -> R]
      BY <2>4, <3>1
    <3>3. adult \in Seq(R) /\ Len(adult) = n
      BY <2>2, <3>2, FunctionIsSeq
    <3> QED BY <3>3 DEF R
  <2>6. adult # <<>> /\ UpToMinute(adult, DayEnd)
    BY <2>1, <2>3, <2>5, SameTimes DEF n
  <2> QED BY <2>3, <2>5, <2>6 DEF Scheduled
<1>3. Scheduled(p, places, ChildRows(p, day, places))
  BY ChildDay
<1>4. Scheduled(p, places, rows)
  <2> HIDE DEF rows, adult
  <2> QED BY <1>1, <1>2, <1>3
<1> HIDE DEF rows
<1>5. ScheduleAccepted(rows, places)
  <2>1. rows \in Seq(StayRows(E)) /\ rows # <<>> /\ UpToMinute(rows, DayEnd)
        /\ \A i \in 1..Len(rows) : ScheduledRow(p, places, rows[i], rows[i].start, rows[i].end)
    BY <1>4 DEF Scheduled
  <2> HIDE DEF E
  <2>2. WholeDay(rows) /\ DOMAIN rows = 1..Len(rows)
    BY <2>1, WholeIsUpToEnd, LenProperties
  <2>3. \A i \in 1..Len(rows) : IF rows[i].kind = "travel"
                                THEN rows[i].place = Nowhere /\ rows[i].start # 0 /\ rows[i].end # DayEnd
                                ELSE rows[i].place \in places
    BY <2>1 DEF ScheduledRow, HomeOrSite, GoesTo
  <2> QED BY <2>2, <2>3 DEF ScheduleAccepted
<1> QED BY <1>4, <1>5 DEF rows
-----------------------------------------------------------------------------
(* Destinations.                                                           *)

\* The places of mapped features.
OsmPlaces(pois) == UNION {{poi.id[kind] : kind \in KindsOf(poi)} : poi \in pois}

\* Features are finitely many and numbered.
Numbered(pois) == IsFiniteSet(pois) /\ OsmPlaces(pois) \subseteq Int

\* There are finitely many kinds of destinations.
LEMMA KindsAreFinite == IsFiniteSet(Discretionary)
<1>1. IsFiniteSet({})
  BY FS_EmptySet
<1>2. IsFiniteSet({} \cup {"shopping"})
  BY <1>1, FS_AddElement
<1>3. IsFiniteSet(({} \cup {"shopping"}) \cup {"meal"})
  BY <1>2, FS_AddElement
<1>4. IsFiniteSet((({} \cup {"shopping"}) \cup {"meal"}) \cup {"healthcare"})
  BY <1>3, FS_AddElement
<1> DEFINE half == (({} \cup {"shopping"}) \cup {"meal"}) \cup {"healthcare"}
<1> HIDE DEF half
<1>5. IsFiniteSet(half)
  BY <1>4 DEF half
<1>6. IsFiniteSet(half \cup {"recreation"})
  BY <1>5, FS_AddElement
<1>7. IsFiniteSet((half \cup {"recreation"}) \cup {"social"})
  BY <1>6, FS_AddElement
<1>8. IsFiniteSet(((half \cup {"recreation"}) \cup {"social"}) \cup {"errand"})
  BY <1>7, FS_AddElement
<1>9. IsFiniteSet((((half \cup {"recreation"}) \cup {"social"}) \cup {"errand"}) \cup {"other"})
  BY <1>8, FS_AddElement
<1>10. Discretionary = (((half \cup {"recreation"}) \cup {"social"}) \cup {"errand"}) \cup {"other"}
  BY DEF Discretionary, half
<1> QED BY <1>9, <1>10

\* And finitely many destinations.
LEMMA OsmPlacesAreFinite ==
  ASSUME NEW pois, IsFiniteSet(pois)
  PROVE  IsFiniteSet(OsmPlaces(pois))
<1> DEFINE All == pois \X Discretionary
           D == {pair \in All : pair[2] \in KindsOf(pair[1])}
           f == [pair \in D |-> pair[1].id[pair[2]]]
<1>1. IsFiniteSet(D)
  <2>1. IsFiniteSet(All)
    BY KindsAreFinite, FS_Product
  <2>2. D \in SUBSET All
    OBVIOUS
  <2> HIDE DEF All, D
  <2> QED BY <2>1, <2>2, FS_Subset
<1>2. \A x \in OsmPlaces(pois) : \E pair \in D : f[pair] = x
  <2> SUFFICES ASSUME NEW x \in OsmPlaces(pois) PROVE \E pair \in D : f[pair] = x
    OBVIOUS
  <2>1. PICK poi \in pois : \E kind \in KindsOf(poi) : x = poi.id[kind]
    BY DEF OsmPlaces
  <2>2. PICK kind \in KindsOf(poi) : x = poi.id[kind]
    BY <2>1
  <2>3. <<poi, kind>> \in D
    BY DEF KindsOf
  <2> QED BY <2>2, <2>3
<1>3. \A pair \in D : f[pair] \in OsmPlaces(pois)
  BY DEF OsmPlaces
<1>4. f \in Surjection(D, OsmPlaces(pois))
  <2>1. f \in [D -> OsmPlaces(pois)]
    BY <1>3
  <2> HIDE DEF f, D
  <2> QED BY <1>2, <2>1 DEF Surjection
<1> HIDE DEF f, D
<1> QED BY <1>1, <1>4, FS_Surjection

\* A row of a supply is of one of three kinds,
LEMMA RowsOfSupply ==
  ASSUME NEW people, NEW table, NEW pois, NEW s
  PROVE  s \in Supply(people, table, pois) <=>
           \/ \E row \in table : (\E p \in people : p.hh = row.id) /\ s = HomeRow(people, table, row)
           \/ \E row \in table : \E p \in people :
                p.site = row.id /\ p.assigned \in Anchored /\ s = AnchorRow(people, table, row, p.assigned)
           \/ \E poi \in pois : \E kind \in KindsOf(poi) : s = OsmRow(poi, kind)
<1> DEFINE lived == {r \in table : \E p \in people : p.hh = r.id}
           kinds(row) == Anchored \cap {p.assigned : p \in {q \in people : q.site = row.id}}
           homes == {HomeRow(people, table, row) : row \in lived}
           anchors == UNION {{AnchorRow(people, table, row, kind) : kind \in kinds(row)} : row \in table}
           features == UNION {{OsmRow(poi, kind) : kind \in KindsOf(poi)} : poi \in pois}
<1>1. Supply(people, table, pois) = homes \cup anchors \cup features
  BY DEF Supply
<1>2. s \in homes <=> \E row \in table : (\E p \in people : p.hh = row.id) /\ s = HomeRow(people, table, row)
  OBVIOUS
<1>3. s \in anchors <=> \E row \in table : \E p \in people :
        p.site = row.id /\ p.assigned \in Anchored /\ s = AnchorRow(people, table, row, p.assigned)
  <2>1. \A row, kind : kind \in kinds(row) <=> \E p \in people : p.site = row.id /\ p.assigned \in Anchored /\ kind = p.assigned
    OBVIOUS
  <2>2. s \in anchors <=> \E row \in table : \E kind \in kinds(row) : s = AnchorRow(people, table, row, kind)
    <3> HIDE DEF kinds
    <3> QED OBVIOUS
  <2> HIDE DEF kinds, anchors
  <2> QED BY <2>1, <2>2
<1>4. s \in features <=> \E poi \in pois : \E kind \in KindsOf(poi) : s = OsmRow(poi, kind)
  OBVIOUS
<1> HIDE DEF homes, anchors, features
<1> QED BY <1>1, <1>2, <1>3, <1>4

\* with the fields of a row of the places or of a feature,
LEMMA FieldsOfRows ==
  ASSUME NEW people, NEW table
  PROVE  /\ \A row : /\ HomeRow(people, table, row).place = row.id
                     /\ HomeRow(people, table, row).kind = "home"
                     /\ HomeRow(people, table, row).at = row.at
                     /\ HomeRow(people, table, row).osm = {}
         /\ \A row, kind : /\ AnchorRow(people, table, row, kind).place = row.id
                           /\ AnchorRow(people, table, row, kind).kind = kind
                           /\ AnchorRow(people, table, row, kind).at = row.at
                           /\ AnchorRow(people, table, row, kind).osm = {}
BY DEF HomeRow, AnchorRow, Supplied

\* and the row of a mapped feature as one of its kinds has its id of that kind and its cell,
LEMMA FieldsOfFeatures == \A poi, kind : OsmRow(poi, kind).place = poi.id[kind] /\ OsmRow(poi, kind).at = poi.cell
BY DEF OsmRow, Supplied

\* so that everybody of a profile has the home and the place of the assignment in it.
LEMMA SupplyIs ==
  ASSUME NEW people, NEW table, NEW pois
  PROVE  /\ \A s \in Supply(people, table, pois) : s.osm # {} => s.place \in OsmPlaces(pois)
         /\ \A p \in people : p.hh \in PlaceIds(table) =>
              \E s \in Supply(people, table, pois) : s.place = p.hh /\ s.kind = "home"
         /\ \A p \in people : p.assigned \in Anchored /\ p.site \in PlaceIds(table) =>
              \E s \in Supply(people, table, pois) : s.place = p.site /\ s.kind = p.assigned
<1>1. ASSUME NEW s \in Supply(people, table, pois), s.osm # {}
      PROVE  s.place \in OsmPlaces(pois)
  <2>1. \/ \E row \in table : s = HomeRow(people, table, row)
        \/ \E row \in table : \E p \in people : s = AnchorRow(people, table, row, p.assigned)
        \/ \E poi \in pois : \E kind \in KindsOf(poi) : s = OsmRow(poi, kind)
    BY RowsOfSupply
  <2>2. \E poi \in pois : \E kind \in KindsOf(poi) : s = OsmRow(poi, kind)
    BY <1>1, <2>1, FieldsOfRows
  <2> QED BY <2>2, FieldsOfFeatures DEF OsmPlaces
<1>2. ASSUME NEW p \in people, p.hh \in PlaceIds(table)
      PROVE  \E s \in Supply(people, table, pois) : s.place = p.hh /\ s.kind = "home"
  <2>1. PICK row \in table : row.id = p.hh
    BY <1>2 DEF PlaceIds
  <2> DEFINE s == HomeRow(people, table, row)
  <2>2. s.place = row.id /\ s.kind = "home"
    BY FieldsOfRows
  <2> HIDE DEF s
  <2>3. s \in Supply(people, table, pois)
    BY <2>1, RowsOfSupply DEF s
  <2> QED BY <2>1, <2>2, <2>3
<1>3. ASSUME NEW p \in people, p.assigned \in Anchored, p.site \in PlaceIds(table)
      PROVE  \E s \in Supply(people, table, pois) : s.place = p.site /\ s.kind = p.assigned
  <2>1. PICK row \in table : row.id = p.site
    BY <1>3 DEF PlaceIds
  <2> DEFINE s == AnchorRow(people, table, row, p.assigned)
  <2>2. s.place = row.id /\ s.kind = p.assigned
    BY FieldsOfRows
  <2> HIDE DEF s
  <2>3. s \in Supply(people, table, pois)
    BY <1>3, <2>1, RowsOfSupply DEF s
  <2> QED BY <2>1, <2>2, <2>3
<1> QED BY <1>1, <1>2, <1>3

\* A destination is one that is offered for the activity.
LEMMA DestinationIs ==
  ASSUME NEW people, NEW table, NEW pois, Numbered(pois), NEW p, NEW kind, NEW n \in Int,
         Destination(Supply(people, table, pois), p, kind, n) # Nowhere
  PROVE  /\ Destination(Supply(people, table, pois), p, kind, n) \in OsmPlaces(pois)
         /\ \E s \in Supply(people, table, pois) :
              s.kind = kind /\ s.place = Destination(Supply(people, table, pois), p, kind, n)
<1> DEFINE supply == Supply(people, table, pois)
           offered == {s \in supply : s.kind = kind /\ \E poi \in s.osm : poi.cbsa = p.cbsa}
           near == {s \in offered : s.at = p.cell}
           ids(some) == {s.place : s \in some}
           place == Destination(supply, p, kind, n)
<1>1. \A s \in supply : s.osm # {} => s.place \in OsmPlaces(pois)
  BY SupplyIs
<1> HIDE DEF supply
<1>2. ASSUME NEW some \in SUBSET offered, some # {}
      PROVE  Draw(ids(some), n) \in ids(some)
  <2>1. ids(some) \in SUBSET OsmPlaces(pois)
    BY <1>1
  <2>2. ids(some) # {}
    BY <1>2
  <2>3. IsFiniteSet(OsmPlaces(pois)) /\ OsmPlaces(pois) \subseteq Int
    BY OsmPlacesAreFinite DEF Numbered
  <2> HIDE DEF ids
  <2>4. IsFiniteSet(ids(some)) /\ ids(some) \in SUBSET Int
    BY <2>1, <2>3, FS_Subset
  <2> QED BY <2>2, <2>4, DrawIsOne
<1>3. place = IF near # {} THEN Draw(ids(near), n) ELSE IF offered # {} THEN Draw(ids(offered), n) ELSE Nowhere
  BY DEF Destination
<1>4. place # Nowhere
  BY DEF supply
<1>5. near \in SUBSET offered
  OBVIOUS
<1>6. place \in ids(offered)
  <2> HIDE DEF place, near, offered, ids
  <2>1. \A s \in SUBSET offered : ids(s) \in SUBSET ids(offered)
    BY DEF ids
  <2> QED BY <1>2, <1>3, <1>4, <1>5, <2>1
<1>7. \E s \in supply : s.kind = kind /\ s.place = place /\ s.osm # {}
  <2> HIDE DEF place
  <2> QED BY <1>6
<1> HIDE DEF place
<1>8. place \in OsmPlaces(pois)
  BY <1>1, <1>7
<1> QED BY <1>7, <1>8 DEF place, supply
-----------------------------------------------------------------------------
(* What an assigned day is.                                                *)

\* The row a stay of a schedule becomes.
Sending(supply, p, row, n) ==
  IF row.kind \in Discretionary THEN Stay(row, Destination(supply, p, row.kind, n), "sampled_destination")
  ELSE IF row.kind \in Discretionary \cup Anchored THEN row
  ELSE Stay([row EXCEPT !.kind = "home"], row.place, "home_anchor")

\* What a row of an assigned day must be.
SentTo(supply, Q, new, start, end) ==
  /\ new \in StayRows(Q) /\ new.start = start /\ new.end = end
  /\ new.kind # "travel" /\ Offered(supply, new)
  /\ new.kind \in Discretionary => new.basis = "sampled_destination"

\* A row that was sent somewhere is what it must be.
LEMMA SendingIs ==
  ASSUME NEW people, NEW table, NEW places, places = PlaceIds(table), NEW pois, Numbered(pois), NEW p \in people, p.hh \in places,
         NEW Q, places \subseteq Q, OsmPlaces(pois) \subseteq Q,
         NEW row \in StayRows(places \cup {Nowhere}), row.kind # "travel", HomeOrSite(p, places, row),
         NEW n \in Int, Sending(Supply(people, table, pois), p, row, n).place # Nowhere
  PROVE  SentTo(Supply(people, table, pois), Q, Sending(Supply(people, table, pois), p, row, n),
                row.start, row.end)
<1> DEFINE supply == Supply(people, table, pois)
           kind == row.kind
           start == row.start
           end == row.end
           place == row.place
           basis == row.basis
           destination == Destination(supply, p, kind, n)
           new == Sending(supply, p, row, n)
           home == [row EXCEPT !.kind = "home"]
<1>1. /\ kind \in Kinds /\ start \in Int /\ end \in Int /\ basis \in Bases
      /\ row = StayOf(kind, start, end, place, basis)
  BY StayFields
<1>2. home.kind = "home" /\ home.start = start /\ home.end = end
  BY DEF StayRows
<1>3. /\ "home" \in Kinds /\ "home" # "travel" /\ "home" \notin Discretionary
      /\ "sampled_destination" \in Bases /\ "home_anchor" \in Bases
      /\ kind \in Anchored => kind \notin Discretionary
  BY DEF Kinds, Bases, Discretionary, Anchored
<1>4. new = IF kind \in Discretionary THEN StayOf(kind, start, end, destination, "sampled_destination")
            ELSE IF kind \in Anchored THEN row
            ELSE StayOf("home", start, end, place, "home_anchor")
  BY <1>2 DEF Sending, Stay, StayOf
<1>5. /\ kind # "travel" /\ new.place # Nowhere
      /\ IF kind \in Anchored THEN p.assigned = kind /\ p.site \in places /\ place = p.site
         ELSE place = p.hh
  BY DEF HomeOrSite, GoesTo
<1>6. destination # Nowhere =>
        /\ destination \in Q
        /\ \E s \in supply : s.kind = kind /\ s.place = destination
  BY DestinationIs
<1>7. \E s \in supply : s.place = p.hh /\ s.kind = "home"
  BY SupplyIs
<1>8. p.assigned \in Anchored /\ p.site \in places =>
        \E s \in supply : s.place = p.site /\ s.kind = p.assigned
  BY SupplyIs
<1> HIDE DEF supply, kind, start, end, place, basis, destination, new
<1>9. CASE kind \in Discretionary
  <2> DEFINE sent == StayOf(kind, start, end, destination, "sampled_destination")
  <2>1. new = sent
    BY <1>4, <1>9
  <2>2. sent.kind = kind /\ sent.start = start /\ sent.end = end /\ sent.place = destination
        /\ sent.basis = "sampled_destination"
    BY DEF StayOf
  <2>3. destination # Nowhere
    BY <1>5, <2>1, <2>2
  <2>4. sent \in StayRows(Q)
    BY <1>1, <1>3, <1>6, <2>3, StayIs
  <2> HIDE DEF sent
  <2>5. Offered(supply, sent)
    BY <1>6, <2>2, <2>3 DEF Offered
  <2> QED BY <1>5, <2>1, <2>2, <2>4, <2>5 DEF SentTo, supply, start, end, new
<1>10. CASE kind \in Anchored
  <2>1. new = row
    BY <1>3, <1>4, <1>10
  <2>2. place \in Q
    BY <1>5, <1>10
  <2>3. StayOf(kind, start, end, place, basis) \in StayRows(Q)
    BY <1>1, <2>2, StayIs
  <2>4. row \in StayRows(Q)
    BY <1>1, <2>3
  <2>5. \E s \in supply : s.place = place /\ s.kind = kind
    BY <1>5, <1>8, <1>10
  <2>6. Offered(supply, row)
    BY <2>5 DEF Offered, place, kind
  <2>7. row.kind \notin Discretionary
    BY <1>3, <1>10 DEF kind
  <2> QED BY <2>1, <2>4, <2>6, <2>7 DEF SentTo, supply, new
<1>11. CASE kind \notin Discretionary /\ kind \notin Anchored
  <2> DEFINE stay == StayOf("home", start, end, place, "home_anchor")
  <2>1. new = stay
    BY <1>4, <1>11
  <2>2. stay.kind = "home" /\ stay.start = start /\ stay.end = end /\ stay.place = place
    BY DEF StayOf
  <2>3. place = p.hh /\ place \in Q
    BY <1>5, <1>11
  <2>4. stay \in StayRows(Q)
    BY <1>1, <1>3, <2>3, StayIs
  <2> HIDE DEF stay
  <2>5. Offered(supply, stay)
    BY <1>7, <2>2, <2>3 DEF Offered
  <2> QED BY <1>3, <2>1, <2>2, <2>4, <2>5 DEF SentTo, supply, start, end, new
<1> QED BY <1>9, <1>10, <1>11

\* An assigned day, when every event of it has a destination, passes its own checks and is
\* one that can be routed.
LEMMA AssignedIsAccepted ==
  ASSUME NEW people, NEW table, NEW places, places = PlaceIds(table), NEW pois, Numbered(pois), NEW p \in people, p.id \in Int,
         p.hh \in places, NEW Q, places \subseteq Q, OsmPlaces(pois) \subseteq Q,
         NEW rows, Scheduled(p, places, rows),
         Provided(Assigned(Supply(people, table, pois), p, rows))
  PROVE  LET new == Assigned(Supply(people, table, pois), p, rows)
         IN /\ new \in Seq(StayRows(Q)) /\ new # <<>> /\ UpToMinute(new, DayEnd)
            /\ \A i \in 1..Len(new) : new[i].kind # "travel" /\ Offered(Supply(people, table, pois), new[i])
            /\ AssignmentAccepted(Supply(people, table, pois), new)
<1> DEFINE supply == Supply(people, table, pois)
           E == places \cup {Nowhere}
           stays == Stationary(rows)
           new == Assigned(supply, p, rows)
           id == p.id
           m == Len(stays)
<1>1. /\ rows \in Seq(StayRows(E)) /\ rows # <<>> /\ UpToMinute(rows, DayEnd)
      /\ \A i \in 1..Len(rows) : ScheduledRow(p, places, rows[i], rows[i].start, rows[i].end)
  BY DEF Scheduled
<1>2. Len(rows) \in 1..Len(rows) /\ 1 \in 1..Len(rows)
  BY <1>1, EmptySeq
<1>3. rows[1].kind # "travel" /\ rows[Len(rows)].kind # "travel"
  <2>1. rows[1].start = 0 /\ rows[Len(rows)].end = DayEnd
    BY <1>1 DEF UpToMinute
  <2> QED BY <1>1, <1>2, <2>1 DEF ScheduledRow
<1> HIDE DEF E
<1>4. /\ stays \in Seq(StayRows(E)) /\ stays # <<>> /\ UpToMinute(stays, DayEnd)
      /\ \A i \in 1..m : \E j \in 1..Len(rows) :
           /\ rows[j].kind # "travel" /\ stays[i].kind = rows[j].kind /\ stays[i].place = rows[j].place
  BY <1>1, <1>3, StationaryIsWhole
<1>5. m \in Nat /\ DOMAIN stays = 1..m /\ \A i \in 1..m : stays[i] \in StayRows(E)
  BY <1>4
<1>6. \A i \in 1..m : stays[i].kind # "travel" /\ HomeOrSite(p, places, stays[i])
  BY <1>1, <1>4 DEF ScheduledRow, HomeOrSite
<1>7. new = [i \in DOMAIN stays |-> Sending(supply, p, stays[i], id + i)]
  BY DEF Assigned, Sending
<1> HIDE DEF stays, m, supply, new
<1>8. ASSUME NEW i \in 1..m PROVE SentTo(supply, Q, new[i], stays[i].start, stays[i].end)
  <2>1. id + i \in Int
    BY <1>5
  <2>2. new[i] = Sending(supply, p, stays[i], id + i)
    BY <1>5, <1>7
  <2>3. new[i].place # Nowhere
    <3>1. DOMAIN new = 1..m
      BY <1>5, <1>7
    <3> QED BY <3>1 DEF Provided, supply, new
  <2> DEFINE row == stays[i]
             number == id + i
  <2>4. row \in StayRows(places \cup {Nowhere}) /\ row.kind # "travel" /\ HomeOrSite(p, places, row)
    BY <1>5, <1>6 DEF E
  <2> HIDE DEF row, number, id
  <2>5. number \in Int /\ Sending(supply, p, row, number).place # Nowhere
    BY <2>1, <2>2, <2>3 DEF row, number
  <2>6. SentTo(supply, Q, Sending(supply, p, row, number), row.start, row.end)
    BY <2>4, <2>5, SendingIs DEF supply
  <2> QED BY <2>2, <2>6 DEF row, number
<1>9. new \in Seq(StayRows(Q)) /\ Len(new) = m
  <2>1. \A i \in 1..m : new[i] \in StayRows(Q)
    BY <1>8 DEF SentTo
  <2>2. new = [i \in 1..m |-> new[i]]
    BY <1>5, <1>7
  <2> QED BY <1>5, <2>1, <2>2, FunctionIsSeq
<1>10. \A i \in 1..m : new[i].start = stays[i].start /\ new[i].end = stays[i].end
  BY <1>8 DEF SentTo
<1>11. new # <<>> /\ UpToMinute(new, DayEnd)
  BY <1>4, <1>9, <1>10, SameTimes DEF m
<1>12. WholeDay(new) /\ DOMAIN new = 1..Len(new)
  BY <1>9, <1>11, WholeIsUpToEnd, LenProperties
<1>13. \A i \in 1..m : new[i].kind # "travel" /\ Offered(supply, new[i])
  BY <1>8 DEF SentTo
<1>14. AssignmentAccepted(supply, new)
  <2>1. \A i \in 1..m : new[i].kind \in Discretionary => new[i].basis = "sampled_destination"
    BY <1>8 DEF SentTo
  <2> QED BY <1>9, <1>12, <1>13, <2>1 DEF AssignmentAccepted, Offered
<1> QED BY <1>9, <1>11, <1>13, <1>14 DEF new, supply
-----------------------------------------------------------------------------
(* What the stages of a world in which something is built come to.         *)

\* A lake that is made of tables passes its own checks.
LEMMA LakeIsAccepted ==
  ASSUME NEW source, \A p \in source.people : p.id \in Int
  PROVE  LakeAccepted(StateTables(source))
<1> DEFINE people == PersonRows(source)
           ids == {p.id : p \in people}
           ties == SocialNetworks(source.ties, ids)
           tables == StateTables(source)
<1>1. /\ tables.people = people /\ tables.hh = {p.hh : p \in people}
      /\ tables.places = HomeRows(people) \cup SiteRows(source) /\ tables.ties = ties
  BY DEF StateTables
<1>2. ids \subseteq Int
  BY DEF PersonRows
<1>3. ASSUME NEW tie \in ties PROVE tie.a < tie.b /\ {tie.a, tie.b} \subseteq ids
  <2>1. /\ {tie.a, tie.b} \subseteq ids
        /\ \E pair \in NetworkPairs(source.ties) : tie \in NetworkRow(pair[1], pair[2], pair[3])
    BY DEF SocialNetworks
  <2>2. PICK a, b, kind : tie \in NetworkRow(a, b, kind)
    BY <2>1
  <2>3. tie.a \in Int /\ tie.b \in Int
    BY <1>2, <2>1
  <2> HIDE DEF ids
  <2>4. CASE a < b
    BY <2>1, <2>2, <2>4 DEF NetworkRow
  <2>5. CASE a # b /\ ~(a < b)
    <3>1. tie = [a |-> b, b |-> a, kind |-> kind]
      BY <2>2, <2>5 DEF NetworkRow
    <3>2. tie.a = b /\ tie.b = a
      BY <3>1
    <3> QED BY <2>1, <2>3, <2>5, <3>2
  <2>6. a # b
    BY <2>2 DEF NetworkRow
  <2> QED BY <2>4, <2>5, <2>6
<1> HIDE DEF people, ids, ties, tables
<1>4. \A p \in tables.people : p.hh \in tables.hh
  BY <1>1
<1>5. tables.hh \subseteq PlaceIds(tables.places)
  <2>1. ASSUME NEW hh \in {p.hh : p \in people} PROVE \E row \in HomeRows(people) : row.id = hh
    <3> DEFINE row == [id |-> hh, file |-> "households", at |-> (CHOOSE p \in people : p.hh = hh).cell]
    <3>1. row \in HomeRows(people)
      BY DEF HomeRows
    <3>2. row.id = hh
      OBVIOUS
    <3> QED BY <3>1, <3>2
  <2> QED BY <1>1, <2>1 DEF PlaceIds
<1>6. \A tie \in tables.ties : tie.a < tie.b /\ {tie.a, tie.b} \subseteq {p.id : p \in tables.people}
  BY <1>1, <1>3 DEF ids
<1> QED BY <1>4, <1>5, <1>6 DEF LakeAccepted, tables

\* The people of a profile are numbered and live in places of it, which are places of the world.
LEMMA ProfileIs ==
  ASSUME NEW w \in DOMAIN Worlds, NEW profile \in Profiles[w]
  PROVE  /\ \A p \in profile.people : p.id \in Int /\ p.hh \in PlaceIds(profile.places)
         /\ PlaceIds(profile.places) \subseteq PlacesOf(w)
         /\ profile.people \subseteq PersonRows(Worlds[w].source)
         /\ profile.places \subseteq StateTables(Worlds[w].source).places
<1> DEFINE source == Worlds[w].source
           tables == StateTables(source)
           people == CandidatePeople(tables, Worlds[w].cbsas)
           sample == Sampled(people, tables.ties)
<1>1. profile \in Population(source, Worlds[w].cbsas)
  BY DEF Profiles
<1>2. /\ profile = ProfileTables(tables, sample.people)
      /\ ProfileAccepted(profile, Worlds[w].cbsas)
  BY <1>1 DEF Population
<1>3. people \subseteq PersonRows(source)
  BY DEF CandidatePeople, StateTables
<1>4. sample.people \subseteq people
  BY DEF Sampled, Reserved, RoundRobin, Missing
<1>5. profile.people = sample.people /\ profile.places \subseteq tables.places
  <2> HIDE DEF tables, sample
  <2> QED BY <1>2 DEF ProfileTables
<1>6. \A p \in PersonRows(source) : p.id \in Int
  BY DatasetAssumption DEF PersonRows
<1>7. PlaceIds(tables.places) \subseteq PlacesOf(w)
  BY DEF PlacesOf
<1>8. PlaceIds(profile.places) \subseteq PlaceIds(tables.places)
  <2> HIDE DEF tables
  <2> QED BY <1>5 DEF PlaceIds
<1>9. profile.people \subseteq PersonRows(source) /\ profile.places \subseteq tables.places
  BY <1>3, <1>4, <1>5
<1> HIDE DEF source, tables, people, sample
<1>10. \A p \in profile.people : p.id \in Int /\ p.hh \in PlaceIds(profile.places)
  BY <1>2, <1>6, <1>9 DEF ProfileAccepted
<1> QED BY <1>7, <1>8, <1>9, <1>10 DEF source, tables

\* What is assumed of a world in which something is built, by name.
LEMMA WorldIs ==
  ASSUME NEW w \in Built, NEW v \in Versions
  PROVE  /\ w \in DOMAIN Worlds /\ DiariesComplete(Worlds[w].diaries[v])
         /\ Numbered(Worlds[w].pois[v]) /\ OsmPlaces(Worlds[w].pois[v]) \subseteq PlacesOf(w)
         /\ Far(PlacesOf(w))
<1>1. w \in DOMAIN Worlds
  BY DEF Built
<1>2. DiariesComplete(Worlds[w].diaries[v]) /\ IsFiniteSet(Worlds[w].pois[v])
  BY DatasetAssumption
<1>3. \A poi \in Worlds[w].pois[v] : \A kind \in KindsOf(poi) : poi.id[kind] \in Int
  BY DatasetAssumption
<1>4. Far(PlacesOf(w))
  BY DatasetAssumption DEF Far
<1>5. OsmPlaces(Worlds[w].pois[v]) \subseteq Int
  BY <1>3 DEF OsmPlaces
<1>6. OsmPlaces(Worlds[w].pois[v]) \subseteq PlacesOf(w)
  BY DEF OsmPlaces, PlacesOf
<1> QED BY <1>1, <1>2, <1>4, <1>5, <1>6 DEF Numbered

\* The day of somebody of a profile, as it is scheduled.
LEMMA ProfileDay ==
  ASSUME NEW w \in Built, NEW v \in Versions, NEW profile \in Profiles[w],
         NEW p \in profile.people, NEW n \in {1, 2}
  PROVE  LET rows == Schedule(Worlds[w].diaries[v], Days[n], p, PlaceIds(profile.places))
         IN Scheduled(p, PlaceIds(profile.places), rows) /\ ScheduleAccepted(rows, PlaceIds(profile.places))
<1> DEFINE donors == Worlds[w].diaries[v]
           places == PlaceIds(profile.places)
           day == Days[n]
<1>1. DiariesComplete(donors) /\ w \in DOMAIN Worlds
  BY WorldIs
<1>2. p.id \in Int /\ p.hh \in places
  BY <1>1, ProfileIs
<1>3. day \in {"weekday", "weekend"}
  BY DEF Days
<1> HIDE DEF donors, places, day
<1> QED BY <1>1, <1>2, <1>3, ScheduleIsAccepted DEF donors, places, day

\* Of a day that was sent everywhere it wants the later stages have nothing to refuse.
DayPasses(supply, rows) ==
  Provided(rows) =>
    /\ AssignmentAccepted(supply, rows)
    /\ ~Collides(supply) => RoutedDayAccepted(supply, Routed(rows))
    /\ Apart(Exported(Routed(rows)))

\* The day of somebody of a profile passes the stages after its schedule.
LEMMA SentDay ==
  ASSUME NEW w \in Built, NEW v \in Versions, NEW u \in Versions, NEW profile \in Profiles[w],
         NEW p \in profile.people, NEW n \in {1, 2}
  PROVE  LET supply == SupplyFor(profile, Worlds[w].pois[u])
             rows == Schedule(Worlds[w].diaries[v], Days[n], p, PlaceIds(profile.places))
         IN DayPasses(supply, Assigned(supply, p, rows))
<1> DEFINE people == profile.people
           table == profile.places
           places == PlaceIds(table)
           pois == Worlds[w].pois[u]
           Q == PlacesOf(w)
           rows == Schedule(Worlds[w].diaries[v], Days[n], p, places)
           supply == Supply(people, table, pois)
           new == Assigned(supply, p, rows)
<1>1. w \in DOMAIN Worlds /\ Numbered(pois) /\ OsmPlaces(pois) \subseteq Q /\ Far(Q)
  BY WorldIs
<1>2. p \in people /\ p.id \in Int /\ p.hh \in places /\ places \subseteq Q
  BY <1>1, ProfileIs
<1>3. Scheduled(p, places, rows)
  BY ProfileDay
<1>0. places = PlaceIds(table)
  OBVIOUS
<1> HIDE DEF people, table, places, pois, Q, rows
<1>4. ASSUME Provided(new)
      PROVE  /\ new \in Seq(StayRows(Q)) /\ new # <<>> /\ UpToMinute(new, DayEnd)
             /\ \A i \in 1..Len(new) : new[i].kind # "travel" /\ Offered(supply, new[i])
             /\ AssignmentAccepted(supply, new)
  BY <1>0, <1>1, <1>2, <1>3, <1>4, AssignedIsAccepted
<1> HIDE DEF supply, new
<1>5. ASSUME Provided(new)
      PROVE  (~Collides(supply) => RoutedDayAccepted(supply, Routed(new))) /\ Apart(Exported(Routed(new)))
  <2>1. RoutedTo(supply, Q, Routed(new), DayEnd)
    BY <1>1, <1>4, <1>5, RoutedIsFit
  <2> QED BY <2>1, RoutedIsAccepted
<1>6. DayPasses(supply, new)
  BY <1>4, <1>5 DEF DayPasses
<1> QED BY <1>6 DEF SupplyFor, supply, new, people, table, places, pois, rows

\* Of sources in order nobody of a profile is joined to two places of the assignment,
LEMMA NothingRepeats ==
  ASSUME NEW w \in DOMAIN Worlds, PlacesInOrder(Worlds[w].source), NEW profile \in Profiles[w]
  PROVE  ~Repeated(profile.people, profile.places)
<1>1. \A row, other \in StateTables(Worlds[w].source).places : row.id = other.id => row = other
  BY DEF PlacesInOrder
<1>2. profile.places \subseteq StateTables(Worlds[w].source).places
  BY ProfileIs
<1>3. \A row, other \in profile.places : row.id = other.id => row = other
  BY <1>1, <1>2
<1>4. \A row, other, site : {row.id, other.id} = {site} => row.id = other.id
  OBVIOUS
<1> QED BY <1>3, <1>4 DEF Repeated

\* and its supply has every place once and none off the map.
LEMMA SupplyInOrder ==
  ASSUME NEW w \in Built, InOrder(w), NEW profile \in Profiles[w], NEW u \in Versions
  PROVE  LET supply == SupplyFor(profile, Worlds[w].pois[u])
         IN ~Collides(supply) /\ ~Misplaced(supply)
<1> DEFINE source == Worlds[w].source
           all == StateTables(source).places
           pois == Worlds[w].pois[u]
           people == profile.people
           table == profile.places
           supply == Supply(people, table, pois)
           Lived(s, row) == row \in table /\ (\E p \in people : p.hh = row.id) /\ s = HomeRow(people, table, row)
           Visited(s, row, kind) == /\ row \in table /\ kind \in Anchored /\ s = AnchorRow(people, table, row, kind)
                                 /\ \E p \in people : p.site = row.id /\ p.assigned = kind
           Mapped(s, poi, kind) == poi \in pois /\ kind \in KindsOf(poi) /\ s = OsmRow(poi, kind)
<1>1. w \in DOMAIN Worlds
  BY WorldIs
<1>2. people \subseteq PersonRows(source) /\ table \subseteq all
  BY <1>1, ProfileIs
<1>3. /\ \A row, other \in all : row.id = other.id => row = other
      /\ \A row \in all : row.at # OffMap
      /\ \A p, q \in PersonRows(source) : p.assigned \in Anchored =>
           /\ p.site # q.hh
           /\ p.site = q.site /\ q.assigned \in Anchored => p.assigned = q.assigned
  BY DEF InOrder, PlacesInOrder
<1>4. \A poi, other \in pois :
        /\ poi.cell # OffMap
        /\ \A kind \in KindsOf(poi), as \in KindsOf(other) : poi.id[kind] = other.id[as] => poi = other /\ kind = as
  BY DEF InOrder, FeaturesInOrder
<1>5. \A poi \in pois : \A kind \in KindsOf(poi) : poi.id[kind] \notin PlaceIds(all)
  BY DatasetAssumption
<1> HIDE DEF source, all, pois, people, table
<1>6. ASSUME NEW s \in supply
      PROVE  \/ \E row : Lived(s, row)
             \/ \E row, kind : Visited(s, row, kind)
             \/ \E poi, kind : Mapped(s, poi, kind)
  BY RowsOfSupply
<1> HIDE DEF supply
<1>7. /\ \A s, row : Lived(s, row) => s.place = row.id /\ s.at = row.at
      /\ \A s, row, kind : Visited(s, row, kind) => s.place = row.id /\ s.at = row.at
      /\ \A s, poi, kind : Mapped(s, poi, kind) => s.place = poi.id[kind] /\ s.at = poi.cell
  <2>1. ASSUME NEW s, NEW row, Lived(s, row) PROVE s.place = row.id /\ s.at = row.at
    BY <2>1, FieldsOfRows
  <2>2. ASSUME NEW s, NEW row, NEW kind, Visited(s, row, kind) PROVE s.place = row.id /\ s.at = row.at
    BY <2>2, FieldsOfRows
  <2>3. ASSUME NEW s, NEW poi, NEW kind, Mapped(s, poi, kind) PROVE s.place = poi.id[kind] /\ s.at = poi.cell
    BY <2>3, FieldsOfFeatures
  <2> HIDE DEF Lived, Visited, Mapped
  <2> QED BY <2>1, <2>2, <2>3
<1>8. /\ \A row \in table : row.id \in PlaceIds(all) /\ row.at # OffMap
      /\ \A row, other \in table : row.id = other.id => row = other
  BY <1>2, <1>3 DEF PlaceIds
<1>9. ~Misplaced(supply)
  <2> SUFFICES ASSUME NEW s \in supply PROVE s.at # OffMap
    BY DEF Misplaced
  <2>1. CASE \E row : Lived(s, row)
    BY <1>7, <1>8, <2>1
  <2>2. CASE \E row, kind : Visited(s, row, kind)
    BY <1>7, <1>8, <2>2
  <2>3. CASE \E poi, kind : Mapped(s, poi, kind)
    BY <1>4, <1>7, <2>3
  <2> QED BY <1>6, <2>1, <2>2, <2>3
<1>10. ASSUME NEW s \in supply, NEW t \in supply, s.place = t.place
       PROVE  s = t
  <2>1. CASE \E poi, kind : Mapped(s, poi, kind)
    <3>1. PICK poi, kind : Mapped(s, poi, kind)
      BY <2>1
    <3>2. t.place \notin PlaceIds(all)
      BY <1>5, <1>7, <1>10, <3>1
    <3>3. PICK other, as : Mapped(t, other, as)
      BY <1>6, <1>7, <1>8, <3>2
    <3>4. /\ poi \in pois /\ other \in pois /\ kind \in KindsOf(poi) /\ as \in KindsOf(other)
          /\ poi.id[kind] = other.id[as]
      <4>1. poi \in pois /\ other \in pois /\ kind \in KindsOf(poi) /\ as \in KindsOf(other)
        BY <3>1, <3>3
      <4>2. s.place = poi.id[kind]
        BY <3>1, FieldsOfFeatures
      <4>3. t.place = other.id[as]
        BY <3>3, FieldsOfFeatures
      <4> QED BY <1>10, <4>1, <4>2, <4>3
    <3>5. poi = other /\ kind = as
      <4> HIDE DEF Mapped
      <4> QED BY <1>4, <3>4
    <3> QED BY <3>1, <3>3, <3>5
  <2>2. CASE \E row : Lived(s, row)
    <3>1. PICK row : Lived(s, row)
      BY <2>2
    <3>2. s.place \in PlaceIds(all)
      BY <1>7, <1>8, <3>1
    <3>3. CASE \E other : Lived(t, other)
      BY <1>7, <1>8, <1>10, <3>1, <3>3
    <3>4. CASE \E other, kind : Visited(t, other, kind)
      BY <1>2, <1>3, <1>7, <1>8, <1>10, <3>1, <3>4
    <3>5. CASE \E poi, kind : Mapped(t, poi, kind)
      BY <1>5, <1>7, <1>10, <3>2, <3>5
    <3> QED BY <1>6, <3>3, <3>4, <3>5
  <2>3. CASE \E row, kind : Visited(s, row, kind)
    <3>1. PICK row, kind : Visited(s, row, kind)
      BY <2>3
    <3>2. s.place \in PlaceIds(all)
      BY <1>7, <1>8, <3>1
    <3>3. CASE \E other : Lived(t, other)
      BY <1>2, <1>3, <1>7, <1>8, <1>10, <3>1, <3>3
    <3>4. CASE \E other, as : Visited(t, other, as)
      <4>1. PICK other, as : Visited(t, other, as)
        BY <3>4
      <4>2. row = other
        <5>1. row \in table /\ other \in table
          BY <3>1, <4>1
        <5>2. row.id = other.id
          <6> HIDE DEF Visited
          <6> QED BY <1>7, <1>10, <3>1, <4>1
        <5> HIDE DEF Visited
        <5> QED BY <1>8, <5>1, <5>2
      <4>3. kind = as
        BY <1>2, <1>3, <3>1, <4>1, <4>2
      <4> QED BY <3>1, <4>1, <4>2, <4>3
    <3>5. CASE \E poi, as : Mapped(t, poi, as)
      BY <1>5, <1>7, <1>10, <3>2, <3>5
    <3> QED BY <1>6, <3>3, <3>4, <3>5
  <2> QED BY <1>6, <2>1, <2>2, <2>3
<1>11. ~Collides(supply)
  BY <1>10 DEF Collides
<1> QED BY <1>9, <1>11 DEF SupplyFor, supply, pois, people, table

\* An empty sequence has no indices.
LEMMA EmptyDomain ==
  ASSUME NEW s, s = <<>>
  PROVE  DOMAIN s = {}
<1>1. s \in Seq({}) /\ Len(s) = 0
  BY EmptySeq
<1>2. DOMAIN s = 1..Len(s)
  BY <1>1, LenProperties
<1> QED BY <1>1, <1>2

\* What is made for a profile: schedules are refused only for want of an adult or of a home
\* or because a place is named twice, and a supply only if its sources are not in order.
MadeWell(w, made) ==
  /\ made.outcome \in {"adults", "homes", "duplicates", "built"}
  /\ made.outcome = "duplicates" => ~InOrder(w)
  /\ Collides(made.supply) \/ Misplaced(made.supply) => ~InOrder(w)
  /\ \A key \in DOMAIN made.sent :
       <<key[1], 1>> \in DOMAIN made.sent /\ DayPasses(made.supply, made.sent[key])

\* The tables have a world in which something is built and any versions.
LEMMA KeysAre ==
  ASSUME NEW w \in Built, NEW v \in Versions, NEW u \in Versions
  PROVE  <<w, v, u>> \in Keys
BY DEF Keys

\* Everything that is made for a profile is so.
LEMMA MadeIs ==
  ASSUME NEW w \in Built, NEW v \in Versions, NEW u \in Versions, NEW made \in Made[w, v, u]
  PROVE  MadeWell(w, made)
<1> DEFINE diaries == Worlds[w].diaries[v]
           pois == Worlds[w].pois[u]
<1>1. PICK profile \in Profiles[w] : made \in MadeFor(profile, diaries, pois)
  BY KeysAre, ZenonT(30) DEF Made
<1> DEFINE plans == PlansFor(profile, diaries)
           supply == SupplyFor(profile, pois)
           sent == SentFor(plans, supply)
           outcome == SchedulesOutcome(profile, plans)
           keys == profile.people \X {1, 2}
<1>2. made = [plans |-> plans, supply |-> supply, outcome |-> outcome,
              sent |-> IF outcome = "built" THEN sent ELSE <<>>]
  BY <1>1 DEF MadeFor
<1>3. /\ DOMAIN plans = keys
      /\ \A key \in keys : plans[key] = Schedule(diaries, Days[key[2]], key[1], PlaceIds(profile.places))
  BY DEF PlansFor
<1>4. \A key \in keys : ScheduleAccepted(plans[key], PlaceIds(profile.places))
  BY <1>3, ProfileDay
<1>5. /\ outcome \in {"adults", "homes", "duplicates", "built"}
      /\ outcome = "duplicates" => ~InOrder(w)
  <2>1. outcome = "duplicates" => Repeated(profile.people, profile.places)
    <3> HIDE DEF plans
    <3> QED BY DEF SchedulesOutcome
  <2>2. Repeated(profile.people, profile.places) => ~InOrder(w)
    BY WorldIs, NothingRepeats DEF InOrder
  <2> HIDE DEF plans
  <2> QED BY <1>3, <1>4, <2>1, <2>2 DEF SchedulesOutcome
<1>6. DOMAIN sent = keys /\ \A key \in keys : sent[key] = Assigned(supply, key[1], plans[key])
  <2> HIDE DEF plans, supply, keys
  <2> QED BY <1>3 DEF SentFor
<1>7. \A key \in keys : DayPasses(supply, sent[key])
  <2> SUFFICES ASSUME NEW key \in keys PROVE DayPasses(supply, sent[key])
    OBVIOUS
  <2> DEFINE p == key[1]
             n == key[2]
             rows == Schedule(diaries, Days[n], p, PlaceIds(profile.places))
  <2>1. p \in profile.people /\ n \in {1, 2}
    OBVIOUS
  <2> HIDE DEF p, n
  <2>2. DayPasses(supply, Assigned(supply, p, rows))
    BY <2>1, SentDay
  <2>3. sent[key] = Assigned(supply, p, rows)
    <3> HIDE DEF keys, sent, supply, plans
    <3> QED BY <1>3, <1>6 DEF p, n
  <2> QED BY <2>2, <2>3
<1>8. \A key \in keys : <<key[1], 1>> \in keys
  OBVIOUS
<1>11. Collides(supply) \/ Misplaced(supply) => ~InOrder(w)
  BY SupplyInOrder
<1> HIDE DEF plans, supply, sent, outcome, keys
<1>9. /\ made.supply = supply /\ made.outcome = outcome
      /\ outcome = "built" => made.sent = sent
      /\ outcome # "built" => made.sent = <<>>
  BY <1>2
<1>10. outcome # "built" => DOMAIN made.sent = {}
  BY <1>9, EmptyDomain
<1> QED BY <1>5, <1>6, <1>7, <1>8, <1>9, <1>10, <1>11 DEF MadeWell

\* Of the destinations the supply may not suffice, or the sources not be in order.
LEMMA SentIs ==
  ASSUME NEW w \in Built, NEW v \in Versions, NEW u \in Versions, NEW sent \in Sent[w, v, u]
  PROVE  /\ MadeWell(w, sent.made)
         /\ sent.outcome \in {"supply", "collision", "misplaced", "built"}
         /\ sent.outcome \in {"collision", "misplaced"} => ~InOrder(w)
         /\ sent.outcome = "built" =>
              ~Collides(sent.made.supply) /\ \A key \in DOMAIN sent.made.sent : Provided(sent.made.sent[key])
<1>1. <<w, v, u>> \in Keys
  BY KeysAre
<1>2. PICK made \in Made[w, v, u] :
        sent = [made |-> made,
                outcome |-> DestinationsOutcome(Worlds[w].pois[u], Worlds[w].cbsas, made.supply, made.sent)]
  BY <1>1 DEF Sent
<1> DEFINE outcome == DestinationsOutcome(Worlds[w].pois[u], Worlds[w].cbsas, made.supply, made.sent)
<1>3. MadeWell(w, made)
  BY MadeIs
<1>4. /\ outcome \in {"supply", "collision", "misplaced", "built"}
      /\ outcome \in {"collision", "misplaced"} => ~InOrder(w)
      /\ outcome = "built" => ~Collides(made.supply) /\ \A key \in DOMAIN made.sent : Provided(made.sent[key])
  BY <1>3 DEF DestinationsOutcome, MadeWell, DayPasses
<1> HIDE DEF outcome
<1>5. sent.made = made /\ sent.outcome = outcome
  BY <1>2 DEF outcome
<1> QED BY <1>3, <1>4, <1>5

\* Of the runtime only the capacity may not suffice, and no day of it has people who
\* teleport.
LEMMA JourneyIs ==
  ASSUME NEW w \in Built, NEW v \in Versions, NEW u \in Versions, NEW journey \in Journeys[w, v, u]
  PROVE  /\ journey.outcome \in {"capacity", "built"}
         /\ \A key \in DOMAIN journey.days :
              <<key[1], 1>> \in DOMAIN journey.days /\ Apart(Exported(journey.days[key]))
<1>1. <<w, v, u>> \in Keys
  BY KeysAre
<1>2. PICK sent \in Sent[w, v, u] :
        journey \in {[days |-> days, outcome |-> RuntimeOutcome(sent.made.supply, days)] :
          days \in {IF sent.outcome = "built" THEN JourneysFor(sent.made.sent) ELSE <<>>}}
  BY <1>1 DEF Journeys
<1> DEFINE made == sent.made.sent
           supply == sent.made.supply
           days == IF sent.outcome = "built" THEN JourneysFor(made) ELSE <<>>
<1>3. journey = [days |-> days, outcome |-> RuntimeOutcome(supply, days)]
  BY <1>2
<1>4. /\ MadeWell(w, sent.made)
      /\ sent.outcome = "built" => ~Collides(supply) /\ \A key \in DOMAIN made : Provided(made[key])
  BY SentIs
<1>5. \A key \in DOMAIN days : /\ <<key[1], 1>> \in DOMAIN days
                               /\ RoutedDayAccepted(supply, days[key]) /\ Apart(Exported(days[key]))
  <2>1. CASE sent.outcome = "built"
    <3>1. days = JourneysFor(made)
      BY <2>1
    <3>2. DOMAIN days = DOMAIN made /\ \A key \in DOMAIN made : days[key] = Routed(made[key])
      BY <3>1 DEF JourneysFor
    <3>3. \A key \in DOMAIN made : <<key[1], 1>> \in DOMAIN made /\ DayPasses(supply, made[key])
      BY <1>4 DEF MadeWell
    <3> HIDE DEF days, made, supply
    <3> QED BY <1>4, <2>1, <3>2, <3>3 DEF DayPasses
  <2>2. CASE sent.outcome # "built"
    <3>1. days = <<>>
      BY <2>2
    <3> HIDE DEF days
    <3>2. DOMAIN days = {}
      BY <3>1, EmptyDomain
    <3> QED BY <3>2
  <2> QED BY <2>1, <2>2
<1> HIDE DEF days, supply
<1>6. journey.days = days /\ journey.outcome = RuntimeOutcome(supply, days)
  BY <1>3
<1>7. RuntimeOutcome(supply, days) \in {"capacity", "built"}
  BY <1>5 DEF RuntimeOutcome
<1> QED BY <1>5, <1>6, <1>7

\* The verdicts about a population that there is.
LEMMA VerdictsAre ==
  ASSUME NEW w \in Built, NEW v \in Versions, NEW u \in Versions, Profiles[w] # {}
  PROVE  /\ Verdict(Made[w, v, u]) \in {"adults", "homes", "duplicates", "built"}
         /\ Verdict(Made[w, v, u]) = "duplicates" => ~InOrder(w)
         /\ Verdict(Sent[w, v, u]) \in {"supply", "collision", "misplaced", "built"}
         /\ Verdict(Sent[w, v, u]) \in {"collision", "misplaced"} => ~InOrder(w)
         /\ Verdict(Journeys[w, v, u]) \in {"capacity", "built"}
<1>1. <<w, v, u>> \in Keys
  BY KeysAre
<1>2. Made[w, v, u] # {}
  <2>1. PICK profile \in Profiles[w] : TRUE
    OBVIOUS
  <2> DEFINE of(plans, supply) ==
               [plans |-> plans, supply |-> supply, outcome |-> SchedulesOutcome(profile, plans),
                sent |-> IF SchedulesOutcome(profile, plans) = "built" THEN SentFor(plans, supply) ELSE <<>>]
             somePlans == {PlansFor(profile, Worlds[w].diaries[v])}
             someSupply == {SupplyFor(profile, Worlds[w].pois[u])}
  <2>2. MadeFor(profile, Worlds[w].diaries[v], Worlds[w].pois[u])
          = UNION {{of(plans, supply) : plans \in somePlans} : supply \in someSupply}
    BY DEF MadeFor
  <2>3. somePlans # {} /\ someSupply # {}
    OBVIOUS
  <2> HIDE DEF of, somePlans, someSupply
  <2>4. MadeFor(profile, Worlds[w].diaries[v], Worlds[w].pois[u]) # {}
    BY <2>2, <2>3
  <2> QED BY <2>1, <2>4, KeysAre, ZenonT(30) DEF Made
<1>3. Sent[w, v, u] # {}
  BY <1>1, <1>2 DEF Sent
<1>4. Journeys[w, v, u] # {}
  <2>1. PICK sent \in Sent[w, v, u] : TRUE
    BY <1>3
  <2> DEFINE of(one) == {[days |-> days, outcome |-> RuntimeOutcome(one.made.supply, days)] :
                           days \in {IF one.outcome = "built" THEN JourneysFor(one.made.sent) ELSE <<>>}}
  <2>2. Journeys[w, v, u] = UNION {of(one) : one \in Sent[w, v, u]}
    BY <1>1 DEF Journeys
  <2>3. of(sent) # {}
    OBVIOUS
  <2> HIDE DEF of
  <2> QED BY <2>1, <2>2, <2>3
<1>5. \A made \in Made[w, v, u] :
        /\ made.outcome \in {"adults", "homes", "duplicates", "built"}
        /\ made.outcome = "duplicates" => ~InOrder(w)
  BY MadeIs DEF MadeWell
<1>6. \A sent \in Sent[w, v, u] :
        /\ sent.outcome \in {"supply", "collision", "misplaced", "built"}
        /\ sent.outcome \in {"collision", "misplaced"} => ~InOrder(w)
  BY SentIs
<1>7. \A journey \in Journeys[w, v, u] : journey.outcome \in {"capacity", "built"}
  BY JourneyIs
<1> QED BY <1>2, <1>3, <1>4, <1>5, <1>6, <1>7 DEF Verdict
-----------------------------------------------------------------------------
(* The sources.                                                            *)

OneVersion(file) == \A i, j \in DOMAIN file : file[i] = file[j]

Fetches ==
  [of : Downloads, version : Versions, sent : Nat, step : {"opened", "reading", "installed"}]

SourcesTypeOK ==
  /\ online \in [Artifacts -> Versions]
  /\ disk \in [Artifacts -> Seq(Versions)]
  /\ part \in [Artifacts -> Seq(Versions)]
  /\ record \in [Artifacts -> Seq(Versions)]
  /\ fetch \in {None} \cup Fetches

\* Where no digest tells a wrong file, the file is of one version, and so is the download
\* in progress.  What an earlier download has left may be of another, and is not resumed.
OneVersionInv ==
  /\ \A a \in Artifacts \ Pinned : OneVersion(disk[a])
  /\ fetch # None /\ fetch.step # "installed" /\ fetch.of \notin Pinned =>
       \A i \in DOMAIN part[fetch.of] : part[fetch.of][i] = fetch.version

SourcesInv == SourcesTypeOK /\ OneVersionInv

\* What the files of a source are.
LEMMA SourcesFacts ==
  /\ Downloads \subseteq Artifacts /\ Pinned \subseteq Artifacts
  /\ None \in Seq(Versions) /\ Len(None) = 0 /\ OneVersion(None)
  /\ \A v \in Versions : Whole(v) \in Seq(Versions) /\ Len(Whole(v)) = 2 /\ OneVersion(Whole(v))
PROOF
  BY Sources DEF Artifacts, None, Whole, OneVersion, Versions

\* Acquisition keeps the invariant.
LEMMA OpenStep ==
  ASSUME SourcesInv, NEW a \in Artifacts, NEW overwrite \in BOOLEAN, Open(a, overwrite)
  PROVE  SourcesInv'
PROOF
<1> DEFINE kept == Resumable(a, overwrite)
<1>1. kept \in Seq(Versions) /\ (a \notin Pinned => kept = None)
  BY SourcesFacts DEF Resumable, SourcesInv, SourcesTypeOK
<1>2. a \in Downloads /\ UNCHANGED <<online, disk, record>>
  BY DEF Open
<1>3. CASE Len(kept) = 2
  <2>1. fetch' = None /\ part' = [part EXCEPT ![a] = kept]
    BY <1>3, SourcesFacts DEF Open, Versions
  <2> QED
    BY <1>1, <1>2, <2>1 DEF SourcesInv, SourcesTypeOK, OneVersionInv
<1>4. CASE Len(kept) # 2
  <2>1. PICK from \in {0, Len(kept)} :
          /\ fetch' = [of |-> a, version |-> online[a], sent |-> from, step |-> "opened"]
          /\ part' = [part EXCEPT ![a] = SubSeq(kept, 1, from)]
    BY <1>4, SourcesFacts DEF Open, Versions
  <2> QED
    <3>1. from \in Nat /\ SubSeq(kept, 1, from) \in Seq(Versions)
      BY <1>1
    <3>2. a \notin Pinned => SubSeq(kept, 1, from) = <<>>
      BY <1>1, SourcesFacts DEF None
    <3>3. fetch' \in Fetches
      BY <1>2, <2>1, <3>1 DEF SourcesInv, SourcesTypeOK, Fetches
    <3>4. SourcesTypeOK'
      BY <1>2, <2>1, <3>1, <3>3 DEF SourcesInv, SourcesTypeOK
    <3>5. fetch'.of = a /\ (a \notin Pinned => part'[a] = <<>>)
      BY <2>1, <3>2 DEF SourcesInv, SourcesTypeOK
    <3> QED
      BY <1>2, <3>4, <3>5 DEF SourcesInv, OneVersionInv
<1> QED
  BY <1>3, <1>4

\* A chunk arrives.
LEMMA ReceiveStep ==
  ASSUME SourcesInv, Receive
  PROVE  SourcesInv'
PROOF
<1> DEFINE a == fetch.of
           v == fetch.version
<1>1. /\ fetch \in Fetches /\ a \in Artifacts /\ v \in Versions
      /\ fetch # None /\ fetch.step # "installed"
      /\ part' = [part EXCEPT ![a] = Append(part[a], v)]
      /\ fetch' = [fetch EXCEPT !.sent = @ + 1, !.step = "reading"]
      /\ UNCHANGED <<online, disk, record>>
  BY SourcesFacts DEF Receive, SourcesInv, SourcesTypeOK, Fetches
<1>2. fetch' \in Fetches /\ fetch'.of = a /\ fetch'.version = v
  <2> DEFINE counted == [fetch EXCEPT !.sent = @ + 1]
  <2>1. counted \in Fetches /\ counted.of = a /\ counted.version = v
    BY <1>1 DEF Fetches
  <2>2. fetch' = [counted EXCEPT !.step = "reading"]
    BY <1>1
  <2> HIDE DEF counted
  <2> QED
    BY <2>1, <2>2 DEF Fetches
<1>3. part[a] \in Seq(Versions) /\ Append(part[a], v) \in Seq(Versions)
  BY <1>1 DEF SourcesInv, SourcesTypeOK
<1>4. SourcesTypeOK'
  BY <1>1, <1>2, <1>3 DEF SourcesInv, SourcesTypeOK
<1>5. ASSUME a \notin Pinned, NEW i \in DOMAIN part'[a]
      PROVE  part'[a][i] = v
  <2>1. part'[a] = Append(part[a], v)
    BY <1>1 DEF SourcesInv, SourcesTypeOK
  <2>2. \A j \in DOMAIN part[a] : part[a][j] = v
    BY <1>1, <1>5 DEF SourcesInv, OneVersionInv
  <2> QED
    BY <1>3, <1>5, <2>1, <2>2
<1> QED
  BY <1>1, <1>2, <1>4, <1>5 DEF SourcesInv, OneVersionInv

\* A download is put in place.
LEMMA InstallStep ==
  ASSUME SourcesInv, Install
  PROVE  SourcesInv'
PROOF
<1> DEFINE a == fetch.of
           good == a \notin Pinned \/ part[a] = Whole(1)
<1>1. /\ fetch \in Fetches /\ a \in Artifacts /\ fetch.step = "reading" /\ fetch # None
      /\ disk' = [disk EXCEPT ![a] = IF good THEN part[a] ELSE disk[a]]
      /\ part' = [part EXCEPT ![a] = None]
      /\ fetch' = IF good THEN [fetch EXCEPT !.step = "installed"] ELSE None
      /\ UNCHANGED <<online, record>>
  BY SourcesFacts DEF Install, SourcesInv, SourcesTypeOK, Fetches
<1>2. fetch' = None \/ (fetch' \in Fetches /\ fetch'.step = "installed")
  <2>1. [fetch EXCEPT !.step = "installed"] \in Fetches
    BY <1>1 DEF Fetches
  <2>2. [fetch EXCEPT !.step = "installed"].step = "installed"
    BY <1>1 DEF Fetches
  <2> QED
    BY <1>1, <2>1, <2>2
<1>3. SourcesTypeOK'
  BY <1>1, <1>2, SourcesFacts DEF SourcesInv, SourcesTypeOK
<1>4. a \notin Pinned => OneVersion(part[a])
  BY <1>1 DEF SourcesInv, OneVersionInv, OneVersion
<1>5. \A b \in Artifacts \ Pinned : OneVersion(disk'[b])
  BY <1>1, <1>4 DEF SourcesInv, SourcesTypeOK, OneVersionInv
<1> QED
  BY <1>2, <1>3, <1>5 DEF SourcesInv, OneVersionInv

\* So does every step.
LEMMA SourcesStep ==
  ASSUME SourcesInv, [Next]_vars
  PROVE  SourcesInv'
PROOF
<1>1. ASSUME NEW a \in Artifacts, Publish(a)
      PROVE  SourcesInv'
  BY <1>1 DEF Publish, SourcesInv, SourcesTypeOK, OneVersionInv, Versions
<1>2. ASSUME NEW a \in Artifacts, Stage(a)
      PROVE  SourcesInv'
  <2>1. disk' = [disk EXCEPT ![a] = Whole(online[a])] /\ UNCHANGED <<online, part, record, fetch>>
    BY <1>2 DEF Stage
  <2>2. Whole(online[a]) \in Seq(Versions) /\ OneVersion(Whole(online[a]))
    BY SourcesFacts DEF SourcesInv, SourcesTypeOK
  <2> QED
    BY <2>1, <2>2 DEF SourcesInv, SourcesTypeOK, OneVersionInv
<1>3. ASSUME NEW a \in Artifacts, Record(a)
      PROVE  SourcesInv'
  BY <1>3 DEF Record, SourcesInv, SourcesTypeOK, OneVersionInv
<1>4. ASSUME Provenance
      PROVE  SourcesInv'
  BY <1>4, SourcesFacts DEF Provenance, SourcesInv, SourcesTypeOK, OneVersionInv, Fetches
<1>5. ASSUME FetchCrash
      PROVE  SourcesInv'
  BY <1>5 DEF FetchCrash, SourcesInv, SourcesTypeOK, OneVersionInv
<1>6. CASE Sourcing
  BY <1>1, <1>2, <1>3, <1>4, <1>5, <1>6, OpenStep, ReceiveStep, InstallStep DEF Sourcing
<1>7. CASE UNCHANGED sources
  BY <1>7 DEF sources, SourcesInv, SourcesTypeOK, OneVersionInv
<1>8. [Next]_vars => Sourcing \/ UNCHANGED sources
  BY DEF Next, vars, BuildAll, BuildOne, Starts, Lacks, BuildTables, BuildLake, BuildPopulation,
         BuildSchedules, BuildDestinations, BeginRuntime, Routing, Split, RoutePart, FinishRuntime,
         BeginVerification, VerificationFails, Publishes, WriteReceipt, BuildCrash,
         Staging, Keeps, Builds
<1> QED
  BY <1>6, <1>7, <1>8

\* It holds of the files an operator begins with.
LEMMA SourcesInit ==
  ASSUME Init
  PROVE  SourcesInv
PROOF
  BY SourcesFacts, DatasetAssumption
     DEF Init, AcquisitionInit, SourcesInv, SourcesTypeOK, OneVersionInv, Versions

\* In such a state no verified file is spliced.
LEMMA VerifiedIsOneVersion ==
  ASSUME SourcesInv
  PROVE  NeverSpliced
PROOF
  BY SourcesFacts DEF SourcesInv, OneVersionInv, NeverSpliced, Verified, OneVersion, Versions
-----------------------------------------------------------------------------
(* Products and receipts.                                                  *)

Steps == {"tables", "lake", "population", "schedules", "destinations", "runtime", "verification"}

\* What a product was made of follows from what its manifest says: the inputs of each
\* product name the products before it in full.
OfTables(p) == {<<"tables", p.made>>}
OfLake(p) == OfTables(p.inputs[1]) \cup {<<"lake", p.made>>}
OfPopulation(p) == OfLake(p.inputs[1])
OfSchedules(p) == OfPopulation(p.inputs[1]) \cup {<<"atus", p.inputs[2]>>}
OfDestinations(p) ==
  OfPopulation(p.inputs[1]) \cup OfSchedules(p.inputs[2]) \cup {<<"osm", p.inputs[3]>>}
OfRuntime(p) == OfPopulation(p.inputs[1]) \cup OfDestinations(p.inputs[2])
OfVerification(p) == OfRuntime(p.inputs[1]) \cup {<<"runtime", p.inputs[1].made>>}

Truthful(stage, p) ==
  /\ stage = "tables" => p.from = OfTables(p)
  /\ stage = "lake" => p.from = OfLake(p)
  /\ stage = "population" => p.from = OfPopulation(p)
  /\ stage = "schedules" => p.from = OfSchedules(p)
  /\ stage = "destinations" => p.from = OfDestinations(p)
  /\ stage = "runtime" => p.from = OfRuntime(p)
  /\ stage = "verification" => p.from = OfVerification(p)

\* What a manifest must say to name what is there now.
InputsOf(stage) ==
  IF stage = "tables" THEN TablesInputs
  ELSE IF stage = "lake" THEN LakeInputs
  ELSE IF stage = "population" THEN PopulationInputs
  ELSE IF stage = "schedules" THEN SchedulesInputs
  ELSE IF stage = "destinations" THEN DestinationsInputs
  ELSE IF stage = "runtime" THEN RuntimeInputs
  ELSE VerificationInputs

Fresh(stage) == Has(stage) /\ product[stage].inputs = InputsOf(stage)

\* The stages that a build has behind it when it is at a given one.
Positions == Steps \cup {"routing", "receipt"}
Behind(stage, at, verify) ==
  \/ stage = "tables" /\ at # "tables"
  \/ stage = "lake" /\ at \notin {"tables", "lake"}
  \/ stage = "population" /\ at \notin {"tables", "lake", "population"}
  \/ stage = "schedules" /\ at \notin {"tables", "lake", "population", "schedules"}
  \/ stage = "destinations" /\ at \in {"routing", "runtime", "verification", "receipt"}
  \/ stage = "runtime" /\ at \in {"verification", "receipt"}
  \/ stage = "verification" /\ at = "receipt" /\ verify

\* A command is at a stage of its own; only a whole build comes to the receipt,
\* and only a runtime with what it needs to the routing.
BuildShape ==
  /\ product = [stage \in Steps |-> product[stage]]
  /\ build # None =>
       /\ build = [at |-> build.at, last |-> build.last, overwrite |-> build.overwrite,
                   verify |-> build.verify, next |-> build.next]
       /\ build.at \in Positions
       /\ build.at = "receipt" => build.last = "receipt"
       /\ build.at = "routing" => Has("population") /\ Has("destinations")

ProductsInv == \A stage \in Steps : Has(stage) => Truthful(stage, product[stage])

\* The output that is about to be published is of what is there.
NextInv ==
  build # None /\ build.next # None =>
    Truthful(build.at, build.next) /\ build.next.inputs = InputsOf(build.at)

\* Whatever a whole build has behind it is of what is there: nothing it read has changed
\* since, and nothing was resumed that was made of anything else.
ChainInv ==
  build # None /\ build.last = "receipt" =>
    \A stage \in Steps : Behind(stage, build.at, build.verify) => Fresh(stage)

\* The sources rest while a build is running.
RestInv == build # None => fetch = None

BuildInv == BuildShape /\ ProductsInv /\ NextInv /\ ChainInv /\ RestInv

\* The stages by name.
LEMMA StepNames ==
  /\ DOMAIN Needs = Steps
  /\ \A stage \in Steps : \E i \in 1..7 : Stages[i] = stage
PROOF
<1>1. DOMAIN Stages = 1..7
  BY DEF Stages
<1>2. Steps = {Stages[i] : i \in 1..7}
  BY DEF Stages, Steps
<1> QED
  BY <1>1, <1>2 DEF Needs

\* Where a build goes after a stage.
LEMMA AfterStep ==
  ASSUME BuildShape, build # None, NEW stage \in Steps
  PROVE  /\ build.last # "receipt" => After(stage) = None
         /\ build.last = "receipt" =>
              /\ After(stage) # None
              /\ After(stage) = [at |-> After(stage).at, last |-> build.last,
                                 overwrite |-> build.overwrite, verify |-> build.verify,
                                 next |-> None]
              /\ stage = "tables" => After(stage).at = "lake"
              /\ stage = "lake" => After(stage).at = "population"
              /\ stage = "population" => After(stage).at = "schedules"
              /\ stage = "schedules" => After(stage).at = "destinations"
              /\ stage = "destinations" => After(stage).at = "runtime"
              /\ stage = "runtime" =>
                   After(stage).at = IF build.verify THEN "verification" ELSE "receipt"
              /\ stage = "verification" => After(stage).at = "receipt"
PROOF
<1> DEFINE i == CHOOSE n \in DOMAIN Stages : Stages[n] = stage
           next == IF i = Len(Stages) \/ (stage = "runtime" /\ ~build.verify)
                   THEN "receipt" ELSE Stages[i+1]
<1>1. After(stage) = IF build.last = "receipt"
                     THEN [build EXCEPT !.at = next, !.next = None] ELSE None
  BY DEF After
<1>2. i \in 1..7 /\ Stages[i] = stage /\ Len(Stages) = 7
  BY StepNames DEF Stages
<1>3. /\ stage = "tables" => next = "lake"
      /\ stage = "lake" => next = "population"
      /\ stage = "population" => next = "schedules"
      /\ stage = "schedules" => next = "destinations"
      /\ stage = "destinations" => next = "runtime"
      /\ stage = "runtime" => next = IF build.verify THEN "verification" ELSE "receipt"
      /\ stage = "verification" => next = "receipt"
  <2> HIDE DEF i
  <2> QED
    BY <1>2 DEF Stages
<1> HIDE DEF next
<1> DEFINE moved == [build EXCEPT !.at = next]
<1>4. moved = [at |-> next, last |-> build.last, overwrite |-> build.overwrite,
               verify |-> build.verify, next |-> build.next]
  BY DEF BuildShape
<1>5. [build EXCEPT !.at = next, !.next = None]
         = [at |-> next, last |-> build.last, overwrite |-> build.overwrite,
            verify |-> build.verify, next |-> None]
  <2>1. [build EXCEPT !.at = next, !.next = None] = [moved EXCEPT !.next = None]
    OBVIOUS
  <2> HIDE DEF moved
  <2> QED
    BY <1>4, <2>1
<1>6. [at |-> next, last |-> build.last, overwrite |-> build.overwrite,
       verify |-> build.verify, next |-> None] # None
  BY DEF None
<1> QED
  BY <1>1, <1>3, <1>5, <1>6

\* The inputs of a stage do not depend on its own product nor on those of later stages.
LEMMA InputsOfEarlier ==
  ASSUME BuildShape, NEW stage \in Steps, NEW new, UNCHANGED disk,
         product' = [product EXCEPT ![stage] = new],
         NEW earlier \in Steps, earlier = stage \/ Behind(earlier, stage, FALSE)
  PROVE  InputsOf(earlier)' = InputsOf(earlier)
PROOF
<1>1. \A other \in Steps : other # stage => product'[other] = product[other]
  BY DEF BuildShape
<1>2. \A other \in Steps : other # stage => Id(other)' = Id(other)
  BY <1>1 DEF Id
<1>3. \A other \in Steps : Behind(other, earlier, FALSE) => other # stage
  BY DEF Behind, Steps
<1>4. \A other \in Steps : Behind(other, earlier, FALSE) => Id(other)' = Id(other)
  BY <1>2, <1>3
<1> QED
  BY <1>4 DEF Steps, Behind, InputsOf, TablesInputs, LakeInputs, PopulationInputs, SchedulesInputs,
              DestinationsInputs, RuntimeInputs, VerificationInputs

\* A command that ends leaves nothing to be shown but that its products are truthful.
LEMMA EndStep ==
  ASSUME BuildInv, build' = None, NEW stage \in Steps,
         product' = product \/ product' = [product EXCEPT ![stage] = None]
  PROVE  BuildInv'
PROOF
<1>1. \A other \in Steps : product'[other] = product[other] \/ product'[other] = None
  BY DEF BuildInv, BuildShape
<1>2. product' = [other \in Steps |-> product'[other]]
  BY DEF BuildInv, BuildShape
<1> QED
  BY <1>1, <1>2 DEF BuildInv, BuildShape, ProductsInv, NextInv, ChainInv, RestInv, Has

\* A stage that keeps an output of the present inputs.
LEMMA KeepStep ==
  ASSUME BuildInv, NEW stage \in Steps, At(stage), Fresh(stage), build' = After(stage),
         UNCHANGED <<product, sources>>
  PROVE  BuildInv'
PROOF
<1>1. /\ build # None /\ build.at = stage /\ fetch' = None /\ BuildShape
      /\ UNCHANGED <<product, disk>>
  BY DEF At, BuildInv, RestInv, sources
<1>2. \A other \in Steps : Has(other)' = Has(other) /\ Fresh(other)' = Fresh(other)
  BY <1>1 DEF Has, Fresh, InputsOf, Id, TablesInputs, LakeInputs, PopulationInputs, SchedulesInputs,
              DestinationsInputs, RuntimeInputs, VerificationInputs
<1>3. CASE build.last # "receipt"
  <2>1. build' = None
    BY <1>1, <1>3, AfterStep
  <2> QED
    BY <1>1, <2>1, EndStep
<1>4. CASE build.last = "receipt"
  <2>1. /\ build'.last = "receipt" /\ build'.verify = build.verify /\ build'.next = None
        /\ build' = [at |-> build'.at, last |-> build'.last, overwrite |-> build'.overwrite,
                     verify |-> build'.verify, next |-> build'.next]
    BY <1>1, <1>4, AfterStep
  <2>2. /\ build'.at \in Positions \ {"routing"}
        /\ \A other \in Steps : Behind(other, build'.at, build.verify) =>
             Behind(other, stage, build.verify) \/ other = stage
    BY <1>1, <1>4, AfterStep DEF Behind, Steps, Positions
  <2>3. BuildShape'
    BY <1>1, <2>1, <2>2 DEF BuildShape
  <2>4. ChainInv'
    BY <1>1, <1>2, <1>4, <2>1, <2>2 DEF BuildInv, ChainInv
  <2> QED
    BY <1>1, <1>2, <2>1, <2>3, <2>4 DEF BuildInv, ProductsInv, NextInv, RestInv
<1> QED
  BY <1>3, <1>4

\* A stage that takes the old output away and has the new one made.
LEMMA ReplaceStep ==
  ASSUME BuildInv, NEW stage \in Steps, build # None,
         build.at = stage \/ (build.at = "routing" /\ stage = "runtime"),
         NEW new, Truthful(stage, new), new.inputs = InputsOf(stage),
         product' = [product EXCEPT ![stage] = None],
         build' = [at |-> stage, last |-> build.last, overwrite |-> build.overwrite,
                   verify |-> build.verify, next |-> new],
         UNCHANGED sources
  PROVE  BuildInv'
PROOF
<1>1. /\ fetch' = None /\ BuildShape /\ UNCHANGED disk
      /\ build'.at = stage /\ build'.last = build.last /\ build'.next = new
  BY DEF BuildInv, RestInv, sources
<1>2. /\ product' = [other \in Steps |-> product'[other]]
      /\ \A other \in Steps : product'[other] = IF other = stage THEN None ELSE product[other]
  BY <1>1 DEF BuildShape
<1>3. \A other \in Steps : Behind(other, stage, build.verify) =>
        /\ Behind(other, stage, FALSE) /\ other # stage
        /\ Behind(other, build.at, build.verify)
  BY DEF Behind, Steps
<1>4. \A other \in Steps : other = stage \/ Behind(other, stage, FALSE) =>
        InputsOf(other)' = InputsOf(other)
  BY <1>1, InputsOfEarlier
<1>5. BuildShape'
  <2>1. build'.at \in Positions \ {"routing", "receipt"}
    BY <1>1 DEF Positions, Steps
  <2> QED
    BY <1>2, <2>1 DEF BuildShape
<1>6. ProductsInv'
  BY <1>2 DEF BuildInv, ProductsInv, Has
<1>7. NextInv'
  BY <1>1, <1>4 DEF NextInv
<1>8. ChainInv'
  BY <1>1, <1>2, <1>3, <1>4 DEF BuildInv, ChainInv, Fresh, Has
<1> QED
  BY <1>1, <1>5, <1>6, <1>7, <1>8 DEF BuildInv, RestInv

\* The new output is published.
LEMMA PublishStep ==
  ASSUME BuildInv, NEW stage \in Steps, Publishes(stage)
  PROVE  BuildInv'
PROOF
<1>1. /\ build # None /\ build.at = stage /\ build.next # None
      /\ product' = [product EXCEPT ![stage] = build.next]
      /\ build' = After(stage) /\ fetch' = None /\ UNCHANGED disk /\ BuildShape
  BY DEF Publishes, BuildInv, RestInv, sources
<1>2. /\ product' = [other \in Steps |-> product'[other]]
      /\ \A other \in Steps : product'[other] = IF other = stage THEN build.next ELSE product[other]
  BY <1>1 DEF BuildShape
<1>3. Truthful(stage, build.next) /\ build.next.inputs = InputsOf(stage)
  BY <1>1 DEF BuildInv, NextInv
<1>4. ProductsInv'
  BY <1>2, <1>3 DEF BuildInv, ProductsInv, Has
<1>5. CASE build.last # "receipt"
  <2>1. build' = None
    BY <1>1, <1>5, AfterStep
  <2> QED
    BY <1>2, <1>4, <2>1 DEF BuildInv, BuildShape, NextInv, ChainInv, RestInv
<1>6. CASE build.last = "receipt"
  <2>1. /\ build'.last = "receipt" /\ build'.verify = build.verify /\ build'.next = None
        /\ build' = [at |-> build'.at, last |-> build'.last, overwrite |-> build'.overwrite,
                     verify |-> build'.verify, next |-> build'.next]
    BY <1>1, <1>6, AfterStep
  <2>2. /\ build'.at \in Positions \ {"routing"}
        /\ \A other \in Steps : Behind(other, build'.at, build.verify) =>
             \/ other = stage
             \/ Behind(other, stage, build.verify) /\ Behind(other, stage, FALSE) /\ other # stage
    BY <1>1, <1>6, AfterStep DEF Behind, Steps, Positions
  <2>3. \A other \in Steps : other = stage \/ Behind(other, stage, FALSE) =>
          InputsOf(other)' = InputsOf(other)
    BY <1>1, InputsOfEarlier
  <2>4. BuildShape'
    BY ONLY <1>2, <2>1, <2>2 DEF BuildShape
  <2>5. \A other \in Steps : Behind(other, stage, build.verify) => Fresh(other)
    BY <1>1, <1>6 DEF BuildInv, ChainInv
  <2>6. ChainInv'
    BY <1>1, <1>2, <1>3, <2>1, <2>2, <2>3, <2>5 DEF ChainInv, Fresh, Has
  <2> QED
    BY <1>1, <1>4, <2>1, <2>4, <2>6 DEF BuildInv, NextInv, RestInv
<1> QED
  BY <1>5, <1>6

\* A step of a command that neither moves nor touches a product.
LEMMA StayStep ==
  ASSUME BuildInv, UNCHANGED <<product, build, sources>>
  PROVE  BuildInv'
PROOF
<1>1. \A stage : InputsOf(stage)' = InputsOf(stage)
  BY DEF sources, InputsOf, Id, TablesInputs, LakeInputs, PopulationInputs, SchedulesInputs,
         DestinationsInputs, RuntimeInputs, VerificationInputs
<1> QED
  BY <1>1 DEF sources, BuildInv, BuildShape, ProductsInv, NextInv, ChainInv, RestInv, Fresh, Has

\* The sources change while no build is running.
LEMMA SourcingStep ==
  ASSUME BuildInv, Sourcing
  PROVE  BuildInv'
PROOF
<1>1. build' = None /\ build = None /\ UNCHANGED product
  BY DEF Sourcing, Gives, Receive, Install, Provenance, FetchCrash, outputs, BuildInv, RestInv
<1> QED
  BY <1>1 DEF BuildInv, BuildShape, ProductsInv, NextInv, ChainInv, RestInv, Has

\* What stages need, of the products that are there.
LEMMA NeededAreThere ==
  /\ Ready("lake") => Has("tables")
  /\ Ready("population") => Has("lake")
  /\ Ready("schedules") => Has("population")
  /\ Ready("destinations") => Has("population") /\ Has("schedules")
  /\ Ready("runtime") => Has("population") /\ Has("destinations")
  /\ Ready("verification") => Has("runtime")
PROOF
<1>1. \A stage \in Steps : stage \in {Stages[i] : i \in DOMAIN Stages}
  BY StepNames DEF Needs
<1>2. Needs["lake"] = {"tables"} /\ Needs["population"] = {"lake"}
  BY <1>1 DEF Needs, Steps
<1>3. Needs["schedules"] = {"population"} /\ Needs["destinations"] = {"population", "schedules"}
  BY <1>1 DEF Needs, Steps
<1>4. Needs["runtime"] = {"population", "destinations"} /\ Needs["verification"] = {"runtime"}
  BY <1>1 DEF Needs, Steps
<1> QED
  BY <1>2, <1>3, <1>4 DEF Ready

\* Of an identity the same follows as of its product.
LEMMA OfIdentities ==
  ASSUME ProductsInv
  PROVE  /\ Has("tables") => From("tables") = OfTables(Id("tables"))
         /\ Has("lake") => From("lake") = OfLake(Id("lake"))
         /\ Has("population") => From("population") = OfPopulation(Id("population"))
         /\ Has("schedules") => From("schedules") = OfSchedules(Id("schedules"))
         /\ Has("destinations") => From("destinations") = OfDestinations(Id("destinations"))
         /\ Has("runtime") => From("runtime") = OfRuntime(Id("runtime"))
         /\ Has("verification") => From("verification") = OfVerification(Id("verification"))
PROOF
<1>1. \A stage \in Steps : /\ Id(stage).inputs = product[stage].inputs
                           /\ Id(stage).made = product[stage].made
  BY DEF Id
<1>2. \A stage \in Steps : OfTables(Id(stage)) = OfTables(product[stage])
  BY <1>1 DEF OfTables
<1>3. \A stage \in Steps : OfLake(Id(stage)) = OfLake(product[stage])
  BY <1>1 DEF OfLake
<1>4. \A stage \in Steps : OfPopulation(Id(stage)) = OfPopulation(product[stage])
  BY <1>1 DEF OfPopulation
<1>5. \A stage \in Steps : OfSchedules(Id(stage)) = OfSchedules(product[stage])
  BY <1>1 DEF OfSchedules
<1>6. \A stage \in Steps : OfDestinations(Id(stage)) = OfDestinations(product[stage])
  BY <1>1 DEF OfDestinations
<1>7. \A stage \in Steps : OfRuntime(Id(stage)) = OfRuntime(product[stage])
  BY <1>1 DEF OfRuntime
<1>8. \A stage \in Steps : OfVerification(Id(stage)) = OfVerification(product[stage])
  BY <1>1 DEF OfVerification
<1> QED
  BY <1>2, <1>3, <1>4, <1>5, <1>6, <1>7, <1>8 DEF ProductsInv, Truthful, From, Steps

\* What every stage makes is truthful.
LEMMA MadeTruthfully ==
  ASSUME ProductsInv, NEW made
  PROVE  LET of(inputs, from) == [inputs |-> inputs, made |-> made, from |-> from]
         IN /\ Truthful("tables", of(TablesInputs, {<<"tables", made>>}))
            /\ Has("tables") =>
                 Truthful("lake", of(LakeInputs, From("tables") \cup {<<"lake", made>>}))
            /\ Has("lake") => Truthful("population", of(PopulationInputs, From("lake")))
            /\ Has("population") =>
                 Truthful("schedules", of(SchedulesInputs,
                   From("population") \cup {<<"atus", disk["atus"]>>}))
            /\ Has("population") /\ Has("schedules") =>
                 Truthful("destinations", of(DestinationsInputs,
                   From("population") \cup From("schedules") \cup {<<"osm", disk["osm"]>>}))
            /\ Has("population") /\ Has("destinations") =>
                 Truthful("runtime", of(RuntimeInputs,
                   From("population") \cup From("destinations")))
            /\ Has("runtime") =>
                 Truthful("verification", of(VerificationInputs,
                   From("runtime") \cup {<<"runtime", product["runtime"].made>>}))
PROOF
<1> DEFINE of(inputs, from) == [inputs |-> inputs, made |-> made, from |-> from]
<1>1. \A inputs, from : /\ of(inputs, from).inputs = inputs /\ of(inputs, from).made = made
                        /\ of(inputs, from).from = from
  OBVIOUS
<1> HIDE DEF of
<1>2. Truthful("tables", of(TablesInputs, {<<"tables", made>>}))
  BY <1>1 DEF Truthful, OfTables
<1>3. Has("tables") => Truthful("lake", of(LakeInputs, From("tables") \cup {<<"lake", made>>}))
  BY <1>1, OfIdentities DEF Truthful, OfLake, LakeInputs
<1>4. Has("lake") => Truthful("population", of(PopulationInputs, From("lake")))
  BY <1>1, OfIdentities DEF Truthful, OfPopulation, PopulationInputs
<1>5. Has("population") =>
        Truthful("schedules", of(SchedulesInputs,
          From("population") \cup {<<"atus", disk["atus"]>>}))
  BY <1>1, OfIdentities DEF Truthful, OfSchedules, SchedulesInputs
<1>6. Has("population") /\ Has("schedules") =>
        Truthful("destinations", of(DestinationsInputs,
          From("population") \cup From("schedules") \cup {<<"osm", disk["osm"]>>}))
  BY <1>1, OfIdentities DEF Truthful, OfDestinations, DestinationsInputs
<1>7. Has("population") /\ Has("destinations") =>
        Truthful("runtime", of(RuntimeInputs, From("population") \cup From("destinations")))
  BY <1>1, OfIdentities DEF Truthful, OfRuntime, RuntimeInputs
<1>8. Has("runtime") =>
        Truthful("verification", of(VerificationInputs,
          From("runtime") \cup {<<"runtime", product["runtime"].made>>}))
  <2>1. Id("runtime").made = product["runtime"].made
    BY DEF Id
  <2> QED
    BY <1>1, <2>1, OfIdentities DEF Truthful, OfVerification, VerificationInputs
<1> QED
  BY <1>2, <1>3, <1>4, <1>5, <1>6, <1>7, <1>8 DEF of

\* A stage that builds: what is shown once for all of them.
LEMMA MakesStep ==
  ASSUME BuildInv, NEW stage \in Steps, At(stage), NEW inputs, inputs = InputsOf(stage),
         NEW from, NEW made, Truthful(stage, [inputs |-> inputs, made |-> made, from |-> from]),
         Replaces(stage, inputs, from, made), UNCHANGED sources
  PROVE  BuildInv'
PROOF
<1> DEFINE new == [inputs |-> inputs, made |-> made, from |-> from]
<1>1. build # None /\ build.at = stage /\ product' = [product EXCEPT ![stage] = None]
      /\ build' = [build EXCEPT !.next = new]
  BY DEF At, Replaces
<1>2. new.inputs = InputsOf(stage)
  OBVIOUS
<1> HIDE DEF new
<1>3. build' = [at |-> stage, last |-> build.last, overwrite |-> build.overwrite,
                verify |-> build.verify, next |-> new]
  BY <1>1 DEF BuildInv, BuildShape
<1> QED
  BY <1>1, <1>2, <1>3, ReplaceStep DEF new

\* And what is shown once for all that keep their output or stop.
LEMMA KeepsStep ==
  ASSUME BuildInv, NEW stage \in Steps, At(stage), Keeps(stage, InputsOf(stage))
  PROVE  BuildInv'
PROOF
<1>1. UNCHANGED <<product, sources>>
  BY DEF Keeps, outputs
<1>2. CASE Resumes(stage, InputsOf(stage)) /\ build' = After(stage)
  BY <1>1, <1>2, KeepStep DEF Resumes, Fresh
<1>3. CASE build' = None
  BY <1>1, <1>3, EndStep
<1> QED
  BY <1>2, <1>3 DEF Keeps, Stops

\* A stage with a directory of its own.
LEMMA StagingStep ==
  ASSUME BuildInv, NEW stage \in Steps, At(stage), NEW inputs, inputs = InputsOf(stage),
         NEW verdict, NEW from, Staging(stage, inputs, verdict, from),
         Truthful(stage, [inputs |-> inputs, made |-> 0, from |-> from])
  PROVE  BuildInv'
PROOF
<1>1. CASE Keeps(stage, inputs)
  BY <1>1, KeepsStep
<1>2. CASE UNCHANGED sources /\ Replaces(stage, inputs, from, 0)
  BY <1>2, MakesStep
<1>3. CASE Stops(verdict) /\ UNCHANGED <<product, dirty>>
  BY <1>3, EndStep DEF Stops
<1> QED
  BY <1>1, <1>2, <1>3 DEF Staging, Builds

\* The stages, one by one.
LEMMA TablesStep ==
  ASSUME BuildInv, BuildTables
  PROVE  BuildInv'
PROOF
<1>1. "tables" \in Steps /\ At("tables") /\ TablesInputs = InputsOf("tables")
  BY DEF BuildTables, Ready, Steps, InputsOf
<1>2. CASE Keeps("tables", TablesInputs)
  BY <1>1, <1>2, KeepsStep
<1>3. CASE /\ UNCHANGED sources
           /\ Replaces("tables", TablesInputs, {<<"tables", serial + 1>>}, serial + 1)
  <2>1. Truthful("tables", [inputs |-> TablesInputs, made |-> serial + 1,
                            from |-> {<<"tables", serial + 1>>}])
    BY MadeTruthfully DEF BuildInv
  <2> QED
    BY <1>1, <1>3, <2>1, MakesStep
<1> QED
  BY <1>2, <1>3 DEF BuildTables, Builds

LEMMA LakeStep ==
  ASSUME BuildInv, BuildLake
  PROVE  BuildInv'
PROOF
<1> DEFINE from == From("tables") \cup {<<"lake", serial + 1>>}
<1>1. "lake" \in Steps /\ At("lake") /\ LakeInputs = InputsOf("lake") /\ Has("tables")
  BY NeededAreThere DEF BuildLake, Ready, Steps, InputsOf
<1>2. CASE Keeps("lake", LakeInputs)
  BY <1>1, <1>2, KeepsStep
<1>3. CASE UNCHANGED sources /\ Replaces("lake", LakeInputs, from, serial + 1)
  <2>1. Truthful("lake", [inputs |-> LakeInputs, made |-> serial + 1, from |-> from])
    BY <1>1, MadeTruthfully DEF BuildInv
  <2> HIDE DEF from
  <2> QED
    BY <1>1, <1>3, <2>1, MakesStep
<1>4. CASE product' = [product EXCEPT !["lake"] = None] /\ Stops("lake")
  BY <1>1, <1>4, EndStep DEF Stops
<1> QED
  BY <1>2, <1>3, <1>4 DEF BuildLake, Builds

LEMMA PopulationStep ==
  ASSUME BuildInv, BuildPopulation
  PROVE  BuildInv'
PROOF
<1>1. /\ "population" \in Steps /\ At("population") /\ Has("lake")
      /\ PopulationInputs = InputsOf("population")
  BY NeededAreThere DEF BuildPopulation, Ready, Steps, InputsOf
<1>2. Truthful("population", [inputs |-> PopulationInputs, made |-> 0, from |-> From("lake")])
  BY <1>1, MadeTruthfully DEF BuildInv
<1> QED
  BY <1>1, <1>2, StagingStep DEF BuildPopulation

LEMMA SchedulesStep ==
  ASSUME BuildInv, BuildSchedules
  PROVE  BuildInv'
PROOF
<1> DEFINE from == From("population") \cup {<<"atus", disk["atus"]>>}
<1>1. /\ "schedules" \in Steps /\ At("schedules") /\ Has("population")
      /\ SchedulesInputs = InputsOf("schedules")
  BY NeededAreThere DEF BuildSchedules, Ready, Steps, InputsOf
<1>2. Truthful("schedules", [inputs |-> SchedulesInputs, made |-> 0, from |-> from])
  BY <1>1, MadeTruthfully DEF BuildInv
<1> HIDE DEF from
<1> QED
  BY <1>1, <1>2, StagingStep DEF BuildSchedules, from

LEMMA DestinationsStep ==
  ASSUME BuildInv, BuildDestinations
  PROVE  BuildInv'
PROOF
<1> DEFINE from == From("population") \cup From("schedules") \cup {<<"osm", disk["osm"]>>}
<1>1. /\ "destinations" \in Steps /\ At("destinations") /\ Has("population") /\ Has("schedules")
      /\ DestinationsInputs = InputsOf("destinations")
  BY NeededAreThere DEF BuildDestinations, Ready, Steps, InputsOf
<1>2. Truthful("destinations", [inputs |-> DestinationsInputs, made |-> 0, from |-> from])
  BY <1>1, MadeTruthfully DEF BuildInv
<1> HIDE DEF from
<1> QED
  BY <1>1, <1>2, StagingStep DEF BuildDestinations, from

\* The runtime's command goes on in the directory of its work.
LEMMA BeginRuntimeStep ==
  ASSUME BuildInv, BeginRuntime
  PROVE  BuildInv'
PROOF
<1>1. /\ "runtime" \in Steps /\ At("runtime") /\ RuntimeInputs = InputsOf("runtime")
      /\ Has("population") /\ Has("destinations")
  BY NeededAreThere DEF BeginRuntime, Ready, Steps, InputsOf
<1>2. CASE Keeps("runtime", RuntimeInputs)
  BY <1>1, <1>2, KeepsStep
<1>3. CASE build' = [build EXCEPT !.at = "routing"] /\ UNCHANGED <<product, sources>>
  <2>1. build # None /\ build.at = "runtime" /\ build.next = None
    BY <1>1 DEF At
  <2>2. build' = [at |-> "routing", last |-> build.last, overwrite |-> build.overwrite,
                  verify |-> build.verify, next |-> None]
    BY <1>3, <2>1 DEF BuildInv, BuildShape
  <2>3. \A stage \in Steps : InputsOf(stage)' = InputsOf(stage)
    BY <1>3 DEF sources, InputsOf, Id, TablesInputs, LakeInputs, PopulationInputs, SchedulesInputs,
                DestinationsInputs, RuntimeInputs, VerificationInputs
  <2>4. \A stage \in Steps, verify \in {build.verify} :
          Behind(stage, "routing", verify) => Behind(stage, "runtime", verify)
    BY DEF Behind
  <2>5. BuildShape'
    BY <1>1, <1>3, <2>2 DEF BuildInv, BuildShape, Positions, Has
  <2>6. ChainInv'
    BY <1>3, <2>1, <2>2, <2>3, <2>4 DEF BuildInv, ChainInv, Fresh, Has
  <2>7. NextInv' /\ ProductsInv' /\ RestInv'
    BY <1>3, <2>1, <2>2 DEF BuildInv, NextInv, ProductsInv, RestInv, Has, sources
  <2> QED
    BY <2>5, <2>6, <2>7 DEF BuildInv
<1> QED
  BY <1>2, <1>3 DEF BeginRuntime, Builds

LEMMA FinishRuntimeStep ==
  ASSUME BuildInv, FinishRuntime
  PROVE  BuildInv'
PROOF
<1> DEFINE new == [inputs |-> RuntimeInputs, made |-> serial + 1,
                   from |-> From("population") \cup From("destinations")]
           moved == [build EXCEPT !.at = "runtime"]
<1>1. /\ "runtime" \in Steps /\ RuntimeInputs = InputsOf("runtime")
      /\ build # None /\ build.at = "routing" /\ UNCHANGED sources
      /\ Has("population") /\ Has("destinations")
  BY DEF FinishRuntime, At, Steps, InputsOf, BuildInv, BuildShape
<1>2. CASE /\ product' = [product EXCEPT !["runtime"] = None]
           /\ build' = [build EXCEPT !.at = "runtime", !.next = new]
  <2>1. Truthful("runtime", new)
    BY <1>1, MadeTruthfully DEF BuildInv
  <2>2. new.inputs = InputsOf("runtime")
    BY <1>1
  <2> HIDE DEF new
  <2>3. moved = [at |-> "runtime", last |-> build.last, overwrite |-> build.overwrite,
                 verify |-> build.verify, next |-> build.next]
    BY <1>1 DEF BuildInv, BuildShape
  <2>4. build' = [moved EXCEPT !.next = new]
    BY <1>2
  <2> HIDE DEF moved
  <2>5. build' = [at |-> "runtime", last |-> build.last, overwrite |-> build.overwrite,
                  verify |-> build.verify, next |-> new]
    BY <2>3, <2>4
  <2> QED
    BY <1>1, <1>2, <2>1, <2>2, <2>5, ReplaceStep
<1>3. CASE build' = None /\ UNCHANGED product
  BY <1>1, <1>3, EndStep
<1> QED
  BY <1>2, <1>3 DEF FinishRuntime, Stops

LEMMA VerificationStep ==
  ASSUME BuildInv, BeginVerification
  PROVE  BuildInv'
PROOF
<1> DEFINE from == From("runtime") \cup {<<"runtime", product["runtime"].made>>}
<1>1. /\ "verification" \in Steps /\ At("verification") /\ Has("runtime")
      /\ VerificationInputs = InputsOf("verification")
  BY NeededAreThere DEF BeginVerification, Ready, Steps, InputsOf
<1>2. Truthful("verification", [inputs |-> VerificationInputs, made |-> 0, from |-> from])
  BY <1>1, MadeTruthfully DEF BuildInv
<1>3. CASE Keeps("verification", VerificationInputs)
  BY <1>1, <1>3, KeepsStep
<1>4. CASE UNCHANGED sources /\ Replaces("verification", VerificationInputs, from, 0)
  <2> HIDE DEF from
  <2> QED
    BY <1>1, <1>2, <1>4, MakesStep
<1> QED
  BY <1>3, <1>4 DEF BeginVerification, Builds

\* A command is given when no other is in progress.
LEMMA StartStep ==
  ASSUME BuildInv, NEW first \in Positions, NEW last, NEW overwrite, NEW verify,
         first = "tables" \/ (first \in Steps /\ last \in Steps),
         Starts(first, last, overwrite, verify)
  PROVE  BuildInv'
PROOF
<1> DEFINE command == [at |-> first, last |-> last, overwrite |-> overwrite,
                       verify |-> verify, next |-> None]
<1>1. build' = command /\ fetch' = None /\ UNCHANGED product
  BY DEF Starts, Gives, outputs, sources
<1>2. /\ command.at = first /\ command.last = last /\ command.overwrite = overwrite
      /\ command.verify = verify /\ command.next = None
      /\ command = [at |-> command.at, last |-> command.last, overwrite |-> command.overwrite,
                    verify |-> command.verify, next |-> command.next]
  OBVIOUS
<1> HIDE DEF command
<1>3. BuildShape'
  BY <1>1, <1>2 DEF BuildInv, BuildShape, Steps, Positions
<1>4. ChainInv'
  BY <1>1, <1>2 DEF ChainInv, Behind, Steps
<1> QED
  BY <1>1, <1>2, <1>3, <1>4 DEF BuildInv, ProductsInv, NextInv, RestInv, Has

\* Every step keeps the invariant of builds.
LEMMA BuildStep ==
  ASSUME BuildInv, [Next]_vars
  PROVE  BuildInv'
PROOF
<1>1. ASSUME NEW overwrite \in BOOLEAN, NEW verify \in BOOLEAN, BuildAll(overwrite, verify)
      PROVE  BuildInv'
  BY <1>1, StartStep DEF BuildAll, Positions, Steps
<1>2. ASSUME NEW stage \in DOMAIN Needs, NEW overwrite \in BOOLEAN, BuildOne(stage, overwrite)
      PROVE  BuildInv'
  BY <1>2, StepNames, StartStep DEF BuildOne, Positions
<1>3. CASE Lacks
  BY <1>3, EndStep DEF Lacks, Stops, outputs, Steps
<1>4. CASE Split \/ RoutePart
  BY <1>4, StayStep DEF Split, RoutePart, Routing
<1>5. CASE VerificationFails \/ BuildCrash
  BY <1>5, EndStep DEF VerificationFails, BuildCrash, Stops, outputs, Steps
<1>6. CASE WriteReceipt
  BY <1>6, EndStep DEF WriteReceipt, Steps
<1>7. CASE UNCHANGED vars
  BY <1>7, StayStep DEF vars, outputs
<1>8. ASSUME NEW stage \in DOMAIN Needs, Publishes(stage)
      PROVE  BuildInv'
  BY <1>8, StepNames, PublishStep
<1> QED
  BY <1>1, <1>2, <1>3, <1>4, <1>5, <1>6, <1>7, <1>8, SourcingStep, TablesStep, LakeStep,
     PopulationStep, SchedulesStep, DestinationsStep, BeginRuntimeStep, FinishRuntimeStep,
     VerificationStep DEF Next

\* It holds when nothing is built.
LEMMA BuildInit ==
  ASSUME Init
  PROVE  BuildInv
PROOF
<1>1. product = [stage \in Steps |-> None] /\ build = None
  BY StepNames DEF Init
<1> QED
  BY <1>1 DEF BuildInv, BuildShape, ProductsInv, NextInv, ChainInv, RestInv, Has

\* At the receipt of a whole build the runtime is of what is there, and so is its
\* verification if it was to be verified.
LEMMA ReceiptIsFresh ==
  ASSUME BuildInv, At("receipt")
  PROVE  LET now == {<<"tables", product["tables"].made>>, <<"lake", product["lake"].made>>,
                     <<"atus", disk["atus"]>>, <<"osm", disk["osm"]>>}
         IN /\ From("runtime") = now
            /\ build.verify =>
                 From("verification") = now \cup {<<"runtime", product["runtime"].made>>}
PROOF
<1> DEFINE now == {<<"tables", product["tables"].made>>, <<"lake", product["lake"].made>>,
                   <<"atus", disk["atus"]>>, <<"osm", disk["osm"]>>}
<1>1. \A stage \in Steps : Behind(stage, "receipt", build.verify) => Fresh(stage)
  BY DEF At, BuildInv, BuildShape, ChainInv
<1>2. /\ Fresh("tables") /\ Fresh("lake") /\ Fresh("population") /\ Fresh("schedules")
      /\ Fresh("destinations") /\ Fresh("runtime")
      /\ build.verify => Fresh("verification")
  BY <1>1 DEF Behind, Steps
<1>3. /\ Id("tables").made = product["tables"].made /\ Id("lake").made = product["lake"].made
      /\ Id("runtime").made = product["runtime"].made
      /\ Id("lake").inputs = LakeInputs /\ Id("population").inputs = PopulationInputs
      /\ Id("schedules").inputs = SchedulesInputs /\ Id("destinations").inputs = DestinationsInputs
      /\ Id("runtime").inputs = RuntimeInputs
      /\ build.verify => Id("verification").inputs = VerificationInputs
  BY <1>2 DEF Id, Fresh, InputsOf
<1>4. OfTables(Id("tables")) = {<<"tables", product["tables"].made>>}
  BY <1>3 DEF OfTables
<1>5. OfLake(Id("lake")) = {<<"tables", product["tables"].made>>, <<"lake", product["lake"].made>>}
  BY <1>3, <1>4 DEF OfLake, LakeInputs
<1>6. OfPopulation(Id("population")) = OfLake(Id("lake"))
  BY <1>3 DEF OfPopulation, PopulationInputs
<1>7. OfSchedules(Id("schedules")) = OfLake(Id("lake")) \cup {<<"atus", disk["atus"]>>}
  BY <1>3, <1>6 DEF OfSchedules, SchedulesInputs
<1>8. OfDestinations(Id("destinations")) = now
  BY <1>3, <1>5, <1>6, <1>7 DEF OfDestinations, DestinationsInputs
<1>9. OfRuntime(Id("runtime")) = now
  BY <1>3, <1>5, <1>6, <1>8 DEF OfRuntime, RuntimeInputs
<1>10. build.verify =>
         OfVerification(Id("verification")) = now \cup {<<"runtime", product["runtime"].made>>}
  BY <1>3, <1>9 DEF OfVerification, VerificationInputs
<1>11. /\ From("runtime") = OfRuntime(Id("runtime"))
       /\ build.verify => From("verification") = OfVerification(Id("verification"))
  BY <1>2, OfIdentities DEF BuildInv, Fresh
<1> QED
  BY <1>9, <1>10, <1>11

\* Only the writing of the receipt ends a build there without a refusal.
LEMMA OnlyTheReceiptEnds ==
  ASSUME [Next]_vars, At("receipt"), build' = None, refused' = "no"
  PROVE  WriteReceipt
PROOF
<1>1. build # None /\ build.at = "receipt" /\ build.next = None
  BY DEF At
<1>2. "receipt" \notin DOMAIN Needs
  BY StepNames DEF Steps
<1> QED
  BY <1>1, <1>2 DEF Next, vars, Sourcing, BuildAll, BuildOne, Starts, Gives, Lacks, At, Ready,
       BuildTables, BuildLake, BuildPopulation, BuildSchedules, BuildDestinations, BeginRuntime,
       Routing, Split, RoutePart, FinishRuntime, BeginVerification, VerificationFails, Publishes,
       BuildCrash, Stops
-----------------------------------------------------------------------------
(* What products are made of.                                              *)

\* The world of a behaviour stays the same.
LEMMA WorldStep ==
  ASSUME [Next]_vars
  PROVE  world' = world
PROOF
  BY DEF Next, vars, Sourcing, BuildAll, BuildOne, Starts, Lacks, BuildTables, BuildLake,
         BuildPopulation, BuildSchedules, BuildDestinations, BeginRuntime, Routing, Split,
         RoutePart, FinishRuntime, BeginVerification, VerificationFails, Publishes,
         WriteReceipt, BuildCrash, Staging, Keeps, Builds

\* A file that is there.
Dated(file) == file \in Seq(Versions) /\ file # None

\* A product names the files it was made of, through the products it was made of.
Usable(stage, p) ==
  /\ stage = "schedules" => Dated(p.inputs[2])
  /\ stage = "destinations" => Dated(p.inputs[2].inputs[2]) /\ Dated(p.inputs[3])
  /\ stage = "runtime" => Dated(p.inputs[2].inputs[2].inputs[2]) /\ Dated(p.inputs[2].inputs[3])

\* So do all products, and the one that is about to be published.
UsableInv ==
  /\ \A stage \in Steps : Has(stage) => Usable(stage, product[stage])
  /\ build # None /\ build.next # None => Usable(build.at, build.next)

\* A build that will read a file has it.
FilesInv ==
  build # None =>
    /\ build.at = "schedules" \/ build.last = "receipt" => disk["atus"] # None
    /\ build.at = "destinations" \/ build.last = "receipt" => disk["osm"] # None

\* Something is built only in a world with commands.
WorldInv ==
  /\ given \in Nat
  /\ build # None \/ (\E stage \in Steps : Has(stage)) => world \in Built

\* A population is one of the profile.
PeopleInv ==
  \/ Has("population")
  \/ build # None /\ build.at = "population" /\ build.next # None
  => Profiles[world] # {}

\* What products are made of is there and usable.
DataInv == UsableInv /\ FilesInv /\ WorldInv /\ PeopleInv

\* The kinds of steps a command takes: it does not move, ends, goes on, makes an output,
\* publishes it.
Quiet == UNCHANGED <<product, build>> /\ (build # None => UNCHANGED sources)

Ending == build' = None /\ \A stage \in Steps : product'[stage] \in {product[stage], None}

Going ==
  /\ build # None /\ build' # None /\ build'.next = None /\ build'.last = build.last
  /\ build.last = "receipt" \/ build'.at = "routing"
  /\ UNCHANGED <<product, sources>>

Making(stage) ==
  /\ build # None /\ UNCHANGED sources
  /\ \A other \in Steps : product'[other] = IF other = stage THEN None ELSE product[other]
  /\ build'.at = stage /\ build'.last = build.last /\ build'.next # None
  /\ build'.next.inputs = InputsOf(stage)
  /\ build.at = stage \/ stage = "runtime"
  /\ stage = "destinations" => Has("schedules")
  /\ stage = "runtime" => Has("destinations")
  /\ stage = "population" => Profiles[world] # {}

Publishing(stage) ==
  /\ build # None /\ build.at = stage /\ build.next # None
  /\ \A other \in Steps : product'[other] = IF other = stage THEN build.next ELSE product[other]
  /\ \/ build' = None
     \/ build' # None /\ build'.next = None /\ build'.last = build.last /\ build.last = "receipt"
  /\ UNCHANGED sources

Starting ==
  /\ build = None /\ build' # None /\ build'.next = None /\ given < Worlds[world].commands
  /\ build'.at = "schedules" \/ build'.last = "receipt" => disk'["atus"] # None
  /\ build'.at = "destinations" \/ build'.last = "receipt" => disk'["osm"] # None
  /\ UNCHANGED product

Moves ==
  Quiet \/ Ending \/ Going \/ Starting \/ \E stage \in Steps : Making(stage) \/ Publishing(stage)

\* What goes on to the next stage moves so.
LEMMA AfterMoves ==
  ASSUME BuildInv, NEW stage \in Steps, At(stage), build' = After(stage), UNCHANGED <<product, sources>>
  PROVE  Moves
<1>1. build # None /\ BuildShape
  BY DEF At, BuildInv
<1>2. CASE build.last = "receipt"
  <2>1. After(stage) # None /\ After(stage).next = None /\ After(stage).last = build.last
    BY <1>1, <1>2, AfterStep
  <2>2. Going
    BY <1>1, <1>2, <2>1 DEF Going
  <2> QED BY <2>2 DEF Moves
<1>3. CASE build.last # "receipt"
  <2>1. build' = None
    BY <1>1, <1>3, AfterStep
  <2> QED BY <2>1 DEF Moves, Ending
<1> QED BY <1>2, <1>3

\* So does what keeps its output,
LEMMA KeepsMoves ==
  ASSUME BuildInv, NEW stage \in Steps, At(stage), NEW inputs, Keeps(stage, inputs)
  PROVE  Moves
<1>1. UNCHANGED <<product, sources>>
  BY DEF Keeps, outputs
<1>2. build' = After(stage) \/ build' = None
  BY DEF Keeps, Stops
<1>3. build' = None => Ending
  BY <1>1 DEF Ending
<1> QED BY <1>1, <1>2, <1>3, AfterMoves DEF Moves

\* what makes a new one,
LEMMA MakesMoves ==
  ASSUME BuildInv, NEW stage \in Steps, At(stage), NEW inputs, inputs = InputsOf(stage),
         NEW from, NEW made, Replaces(stage, inputs, from, made), UNCHANGED sources,
         stage = "destinations" => Has("schedules"), stage = "runtime" => Has("destinations"),
         stage = "population" => Profiles[world] # {}
  PROVE  Moves
<1> DEFINE new == [inputs |-> inputs, made |-> made, from |-> from]
<1>1. /\ build # None /\ build.at = stage /\ product' = [product EXCEPT ![stage] = None]
      /\ build' = [build EXCEPT !.next = new] /\ BuildShape
  BY DEF At, Replaces, BuildInv
<1>2. new.inputs = InputsOf(stage) /\ new # None
  BY DEF None
<1> HIDE DEF new
<1>3. build' = [at |-> stage, last |-> build.last, overwrite |-> build.overwrite,
                verify |-> build.verify, next |-> new]
  BY <1>1 DEF BuildShape
<1>4. build'.at = stage /\ build'.last = build.last /\ build'.next = new
  BY <1>3
<1>5. \A other \in Steps : product'[other] = IF other = stage THEN None ELSE product[other]
  BY <1>1 DEF BuildShape
<1>6. Making(stage)
  BY <1>1, <1>2, <1>4, <1>5 DEF Making
<1> QED BY <1>6 DEF Moves

\* and what makes it in a directory of its own.
LEMMA StagingMoves ==
  ASSUME BuildInv, NEW stage \in Steps, At(stage), NEW inputs, inputs = InputsOf(stage),
         NEW verdict, NEW from, Staging(stage, inputs, verdict, from),
         stage = "destinations" => Has("schedules"), stage = "runtime" => Has("destinations"),
         stage = "population" /\ verdict = "built" => Profiles[world] # {}
  PROVE  Moves
<1>1. CASE Keeps(stage, inputs)
  BY <1>1, KeepsMoves
<1>2. CASE UNCHANGED sources /\ verdict = "built" /\ Replaces(stage, inputs, from, 0)
  BY <1>2, MakesMoves
<1>3. CASE Stops(verdict) /\ UNCHANGED <<product, dirty>>
  BY <1>3 DEF Stops, Moves, Ending
<1> QED BY <1>1, <1>2, <1>3 DEF Staging, Builds

\* Every step moves a command in one of these ways.
LEMMA StepMoves ==
  ASSUME BuildInv, [Next]_vars
  PROVE  Moves
<1>1. CASE Sourcing
  <2>1. build = None /\ UNCHANGED <<product, build>>
    BY <1>1 DEF Sourcing, Gives, Receive, Install, Provenance, FetchCrash, outputs, BuildInv, RestInv
  <2> QED BY <2>1 DEF Quiet, Moves
<1>2. ASSUME NEW overwrite \in BOOLEAN, NEW verify \in BOOLEAN, BuildAll(overwrite, verify)
      PROVE  Moves
  <2> DEFINE command == [at |-> "tables", last |-> "receipt", overwrite |-> overwrite,
                         verify |-> verify, next |-> None]
  <2>1. build' = command /\ build = None /\ given < Worlds[world].commands /\ UNCHANGED <<product, disk>>
    BY <1>2 DEF BuildAll, Starts, Gives, outputs, sources
  <2>2. disk["atus"] # None /\ disk["osm"] # None
    BY <1>2, DatasetAssumption DEF BuildAll, AllVerified, Verified
  <2>3. command # None
    BY DEF None
  <2>4. command.next = None
    OBVIOUS
  <2> HIDE DEF command
  <2>5. Starting
    BY <2>1, <2>2, <2>3, <2>4 DEF Starting
  <2> QED BY <2>5 DEF Moves
<1>3. ASSUME NEW stage \in DOMAIN Needs, NEW overwrite \in BOOLEAN, BuildOne(stage, overwrite)
      PROVE  Moves
  <2> DEFINE command == [at |-> stage, last |-> stage, overwrite |-> overwrite,
                         verify |-> FALSE, next |-> None]
  <2>1. build' = command /\ build = None /\ given < Worlds[world].commands /\ UNCHANGED <<product, disk>>
    BY <1>3 DEF BuildOne, Starts, Gives, outputs, sources
  <2>2. /\ stage = "schedules" => disk["atus"] # None
        /\ stage = "destinations" => disk["osm"] # None
    BY <1>3 DEF BuildOne, Verified
  <2>3. command # None
    BY DEF None
  <2>4. command.next = None /\ command.at = stage /\ command.last = stage
    OBVIOUS
  <2>5. stage # "receipt"
    BY StepNames DEF Steps
  <2> HIDE DEF command
  <2>6. Starting
    BY <2>1, <2>2, <2>3, <2>4, <2>5 DEF Starting
  <2> QED BY <2>6 DEF Moves
<1>4. CASE Lacks
  BY <1>4 DEF Lacks, Stops, outputs, Ending, Moves
<1>5. CASE BuildTables
  <2>1. "tables" \in Steps /\ At("tables") /\ TablesInputs = InputsOf("tables")
    BY <1>5 DEF BuildTables, Ready, Steps, InputsOf
  <2>2. \/ Keeps("tables", TablesInputs)
        \/ UNCHANGED sources /\ Replaces("tables", TablesInputs, {<<"tables", serial + 1>>}, serial + 1)
    BY <1>5 DEF BuildTables, Builds
  <2> QED BY <2>1, <2>2, KeepsMoves, MakesMoves
<1>6. CASE BuildLake
  <2> DEFINE from == From("tables") \cup {<<"lake", serial + 1>>}
  <2>1. "lake" \in Steps /\ At("lake") /\ LakeInputs = InputsOf("lake")
    BY <1>6 DEF BuildLake, Ready, Steps, InputsOf
  <2>2. \/ Keeps("lake", LakeInputs)
        \/ UNCHANGED sources /\ Replaces("lake", LakeInputs, from, serial + 1)
        \/ build' = None /\ product' = [product EXCEPT !["lake"] = None]
    BY <1>6 DEF BuildLake, Builds, Stops
  <2> HIDE DEF from
  <2>3. build' = None /\ product' = [product EXCEPT !["lake"] = None] => Ending
    BY DEF Ending, BuildInv, BuildShape
  <2> QED BY <2>1, <2>2, <2>3, KeepsMoves, MakesMoves DEF Moves
<1>7. CASE BuildPopulation
  <2> DEFINE verdict == IF Profiles[world] = {} THEN "sample" ELSE "built"
  <2>1. /\ "population" \in Steps /\ At("population") /\ PopulationInputs = InputsOf("population")
        /\ Staging("population", PopulationInputs, verdict, From("lake"))
    BY <1>7 DEF BuildPopulation, Ready, Steps, InputsOf
  <2>2. verdict = "built" => Profiles[world] # {}
    OBVIOUS
  <2> HIDE DEF verdict
  <2> QED BY <2>1, <2>2, StagingMoves
<1>8. CASE BuildSchedules
  <2>1. "schedules" \in Steps /\ At("schedules") /\ SchedulesInputs = InputsOf("schedules")
    BY <1>8 DEF BuildSchedules, Ready, Steps, InputsOf
  <2>2. PICK verdict, from : Staging("schedules", SchedulesInputs, verdict, from)
    BY <1>8 DEF BuildSchedules
  <2> QED BY <2>1, <2>2, StagingMoves
<1>9. CASE BuildDestinations
  <2>1. /\ "destinations" \in Steps /\ At("destinations") /\ DestinationsInputs = InputsOf("destinations")
        /\ Has("schedules")
    BY <1>9, NeededAreThere DEF BuildDestinations, Ready, Steps, InputsOf
  <2>2. PICK verdict, from : Staging("destinations", DestinationsInputs, verdict, from)
    BY <1>9 DEF BuildDestinations
  <2> QED BY <2>1, <2>2, StagingMoves
<1>10. CASE BeginRuntime
  <2>1. "runtime" \in Steps /\ At("runtime") /\ build # None /\ build.at = "runtime"
    BY <1>10 DEF BeginRuntime, Ready, Steps, At
  <2>2. CASE Keeps("runtime", RuntimeInputs)
    BY <2>1, <2>2, KeepsMoves
  <2>3. CASE build' = [build EXCEPT !.at = "routing"] /\ UNCHANGED <<product, sources>>
    <3>1. build.next = None
      BY <2>1 DEF At
    <3>2. build' = [at |-> "routing", last |-> build.last, overwrite |-> build.overwrite,
                    verify |-> build.verify, next |-> None]
      BY <2>1, <2>3, <3>1 DEF BuildInv, BuildShape
    <3>3. build'.at = "routing" /\ build'.last = build.last /\ build'.next = None /\ build' # None
      BY <3>2 DEF None
    <3> QED BY <2>1, <2>3, <3>3 DEF Going, Moves
  <2> QED BY <1>10, <2>2, <2>3 DEF BeginRuntime, Builds
<1>11. CASE Split \/ RoutePart
  BY <1>11 DEF Split, RoutePart, Routing, Quiet, Moves
<1>12. CASE FinishRuntime
  <2> DEFINE new == [inputs |-> RuntimeInputs, made |-> serial + 1,
                     from |-> From("population") \cup From("destinations")]
             moved == [build EXCEPT !.at = "runtime"]
  <2>1. /\ "runtime" \in Steps /\ RuntimeInputs = InputsOf("runtime")
        /\ build # None /\ build.at = "routing" /\ UNCHANGED sources /\ Has("destinations")
    BY <1>12 DEF FinishRuntime, At, Steps, InputsOf, BuildInv, BuildShape
  <2>2. \/ /\ product' = [product EXCEPT !["runtime"] = None]
           /\ build' = [build EXCEPT !.at = "runtime", !.next = new]
        \/ build' = None /\ UNCHANGED product
    BY <1>12 DEF FinishRuntime, Stops
  <2>3. new.inputs = InputsOf("runtime") /\ new # None
    BY <2>1 DEF None
  <2> HIDE DEF new
  <2>4. CASE /\ product' = [product EXCEPT !["runtime"] = None]
             /\ build' = [build EXCEPT !.at = "runtime", !.next = new]
    <3>1. moved = [at |-> "runtime", last |-> build.last, overwrite |-> build.overwrite,
                   verify |-> build.verify, next |-> build.next]
      BY <2>1 DEF BuildInv, BuildShape
    <3>2. build' = [moved EXCEPT !.next = new]
      BY <2>4
    <3> HIDE DEF moved
    <3>3. build' = [at |-> "runtime", last |-> build.last, overwrite |-> build.overwrite,
                    verify |-> build.verify, next |-> new]
      BY <3>1, <3>2
    <3>4. build'.at = "runtime" /\ build'.last = build.last /\ build'.next = new
      BY <3>3
    <3>5. \A other \in Steps : product'[other] = IF other = "runtime" THEN None ELSE product[other]
      BY <2>4 DEF BuildInv, BuildShape
    <3>6. Making("runtime")
      BY <2>1, <2>3, <3>4, <3>5 DEF Making
    <3> QED BY <2>1, <3>6 DEF Moves
  <2>5. CASE build' = None /\ UNCHANGED product
    BY <2>5 DEF Ending, Moves
  <2> QED BY <2>2, <2>4, <2>5
<1>13. CASE BeginVerification
  <2> DEFINE from == From("runtime") \cup {<<"runtime", product["runtime"].made>>}
  <2>1. "verification" \in Steps /\ At("verification") /\ VerificationInputs = InputsOf("verification")
    BY <1>13 DEF BeginVerification, Ready, Steps, InputsOf
  <2>2. \/ Keeps("verification", VerificationInputs)
        \/ UNCHANGED sources /\ Replaces("verification", VerificationInputs, from, 0)
    BY <1>13 DEF BeginVerification, Builds
  <2> HIDE DEF from
  <2> QED BY <2>1, <2>2, KeepsMoves, MakesMoves
<1>14. CASE VerificationFails \/ BuildCrash \/ WriteReceipt
  BY <1>14 DEF VerificationFails, BuildCrash, WriteReceipt, Stops, outputs, Ending, Moves
<1>15. ASSUME NEW stage \in DOMAIN Needs, Publishes(stage)
       PROVE  Moves
  <2>1. /\ stage \in Steps /\ build # None /\ build.at = stage /\ build.next # None
        /\ product' = [product EXCEPT ![stage] = build.next]
        /\ build' = After(stage) /\ UNCHANGED sources /\ BuildShape
    BY <1>15, StepNames DEF Publishes, BuildInv
  <2>2. \A other \in Steps : product'[other] = IF other = stage THEN build.next ELSE product[other]
    BY <2>1 DEF BuildShape
  <2>3. \/ build' = None
        \/ build' # None /\ build'.next = None /\ build'.last = build.last /\ build.last = "receipt"
    BY <2>1, AfterStep
  <2>4. Publishing(stage)
    BY <2>1, <2>2, <2>3 DEF Publishing
  <2> QED BY <2>1, <2>4 DEF Moves
<1>16. CASE UNCHANGED vars
  BY <1>16 DEF vars, outputs, Quiet, Moves
<1> QED
  BY <1>1, <1>2, <1>3, <1>4, <1>5, <1>6, <1>7, <1>8, <1>9, <1>10, <1>11, <1>12, <1>13, <1>14,
     <1>15, <1>16 DEF Next

\* Commands are counted, and none is given to a world that has no more.
LEMMA GivenStep ==
  ASSUME [Next]_vars
  PROVE  given' = given \/ given' = given + 1
PROOF
  BY DEF Next, vars, Sourcing, BuildAll, BuildOne, Starts, Gives, Lacks, BuildTables, BuildLake,
         BuildPopulation, BuildSchedules, BuildDestinations, BeginRuntime, Routing, Split,
         RoutePart, FinishRuntime, BeginVerification, VerificationFails, Publishes,
         WriteReceipt, BuildCrash, Staging, Keeps, Builds

\* A new output is of files that are there, or of products that are.
LEMMA MakingUsable ==
  ASSUME SourcesInv, BuildInv, UsableInv, FilesInv, NEW stage \in Steps, Making(stage)
  PROVE  Usable(stage, build'.next)
<1> DEFINE new == build'.next
<1>1. new.inputs = InputsOf(stage) /\ build # None /\ (build.at = stage \/ stage = "runtime")
  BY DEF Making
<1> HIDE DEF new
<1>2. disk["atus"] \in Seq(Versions) /\ disk["osm"] \in Seq(Versions)
  BY DatasetAssumption DEF SourcesInv, SourcesTypeOK
<1>3. \A other : Id(other).inputs = product[other].inputs
  BY DEF Id
<1>4. CASE stage = "schedules"
  <2>1. new.inputs[2] = disk["atus"]
    BY <1>1, <1>4 DEF InputsOf, SchedulesInputs
  <2>2. disk["atus"] # None
    BY <1>1, <1>4 DEF FilesInv
  <2> QED BY <1>2, <1>4, <2>1, <2>2 DEF Usable, Dated, new
<1>5. CASE stage = "destinations"
  <2>1. new.inputs[3] = disk["osm"] /\ new.inputs[2] = Id("schedules")
    BY <1>1, <1>5 DEF InputsOf, DestinationsInputs
  <2>2. disk["osm"] # None
    BY <1>1, <1>5 DEF FilesInv
  <2>3. Dated(product["schedules"].inputs[2])
    BY <1>5 DEF Making, UsableInv, Usable, Steps
  <2> QED BY <1>2, <1>3, <1>5, <2>1, <2>2, <2>3 DEF Usable, Dated, new
<1>6. CASE stage = "runtime"
  <2>1. new.inputs[2] = Id("destinations")
    BY <1>1, <1>6 DEF InputsOf, RuntimeInputs
  <2>2. Dated(product["destinations"].inputs[2].inputs[2]) /\ Dated(product["destinations"].inputs[3])
    BY <1>6 DEF Making, UsableInv, Usable, Steps
  <2> QED BY <1>3, <1>6, <2>1, <2>2 DEF Usable, new
<1>7. CASE stage \notin {"schedules", "destinations", "runtime"}
  BY <1>7 DEF Usable
<1> QED BY <1>4, <1>5, <1>6, <1>7

\* None of them makes a product of a file that is not there,
LEMMA UsableStep ==
  ASSUME SourcesInv, BuildInv, UsableInv, FilesInv, Moves
  PROVE  UsableInv'
<1>1. CASE Quiet
  BY <1>1 DEF Quiet, UsableInv, Has, Usable
<1>2. CASE Ending
  BY <1>2 DEF Ending, UsableInv, Has, Usable
<1>3. CASE Going \/ Starting
  BY <1>3 DEF Going, Starting, UsableInv, Has, Usable
<1>4. ASSUME NEW stage \in Steps, Making(stage) PROVE UsableInv'
  <2>1. Usable(stage, build'.next) /\ build'.at = stage
    BY <1>4, MakingUsable DEF Making
  <2>2. \A other \in Steps : product'[other] = product[other] \/ product'[other] = None
    BY <1>4 DEF Making
  <2> QED BY <2>1, <2>2 DEF UsableInv, Has, Usable
<1>5. ASSUME NEW stage \in Steps, Publishing(stage) PROVE UsableInv'
  <2>1. Usable(stage, build.next)
    BY <1>5 DEF Publishing, UsableInv
  <2>2. \A other \in Steps : product'[other] = IF other = stage THEN build.next ELSE product[other]
    BY <1>5 DEF Publishing
  <2>3. build' = None \/ build'.next = None
    BY <1>5 DEF Publishing
  <2> QED BY <2>1, <2>2, <2>3 DEF UsableInv, Has, Usable
<1> QED BY <1>1, <1>2, <1>3, <1>4, <1>5 DEF Moves

\* takes away a file that a build will read,
LEMMA FilesStep ==
  ASSUME FilesInv, Moves
  PROVE  FilesInv'
<1>1. CASE Quiet
  BY <1>1 DEF Quiet, FilesInv, sources
<1>2. CASE Ending \/ Starting
  BY <1>2 DEF Ending, Starting, FilesInv
<1>3. CASE Going
  BY <1>3 DEF Going, FilesInv, sources
<1>4. ASSUME NEW stage \in Steps, Making(stage) PROVE FilesInv'
  BY <1>4 DEF Making, FilesInv, sources
<1>5. ASSUME NEW stage \in Steps, Publishing(stage) PROVE FilesInv'
  BY <1>5 DEF Publishing, FilesInv, sources
<1> QED BY <1>1, <1>2, <1>3, <1>4, <1>5 DEF Moves

\* builds where there are no commands,
LEMMA BuiltStep ==
  ASSUME WorldInv, world \in DOMAIN Worlds, Moves, world' = world,
         given' = given \/ given' = given + 1
  PROVE  WorldInv'
<1> DEFINE there == build # None \/ (\E stage \in Steps : Has(stage))
<1>1. given \in Nat /\ (there => world \in Built)
  BY DEF WorldInv
<1>2. given' \in Nat
  BY <1>1
<1>3. CASE Starting
  <2>1. Worlds[world].commands \in Nat
    BY DatasetAssumption
  <2>2. Worlds[world].commands > 0
    BY <1>1, <1>3, <2>1 DEF Starting
  <2>3. world \in Built
    BY <2>2 DEF Built
  <2> QED BY <1>2, <2>3 DEF WorldInv
<1>4. CASE ~Starting
  <2>1. there' => there
    BY <1>4 DEF Moves, Quiet, Ending, Going, Making, Publishing, Has
  <2> QED BY <1>1, <1>2, <2>1 DEF WorldInv
<1> QED BY <1>3, <1>4

\* or publishes a population that is none of the profile's.
LEMMA PeopleStep ==
  ASSUME PeopleInv, Moves, world' = world
  PROVE  PeopleInv'
<1>1. CASE Quiet \/ Ending \/ Going \/ Starting
  BY <1>1 DEF Quiet, Ending, Going, Starting, PeopleInv, Has, Steps
<1>2. ASSUME NEW stage \in Steps, Making(stage) PROVE PeopleInv'
  BY <1>2 DEF Making, PeopleInv, Has, Steps
<1>3. ASSUME NEW stage \in Steps, Publishing(stage) PROVE PeopleInv'
  BY <1>3 DEF Publishing, PeopleInv, Has, Steps
<1> QED BY <1>1, <1>2, <1>3 DEF Moves

\* Every step keeps what products are made of.
LEMMA DataStep ==
  ASSUME world \in DOMAIN Worlds, SourcesInv, BuildInv, DataInv, [Next]_vars
  PROVE  DataInv'
<1>1. Moves /\ world' = world /\ (given' = given \/ given' = given + 1)
  BY StepMoves, WorldStep, GivenStep
<1> QED BY <1>1, UsableStep, FilesStep, BuiltStep, PeopleStep DEF DataInv

\* At the beginning nothing is made.
LEMMA DataInit ==
  ASSUME Init
  PROVE  DataInv
<1>1. /\ \A stage \in Steps : product[stage] = None
      /\ build = None /\ given = 0
  BY StepNames DEF Init
<1> QED BY <1>1 DEF DataInv, UsableInv, FilesInv, WorldInv, PeopleInv, Has, Steps

\* The version that a product names is one of its tokens.
LEMMA TokenIs ==
  ASSUME NEW tokens, NEW a, NEW file, Dated(file), <<a, file>> \in tokens,
         \A token \in tokens : token[1] = a => token[2] = file
  PROVE  (CHOOSE token \in tokens : token[1] = a)[2][1] \in Versions
<1> DEFINE chosen == CHOOSE token \in tokens : token[1] = a
<1>1. chosen \in tokens /\ chosen[1] = a
  <2>1. \E token \in tokens : token[1] = a
    <3>1. <<a, file>>[1] = a
      OBVIOUS
    <3> QED BY <3>1
  <2> QED BY <2>1
<1> HIDE DEF chosen
<1>2. chosen[2] = file
  BY <1>1
<1>3. file[1] \in Versions
  BY EmptySeq DEF Dated, None
<1> QED BY <1>2, <1>3 DEF chosen

\* The tokens by which a product names its files.
LEMMA TokensOf ==
  ASSUME NEW p
  PROVE  /\ \A token \in OfPopulation(p) : token[1] \in {"tables", "lake"}
         /\ \A token \in OfSchedules(p) : /\ token[1] \in {"tables", "lake", "atus"}
                                          /\ token[1] = "atus" => token[2] = p.inputs[2]
         /\ \A token \in OfDestinations(p) : /\ token[1] = "atus" => token[2] = p.inputs[2].inputs[2]
                                             /\ token[1] = "osm" => token[2] = p.inputs[3]
         /\ \A token \in OfRuntime(p) : /\ token[1] = "atus" => token[2] = p.inputs[2].inputs[2].inputs[2]
                                        /\ token[1] = "osm" => token[2] = p.inputs[2].inputs[3]
<1>1. \A q : \A token \in OfPopulation(q) : token[1] \in {"tables", "lake"}
  BY DEF OfPopulation, OfLake, OfTables
<1>2. \A q : \A token \in OfSchedules(q) : /\ token[1] \in {"tables", "lake", "atus"}
                                           /\ token[1] = "atus" => token[2] = q.inputs[2]
  BY <1>1 DEF OfSchedules
<1>3. \A q : \A token \in OfDestinations(q) : /\ token[1] = "atus" => token[2] = q.inputs[2].inputs[2]
                                              /\ token[1] = "osm" => token[2] = q.inputs[3]
  BY <1>1, <1>2 DEF OfDestinations
<1>4. \A token \in OfRuntime(p) : /\ token[1] = "atus" => token[2] = p.inputs[2].inputs[2].inputs[2]
                                  /\ token[1] = "osm" => token[2] = p.inputs[2].inputs[3]
  BY <1>1, <1>3 DEF OfRuntime
<1> QED BY <1>1, <1>2, <1>3, <1>4

\* Every product names one version of each file it was made of.
LEMMA UsedIs ==
  ASSUME BuildInv, UsableInv
  PROVE  /\ Has("schedules") => Used("schedules", "atus") \in Versions
         /\ Has("destinations") =>
              Used("destinations", "atus") \in Versions /\ Used("destinations", "osm") \in Versions
         /\ Has("runtime") => Used("runtime", "atus") \in Versions /\ Used("runtime", "osm") \in Versions
<1>1. ASSUME Has("schedules") PROVE Used("schedules", "atus") \in Versions
  <2> DEFINE p == product["schedules"]
             tokens == p.from
  <2>1. tokens = OfSchedules(p) /\ Dated(p.inputs[2])
    BY <1>1 DEF BuildInv, ProductsInv, Truthful, UsableInv, Usable, Steps
  <2>2. <<"atus", p.inputs[2]>> \in tokens
    BY <2>1 DEF OfSchedules
  <2>3. \A token \in tokens : token[1] = "atus" => token[2] = p.inputs[2]
    BY <2>1, TokensOf
  <2> HIDE DEF tokens, p
  <2>4. (CHOOSE token \in tokens : token[1] = "atus")[2][1] \in Versions
    BY <2>1, <2>2, <2>3, TokenIs
  <2> QED BY <2>4 DEF Used, tokens, p
<1>2. ASSUME Has("destinations")
      PROVE  Used("destinations", "atus") \in Versions /\ Used("destinations", "osm") \in Versions
  <2> DEFINE p == product["destinations"]
             tokens == p.from
             diaries == p.inputs[2].inputs[2]
             osm == p.inputs[3]
  <2>1. tokens = OfDestinations(p) /\ Dated(diaries) /\ Dated(osm)
    BY <1>2 DEF BuildInv, ProductsInv, Truthful, UsableInv, Usable, Steps
  <2>2. <<"atus", diaries>> \in tokens /\ <<"osm", osm>> \in tokens
    BY <2>1 DEF OfDestinations, OfSchedules
  <2>3. \A token \in tokens : /\ token[1] = "atus" => token[2] = diaries
                              /\ token[1] = "osm" => token[2] = osm
    BY <2>1, TokensOf
  <2> HIDE DEF tokens, diaries, osm, p
  <2>4. (CHOOSE token \in tokens : token[1] = "atus")[2][1] \in Versions
    BY <2>1, <2>2, <2>3, TokenIs
  <2>5. (CHOOSE token \in tokens : token[1] = "osm")[2][1] \in Versions
    BY <2>1, <2>2, <2>3, TokenIs
  <2> QED BY <2>4, <2>5 DEF Used, tokens, p
<1>3. ASSUME Has("runtime")
      PROVE  Used("runtime", "atus") \in Versions /\ Used("runtime", "osm") \in Versions
  <2> DEFINE p == product["runtime"]
             tokens == p.from
             diaries == p.inputs[2].inputs[2].inputs[2]
             osm == p.inputs[2].inputs[3]
  <2>1. tokens = OfRuntime(p) /\ Dated(diaries) /\ Dated(osm)
    BY <1>3 DEF BuildInv, ProductsInv, Truthful, UsableInv, Usable, Steps
  <2>2. <<"atus", diaries>> \in tokens /\ <<"osm", osm>> \in tokens
    BY <2>1 DEF OfRuntime, OfDestinations, OfSchedules
  <2>3. \A token \in tokens : /\ token[1] = "atus" => token[2] = diaries
                              /\ token[1] = "osm" => token[2] = osm
    BY <2>1, TokensOf
  <2> HIDE DEF tokens, diaries, osm, p
  <2>4. (CHOOSE token \in tokens : token[1] = "atus")[2][1] \in Versions
    BY <2>1, <2>2, <2>3, TokenIs
  <2>5. (CHOOSE token \in tokens : token[1] = "osm")[2][1] \in Versions
    BY <2>1, <2>2, <2>3, TokenIs
  <2> QED BY <2>4, <2>5 DEF Used, tokens, p
<1> QED BY <1>1, <1>2, <1>3

\* No stage refuses what the stages before it have accepted.
LEMMA RefusedStep ==
  ASSUME world \in DOMAIN Worlds, SourcesInv, BuildInv, DataInv, AcceptedDataPasses, [Next]_vars
  PROVE  AcceptedDataPasses'
<1> DEFINE plain == {"no", "exists", "missing", "sample", "unreadable", "adults", "homes", "supply", "capacity",
                     "built", "verification", "crash"}
           disordered == {"duplicates", "collision", "misplaced"}
<1>0. /\ \A why \in plain : why \notin {"lake", "schedule", "assignment", "routing"} \cup disordered
      /\ \A why \in disordered : why \notin {"lake", "schedule", "assignment", "routing"}
  OBVIOUS
<1>1. refused' = refused \/ refused' \in plain \/ (refused' \in disordered /\ ~InOrder(world)) => AcceptedDataPasses'
  <2>1. world' = world
    BY WorldStep
  <2> HIDE DEF plain
  <2> QED BY <1>0, <2>1 DEF AcceptedDataPasses, InOrder, PlacesInOrder, FeaturesInOrder
<1>2. build # None => world \in Built
  BY DEF DataInv, WorldInv
<1>3. disk["atus"] \in Seq(Versions) /\ disk["osm"] \in Seq(Versions)
  BY DatasetAssumption DEF SourcesInv, SourcesTypeOK
<1>4. /\ disk["atus"] # None => Version("atus") \in Versions
      /\ disk["osm"] # None => Version("osm") \in Versions
  <2>1. \A file \in Seq(Versions) : file # None => file[1] \in Versions
    BY EmptySeq DEF None
  <2> QED BY <1>3, <2>1 DEF Version
<1>5. Has("population") => Profiles[world] # {}
  BY DEF DataInv, PeopleInv
<1>6. CASE BuildLake
  <2>1. LakeAccepted(StateTables(Worlds[world].source))
    BY LakeIsAccepted, DatasetAssumption
  <2>2. refused' = refused \/ refused' = "exists"
    BY <1>6, <2>1 DEF BuildLake, Keeps, Replaces, Stops
  <2> QED BY <1>1, <2>2
<1>7. CASE BuildSchedules
  <2> DEFINE verdict == Verdict(Made[world, Version("atus"), 1])
  <2>1. Has("population") /\ build # None /\ disk["atus"] # None
    BY <1>7, NeededAreThere DEF BuildSchedules, Ready, At, DataInv, FilesInv
  <2>2. 1 \in Versions
    BY DEF Versions
  <2>3. verdict \in {"adults", "homes", "duplicates", "built"} /\ (verdict = "duplicates" => ~InOrder(world))
    BY <1>2, <1>4, <1>5, <2>1, <2>2, VerdictsAre
  <2>4. PICK from : Staging("schedules", SchedulesInputs, verdict, from)
    BY <1>7 DEF BuildSchedules
  <2> HIDE DEF verdict
  <2>5. refused' = refused \/ refused' \in plain \/ (refused' \in disordered /\ ~InOrder(world))
    BY <2>3, <2>4 DEF Staging, Keeps, Replaces, Stops
  <2> QED BY <1>1, <2>5
<1>8. CASE BuildDestinations
  <2> DEFINE verdict == IF disk["osm"] # Whole(Version("osm")) THEN "unreadable"
                        ELSE Verdict(Sent[world, Used("schedules", "atus"), Version("osm")])
  <2>1. Has("population") /\ Has("schedules") /\ build # None /\ disk["osm"] # None
    BY <1>8, NeededAreThere DEF BuildDestinations, Ready, At, DataInv, FilesInv
  <2>2. Used("schedules", "atus") \in Versions
    BY <2>1, UsedIs DEF DataInv
  <2> DEFINE sent == Verdict(Sent[world, Used("schedules", "atus"), Version("osm")])
  <2>3. /\ sent \in {"supply", "collision", "misplaced", "built"}
        /\ sent \in {"collision", "misplaced"} => ~InOrder(world)
    BY <1>2, <1>4, <1>5, <2>1, <2>2, VerdictsAre
  <2>4. verdict \in plain \/ (verdict \in disordered /\ ~InOrder(world))
    <3> HIDE DEF sent
    <3> QED BY <2>3 DEF sent
  <2>5. PICK from : Staging("destinations", DestinationsInputs, verdict, from)
    BY <1>8 DEF BuildDestinations
  <2> HIDE DEF verdict
  <2>6. refused' = refused \/ refused' \in plain \/ (refused' \in disordered /\ ~InOrder(world))
    BY <2>4, <2>5 DEF Staging, Keeps, Replaces, Stops
  <2> QED BY <1>1, <2>6
<1>9. CASE FinishRuntime
  <2> DEFINE verdict == Verdict(Journeys[world, Used("destinations", "atus"), Used("destinations", "osm")])
  <2>1. Has("population") /\ Has("destinations") /\ build # None
    BY <1>9 DEF FinishRuntime, At, BuildInv, BuildShape
  <2>2. Used("destinations", "atus") \in Versions /\ Used("destinations", "osm") \in Versions
    BY <2>1, UsedIs DEF DataInv
  <2>3. verdict \in {"capacity", "built"}
    BY <1>2, <1>5, <2>1, <2>2, VerdictsAre
  <2>4. refused' = refused \/ refused' = verdict
    BY <1>9 DEF FinishRuntime, Stops
  <2> HIDE DEF verdict
  <2> QED BY <1>1, <2>3, <2>4
<1>10. CASE BuildPopulation
  <2> DEFINE verdict == IF Profiles[world] = {} THEN "sample" ELSE "built"
  <2>1. Staging("population", PopulationInputs, verdict, From("lake"))
    BY <1>10 DEF BuildPopulation
  <2>2. verdict \in plain
    OBVIOUS
  <2> HIDE DEF verdict
  <2>3. refused' = refused \/ refused' \in plain
    BY <2>1, <2>2 DEF Staging, Keeps, Replaces, Stops
  <2> QED BY <1>1, <2>3
<1>11. CASE ~(BuildLake \/ BuildPopulation \/ BuildSchedules \/ BuildDestinations \/ FinishRuntime)
  <2>1. refused' = refused \/ refused' \in plain
    BY <1>11 DEF Next, vars, Sourcing, BuildAll, BuildOne, Starts, Lacks, BuildTables, BeginRuntime,
         Routing, Split, RoutePart, BeginVerification, VerificationFails, Publishes, WriteReceipt,
         BuildCrash, Keeps, Builds, Replaces, Stops
  <2> QED BY <1>1, <2>1
<1> QED BY <1>6, <1>7, <1>8, <1>9, <1>10, <1>11

\* A runtime that is there has no day in which somebody teleports.
LEMMA NobodyDoes ==
  ASSUME BuildInv, DataInv
  PROVE  NobodyTeleports
<1>1. SUFFICES ASSUME NEW days \in Weekdays, NEW p \in DOMAIN days
               PROVE  Apart(days[p])
  BY DEF NobodyTeleports, Apart
<1>2. Has("runtime")
  BY DEF Weekdays
<1> DEFINE v == Used("runtime", "atus")
           u == Used("runtime", "osm")
<1>3. world \in Built /\ v \in Versions /\ u \in Versions
  BY <1>2, UsedIs DEF DataInv, WorldInv, Steps
<1>4. PICK journey \in Journeys[world, v, u] :
        days = [q \in {key[1] : key \in DOMAIN journey.days} |-> Exported(journey.days[q, 1])]
  <2>1. days \in Exports[world, v, u]
    BY <1>2 DEF Weekdays
  <2> HIDE DEF v, u
  <2>2. <<world, v, u>> \in Keys
    BY <1>3, KeysAre
  <2> QED BY <2>1, <2>2 DEF Exports
<1> HIDE DEF v, u
<1>5. \A key \in DOMAIN journey.days :
        <<key[1], 1>> \in DOMAIN journey.days /\ Apart(Exported(journey.days[key]))
  BY <1>3, JourneyIs
<1>6. PICK key \in DOMAIN journey.days : p = key[1]
  BY <1>4
<1>7. days[p] = Exported(journey.days[<<p, 1>>])
  BY <1>4
<1> QED BY <1>5, <1>6, <1>7
-----------------------------------------------------------------------------
(* The theorems.                                                           *)

IInv == world \in DOMAIN Worlds /\ SourcesInv /\ BuildInv /\ DataInv

\* Whatever is downloaded, interrupted, overwritten, put there by hand and built, the
\* sources and the products stay in the states that IInv describes.
THEOREM Invariance == Spec => []IInv
PROOF
<1>1. Init => IInv
  BY SourcesInit, BuildInit, DataInit DEF Init, IInv
<1>2. IInv /\ [Next]_vars => IInv'
  BY SourcesStep, BuildStep, WorldStep, DataStep DEF IInv
<1> QED
  BY <1>1, <1>2, PTL DEF Spec

\* A file that passes for verified holds one version of its source, for any artifacts
\* and however downloads end, are resumed and overwritten (inspect_artifact,
\* download_artifact).
THEOREM VerifiedFilesAreWhole == Spec => []NeverSpliced
PROOF
<1>1. IInv => NeverSpliced
  BY VerifiedIsOneVersion DEF IInv
<1> QED
  BY <1>1, Invariance, PTL

\* A build that ends with a receipt has its runtime, and a passed one its verification,
\* from the products and sources that are there (build_colorado_profile).
THEOREM ReceiptsAreFresh == Spec => FreshReceipt
PROOF
<1> DEFINE now == {<<"tables", product["tables"].made>>, <<"lake", product["lake"].made>>,
                   <<"atus", disk["atus"]>>, <<"osm", disk["osm"]>>}
           fresh == /\ From("runtime") = now
                    /\ receipt'.status = "passed" =>
                         From("verification") = now \cup {<<"runtime", product["runtime"].made>>}
           ends == At("receipt") /\ build' = None /\ refused' = "no"
<1>1. IInv /\ [Next]_vars => (ends => fresh)
  <2> SUFFICES ASSUME IInv, [Next]_vars, ends
               PROVE  fresh
    OBVIOUS
  <2>1. WriteReceipt
    BY OnlyTheReceiptEnds
  <2>2. receipt'.status = "passed" => build.verify
    BY <2>1 DEF WriteReceipt
  <2> QED
    BY <2>2, ReceiptIsFresh DEF IInv
<1>2. IInv /\ [Next]_vars => [ends => fresh]_vars
  BY <1>1
<1>3. []IInv /\ [][Next]_vars => [][ends => fresh]_vars
  BY <1>2, PTL
<1> QED
  BY <1>3, Invariance, PTL DEF Spec, FreshReceipt

\* A sample has the size the profile asks for and the minimum of people of every CBSA,
\* for any source and any order in which people are drawn and make room
\* (_create_selected_people).
THEOREM SamplesAreExact == Spec => []SampleIsExact
PROOF
<1>1. IInv => SampleIsExact
  BY PopulationIsExact DEF IInv, SampleIsExact
<1> QED
  BY <1>1, Invariance, PTL

\* What one stage accepts the later ones do not refuse, for any sources, diaries and maps
\* that are whole: tables make a lake, diaries schedules, schedules assignments and
\* assignments routed days that pass the checks of their builders.  A build is stopped for
\* its data by want of people, homes, destinations or capacity, and where the sources name
\* a place twice, of two kinds or off the map; with sources in order by the former only
\* (build_ducklake, build_profile_schedules, build_profile_destinations,
\* build_profile_runtime).
THEOREM AcceptedDataIsNotRefused == Spec => []AcceptedDataPasses
PROOF
<1>1. Init => AcceptedDataPasses
  BY DEF Init, AcceptedDataPasses
<1>2. IInv /\ AcceptedDataPasses /\ [Next]_vars => AcceptedDataPasses'
  BY RefusedStep DEF IInv
<1>3. []IInv /\ AcceptedDataPasses /\ [][Next]_vars => []AcceptedDataPasses
  BY <1>2, PTL
<1> QED
  BY <1>1, <1>3, Invariance, PTL DEF Spec

\* Nobody of an exported runtime teleports, for any diaries, map and times between places:
\* whoever travels leaves early enough to arrive when the next stay begins, and whoever
\* cannot stays (_route_partition, _export_runtime_tables).
THEOREM NobodyEverTeleports == Spec => []NobodyTeleports
PROOF
<1>1. IInv => NobodyTeleports
  BY NobodyDoes DEF IInv
<1> QED
  BY <1>1, Invariance, PTL
=============================================================================
