-------------------------- MODULE DailyLife_proofs --------------------------
(***************************************************************************)
(* Proofs about people who live by a plan, for any activities, days,       *)
(* letters and proposals.                                                  *)
(*                                                                         *)
(* That a plan holds together is not inductive: to remove an activity puts *)
(* a leg between its neighbours, which is right only in plans of a certain *)
(* form.  PlanInv says which forms there are: activities and legs in turn, *)
(* as plans are made, or what preserve_home_activity leaves, at most two   *)
(* activities of which the last is home for the rest of the day.           *)
(***************************************************************************)
EXTENDS DailyLife, SequenceTheorems, FiniteSetTheorems, WellFoundedInduction, TLAPS

Elements == Activities \cup {Travel}

\* An activity, and then a leg and an activity each.
Alternating(p) ==
  /\ Len(p) % 2 = 1
  /\ \A i \in 1..Len(p) : IsActivity(p[i]) <=> i % 2 = 1

\* Home for the rest of the day, perhaps after one activity.
Rewritten(p) ==
  /\ Len(p) \in {1, 2}
  /\ \A i \in 1..Len(p) : IsActivity(p[i])
  /\ p[Len(p)].id = HomeId /\ p[Len(p)].end = LastMinute

HomeStays(p) == \E i \in 1..Len(p) : IsActivity(p[i]) /\ p[i].id = HomeId

PlanInv(p) ==
  /\ p \in Seq(Elements)
  /\ Alternating(p) \/ Rewritten(p)
  /\ Ordered(p)
  /\ HomeStays(p)
-----------------------------------------------------------------------------
(* Numbers. *)

LEMMA LeastNat == ASSUME NEW S \in SUBSET Nat, S # {} PROVE \E x \in S : \A y \in S : x <= y
<1> DEFINE R == OpToRel(<, Nat)
<1>1. IsWellFoundedOn(R, Nat)
  BY NatLessThanWellFounded
<1> HIDE DEF R
<1>2. \E x \in S : \A y \in S : <<y, x>> \notin R
  BY <1>1, WFMin
<1>3. \A x, y \in S : <<y, x>> \notin R => x <= y
  BY DEF R, OpToRel
<1> QED
  BY <1>2, <1>3

\* The community modules' Min is the least element of a set of naturals,
LEMMA MinOfNats ==
  ASSUME NEW S \in SUBSET Nat, S # {}
  PROVE  Min(S) \in S /\ \A y \in S : Min(S) <= y
BY LeastNat DEF Min

\* and their Max the greatest of a set with a bound.
LEMMA MaxOfNats ==
  ASSUME NEW S \in SUBSET Nat, S # {}, NEW n \in Nat, \A y \in S : y <= n
  PROVE  Max(S) \in S /\ \A y \in S : y <= Max(S)
<1> DEFINE T == {n - y : y \in S}
<1>1. T \in SUBSET Nat /\ T # {}
  <2>1. \A y \in S : n - y \in Nat
    OBVIOUS
  <2>2. PICK y \in S : TRUE
    OBVIOUS
  <2>3. n - y \in T
    OBVIOUS
  <2> QED BY <2>1, <2>3
<1>2. PICK x \in T : \A y \in T : x <= y
  BY <1>1, LeastNat
<1>3. PICK m \in S : x = n - m
  OBVIOUS
<1>4. \A y \in S : y <= m
  <2> SUFFICES ASSUME NEW y \in S PROVE y <= m
    OBVIOUS
  <2>1. n - m <= n - y
    BY <1>2, <1>3
  <2> QED BY <2>1
<1> QED BY <1>4 DEF Max

-----------------------------------------------------------------------------
(* What the engine looks up in a plan. *)

LEMMA ElementKinds ==
  /\ \A e \in Activities : /\ IsActivity(e) /\ e.id \in Ids
                           /\ e.start \in Nat /\ e.end \in Nat
                           /\ e.start <= e.end /\ e.end <= LastMinute
  /\ ~IsActivity(Travel)
  /\ \A e \in Elements : IsActivity(e) <=> e \in Activities
  /\ \A e \in Elements : ~IsActivity(e) <=> e = Travel
BY PlansAssumption DEF Activities, Elements, Travel, IsActivity, Minutes

LEMMA FirstFutureIsFuture ==
  ASSUME NEW p \in Seq(Elements), NEW m \in Minutes, NEW ids, NEW i, i = FirstFuture(p, m, ids)
  PROVE  \/ i = 0
         \/ i \in 1..Len(p) /\ IsActivity(p[i]) /\ p[i].start > m /\ p[i].id \in ids
<1> DEFINE future == {j \in 1..Len(p) : IsActivity(p[j]) /\ p[j].start > m /\ p[j].id \in ids}
<1>1. i = IF future = {} THEN 0 ELSE Min(future)
  BY DEF FirstFuture
<1>2. future \in SUBSET Nat
  BY LenProperties
<1> QED
  BY <1>1, <1>2, MinOfNats

LEMMA NextActivityIsNext ==
  ASSUME NEW p \in Seq(Elements), NEW i \in Nat, NEW n, n = NextActivity(p, i)
  PROVE  \/ n = 0 /\ \A j \in (i + 1)..Len(p) : ~IsActivity(p[j])
         \/ /\ n \in (i + 1)..Len(p) /\ IsActivity(p[n])
            /\ \A j \in (i + 1)..Len(p) : IsActivity(p[j]) => n <= j
<1> DEFINE later == {j \in (i + 1)..Len(p) : IsActivity(p[j])}
<1>1. n = IF later = {} THEN 0 ELSE Min(later)
  BY DEF NextActivity
<1>2. later \in SUBSET Nat
  BY LenProperties
<1>3. CASE later = {}
  BY <1>1, <1>3
<1>4. CASE later # {}
  BY <1>1, <1>2, <1>4, MinOfNats
<1> QED
  BY <1>3, <1>4

LEMMA PreviousIsLast ==
  ASSUME NEW p \in Seq(Elements), NEW m \in Minutes, NEW i \in 0..Len(p), NEW k, k = Previous(p, m, i)
  PROVE  /\ k \in 0..(i - 1) \/ k = 0
         /\ k # 0 => k \in 1..(i - 1) /\ IsActivity(p[k]) /\ p[k].end < m
         /\ \A j \in 1..(i - 1) : IsActivity(p[j]) /\ p[j].end < m => k # 0 /\ j <= k
<1> DEFINE ended == {j \in 1..(i - 1) : IsActivity(p[j]) /\ p[j].end < m}
<1>1. k = IF ended = {} THEN 0 ELSE Max(ended)
  BY DEF Previous
<1>2. i \in Nat /\ ended \in SUBSET Nat /\ \A j \in ended : j <= i
  BY LenProperties
<1>3. CASE ended = {}
  BY <1>1, <1>3
<1>4. CASE ended # {}
  <2>1. k \in ended /\ \A j \in ended : j <= k
    BY <1>1, <1>2, <1>4, MaxOfNats
  <2> QED BY <2>1
<1> QED
  BY <1>3, <1>4

LEMMA PlanStateIsFirst ==
  ASSUME NEW p \in Seq(Elements), NEW m \in Minutes, NEW k, k = PlanState(p, m).found
  PROVE  /\ k = 0 => \A i \in 1..Len(p) : ~FallsIn(p, m, i)
         /\ k # 0 => k \in 1..Len(p) /\ FallsIn(p, m, k)
         /\ \A i \in 1..Len(p) : FallsIn(p, m, i) => k # 0 /\ k <= i
<1> DEFINE hits == {i \in 1..Len(p) : FallsIn(p, m, i)}
<1>1. k = IF hits = {} THEN 0 ELSE Min(hits)
  BY DEF PlanState
<1>2. hits \in SUBSET Nat
  BY LenProperties
<1>3. CASE hits = {}
  BY <1>1, <1>3
<1>4. CASE hits # {}
  <2>1. k \in hits /\ \A i \in hits : k <= i
    BY <1>1, <1>2, <1>4, MinOfNats
  <2> QED BY <2>1
<1> QED
  BY <1>3, <1>4
-----------------------------------------------------------------------------
(* Plans of the two forms hold together and mean what they seem to mean. *)

LEMMA PlanConnected == ASSUME NEW p, PlanInv(p) PROVE Connected(p) /\ Ordered(p)
<1> SUFFICES ASSUME NEW i \in 1..Len(p), ~IsActivity(p[i])
             PROVE  i \notin {1, Len(p)} /\ IsActivity(p[i - 1]) /\ IsActivity(p[i + 1])
  BY DEF PlanInv, Connected
<1>1. Alternating(p) /\ Len(p) \in Nat
  BY LenProperties DEF PlanInv, Rewritten
<1>2. i % 2 = 0 /\ Len(p) % 2 = 1
  BY <1>1 DEF Alternating
<1>3. i # 1 /\ i # Len(p) /\ i - 1 \in 1..Len(p) /\ i + 1 \in 1..Len(p)
  BY <1>1, <1>2
<1>4. (i - 1) % 2 = 1 /\ (i + 1) % 2 = 1
  BY <1>2
<1> QED
  BY <1>1, <1>3, <1>4 DEF Alternating

\* The legs that are active lie between neighbours; the loop goes by the last activity
\* that has ended.
LEMMA LegsBetweenNeighbours ==
  ASSUME NEW p, PlanInv(p), Alternating(p), NEW m \in Minutes,
         NEW i \in 1..Len(p), ~IsActivity(p[i])
  PROVE  /\ i \in 2..(Len(p) - 1) /\ IsActivity(p[i - 1]) /\ IsActivity(p[i + 1])
         /\ FallsIn(p, m, i) <=>
              /\ \E k \in 1..(i - 1) : IsActivity(p[k]) /\ p[k].end < m
              /\ m < p[i + 1].start
         /\ p[i - 1].end < m /\ m < p[i + 1].start => FallsIn(p, m, i)
<1>0. p \in Seq(Elements) /\ Len(p) \in Nat
  BY LenProperties DEF PlanInv
<1>1. i \in 2..(Len(p) - 1) /\ IsActivity(p[i - 1]) /\ IsActivity(p[i + 1])
  BY <1>0, PlanConnected DEF Connected
<1> DEFINE k == Previous(p, m, i)
           n == NextActivity(p, i)
<1> HIDE DEF k, n
<1>2. n = i + 1
  BY <1>0, <1>1, NextActivityIsNext DEF n
<1>3. /\ k # 0 => k \in 1..(i - 1) /\ IsActivity(p[k]) /\ p[k].end < m
      /\ \A j \in 1..(i - 1) : IsActivity(p[j]) /\ p[j].end < m => k # 0 /\ j <= k
  BY <1>0, PreviousIsLast DEF k
<1>4. FallsIn(p, m, i) <=> k # 0 /\ n # 0 /\ p[k].end < m /\ m < p[n].start
  BY DEF FallsIn, InLeg, k, n
<1>5. FallsIn(p, m, i) <=> k # 0 /\ m < p[i + 1].start
  BY <1>2, <1>3, <1>4
<1>6. k # 0 <=> \E j \in 1..(i - 1) : IsActivity(p[j]) /\ p[j].end < m
  BY <1>3
<1>7. i - 1 \in 1..(i - 1)
  BY <1>1
<1> QED
  BY <1>1, <1>5, <1>6, <1>7

LEMMA StateIsActive ==
  ASSUME NEW p, PlanInv(p), NEW m \in Minutes
  PROVE  PlanState(p, m).found = Active(p, m)
<1> DEFINE acts == {i \in 1..Len(p) : IsActivity(p[i]) /\ Includes(p[i], m)}
           legs == {i \in 2..(Len(p) - 1) :
                      ~IsActivity(p[i]) /\ p[i - 1].end < m /\ m < p[i + 1].start}
           k == PlanState(p, m).found
           a == Active(p, m)
<1>0. p \in Seq(Elements) /\ Len(p) \in Nat /\ m \in Nat
  BY LenProperties, PlansAssumption DEF PlanInv, Minutes
<1>1. a = IF acts # {} THEN Min(acts) ELSE IF legs # {} THEN Min(legs) ELSE 0
  BY DEF Active
<1>2. acts \in SUBSET Nat /\ legs \in SUBSET Nat
  BY <1>0
<1>3. /\ k = 0 => \A i \in 1..Len(p) : ~FallsIn(p, m, i)
      /\ k # 0 => k \in 1..Len(p) /\ FallsIn(p, m, k)
      /\ \A i \in 1..Len(p) : FallsIn(p, m, i) => k # 0 /\ k <= i
  BY <1>0, PlanStateIsFirst
<1>4. \A i \in 1..Len(p) : IsActivity(p[i]) => (FallsIn(p, m, i) <=> i \in acts)
  BY DEF FallsIn
<1>5. \A i \in 1..Len(p) :
        IsActivity(p[i]) => /\ p[i].start \in Nat /\ p[i].end \in Nat /\ p[i].start <= p[i].end
                            /\ i \in acts <=> p[i].start <= m /\ m <= p[i].end
  BY <1>0, ElementKinds, ElementOfSeq DEF Includes
<1> SUFFICES k = a
  OBVIOUS
<1> HIDE DEF acts, k, a
<1>6. CASE acts # {}
  <2>1. a \in acts /\ \A i \in acts : a <= i
    BY <1>1, <1>2, <1>6, MinOfNats
  <2>2. a \in 1..Len(p) /\ IsActivity(p[a])
    BY <2>1 DEF acts
  <2>3. k # 0 /\ k <= a /\ k \in 1..Len(p) /\ FallsIn(p, m, k)
    BY <1>3, <1>4, <2>1, <2>2
  <2>4. CASE IsActivity(p[k])
    BY <1>0, <1>4, <2>1, <2>2, <2>3, <2>4
  <2>5. CASE ~IsActivity(p[k])
    <3>1. Alternating(p)
      BY <2>3, <2>5 DEF PlanInv, Rewritten
    <3>2. k \in 2..(Len(p) - 1) /\ IsActivity(p[k + 1]) /\ m < p[k + 1].start
      BY <2>3, <2>5, <3>1, LegsBetweenNeighbours
    <3>3. a # k /\ k + 1 <= a /\ k + 1 \in 1..Len(p)
      BY <1>0, <2>2, <2>3, <2>5, <3>2
    <3>4. p[k + 1].start <= p[a].start
      <4>1. CASE k + 1 = a
        BY <1>5, <2>2, <4>1
      <4>2. CASE k + 1 < a
        <5>1. p[k + 1].end <= p[a].start
          BY <2>2, <3>2, <3>3, <4>2 DEF PlanInv, Ordered
        <5> QED BY <1>5, <2>2, <3>2, <3>3, <5>1
      <4> QED BY <3>3, <4>1, <4>2, <2>2
    <3> QED
      BY <1>0, <1>5, <2>1, <2>2, <3>2, <3>3, <3>4
  <2> QED BY <2>4, <2>5
<1>7. CASE acts = {} /\ Rewritten(p)
  <2>1. \A i \in 1..Len(p) : IsActivity(p[i])
    BY <1>7 DEF Rewritten
  <2>2. legs = {}
    BY <1>0, <2>1
  <2>3. k = 0
    BY <1>3, <1>4, <1>7, <2>1
  <2> QED BY <1>1, <1>7, <2>2, <2>3
<1>8. CASE acts = {} /\ Alternating(p)
  <2>1. legs \subseteq {i \in 1..Len(p) : FallsIn(p, m, i)}
    <3> SUFFICES ASSUME NEW i \in legs PROVE i \in 1..Len(p) /\ FallsIn(p, m, i)
      OBVIOUS
    <3>1. i \in 1..Len(p)
      BY <1>0
    <3> QED
      BY <1>8, <3>1, LegsBetweenNeighbours
  <2>2. ASSUME k # 0 PROVE k \in legs
    <3>1. k \in 1..Len(p) /\ FallsIn(p, m, k) /\ ~IsActivity(p[k])
      BY <1>3, <1>4, <1>8, <2>2
    <3>2. /\ k \in 2..(Len(p) - 1) /\ IsActivity(p[k - 1]) /\ IsActivity(p[k + 1])
          /\ m < p[k + 1].start
          /\ \E j \in 1..(k - 1) : IsActivity(p[j]) /\ p[j].end < m
      BY <1>8, <3>1, LegsBetweenNeighbours
    <3>3. p[k - 1].end < m
      <4> SUFFICES ASSUME ~(p[k - 1].end < m) PROVE FALSE
        OBVIOUS
      <4>1. k - 1 \in 1..Len(p) /\ k - 2 \in 0..Len(p)
        BY <1>0, <3>2
      <4>2. m < p[k - 1].start
        BY <1>0, <1>5, <1>8, <3>2, <4>1
      <4>3. PICK j \in 1..(k - 1) : IsActivity(p[j]) /\ p[j].end < m
        BY <3>2
      <4>4. j # k - 1 /\ j \in 1..(k - 2) /\ j \in 1..Len(p)
        BY <1>0, <1>5, <3>2, <4>1, <4>3
      <4>5. (k - 1) % 2 = 1 /\ (k - 2) % 2 = 0
        BY <1>8, <3>2, <4>1 DEF Alternating
      <4>6. k - 2 \in 1..Len(p) /\ ~IsActivity(p[k - 2])
        BY <1>8, <4>1, <4>4, <4>5 DEF Alternating
      <4>7. j # k - 2 /\ j \in 1..((k - 2) - 1)
        BY <4>3, <4>4, <4>6
      <4>8. (k - 2) + 1 = k - 1
        BY <3>2
      <4>9. FallsIn(p, m, k - 2)
        BY <1>8, <4>2, <4>3, <4>6, <4>7, <4>8, LegsBetweenNeighbours
      <4> QED
        BY <1>3, <3>2, <4>6, <4>9
    <3> QED
      BY <3>1, <3>2, <3>3
  <2>3. CASE legs = {}
    BY <1>1, <1>8, <2>2, <2>3
  <2>4. CASE legs # {}
    <3>1. a \in legs /\ \A i \in legs : a <= i
      BY <1>1, <1>2, <1>8, <2>4, MinOfNats
    <3>2. a \in 1..Len(p) /\ FallsIn(p, m, a)
      BY <2>1, <3>1
    <3>3. k # 0 /\ k <= a
      BY <1>3, <3>2
    <3>4. a <= k
      BY <2>2, <3>1, <3>3
    <3> QED
      BY <1>3, <3>2, <3>3, <3>4
  <2> QED BY <2>3, <2>4
<1>9. Alternating(p) \/ Rewritten(p)
  BY DEF PlanInv
<1> QED
  BY <1>6, <1>7, <1>8, <1>9
-----------------------------------------------------------------------------
(* What the adjustments do to a plan. *)

LEMMA MadePlansHold ==
  ASSUME NEW s \in Seq(Activities), Ordered(s), \E i \in 1..Len(s) : s[i].id = HomeId
  PROVE  PlanInv(MakePlan(s))
<1> DEFINE n == 2 * Len(s) - 1
           p == MakePlan(s)
<1>1. Len(s) \in Nat \ {0} /\ n \in Nat \ {0} /\ n % 2 = 1
  BY LenProperties
<1>2. p = [i \in 1..n |-> IF i % 2 = 1 THEN s[(i + 1) \div 2] ELSE Travel]
  BY DEF MakePlan
<1>3. \A i \in 1..n : i % 2 = 1 => (i + 1) \div 2 \in 1..Len(s)
  BY <1>1
<1>4. \A i \in 1..n : i % 2 = 1 => p[i] = s[(i + 1) \div 2] /\ p[i] \in Activities
  BY <1>2, <1>3, ElementOfSeq
<1>5. \A i \in 1..n : i % 2 # 1 => p[i] = Travel
  BY <1>2
<1>6. p \in [1..n -> Elements]
  BY <1>2, <1>4, <1>5 DEF Elements
<1>7. p \in Seq(Elements) /\ Len(p) = n
  BY <1>1, <1>6
<1> HIDE DEF p
<1>8. Alternating(p)
  BY <1>1, <1>4, <1>5, <1>7, ElementKinds DEF Alternating
<1>9. Ordered(p)
  <2>1. \A i \in 1..Len(p) : IsActivity(p[i]) => p[i] \in Activities
    BY <1>4, <1>5, <1>7, ElementKinds
  <2>2. ASSUME NEW i \in 1..Len(p), NEW j \in 1..Len(p), i < j, IsActivity(p[i]), IsActivity(p[j])
        PROVE  p[i].end <= p[j].start
    <3>1. i % 2 = 1 /\ j % 2 = 1
      BY <1>7, <1>8, <2>2 DEF Alternating
    <3>2. (i + 1) \div 2 < (j + 1) \div 2
      BY <1>7, <2>2, <3>1
    <3>3. (i + 1) \div 2 \in 1..Len(s) /\ (j + 1) \div 2 \in 1..Len(s)
      BY <1>3, <1>7, <3>1
    <3>4. IsActivity(s[(i + 1) \div 2]) /\ IsActivity(s[(j + 1) \div 2])
      BY <1>4, <1>7, <3>1, <2>2
    <3> QED
      BY <1>4, <1>7, <3>1, <3>2, <3>3, <3>4 DEF Ordered
  <2> QED BY <2>1, <2>2 DEF Ordered
<1>10. HomeStays(p)
  <2>1. PICK i \in 1..Len(s) : s[i].id = HomeId
    OBVIOUS
  <2>2. 2 * i - 1 \in 1..n /\ (2 * i - 1) % 2 = 1 /\ ((2 * i - 1) + 1) \div 2 = i
    BY <1>1
  <2>3. p[2 * i - 1] = s[i] /\ p[2 * i - 1] \in Activities
    BY <1>4, <2>2
  <2> QED
    BY <1>7, <2>1, <2>2, <2>3, ElementKinds DEF HomeStays
<1> QED
  BY <1>7, <1>8, <1>9, <1>10 DEF PlanInv, p

\* A deferral moves one activity that is still to begin, and not beyond the next one.
LEMMA DeferEffect ==
  ASSUME NEW p, PlanInv(p), NEW m \in Minutes, NEW d \in Nat, Defer(p, m, d) # p
  PROVE  \E i \in 1..Len(p), a \in Nat :
           /\ p[i] \in Activities /\ p[i].start > m /\ p[i].id # HomeId
           /\ Defer(p, m, d) = [p EXCEPT ![i] = Later(p[i], a)]
           /\ p[i].end + a <= LastMinute
           /\ \A j \in (i + 1)..Len(p) : IsActivity(p[j]) => p[i].end + a <= p[j].start
<1> DEFINE i == FirstFuture(p, m, TravelSensitive \ HomeLike)
           n == NextActivity(p, i)
           bounds == {LastMinute} \cup {p[j].start : j \in {n} \ {0}}
           a == Min({d, Slack(p, i)})
<1>0. p \in Seq(Elements) /\ Len(p) \in Nat
  BY LenProperties DEF PlanInv
<1>1. i # 0 /\ ~(d <= 0) /\ ~(a <= 0)
      /\ Defer(p, m, d) = [p EXCEPT ![i] = Later(p[i], a)]
  BY DEF Defer
<1>2. i \in 1..Len(p) /\ IsActivity(p[i]) /\ p[i].start > m /\ p[i].id \in TravelSensitive \ HomeLike
  BY <1>0, <1>1, FirstFutureIsFuture
<1>3. p[i] \in Activities /\ p[i].id # HomeId
  BY <1>0, <1>2, ElementOfSeq, ElementKinds DEF HomeLike
<1> HIDE DEF i
<1>4. \/ n = 0 /\ \A j \in (i + 1)..Len(p) : ~IsActivity(p[j])
      \/ /\ n \in (i + 1)..Len(p) /\ IsActivity(p[n])
         /\ \A j \in (i + 1)..Len(p) : IsActivity(p[j]) => n <= j
  BY <1>0, <1>2, NextActivityIsNext
<1> HIDE DEF n
<1>5. bounds \in SUBSET Nat /\ LastMinute \in bounds /\ (n # 0 => p[n].start \in bounds)
  <2>1. LastMinute \in Nat
    BY PlansAssumption
  <2>2. n # 0 => n \in 1..Len(p) /\ p[n].start \in Nat
    BY <1>0, <1>2, <1>4, ElementOfSeq, ElementKinds
  <2> QED
    BY <2>1, <2>2
<1>6. Slack(p, i) = Min(bounds) - p[i].end
  BY DEF Slack, n
<1> HIDE DEF bounds
<1>7. Min(bounds) \in Nat /\ Min(bounds) <= LastMinute /\ (n # 0 => Min(bounds) <= p[n].start)
  BY <1>5, MinOfNats
<1>8. p[i].start \in Nat /\ p[i].end \in Nat /\ p[i].start <= p[i].end
  BY <1>3, ElementKinds
<1>9. a \in {d, Slack(p, i)} /\ a <= Slack(p, i) /\ a \in Int
  <2>1. Slack(p, i) \in Int
    BY <1>6, <1>7, <1>8
  <2> HIDE DEF a
  <2>2. a = CHOOSE x \in {d, Slack(p, i)} : \A y \in {d, Slack(p, i)} : x <= y
    BY DEF a, Min
  <2>3. \E x \in {d, Slack(p, i)} : \A y \in {d, Slack(p, i)} : x <= y
    BY <2>1
  <2> QED
    BY <2>1, <2>2, <2>3
<1>10. a \in Nat /\ p[i].end + a <= LastMinute /\ (n # 0 => p[i].end + a <= p[n].start)
  <2> HIDE DEF a
  <2>1. n # 0 => p[n].start \in Nat
    BY <1>5
  <2>2. LastMinute \in Nat
    BY PlansAssumption
  <2>3. a > 0
    BY <1>1, <1>9
  <2>4. CASE n # 0
    BY <1>6, <1>7, <1>8, <1>9, <2>1, <2>2, <2>3, <2>4
  <2>5. CASE n = 0
    BY <1>6, <1>7, <1>8, <1>9, <2>2, <2>3, <2>5
  <2> QED BY <2>4, <2>5
<1>11. ASSUME NEW j \in (i + 1)..Len(p), IsActivity(p[j]) PROVE p[i].end + a <= p[j].start
  <2>1. n # 0 /\ n <= j /\ n \in 1..Len(p) /\ j \in 1..Len(p) /\ IsActivity(p[n])
    BY <1>2, <1>4, <1>11
  <2>2. p[n].start <= p[n].end /\ p[n].start \in Nat /\ p[n].end \in Nat /\ p[j].start \in Nat
    BY <1>0, <1>11, <2>1, ElementOfSeq, ElementKinds
  <2>3. n < j => p[n].end <= p[j].start
    BY <1>11, <2>1 DEF PlanInv, Ordered
  <2> HIDE DEF a
  <2> QED
    BY <1>8, <1>10, <2>1, <2>2, <2>3
<1> HIDE DEF a
<1> QED
  BY <1>1, <1>2, <1>3, <1>10, <1>11

\* What begins later in two plans does not touch what they have in common before it.
LEMMA PastsAgree ==
  ASSUME minute \in Minutes, NEW p \in Seq(Elements), NEW q \in Seq(Elements), NEW i \in Nat \ {0},
         i - 1 <= Len(p), i - 1 <= Len(q),
         \A j \in 1..(i - 1) : q[j] = p[j],
         \A j \in i..Len(p) : IsActivity(p[j]) => p[j].start > minute,
         \A j \in i..Len(q) : IsActivity(q[j]) => q[j].start > minute
  PROVE  Past(q) = Past(p)
<1> DEFINE bp == {0} \cup {j \in 1..Len(p) : IsActivity(p[j]) /\ p[j].start <= minute}
           bq == {0} \cup {j \in 1..Len(q) : IsActivity(q[j]) /\ q[j].start <= minute}
           common == {0} \cup {j \in 1..(i - 1) : IsActivity(p[j]) /\ p[j].start <= minute}
           k == Max(common)
<1>0. Len(p) \in Nat /\ Len(q) \in Nat /\ minute \in Nat
  BY LenProperties, PlansAssumption DEF Minutes
<1>1. bp = common
  <2>1. \A j \in i..Len(p) : IsActivity(p[j]) => p[j].start \in Nat
    BY <1>0, ElementOfSeq, ElementKinds
  <2>2. \A j \in i..Len(p) : ~(IsActivity(p[j]) /\ p[j].start <= minute)
    BY <1>0, <2>1
  <2>3. 1..Len(p) = (1..(i - 1)) \cup (i..Len(p))
    BY <1>0
  <2> QED BY <2>2, <2>3, Zenon
<1>2. bq = common
  <2>1. \A j \in i..Len(q) : IsActivity(q[j]) => q[j].start \in Nat
    BY <1>0, ElementOfSeq, ElementKinds
  <2>2. \A j \in i..Len(q) : ~(IsActivity(q[j]) /\ q[j].start <= minute)
    BY <1>0, <2>1
  <2>3. 1..Len(q) = (1..(i - 1)) \cup (i..Len(q))
    BY <1>0
  <2>4. bq = {0} \cup {j \in 1..(i - 1) : IsActivity(q[j]) /\ q[j].start <= minute}
    BY <2>2, <2>3, Zenon
  <2>5. \A j \in 1..(i - 1) : q[j] = p[j]
    OBVIOUS
  <2> QED BY <2>4, <2>5, Zenon
<1>3. k \in Nat /\ k <= i - 1
  <2>1. i - 1 \in Nat /\ common \in SUBSET Nat /\ common # {} /\ \A j \in common : j <= i - 1
    OBVIOUS
  <2> HIDE DEF common
  <2> QED BY <2>1, MaxOfNats
<1>4. Past(p) = SubSeq(p, 1, k) /\ Past(q) = SubSeq(q, 1, k)
  <2>1. Past(p) = SubSeq(p, 1, Max(bp)) /\ Past(q) = SubSeq(q, 1, Max(bq))
    BY DEF Past
  <2> HIDE DEF bp, bq, common
  <2> QED BY <1>1, <1>2, <2>1
<1> HIDE DEF k
<1>5. SubSeq(p, 1, k) = SubSeq(q, 1, k)
  <2>1. \A j \in 1..k : p[j] \in Elements /\ q[j] \in Elements /\ p[j] = q[j]
    BY <1>0, <1>3, ElementOfSeq
  <2>2. \A s \in {p, q} : /\ SubSeq(s, 1, k) \in Seq(Elements)
                          /\ Len(SubSeq(s, 1, k)) = k
                          /\ \A j \in 1..k : SubSeq(s, 1, k)[j] = s[j]
    <3> SUFFICES ASSUME NEW s \in {p, q}
                 PROVE  /\ SubSeq(s, 1, k) \in Seq(Elements)
                        /\ Len(SubSeq(s, 1, k)) = k
                        /\ \A j \in 1..k : SubSeq(s, 1, k)[j] = s[j]
      OBVIOUS
    <3>1. \A j \in 1..k : s[j] \in Elements
      BY <2>1
    <3>2. /\ SubSeq(s, 1, k) \in Seq(Elements)
          /\ Len(SubSeq(s, 1, k)) = IF 1 <= k THEN k - 1 + 1 ELSE 0
          /\ \A j \in 1..(k - 1 + 1) : SubSeq(s, 1, k)[j] = s[1 + j - 1]
      BY <1>3, <3>1, SubSeqProperties
    <3> QED
      BY <1>3, <3>2
  <2> QED
    BY <2>1, <2>2, SeqEqual
<1> QED
  BY <1>4, <1>5

\* In an ordered plan what follows a future activity is in the future.
LEMMA FutureFollows ==
  ASSUME NEW p \in Seq(Elements), Ordered(p), NEW m \in Minutes,
         NEW i \in 1..Len(p), IsActivity(p[i]), p[i].start > m,
         NEW j \in i..Len(p), IsActivity(p[j])
  PROVE  p[j].start > m
<1>1. Len(p) \in Nat /\ m \in Nat /\ j \in 1..Len(p)
  BY LenProperties, PlansAssumption DEF Minutes
<1>2. /\ p[i].start \in Nat /\ p[i].end \in Nat /\ p[i].start <= p[i].end /\ p[j].start \in Nat
  BY <1>1, ElementOfSeq, ElementKinds
<1>3. i # j => p[i].end <= p[j].start
  BY <1>1 DEF Ordered
<1> QED
  BY <1>1, <1>2, <1>3

LEMMA DeferKeeps ==
  ASSUME NEW p, PlanInv(p), minute \in Minutes, NEW d \in Nat
  PROVE  PlanInv(Defer(p, minute, d)) /\ Past(Defer(p, minute, d)) = Past(p)
<1> DEFINE q == Defer(p, minute, d)
<1> SUFFICES ASSUME q # p PROVE PlanInv(q) /\ Past(q) = Past(p)
  OBVIOUS
<1>1. PICK i \in 1..Len(p), a \in Nat :
        /\ p[i] \in Activities /\ p[i].start > minute /\ p[i].id # HomeId
        /\ q = [p EXCEPT ![i] = Later(p[i], a)]
        /\ p[i].end + a <= LastMinute
        /\ \A j \in (i + 1)..Len(p) : IsActivity(p[j]) => p[i].end + a <= p[j].start
  BY DeferEffect
<1> HIDE DEF q
<1>2. p \in Seq(Elements) /\ Len(p) \in Nat /\ minute \in Nat /\ LastMinute \in Nat
  BY LenProperties, PlansAssumption DEF PlanInv, Minutes
<1> DEFINE e == Later(p[i], a)
<1>3. /\ e \in Activities /\ e.id = p[i].id /\ e.start = p[i].start + a /\ e.end = p[i].end + a
      /\ e.start > minute
  <2>1. /\ p[i].start \in Nat /\ p[i].end \in Nat /\ p[i].start <= p[i].end
        /\ p[i].id \in Ids /\ p[i] = [kind |-> "activity", id |-> p[i].id,
                                     start |-> p[i].start, end |-> p[i].end]
    BY <1>1, PlansAssumption DEF Activities, Minutes
  <2>3. e = [kind |-> "activity", id |-> p[i].id, start |-> p[i].start + a, end |-> p[i].end + a]
    BY <2>1 DEF Later
  <2>4. p[i].start + a \in Minutes /\ p[i].end + a \in Minutes /\ p[i].start + a <= p[i].end + a
    BY <1>1, <1>2, <2>1 DEF Minutes
  <2>5. p[i].start + a > minute
    BY <1>1, <1>2, <2>1
  <2> QED
    BY <2>1, <2>3, <2>4, <2>5 DEF Activities
<1> HIDE DEF e
<1>4. q = [p EXCEPT ![i] = e]
  BY <1>1 DEF e
<1>5. /\ q \in Seq(Elements) /\ Len(q) = Len(p)
      /\ \A j \in 1..Len(p) : q[j] = IF j = i THEN e ELSE p[j]
  BY <1>2, <1>3, <1>4, ExceptSeq DEF Elements
<1>6. IsActivity(e) /\ IsActivity(p[i])
  BY <1>1, <1>3, ElementKinds
<1>7. \A j \in 1..Len(p) : IsActivity(q[j]) <=> IsActivity(p[j])
  BY <1>5, <1>6
<1>8. Alternating(q) \/ Rewritten(q)
  <2>1. CASE Alternating(p)
    BY <1>5, <1>7, <2>1 DEF Alternating
  <2>2. CASE Rewritten(p)
    <3>1. i # Len(p)
      BY <1>1, <2>2 DEF Rewritten
    <3> QED
      BY <1>2, <1>5, <1>7, <2>2, <3>1 DEF Rewritten
  <2> QED
    BY <2>1, <2>2 DEF PlanInv
<1>9. Ordered(q)
  <2>1. \A j \in 1..Len(q) : IsActivity(q[j]) => q[j] \in Activities
    BY <1>3, <1>5 DEF PlanInv, Ordered
  <2>2. ASSUME NEW j \in 1..Len(q), NEW k \in 1..Len(q), j < k, IsActivity(q[j]), IsActivity(q[k])
        PROVE  q[j].end <= q[k].start
    <3>1. IsActivity(p[j]) /\ IsActivity(p[k]) /\ p[j].end <= p[k].start
      BY <1>5, <1>7, <2>2 DEF PlanInv, Ordered
    <3>2. CASE j = i
      BY <1>1, <1>2, <1>3, <1>5, <2>2, <3>1, <3>2
    <3>3. CASE k = i
      <4>1. p[j].end \in Nat /\ p[i].start \in Nat
        BY <1>2, <1>5, <2>2, <3>1, <1>6, ElementOfSeq, ElementKinds
      <4> QED
        BY <1>3, <1>5, <2>2, <3>1, <3>3, <4>1
    <3>4. CASE j # i /\ k # i
      BY <1>5, <2>2, <3>1, <3>4
    <3> QED BY <3>2, <3>3, <3>4
  <2> QED BY <2>1, <2>2 DEF Ordered
<1>10. HomeStays(q)
  <2>1. PICK j \in 1..Len(p) : IsActivity(p[j]) /\ p[j].id = HomeId
    BY DEF PlanInv, HomeStays
  <2>2. j # i
    BY <1>1, <2>1
  <2> QED
    BY <1>5, <2>1, <2>2 DEF HomeStays
<1>11. Past(q) = Past(p)
  <2>1. \A j \in i..Len(p) : IsActivity(p[j]) => p[j].start > minute
    BY <1>1, <1>2, <1>6, FutureFollows DEF PlanInv
  <2>2. \A j \in i..Len(q) : IsActivity(q[j]) => q[j].start > minute
    BY <1>2, <1>3, <1>5, <2>1
  <2>3. i \in Nat \ {0} /\ i - 1 <= Len(p) /\ i - 1 <= Len(q) /\ \A j \in 1..(i - 1) : q[j] = p[j]
    BY <1>2, <1>5
  <2> QED
    BY <1>2, <1>5, <2>1, <2>2, <2>3, PastsAgree
<1>12. q \in Seq(Elements)
  BY <1>5
<1> QED
  BY <1>5, <1>8, <1>9, <1>10, <1>11 DEF PlanInv
\* The elements from a to b.
LEMMA Piece ==
  ASSUME NEW p \in Seq(Elements), NEW a \in Nat \ {0}, NEW b \in 0..Len(p), a <= b + 1
  PROVE  /\ SubSeq(p, a, b) \in Seq(Elements)
         /\ Len(SubSeq(p, a, b)) = b + 1 - a
         /\ \A j \in 1..(b + 1 - a) : SubSeq(p, a, b)[j] = p[a + j - 1]
<1>1. Len(p) \in Nat /\ b \in Nat /\ \A j \in a..b : j \in 1..Len(p) /\ p[j] \in Elements
  BY LenProperties, ElementOfSeq
<1>2. /\ SubSeq(p, a, b) \in Seq(Elements)
      /\ Len(SubSeq(p, a, b)) = IF a <= b THEN b - a + 1 ELSE 0
      /\ \A j \in 1..(b - a + 1) : SubSeq(p, a, b)[j] = p[a + j - 1]
  BY <1>1, SubSeqProperties
<1> QED
  BY <1>1, <1>2

LEMMA ThreePieces ==
  ASSUME NEW x \in Seq(Elements), NEW y \in Seq(Elements), NEW z \in Seq(Elements),
         NEW s, s = x \o y \o z
  PROVE  /\ s \in Seq(Elements) /\ Len(s) = Len(x) + Len(y) + Len(z)
         /\ \A j \in 1..Len(x) : s[j] = x[j]
         /\ \A j \in 1..Len(y) : s[Len(x) + j] = y[j]
         /\ \A j \in 1..Len(z) : s[Len(x) + Len(y) + j] = z[j]
<1> DEFINE w == x \o y
<1>0. Len(x) \in Nat /\ Len(y) \in Nat /\ Len(z) \in Nat
  BY LenProperties
<1>1. /\ w \in Seq(Elements) /\ Len(w) = Len(x) + Len(y)
      /\ \A j \in 1..(Len(x) + Len(y)) : w[j] = IF j <= Len(x) THEN x[j] ELSE y[j - Len(x)]
  BY ConcatProperties
<1> HIDE DEF w
<1>2. /\ w \o z \in Seq(Elements) /\ Len(w \o z) = Len(w) + Len(z)
      /\ \A j \in 1..(Len(w) + Len(z)) : (w \o z)[j] = IF j <= Len(w) THEN w[j] ELSE z[j - Len(w)]
  BY <1>1, ConcatProperties
<1>3. s = w \o z
  BY DEF w
<1> QED
  BY <1>0, <1>1, <1>2, <1>3

\* To remove an activity from a plan of activities and legs in turn removes one leg with it.
LEMMA WithoutOne ==
  ASSUME NEW p \in Seq(Elements), Alternating(p), Len(p) > 1,
         NEW i \in 1..Len(p), IsActivity(p[i])
  PROVE  /\ Without(p, i) \in Seq(Elements) /\ Len(Without(p, i)) = Len(p) - 2
         /\ \A k \in 1..(Len(p) - 2) : Without(p, i)[k] = IF k < i THEN p[k] ELSE p[k + 2]
<1> DEFINE n == Len(p)
           first == IF i > 1 /\ ~IsActivity(p[i - 1]) THEN i - 1 ELSE i
           last == IF i < Len(p) /\ ~IsActivity(p[i + 1]) THEN i + 1 ELSE i
           joins == /\ i > 2 /\ IsActivity(p[i - 2])
                    /\ i + 2 <= Len(p) /\ IsActivity(p[i + 2])
           x == SubSeq(p, 1, first - 1)
           y == IF joins THEN <<Travel>> ELSE <<>>
           z == SubSeq(p, last + 1, Len(p))
           q == Without(p, i)
<1>0. n \in Nat /\ n % 2 = 1 /\ i % 2 = 1 /\ n > 1
  BY LenProperties DEF Alternating
<1>1. i > 1 => i - 1 \in 1..n /\ i - 2 \in 1..n /\ (i - 1) % 2 = 0 /\ (i - 2) % 2 = 1 /\ i > 2
  BY <1>0
<1>2. i < n => i + 1 \in 1..n /\ i + 2 \in 1..n /\ (i + 1) % 2 = 0 /\ (i + 2) % 2 = 1
  BY <1>0
<1>3. i > 1 => ~IsActivity(p[i - 1]) /\ IsActivity(p[i - 2])
  BY <1>1 DEF Alternating
<1>4. i < n => ~IsActivity(p[i + 1]) /\ IsActivity(p[i + 2])
  BY <1>2 DEF Alternating
<1>5. /\ first = IF i > 1 THEN i - 1 ELSE i
      /\ last = IF i < n THEN i + 1 ELSE i
      /\ joins <=> i > 1 /\ i < n
  BY <1>0, <1>1, <1>2, <1>3, <1>4
<1>6. q = x \o y \o z
  BY DEF Without
<1> HIDE DEF q, first, last, joins, n
<1>7. /\ x \in Seq(Elements) /\ Len(x) = first - 1
      /\ \A j \in 1..(first - 1) : x[j] = p[j]
  <2>1. first - 1 \in 0..Len(p) /\ 1 \in Nat \ {0} /\ 1 <= (first - 1) + 1
    BY <1>0, <1>5 DEF n
  <2>2. /\ x \in Seq(Elements) /\ Len(x) = (first - 1) + 1 - 1
        /\ \A j \in 1..((first - 1) + 1 - 1) : x[j] = p[1 + j - 1]
    BY <2>1, Piece
  <2> QED BY <2>1, <2>2
<1>8. /\ y \in Seq(Elements) /\ Len(y) = (IF i > 1 /\ i < n THEN 1 ELSE 0)
      /\ i > 1 /\ i < n => y[1] = Travel
  <2>1. CASE i > 1 /\ i < n
    <3>1. y = <<Travel>>
      BY <1>5, <2>1
    <3>2. <<Travel>> \in Seq(Elements) /\ Len(<<Travel>>) = 1 /\ <<Travel>>[1] = Travel
      BY DEF Elements
    <3> HIDE DEF y
    <3> QED BY <2>1, <3>1, <3>2
  <2>2. CASE ~(i > 1 /\ i < n)
    <3>1. y = <<>>
      BY <1>5, <2>2
    <3> HIDE DEF y
    <3> QED BY <2>2, <3>1, EmptySeq
  <2> QED BY <2>1, <2>2
<1>9. /\ z \in Seq(Elements) /\ Len(z) = n - last
      /\ \A j \in 1..(n - last) : z[j] = p[last + j]
  <2>1. last + 1 \in Nat \ {0} /\ Len(p) \in 0..Len(p) /\ last + 1 <= Len(p) + 1 /\ last \in Nat
    BY <1>0, <1>5 DEF n
  <2>2. /\ z \in Seq(Elements) /\ Len(z) = Len(p) + 1 - (last + 1)
        /\ \A j \in 1..(Len(p) + 1 - (last + 1)) : z[j] = p[(last + 1) + j - 1]
    BY <2>1, Piece
  <2> QED BY <2>1, <2>2, <1>0 DEF n
<1> HIDE DEF x, y, z
<1>10. /\ q \in Seq(Elements) /\ Len(q) = Len(x) + Len(y) + Len(z)
       /\ \A j \in 1..Len(x) : q[j] = x[j]
       /\ \A j \in 1..Len(y) : q[Len(x) + j] = y[j]
       /\ \A j \in 1..Len(z) : q[Len(x) + Len(y) + j] = z[j]
  <2>1. x \in Seq(Elements) /\ y \in Seq(Elements) /\ z \in Seq(Elements)
    BY <1>7, <1>8, <1>9
  <2> QED BY <1>6, <2>1, ThreePieces
<1>11. Len(q) = n - 2
       /\ Len(x) + Len(y) = (IF i > 1 THEN IF i < n THEN i - 1 ELSE i - 2 ELSE 0)
       /\ Len(z) = (IF i < n THEN n - i - 1 ELSE 0)
       /\ last = (IF i < n THEN i + 1 ELSE i)
  <2>1. i \in 1..n
    BY DEF n
  <2>2. first = (IF i > 1 THEN i - 1 ELSE i) /\ last = (IF i < n THEN i + 1 ELSE i)
    BY <1>5
  <2>3. Len(x) = (IF i > 1 THEN i - 2 ELSE 0) /\ Len(z) = (IF i < n THEN n - i - 1 ELSE 0)
    BY <1>0, <1>7, <1>9, <2>1, <2>2
  <2>4. i > 1 => i >= 3
    BY <1>1, <2>1
  <2>5. Len(q) = Len(x) + Len(y) + Len(z) /\ Len(y) = (IF i > 1 /\ i < n THEN 1 ELSE 0)
    BY <1>8, <1>10
  <2> QED BY <1>0, <2>1, <2>2, <2>3, <2>4, <2>5
<1>12. ASSUME NEW k \in 1..(n - 2) PROVE q[k] = IF k < i THEN p[k] ELSE p[k + 2]
  <2>1. CASE k <= first - 1
    <3>1. k \in 1..Len(x) /\ k < i
      BY <1>0, <1>5, <1>7, <2>1 DEF n
    <3> QED BY <1>7, <1>10, <3>1
  <2>2. CASE k = first /\ i > 1 /\ i < n
    <3>1. Len(x) + 1 = k /\ 1 \in 1..Len(y) /\ k < i /\ k = i - 1
      BY <1>0, <1>5, <1>7, <1>8, <2>2 DEF n
    <3>2. q[k] = Travel
      BY <1>8, <1>10, <2>2, <3>1
    <3>3. p[k] = Travel
      <4>1. p[i - 1] \in Elements
        BY <1>0, <1>1, <2>2, <1>5, ElementOfSeq DEF n
      <4> QED BY <1>3, <1>5, <2>2, <3>1, <4>1, ElementKinds
    <3> QED BY <3>1, <3>2, <3>3
  <2>3. CASE ~(k <= first - 1) /\ ~(k = first /\ i > 1 /\ i < n)
    <3> DEFINE j == k - (Len(x) + Len(y))
    <3>1. j \in 1..Len(z) /\ Len(x) + Len(y) + j = k /\ ~(k < i) /\ last + j = k + 2
      <4>1. first = (IF i > 1 THEN i - 1 ELSE i) /\ i \in 1..n
        BY <1>5 DEF n
      <4> QED BY <1>0, <1>11, <2>3, <4>1
    <3> HIDE DEF j
    <3>2. q[k] = z[j] /\ z[j] = p[last + j]
      BY <1>9, <1>10, <3>1
    <3> QED BY <3>1, <3>2
  <2> QED BY <2>1, <2>2, <2>3
<1> QED
  BY <1>10, <1>11, <1>12 DEF q, n

\* To remove home is never asked for, so only the first of two activities can go.
LEMMA WithoutFirst ==
  ASSUME NEW p \in Seq(Elements), Len(p) = 2, IsActivity(p[1]), IsActivity(p[2])
  PROVE  /\ Without(p, 1) \in Seq(Elements) /\ Len(Without(p, 1)) = 1
         /\ Without(p, 1)[1] = p[2]
<1>1. Without(p, 1) = SubSeq(p, 1, 0) \o <<>> \o SubSeq(p, 2, 2)
  <2>1. /\ ~(1 > 1 /\ ~IsActivity(p[1 - 1])) /\ ~(1 < Len(p) /\ ~IsActivity(p[1 + 1]))
        /\ ~(1 > 2 /\ IsActivity(p[1 - 2]) /\ 1 + 2 <= Len(p) /\ IsActivity(p[1 + 2]))
    OBVIOUS
  <2>2. 1 - 1 = 0 /\ 1 + 1 = 2
    OBVIOUS
  <2>3. Without(p, 1) = SubSeq(p, 1, 1 - 1) \o <<>> \o SubSeq(p, 1 + 1, Len(p))
    BY <2>1, Zenon DEF Without
  <2> QED BY <2>2, <2>3
<1>2. SubSeq(p, 1, 0) \in Seq(Elements) /\ Len(SubSeq(p, 1, 0)) = 0
  <2>1. 0 \in 0..Len(p) /\ 1 \in Nat \ {0} /\ 1 <= 0 + 1 /\ 0 + 1 - 1 = 0
    OBVIOUS
  <2> QED BY <2>1, Piece
<1>3. /\ SubSeq(p, 2, 2) \in Seq(Elements) /\ Len(SubSeq(p, 2, 2)) = 1
      /\ SubSeq(p, 2, 2)[1] = p[2]
  <2>1. PICK a \in Nat : a = 2
    OBVIOUS
  <2>2. a \in 0..Len(p) /\ a \in Nat \ {0} /\ a <= a + 1
    BY <2>1
  <2>3. /\ SubSeq(p, a, a) \in Seq(Elements) /\ Len(SubSeq(p, a, a)) = a + 1 - a
        /\ \A j \in 1..(a + 1 - a) : SubSeq(p, a, a)[j] = p[a + j - 1]
    BY <2>2, Piece
  <2>4. 1 \in 1..(a + 1 - a) /\ a + 1 - a = 1 /\ a + 1 - 1 = a
    BY <2>1
  <2> QED BY <2>1, <2>3, <2>4
<1>4. <<>> \in Seq(Elements) /\ Len(<<>>) = 0
  BY EmptySeq
<1> DEFINE x == SubSeq(p, 1, 0)
           y == <<>>
           z == SubSeq(p, 2, 2)
           q == Without(p, 1)
<1> HIDE DEF x, y, z, q
<1>5. /\ q \in Seq(Elements) /\ Len(q) = Len(x) + Len(y) + Len(z)
      /\ \A j \in 1..Len(z) : q[Len(x) + Len(y) + j] = z[j]
  <2>1. x \in Seq(Elements) /\ y \in Seq(Elements) /\ z \in Seq(Elements) /\ q = x \o y \o z
    BY <1>1, <1>2, <1>3, <1>4 DEF x, y, z, q
  <2> QED BY <2>1, ThreePieces
<1>6. Len(x) = 0 /\ Len(y) = 0 /\ Len(z) = 1 /\ z[1] = p[2]
  BY <1>2, <1>3, <1>4 DEF x, y, z
<1>7. Len(q) = 1 /\ q[1] = p[2] /\ q \in Seq(Elements)
  BY <1>5, <1>6
<1> QED BY <1>7 DEF q

\* In both forms of a plan what comes after the removed activity moves up by d.
LEMMA WithoutShifts ==
  ASSUME NEW p, PlanInv(p), NEW i \in 1..Len(p), p[i] \in Activities, p[i].id # HomeId
  PROVE  \E d \in {1, 2} :
           /\ d < Len(p)
           /\ Without(p, i) \in Seq(Elements) /\ Len(Without(p, i)) = Len(p) - d
           /\ \A k \in 1..(Len(p) - d) : Without(p, i)[k] = IF k < i THEN p[k] ELSE p[k + d]
           /\ Alternating(p) => d = 2
           /\ Rewritten(p) /\ ~Alternating(p) => d = 1 /\ i = 1 /\ Len(p) = 2
<1>0. p \in Seq(Elements) /\ Len(p) \in Nat /\ IsActivity(p[i])
  BY LenProperties, ElementKinds DEF PlanInv
<1>1. CASE Alternating(p)
  <2>1. Len(p) > 1
    BY <1>0 DEF PlanInv, HomeStays
  <2>2. /\ Without(p, i) \in Seq(Elements) /\ Len(Without(p, i)) = Len(p) - 2
        /\ \A k \in 1..(Len(p) - 2) : Without(p, i)[k] = IF k < i THEN p[k] ELSE p[k + 2]
    BY <1>0, <1>1, <2>1, WithoutOne
  <2>3. 2 < Len(p)
    BY <1>0, <1>1, <2>1 DEF Alternating
  <2> QED BY <1>1, <2>2, <2>3
<1>2. CASE Rewritten(p) /\ ~Alternating(p)
  <2>1. Len(p) = 2 /\ i = 1 /\ IsActivity(p[1]) /\ IsActivity(p[2])
    <3>1. i # Len(p) /\ Len(p) \in {1, 2}
      BY <1>2 DEF Rewritten
    <3>2. Len(p) = 2 /\ i = 1
      <4>1. i \in Nat /\ 1 <= i /\ i <= Len(p)
        BY <1>0
      <4> DEFINE n == Len(p)
      <4>2. n \in {1, 2} /\ n # i /\ i \in Nat /\ 1 <= i /\ i <= n
        BY <3>1, <4>1
      <4> HIDE DEF n
      <4>3. n = 2 /\ i = 1
        BY <4>2
      <4> QED BY <4>3 DEF n
    <3>3. 1 \in 1..Len(p) /\ 2 \in 1..Len(p)
      BY <3>2
    <3>4. \A j \in 1..Len(p) : IsActivity(p[j])
      BY <1>2 DEF Rewritten
    <3> QED BY <3>2, <3>3, <3>4
  <2>2. /\ Without(p, i) \in Seq(Elements) /\ Len(Without(p, i)) = 1 /\ Without(p, i)[1] = p[2]
    BY <1>0, <2>1, WithoutFirst
  <2>3. \A k \in 1..(Len(p) - 1) : Without(p, i)[k] = IF k < i THEN p[k] ELSE p[k + 1]
    BY <2>1, <2>2
  <2>4. 1 \in {1, 2} /\ 1 < Len(p) /\ Len(Without(p, i)) = Len(p) - 1
    BY <2>1, <2>2
  <2> QED BY <1>2, <2>1, <2>2, <2>3, <2>4, Zenon
<1> QED BY <1>1, <1>2 DEF PlanInv

LEMMA WithoutKeeps ==
  ASSUME NEW p, PlanInv(p), minute \in Minutes, NEW i \in 1..Len(p),
         p[i] \in Activities, p[i].start > minute, p[i].id # HomeId
  PROVE  /\ PlanInv(Without(p, i)) /\ Past(Without(p, i)) = Past(p)
         /\ Len(Without(p, i)) < Len(p)
<1> DEFINE q == Without(p, i)
           n == Len(p)
<1>0. p \in Seq(Elements) /\ n \in Nat /\ minute \in Nat /\ IsActivity(p[i])
  BY LenProperties, PlansAssumption, ElementKinds DEF PlanInv, Minutes
<1>1. PICK d \in {1, 2} :
        /\ d < n
        /\ q \in Seq(Elements) /\ Len(q) = n - d
        /\ \A k \in 1..(n - d) : q[k] = IF k < i THEN p[k] ELSE p[k + d]
        /\ Alternating(p) => d = 2
        /\ Rewritten(p) /\ ~Alternating(p) => d = 1 /\ i = 1 /\ n = 2
  BY WithoutShifts, Zenon
<1> HIDE DEF q, n
<1>2. i \in 1..n
  BY DEF n
<1> DEFINE g(k) == IF k < i THEN k ELSE k + d
<1>3. \A k \in 1..(n - d) : g(k) \in 1..n /\ g(k) # i /\ q[k] = p[g(k)]
  BY <1>0, <1>1, <1>2
<1>4. \A j, k \in 1..(n - d) : j < k => g(j) < g(k)
  BY <1>0, <1>1, <1>2
<1>5. \A j \in 1..n : IsActivity(p[j]) /\ j # i => \E k \in 1..(n - d) : g(k) = j
  <2> SUFFICES ASSUME NEW j \in 1..n, IsActivity(p[j]), j # i
               PROVE  \E k \in 1..(n - d) : g(k) = j
    OBVIOUS
  <2>1. CASE Alternating(p)
    <3>1. d = 2 /\ j % 2 = 1 /\ i % 2 = 1 /\ n % 2 = 1
      BY <1>0, <1>1, <1>2, <2>1 DEF Alternating, n
    <3>2. CASE j < i
      <4>1. j \in 1..(n - d)
        BY <1>0, <1>2, <3>1, <3>2
      <4> QED BY <3>2, <4>1
    <3>3. CASE j > i
      <4>1. j - 2 \in 1..(n - d) /\ ~(j - 2 < i) /\ (j - 2) + d = j
        BY <1>0, <1>2, <3>1, <3>3
      <4> QED BY <4>1
    <3> QED BY <1>2, <3>2, <3>3
  <2>2. CASE Rewritten(p) /\ ~Alternating(p)
    <3>1. d = 1 /\ i = 1 /\ n = 2 /\ j = 2
      BY <1>1, <2>2
    <3>2. 1 \in 1..(n - d) /\ g(1) = j
      BY <3>1
    <3> QED BY <3>2
  <2> QED BY <2>1, <2>2 DEF PlanInv
<1>6. Alternating(q) \/ Rewritten(q)
  <2>1. CASE Alternating(p)
    <3>1. d = 2 /\ n % 2 = 1 /\ Len(q) % 2 = 1 /\ Len(q) = n - 2
      BY <1>0, <1>1, <2>1 DEF Alternating, n
    <3>2. \A k \in 1..(n - 2) : IsActivity(q[k]) <=> g(k) % 2 = 1
      BY <1>3, <2>1, <3>1 DEF Alternating, n
    <3>3. \A k \in 1..(n - 2) : g(k) % 2 = k % 2
      BY <1>0, <3>1
    <3> HIDE DEF g
    <3> QED BY <3>1, <3>2, <3>3 DEF Alternating
  <2>2. CASE Rewritten(p) /\ ~Alternating(p)
    <3>1. d = 1 /\ i = 1 /\ n = 2 /\ Len(q) = 1 /\ q[1] = p[2]
      BY <1>1, <2>2
    <3>2. IsActivity(p[2]) /\ p[2].id = HomeId /\ p[2].end = LastMinute
      BY <2>2, <3>1 DEF Rewritten, n
    <3> QED BY <3>1, <3>2 DEF Rewritten
  <2> QED BY <2>1, <2>2 DEF PlanInv
<1>7. Ordered(q)
  <2>1. ASSUME NEW k \in 1..Len(q), IsActivity(q[k]) PROVE q[k] \in Activities
    BY <1>1, <2>1, ElementOfSeq, ElementKinds
  <2>2. ASSUME NEW j \in 1..Len(q), NEW k \in 1..Len(q), j < k, IsActivity(q[j]), IsActivity(q[k])
        PROVE  q[j].end <= q[k].start
    <3>1. g(j) \in 1..n /\ g(k) \in 1..n /\ g(j) < g(k) /\ q[j] = p[g(j)] /\ q[k] = p[g(k)]
      BY <1>1, <1>3, <1>4, <2>2
    <3> HIDE DEF g
    <3> QED BY <2>2, <3>1 DEF PlanInv, Ordered, n
  <2> QED BY <2>1, <2>2 DEF Ordered
<1>8. HomeStays(q)
  <2>1. PICK j \in 1..n : IsActivity(p[j]) /\ p[j].id = HomeId
    BY DEF PlanInv, HomeStays, n
  <2>2. PICK k \in 1..(n - d) : g(k) = j
    BY <1>5, <2>1
  <2>3. q[k] = p[j]
    BY <1>3, <2>2
  <2> HIDE DEF g
  <2> QED BY <1>1, <2>1, <2>3 DEF HomeStays
<1>9. Past(q) = Past(p)
  <2> DEFINE t == IF i <= n - d THEN i ELSE n - d + 1
  <2>1. t \in Nat \ {0} /\ t - 1 <= Len(p) /\ t - 1 <= Len(q) /\ t <= i
    BY <1>0, <1>1, <1>2 DEF n
  <2>2. \A k \in 1..(t - 1) : q[k] = p[k]
    BY <1>0, <1>1, <1>2
  <2>3. \A j \in i..n : IsActivity(p[j]) => p[j].start > minute
    BY <1>0, <1>2, FutureFollows DEF PlanInv, n
  <2>4. \A j \in t..Len(p) : IsActivity(p[j]) => p[j].start > minute
    <3> SUFFICES ASSUME NEW j \in t..n, IsActivity(p[j]) PROVE p[j].start > minute
      BY DEF n
    <3>1. CASE j \in i..n
      BY <2>3, <3>1
    <3>2. CASE j \notin i..n
      <4>1. j \in 1..n /\ j < i /\ ~(i <= n - d) /\ j >= n - d + 1
        BY <1>0, <1>1, <1>2, <2>1, <3>2
      <4>2. PICK k \in 1..(n - d) : g(k) = j
        BY <1>5, <4>1
      <4>3. k < i /\ k = j
        BY <1>0, <1>1, <1>2, <4>1, <4>2
      <4> QED BY <1>0, <1>1, <4>1, <4>3
    <3> QED BY <3>1, <3>2
  <2>5. \A k \in t..Len(q) : IsActivity(q[k]) => q[k].start > minute
    <3> SUFFICES ASSUME NEW k \in t..(n - d), IsActivity(q[k]) PROVE q[k].start > minute
      BY <1>1
    <3>1. k \in 1..(n - d) /\ ~(k < i)
      BY <1>0, <1>1, <1>2, <2>1
    <3>2. g(k) \in i..n /\ q[k] = p[g(k)]
      BY <1>0, <1>1, <1>2, <1>3, <3>1
    <3> HIDE DEF g
    <3> QED BY <2>3, <3>2
  <2> HIDE DEF t, g
  <2> QED BY <1>0, <1>1, <2>1, <2>2, <2>4, <2>5, PastsAgree
<1>10. Len(q) < Len(p)
  BY <1>0, <1>1 DEF n
<1> QED
  BY <1>1, <1>6, <1>7, <1>8, <1>9, <1>10 DEF PlanInv, q

\* To skip or to cancel keeps the plan, and shortens it if there is something to skip.
LEMMA SkipKeeps ==
  ASSUME NEW p, PlanInv(p), minute \in Minutes, NEW ids \in {Flexible, Social},
         NEW i, i = FirstFuture(p, minute, ids),
         NEW q, q = IF i = 0 THEN p ELSE Without(p, i)
  PROVE  /\ PlanInv(q) /\ Past(q) = Past(p)
         /\ i # 0 => Len(q) < Len(p)
<1>1. HomeId \notin ids
  BY DailyLifeAssumption DEF Flexible, Social
<1>2. CASE i = 0
  BY <1>2
<1>3. CASE i # 0
  <2>1. i \in 1..Len(p) /\ IsActivity(p[i]) /\ p[i].start > minute /\ p[i].id # HomeId
    BY <1>1, <1>3, FirstFutureIsFuture DEF PlanInv
  <2>2. p[i] \in Activities
    BY <2>1, ElementOfSeq, ElementKinds DEF PlanInv
  <2> QED BY <1>3, <2>1, <2>2, WithoutKeeps
<1> QED BY <1>2, <1>3

HomeFrom(m) == [kind |-> "activity", id |-> HomeId, start |-> m, end |-> LastMinute]

\* What is kept of a plan that is rewritten is at most one activity, which has ended.
LEMMA PreserveHomeIs ==
  ASSUME NEW p, PlanInv(p), NEW m \in Minutes
  PROVE  LET q == PreserveHome(p, m) IN
         /\ q \in Seq(Elements) /\ Len(q) \in {1, 2} /\ q[Len(q)] = HomeFrom(m)
         /\ Len(q) = 2 => q[1] \in Activities /\ q[1].end < m
<1> DEFINE stops == {i \in 1..Len(p) : ~(IsActivity(p[i]) /\ p[i].end < m)}
           stop == IF stops # {} THEN Min(stops) ELSE 0
           kept == IF stop = 0 THEN p ELSE SubSeq(p, 1, stop - 1)
           q == PreserveHome(p, m)
<1>0. p \in Seq(Elements) /\ Len(p) \in Nat /\ m \in Nat /\ LastMinute \in Nat /\ m <= LastMinute
  BY LenProperties, PlansAssumption DEF PlanInv, Minutes
<1>1. q = Append(kept, HomeFrom(m))
  BY DEF PreserveHome, SelectInSeq, HomeFrom
<1>2. HomeFrom(m) \in Elements
  BY <1>0, PlansAssumption DEF HomeFrom, Elements, Activities, Minutes
<1>3. stops \in SUBSET Nat /\ stops \subseteq 1..Len(p)
  BY <1>0
<1>4. stop = 0 => stops = {}
  BY <1>3, MinOfNats
<1>5. stop # 0 => stop \in stops /\ \A i \in stops : stop <= i
  BY <1>3, MinOfNats
<1>6. \A i \in 1..Len(p) : stop = 0 \/ i < stop => IsActivity(p[i]) /\ p[i].end < m
  <2> SUFFICES ASSUME NEW i \in 1..Len(p), stop = 0 \/ i < stop PROVE i \notin stops
    OBVIOUS
  <2> HIDE DEF stops, stop
  <2>1. CASE stop = 0
    BY <1>4, <2>1
  <2>2. CASE stop # 0
    <3>1. i < stop /\ stop \in Nat /\ i \in Nat /\ \A j \in stops : stop <= j
      <4>1. stop \in stops /\ \A j \in stops : stop <= j
        BY <1>5, <2>2
      <4>2. stop \in Nat /\ i \in Nat
        BY <1>0, <1>3, <4>1
      <4> QED BY <2>2, <4>1, <4>2
    <3>2. ~(stop <= i)
      BY <3>1
    <3> QED BY <3>1, <3>2
  <2> QED BY <2>1, <2>2
<1>7. stop # 0 => stop \in 1..Len(p)
  BY <1>5
<1> HIDE DEF stop, stops
<1>8. kept \in Seq(Elements) /\ Len(kept) \in {0, 1} /\ (Len(kept) = 1 => kept[1] = p[1] /\ 1 \in 1..Len(p)
        /\ (stop = 0 \/ 1 < stop))
  <2>1. CASE stop = 0
    <3>1. \A i \in 1..Len(p) : IsActivity(p[i]) /\ p[i].end < m
      BY <1>6, <2>1
    <3>2. ~Rewritten(p)
      BY <1>0, <3>1 DEF Rewritten
    <3>3. Len(p) = 1
      <4>1. Alternating(p)
        BY <3>2 DEF PlanInv
      <4>2. 2 \notin 1..Len(p)
        BY <3>1, <4>1 DEF Alternating
      <4> DEFINE n == Len(p)
      <4>3. n \in Nat /\ n % 2 = 1 /\ 2 \notin 1..n
        BY <1>0, <4>1, <4>2 DEF Alternating
      <4> HIDE DEF n
      <4>4. n = 1
        BY <4>3
      <4> QED BY <4>4 DEF n
    <3> QED BY <1>0, <2>1, <3>3
  <2>2. CASE stop # 0
    <3>1. stop \in 1..Len(p)
      BY <1>7, <2>2
    <3>2. stop \in {1, 2}
      <4>1. CASE Alternating(p)
        <5> SUFFICES ASSUME stop > 2 PROVE FALSE
          BY <1>0, <3>1
        <5>1. 2 \in 1..Len(p) /\ 2 < stop
          BY <1>0, <3>1
        <5> QED BY <1>6, <4>1, <5>1 DEF Alternating
      <4>2. CASE Rewritten(p)
        <5> DEFINE n == Len(p)
        <5>1. n \in {1, 2} /\ stop \in 1..n
          BY <3>1, <4>2 DEF Rewritten
        <5> HIDE DEF n
        <5> QED BY <5>1
      <4> QED BY <4>1, <4>2 DEF PlanInv
    <3>3. /\ kept \in Seq(Elements) /\ Len(kept) = (stop - 1) + 1 - 1
          /\ \A j \in 1..((stop - 1) + 1 - 1) : kept[j] = p[1 + j - 1]
      <4>1. 1 \in Nat \ {0} /\ stop - 1 \in 0..Len(p) /\ 1 <= (stop - 1) + 1
        BY <1>0, <3>1
      <4>2. kept = SubSeq(p, 1, stop - 1)
        BY <2>2
      <4> HIDE DEF kept
      <4> QED BY <1>0, <4>1, <4>2, Piece
    <3> HIDE DEF kept
    <3>4. CASE stop = 1
      BY <3>3, <3>4
    <3>5. CASE stop = 2
      <4>1. Len(kept) = 1 /\ 1 \in 1..((stop - 1) + 1 - 1) /\ 1 + 1 - 1 = 1 /\ 1 \in 1..Len(p) /\ 1 < stop
        BY <1>0, <3>1, <3>3, <3>5
      <4>2. kept[1] = p[1]
        BY <3>3, <4>1
      <4> QED BY <3>3, <4>1, <4>2
    <3> QED BY <3>2, <3>4, <3>5
  <2> QED BY <2>1, <2>2
<1> HIDE DEF kept, q
<1>9. /\ q \in Seq(Elements) /\ Len(q) = Len(kept) + 1
      /\ \A i \in 1..Len(kept) : q[i] = kept[i]
      /\ q[Len(kept) + 1] = HomeFrom(m)
  BY <1>1, <1>2, <1>8, AppendProperties
<1>10. Len(kept) = 1 => q[1] \in Activities /\ q[1].end < m
  <2>1. Len(kept) = 1 => q[1] = p[1] /\ p[1] \in Elements /\ IsActivity(p[1]) /\ p[1].end < m
    BY <1>0, <1>6, <1>8, <1>9, ElementOfSeq
  <2> QED BY <2>1, ElementKinds
<1>11. /\ q \in Seq(Elements) /\ Len(q) \in {1, 2} /\ q[Len(q)] = HomeFrom(m)
       /\ Len(q) = 2 => q[1] \in Activities /\ q[1].end < m
  BY <1>8, <1>9, <1>10
<1> QED BY <1>11 DEF q

\* So the rewritten plan holds together, and its last element is the one that is active
\* for the rest of the day.
LEMMA PreserveHomeKeeps ==
  ASSUME NEW p, PlanInv(p), NEW m \in Minutes
  PROVE  /\ PlanInv(PreserveHome(p, m))
         /\ \A t \in m..LastMinute : MoveAt(PreserveHome(p, m), t, HomeId, Nowhere) = HomeId
<1> DEFINE q == PreserveHome(p, m)
<1>0. m \in Nat /\ LastMinute \in Nat /\ m <= LastMinute
  BY PlansAssumption DEF Minutes
<1>1. /\ q \in Seq(Elements) /\ Len(q) \in {1, 2} /\ q[Len(q)] = HomeFrom(m)
      /\ Len(q) = 2 => q[1] \in Activities /\ q[1].end < m
  BY PreserveHomeIs
<1> HIDE DEF q
<1>2. /\ HomeFrom(m) \in Activities /\ HomeFrom(m).id = HomeId
      /\ HomeFrom(m).start = m /\ HomeFrom(m).end = LastMinute
  BY <1>0, PlansAssumption DEF HomeFrom, Activities, Minutes
<1> DEFINE n == Len(q)
<1>3. n \in {1, 2} /\ n = Len(q)
  BY <1>1
<1> HIDE DEF n
<1>4. \A i \in 1..n : i = n \/ (i = 1 /\ n = 2)
  <2> SUFFICES ASSUME NEW i \in 1..n, i # n PROVE i = 1 /\ n = 2
    OBVIOUS
  <2>1. n = 1 \/ n = 2
    BY <1>3
  <2>2. i \in Nat /\ 1 <= i /\ i <= n
    BY <2>1
  <2> QED BY <2>1, <2>2
<1>5. \A i \in 1..n : q[i] \in Activities
  BY <1>1, <1>2, <1>3, <1>4
<1>6. PlanInv(q)
  <2>1. \A i \in 1..n : IsActivity(q[i])
    BY <1>5, ElementKinds
  <2>2. Rewritten(q)
    BY <1>1, <1>2, <1>3, <2>1 DEF Rewritten
  <2>3. Ordered(q)
    <3>1. ASSUME NEW i \in 1..n, NEW j \in 1..n, i < j PROVE q[i].end <= q[j].start
      <4>1. i = 1 /\ j = n /\ n = 2
        BY <1>3, <1>4, <3>1
      <4>2. q[1].end < m /\ q[1].end \in Nat /\ q[j].start = m
        BY <1>1, <1>2, <1>3, <4>1, ElementKinds
      <4> QED BY <1>0, <4>1, <4>2
    <3> QED BY <1>3, <1>5, <3>1 DEF Ordered
  <2>4. HomeStays(q)
    <3>1. n \in 1..n
      BY <1>3
    <3> QED BY <1>1, <1>2, <1>3, <2>1, <3>1 DEF HomeStays
  <2> QED BY <1>1, <2>2, <2>3, <2>4 DEF PlanInv
<1>7. ASSUME NEW t \in m..LastMinute PROVE MoveAt(q, t, HomeId, Nowhere) = HomeId
  <2> DEFINE k == PlanState(q, t).found
  <2>0. t \in Nat /\ t \in Minutes
    BY <1>0 DEF Minutes
  <2>1. /\ k # 0 => k \in 1..n /\ FallsIn(q, t, k)
        /\ \A i \in 1..n : FallsIn(q, t, i) => k # 0 /\ k <= i
    BY <1>1, <1>3, <2>0, PlanStateIsFirst
  <2>2. MoveAt(q, t, HomeId, Nowhere) = IF k = 0 THEN HomeId
          ELSE IF IsActivity(q[k]) THEN q[k].id
          ELSE IF HomeId = q[PlanState(q, t).previous].id THEN Nowhere ELSE HomeId
    BY DEF MoveAt
  <2> HIDE DEF k
  <2>3. CASE k = 0
    BY <2>2, <2>3
  <2>4. CASE k # 0
    <3>1. IsActivity(q[k]) /\ Includes(q[k], t)
      BY <1>5, <2>1, <2>4, ElementKinds DEF FallsIn
    <3>2. k = n
      <4> SUFFICES ASSUME k = 1, n = 2 PROVE FALSE
        BY <1>4, <2>1, <2>4
      <4>1. q[1].end < m /\ q[1].end \in Nat
        BY <1>1, <1>3, ElementKinds
      <4> QED BY <1>0, <2>0, <3>1, <4>1 DEF Includes
    <3> QED BY <1>1, <1>2, <1>3, <2>2, <2>4, <3>1, <3>2
  <2> QED BY <2>3, <2>4
<1> QED BY <1>6, <1>7 DEF q
-----------------------------------------------------------------------------
(* Folds.  The community modules define a fold by a function on the subsets of a   *)
(* set; these lemmas, by induction on their cardinality, say that there is one and *)
(* that its values are where its steps remain.                                     *)

LEMMA NatInduction1 ==
  ASSUME NEW G \in SUBSET Nat, 0 \in G, \A n \in Nat : n \in G => n + 1 \in G
  PROVE  G = Nat
<1> SUFFICES ASSUME Nat \ G # {} PROVE FALSE
  OBVIOUS
<1>1. PICK n \in Nat \ G : \A k \in Nat \ G : n <= k
  BY LeastNat
<1>2. n # 0 /\ n - 1 \in Nat /\ ~(n <= n - 1) /\ (n - 1) + 1 = n
  BY <1>1
<1>3. n - 1 \in G
  BY <1>1, <1>2
<1> QED BY <1>1, <1>2, <1>3

\* To take an element out of a subset of a finite set makes it smaller by one.
LEMMA OneLess ==
  ASSUME NEW S, IsFiniteSet(S), NEW s \in SUBSET S
  PROVE  /\ IsFiniteSet(s) /\ Cardinality(s) \in Nat /\ Cardinality(s) <= Cardinality(S)
         /\ Cardinality(s) = 0 <=> s = {}
         /\ \A x \in s : s \ {x} \in SUBSET S /\ Cardinality(s \ {x}) + 1 = Cardinality(s)
<1>1. IsFiniteSet(s) /\ Cardinality(s) \in Nat /\ Cardinality(s) <= Cardinality(S)
  BY FS_Subset, FS_CardinalityType
<1>2. Cardinality(s) = 0 <=> s = {}
  BY <1>1, FS_EmptySet
<1>3. ASSUME NEW x \in s PROVE s \ {x} \in SUBSET S /\ Cardinality(s \ {x}) + 1 = Cardinality(s)
  <2>1. Cardinality(s \ {x}) = Cardinality(s) - 1
    BY <1>1, FS_RemoveElement
  <2> QED BY <1>1, <2>1
<1> QED BY <1>1, <1>2, <1>3

\* A choice of an element of every subset, and steps from T to T for every element.
Picks(pick, S) == \A s \in SUBSET S : s # {} => pick[s] \in s
Steps(step, S, T) == \A x \in S : \A t \in T : step[x][t] \in T

\* f(s) is the fold of the subset s.
IsFold(f, S, T, base, pick, step) ==
  /\ f \in [SUBSET S -> T]
  /\ \A s \in SUBSET S : f[s] = IF s = {} THEN base ELSE step[pick[s]][f[s \ {pick[s]}]]

LEMMA FoldExists ==
  ASSUME NEW S, IsFiniteSet(S), NEW T, NEW base \in T, NEW pick, NEW step,
         Picks(pick, S), Steps(step, S, T)
  PROVE  \E f : IsFold(f, S, T, base, pick, step)
<1> DEFINE Small(n) == {s \in SUBSET S : Cardinality(s) <= n}
           Folds(f, n) ==
             \A s \in Small(n) : f[s] = IF s = {} THEN base ELSE step[pick[s]][f[s \ {pick[s]}]]
           G == {n \in Nat : \E f \in [Small(n) -> T] : Folds(f, n)}
<1>0. ASSUME NEW n \in Nat, NEW s \in Small(n + 1), s # {}
      PROVE  s \ {pick[s]} \in Small(n) /\ s \ {pick[s]} \in Small(n + 1)
  <2> DEFINE r == s \ {pick[s]}
             c == Cardinality(s)
             d == Cardinality(r)
  <2>1. s \in SUBSET S /\ pick[s] \in s
    BY <1>0 DEF Picks
  <2>2. r \in SUBSET S /\ d + 1 = c /\ c \in Nat
    BY <2>1, OneLess
  <2>3. d \in Nat
    BY <2>2, OneLess
  <2>4. c <= n + 1
    BY <1>0
  <2> HIDE DEF r, c, d
  <2>5. d <= n /\ d <= n + 1
    BY <2>2, <2>3, <2>4
  <2> QED BY <2>2, <2>5 DEF r, d
<1>1. 0 \in G
  <2> DEFINE f == [s \in Small(0) |-> base]
  <2>1. \A s \in Small(0) : s = {}
    <3> SUFFICES ASSUME NEW s \in SUBSET S, Cardinality(s) <= 0 PROVE s = {}
      OBVIOUS
    <3>1. Cardinality(s) \in Nat /\ (Cardinality(s) = 0 <=> s = {})
      BY OneLess
    <3> QED BY <3>1
  <2>2. f \in [Small(0) -> T] /\ Folds(f, 0)
    BY <2>1
  <2> QED BY <2>2
<1>2. ASSUME NEW n \in Nat, n \in G PROVE n + 1 \in G
  <2>1. PICK f \in [Small(n) -> T] : Folds(f, n)
    BY <1>2
  <2> DEFINE g == [s \in Small(n + 1) |->
                     IF s = {} THEN base ELSE step[pick[s]][f[s \ {pick[s]}]]]
  <2>2. \A s \in Small(n + 1) : s # {} => s \ {pick[s]} \in Small(n) /\ s \ {pick[s]} \in Small(n + 1)
    BY <1>0, <1>2
  <2>3. \A s \in Small(n) : s \in Small(n + 1)
    <3> SUFFICES ASSUME NEW s \in SUBSET S, Cardinality(s) <= n PROVE Cardinality(s) <= n + 1
      OBVIOUS
    <3>1. Cardinality(s) \in Nat
      BY OneLess
    <3> QED BY <3>1
  <2>4. \A s \in Small(n) : g[s] = f[s]
    BY <2>1, <2>3
  <2>5. \A s \in Small(n + 1) : g[s] \in T
    <3> SUFFICES ASSUME NEW s \in Small(n + 1), s # {} PROVE step[pick[s]][f[s \ {pick[s]}]] \in T
      OBVIOUS
    <3>1. f[s \ {pick[s]}] \in T /\ pick[s] \in S
      BY <2>1, <2>2 DEF Picks
    <3> QED BY <3>1 DEF Steps
  <2>6. g \in [Small(n + 1) -> T]
    BY <2>5
  <2>7. Folds(g, n + 1)
    <3> SUFFICES ASSUME NEW s \in Small(n + 1)
                 PROVE  g[s] = IF s = {} THEN base ELSE step[pick[s]][g[s \ {pick[s]}]]
      OBVIOUS
    <3>1. g[s] = IF s = {} THEN base ELSE step[pick[s]][f[s \ {pick[s]}]]
      OBVIOUS
    <3>2. s # {} => g[s \ {pick[s]}] = f[s \ {pick[s]}]
      BY <2>2, <2>4
    <3> HIDE DEF g
    <3> QED BY <3>1, <3>2
  <2>8. n + 1 \in Nat
    OBVIOUS
  <2> HIDE DEF g, Folds, Small
  <2> QED BY <2>6, <2>7, <2>8
<1>3. G = Nat
  <2>1. G \in SUBSET Nat
    OBVIOUS
  <2> HIDE DEF G
  <2> QED BY <1>1, <1>2, <2>1, NatInduction1
<1> DEFINE c == Cardinality(S)
<1>4. c \in Nat /\ Small(c) = SUBSET S
  <2>1. c \in Nat /\ \A s \in SUBSET S : Cardinality(s) <= c
    BY FS_Subset, FS_CardinalityType
  <2> HIDE DEF c
  <2> QED BY <2>1
<1>5. PICK f \in [Small(c) -> T] : Folds(f, c)
  <2>1. c \in G
    BY <1>3, <1>4
  <2> HIDE DEF c, Small, Folds
  <2> QED BY <2>1
<1> HIDE DEF c, Small
<1> QED BY <1>4, <1>5 DEF IsFold

LEMMA FoldStays ==
  ASSUME NEW S, IsFiniteSet(S), NEW T, NEW f, NEW pick, f[{}] \in T,
         \A s \in SUBSET S : s # {} => pick[s] \in s /\ (f[s \ {pick[s]}] \in T => f[s] \in T)
  PROVE  f[S] \in T
<1> DEFINE G == {n \in Nat : \A s \in SUBSET S : Cardinality(s) <= n => f[s] \in T}
<1>1. 0 \in G
  <2> SUFFICES ASSUME NEW s \in SUBSET S, Cardinality(s) <= 0 PROVE f[s] \in T
    OBVIOUS
  <2>1. s = {}
    <3>1. Cardinality(s) \in Nat /\ (Cardinality(s) = 0 <=> s = {})
      BY OneLess
    <3> QED BY <3>1
  <2> QED BY <2>1
<1>2. ASSUME NEW n \in Nat, n \in G PROVE n + 1 \in G
  <2> SUFFICES ASSUME NEW s \in SUBSET S, Cardinality(s) <= n + 1 PROVE f[s] \in T
    OBVIOUS
  <2>1. CASE s = {}
    BY <2>1
  <2>2. CASE s # {}
    <3>1. pick[s] \in s /\ s \ {pick[s]} \in SUBSET S
      BY <2>2
    <3>2. Cardinality(s \ {pick[s]}) + 1 = Cardinality(s) /\ Cardinality(s) \in Nat
      BY <3>1, OneLess
    <3>3. Cardinality(s \ {pick[s]}) <= n
      <4>1. Cardinality(s \ {pick[s]}) \in Nat
        BY <3>1, OneLess
      <4> QED BY <3>2, <4>1
    <3>4. f[s \ {pick[s]}] \in T
      BY <1>2, <3>1, <3>3
    <3> QED BY <2>2, <3>4
  <2> QED BY <2>1, <2>2
<1>3. G = Nat
  <2>1. G \in SUBSET Nat
    OBVIOUS
  <2> HIDE DEF G
  <2> QED BY <1>1, <1>2, <2>1, NatInduction1
<1>4. Cardinality(S) \in Nat
  BY FS_CardinalityType
<1>5. Cardinality(S) \in G
  BY <1>3, <1>4
<1> QED BY <1>4, <1>5
-----------------------------------------------------------------------------
(* The appraisal computes signals, whatever the letters and the memory. *)

LEMMA PowerStays ==
  ASSUME NEW T, 1 \in T, NEW base, \A t \in T : base * t \in T, NEW n \in Nat
  PROVE  Power(base, n) \in T
<1> DEFINE S == 1..n
           pick == [s \in SUBSET S |-> CHOOSE x \in s : TRUE]
           step == [x \in S |-> [t \in T |-> base * t]]
           Is(f) == f = [s \in SUBSET S |-> IF s = {} THEN 1
                          ELSE [k \in S |-> base][CHOOSE x \in s : TRUE]
                                 * f[s \ {CHOOSE x \in s : TRUE}]]
           iter == CHOOSE f : Is(f)
<1>1. Power(base, n) = iter[S]
  BY DEF Power, FoldFunction, FoldFunctionOnSet, MapThenFoldSet
<1>2. IsFiniteSet(S)
  BY FS_Interval
<1>3. Picks(pick, S)
  BY DEF Picks
<1>4. Steps(step, S, T)
  <2>1. \A x \in S : \A t \in T : step[x][t] = base * t
    OBVIOUS
  <2> HIDE DEF step, S
  <2> QED BY <2>1 DEF Steps
<1> HIDE DEF S
<1>5. PICK g : IsFold(g, S, T, 1, pick, step)
  <2> HIDE DEF pick, step
  <2> QED BY <1>2, <1>3, <1>4, FoldExists
<1>6. Is(g)
  <2>1. \A s \in SUBSET S : g[s] = IF s = {} THEN 1
           ELSE [k \in S |-> base][CHOOSE x \in s : TRUE] * g[s \ {CHOOSE x \in s : TRUE}]
    <3> SUFFICES ASSUME NEW s \in SUBSET S, s # {}
                 PROVE  g[s] = [k \in S |-> base][pick[s]] * g[s \ {pick[s]}]
      BY <1>5 DEF IsFold
    <3>1. pick[s] \in S /\ g[s \ {pick[s]}] \in T /\ g[s] = step[pick[s]][g[s \ {pick[s]}]]
      BY <1>3, <1>5 DEF Picks, IsFold
    <3> HIDE DEF pick
    <3> QED BY <3>1
  <2>2. g \in [SUBSET S -> T]
    BY <1>5 DEF IsFold
  <2> QED BY <2>1, <2>2
<1>7. Is(iter)
  <2> HIDE DEF Is
  <2> QED BY <1>6
<1>8. iter[S] \in T
  <2>1. iter = [s \in SUBSET S |-> IF s = {} THEN 1
                  ELSE [k \in S |-> base][pick[s]] * iter[s \ {pick[s]}]]
    BY <1>7
  <2> HIDE DEF iter, pick
  <2>2. \A s \in SUBSET S : s # {} => pick[s] \in s /\ (iter[s \ {pick[s]}] \in T => iter[s] \in T)
    <3> SUFFICES ASSUME NEW s \in SUBSET S, s # {}, iter[s \ {pick[s]}] \in T
                 PROVE  pick[s] \in s /\ iter[s] \in T
      BY <1>3 DEF Picks
    <3>1. pick[s] \in s /\ iter[s] = base * iter[s \ {pick[s]}]
      BY <1>3, <2>1 DEF Picks
    <3> QED BY <3>1
  <2>3. iter[{}] \in T
    BY <1>2, <2>1
  <2> QED BY <1>2, <2>2, <2>3, FoldStays
<1> QED BY <1>1, <1>8

LEMMA PowerIsNat ==
  ASSUME NEW base \in Nat, NEW n \in Nat
  PROVE  Power(base, n) \in Nat /\ (base # 0 => Power(base, n) \in Nat \ {0})
<1>1. \A t \in Nat : base * t \in Nat
  OBVIOUS
<1>2. Power(base, n) \in Nat
  BY <1>1, PowerStays
<1>3. ASSUME base # 0 PROVE Power(base, n) \in Nat \ {0}
  <2>1. \A t \in Nat \ {0} : base * t \in Nat \ {0}
    BY <1>3
  <2>2. 1 \in Nat \ {0}
    OBVIOUS
  <2> QED BY <2>1, <2>2, PowerStays
<1> QED BY <1>2, <1>3

LEMMA BoundedIs ==
  ASSUME NEW x \in Nat
  PROVE  Bounded(x) \in 0..Cap
<1>1. {Cap, x} \in SUBSET Nat /\ {Cap, x} # {} /\ Cap \in Nat
  BY AppraisalAssumption
<1>2. Min({Cap, x}) \in {Cap, x} /\ \A y \in {Cap, x} : Min({Cap, x}) <= y
  BY <1>1, MinOfNats
<1>3. Bounded(x) = Min({Cap, x})
  BY DEF Bounded
<1> QED
  BY <1>1, <1>2, <1>3

LEMMA MaxOfTwo ==
  ASSUME NEW a \in Nat, NEW b \in Int
  PROVE  /\ Max({a, b}) \in Nat /\ Max({a, b}) >= a /\ Max({a, b}) >= b
         /\ Max({a, b}) = a \/ Max({a, b}) = b
<1>1. Max({a, b}) = CHOOSE x \in {a, b} : \A y \in {a, b} : x >= y
  BY DEF Max
<1>2. \E x \in {a, b} : \A y \in {a, b} : x >= y
  <2>1. CASE a >= b
    BY <2>1
  <2>2. CASE b >= a
    BY <2>2
  <2> QED BY <2>1, <2>2
<1>3. Max({a, b}) \in {a, b} /\ \A y \in {a, b} : Max({a, b}) >= y
  BY <1>1, <1>2
<1> HIDE DEF Max
<1> QED BY <1>3

\* The last n elements.
LEMMA RecentIs ==
  ASSUME NEW S, NEW s \in Seq(S), NEW n \in Nat \ {0}
  PROVE  Recent(s, n) \in Seq(S) /\ Len(Recent(s, n)) <= n
<1> DEFINE a == Max({1, Len(s) - n + 1})
<1>1. Len(s) \in Nat
  BY LenProperties
<1>2. a \in Nat /\ a >= 1 /\ a >= Len(s) - n + 1
  <2>1. 1 \in Nat /\ Len(s) - n + 1 \in Int
    BY <1>1
  <2> QED BY <2>1, MaxOfTwo
<1>3. Recent(s, n) = SubSeq(s, a, Len(s))
  BY DEF Recent
<1> HIDE DEF a
<1>4. \A i \in a..Len(s) : s[i] \in S
  BY <1>1, <1>2, ElementOfSeq
<1>5. /\ SubSeq(s, a, Len(s)) \in Seq(S)
      /\ Len(SubSeq(s, a, Len(s))) = IF a <= Len(s) THEN Len(s) - a + 1 ELSE 0
  BY <1>1, <1>2, <1>4, SubSeqProperties
<1> QED
  BY <1>1, <1>2, <1>3, <1>5

LEMMA GainsAreNat ==
  ASSUME NEW m, m.urgency \in 0..100, m.trust \in 0..100
  PROVE  Gains(m) \in [Channels -> Nat]
<1> DEFINE w == Weight(m)
<1>1. w \in Nat
  <2>1. 10 \in Nat /\ m.urgency + m.trust \div 2 \in Int
    OBVIOUS
  <2> QED BY <2>1, MaxOfTwo DEF Weight
<1>2. \A k : \A x \in Nat : Only(k, x) \in [Channels -> Nat]
  BY DEF Only
<1> HIDE DEF w
<1>3. /\ 40 + w \in Nat /\ 35 + w \in Nat /\ 45 + w \div 2 \in Nat /\ 80 + w \in Nat
      /\ 60 + w \in Nat /\ 50 + w \in Nat /\ 70 + w \in Nat /\ 50 + w \div 2 \in Nat
      /\ 30 + w \in Nat /\ 0 \in Nat
      /\ 40 + m.trust \div 2 \in Nat /\ 70 + m.urgency \div 3 \in Nat
  BY <1>1
<1>4. Recommendation(m) \in [Channels -> Nat]
  BY <1>2, <1>3 DEF Recommendation, w
<1>5. Coordination(m) \in [Channels -> Nat]
  <2> DEFINE base == Only("reply", 40 + w)
             d == IF (m.topic \notin CancelSocialTopics /\ (m.urgency >= 60 \/ m.topic \in MeetingTopics))
                  THEN 30 + w ELSE 0
             k == IF m.topic \in {"cancel", "skip"} THEN 35 + w ELSE 0
             c == IF m.topic \in CancelSocialTopics THEN 35 + w ELSE 0
  <2>1. base \in [Channels -> Nat] /\ d \in Nat /\ k \in Nat /\ c \in Nat
    BY <1>2, <1>3
  <2>2. Coordination(m) = [base EXCEPT !["defer"] = d, !["skip"] = k, !["cancel"] = c]
    BY DEF Coordination, w
  <2> HIDE DEF base, d, k, c
  <2> QED BY <2>1, <2>2
<1>6. [Only("social", 50 + w) EXCEPT !["reply"] = 40 + m.trust \div 2] \in [Channels -> Nat]
  <2> DEFINE base == Only("social", 50 + w)
             r == 40 + m.trust \div 2
  <2>1. base \in [Channels -> Nat] /\ r \in Nat
    BY <1>2, <1>3
  <2> HIDE DEF base, r
  <2>2. [base EXCEPT !["reply"] = r] \in [Channels -> Nat]
    BY <2>1
  <2> QED BY <2>2 DEF base, r
<1>7. [Only("obligation", 70 + w) EXCEPT !["reply"] = 70 + m.urgency \div 3] \in [Channels -> Nat]
  <2> DEFINE base == Only("obligation", 70 + w)
             r == 70 + m.urgency \div 3
  <2>1. base \in [Channels -> Nat] /\ r \in Nat
    BY <1>2, <1>3
  <2> HIDE DEF base, r
  <2>2. [base EXCEPT !["reply"] = r] \in [Channels -> Nat]
    BY <2>1
  <2> QED BY <2>2 DEF base, r
<1>8. /\ Only("safety", 80 + w) \in [Channels -> Nat] /\ Only("safety", 60 + w) \in [Channels -> Nat]
      /\ Only("schedule", 50 + w \div 2) \in [Channels -> Nat]
      /\ Only("reply", 45 + w \div 2) \in [Channels -> Nat]
  BY <1>2, <1>3
<1> QED
  BY <1>4, <1>5, <1>6, <1>7, <1>8, Zenon DEF Gains, w

ZeroSignals == [c \in Channels |-> 0]

\* What adds something to signals, up to the cap.
LEMMA Raised ==
  ASSUME NEW s \in Signals, NEW g \in [Channels -> Nat]
  PROVE  [c \in Channels |-> Bounded(s[c] + g[c])] \in Signals
<1>1. \A c \in Channels : s[c] + g[c] \in Nat
  BY AppraisalAssumption DEF Signals
<1>2. \A c \in Channels : Bounded(s[c] + g[c]) \in 0..Cap
  BY <1>1, BoundedIs
<1> QED BY <1>2 DEF Signals

Readable(letters) == \A m \in letters : m.urgency \in 0..100 /\ m.trust \in 0..100

LEMMA FromMessagesAreSignals ==
  ASSUME NEW L, Readable(L), NEW messages \in Seq(L)
  PROVE  FromMessages(messages) \in Signals
<1> DEFINE seq == Recent(messages, Window)
           S == DOMAIN seq
           T == Signals
           pick == [s \in SUBSET S |-> Max(s)]
           add(m, y) == [c \in Channels |-> Bounded(y[c] + Gains(m)[c])]
           step == [i \in S |-> [y \in T |-> add(seq[i], y)]]
           Is(f) == f = [s \in SUBSET S |->
                          IF s = {} THEN ZeroSignals ELSE add(seq[Max(s)], f[s \ {Max(s)}])]
           iter == CHOOSE f : Is(f)
<1>1. FromMessages(messages) = iter[S]
  BY DEF FromMessages, FoldLeft, MapThenFoldSet, ZeroSignals
<1>2. seq \in Seq(L) /\ S = 1..Len(seq) /\ Len(seq) \in Nat /\ IsFiniteSet(S)
  <2>1. seq \in Seq(L)
    BY RecentIs, AppraisalAssumption
  <2> HIDE DEF seq
  <2>2. S = 1..Len(seq) /\ Len(seq) \in Nat
    BY <2>1, LenProperties
  <2> QED BY <2>1, <2>2, FS_Interval
<1>3. Picks(pick, S)
  <2> SUFFICES ASSUME NEW s \in SUBSET S, s # {} PROVE Max(s) \in s
    BY DEF Picks
  <2> HIDE DEF seq
  <2>1. s \in SUBSET Nat /\ \A y \in s : y <= Len(seq)
    BY <1>2
  <2> QED BY <1>2, <2>1, MaxOfNats
<1>4. \A i \in S : \A y \in T : add(seq[i], y) \in T
  <2> SUFFICES ASSUME NEW i \in S, NEW y \in T PROVE add(seq[i], y) \in T
    OBVIOUS
  <2> HIDE DEF seq
  <2>1. seq[i] \in L
    BY <1>2, ElementOfSeq
  <2>2. Gains(seq[i]) \in [Channels -> Nat]
    BY <2>1, GainsAreNat DEF Readable
  <2> QED BY <2>2, Raised
<1>5. Steps(step, S, T)
  <2>1. \A i \in S : \A y \in T : step[i][y] = add(seq[i], y)
    OBVIOUS
  <2> HIDE DEF step, S, T, add
  <2> QED BY <1>4, <2>1 DEF Steps
<1>6. ZeroSignals \in T
  BY AppraisalAssumption DEF ZeroSignals, Signals
<1> HIDE DEF S, seq, T, add
<1>7. PICK g : IsFold(g, S, T, ZeroSignals, pick, step)
  <2> HIDE DEF pick, step
  <2> QED BY <1>2, <1>3, <1>5, <1>6, FoldExists
<1>8. Is(g)
  <2>1. \A s \in SUBSET S :
          g[s] = IF s = {} THEN ZeroSignals ELSE add(seq[Max(s)], g[s \ {Max(s)}])
    <3> SUFFICES ASSUME NEW s \in SUBSET S, s # {}
                 PROVE  g[s] = add(seq[pick[s]], g[s \ {pick[s]}])
      BY <1>7 DEF IsFold
    <3>1. pick[s] \in S /\ g[s \ {pick[s]}] \in T /\ g[s] = step[pick[s]][g[s \ {pick[s]}]]
      BY <1>3, <1>7 DEF Picks, IsFold
    <3> HIDE DEF pick
    <3> QED BY <3>1
  <2>2. g \in [SUBSET S -> T]
    BY <1>7 DEF IsFold
  <2> QED BY <2>1, <2>2
<1>9. Is(iter)
  <2> HIDE DEF Is
  <2> QED BY <1>8
<1>10. iter[S] \in T
  <2>1. iter = [s \in SUBSET S |->
                 IF s = {} THEN ZeroSignals ELSE add(seq[pick[s]], iter[s \ {pick[s]}])]
    BY <1>9
  <2> HIDE DEF iter, pick
  <2>2. \A s \in SUBSET S : s # {} => pick[s] \in s /\ (iter[s \ {pick[s]}] \in T => iter[s] \in T)
    <3> SUFFICES ASSUME NEW s \in SUBSET S, s # {}, iter[s \ {pick[s]}] \in T
                 PROVE  pick[s] \in s /\ iter[s] \in T
      BY <1>3 DEF Picks
    <3>1. pick[s] \in s /\ iter[s] = add(seq[pick[s]], iter[s \ {pick[s]}])
      BY <1>3, <2>1 DEF Picks
    <3> QED BY <1>4, <3>1
  <2>3. iter[{}] \in T
    BY <1>6, <2>1
  <2> QED BY <1>2, <2>2, <2>3, FoldStays
<1> QED BY <1>1, <1>10 DEF T

LEMMA DivIsNat ==
  ASSUME NEW a \in Nat, NEW b \in Nat \ {0}
  PROVE  a \div b \in Nat
OBVIOUS

LEMMA TimesIsNat ==
  ASSUME NEW a \in Nat, NEW b \in Nat
  PROVE  a * b \in Nat
OBVIOUS

LEMMA FadedIsNat ==
  ASSUME NEW x \in Nat, NEW age \in Nat
  PROVE  Faded(x, age) \in Nat
<1>1. Decay \in Nat /\ 100 \in Nat
  BY AppraisalAssumption
<1>2. Power(Decay, age) \in Nat /\ Power(100, age) \in Nat \ {0}
  <2>1. \A b \in Nat : Power(b, age) \in Nat /\ (b # 0 => Power(b, age) \in Nat \ {0})
    BY PowerIsNat
  <2> QED BY <1>1, <2>1
<1>3. x * Power(Decay, age) \in Nat
  BY <1>2, TimesIsNat
<1> QED BY <1>2, <1>3, DivIsNat DEF Faded

LEMMA FadeIsSignals == ASSUME NEW s \in Signals PROVE Fade(s) \in Signals
<1>1. Decay \in 0..100 /\ Cap \in Nat
  BY AppraisalAssumption
<1>2. ASSUME NEW x \in 0..Cap PROVE (x * Decay) \div 100 \in 0..Cap
  <2>1. x * Decay <= x * 100 /\ x * Decay \in Nat
    <3>1. \A a, b \in Nat : b <= 100 => a * b <= a * 100
      OBVIOUS
    <3>2. x \in Nat /\ Decay \in Nat /\ Decay <= 100
      BY <1>1
    <3> QED BY <3>1, <3>2, TimesIsNat
  <2> DEFINE z == x * Decay
  <2>2. z \in Nat /\ z <= x * 100
    BY <2>1
  <2> HIDE DEF z
  <2>3. z \div 100 \in Nat /\ z \div 100 <= x
    BY <2>2
  <2> QED BY <1>1, <2>3 DEF z
<1>3. \A c \in Channels : s[c] \in 0..Cap
  BY DEF Signals
<1> QED BY <1>2, <1>3 DEF Fade, Signals

Memories == Signals \cup {NoTrace}

LEMMA FromMemoryIsSignals ==
  ASSUME NEW mem \in Seq(Memories)
  PROVE  FromMemory(mem) \in Signals
<1> DEFINE S == DOMAIN mem
           T == Signals
           pick == [s \in SUBSET S |-> Min(s)]
           add(i, y) == IF mem[i] = NoTrace \/ Newer(mem, i) >= Window THEN y
                        ELSE [c \in Channels |-> Bounded(y[c] + Faded(mem[i][c], Newer(mem, i)))]
           step == [i \in S |-> [y \in T |-> add(i, y)]]
           Is(f) == f = [s \in SUBSET S |->
                          IF s = {} THEN ZeroSignals
                          ELSE add([i \in S |-> i][Min(s)], f[s \ {Min(s)}])]
           iter == CHOOSE f : Is(f)
<1>1. FromMemory(mem) = iter[S]
  BY DEF FromMemory, FoldRightDomain, FoldRight, MapThenFoldSet, ZeroSignals
<1>2. S = 1..Len(mem) /\ Len(mem) \in Nat /\ IsFiniteSet(S)
  <2>1. S = 1..Len(mem) /\ Len(mem) \in Nat
    BY LenProperties
  <2> QED BY <2>1, FS_Interval
<1>3. Picks(pick, S)
  <2> SUFFICES ASSUME NEW s \in SUBSET S, s # {} PROVE Min(s) \in s
    BY DEF Picks
  <2>1. s \in SUBSET Nat
    BY <1>2
  <2> QED BY <2>1, MinOfNats
<1>4. \A i \in S : \A y \in T : add(i, y) \in T
  <2> SUFFICES ASSUME NEW i \in S, NEW y \in T, mem[i] # NoTrace
               PROVE  [c \in Channels |-> Bounded(y[c] + Faded(mem[i][c], Newer(mem, i)))] \in T
    OBVIOUS
  <2>1. mem[i] \in Signals
    BY <1>2, ElementOfSeq DEF Memories
  <2>2. Newer(mem, i) \in Nat
    <3> DEFINE newer == {j \in (i + 1)..Len(mem) : mem[j] # NoTrace}
    <3>1. i \in Nat
      BY <1>2
    <3> DEFINE all == (i + 1)..Len(mem)
    <3>2. IsFiniteSet(all) /\ newer \in SUBSET all
      <4>1. i + 1 \in Int /\ Len(mem) \in Int
        BY <1>2, <3>1
      <4>2. IsFiniteSet(all)
        BY <4>1, FS_Interval
      <4> QED BY <4>2
    <3> HIDE DEF newer, all
    <3>3. IsFiniteSet(newer) /\ Cardinality(newer) \in Nat
      BY <3>2, OneLess
    <3> QED BY <3>3 DEF Newer, newer
  <2> DEFINE g == [c \in Channels |-> Faded(mem[i][c], Newer(mem, i))]
  <2>3. \A c \in Channels : mem[i][c] \in Nat
    BY <2>1, AppraisalAssumption DEF Signals
  <2>4. g \in [Channels -> Nat]
    BY <2>2, <2>3, FadedIsNat
  <2>5. \A c \in Channels : g[c] = Faded(mem[i][c], Newer(mem, i))
    OBVIOUS
  <2> HIDE DEF g
  <2>6. [c \in Channels |-> Bounded(y[c] + g[c])] \in T
    BY <2>4, Raised
  <2> QED BY <2>5, <2>6
<1>5. Steps(step, S, T)
  <2>1. \A i \in S : \A y \in T : step[i][y] = add(i, y)
    OBVIOUS
  <2> HIDE DEF step, S, T, add
  <2> QED BY <1>4, <2>1 DEF Steps
<1>6. ZeroSignals \in T
  BY AppraisalAssumption DEF ZeroSignals, Signals
<1> HIDE DEF S, T, add
<1>7. PICK g : IsFold(g, S, T, ZeroSignals, pick, step)
  <2> HIDE DEF pick, step
  <2> QED BY <1>2, <1>3, <1>5, <1>6, FoldExists
<1>8. Is(g)
  <2>1. \A s \in SUBSET S :
          g[s] = IF s = {} THEN ZeroSignals ELSE add([i \in S |-> i][Min(s)], g[s \ {Min(s)}])
    <3> SUFFICES ASSUME NEW s \in SUBSET S, s # {}
                 PROVE  g[s] = add([i \in S |-> i][pick[s]], g[s \ {pick[s]}])
      BY <1>7 DEF IsFold
    <3>1. pick[s] \in S /\ g[s \ {pick[s]}] \in T /\ g[s] = step[pick[s]][g[s \ {pick[s]}]]
      BY <1>3, <1>7 DEF Picks, IsFold
    <3> HIDE DEF pick
    <3> QED BY <3>1
  <2>2. g \in [SUBSET S -> T]
    BY <1>7 DEF IsFold
  <2> QED BY <2>1, <2>2
<1>9. Is(iter)
  <2> HIDE DEF Is
  <2> QED BY <1>8
<1>10. iter[S] \in T
  <2>1. iter = [s \in SUBSET S |->
                 IF s = {} THEN ZeroSignals ELSE add([i \in S |-> i][pick[s]], iter[s \ {pick[s]}])]
    BY <1>9
  <2> HIDE DEF iter, pick
  <2>2. \A s \in SUBSET S : s # {} => pick[s] \in s /\ (iter[s \ {pick[s]}] \in T => iter[s] \in T)
    <3> SUFFICES ASSUME NEW s \in SUBSET S, s # {}, iter[s \ {pick[s]}] \in T
                 PROVE  pick[s] \in s /\ iter[s] \in T
      BY <1>3 DEF Picks
    <3>1. pick[s] \in s /\ iter[s] = add(pick[s], iter[s \ {pick[s]}])
      BY <1>3, <2>1 DEF Picks
    <3> QED BY <1>4, <3>1
  <2>3. iter[{}] \in T
    BY <1>6, <2>1
  <2> QED BY <1>2, <2>2, <2>3, FoldStays
<1> QED BY <1>1, <1>10 DEF T
-----------------------------------------------------------------------------
(* The invariant and its proof. *)

NewsInv ==
  /\ memory \in Seq(Memories)
  /\ recent = <<>> \/ (arrived # 0 /\ \E m \in Letters : recent = <<m>>)
  /\ arrived = 0 => \A i \in 1..Len(memory) : memory[i] = NoTrace

IInv == TypeOK /\ PlanInv(plan) /\ NewsInv

Adjustments ==
  {"preserve_home_activity", "defer_next_activity", "skip_flexible_activity",
   "cancel_social_activity", "none"}

\* Whatever is proposed, the plan keeps its form, and its past unless it is rewritten.
LEMMA AdjustedKeeps ==
  ASSUME IInv, NEW a \in Adjustments, NEW d \in Nat
  PROVE  /\ PlanInv(Adjusted(a, d))
         /\ Adjusted(a, d) = PreserveHome(plan, minute) \/ Past(Adjusted(a, d)) = Past(plan)
<1>1. PlanInv(plan) /\ minute \in Minutes
  BY DEF IInv, TypeOK
<1>2. CASE a = "preserve_home_activity"
  BY <1>1, <1>2, PreserveHomeKeeps DEF Adjusted
<1>3. CASE a = "defer_next_activity"
  BY <1>1, <1>3, DeferKeeps DEF Adjusted
<1>4. CASE a = "skip_flexible_activity"
  <2>1. Adjusted(a, d) = SkipFlexible(plan, minute)
    BY <1>4 DEF Adjusted
  <2> QED BY <1>1, <2>1, SkipKeeps DEF SkipFlexible
<1>5. CASE a = "cancel_social_activity"
  <2>1. Adjusted(a, d) = CancelSocial(plan, minute)
    BY <1>5 DEF Adjusted
  <2> QED BY <1>1, <2>1, SkipKeeps DEF CancelSocial
<1>6. CASE a = "none"
  BY <1>1, <1>6 DEF Adjusted
<1> QED
  BY <1>2, <1>3, <1>4, <1>5, <1>6 DEF Adjustments

LEMMA MoveAtIsPlace ==
  ASSUME NEW p, PlanInv(p), NEW m \in Minutes, NEW here \in Ids \cup {Nowhere}
  PROVE  MoveAt(p, m, here, Nowhere) \in Ids \cup {Nowhere}
<1> DEFINE k == PlanState(p, m).found
<1>1. p \in Seq(Elements) /\ (k # 0 => k \in 1..Len(p))
  BY PlanStateIsFirst DEF PlanInv
<1>2. k # 0 /\ IsActivity(p[k]) => p[k].id \in Ids
  BY <1>1, ElementOfSeq, ElementKinds
<1>3. MoveAt(p, m, here, Nowhere) = IF k = 0 THEN here
         ELSE IF IsActivity(p[k]) THEN p[k].id
         ELSE IF here = p[PlanState(p, m).previous].id THEN Nowhere ELSE here
  BY DEF MoveAt
<1> HIDE DEF k
<1> QED BY <1>2, <1>3

LEMMA ExecuteMoves ==
  ASSUME IInv, NEW action, Execute(action), PlanInv(plan')
  PROVE  place' \in Ids \cup {Nowhere} /\ raised' \in BOOLEAN
<1>1. minute \in Minutes /\ place \in Ids \cup {Nowhere} /\ raised \in BOOLEAN /\ HomeId \in Ids
  BY PlansAssumption DEF IInv, TypeOK
<1>2. CASE action = "stay_home"
  BY <1>1, <1>2 DEF Execute
<1>3. CASE action # "stay_home"
  BY <1>1, <1>3, MoveAtIsPlace DEF Execute
<1> QED BY <1>2, <1>3

LEMMA ProposalKinds ==
  /\ \A s, f, g : Decide(s, f, g).adjustment \in Adjustments
  /\ \A t, l : Habit(t, l).adjustment = "none"
<1>1. \A a, b : Propose(a, b).adjustment = b
  BY DEF Propose
<1>2. \A s, b : Adjust(s, b).adjustment = b
  BY <1>1 DEF Adjust
<1> QED
  BY <1>1, <1>2 DEF Decide, Habit, Adjustments

\* The signals are signals, and what is remembered of them is a trace.
LEMMA LocalSignalsAre ==
  ASSUME IInv
  PROVE  LocalSignals \in Signals /\ Fade(LocalSignals) \in Memories
<1>1. CASE Heard
  <2>1. PICK m \in Letters : recent = <<m>>
    BY <1>1 DEF IInv, NewsInv, Heard
  <2>2. recent \in Seq(Letters)
    BY <2>1
  <2>3. Readable(Letters)
    BY DailyLifeAssumption DEF Readable
  <2>4. LocalSignals \in Signals
    BY <1>1, <2>2, <2>3, FromMessagesAreSignals DEF LocalSignals
  <2> QED BY <2>4, FadeIsSignals DEF Memories
<1>2. CASE ~Heard
  <2>1. LocalSignals \in Signals
    BY <1>2, FromMemoryIsSignals DEF IInv, NewsInv, LocalSignals
  <2> QED BY <2>1, FadeIsSignals DEF Memories
<1> QED BY <1>1, <1>2

LEMMA RememberKeeps ==
  ASSUME IInv, NEW e \in Memories
  PROVE  /\ Remember(e) \in Seq(Memories) /\ Len(Remember(e)) <= MaxEvents
         /\ \A x \in ToSet(Remember(e)) : x = NoTrace \/ x \in Signals
<1>1. Append(memory, e) \in Seq(Memories)
  BY DEF IInv, NewsInv
<1>2. Remember(e) \in Seq(Memories) /\ Len(Remember(e)) <= MaxEvents
  BY <1>1, RecentIs, DailyLifeAssumption DEF Remember
<1>3. \A x \in ToSet(Remember(e)) : x \in Memories
  <2> DEFINE r == Remember(e)
  <2> HIDE DEF r
  <2>1. r \in Seq(Memories) => \A x \in ToSet(r) : x \in Memories
    BY DEF ToSet
  <2> QED BY <1>2, <2>1 DEF r
<1> QED BY <1>2, <1>3 DEF Memories

LEMMA InitInv == Init => IInv
<1> SUFFICES ASSUME Init PROVE IInv
  OBVIOUS
<1>1. PlanInv(plan)
  <2>1. PICK s \in Schedules \cup LocalSchedules : plan = MakePlan(s)
    BY DEF Init
  <2> QED BY <2>1, MadePlansHold, DailyLifeAssumption
<1>2. engine \in {"default", "local", "remote"}
  BY DEF Init, Engine
<1>3. \A i \in 1..Len(plan) : plan[i] \in Activities \cup {Travel}
  BY <1>1, ElementOfSeq DEF PlanInv, Elements
<1>4. /\ minute \in Minutes /\ place \in Ids \cup {Nowhere} /\ arrived \in 0..MaxLetters
      /\ since \in 0..Interval /\ decided \in BOOLEAN /\ raised \in BOOLEAN
  <2>1. /\ minute \in Minutes /\ place = HomeId /\ arrived = 0 /\ since = Interval
        /\ decided = TRUE /\ raised = FALSE
    BY DEF Init
  <2>2. HomeId \in Ids /\ MaxLetters \in Nat /\ Interval \in Nat
    BY PlansAssumption, DailyLifeAssumption
  <2>3. 0 \in 0..MaxLetters /\ Interval \in 0..Interval
    BY <2>2
  <2> QED BY <2>1, <2>2, <2>3
<1>5. memory = <<>> /\ memory \in Seq(Memories) /\ Len(memory) = 0 /\ ToSet(memory) = {}
  BY EmptySeq DEF Init, ToSet
<1>6. Len(memory) <= MaxEvents
  BY <1>5, DailyLifeAssumption
<1>7. NewsInv
  BY <1>5 DEF NewsInv, Init
<1>8. \A e \in ToSet(memory) : e = NoTrace \/ e \in Signals
  BY <1>5
<1>9. TypeOK
  BY <1>2, <1>3, <1>4, <1>6, <1>8, Zenon DEF TypeOK
<1> QED
  BY <1>1, <1>7, <1>9 DEF IInv

LEMMA TickInv == IInv /\ Tick => IInv'
<1> SUFFICES ASSUME IInv, Tick PROVE IInv'
  OBVIOUS
<1>1. engine' = engine /\ plan' = plan /\ memory' = memory /\ raised' = raised /\ decided' = FALSE
  BY DEF Tick
<1>2. minute' \in Minutes
  <2>1. minute \in Nat /\ LastMinute \in Nat
    BY PlansAssumption DEF IInv, TypeOK, Minutes
  <2>2. (minute + 1) % (LastMinute + 1) \in 0..LastMinute
    BY <2>1
  <2> QED BY <2>2 DEF Tick, Minutes
<1>3. place' \in Ids \cup {Nowhere}
  <2>1. place \in Ids \cup {Nowhere} /\ PlanInv(plan)
    BY DEF IInv, TypeOK
  <2> QED BY <1>2, <2>1, MoveAtIsPlace DEF Tick
<1>4. since' \in 0..Interval
  <2>1. since \in Nat /\ Interval \in Nat
    BY DailyLifeAssumption DEF IInv, TypeOK
  <2> DEFINE S == {since + 1, Interval}
  <2>2. S \in SUBSET Nat /\ S # {} /\ Interval \in S
    BY <2>1
  <2> HIDE DEF S
  <2>3. Min(S) \in Nat /\ Min(S) <= Interval
    BY <2>2, MinOfNats
  <2> QED BY <2>1, <2>3 DEF Tick, S
<1>5. arrived' \in 0..MaxLetters /\ (arrived # 0 => arrived' # 0) /\ (arrived' = 0 => arrived = 0)
  <2>1. arrived \in 0..MaxLetters /\ MaxLetters \in Nat
    BY DailyLifeAssumption DEF IInv, TypeOK
  <2>2. arrived' = arrived \/ (arrived < MaxLetters /\ arrived' = arrived + 1)
    BY DEF Tick
  <2> QED BY <2>1, <2>2
<1>6. recent' = <<>> \/ (arrived' # 0 /\ \E m \in Letters : recent' = <<m>>)
  <2>1. CASE recent' \in {<<>>, recent} /\ arrived' = arrived
    BY <1>5, <2>1 DEF IInv, NewsInv
  <2>2. CASE recent' \in {<<m>> : m \in Letters} /\ arrived' = arrived + 1
    <3>1. arrived \in Nat
      BY DailyLifeAssumption DEF IInv, TypeOK
    <3> QED BY <2>2, <3>1
  <2> QED BY <2>1, <2>2 DEF Tick
<1>7. NewsInv'
  BY <1>1, <1>5, <1>6 DEF IInv, NewsInv
<1>8. TypeOK'
  <2>1. /\ engine' \in {"default", "local", "remote"} /\ Len(memory') <= MaxEvents
        /\ \A i \in 1..Len(plan') : plan'[i] \in Activities \cup {Travel}
        /\ \A e \in ToSet(memory') : e = NoTrace \/ e \in Signals
        /\ raised' \in BOOLEAN
    BY <1>1 DEF IInv, TypeOK
  <2> QED BY <1>1, <1>2, <1>3, <1>4, <1>5, <2>1, Zenon DEF TypeOK
<1> QED
  BY <1>1, <1>7, <1>8 DEF IInv

LEMMA DecideByScoresInv == IInv /\ DecideByScores => IInv'
<1> SUFFICES ASSUME IInv, DecideByScores PROVE IInv'
  OBVIOUS
<1>1. UNCHANGED <<engine, plan, minute, recent, arrived, since, memory>> /\ decided' = TRUE
  BY DEF DecideByScores
<1>2. PlanInv(plan')
  BY <1>1 DEF IInv
<1>3. place' \in Ids \cup {Nowhere} /\ raised' \in BOOLEAN
  BY <1>2, ExecuteMoves DEF DecideByScores
<1>4. TypeOK'
  BY <1>1, <1>3 DEF IInv, TypeOK
<1> QED
  BY <1>1, <1>2, <1>4 DEF IInv, NewsInv

LEMMA ApplyInv ==
  ASSUME IInv, NEW proposal, NEW d \in Nat, NEW e \in Memories,
         Apply(proposal, d, e), proposal.adjustment \in Adjustments,
         arrived = 0 => e = NoTrace
  PROVE  IInv'
<1>1. /\ plan' = Adjusted(proposal.adjustment, d) /\ memory' = Remember(e) /\ since' = 0
      /\ decided' = TRUE /\ UNCHANGED <<engine, minute, recent, arrived>>
      /\ Execute(proposal.action)
  BY DEF Apply
<1>2. PlanInv(plan')
  BY <1>1, AdjustedKeeps
<1>3. place' \in Ids \cup {Nowhere} /\ raised' \in BOOLEAN
  BY <1>1, <1>2, ExecuteMoves
<1>4. /\ memory' \in Seq(Memories) /\ Len(memory') <= MaxEvents
      /\ \A x \in ToSet(memory') : x = NoTrace \/ x \in Signals
  BY <1>1, RememberKeeps
<1>5. \A i \in 1..Len(plan') : plan'[i] \in Activities \cup {Travel}
  BY <1>2, ElementOfSeq DEF PlanInv, Elements
<1>6. since' \in 0..Interval
  BY <1>1, DailyLifeAssumption
<1>7. TypeOK'
  <2>1. /\ engine' \in {"default", "local", "remote"} /\ minute' \in Minutes
        /\ arrived' \in 0..MaxLetters /\ decided' \in BOOLEAN
    BY <1>1 DEF IInv, TypeOK
  <2> QED BY <1>3, <1>4, <1>5, <1>6, <2>1 DEF TypeOK
<1>8. arrived = 0 => \A i \in 1..Len(memory') : memory'[i] = NoTrace
  <2> SUFFICES ASSUME arrived = 0 PROVE \A i \in 1..Len(memory') : memory'[i] = NoTrace
    OBVIOUS
  <2>1. \A i \in 1..Len(memory) : memory[i] \in {NoTrace}
    BY DEF IInv, NewsInv
  <2>2. memory \in Seq({NoTrace})
    BY <2>1, IsASeq DEF IInv, NewsInv
  <2>3. Append(memory, e) \in Seq({NoTrace})
    BY <2>2
  <2>4. memory' \in Seq({NoTrace})
    BY <1>1, <2>3, RecentIs, DailyLifeAssumption DEF Remember
  <2> QED BY <2>4, ElementOfSeq
<1>9. NewsInv'
  BY <1>1, <1>4, <1>8 DEF IInv, NewsInv
<1> QED
  BY <1>2, <1>7, <1>9 DEF IInv

\* With the local adapter no letter means no trace and no adjustment.
LEMMA LocalEffect ==
  ASSUME IInv, DeliberateLocally
  PROVE  \E d \in Nat, e \in Memories :
           /\ Apply(LocalProposal(LocalSignals), d, e)
           /\ LocalProposal(LocalSignals).adjustment \in Adjustments
           /\ arrived = 0 => e = NoTrace /\ LocalProposal(LocalSignals).adjustment = "none"
<1> DEFINE e == IF Heard THEN LocalSignals ELSE IF Recalls THEN Fade(LocalSignals) ELSE NoTrace
           d == Min(Delays)
           proposal == LocalProposal(LocalSignals)
<1>1. Apply(proposal, d, e)
  BY DEF DeliberateLocally
<1>2. d \in Nat
  BY MinOfNats, DailyLifeAssumption
<1>3. e \in Memories
  BY LocalSignalsAre DEF Memories
<1>4. proposal.adjustment \in Adjustments
  BY ProposalKinds DEF LocalProposal, Adjustments
<1>5. ASSUME arrived = 0 PROVE ~Heard /\ ~Recalls
  <2>1. recent = <<>> /\ memory \in Seq(Memories) /\ \A i \in 1..Len(memory) : memory[i] = NoTrace
    BY <1>5 DEF IInv, NewsInv
  <2>2. \A x \in ToSet(memory) : x = NoTrace
    BY <2>1, LenProperties DEF ToSet
  <2> QED BY <2>1, <2>2 DEF Heard, Recalls
<1>6. arrived = 0 => e = NoTrace /\ proposal.adjustment = "none"
  BY <1>5, ProposalKinds DEF LocalProposal
<1> HIDE DEF e, d, proposal
<1>7. \E later \in Nat, event \in Memories :
        /\ Apply(proposal, later, event) /\ proposal.adjustment \in Adjustments
        /\ arrived = 0 => event = NoTrace /\ proposal.adjustment = "none"
  BY <1>1, <1>2, <1>3, <1>4, <1>6
<1> QED BY <1>7 DEF proposal

LEMMA RemoteEffect ==
  ASSUME DeliberateRemotely
  PROVE  engine = "remote" /\ \E p : \E d \in Nat : Apply(p, d, NoTrace) /\ p.adjustment \in Adjustments
<1>1. PICK action \in {"follow_schedule", "stay_home"},
           a \in {"preserve_home_activity", "defer_next_activity", "skip_flexible_activity",
                  "cancel_social_activity", "none"}, d \in Delays :
        Apply(Propose(action, a), d, NoTrace)
  BY DEF DeliberateRemotely
<1>2. Propose(action, a).adjustment = a /\ a \in Adjustments /\ d \in Nat
  BY DailyLifeAssumption DEF Propose, Adjustments
<1>3. engine = "remote"
  BY DEF DeliberateRemotely
<1> QED
  BY <1>1, <1>2, <1>3

LEMMA NextInv == IInv /\ [Next]_personVars => IInv'
<1> SUFFICES ASSUME IInv, [Next]_personVars PROVE IInv'
  OBVIOUS
<1>1. CASE Tick
  BY <1>1, TickInv
<1>2. CASE Routine
  BY <1>2, DecideByScoresInv DEF Routine
<1>3. CASE Fallback
  BY <1>3, DecideByScoresInv DEF Fallback
<1>4. CASE DeliberateLocally
  BY <1>4, LocalEffect, ApplyInv
<1>5. CASE DeliberateRemotely
  <2>1. NoTrace \in Memories
    BY DEF Memories
  <2> QED BY <1>5, <2>1, RemoteEffect, ApplyInv
<1>6. CASE UNCHANGED personVars
  BY <1>6 DEF personVars, IInv, TypeOK, NewsInv
<1> QED
  BY <1>1, <1>2, <1>3, <1>4, <1>5, <1>6 DEF Next

\* Every reachable state has the invariant.
THEOREM Invariance == Spec => []IInv
BY InitInv, NextInv, PTL DEF Spec

\* However a plan is deferred, skipped and cut short, by whatever adapter and over however
\* many days, its legs lead somewhere and its activities stay in order and in the day.
THEOREM PlansHoldTogether == Spec => []PlanHoldsTogether
<1>1. IInv => PlanHoldsTogether
  BY PlanConnected DEF IInv, PlanHoldsTogether
<1> QED BY <1>1, Invariance, PTL

\* resolve_plan_state and move_at find the element of the plan that the minute lies in.
THEOREM StatesAreActive == Spec => []PlanStateIsActive
<1>1. IInv => PlanStateIsActive
  BY StateIsActive DEF IInv, PlanStateIsActive
<1> QED BY <1>1, Invariance, PTL

-----------------------------------------------------------------------------
(* What a step may do to a plan. *)

LEMMA OnlyDeliberationAdjusts ==
  ASSUME IInv, [Next]_personVars, plan' # plan
  PROVE  \E p, e : \E d \in Nat :
           /\ Apply(p, d, e) /\ p.adjustment \in Adjustments
           /\ \/ engine = "remote"
              \/ arrived # 0 /\ p = LocalProposal(LocalSignals)
<1>1. DeliberateLocally \/ DeliberateRemotely
  BY DEF Next, Tick, Routine, Fallback, DecideByScores, personVars
<1>2. CASE DeliberateLocally
  <2>1. PICK d \in Nat, e \in Memories :
          /\ Apply(LocalProposal(LocalSignals), d, e)
          /\ LocalProposal(LocalSignals).adjustment \in Adjustments
          /\ arrived = 0 => e = NoTrace /\ LocalProposal(LocalSignals).adjustment = "none"
    BY <1>2, LocalEffect
  <2>2. arrived # 0
    BY <2>1 DEF Apply, Adjusted
  <2> QED BY <2>1, <2>2
<1>3. CASE DeliberateRemotely
  BY <1>3, RemoteEffect
<1> QED BY <1>1, <1>2, <1>3

\* No adjustment but the rewriting touches what has begun, or lets anything else begin.
THEOREM PastStays == Spec => PastIsKept
<1>1. IInv /\ [Next]_personVars =>
        [plan' # PreserveHome(plan, minute) => Past(plan') = Past(plan)]_personVars
  <2> SUFFICES ASSUME IInv, [Next]_personVars, plan' # plan, plan' # PreserveHome(plan, minute)
               PROVE  Past(plan') = Past(plan)
    OBVIOUS
  <2>1. PICK p, e : \E d \in Nat : Apply(p, d, e) /\ p.adjustment \in Adjustments
    BY OnlyDeliberationAdjusts
  <2>2. PICK d \in Nat : Apply(p, d, e) /\ p.adjustment \in Adjustments
    BY <2>1
  <2>3. plan' = Adjusted(p.adjustment, d)
    BY <2>2 DEF Apply
  <2> QED BY <2>2, <2>3, AdjustedKeeps
<1> QED BY <1>1, Invariance, PTL DEF Spec, PastIsKept

\* A plan rewritten for a danger means home from that minute to the last of the day.
THEOREM DangersLast == Spec => DangerLastsTheDay
<1>1. IInv /\ [Next]_personVars =>
        [plan' = PreserveHome(plan, minute) =>
           \A m \in minute..LastMinute : MoveAt(plan', m, HomeId, Nowhere) = HomeId]_personVars
  BY PreserveHomeKeeps DEF IInv, TypeOK
<1> QED BY <1>1, Invariance, PTL DEF Spec, DangerLastsTheDay

\* Without a letter the local adapter, and always the deterministic engine, leaves plans alone.
THEOREM OnlyNews == Spec => OnlyNewsChangesPlans
<1>1. IInv /\ [Next]_personVars => [engine # "remote" /\ arrived = 0 => UNCHANGED plan]_personVars
  BY OnlyDeliberationAdjusts
<1> QED BY <1>1, Invariance, PTL DEF Spec, OnlyNewsChangesPlans

\* The adapter proposes to skip or to cancel only when it saw such an activity to come, and
\* the engine finds one.
LEMMA SkipsAskFirst ==
  /\ \A s, f, g : Decide(s, f, g).adjustment = "skip_flexible_activity" => f
  /\ \A s, f, g : Decide(s, f, g).adjustment = "cancel_social_activity" => g
<1>1. \A a, b : Propose(a, b).adjustment = b
  BY DEF Propose
<1>2. \A s, b : Adjust(s, b).adjustment = b
  BY <1>1 DEF Adjust
<1> QED
  BY <1>1, <1>2 DEF Decide

\* What the adapter was told of the next flexible and the next social activity is what the
\* engine finds: such a proposal always takes an activity out of the plan.
THEOREM SkipsFind == Spec => SkipsFindTheirActivity
<1>1. IInv /\ [Next]_personVars =>
        [\A adjustment \in {"skip_flexible_activity", "cancel_social_activity"} :
           engine = "local" /\ ~decided /\ Heard
             /\ LocalProposal(LocalSignals).adjustment = adjustment
           => Len(plan') < Len(plan)]_personVars
  <2> SUFFICES ASSUME IInv, Next, engine = "local", ~decided, Heard,
                      NEW a \in {"skip_flexible_activity", "cancel_social_activity"},
                      LocalProposal(LocalSignals).adjustment = a
               PROVE  Len(plan') < Len(plan)
    OBVIOUS
  <2>1. DeliberateLocally
    BY DEF Next, Tick, Routine, Fallback, DeliberateRemotely, NeedsDeliberation, Heard
  <2>2. PICK d \in Nat, e \in Memories : Apply(LocalProposal(LocalSignals), d, e)
    BY <2>1, LocalEffect
  <2>3. plan' = Adjusted(a, d)
    BY <2>2 DEF Apply
  <2>4. PlanInv(plan) /\ minute \in Minutes
    BY DEF IInv, TypeOK
  <2>5. CASE a = "skip_flexible_activity"
    <3>1. HasFlexible
      BY <2>5, SkipsAskFirst DEF LocalProposal
    <3>2. plan' = SkipFlexible(plan, minute)
      BY <2>3, <2>5 DEF Adjusted
    <3> QED BY <2>4, <3>1, <3>2, SkipKeeps DEF SkipFlexible, HasFlexible
  <2>6. CASE a = "cancel_social_activity"
    <3>1. HasSocial
      BY <2>6, SkipsAskFirst DEF LocalProposal
    <3>2. plan' = CancelSocial(plan, minute)
      BY <2>3, <2>6 DEF Adjusted
    <3> QED BY <2>4, <3>1, <3>2, SkipKeeps DEF CancelSocial, HasSocial
  <2> QED BY <2>5, <2>6
<1> QED BY <1>1, Invariance, PTL DEF Spec, SkipsFindTheirActivity
=============================================================================
