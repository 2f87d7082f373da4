--------------------------- MODULE CollectorProofs ---------------------------
(***************************************************************************)
(* Theorems about the collector: SweepLoops, the order of the queries and   *)
(* the claims that keep two loops off one item, for any set of items; and   *)
(* its services in MCServices, for any rows, retentions and bounds.         *)
(***************************************************************************)
EXTENDS SweepLoops, MCServices, FiniteSetTheorems, SequenceTheorems, WellFoundedInduction, TLAPS

-----------------------------------------------------------------------------
(* The sweeps.                                                              *)

TargetType == [item : Items, last : Stamp]
TaskType == [pc : {"idle", "read", "sweep"}, item : Items \cup {0}, last : Stamp,
             now : Stamp, list : Seq(TargetType)]

----------------------------------------------------------------------------
(* Ranks.                                                                  *)

IsStrictOrder(R, U) ==
  /\ \A a \in U : <<a, a>> \notin R
  /\ \A a, b \in U : a # b => <<a, b>> \in R \/ <<b, a>> \in R
  /\ \A a, b, c \in U : <<a, b>> \in R /\ <<b, c>> \in R => <<a, c>> \in R

Below(R, U, a) == {b \in U : <<b, a>> \in R}

\* In a finite set with a strict total order the ranks are 0, 1, 2 and so on,
\* and each is the rank of one element.
LEMMA RanksAreOnto ==
  ASSUME NEW U, IsFiniteSet(U), NEW R, IsStrictOrder(R, U)
  PROVE  \A k \in 0..(Cardinality(U) - 1) : \E a \in U : Cardinality(Below(R, U, a)) = k
<1> DEFINE n == Cardinality(U)
           f == [a \in U |-> Cardinality(Below(R, U, a))]
<1>1. n \in Nat
  BY FS_CardinalityType
<1>2. \A a \in U : Below(R, U, a) \in SUBSET U /\ Below(R, U, a) \in SUBSET (U \ {a})
  BY DEF Below, IsStrictOrder
<1>3. \A a \in U, b \in U : <<a, b>> \in R => Below(R, U, a) \in SUBSET Below(R, U, b) /\ Below(R, U, a) # Below(R, U, b)
  BY DEF Below, IsStrictOrder
<1>4. \A a \in U : f[a] = Cardinality(Below(R, U, a))
  OBVIOUS
<1>5. f \in [U -> 0..(n - 1)] /\ \A a, b \in U : <<a, b>> \in R => f[a] < f[b]
  <2> HIDE DEF n
  <2>1. \A a \in U : IsFiniteSet(Below(R, U, a)) /\ Cardinality(Below(R, U, a)) \in Nat
    BY <1>2, FS_Subset, FS_CardinalityType
  <2>2. ASSUME NEW a \in U PROVE f[a] \in 0..(n - 1)
    <3>1. IsFiniteSet(U \ {a}) /\ Cardinality(U \ {a}) = n - 1
      BY FS_RemoveElement DEF n
    <3>2. Cardinality(Below(R, U, a)) <= Cardinality(U \ {a})
      BY <1>2, <3>1, FS_Subset, Zenon
    <3> QED BY <1>1, <1>4, <2>1, <3>1, <3>2
  <2>3. ASSUME NEW a \in U, NEW b \in U, <<a, b>> \in R PROVE f[a] < f[b]
    <3>1. Cardinality(Below(R, U, a)) <= Cardinality(Below(R, U, b)) /\ Cardinality(Below(R, U, a)) # Cardinality(Below(R, U, b))
      BY <1>3, <2>1, <2>3, FS_Subset
    <3>2. f[a] <= f[b] /\ f[a] # f[b] /\ f[a] \in Int /\ f[b] \in Int
      BY <1>4, <2>1, <3>1
    <3> QED BY <3>2
  <2> QED BY <2>2, <2>3 DEF f
<1>6. f \in Injection(U, 0..(n - 1))
  <2> HIDE DEF f, n
  <2>1. ASSUME NEW a \in U, NEW b \in U, f[a] = f[b] PROVE a = b
    <3>1. f[a] \in Int /\ f[b] \in Int
      BY <1>5
    <3>2. <<a, b>> \notin R /\ <<b, a>> \notin R
      BY <1>5, <2>1, <3>1
    <3> QED BY <3>2 DEF IsStrictOrder
  <2> QED BY <1>5, <2>1 DEF Injection, IsInjective
<1>7. IsFiniteSet(0..(n - 1)) /\ Cardinality(0..(n - 1)) = n
  <2> HIDE DEF n, f
  <2> QED BY ONLY <1>1, FS_Interval
<1>8. f \in Surjection(U, 0..(n - 1))
  BY <1>6, <1>7, FS_Injection
<1> QED BY <1>8 DEF Surjection

\* A finite set with a strict order that is not empty has a last element.
LEMMA OrderHasLast ==
  ASSUME NEW U, IsFiniteSet(U), U # {}, NEW R, IsStrictOrder(R, U)
  PROVE  \E s \in U : \A u \in U : u = s \/ <<u, s>> \in R
<1> DEFINE n == Cardinality(U)
<1>1. n \in Nat /\ n # 0
  BY FS_CardinalityType, FS_EmptySet
<1>2. PICK s \in U : Cardinality(Below(R, U, s)) = n - 1
  <2>1. n - 1 \in 0..(n - 1)
    BY <1>1
  <2> QED BY <2>1, RanksAreOnto
<1>3. Below(R, U, s) \in SUBSET (U \ {s})
  BY DEF IsStrictOrder, Below
<1>4. IsFiniteSet(U \ {s}) /\ Cardinality(U \ {s}) = Cardinality(Below(R, U, s))
  BY <1>2, FS_RemoveElement
<1>5. Below(R, U, s) = U \ {s}
  BY <1>3, <1>4, FS_Subset, Zenon
<1> QED BY <1>5 DEF Below

\* A finite set of numbers that is not empty has a greatest element.
LEMMA FiniteHasGreatest ==
  ASSUME NEW U, U \in SUBSET Nat, IsFiniteSet(U), U # {}
  PROVE  \E s \in U : \A u \in U : u <= s
<1> DEFINE Less == {p \in U \X U : p[1] < p[2]}
<1>1. (\A a, b \in U : <<a, b>> \in Less <=> a < b) /\ IsStrictOrder(Less, U)
  BY DEF IsStrictOrder
<1> HIDE DEF Less
<1>2. PICK s \in U : \A u \in U : u = s \/ <<u, s>> \in Less
  BY <1>1, OrderHasLast, Zenon
<1>3. ASSUME NEW u \in U PROVE u <= s
  <2>1. u = s \/ u < s
    BY <1>1, <1>2, Zenon
  <2>2. u \in Nat /\ s \in Nat
    OBVIOUS
  <2> QED BY <2>1, <2>2
<1> QED BY <1>3

----------------------------------------------------------------------------
(* The order of the queries.                                               *)

\* A query returns a row for each of the items it finds and for no other, and
\* the row holds the last attempt of its item.
LEMMA TargetsAreTheItems ==
  ASSUME TypeOK, NEW ids \in SUBSET Items
  PROVE  /\ Targets(ids) \in Seq(TargetType)
         /\ Len(Targets(ids)) = Cardinality(ids)
         /\ \A k \in 1..Len(Targets(ids)) :
              Targets(ids)[k].item \in ids /\ Targets(ids)[k].last = attempt[Targets(ids)[k].item]
<1> DEFINE n == Cardinality(ids)
           R == {p \in ids \X ids : Earlier(p[1], p[2])}
           s == ByAttempt(ids)
<1>1. IsFiniteSet(ids) /\ n \in Nat
  BY SweepAssumption, FS_Subset, FS_CardinalityType
<1>2. \A a \in ids : a \in Nat /\ attempt[a] \in Nat
  BY SweepAssumption DEF TypeOK, Stamp
<1>3. (\A a, b \in ids : <<a, b>> \in R <=> Earlier(a, b)) /\ IsStrictOrder(R, ids)
  BY <1>2 DEF Earlier, IsStrictOrder
<1> HIDE DEF R
<1>4. \A k \in 1..n : \E a \in ids : Cardinality({b \in ids : Earlier(b, a)}) = k - 1
  <2> TAKE k \in 1..n
  <2>1. k - 1 \in 0..(n - 1)
    BY <1>1
  <2>2. PICK a \in ids : Cardinality(Below(R, ids, a)) = k - 1
    BY <1>1, <1>3, <2>1, RanksAreOnto
  <2>3. Below(R, ids, a) = {b \in ids : Earlier(b, a)}
    BY <1>3 DEF Below
  <2> QED BY <2>2, <2>3
<1>5. \A k \in 1..n : s[k] \in ids
  BY <1>4 DEF ByAttempt
<1>6. Targets(ids) = [k \in 1..n |-> Target(s[k])]
  BY DEF Targets, ByAttempt
<1>7. \A k \in 1..n : Target(s[k]) \in TargetType
  BY <1>5 DEF Target, TargetType, TypeOK
<1> HIDE DEF n, s
<1>8. Targets(ids) \in [1..n -> TargetType]
  BY <1>6, <1>7
<1>9. Targets(ids) \in Seq(TargetType)
  BY <1>1, <1>8 DEF Seq
<1>10. Len(Targets(ids)) = n
  BY <1>1, <1>8, <1>9, LenProperties
<1>11. ASSUME NEW k \in 1..Len(Targets(ids))
       PROVE  Targets(ids)[k].item \in ids /\ Targets(ids)[k].last = attempt[Targets(ids)[k].item]
  <2>1. Targets(ids)[k] = Target(s[k]) /\ s[k] \in ids
    BY <1>5, <1>6, <1>10
  <2> QED BY <2>1 DEF Target
<1> QED BY <1>9, <1>10, <1>11 DEF n

----------------------------------------------------------------------------
(* The stamps.                                                             *)

\* What the rest of a state is made of: attempts, the due line and the loops.
Stamped(att, d, tsk) ==
  att \in [Items -> Stamp] /\ d \in Stamp /\ tsk \in [Loops -> TaskType]

\* The stamps of one loop are numbers, and finitely many.
LEMMA TaskStampsAreFinite ==
  ASSUME NEW t \in TaskType
  PROVE  TaskStamps(t) \in SUBSET Nat /\ IsFiniteSet(TaskStamps(t))
<1> DEFINE D == 1..Len(t.list)
           f == [k \in D |-> t.list[k].last]
           L == {t.list[k].last : k \in D}
<1>1. t.list \in Seq(TargetType) /\ t.now \in Nat /\ t.last \in Nat
  BY DEF TaskType, Stamp
<1>2. Len(t.list) \in Nat /\ DOMAIN t.list = D /\ \A k \in D : t.list[k] \in TargetType
  BY <1>1, LenProperties, ElementOfSeq
<1>3. \A k \in D : t.list[k].last \in Nat
  BY <1>2 DEF TargetType, Stamp
<1>4. IsFiniteSet(D)
  <2>1. 1 \in Int /\ Len(t.list) \in Int
    BY <1>2
  <2> QED BY ONLY <2>1, FS_Interval DEF D
<1>5. f \in Surjection(D, L)
  BY DEF Surjection
<1>6. IsFiniteSet(L)
  BY <1>4, <1>5, FS_Surjection
<1>7. IsFiniteSet({t.now, t.last})
  <2>1. IsFiniteSet({t.now} \cup {t.last}) /\ {t.now, t.last} = {t.now} \cup {t.last}
    BY FS_Singleton, FS_Union
  <2> QED BY <2>1
<1>8. TaskStamps(t) = {t.now, t.last} \cup L
  BY <1>2 DEF TaskStamps
<1> HIDE DEF L, D, f
<1>9. IsFiniteSet(TaskStamps(t))
  BY <1>6, <1>7, <1>8, FS_Union
<1> QED BY <1>1, <1>3, <1>8, <1>9 DEF L

LEMMA StampsAreFinite ==
  ASSUME NEW att, NEW d, NEW tsk, Stamped(att, d, tsk)
  PROVE  InUse(att, d, tsk) \in SUBSET Nat /\ IsFiniteSet(InUse(att, d, tsk)) /\ InUse(att, d, tsk) # {}
<1> DEFINE A == {att[i] : i \in Items}
           f == [i \in Items |-> att[i]]
           Hs == TaskStamps(tsk["hot"])
           Cs == TaskStamps(tsk["cold"])
<1>1. att \in [Items -> Nat] /\ d \in Nat /\ tsk["hot"] \in TaskType /\ tsk["cold"] \in TaskType
  BY DEF Stamped, Stamp, Loops
<1>2. f \in Surjection(Items, A)
  BY DEF Surjection
<1>3. IsFiniteSet(A)
  BY <1>2, FS_Surjection, SweepAssumption
<1>4. /\ Hs \in SUBSET Nat /\ IsFiniteSet(Hs)
      /\ Cs \in SUBSET Nat /\ IsFiniteSet(Cs)
  BY <1>1, TaskStampsAreFinite
<1>5. UNION {TaskStamps(tsk[l]) : l \in Loops} = Hs \cup Cs
  BY DEF Loops
<1>6. A \in SUBSET Nat
  BY <1>1
<1>7. InUse(att, d, tsk) = (A \cup (Hs \cup Cs)) \cup {d}
  <2>1. InUse(att, d, tsk) = (A \cup UNION {TaskStamps(tsk[l]) : l \in Loops}) \cup {d}
    BY DEF InUse
  <2> HIDE DEF A, Hs, Cs
  <2> QED BY <1>5, <2>1
<1> HIDE DEF A, Hs, Cs, f
<1>8. IsFiniteSet((A \cup (Hs \cup Cs)) \cup {d})
  <2>1. IsFiniteSet(Hs \cup Cs)
    BY <1>4, FS_Union
  <2>2. IsFiniteSet(A \cup (Hs \cup Cs))
    BY <1>3, <2>1, FS_Union
  <2> QED BY <2>2, FS_Singleton, FS_Union
<1>9. (A \cup (Hs \cup Cs)) \cup {d} \in SUBSET Nat
  BY <1>1, <1>4, <1>6
<1> QED BY <1>7, <1>8, <1>9

\* The clock is later than every stamp.
LEMMA NowIsLater ==
  ASSUME TypeOK
  PROVE  Top \in Nat /\ Now \in Stamp
<1> DEFINE used == InUse(attempt, due, task)
<1>1. Stamped(attempt, due, task)
  BY DEF TypeOK, Stamped, TaskType, TargetType
<1>2. used \in SUBSET Nat /\ IsFiniteSet(used) /\ used # {}
  BY <1>1, StampsAreFinite
<1>3. \E s \in used : \A u \in used : u <= s
  BY <1>2, FiniteHasGreatest, Zenon
<1>4. Top \in used
  BY <1>3 DEF Top
<1> HIDE DEF used
<1> QED BY <1>2, <1>4 DEF Now, Stamp

\* Renumbering keeps the types, keeps where every loop is, and keeps equal
\* stamps equal.
Renumbered(att, d, tsk) ==
  /\ attempt' \in [Items -> Stamp] /\ due' \in Stamp /\ task' \in [Loops -> TaskType]
  /\ \A l \in Loops : task'[l].pc = tsk[l].pc /\ task'[l].item = tsk[l].item
  /\ \A l \in Loops, i \in Items : att[i] = tsk[l].now => attempt'[i] = task'[l].now

LEMMA CompressedRenumbers ==
  ASSUME NEW att, NEW d, NEW tsk, Stamped(att, d, tsk), Compressed(att, d, tsk)
  PROVE  Renumbered(att, d, tsk)
<1> DEFINE used == InUse(att, d, tsk) \cup {0}
           Rank(s) == Cardinality({u \in used : u < s})
           Ranked(list) == [k \in DOMAIN list |-> [item |-> list[k].item, last |-> Rank(list[k].last)]]
           t(l) == [tsk[l] EXCEPT !.now = Rank(@), !.last = Rank(@),
                      !.list = [k \in DOMAIN @ |-> [item |-> @[k].item, last |-> Rank(@[k].last)]]]
<1>1. /\ attempt' = [i \in Items |-> Rank(att[i])]
      /\ due' = Rank(d)
      /\ task' = [l \in Loops |-> t(l)]
  BY DEF Compressed
<1>2. IsFiniteSet(used)
  BY StampsAreFinite, FS_Singleton, FS_Union
<1>3. \A s : Rank(s) \in Stamp
  <2> TAKE s
  <2>1. {u \in used : u < s} \in SUBSET used
    OBVIOUS
  <2>2. IsFiniteSet({u \in used : u < s})
    BY <1>2, <2>1, FS_Subset
  <2> QED BY <2>2, FS_CardinalityType DEF Stamp
<1> HIDE DEF Rank, used
<1>4. ASSUME NEW l \in Loops
      PROVE  t(l) \in TaskType /\ t(l).pc = tsk[l].pc /\ t(l).item = tsk[l].item /\ t(l).now = Rank(tsk[l].now)
  <2>1. tsk[l] \in TaskType
    BY DEF Stamped
  <2>2. t(l) = [tsk[l] EXCEPT !.now = Rank(tsk[l].now), !.last = Rank(tsk[l].last),
                              !.list = Ranked(tsk[l].list)]
    BY <2>1 DEF TaskType
  <2>3. Ranked(tsk[l].list) \in Seq(TargetType)
    <3> DEFINE list == tsk[l].list
    <3>1. list \in Seq(TargetType)
      BY <2>1 DEF TaskType
    <3>2. Len(list) \in Nat /\ DOMAIN list = 1..Len(list) /\ \A k \in 1..Len(list) : list[k] \in TargetType
      BY <3>1, LenProperties, ElementOfSeq
    <3>3. \A k \in 1..Len(list) : [item |-> list[k].item, last |-> Rank(list[k].last)] \in TargetType
      BY <1>3, <3>2 DEF TargetType
    <3>4. Ranked(list) \in [1..Len(list) -> TargetType]
      BY <3>2, <3>3
    <3> QED BY <3>2, <3>4 DEF Seq
  <2> HIDE DEF Ranked
  <2> QED BY <1>3, <2>1, <2>2, <2>3 DEF TaskType
<1> HIDE DEF t
<1>5. attempt' \in [Items -> Stamp] /\ due' \in Stamp /\ task' \in [Loops -> TaskType]
  BY <1>1, <1>3, <1>4
<1>6. ASSUME NEW l \in Loops, NEW i \in Items, att[i] = tsk[l].now PROVE attempt'[i] = task'[l].now
  BY <1>1, <1>4, <1>6
<1> QED BY <1>1, <1>4, <1>5, <1>6, SMTT(20) DEF Renumbered

----------------------------------------------------------------------------
(* The invariant.                                                          *)

\* ClaimsGuardSweeps of a state that is about to be renumbered.
Guarded(att, tsk, claims) ==
  /\ \A l \in Loops : Claimed(tsk[l]) => tsk[l].item \in Items
  /\ claims = {tsk[l].item : l \in {k \in Loops : Claimed(tsk[k])}}
  /\ \A l, m \in Loops : l # m /\ Claimed(tsk[l]) /\ Claimed(tsk[m]) => tsk[l].item # tsk[m].item
  /\ \A l \in Loops : Claimed(tsk[l]) => att[tsk[l].item] = tsk[l].now

LEMMA NowGuarded ==
  ASSUME IInv
  PROVE  Guarded(attempt, task, in_flight) /\ Stamped(attempt, due, task)
  BY DEF IInv, TypeOK, ClaimsGuardSweeps, ClaimsAreHeld, OneSweepPerItem, SweepOwnsItsItem,
         Guarded, Stamped, TaskType, TargetType

\* A step that renumbers what is guarded keeps the invariant.
LEMMA RenumberedIInv ==
  ASSUME IInv, NEW att, NEW d, NEW tsk, Stamped(att, d, tsk), Compressed(att, d, tsk),
         Guarded(att, tsk, in_flight'), hot' \in SUBSET Items, active' \in SUBSET Items
  PROVE  IInv'
<1>1. Renumbered(att, d, tsk)
  BY CompressedRenumbers
<1>2. \A l \in Loops : Claimed(task'[l]) <=> Claimed(tsk[l])
  BY <1>1 DEF Renumbered, Claimed
<1>3. \A l \in Loops : task'[l].item = tsk[l].item
  BY <1>1 DEF Renumbered
<1>4. {tsk[l].item : l \in {k \in Loops : Claimed(tsk[k])}}
        = {task'[l].item : l \in {k \in Loops : Claimed(task'[k])}}
  BY <1>2, <1>3
<1>5. in_flight' \in SUBSET Items
  BY DEF Guarded
<1>6. TypeOK'
  BY <1>1, <1>2, <1>3, <1>5 DEF TypeOK, Renumbered, Guarded, TaskType, TargetType
<1>7. ClaimsAreHeld' /\ OneSweepPerItem'
  BY <1>2, <1>3, <1>4 DEF ClaimsAreHeld, OneSweepPerItem, Guarded
<1>8. SweepOwnsItsItem'
  <2> SUFFICES ASSUME NEW l \in Loops, Claimed(task'[l]) PROVE attempt'[task'[l].item] = task'[l].now
    BY DEF SweepOwnsItsItem
  <2>1. tsk[l].item \in Items /\ att[tsk[l].item] = tsk[l].now
    BY <1>2 DEF Guarded
  <2> QED BY <1>1, <1>3, <2>1 DEF Renumbered
<1> QED BY <1>6, <1>7, <1>8 DEF IInv, ClaimsGuardSweeps

\* A loop that holds nothing.
LEMMA IdleTyped ==
  /\ Idle \in TaskType /\ ~Claimed(Idle)
  /\ \A list \in Seq(TargetType) :
       LET t == [Idle EXCEPT !.pc = "read", !.list = list]
       IN  t \in TaskType /\ ~Claimed(t)
<1>1. <<>> \in Seq(TargetType)
  BY EmptySeq
<1> QED BY <1>1 DEF Idle, TaskType, Claimed, Stamp

\* What a loop holds while it sweeps an item.
SweepTask(i, s, n) == [Idle EXCEPT !.pc = "sweep", !.item = i, !.last = s, !.now = n]

LEMMA SweepTyped ==
  ASSUME NEW i \in Items, NEW s \in Stamp, NEW n \in Stamp
  PROVE  /\ SweepTask(i, s, n) \in TaskType /\ Claimed(SweepTask(i, s, n))
         /\ SweepTask(i, s, n).item = i /\ SweepTask(i, s, n).now = n
<1>1. <<>> \in Seq(TargetType)
  BY EmptySeq
<1> QED BY <1>1 DEF Idle, TaskType, Claimed, Stamp, SweepTask

\* A loop lets go of what it holds, and its claim goes with it.
LEMMA LetGo ==
  ASSUME IInv, NEW l \in Loops, NEW t \in TaskType, ~Claimed(t), NEW att,
         \A i \in Items : att[i] = attempt[i] \/ (Claimed(task[l]) /\ task[l].item = i)
  PROVE  /\ Become(l, t) \in [Loops -> TaskType]
         /\ Guarded(att, Become(l, t), IF Claimed(task[l]) THEN in_flight \ {task[l].item} ELSE in_flight)
<1>1. Guarded(attempt, task, in_flight) /\ task \in [Loops -> TaskType]
  BY NowGuarded DEF Stamped
<1> DEFINE tsk == Become(l, t)
<1>2. tsk \in [Loops -> TaskType] /\ tsk[l] = t /\ \A m \in Loops \ {l} : tsk[m] = task[m]
  BY <1>1 DEF Become
<1> HIDE DEF tsk
<1>3. \A m \in Loops : Claimed(tsk[m]) <=> m # l /\ Claimed(task[m])
  BY <1>2
<1> DEFINE rest == IF Claimed(task[l]) THEN in_flight \ {task[l].item} ELSE in_flight
<1>4. rest = {tsk[m].item : m \in {k \in Loops : Claimed(tsk[k])}}
  BY <1>1, <1>2, <1>3 DEF Guarded
<1>5. \A m \in Loops : Claimed(tsk[m]) => tsk[m].item \in Items /\ att[tsk[m].item] = tsk[m].now
  BY <1>1, <1>2, <1>3 DEF Guarded
<1>6. \A m, k \in Loops : m # k /\ Claimed(tsk[m]) /\ Claimed(tsk[k]) => tsk[m].item # tsk[k].item
  BY <1>1, <1>2, <1>3 DEF Guarded
<1> HIDE DEF rest
<1>7. Guarded(att, tsk, rest)
  BY <1>4, <1>5, <1>6 DEF Guarded
<1> QED BY <1>2, <1>7 DEF tsk, rest

LEMMA ReadIInv ==
  ASSUME IInv, ReadHot \/ ReadCold
  PROVE  IInv'
<1>1. PICK l \in Loops, ids \in SUBSET Items :
        /\ task[l].pc = "idle"
        /\ task' = Become(l, [Idle EXCEPT !.pc = "read", !.list = Targets(ids)])
        /\ UNCHANGED <<hot, in_flight, active, attempt, due>>
  <2>1. CASE ReadHot
    <3>1. {i \in hot_targets : attempt[i] <= due} \in SUBSET Items
      BY DEF hot_targets, IInv, TypeOK
    <3> QED BY <2>1, <3>1 DEF ReadHot, Loops
  <2>2. CASE ReadCold
    <3>1. cold_candidates \ hot \in SUBSET Items
      BY DEF cold_candidates, IInv, TypeOK
    <3> QED BY <2>2, <3>1 DEF ReadCold, Loops
  <2> QED BY <2>1, <2>2
<1> DEFINE t == [Idle EXCEPT !.pc = "read", !.list = Targets(ids)]
<1>2. t \in TaskType /\ ~Claimed(t)
  BY TargetsAreTheItems, IdleTyped DEF IInv
<1>3. ~Claimed(task[l])
  BY <1>1 DEF Claimed
<1> HIDE DEF t
<1>4. Guarded(attempt, Become(l, t), in_flight) /\ Become(l, t) \in [Loops -> TaskType]
  BY <1>2, <1>3, LetGo
<1>5. task' \in [Loops -> TaskType] /\ Guarded(attempt', task', in_flight')
  BY <1>1, <1>4 DEF t
<1> QED BY <1>1, <1>5 DEF IInv, TypeOK, ClaimsGuardSweeps, ClaimsAreHeld, OneSweepPerItem,
        SweepOwnsItsItem, Guarded, TaskType, TargetType

\* An attempt that is overwritten is still a stamp.
LEMMA AttemptsTyped ==
  ASSUME IInv, NEW i, NEW s \in Stamp
  PROVE  [attempt EXCEPT ![i] = s] \in [Items -> Stamp]
  BY DEF IInv, TypeOK

\* The claim of a target that is swept: nobody else had it.
LEMMA ChooseIInv ==
  ASSUME IInv, NEW l \in Loops, Choose(l)
  PROVE  IInv'
<1> DEFINE list == task[l].list
           takes == Claimable(list)
<1>1. /\ task[l].pc = "read" /\ ~Claimed(task[l])
      /\ hot' \in SUBSET Items /\ active' \in SUBSET Items
      /\ Guarded(attempt, task, in_flight) /\ Stamped(attempt, due, task)
  BY NowGuarded DEF Choose, Claimed, IInv, TypeOK
<1>2. CASE Compressed(attempt, due, Become(l, Idle)) /\ UNCHANGED in_flight
  <2>1. Guarded(attempt, Become(l, Idle), in_flight) /\ Become(l, Idle) \in [Loops -> TaskType]
    BY <1>1, IdleTyped, LetGo
  <2> QED BY <1>1, <1>2, <2>1, RenumberedIInv DEF Stamped
<1>3. ASSUME NEW k \in takes,
             LET t == [Idle EXCEPT !.pc = "sweep", !.item = list[k].item, !.last = list[k].last, !.now = Now]
             IN  /\ in_flight' = in_flight \cup {t.item}
                 /\ Compressed([attempt EXCEPT ![t.item] = t.now], due, Become(l, t))
      PROVE  IInv'
  <2>1. list[k].item \in Items /\ list[k].last \in Stamp /\ list[k].item \notin in_flight
    <3>1. task[l] \in TaskType /\ k \in DOMAIN list /\ claim(list[k].item)
      BY <1>1 DEF Claimable, Stamped
    <3>2. list[k] \in TargetType
      BY <3>1, ElementOfSeq, LenProperties DEF TaskType
    <3> QED BY <3>1, <3>2 DEF TargetType, claim
  <2>2. Now \in Stamp
    BY NowIsLater DEF IInv
  <2>3. PICK i \in Items, last \in Stamp :
          i = list[k].item /\ last = list[k].last /\ i \notin in_flight
    BY <2>1
  <2>15. PICK t : t = SweepTask(i, last, Now)
    OBVIOUS
  <2>4. t \in TaskType /\ Claimed(t) /\ t.item = i /\ t.now = Now
    BY <2>2, <2>3, <2>15, SweepTyped
  <2> DEFINE att == [attempt EXCEPT ![i] = Now]
             tsk == Become(l, t)
  <2>14. in_flight' = in_flight \cup {i} /\ Compressed(att, due, tsk)
    BY <1>3, <2>3, <2>15, <2>4 DEF SweepTask
  <2>5. /\ att \in [Items -> Stamp] /\ att[i] = Now
        /\ \A j \in Items \ {i} : att[j] = attempt[j]
    BY <1>1, <2>3, <2>15, <2>2 DEF Stamped
  <2>6. tsk \in [Loops -> TaskType] /\ tsk[l] = t /\ \A m \in Loops \ {l} : tsk[m] = task[m]
    BY <1>1, <2>4 DEF Become, Stamped
  <2> HIDE DEF att, tsk
  <2>7. \A m \in Loops : Claimed(task[m]) => task[m].item \in in_flight /\ task[m].item # i
    BY <1>1, <2>3, <2>15 DEF Guarded
  <2>8. in_flight' = {tsk[m].item : m \in {n \in Loops : Claimed(tsk[n])}}
    BY <1>1, <2>4, <2>14, <2>6, SMTT(20) DEF Guarded
  <2>9. \A m \in Loops : Claimed(tsk[m]) => tsk[m].item \in Items /\ att[tsk[m].item] = tsk[m].now
    BY <1>1, <2>3, <2>15, <2>4, <2>5, <2>6, <2>7 DEF Guarded
  <2>10. \A m, n \in Loops : m # n /\ Claimed(tsk[m]) /\ Claimed(tsk[n]) => tsk[m].item # tsk[n].item
    BY <1>1, <2>4, <2>6, <2>7 DEF Guarded
  <2>11. Guarded(att, tsk, in_flight') /\ Stamped(att, due, tsk)
    BY <1>1, <2>5, <2>6, <2>8, <2>9, <2>10 DEF Guarded, Stamped
  <2> QED BY <1>1, <2>14, <2>11, RenumberedIInv
<1> QED BY <1>2, <1>3 DEF Choose

\* The end of a sweep: its claim goes, and only its own item's attempt changes.
LEMMA SweepEndsIInv ==
  ASSUME IInv, NEW l \in Loops, StepAborts(l) \/ \E r \in Results : record_sweep(l, r)
  PROVE  IInv'
<1>1. /\ Claimed(task[l]) /\ in_flight' = in_flight \ {task[l].item}
      /\ hot' \in SUBSET Items /\ active' \in SUBSET Items
  BY DEF StepAborts, Release, record_sweep, Claimed, IInv, TypeOK
<1>2. Stamped(attempt, due, task) /\ task[l].item \in Items
        /\ task[l].last \in Stamp /\ task[l].now \in Stamp
  BY <1>1, NowGuarded DEF Guarded, Stamped, TaskType
<1>3. PICK att \in {attempt, [attempt EXCEPT ![task[l].item] = task[l].now],
                    [attempt EXCEPT ![task[l].item] = task[l].last]} :
        Compressed(att, due, Become(l, Idle))
  <2>1. CASE StepAborts(l)
    BY <2>1 DEF StepAborts
  <2>2. ASSUME NEW r \in Results, record_sweep(l, r)
        PROVE  \/ Compressed(attempt, due, Become(l, Idle))
               \/ Compressed([attempt EXCEPT ![task[l].item] = task[l].now], due, Become(l, Idle))
               \/ Compressed([attempt EXCEPT ![task[l].item] = task[l].last], due, Become(l, Idle))
    BY <2>2 DEF record_sweep, restore_attempt
  <2> QED BY <2>1, <2>2
<1>4. att \in [Items -> Stamp] /\ \A i \in Items : att[i] = attempt[i] \/ task[l].item = i
  BY <1>2, <1>3, AttemptsTyped DEF Stamped
<1>5. Guarded(att, Become(l, Idle), in_flight') /\ Become(l, Idle) \in [Loops -> TaskType]
  BY <1>1, <1>4, IdleTyped, LetGo
<1> QED BY <1>1, <1>2, <1>3, <1>4, <1>5, RenumberedIInv DEF Stamped

\* A book the trader fetched is no item a sweep holds.
LEMMA IngestIInv ==
  ASSUME IInv, NEW i \in Items, ingest_book(i)
  PROVE  IInv'
<1> DEFINE att == [attempt EXCEPT ![i] = Now]
<1>1. /\ i \notin in_flight /\ Compressed(att, due, task) /\ UNCHANGED <<hot, in_flight, active>>
      /\ Guarded(attempt, task, in_flight) /\ Stamped(attempt, due, task)
  BY NowGuarded DEF ingest_book, claim
<1>2. att \in [Items -> Stamp] /\ \A j \in Items \ {i} : att[j] = attempt[j]
  BY <1>1, NowIsLater, AttemptsTyped DEF IInv, Stamped
<1> HIDE DEF att
<1>3. \A m \in Loops : Claimed(task[m]) => task[m].item # i
  BY <1>1 DEF Guarded
<1>4. Guarded(att, task, in_flight') /\ Stamped(att, due, task)
  BY <1>1, <1>2, <1>3 DEF Guarded, Stamped
<1>5. hot' \in SUBSET Items /\ active' \in SUBSET Items
  BY <1>1 DEF IInv, TypeOK
<1> QED BY <1>1, <1>4, <1>5, RenumberedIInv

LEMMA TickIInv ==
  ASSUME IInv, Tick
  PROVE  IInv'
<1>1. due \in Nat /\ Top \in Nat
  BY NowIsLater DEF IInv, TypeOK, Stamp
<1>2. PICK d \in (due + 1)..Top : Compressed(attempt, d, task)
  BY DEF Tick
<1>3. d \in Stamp
  BY <1>1 DEF Stamp
<1>4. Guarded(attempt, task, in_flight) /\ Stamped(attempt, d, task)
  BY <1>3, NowGuarded DEF Stamped
<1>5. /\ in_flight' = in_flight /\ hot' \in SUBSET Items /\ active' \in SUBSET Items
  BY DEF Tick, IInv, TypeOK
<1> QED BY <1>2, <1>4, <1>5, RenumberedIInv

----------------------------------------------------------------------------
(* The theorems.                                                           *)

LEMMA InitIInv == Init => IInv
<1> SUFFICES ASSUME Init PROVE IInv
  OBVIOUS
<1>1. \A l \in Loops : task[l] = Idle /\ ~Claimed(task[l])
  BY IdleTyped DEF Init
<1>2. task \in [Loops -> TaskType]
  BY IdleTyped DEF Init
<1>3. in_flight = {} /\ {k \in Loops : Claimed(task[k])} = {}
  BY <1>1 DEF Init
<1>4. TypeOK
  BY <1>1, <1>2 DEF Init, TypeOK, TaskType, TargetType, Stamp
<1>5. ClaimsGuardSweeps
  BY <1>1, <1>3 DEF ClaimsGuardSweeps, ClaimsAreHeld, OneSweepPerItem, SweepOwnsItsItem
<1> QED BY <1>4, <1>5 DEF IInv

LEMMA NextIInv == IInv /\ [Next]_vars => IInv'
<1> SUFFICES ASSUME IInv, [Next]_vars PROVE IInv'
  OBVIOUS
<1>1. CASE ReadHot \/ ReadCold
  BY <1>1, ReadIInv
<1>2. ASSUME NEW l \in Loops, Choose(l) \/ StepAborts(l) \/ \E r \in Results : record_sweep(l, r)
      PROVE  IInv'
  BY <1>2, ChooseIInv, SweepEndsIInv
<1>3. ASSUME NEW i \in Items, ingest_book(i) PROVE IInv'
  BY <1>3, IngestIInv
<1>4. CASE Tick
  BY <1>4, TickIInv
<1>5. CASE refresh_hot_set \/ sync_items
  <2>1. hot' \in SUBSET Items /\ active' \in SUBSET Items /\ UNCHANGED <<in_flight, attempt, due, task>>
    BY <1>5 DEF refresh_hot_set, sync_items, IInv, TypeOK
  <2>2. TypeOK'
    BY <2>1 DEF IInv, TypeOK, Stamp, Claimed
  <2>3. ClaimsGuardSweeps'
    BY <2>1 DEF IInv, ClaimsGuardSweeps, ClaimsAreHeld, OneSweepPerItem, SweepOwnsItsItem, Claimed
  <2> QED BY <2>2, <2>3 DEF IInv
<1>6. CASE UNCHANGED vars
  BY <1>6, ZenonT(40) DEF vars, IInv, TypeOK, ClaimsGuardSweeps, ClaimsAreHeld, OneSweepPerItem, SweepOwnsItsItem
<1> QED BY <1>1, <1>2, <1>3, <1>4, <1>5, <1>6 DEF Next

\* The inductive invariant holds in every reachable state.
THEOREM Invariance == Spec => []IInv
<1>1. Init => IInv
  BY InitIInv
<1>2. IInv /\ [Next]_vars => IInv'
  BY NextIInv
<1> QED BY <1>1, <1>2, PTL DEF Spec

\* The sets, the stamps and the loops keep their types: in particular the
\* renumbered stamps are numbers, and the queries return items.
THEOREM TypeCorrect == Spec => []TypeOK
<1>1. IInv => TypeOK
  BY DEF IInv
<1> QED BY <1>1, Invariance, PTL

\* A claim lives exactly as long as its sweep, two loops never sweep one item,
\* and nothing younger is overwritten when a sweep is recorded.
THEOREM ClaimsGuardSweepsHolds == Spec => []ClaimsGuardSweeps
<1>1. IInv => ClaimsGuardSweeps
  BY DEF IInv
<1> QED BY <1>1, Invariance, PTL

-----------------------------------------------------------------------------
(* The collector's maintenance.                                             *)

\* A period is the whole part of a quotient.
LEMMA DivDef ==
  ASSUME NEW t \in Nat, NEW D \in Nat \ {0}
  PROVE  /\ t \div D \in Nat
         /\ D * (t \div D) <= t /\ t < D * ((t \div D) + 1)
OBVIOUS

\* What is at most k periods back lies at most k periods back in number.
LEMMA Reach ==
  ASSUME NEW a \in Nat, NEW b \in Nat, NEW k \in Nat, NEW D \in Nat \ {0}, b - a <= k * D
  PROVE  (b \div D) - k <= a \div D
<1> DEFINE q == b \div D
           p == a \div D
<1>1. q \in Nat /\ p \in Nat /\ D * q <= b /\ a < D * (p + 1)
  BY DivDef
<1> HIDE DEF q, p
<1>2. SUFFICES ASSUME p + 1 <= q - k PROVE FALSE
  BY <1>1 DEF q, p
<1>3. D * (p + 1) <= D * (q - k)
  BY <1>1, <1>2
<1>4. D * (q - k) = D * q - k * D
  BY <1>1
<1> QED BY <1>1, <1>3, <1>4

\* What is k + 1 periods back or more lies before the k-th period back.
LEMMA Far ==
  ASSUME NEW a \in Nat, NEW b \in Nat, NEW k \in Nat, NEW D \in Nat \ {0}, b - a >= (k + 1) * D
  PROVE  (b \div D) - k > a \div D
<1> DEFINE q == b \div D
           p == a \div D
<1>1. q \in Nat /\ p \in Nat /\ D * p <= a /\ b < D * (q + 1)
  BY DivDef
<1> HIDE DEF q, p
<1>2. SUFFICES ASSUME q - k <= p PROVE FALSE
  BY <1>1 DEF q, p
<1>3. D * (q + 1) <= D * (p + (k + 1))
  BY <1>1, <1>2
<1>4. D * (p + (k + 1)) = D * p + (k + 1) * D
  BY <1>1
<1> QED BY <1>1, <1>3, <1>4

LEMMA Mono ==
  ASSUME NEW a \in Nat, NEW b \in Nat, NEW D \in Nat \ {0}, a <= b
  PROVE  a \div D <= b \div D
<1>1. a - b <= 0 * D
  OBVIOUS
<1>2. (a \div D) - 0 <= b \div D
  BY <1>1, Reach
<1> QED BY <1>2, DivDef

LEMMA RollupsInit ==
  ASSUME M!Init
  PROVE  M!RollupsInv
BY RollupsAssumption DEF M!Init, M!RollupsInv, M!TypeOK, M!ClocksInOrder, M!HoursAreRolled, M!DaysAreRolled,
   M!DeletedIsOld, M!DeletedRowsWereRolledUp, M!Idle, M!Empty

\* Time passes, a sweep writes a summary, an order vanishes.
LEMMA WorldKeepsRollups ==
  ASSUME M!RollupsInv,
         \/ M!Tick
         \/ \E s \in Summaries : M!Sweep(s)
         \/ \E v \in Vanishes : M!Vanish(v)
  PROVE  M!RollupsInv'
<1> USE RollupsAssumption DEF M!RollupsInv
<1>1. CASE M!Tick
  BY <1>1 DEF M!Tick, M!TypeOK, M!ClocksInOrder, M!HoursAreRolled, M!DaysAreRolled, M!DeletedIsOld,
     M!DeletedRowsWereRolledUp, M!InHourly, M!InDaily, M!Traded, M!Vanished
<1>2. CASE \E s \in Summaries : M!Sweep(s)
  <2>1. PICK s \in Summaries, at \in {x1, x1 - 1} \cap Nat :
          /\ s \notin DOMAIN x4 /\ x4' = M!Put(x4, s, at)
          /\ UNCHANGED <<x1, x2, x3, x5, x6, x7, x8, x9>>
    BY <1>2 DEF M!Sweep
  <2>2. /\ DOMAIN x4' = DOMAIN x4 \cup {s} /\ x4'[s] = at
        /\ \A r \in DOMAIN x4 : x4'[r] = x4[r]
    BY <2>1 DEF M!Put
  <2>3. M!TypeOK' /\ M!ClocksInOrder' /\ M!DaysAreRolled' /\ M!DeletedIsOld' /\ M!DeletedRowsWereRolledUp'
    BY <2>1, <2>2 DEF M!TypeOK, M!ClocksInOrder, M!DaysAreRolled, M!DeletedIsOld,
       M!DeletedRowsWereRolledUp, M!InDaily, M!Traded
  <2>4. M!HoursAreRolled'
    BY <2>1, <2>2 DEF M!HoursAreRolled, M!InHourly, M!TypeOK, M!ClocksInOrder
  <2> QED BY <2>3, <2>4
<1>3. CASE \E v \in Vanishes : M!Vanish(v)
  <2>1. PICK v \in Vanishes :
          /\ v \notin DOMAIN x5 /\ x5' = M!Put(x5, v, [at |-> x1, status |-> "pending"])
          /\ UNCHANGED <<x1, x2, x3, x4, x6, x7, x8, x9>>
    BY <1>3 DEF M!Vanish
  <2>2. /\ DOMAIN x5' = DOMAIN x5 \cup {v} /\ x5'[v] = [at |-> x1, status |-> "pending"]
        /\ \A w \in DOMAIN x5 : x5'[w] = x5[w]
    BY <2>1 DEF M!Put
  <2>3. M!TypeOK' /\ M!ClocksInOrder' /\ M!HoursAreRolled' /\ M!DeletedIsOld' /\ M!DeletedRowsWereRolledUp'
    BY <2>1, <2>2 DEF M!TypeOK, M!ClocksInOrder, M!HoursAreRolled, M!DeletedIsOld,
       M!DeletedRowsWereRolledUp, M!InHourly, M!Vanished
  <2>4. M!DaysAreRolled'
    BY <2>1, <2>2 DEF M!DaysAreRolled, M!InDaily, M!Traded, M!TypeOK, M!ClocksInOrder, M!Vanished
  <2> QED BY <2>3, <2>4
<1> QED BY <1>1, <1>2, <1>3

\* A pass begins, resolves what is due, or ends half-way.
LEMMA PassKeepsRollups ==
  ASSUME M!RollupsInv, M!maintenance_loop \/ M!resolve_and_recompute \/ M!PassEnds
  PROVE  M!RollupsInv'
<1> USE RollupsAssumption DEF M!RollupsInv
<1>1. CASE M!maintenance_loop
  BY <1>1 DEF M!maintenance_loop, M!TypeOK, M!ClocksInOrder, M!HoursAreRolled, M!DaysAreRolled,
     M!DeletedIsOld, M!DeletedRowsWereRolledUp, M!InHourly, M!InDaily, M!Traded, M!Idle
<1>2. CASE M!PassEnds
  BY <1>2 DEF M!PassEnds, M!TypeOK, M!ClocksInOrder, M!HoursAreRolled, M!DaysAreRolled,
     M!DeletedIsOld, M!DeletedRowsWereRolledUp, M!InHourly, M!InDaily, M!Traded, M!Idle
<1>3. CASE M!resolve_and_recompute
  <2> DEFINE overdue == {v \in DOMAIN x5 : x5[v].status = "pending" /\ x5[v].at <= x3.now - RelistWindow}
  <2>1. PICK some \in SUBSET overdue :
          /\ x5' = [v \in DOMAIN x5 |->
                      IF v \in some THEN [x5[v] EXCEPT !.status = "trade"] ELSE x5[v]]
          /\ x3' = [x3 EXCEPT !.pc = "hourly", !.whole = (some = overdue)]
          /\ x3.pc = "resolve" /\ UNCHANGED <<x1, x2, x4, x6, x7, x8, x9>>
    BY <1>3 DEF M!resolve_and_recompute
  <2>2. /\ x3'.pc = "hourly" /\ x3'.now = x3.now /\ x3'.whole = (some = overdue)
        /\ x3' \in [pc : {"idle", "resolve", "hourly", "daily", "retain"}, now : Nat, whole : BOOLEAN]
    BY <2>1 DEF M!TypeOK
  <2>3. /\ DOMAIN x5' = DOMAIN x5
        /\ \A v \in DOMAIN x5 : /\ x5'[v] \in M!Vanished /\ x5'[v].at = x5[v].at
                               /\ x5'[v].status = IF v \in some THEN "trade" ELSE x5[v].status
    BY <2>1 DEF M!TypeOK, M!Vanished
  <2>4. M!TypeOK' /\ M!ClocksInOrder' /\ M!HoursAreRolled' /\ M!DeletedIsOld' /\ M!DeletedRowsWereRolledUp'
    BY <2>1, <2>2, <2>3 DEF M!TypeOK, M!ClocksInOrder, M!HoursAreRolled, M!DeletedIsOld,
       M!DeletedRowsWereRolledUp, M!InHourly
  <2>5. M!DaysAreRolled'
    <3>1. \A v \in DOMAIN x5 : x5[v].at \in Nat /\ x5[v].status \in {"pending", "trade"}
      BY DEF M!TypeOK, M!Vanished
    <3>2. \A v \in DOMAIN x5' : x5'[v].at <= x2' - RelistWindow => M!Traded(v)' /\ M!InDaily(v)'
      BY <2>1, <2>3 DEF M!DaysAreRolled, M!InDaily, M!Traded
    <3>3. x3'.whole => \A v \in DOMAIN x5' : x5'[v].at <= x3'.now - RelistWindow => M!Traded(v)'
      BY <2>2, <2>3, <3>1 DEF M!Traded
    <3> QED
      BY <2>2, <3>2, <3>3 DEF M!DaysAreRolled
  <2> QED BY <2>4, <2>5, SMTT(20)
<1> QED BY <1>1, <1>2, <1>3

\* The hours before the pass are written as the summaries have them now; the rows of summaries
\* that were deleted are of older hours.
LEMMA HourlyKeepsRollups ==
  ASSUME M!RollupsInv, M!rollup_hourly
  PROVE  M!RollupsInv'
<1> USE RollupsAssumption DEF M!RollupsInv
<1> DEFINE of(h) == {s \in DOMAIN x4 : x4[s] = h}
           hours == {h \in M!RolledHours(x3.now) : of(h) # {}}
<1>1. /\ x3.pc = "hourly" /\ x3' = [x3 EXCEPT !.pc = "daily"]
      /\ x6' = [h \in DOMAIN x6 \cup hours |-> IF h \in hours THEN of(h) ELSE x6[h]]
      /\ UNCHANGED <<x1, x2, x4, x5, x7, x8, x9>>
  BY DEF M!rollup_hourly
<1>2. /\ x3'.pc = "daily" /\ x3'.now = x3.now /\ x3'.whole = x3.whole
      /\ x3' \in [pc : {"idle", "resolve", "hourly", "daily", "retain"}, now : Nat, whole : BOOLEAN]
  BY <1>1 DEF M!TypeOK
<1>3. ASSUME NEW s \in DOMAIN x4, M!InHourly(s) \/ x4[s] \in M!RolledHours(x3.now)
      PROVE  M!InHourly(s)'
  <2>1. CASE x4[s] \in M!RolledHours(x3.now)
    <3>1. s \in of(x4[s]) /\ x4[s] \in hours
      BY <2>1
    <3> QED BY <1>1, <3>1 DEF M!InHourly
  <2>2. CASE x4[s] \notin M!RolledHours(x3.now)
    BY <1>1, <1>3, <2>2 DEF M!InHourly
  <2> QED BY <2>1, <2>2
<1>4. ASSUME NEW s \in DOMAIN x4, x4[s] <= x3.now - 2
      PROVE  M!InHourly(s)'
  <2>1. x4[s] \in Nat /\ x2 \in Nat /\ x3.now \in Nat /\ x3.now - x2 <= MaxOutage
    BY <1>1 DEF M!TypeOK, M!ClocksInOrder
  <2>2. CASE x4[s] <= x2 - 2
    BY <1>3, <2>2 DEF M!HoursAreRolled
  <2>3. CASE x4[s] > x2 - 2
    <3>1. x4[s] \in M!RolledHours(x3.now)
      BY <1>4, <2>1, <2>3 DEF M!RolledHours
    <3> QED BY <1>3, <3>1
  <2> QED BY <2>1, <2>2, <2>3
<1>5. M!HoursAreRolled'
  BY <1>1, <1>2, <1>3, <1>4 DEF M!HoursAreRolled
<1>6. M!TypeOK' /\ M!ClocksInOrder' /\ M!DaysAreRolled' /\ M!DeletedIsOld'
  BY <1>1, <1>2 DEF M!TypeOK, M!ClocksInOrder, M!DaysAreRolled, M!DeletedIsOld, M!InDaily, M!Traded
<1>7. M!DeletedRowsWereRolledUp'
  <2>1. ASSUME NEW s \in DOMAIN x8
        PROVE  x8[s] \notin hours
    <3>1. x8[s] \in Nat /\ x8[s] < x3.now - SummaryRetention /\ x3.now \in Nat
      BY <1>1 DEF M!DeletedIsOld, M!TypeOK
    <3> QED BY <3>1 DEF M!RolledHours
  <2> QED
    BY <1>1, <2>1 DEF M!DeletedRowsWereRolledUp
<1> QED
  BY <1>5, <1>6, <1>7

\* Trades of days the pass no longer writes have their rows; those of deleted ones stay as they are.
LEMMA DailyKeepsRollups ==
  ASSUME M!RollupsInv, M!rollup_daily
  PROVE  M!RollupsInv'
<1> USE RollupsAssumption DEF M!RollupsInv
<1> DEFINE trades(d) == {v \in DOMAIN x5 : x5[v].status = "trade" /\ M!Day(x5[v].at) = d}
           days == {d \in (M!Day(x3.now) - RollupDays)..M!Day(x1) : trades(d) # {}}
<1>1. PICK some \in SUBSET days :
        /\ x3.pc = "daily" /\ x3' = IF some = days THEN [x3 EXCEPT !.pc = "retain"] ELSE M!Idle
        /\ x7' = [d \in DOMAIN x7 \cup some |-> IF d \in some THEN trades(d) ELSE x7[d]]
        /\ UNCHANGED <<x1, x2, x4, x5, x6, x8, x9>>
  BY DEF M!rollup_daily
<1>2. /\ x3'.pc \in {"idle", "retain"}
      /\ x3'.pc = "retain" => some = days /\ x3'.now = x3.now /\ x3'.whole = x3.whole
      /\ x3' \in [pc : {"idle", "resolve", "hourly", "daily", "retain"}, now : Nat, whole : BOOLEAN]
  BY <1>1 DEF M!TypeOK, M!Idle
<1>3. ASSUME NEW v \in DOMAIN x5, M!Traded(v)
      PROVE  /\ M!InDaily(v) => M!InDaily(v)'
             /\ M!Day(x5[v].at) \in some => M!InDaily(v)'
  <2>1. CASE M!Day(x5[v].at) \in some
    <3>1. v \in trades(M!Day(x5[v].at))
      BY <1>3 DEF M!Traded
    <3> QED BY <1>1, <2>1, <3>1 DEF M!InDaily
  <2>2. CASE M!Day(x5[v].at) \notin some
    BY <1>1, <2>2 DEF M!InDaily
  <2> QED BY <2>1, <2>2
<1>4. \A v \in DOMAIN x5 : x5[v].at <= x2 - RelistWindow => M!Traded(v) /\ M!InDaily(v)'
  BY <1>3 DEF M!DaysAreRolled
<1>5. ASSUME some = days, NEW v \in DOMAIN x5, M!Traded(v)
      PROVE  M!InDaily(v)'
  <2>1. /\ x5[v].at \in Nat /\ x2 \in Nat /\ x3.now \in Nat /\ x1 \in Nat /\ x3.now - x2 <= MaxOutage
        /\ x5[v].at <= x1
    BY <1>1 DEF M!TypeOK, M!ClocksInOrder, M!Vanished
  <2>2. CASE x5[v].at <= x2 - RelistWindow
    BY <1>4, <2>2
  <2>3. CASE x5[v].at > x2 - RelistWindow
    <3>1. RollupDays * DayHours \in Nat
      OBVIOUS
    <3>2. x3.now - x5[v].at <= RollupDays * DayHours
      BY <2>1, <2>3, <3>1
    <3>3. M!Day(x3.now) - RollupDays <= M!Day(x5[v].at)
      <4>1. RollupDays \in Nat /\ DayHours \in Nat \ {0} /\ x5[v].at \in Nat /\ x3.now \in Nat
        BY <2>1
      <4>2. (x3.now \div DayHours) - RollupDays <= x5[v].at \div DayHours
        BY ONLY <3>2, <4>1, Reach
      <4> QED BY <4>2 DEF M!Day
    <3>4. M!Day(x5[v].at) <= M!Day(x1)
      BY <2>1, Mono DEF M!Day
    <3>5. M!Day(x5[v].at) \in Nat /\ M!Day(x3.now) \in Nat /\ M!Day(x1) \in Nat
      BY <2>1, DivDef DEF M!Day
    <3>6. M!Day(x5[v].at) \in (M!Day(x3.now) - RollupDays)..M!Day(x1)
      BY <3>3, <3>4, <3>5
    <3>7. v \in trades(M!Day(x5[v].at))
      BY <1>5 DEF M!Traded
    <3>8. M!Day(x5[v].at) \in some
      BY <1>5, <3>6, <3>7
    <3> QED BY <1>3, <1>5, <3>8
  <2> QED BY <2>1, <2>2, <2>3
<1>6. M!DaysAreRolled'
  BY <1>1, <1>2, <1>4, <1>5 DEF M!DaysAreRolled, M!Traded
<1>7. M!TypeOK' /\ M!ClocksInOrder' /\ M!HoursAreRolled' /\ M!DeletedIsOld'
  BY <1>1, <1>2 DEF M!TypeOK, M!ClocksInOrder, M!HoursAreRolled, M!DeletedIsOld, M!InHourly
<1>8. M!DeletedRowsWereRolledUp'
  <2>1. ASSUME NEW v \in DOMAIN x9
        PROVE  M!Day(x9[v].at) \notin days
    <3>1. x9[v].at \in Nat /\ x9[v].at < x3.now - VanishedRetention /\ x3.now \in Nat
      BY <1>1 DEF M!DeletedIsOld, M!TypeOK, M!Vanished
    <3>2. (RollupDays + 1) * DayHours \in Nat
      OBVIOUS
    <3>3. x3.now - x9[v].at >= (RollupDays + 1) * DayHours
      BY <3>1, <3>2
    <3>4. M!Day(x3.now) - RollupDays > M!Day(x9[v].at)
      <4>1. RollupDays \in Nat /\ DayHours \in Nat \ {0} /\ x9[v].at \in Nat /\ x3.now \in Nat
        BY <3>1
      <4>2. (x3.now \div DayHours) - RollupDays > x9[v].at \div DayHours
        BY ONLY <3>3, <4>1, Far
      <4> QED BY <4>2 DEF M!Day
    <3>5. M!Day(x9[v].at) \in Nat /\ M!Day(x3.now) \in Nat
      BY <3>1, DivDef DEF M!Day
    <3> QED BY <3>4, <3>5
  <2> QED
    BY <1>1, <2>1 DEF M!DeletedRowsWereRolledUp
<1> QED
  BY <1>6, <1>7, <1>8

\* At the end of a pass all that is old enough to go is rolled up.
LEMMA RetentionKeepsRollups ==
  ASSUME M!RollupsInv, M!apply_retention
  PROVE  M!RollupsInv'
<1> USE RollupsAssumption DEF M!RollupsInv
<1> DEFINE old == {s \in DOMAIN x4 : x4[s] < x3.now - SummaryRetention}
           gone == {v \in DOMAIN x5 : x5[v].at < x3.now - VanishedRetention}
<1>1. /\ x3.pc = "retain" /\ x3' = M!Idle /\ x4' = M!Without(x4, old)
      /\ x8' = [s \in DOMAIN x8 \cup old |-> IF s \in old THEN x4[s] ELSE x8[s]]
      /\ \/ /\ x5' = M!Without(x5, gone)
            /\ x9' = [v \in DOMAIN x9 \cup gone |-> IF v \in gone THEN x5[v] ELSE x9[v]]
            /\ x2' = IF x3.whole THEN x3.now ELSE x2
         \/ UNCHANGED <<x5, x9, x2>>
      /\ UNCHANGED <<x1, x6, x7>>
  BY DEF M!apply_retention
<1>2. /\ DOMAIN x4' \subseteq DOMAIN x4 /\ \A s \in DOMAIN x4' : x4'[s] = x4[s]
      /\ DOMAIN x5' \subseteq DOMAIN x5 /\ \A v \in DOMAIN x5' : x5'[v] = x5[v]
      /\ x3'.pc = "idle" /\ x3' \in [pc : {"idle", "resolve", "hourly", "daily", "retain"}, now : Nat, whole : BOOLEAN]
  BY <1>1 DEF M!Without, M!Idle
<1>3. \A s \in DOMAIN x8' : /\ x8'[s] \in Nat /\ x8'[s] < x1 - SummaryRetention
                            /\ x8'[s] \in DOMAIN x6 /\ s \in x6[x8'[s]]
  <2>1. ASSUME NEW s \in old
        PROVE  /\ x4[s] \in Nat /\ x4[s] < x1 - SummaryRetention
               /\ x4[s] \in DOMAIN x6 /\ s \in x6[x4[s]]
    <3>1. x4[s] \in Nat /\ x3.now \in Nat /\ x1 \in Nat /\ x3.now <= x1
      BY <1>1 DEF M!TypeOK, M!ClocksInOrder
    <3>2. x4[s] <= x3.now - 2
      BY <3>1
    <3>3. M!InHourly(s)
      BY <1>1, <3>2 DEF M!HoursAreRolled
    <3> QED BY <3>1, <3>3 DEF M!InHourly
  <2>2. ASSUME NEW s \in DOMAIN x8
        PROVE  /\ x8[s] \in Nat /\ x8[s] < x1 - SummaryRetention
               /\ x8[s] \in DOMAIN x6 /\ s \in x6[x8[s]]
    BY DEF M!TypeOK, M!DeletedIsOld, M!DeletedRowsWereRolledUp
  <2> QED BY <1>1, <2>1, <2>2
<1>4. \A v \in DOMAIN x9' :
        /\ x9'[v] \in M!Vanished /\ x9'[v].at < x1 - VanishedRetention
        /\ x9'[v].status = "trade" => M!Day(x9'[v].at) \in DOMAIN x7 /\ v \in x7[M!Day(x9'[v].at)]
  <2>1. ASSUME NEW v \in gone
        PROVE  /\ x5[v] \in M!Vanished /\ x5[v].at < x1 - VanishedRetention
               /\ x5[v].status = "trade" => M!Day(x5[v].at) \in DOMAIN x7 /\ v \in x7[M!Day(x5[v].at)]
    <3>1. x5[v] \in M!Vanished /\ x5[v].at \in Nat /\ x3.now \in Nat /\ x1 \in Nat /\ x3.now <= x1
      BY <1>1 DEF M!TypeOK, M!ClocksInOrder, M!Vanished
    <3> QED BY <1>1, <3>1 DEF M!DaysAreRolled, M!Traded, M!InDaily
  <2>2. ASSUME NEW v \in DOMAIN x9
        PROVE  /\ x9[v] \in M!Vanished /\ x9[v].at < x1 - VanishedRetention
               /\ x9[v].status = "trade" => M!Day(x9[v].at) \in DOMAIN x7 /\ v \in x7[M!Day(x9[v].at)]
    BY DEF M!TypeOK, M!DeletedIsOld, M!DeletedRowsWereRolledUp
  <2> QED BY <1>1, <2>1, <2>2
<1>5. /\ x2' \in Nat /\ x2' <= x1 /\ x1 - x2' <= MaxOutage
      /\ x2' = x2 \/ (x2' = x3.now /\ x3.whole)
  BY <1>1 DEF M!TypeOK, M!ClocksInOrder
<1>6. M!TypeOK' /\ M!ClocksInOrder'
  BY <1>1, <1>2, <1>3, <1>4, <1>5 DEF M!TypeOK, M!ClocksInOrder
<1>7. M!HoursAreRolled'
  BY <1>1, <1>2, <1>5 DEF M!HoursAreRolled, M!InHourly
<1>8. M!DaysAreRolled'
  BY <1>1, <1>2, <1>5 DEF M!DaysAreRolled, M!InDaily, M!Traded
<1>9. M!DeletedIsOld' /\ M!DeletedRowsWereRolledUp'
  BY <1>1, <1>2, <1>3, <1>4 DEF M!DeletedIsOld, M!DeletedRowsWereRolledUp
<1> QED
  BY <1>6, <1>7, <1>8, <1>9

LEMMA RollupsNext ==
  ASSUME M!RollupsInv, M!Next
  PROVE  M!RollupsInv'
BY WorldKeepsRollups, PassKeepsRollups, HourlyKeepsRollups, DailyKeepsRollups, RetentionKeepsRollups DEF M!Next

-----------------------------------------------------------------------------
(* The order book.                                                          *)

LEMMA FewerFacts ==
  ASSUME NEW a \in Nat, NEW b \in Nat
  PROVE  O!Fewer(a, b) \in Nat /\ O!Fewer(a, b) >= a - b
BY DEF O!Fewer

\* What recording a book does: the orders in it are seen, a row is new or was there, and an
\* order that is edited counts the units it lost.
LEMMA SeenIs ==
  ASSUME O!TypeOK, NEW b \in [Orders -> Nat], NEW at \in Nat, NEW e, O!apply_sweep(b, at, e)
  PROVE  /\ DOMAIN x3' = {o \in Orders : b[o] > 0}
         /\ \A o \in DOMAIN x3' :
              /\ x3'[o] \in [quantity : Nat, first_seen : Nat] /\ x3'[o].quantity = b[o]
              /\ x3'[o].first_seen = IF o \in DOMAIN x3 THEN x3[o].first_seen ELSE at
         /\ x1' = x1 /\ x2' = x2
<1> DEFINE current == O!to_seen(b, at)
<1>1. /\ DOMAIN current = {o \in Orders : b[o] > 0}
      /\ \A o \in DOMAIN current : current[o] = [quantity |-> b[o], first_seen |-> at]
  BY DEF O!to_seen
<1>2. x3' = O!Seen(x3, current) /\ x1' = x1 /\ x2' = x2
  BY DEF O!apply_sweep
<1>3. \A o \in DOMAIN x3 : x3[o] \in [quantity : Nat, first_seen : Nat]
  BY DEF O!TypeOK
<1> HIDE DEF current
<1>4. /\ DOMAIN x3' = DOMAIN current
      /\ \A o \in DOMAIN current :
           x3'[o] = IF o \in DOMAIN x3 THEN [x3[o] EXCEPT !.quantity = current[o].quantity] ELSE current[o]
  BY <1>2 DEF O!Seen
<1> QED
  BY <1>1, <1>2, <1>3, <1>4

LEMMA RowsAre ==
  ASSUME O!TypeOK, NEW b \in [Orders -> Nat], NEW at \in Nat, NEW e, O!apply_sweep(b, at, e),
         NEW id \in DOMAIN x4'
  PROVE  \/ id \in DOMAIN x4 /\ x4'[id] = x4[id]
         \/ \E o \in DOMAIN x3 :
              /\ x4'[id] \in O!VanishedRow
              /\ x4'[id].order = o /\ x4'[id].first_seen = x3[o].first_seen /\ x4'[id].vanished_at = at
              /\ x4'[id].kind = "full" => x4'[id].status # "trade"
<1> DEFINE current == O!to_seen(b, at)
           d == O!diff_orders(x3, current)
           rows == O!NewRows(d, x3, current, at, e)
           lost == O!Drops(d, x3, current)
<1>1. O!insert_vanish(rows)
  BY DEF O!apply_sweep
<1>2. /\ DOMAIN current = {o \in Orders : b[o] > 0}
      /\ \A o \in DOMAIN current : current[o] = [quantity |-> b[o], first_seen |-> at]
  BY DEF O!to_seen
<1>3. /\ DOMAIN x3 \subseteq Orders
      /\ \A o \in DOMAIN x3 : x3[o] \in [quantity : Nat, first_seen : Nat]
  BY DEF O!TypeOK
<1>4. /\ d.vanished = DOMAIN x3 \ DOMAIN current
      /\ d.changed \subseteq DOMAIN x3 \cap DOMAIN current
  BY DEF O!diff_orders
<1> HIDE DEF current, d
<1>5. lost \subseteq d.changed /\ \A o \in lost : O!quantity_drop(o, x3, current) \in Nat
  <2>1. lost \subseteq d.changed
    BY DEF O!Drops
  <2>2. ASSUME NEW o \in d.changed PROVE O!quantity_drop(o, x3, current) \in Nat
    <3>1. x3[o].quantity \in Nat /\ current[o].quantity \in Nat
      BY <1>2, <1>3, <1>4
    <3> QED BY <3>1, FewerFacts DEF O!quantity_drop
  <2> QED BY <2>1, <2>2
<1> HIDE DEF lost
<1>6. DOMAIN rows = d.vanished \cup lost
  BY DEF O!NewRows, lost
<1>7. ASSUME NEW o \in DOMAIN rows
      PROVE  /\ o \in DOMAIN x3 /\ rows[o] \in O!VanishedRow
             /\ rows[o].order = o /\ rows[o].first_seen = x3[o].first_seen /\ rows[o].vanished_at = at
             /\ rows[o].kind = "full" => rows[o].status # "trade"
  <2>1. CASE o \in d.vanished
    <3>1. \E st \in {"gap", "pending"} :
            rows[o] = [order |-> o, quantity |-> x3[o].quantity, first_seen |-> x3[o].first_seen,
                       vanished_at |-> at, kind |-> "full", status |-> st]
      BY <1>6, <2>1 DEF O!NewRows, O!Row
    <3> QED BY <1>3, <1>4, <2>1, <3>1 DEF O!VanishedRow
  <2>2. CASE o \notin d.vanished
    <3>1. rows[o] = [order |-> o, quantity |-> O!quantity_drop(o, x3, current),
                     first_seen |-> x3[o].first_seen, vanished_at |-> at,
                     kind |-> "partial", status |-> "trade"]
      BY <1>6, <2>2 DEF O!NewRows, O!Row
    <3>2. o \in lost /\ o \in DOMAIN x3
      BY <1>4, <1>5, <1>6, <2>2
    <3> QED BY <1>3, <1>5, <3>1, <3>2 DEF O!VanishedRow
  <2> QED BY <2>1, <2>2
<1> HIDE DEF rows
<1>8. CASE x4' = x4
  BY <1>8
<1>9. CASE \E n \in O!Free :
             LET ids == {[order |-> o, nr |-> n] : o \in DOMAIN rows}
             IN  x4' = [i \in DOMAIN x4 \cup ids |-> IF i \in ids THEN rows[i.order] ELSE x4[i]]
  <2> PICK n \in O!Free :
             LET ids == {[order |-> o, nr |-> n] : o \in DOMAIN rows}
             IN  x4' = [i \in DOMAIN x4 \cup ids |-> IF i \in ids THEN rows[i.order] ELSE x4[i]]
    BY <1>9
  <2> DEFINE ids == {[order |-> o, nr |-> n] : o \in DOMAIN rows}
  <2>1. x4' = [i \in DOMAIN x4 \cup ids |-> IF i \in ids THEN rows[i.order] ELSE x4[i]]
    OBVIOUS
  <2>2. id \in ids => id.order \in DOMAIN rows
    OBVIOUS
  <2> HIDE DEF ids
  <2> QED BY <1>7, <2>1, <2>2
<1> QED
  BY <1>1, <1>8, <1>9 DEF O!insert_vanish

LEMMA CountedIs ==
  ASSUME O!TypeOK, NEW b \in [Orders -> Nat], NEW at \in Nat, NEW e, O!apply_sweep(b, at, e),
         NEW o \in Orders
  PROVE  x8'[o] = x8[o] - IF o \in DOMAIN x3 /\ b[o] > 0 THEN O!Fewer(x3[o].quantity, b[o]) ELSE 0
<1> DEFINE current == O!to_seen(b, at)
           d == O!diff_orders(x3, current)
<1>1. x8'[o] = x8[o] - IF o \in d.changed THEN O!quantity_drop(o, x3, current) ELSE 0
  BY DEF O!apply_sweep
<1>2. /\ DOMAIN current = {p \in Orders : b[p] > 0}
      /\ \A p \in DOMAIN current : current[p] = [quantity |-> b[p], first_seen |-> at]
  BY DEF O!to_seen
<1>3. \A p \in DOMAIN x3 : x3[p] \in [quantity : Nat, first_seen : Nat]
  BY DEF O!TypeOK
<1>4. d.changed = {p \in DOMAIN current \cap DOMAIN x3 : current[p].quantity # x3[p].quantity}
  BY DEF O!diff_orders
<1> HIDE DEF current, d
<1>5. o \in DOMAIN current <=> b[o] > 0
  BY <1>2
<1>6. o \in DOMAIN current => O!quantity_drop(o, x3, current) = O!Fewer(x3[o].quantity, b[o])
  BY <1>2 DEF O!quantity_drop
<1>7. o \in DOMAIN x3 /\ x3[o].quantity = b[o] => O!Fewer(x3[o].quantity, b[o]) = 0
  BY <1>3 DEF O!Fewer
<1>8. o \in d.changed <=> o \in DOMAIN x3 /\ b[o] > 0 /\ b[o] # x3[o].quantity
  BY <1>2, <1>4, <1>5
<1> QED
  BY <1>1, <1>5, <1>6, <1>7, <1>8

LEMMA BookInit ==
  ASSUME O!Init
  PROVE  O!BookInv
<1> USE BookAssumption DEF O!Init, O!Quantity, O!None
<1>1. DOMAIN x3 = {} /\ DOMAIN x4 = {}
  OBVIOUS
<1>2. O!TypeOK
  <2>1. x1 \in Nat /\ x2 \in [Orders -> Nat] /\ x8 \in [Orders -> Int] /\ x9 \in BOOLEAN
    <3>1. 0..MaxQuantity \subseteq Nat
      OBVIOUS
    <3>2. x2 \in [Orders -> 0..MaxQuantity]
      OBVIOUS
    <3>3. x2 \in [Orders -> Nat]
      BY <3>1, <3>2
    <3>4. x8 \in [Orders -> Int]
      OBVIOUS
    <3>5. x1 = 0 /\ x9 = FALSE
      OBVIOUS
    <3> QED BY ONLY <3>3, <3>4, <3>5
  <2>2. x6 = O!None /\ x7 = O!None
    OBVIOUS
  <2> QED BY <1>1, <2>1, <2>2, Zenon DEF O!TypeOK
<1>3. O!SweepIsLatest /\ O!DropsAreReal /\ O!TradesHadTheirWindow
  BY <1>1 DEF O!SweepIsLatest, O!DropsAreReal, O!TradesHadTheirWindow
<1>4. O!PartialsAreReal /\ O!ReturnedOrdersAreNoTrades
  BY <1>1 DEF O!PartialsAreReal, O!ReturnedOrdersAreNoTrades
<1> QED
  BY <1>2, <1>3, <1>4 DEF O!BookInv

\* A book recorded under the claim, or without one: the rows.
LEMMA RecordKeepsRows ==
  ASSUME O!BookInv, NEW b \in [Orders -> Nat], NEW at \in Nat, NEW e, O!apply_sweep(b, at, e),
         at <= x1, x6' = O!None,
         \A o \in DOMAIN x3 : x3[o].first_seen <= at,
         \A id \in DOMAIN x4 : x4[id].kind = "full" /\ x4[id].status = "trade" =>
            \/ x4[id].vanished_at + OrderWindow <= at
            \/ \A o \in DOMAIN x3 : o = x4[id].order =>
                 ~(x3[o].first_seen > x4[id].vanished_at /\ x3[o].first_seen <= x4[id].vanished_at + OrderWindow)
  PROVE  /\ (O!SweepIsLatest)' /\ (O!TradesHadTheirWindow)' /\ (O!ReturnedOrdersAreNoTrades)'
         /\ x1' \in Nat /\ x2' \in [Orders -> Nat] /\ x8' \in [Orders -> Int]
         /\ DOMAIN x3' \subseteq Orders /\ \A o \in DOMAIN x3' : x3'[o] \in [quantity : Nat, first_seen : Nat]
         /\ \A id \in DOMAIN x4' : x4'[id] \in O!VanishedRow
<1> USE BookAssumption
<1>1. O!TypeOK /\ O!SweepIsLatest /\ O!TradesHadTheirWindow /\ O!ReturnedOrdersAreNoTrades
  BY DEF O!BookInv
<1>2. /\ x1 \in Nat /\ x2 \in [Orders -> Nat] /\ x8 \in [Orders -> Int]
      /\ DOMAIN x3 \subseteq Orders /\ \A o \in DOMAIN x3 : x3[o] \in [quantity : Nat, first_seen : Nat]
      /\ \A id \in DOMAIN x4 : x4[id] \in O!VanishedRow
  BY <1>1 DEF O!TypeOK
<1>3. /\ DOMAIN x3' = {o \in Orders : b[o] > 0}
      /\ \A o \in DOMAIN x3' :
           /\ x3'[o] \in [quantity : Nat, first_seen : Nat]
           /\ x3'[o].first_seen = IF o \in DOMAIN x3 THEN x3[o].first_seen ELSE at
      /\ x1' = x1 /\ x2' = x2
  BY <1>1, SeenIs
<1> DEFINE Same(id) == id \in DOMAIN x4 /\ x4'[id] = x4[id]
           New(id) == \E o \in DOMAIN x3 :
             /\ x4'[id].order = o /\ x4'[id].first_seen = x3[o].first_seen /\ x4'[id].vanished_at = at
             /\ x4'[id].kind = "full" => x4'[id].status # "trade"
<1>4. ASSUME NEW id \in DOMAIN x4'
      PROVE  x4'[id] \in O!VanishedRow /\ (Same(id) \/ New(id))
  BY <1>1, <1>2, RowsAre
<1>5. x8' \in [Orders -> Int]
  <2>1. \E f : x8' = [o \in Orders |-> f[o]]
    <3>1. x8' = [o \in Orders |-> x8[o] - IF o \in O!diff_orders(x3, O!to_seen(b, at)).changed
                                          THEN O!quantity_drop(o, x3, O!to_seen(b, at)) ELSE 0]
      BY DEF O!apply_sweep
    <3>2. x8' = [o \in Orders |-> x8'[o]]
      BY <3>1
    <3> QED BY <3>2
  <2>2. ASSUME NEW o \in Orders PROVE x8'[o] \in Int
    <3>1. x8'[o] = x8[o] - IF o \in DOMAIN x3 /\ b[o] > 0 THEN O!Fewer(x3[o].quantity, b[o]) ELSE 0
      BY <1>1, CountedIs
    <3>2. o \in DOMAIN x3 => O!Fewer(x3[o].quantity, b[o]) \in Nat
      BY <1>2, FewerFacts
    <3> QED BY <1>2, <3>1, <3>2
  <2> QED BY <2>1, <2>2
<1>6. (O!SweepIsLatest)'
  <2>1. \A o \in DOMAIN x3' : x3'[o].first_seen <= x1
    BY <1>2, <1>3
  <2>2. ASSUME NEW id \in DOMAIN x4' PROVE x4'[id].first_seen <= x4'[id].vanished_at
    <3>1. CASE Same(id)
      BY <1>1, <3>1 DEF O!SweepIsLatest
    <3>2. CASE New(id)
      BY <1>2, <3>2
    <3> QED BY <1>4, <3>1, <3>2
  <2> QED BY <1>3, <2>1, <2>2 DEF O!SweepIsLatest
<1>7. (O!TradesHadTheirWindow)'
  <2>1. ASSUME NEW id \in DOMAIN x4', x4'[id].kind = "full", x4'[id].status = "trade"
        PROVE  x4'[id].vanished_at + OrderWindow <= x1
    BY <1>1, <1>4, <2>1 DEF O!TradesHadTheirWindow
  <2> QED BY <1>3, <2>1 DEF O!TradesHadTheirWindow
<1>8. (O!ReturnedOrdersAreNoTrades)'
  <2> SUFFICES ASSUME NEW id \in DOMAIN x4', NEW k \in DOMAIN x4',
                      x4'[id].kind = "full", k # id, x4'[k].order = x4'[id].order,
                      x4'[k].first_seen > x4'[id].vanished_at,
                      x4'[k].vanished_at < x4'[id].vanished_at + OrderWindow,
                      x4'[id].status = "trade"
               PROVE  FALSE
    BY DEF O!ReturnedOrdersAreNoTrades
  <2>1. Same(id)
    BY <1>4
  <2>2. x4[id] \in O!VanishedRow /\ x4'[id] = x4[id]
    BY <1>2, <2>1
  <2>3. CASE Same(k)
    BY <1>1, <2>1, <2>3 DEF O!ReturnedOrdersAreNoTrades
  <2>4. CASE New(k)
    <3>1. PICK o \in DOMAIN x3 : x4'[k].order = o /\ x4'[k].first_seen = x3[o].first_seen /\ x4'[k].vanished_at = at
      BY <2>4
    <3>2. x3[o].first_seen \in Nat /\ x3[o].first_seen <= at /\ x4[id].vanished_at \in Nat
      BY <1>2, <2>2 DEF O!VanishedRow
    <3>3. at < x4[id].vanished_at + OrderWindow
      BY <2>2, <3>1
    <3>4. x3[o].first_seen <= x4[id].vanished_at \/ x3[o].first_seen > x4[id].vanished_at + OrderWindow
      BY <2>1, <2>2, <3>1, <3>2, <3>3
    <3> QED BY <2>2, <3>1, <3>2, <3>3, <3>4
  <2> QED BY <1>4, <2>3, <2>4
<1> QED
  BY <1>2, <1>3, <1>4, <1>5, <1>6, <1>7, <1>8

\* A book recorded, the market's of now or one fetched since the last: what it counts.
LEMMA RecordKeepsCounts ==
  ASSUME O!BookInv, NEW b \in [Orders -> Nat], NEW at \in Nat, NEW e, O!apply_sweep(b, at, e),
         x8' \in [Orders -> Int],
         x7' # O!None => x7'.overtaken,
         ~x9' => /\ ~x9
                 /\ \A o \in Orders :
                      /\ x8[o] >= b[o] - x2[o]
                      /\ o \in DOMAIN x3 => x8[o] >= O!Fewer(x3[o].quantity, b[o]) + b[o] - x2[o]
                      /\ o \in DOMAIN x3 /\ b[o] > 0 => x8[o] >= O!Fewer(x3[o].quantity, b[o])
  PROVE  (O!PartialsAreReal)' /\ (O!DropsAreReal)'
<1> SUFFICES ASSUME ~x9' PROVE (O!PartialsAreReal)' /\ (O!DropsAreReal)'
  BY DEF O!PartialsAreReal, O!DropsAreReal
<1>1. O!TypeOK /\ O!PartialsAreReal
  BY DEF O!BookInv
<1>2. /\ x2 \in [Orders -> Nat] /\ x8 \in [Orders -> Int] /\ DOMAIN x3 \subseteq Orders
      /\ \A o \in DOMAIN x3 : x3[o] \in [quantity : Nat, first_seen : Nat]
  BY <1>1 DEF O!TypeOK
<1>3. /\ DOMAIN x3' = {o \in Orders : b[o] > 0} /\ x2' = x2
      /\ \A o \in DOMAIN x3' : x3'[o].quantity = b[o]
  BY <1>1, SeenIs
<1>4. ASSUME NEW o \in Orders
      PROVE  x8'[o] >= 0 /\ x8'[o] >= b[o] - x2[o]
  <2>1. x8'[o] = x8[o] - IF o \in DOMAIN x3 /\ b[o] > 0 THEN O!Fewer(x3[o].quantity, b[o]) ELSE 0
    BY <1>1, CountedIs
  <2>2. o \in DOMAIN x3 => O!Fewer(x3[o].quantity, b[o]) \in Nat
    BY <1>2, FewerFacts
  <2>3. x8[o] \in Int /\ x8[o] >= 0 /\ b[o] \in Nat /\ x2[o] \in Nat
    BY <1>1, <1>2 DEF O!PartialsAreReal
  <2>4. CASE o \in DOMAIN x3 /\ b[o] > 0
    BY <2>1, <2>2, <2>3, <2>4
  <2>5. CASE ~(o \in DOMAIN x3 /\ b[o] > 0)
    BY <2>1, <2>3, <2>5
  <2> QED BY <2>4, <2>5
<1>5. (O!PartialsAreReal)'
  BY <1>4 DEF O!PartialsAreReal
<1>6. (O!DropsAreReal)'
  BY <1>3, <1>4 DEF O!DropsAreReal
<1> QED
  BY <1>5, <1>6

LEMMA RecordSweepKeeps ==
  ASSUME O!BookInv, NEW i, O!RecordSweep(i)
  PROVE  (O!BookInv)'
<1> USE BookAssumption
<1>1. O!TypeOK /\ O!SweepIsLatest /\ O!DropsAreReal /\ O!TradesHadTheirWindow /\ O!PartialsAreReal
  BY DEF O!BookInv
<1>2. /\ x1 \in Nat /\ x2 \in [Orders -> Nat] /\ x8 \in [Orders -> Int] /\ x9 \in BOOLEAN
      /\ x6 \in {O!None} \cup [at : Nat]
      /\ x7 \in {O!None} \cup [at : Nat, orders : [Orders -> Nat], overtaken : BOOLEAN]
      /\ DOMAIN x3 \subseteq Orders
      /\ \A o \in DOMAIN x3 : x3[o] \in [quantity : Nat, first_seen : Nat]
      /\ \A id \in DOMAIN x4 : x4[id] \in O!VanishedRow
  BY <1>1 DEF O!TypeOK
<1>3. /\ x6 # O!None /\ O!apply_sweep(x2, x6.at, i) /\ x6' = O!None /\ x9' = x9
      /\ x7' = IF x7 = O!None THEN O!None ELSE [x7 EXCEPT !.overtaken = TRUE]
  BY DEF O!RecordSweep
<1>4. x6.at \in Nat /\ x6.at <= x1 /\ \A o \in DOMAIN x3 : x3[o].first_seen <= x6.at
  BY <1>1, <1>2, <1>3 DEF O!SweepIsLatest
<1>5. ASSUME NEW id \in DOMAIN x4, x4[id].kind = "full", x4[id].status = "trade"
      PROVE  \/ x4[id].vanished_at + OrderWindow <= x6.at
             \/ \A o \in DOMAIN x3 : o = x4[id].order =>
                  ~(x3[o].first_seen > x4[id].vanished_at /\ x3[o].first_seen <= x4[id].vanished_at + OrderWindow)
  <2>1. x4[id].vanished_at \in Nat
    BY <1>2 DEF O!VanishedRow
  <2> QED BY <1>1, <1>3, <1>4, <1>5, <2>1 DEF O!TradesHadTheirWindow
<1>6. /\ (O!SweepIsLatest)' /\ (O!TradesHadTheirWindow)' /\ (O!ReturnedOrdersAreNoTrades)'
      /\ x1' \in Nat /\ x2' \in [Orders -> Nat] /\ x8' \in [Orders -> Int]
      /\ DOMAIN x3' \subseteq Orders /\ \A o \in DOMAIN x3' : x3'[o] \in [quantity : Nat, first_seen : Nat]
      /\ \A id \in DOMAIN x4' : x4'[id] \in O!VanishedRow
  BY <1>2, <1>3, <1>4, <1>5, RecordKeepsRows
<1>7. x7' \in {O!None} \cup [at : Nat, orders : [Orders -> Nat], overtaken : BOOLEAN]
      /\ (x7' # O!None => x7'.overtaken)
  BY <1>2, <1>3
<1>8. (O!TypeOK)'
  BY <1>2, <1>3, <1>6, <1>7 DEF O!TypeOK
<1>9. ASSUME ~x9, NEW o \in Orders
      PROVE  /\ x8[o] >= x2[o] - x2[o]
             /\ o \in DOMAIN x3 => x8[o] >= O!Fewer(x3[o].quantity, x2[o]) + x2[o] - x2[o]
             /\ o \in DOMAIN x3 /\ x2[o] > 0 => x8[o] >= O!Fewer(x3[o].quantity, x2[o])
  <2>1. x8[o] >= 0 /\ x8[o] \in Int /\ x2[o] \in Nat
    BY <1>1, <1>2, <1>9 DEF O!PartialsAreReal
  <2>2. o \in DOMAIN x3 => x3[o].quantity \in Nat /\ x8[o] >= x3[o].quantity - x2[o]
    BY <1>1, <1>2, <1>9 DEF O!DropsAreReal
  <2>3. o \in DOMAIN x3 => x8[o] >= O!Fewer(x3[o].quantity, x2[o]) /\ O!Fewer(x3[o].quantity, x2[o]) \in Nat
    BY <2>1, <2>2 DEF O!Fewer
  <2> QED BY <2>1, <2>3
<1>10. (O!PartialsAreReal)' /\ (O!DropsAreReal)'
  BY <1>2, <1>3, <1>4, <1>6, <1>7, <1>9, RecordKeepsCounts
<1> QED
  BY <1>6, <1>8, <1>10 DEF O!BookInv

LEMMA IngestKeeps ==
  ASSUME O!BookInv, NEW i, O!ingest_book(i), x6 = O!None
  PROVE  (O!BookInv)'
<1> USE BookAssumption
<1>1. O!TypeOK /\ O!SweepIsLatest /\ O!DropsAreReal /\ O!TradesHadTheirWindow /\ O!PartialsAreReal
  BY DEF O!BookInv
<1>2. /\ x1 \in Nat /\ x2 \in [Orders -> Nat] /\ x8 \in [Orders -> Int] /\ x9 \in BOOLEAN
      /\ x7 \in {O!None} \cup [at : Nat, orders : [Orders -> Nat], overtaken : BOOLEAN]
      /\ DOMAIN x3 \subseteq Orders
      /\ \A o \in DOMAIN x3 : x3[o] \in [quantity : Nat, first_seen : Nat]
  BY <1>1 DEF O!TypeOK
<1>3. /\ x7 # O!None /\ O!apply_sweep(x7.orders, x1, i) /\ x6' = O!None /\ x7' = O!None
      /\ x9' = (x9 \/ x7.overtaken)
  BY DEF O!ingest_book
<1>4. x7.orders \in [Orders -> Nat] /\ x7.overtaken \in BOOLEAN
  BY <1>2, <1>3
<1>5. \A o \in DOMAIN x3 : x3[o].first_seen <= x1
  BY <1>1 DEF O!SweepIsLatest
<1>6. \A id \in DOMAIN x4 : x4[id].kind = "full" /\ x4[id].status = "trade" =>
        x4[id].vanished_at + OrderWindow <= x1
  BY <1>1 DEF O!TradesHadTheirWindow
<1>7. /\ (O!SweepIsLatest)' /\ (O!TradesHadTheirWindow)' /\ (O!ReturnedOrdersAreNoTrades)'
      /\ x1' \in Nat /\ x2' \in [Orders -> Nat] /\ x8' \in [Orders -> Int]
      /\ DOMAIN x3' \subseteq Orders /\ \A o \in DOMAIN x3' : x3'[o] \in [quantity : Nat, first_seen : Nat]
      /\ \A id \in DOMAIN x4' : x4'[id] \in O!VanishedRow
  BY <1>2, <1>3, <1>4, <1>5, <1>6, RecordKeepsRows
<1>8. x9' \in BOOLEAN
  BY <1>2, <1>3, <1>4
<1>9. (O!TypeOK)'
  BY <1>3, <1>7, <1>8 DEF O!TypeOK
<1>10. ASSUME ~x9', NEW o \in Orders
       PROVE  /\ x8[o] >= x7.orders[o] - x2[o]
              /\ o \in DOMAIN x3 => x8[o] >= O!Fewer(x3[o].quantity, x7.orders[o]) + x7.orders[o] - x2[o]
              /\ o \in DOMAIN x3 /\ x7.orders[o] > 0 => x8[o] >= O!Fewer(x3[o].quantity, x7.orders[o])
  <2>1. ~x9 /\ ~x7.overtaken
    BY <1>2, <1>3, <1>4, <1>10
  <2> QED BY <1>1, <1>3, <2>1 DEF O!DropsAreReal
<1>11. (O!PartialsAreReal)' /\ (O!DropsAreReal)'
  BY <1>2, <1>3, <1>4, <1>7, <1>10, RecordKeepsCounts
<1> QED
  BY <1>7, <1>9, <1>11 DEF O!BookInv

\* The market moves: what leaves it is uncounted.
LEMMA MarketKeeps ==
  ASSUME O!BookInv, NEW o \in Orders, NEW q \in O!Quantity, O!Market(o, q)
  PROVE  (O!BookInv)'
<1> USE BookAssumption
<1>1. O!TypeOK /\ O!SweepIsLatest /\ O!DropsAreReal /\ O!TradesHadTheirWindow /\ O!PartialsAreReal
      /\ O!ReturnedOrdersAreNoTrades
  BY DEF O!BookInv
<1>2. /\ x2 \in [Orders -> Nat] /\ x8 \in [Orders -> Int] /\ q \in Nat
      /\ x7 \in {O!None} \cup [at : Nat, orders : [Orders -> Nat], overtaken : BOOLEAN]
      /\ DOMAIN x3 \subseteq Orders
      /\ \A p \in DOMAIN x3 : x3[p] \in [quantity : Nat, first_seen : Nat]
  BY <1>1 DEF O!TypeOK, O!Quantity
<1>3. /\ x2' = [x2 EXCEPT ![o] = q] /\ x8' = [x8 EXCEPT ![o] = @ + O!Fewer(x2[o], q)]
      /\ UNCHANGED <<x1, x3, x4, x5, x6, x7, x9>>
  BY DEF O!Market
<1>4. O!Fewer(x2[o], q) \in Nat /\ O!Fewer(x2[o], q) >= x2[o] - q
  BY <1>2, FewerFacts
<1>5. x2' \in [Orders -> Nat] /\ x8' \in [Orders -> Int]
  BY <1>2, <1>3, <1>4
<1>6. (O!TypeOK)'
  BY <1>1, <1>3, <1>5 DEF O!TypeOK
<1>7. \A p \in Orders : x8'[p] >= x8[p] /\ x8'[p] + x2'[p] >= x8[p] + x2[p]
  BY <1>2, <1>3, <1>4
<1>8. (O!PartialsAreReal)'
  <2> SUFFICES ASSUME ~x9', NEW p \in Orders PROVE x8'[p] >= 0
    BY DEF O!PartialsAreReal
  <2>1. x8[p] >= 0 /\ x8[p] \in Int /\ x8'[p] \in Int
    BY <1>1, <1>2, <1>3, <1>5 DEF O!PartialsAreReal
  <2> QED BY <1>7, <2>1
<1>9. (O!DropsAreReal)'
  <2>1. ASSUME ~x9, NEW p \in DOMAIN x3
        PROVE  x8'[p] >= x3[p].quantity - x2'[p]
    <3>1. x8[p] >= x3[p].quantity - x2[p] /\ p \in Orders /\ x3[p].quantity \in Nat
      BY <1>1, <1>2, <2>1 DEF O!DropsAreReal
    <3>2. {x8[p], x8'[p], x2[p], x2'[p]} \subseteq Int
      BY <1>2, <1>5, <3>1
    <3> QED BY <1>7, <3>1, <3>2
  <2>2. ASSUME ~x9, x7 # O!None, ~x7.overtaken, NEW p \in Orders
        PROVE  /\ x8'[p] >= x7.orders[p] - x2'[p]
               /\ p \in DOMAIN x3 =>
                    LET drop == O!Fewer(x3[p].quantity, x7.orders[p])
                    IN  x8'[p] >= drop /\ x8'[p] >= drop + x7.orders[p] - x2'[p]
    <3> DEFINE drop == O!Fewer(x3[p].quantity, x7.orders[p])
    <3>1. /\ x8[p] >= x7.orders[p] - x2[p]
          /\ p \in DOMAIN x3 => x8[p] >= drop /\ x8[p] >= drop + x7.orders[p] - x2[p]
      BY <1>1, <2>2 DEF O!DropsAreReal
    <3>2. {x8[p], x8'[p], x2[p], x2'[p], x7.orders[p]} \subseteq Int
      BY <1>2, <1>5, <2>2
    <3>3. p \in DOMAIN x3 => drop \in Nat
      BY <1>2, <2>2, FewerFacts
    <3> HIDE DEF drop
    <3>4. x8'[p] >= x7.orders[p] - x2'[p]
      BY <1>7, <3>1, <3>2
    <3>5. p \in DOMAIN x3 => x8'[p] >= drop /\ x8'[p] >= drop + x7.orders[p] - x2'[p]
      BY <1>7, <3>1, <3>2, <3>3
    <3> QED BY <3>4, <3>5 DEF drop
  <2> QED BY <1>3, <2>1, <2>2 DEF O!DropsAreReal
<1>10. (O!SweepIsLatest)' /\ (O!TradesHadTheirWindow)' /\ (O!ReturnedOrdersAreNoTrades)'
  BY <1>1, <1>3 DEF O!SweepIsLatest, O!TradesHadTheirWindow, O!ReturnedOrdersAreNoTrades
<1> QED
  BY <1>6, <1>8, <1>9, <1>10 DEF O!BookInv

\* Steps that record nothing.
LEMMA NothingRecordedKeeps ==
  ASSUME O!BookInv, UNCHANGED <<x2, x3, x4, x8, x9>>,
         \/ x1' = x1 + 1 /\ UNCHANGED <<x6, x7>>
         \/ x1' = x1 /\ x6' \in {O!None, [at |-> x1]} /\ (x6' # O!None => x6 = O!None) /\ x7' = x7
         \/ UNCHANGED <<x1, x6>> /\ x7' \in {O!None, [at |-> x1, orders |-> x2, overtaken |-> FALSE]}
         \/ UNCHANGED <<x1, x6, x7>>
  PROVE  (O!BookInv)'
<1> USE BookAssumption
<1>1. O!TypeOK /\ O!SweepIsLatest /\ O!DropsAreReal /\ O!TradesHadTheirWindow /\ O!PartialsAreReal
      /\ O!ReturnedOrdersAreNoTrades
  BY DEF O!BookInv
<1>2. /\ x1 \in Nat /\ x2 \in [Orders -> Nat] /\ x8 \in [Orders -> Int]
      /\ x6 \in {O!None} \cup [at : Nat]
      /\ x7 \in {O!None} \cup [at : Nat, orders : [Orders -> Nat], overtaken : BOOLEAN]
      /\ DOMAIN x3 \subseteq Orders
      /\ \A p \in DOMAIN x3 : x3[p] \in [quantity : Nat, first_seen : Nat]
      /\ \A id \in DOMAIN x4 : x4[id] \in O!VanishedRow
  BY <1>1 DEF O!TypeOK
<1>3. /\ x1' \in Nat /\ x1 <= x1'
      /\ x6' \in {O!None} \cup [at : Nat]
      /\ x7' \in {O!None} \cup [at : Nat, orders : [Orders -> Nat], overtaken : BOOLEAN]
      /\ x6' # O!None => x6' = x6 \/ (x6' = [at |-> x1] /\ x1' = x1)
      /\ x7' # O!None => x7' = x7 \/ x7' = [at |-> x1, orders |-> x2, overtaken |-> FALSE]
  <2>1. [at |-> x1] \in [at : Nat]
    BY <1>2
  <2>2. [at |-> x1, orders |-> x2, overtaken |-> FALSE] \in [at : Nat, orders : [Orders -> Nat], overtaken : BOOLEAN]
    BY <1>2
  <2>3. x1' \in Nat /\ x1 <= x1'
    BY <1>2
  <2>4. CASE x7' = x7
    BY <1>2, <2>1, <2>3, <2>4
  <2>5. CASE UNCHANGED <<x1, x6>> /\ x7' \in {O!None, [at |-> x1, orders |-> x2, overtaken |-> FALSE]}
    BY <1>2, <2>2, <2>3, <2>5
  <2> QED BY <2>4, <2>5
<1>4. (O!TypeOK)'
  BY <1>1, <1>3 DEF O!TypeOK
<1>5. (O!SweepIsLatest)'
  BY <1>1, <1>2, <1>3 DEF O!SweepIsLatest
<1>6. (O!TradesHadTheirWindow)'
  <2> SUFFICES ASSUME NEW id \in DOMAIN x4, x4[id].kind = "full", x4[id].status = "trade"
               PROVE  /\ x4[id].vanished_at + OrderWindow <= x1'
                      /\ x6' # O!None /\ x6'.at < x4[id].vanished_at + OrderWindow =>
                           \A o \in DOMAIN x3 : o = x4[id].order =>
                             ~(x3[o].first_seen > x4[id].vanished_at /\ x3[o].first_seen <= x4[id].vanished_at + OrderWindow)
    BY DEF O!TradesHadTheirWindow
  <2>1. x4[id].vanished_at \in Nat
    BY <1>2 DEF O!VanishedRow
  <2>2. x4[id].vanished_at + OrderWindow <= x1
    BY <1>1 DEF O!TradesHadTheirWindow
  <2>3. CASE x6' = x6
    BY <1>1, <1>2, <1>3, <2>1, <2>2, <2>3 DEF O!TradesHadTheirWindow
  <2>4. CASE x6' = O!None \/ x6' = [at |-> x1]
    BY <1>2, <1>3, <2>1, <2>2, <2>4
  <2> QED BY <1>3, <2>3, <2>4
<1>7. (O!PartialsAreReal)' /\ (O!ReturnedOrdersAreNoTrades)'
  BY <1>1 DEF O!PartialsAreReal, O!ReturnedOrdersAreNoTrades
<1>8. (O!DropsAreReal)'
  <2>1. CASE x7' = x7 \/ x7' = O!None
    BY <1>1, <2>1 DEF O!DropsAreReal
  <2>2. CASE x7' = [at |-> x1, orders |-> x2, overtaken |-> FALSE]
    <3>1. ASSUME ~x9, NEW o \in Orders
          PROVE  /\ x8[o] >= x2[o] - x2[o]
                 /\ o \in DOMAIN x3 =>
                      LET drop == O!Fewer(x3[o].quantity, x2[o])
                      IN  x8[o] >= drop /\ x8[o] >= drop + x2[o] - x2[o]
      <4>1. x8[o] >= 0 /\ x8[o] \in Int /\ x2[o] \in Nat
        BY <1>1, <1>2, <3>1 DEF O!PartialsAreReal
      <4>2. o \in DOMAIN x3 => x3[o].quantity \in Nat /\ x8[o] >= x3[o].quantity - x2[o]
        BY <1>1, <1>2, <3>1 DEF O!DropsAreReal
      <4> QED BY <4>1, <4>2 DEF O!Fewer
    <3> QED BY <1>1, <2>2, <3>1 DEF O!DropsAreReal
  <2> QED BY <1>3, <2>1, <2>2
<1> QED
  BY <1>4, <1>5, <1>6, <1>7, <1>8 DEF O!BookInv

\* A row whose window has closed is resolved.
LEMMA ResolveKeeps ==
  ASSUME O!BookInv, NEW id \in DOMAIN x4, O!resolve_pending(id)
  PROVE  (O!BookInv)'
<1> USE BookAssumption
<1>1. O!TypeOK /\ O!SweepIsLatest /\ O!DropsAreReal /\ O!TradesHadTheirWindow /\ O!PartialsAreReal
      /\ O!ReturnedOrdersAreNoTrades
  BY DEF O!BookInv
<1>2. /\ x1 \in Nat /\ \A k \in DOMAIN x4 : x4[k] \in O!VanishedRow
      /\ x6 \in {O!None} \cup [at : Nat]
      /\ \A o \in DOMAIN x3 : x3[o] \in [quantity : Nat, first_seen : Nat]
  BY <1>1 DEF O!TypeOK
<1>3. /\ x4[id].vanished_at <= x1 - OrderWindow
      /\ x4' = [x4 EXCEPT ![id].status = O!resolve_vanish(id)]
      /\ UNCHANGED <<x1, x2, x3, x5, x6, x7, x8, x9>>
  BY DEF O!resolve_pending, O!Due
<1>4. O!resolve_vanish(id) \in {"bulk", "relist", "trade"} /\ (O!resolve_vanish(id) = "trade" => ~O!Relisted(id))
  BY DEF O!resolve_vanish
<1>5. /\ DOMAIN x4' = DOMAIN x4
      /\ \A k \in DOMAIN x4 : k # id => x4'[k] = x4[k]
      /\ x4'[id] = [x4[id] EXCEPT !.status = O!resolve_vanish(id)]
  BY <1>3
<1>6. \A k \in DOMAIN x4 :
        /\ x4'[k] \in O!VanishedRow
        /\ x4'[k].order = x4[k].order /\ x4'[k].first_seen = x4[k].first_seen
        /\ x4'[k].vanished_at = x4[k].vanished_at /\ x4'[k].kind = x4[k].kind
        /\ k # id => x4'[k].status = x4[k].status
  BY <1>2, <1>4, <1>5 DEF O!VanishedRow
<1>7. x4'[id].status = "trade" => ~O!Relisted(id)
  BY <1>2, <1>4, <1>5 DEF O!VanishedRow
<1> DEFINE InWindow(t) == t > x4[id].vanished_at /\ t <= x4[id].vanished_at + OrderWindow
<1>8. ASSUME ~O!Relisted(id)
      PROVE  /\ \A o \in DOMAIN x3 : o = x4[id].order => ~InWindow(x3[o].first_seen)
             /\ \A k \in DOMAIN x4 \ {id} : x4[k].order = x4[id].order => ~InWindow(x4[k].first_seen)
  BY <1>8 DEF O!Relisted, O!SameUser
<1> HIDE DEF InWindow
<1>9. (O!TypeOK)' /\ (O!SweepIsLatest)' /\ (O!DropsAreReal)' /\ (O!PartialsAreReal)'
  <2>1. (O!TypeOK)'
    BY <1>1, <1>3, <1>5, <1>6 DEF O!TypeOK
  <2>2. (O!SweepIsLatest)'
    BY <1>1, <1>3, <1>5, <1>6 DEF O!SweepIsLatest
  <2>3. (O!DropsAreReal)' /\ (O!PartialsAreReal)'
    BY <1>1, <1>3 DEF O!DropsAreReal, O!PartialsAreReal
  <2> QED BY <2>1, <2>2, <2>3
<1>10. (O!TradesHadTheirWindow)'
  <2> SUFFICES ASSUME NEW k \in DOMAIN x4, x4'[k].kind = "full", x4'[k].status = "trade"
               PROVE  /\ x4'[k].vanished_at + OrderWindow <= x1
                      /\ x6 # O!None /\ x6.at < x4'[k].vanished_at + OrderWindow =>
                           \A o \in DOMAIN x3 : o = x4'[k].order =>
                             ~(x3[o].first_seen > x4'[k].vanished_at /\ x3[o].first_seen <= x4'[k].vanished_at + OrderWindow)
    BY <1>3, <1>5 DEF O!TradesHadTheirWindow
  <2>1. CASE k # id
    BY <1>1, <1>5, <2>1 DEF O!TradesHadTheirWindow
  <2>2. CASE k = id
    <3>1. x4[id].vanished_at \in Nat
      BY <1>2 DEF O!VanishedRow
    <3>2. x4[id].vanished_at + OrderWindow <= x1
      BY <1>2, <1>3, <3>1
    <3> QED BY <1>6, <1>7, <1>8, <2>2, <3>2 DEF InWindow
  <2> QED BY <2>1, <2>2
<1>11. (O!ReturnedOrdersAreNoTrades)'
  <2> SUFFICES ASSUME NEW j \in DOMAIN x4, NEW k \in DOMAIN x4,
                      x4[j].kind = "full", k # j, x4[k].order = x4[j].order,
                      x4[k].first_seen > x4[j].vanished_at,
                      x4[k].vanished_at < x4[j].vanished_at + OrderWindow,
                      x4'[j].status = "trade"
               PROVE  FALSE
    BY <1>5, <1>6 DEF O!ReturnedOrdersAreNoTrades
  <2>1. j = id
    BY <1>1, <1>6 DEF O!ReturnedOrdersAreNoTrades
  <2>2. x4[k].first_seen <= x4[k].vanished_at
    BY <1>1 DEF O!SweepIsLatest
  <2>3. {x4[k].first_seen, x4[k].vanished_at, x4[id].vanished_at} \subseteq Nat
    BY <1>2 DEF O!VanishedRow
  <2>4. InWindow(x4[k].first_seen)
    BY <2>1, <2>2, <2>3 DEF InWindow
  <2> QED BY <1>7, <1>8, <2>1, <2>4
<1> QED
  BY <1>9, <1>10, <1>11 DEF O!BookInv

LEMMA ForgetKeeps ==
  ASSUME O!BookInv, O!apply_retention
  PROVE  (O!BookInv)'
<1>1. O!TypeOK /\ O!SweepIsLatest /\ O!DropsAreReal /\ O!TradesHadTheirWindow /\ O!PartialsAreReal
      /\ O!ReturnedOrdersAreNoTrades
  BY DEF O!BookInv
<1>2. UNCHANGED <<x1, x2, x3, x5, x6, x7, x8, x9>>
  BY DEF O!apply_retention
<1>3. \A id \in DOMAIN x4' : id \in DOMAIN x4 /\ x4'[id] = x4[id]
  BY DEF O!apply_retention
<1>4. (O!TypeOK)' /\ (O!SweepIsLatest)'
  BY <1>1, <1>2, <1>3 DEF O!TypeOK, O!SweepIsLatest
<1>5. (O!DropsAreReal)' /\ (O!PartialsAreReal)'
  BY <1>1, <1>2 DEF O!DropsAreReal, O!PartialsAreReal
<1>6. (O!TradesHadTheirWindow)'
  BY <1>1, <1>2, <1>3 DEF O!TradesHadTheirWindow
<1>7. (O!ReturnedOrdersAreNoTrades)'
  BY <1>1, <1>3 DEF O!ReturnedOrdersAreNoTrades
<1> QED
  BY <1>4, <1>5, <1>6, <1>7 DEF O!BookInv

LEMMA BookNext ==
  ASSUME O!BookInv, O!Next
  PROVE  (O!BookInv)'
<1>1. CASE \E o \in Orders, q \in O!Quantity : O!Market(o, q)
  BY <1>1, MarketKeeps
<1>2. CASE O!Tick
  BY <1>2, NothingRecordedKeeps DEF O!Tick
<1>3. CASE O!BeginSweep
  BY <1>3, NothingRecordedKeeps DEF O!BeginSweep
<1>4. CASE \E i \in Intervals : O!RecordSweep(i)
  BY <1>4, RecordSweepKeeps
<1>5. CASE \E i \in Intervals : O!ingest_book(i)
  <2> PICK i \in Intervals : O!ingest_book(i)
    BY <1>5
  <2>1. CASE x6 = O!None
    BY <2>1, IngestKeeps
  <2>2. CASE x6 # O!None
    BY <2>2, NothingRecordedKeeps DEF O!ingest_book
  <2> QED BY <2>1, <2>2
<1>6. CASE O!SweepFails
  BY <1>6, NothingRecordedKeeps DEF O!SweepFails
<1>7. CASE O!Prefetch
  BY <1>7, NothingRecordedKeeps DEF O!Prefetch
<1>8. CASE \E id \in DOMAIN x4 : O!resolve_pending(id)
  BY <1>8, ResolveKeeps
<1>9. CASE O!apply_retention
  BY <1>9, ForgetKeeps
<1> QED
  BY <1>1, <1>2, <1>3, <1>4, <1>5, <1>6, <1>7, <1>8, <1>9 DEF O!Next

-----------------------------------------------------------------------------
(* The hold suggestions.                                                    *)

\* There is a least element, because < is well-founded.
LEMMA HasLeast ==
  ASSUME NEW T \in SUBSET Nat, T # {}
  PROVE  \E x \in T : \A y \in T : x <= y
<1> DEFINE R == OpToRel(<, Nat)
<1>1. IsWellFoundedOn(R, Nat)
  BY NatLessThanWellFounded, Zenon
<1>2. ASSUME NEW x \in Nat, NEW y \in Nat, x < y
      PROVE  <<x, y>> \in R
  <2>1. <<x, y>> \in Nat \X Nat /\ <<x, y>>[1] = x /\ <<x, y>>[2] = y
    OBVIOUS
  <2> QED BY <1>2, <2>1, Zenon DEF OpToRel
<1> HIDE DEF R
<1>3. PICK x \in T : \A y \in T : ~(<<y, x>> \in R)
  BY <1>1, WFMin
<1>4. \A y \in T : ~(y < x)
  BY <1>2, <1>3
<1> QED
  BY <1>4

LEMMA MaxIs ==
  ASSUME NEW b \in Nat, NEW Q \in SUBSET (0..b), Q # {}
  PROVE  H!Max(Q) \in Q /\ \A y \in Q : y <= H!Max(Q)
<1> DEFINE T == {n \in Nat : \A y \in Q : y <= n}
<1>1. b \in T
  OBVIOUS
<1>2. PICK n \in T : \A m \in T : n <= m
  BY <1>1, HasLeast
<1>3. n \in Q
  <2> SUFFICES ASSUME n \notin Q PROVE FALSE
    OBVIOUS
  <2>1. PICK y \in Q : TRUE
    OBVIOUS
  <2>2. y \in Nat /\ y <= n /\ y # n
    BY <1>2
  <2>3. n - 1 \in T
    BY <2>2
  <2> QED BY <1>2, <2>3
<1>4. \A y \in Q : n >= y
  BY <1>2
<1> QED
  BY <1>3, <1>4 DEF H!Max

LEMMA LatestIs ==
  ASSUME H!TypeOK, x4 # {}
  PROVE  H!Latest(x4) \in Nat
<1> DEFINE D == {r.day : r \in x4}
<1>1. x3 \in Nat /\ \A r \in x4 : r.day \in Nat /\ r.day < x3
  BY HoldsAssumption DEF H!TypeOK
<1>2. D \in SUBSET (0..x3) /\ D # {}
  BY <1>1
<1>3. H!Max(D) \in D
  BY <1>1, <1>2, MaxIs
<1> QED
  BY <1>1, <1>3 DEF H!Latest

\* The last week a fit reaches holds a day its key traded on.
LEMMA FitsAreReal ==
  ASSUME H!TypeOK, NEW L \in Nat
  PROVE  H!FitsAreOf(H!Fits(x4, L), L)
<1> USE HoldsAssumption, BackupsAssumption
<1> DEFINE pts(k) == {r \in H!load_points(x4, L) : r.key = k}
           W(k) == {H!Week(p, L) : p \in H!in_window(pts(k), L)}
<1> SUFFICES ASSUME NEW k \in HeldKeys, H!fit(pts(k), L) # H!None, H!fit(pts(k), L)[1].last_week = H!LAST_WEEK
             PROVE  \E d \in DOMAIN x1[k] : x1[k][d] > 0 /\ d <= L /\ L - d < WeekDays
  BY DEF H!FitsAreOf, H!Fits
<1>1. DOMAIN H!weekly_prices(pts(k), L) = W(k)
  BY DEF H!weekly_prices
<1>2. ~(H!Cardinality(W(k)) < MinWeeks) /\ H!Max(W(k)) = H!LAST_WEEK
  BY <1>1 DEF H!fit, H!Some
<1>3. W(k) # {}
  <2>1. H!Cardinality({}) = 0
    BY FS_EmptySet DEF H!Cardinality, Cardinality
  <2>2. 0 < MinWeeks
    OBVIOUS
  <2> HIDE DEF W
  <2> QED BY <1>2, <2>1, <2>2, Zenon
<1>4. ASSUME NEW p \in H!in_window(pts(k), L)
      PROVE  /\ p.key = k /\ p.day \in DOMAIN x1[k] /\ p.day \in Nat /\ x1[k][p.day] > 0
             /\ p.day <= L /\ L - p.day \in Nat /\ L - p.day <= WindowDays - 1
  <2>1. p \in x4 /\ p.key = k /\ p.day <= L /\ p.day >= L - (WindowDays - 1)
    BY DEF H!in_window, H!load_points, H!first_day
  <2>2. p.day \in DOMAIN x1[k] /\ p.median = x1[k][p.day] /\ p.median > 0 /\ DOMAIN x1[k] \subseteq Nat
    BY <2>1 DEF H!TypeOK
  <2> QED BY <2>1, <2>2
<1>5. H!LAST_WEEK \in Nat
  BY DivDef DEF H!LAST_WEEK
<1>6. ASSUME NEW p \in H!in_window(pts(k), L)
      PROVE  /\ (L - p.day) \div WeekDays \in Nat /\ (L - p.day) \div WeekDays <= H!LAST_WEEK
             /\ H!Week(p, L) = H!LAST_WEEK - ((L - p.day) \div WeekDays)
  <2>1. L - p.day \in Nat /\ L - p.day <= WindowDays - 1 /\ WindowDays - 1 \in Nat
    BY <1>4
  <2> QED BY <2>1, Mono, DivDef DEF H!LAST_WEEK, H!Week
<1>7. W(k) \in SUBSET (0..H!LAST_WEEK)
  BY <1>5, <1>6
<1>8. H!LAST_WEEK \in W(k)
  BY <1>2, <1>3, <1>5, <1>7, MaxIs
<1>9. PICK p \in H!in_window(pts(k), L) : H!Week(p, L) = H!LAST_WEEK
  BY <1>8
<1>10. (L - p.day) \div WeekDays = 0
  BY <1>5, <1>6, <1>9
<1>11. L - p.day < WeekDays
  <2>1. L - p.day < WeekDays * (((L - p.day) \div WeekDays) + 1)
    BY <1>4, DivDef
  <2> QED BY <1>10, <2>1
<1> QED
  BY <1>4, <1>11

\* What a step of a call leaves: no new count, or one of what is there now.
LEMMA CountsKeep ==
  ASSUME H!HoldsInv, UNCHANGED <<x1, x3, x4>>,
         \A o \in (H!Counts)' :
           \/ o \in H!Counts
           \/ /\ o.latest \in Nat /\ o.n = Cardinality(o.day)
              /\ o.day = H!KeysOf(x4, o.latest)
  PROVE  (H!DaysGrow)' /\ (H!CountsAreComparable)'
<1>1. H!DaysGrow /\ H!CountsAreComparable /\ H!TypeOK
  BY DEF H!HoldsInv
<1>2. \A Q : H!Cardinality(Q) = Cardinality(Q)
  BY DEF H!Cardinality, Cardinality
<1>3. \A d : H!KeysOf(x4, d) \subseteq HeldKeys
  BY <1>1 DEF H!KeysOf, H!TypeOK
<1>4. ASSUME NEW o \in (H!Counts)'
      PROVE  /\ o.latest \in Nat /\ o.day \subseteq HeldKeys /\ o.n = H!Cardinality(o.day)
             /\ o.day \subseteq H!KeysOf(x4, o.latest) \/ (H!KeysOf(x4, o.latest) = {} /\ H!Retired(o.latest))
             /\ \/ o \in H!Counts
                \/ o.day = H!KeysOf(x4, o.latest)
  BY <1>1, <1>2, <1>3 DEF H!DaysGrow
<1>5. (H!DaysGrow)'
  BY <1>4 DEF H!DaysGrow, H!Retired, H!KeysOf, H!Cardinality
<1>6. (H!CountsAreComparable)'
  <2> SUFFICES ASSUME NEW o \in (H!Counts)', NEW p \in (H!Counts)', o.latest = p.latest
               PROVE  o.day \subseteq p.day \/ p.day \subseteq o.day
    BY DEF H!CountsAreComparable
  <2>1. CASE o \in H!Counts /\ p \in H!Counts
    BY <1>1, <2>1 DEF H!CountsAreComparable
  <2>2. CASE o.day = H!KeysOf(x4, o.latest)
    BY <1>4, <2>2
  <2>3. CASE p.day = H!KeysOf(x4, p.latest)
    BY <1>4, <2>3
  <2> QED BY <1>4, <2>1, <2>2, <2>3
<1> QED
  BY <1>5, <1>6

LEMMA HoldsInit ==
  ASSUME H!Init
  PROVE  H!HoldsInv
<1> USE HoldsAssumption DEF H!Init
<1>1. x5 = H!None /\ \A c \in Callers : x6[c] = H!Idle
  OBVIOUS
<1>2. H!Idle.pc = "idle"
  BY DEF H!Idle
<1>3. H!Counts = {}
  BY <1>1, <1>2 DEF H!Counts
<1>4. H!TypeOK
  BY <1>1 DEF H!TypeOK
<1>5. H!DaysGrow /\ H!CountsAreComparable
  BY <1>3 DEF H!DaysGrow, H!CountsAreComparable
<1>6. H!FitsAreWhole /\ H!HoldsSeeTheCountedDay
  BY <1>1, <1>2 DEF H!FitsAreWhole, H!HoldsSeeTheCountedDay
<1> QED
  BY <1>4, <1>5, <1>6 DEF H!HoldsInv

\* Rows land, days are deleted, a day passes: no counted day loses a key before it is retired.
LEMMA TableKeeps ==
  ASSUME H!HoldsInv, UNCHANGED <<x1, x5, x6>>,
         x3' \in Nat, x3 <= x3',
         \A r \in x4' :
           /\ r.key \in HeldKeys /\ r.day \in DOMAIN x1[r.key] /\ r.day < x3'
           /\ r.median = x1[r.key][r.day] /\ r.median > 0,
         \A d \in Nat :
           /\ H!KeysOf(x4, d) \subseteq H!KeysOf(x4', d) \/ (H!KeysOf(x4', d) = {} /\ d < x3' - RetentionDays)
           /\ H!KeysOf(x4, d) = {} /\ d < x3 - RetentionDays => H!KeysOf(x4', d) = {}
  PROVE  (H!HoldsInv)'
<1> USE HoldsAssumption
<1>1. H!TypeOK /\ H!DaysGrow /\ H!CountsAreComparable /\ H!FitsAreWhole /\ H!HoldsSeeTheCountedDay
  BY DEF H!HoldsInv
<1>2. (H!TypeOK)'
  BY <1>1 DEF H!TypeOK, H!Idle
<1>3. (H!Counts)' = H!Counts
  BY DEF H!Counts
<1>4. x3 \in Nat
  BY <1>1 DEF H!TypeOK
<1>5. (H!DaysGrow)'
  <2> SUFFICES ASSUME NEW o \in H!Counts
               PROVE  /\ o.latest \in Nat /\ o.day \subseteq HeldKeys /\ o.n = H!Cardinality(o.day)
                      /\ o.day \subseteq H!KeysOf(x4', o.latest)
                           \/ (H!KeysOf(x4', o.latest) = {} /\ o.latest < x3' - RetentionDays)
    BY <1>3 DEF H!DaysGrow, H!Retired, H!KeysOf, H!Cardinality
  <2>1. /\ o.latest \in Nat /\ o.day \subseteq HeldKeys /\ o.n = H!Cardinality(o.day)
        /\ o.day \subseteq H!KeysOf(x4, o.latest)
             \/ (H!KeysOf(x4, o.latest) = {} /\ o.latest < x3 - RetentionDays)
    BY <1>1 DEF H!DaysGrow, H!Retired
  <2> HIDE DEF H!KeysOf
  <2>2. o.latest < x3 - RetentionDays => o.latest < x3' - RetentionDays
    BY <1>4, <2>1
  <2> QED BY <2>1, <2>2
<1>6. (H!CountsAreComparable)'
  BY <1>1, <1>3 DEF H!CountsAreComparable
<1>7. ASSUME NEW d \in Nat, H!Retired(d)
      PROVE  d < x3' - RetentionDays
  BY <1>4, <1>7 DEF H!Retired
<1>8. \A c \in Callers : x6[c].pc # "idle" => x6[c].latest \in Nat
  <2> SUFFICES ASSUME NEW c \in Callers, x6[c].pc # "idle" PROVE x6[c].latest \in Nat
    OBVIOUS
  <2> DEFINE o == [latest |-> x6[c].latest, n |-> x6[c].n, day |-> x6[c].day]
  <2>1. o \in H!Counts
    BY DEF H!Counts
  <2>2. o.latest \in Nat
    BY <1>1, <2>1 DEF H!DaysGrow
  <2> QED BY <2>2
<1>9. x5 # H!None => x5[1].latest \in Nat
  <2> SUFFICES ASSUME x5 # H!None PROVE x5[1].latest \in Nat
    OBVIOUS
  <2> DEFINE o == [latest |-> x5[1].latest, n |-> x5[1].n, day |-> x5[1].day]
  <2>1. o \in H!Counts
    BY DEF H!Counts
  <2>2. o.latest \in Nat
    BY <1>1, <2>1 DEF H!DaysGrow
  <2> QED BY <2>2
<1>10. (H!FitsAreWhole)'
  <2>1. ASSUME NEW c \in Callers, x6[c].pc \in {"store", "quote", "done"}
        PROVE  /\ x6[c].day \subseteq x6[c].of \/ x6[c].latest < x3' - RetentionDays
               /\ H!FitsAreOf(x6[c].fits, x6[c].latest)
    BY <1>1, <1>7, <1>8, <2>1 DEF H!FitsAreWhole, H!Whole
  <2>2. ASSUME x5 # H!None
        PROVE  /\ x5[1].day \subseteq x5[1].of \/ x5[1].latest < x3' - RetentionDays
               /\ H!FitsAreOf(x5[1].fits, x5[1].latest)
    BY <1>1, <1>7, <1>9, <2>2 DEF H!FitsAreWhole, H!Whole
  <2> QED BY <2>1, <2>2 DEF H!FitsAreWhole, H!Whole, H!Retired, H!FitsAreOf
<1>11. (H!HoldsSeeTheCountedDay)'
  <2>1. ASSUME NEW c \in Callers, x6[c].pc = "done"
        PROVE  x6[c].day \subseteq x6[c].of \/ x6[c].latest < x3' - RetentionDays
    BY <1>1, <1>7, <1>8, <2>1 DEF H!HoldsSeeTheCountedDay, H!Retired
  <2> QED BY <1>1, <2>1 DEF H!HoldsSeeTheCountedDay
<1> QED
  BY <1>2, <1>5, <1>6, <1>10, <1>11 DEF H!HoldsInv

LEMMA TableNext ==
  ASSUME H!HoldsInv, H!Tick \/ H!apply_retention \/ \E k \in HeldKeys : H!upsert_days(k)
  PROVE  (H!HoldsInv)'
<1> USE HoldsAssumption
<1>1. /\ x1 \in Closed /\ x3 \in Nat
      /\ \A r \in x4 :
           /\ r.key \in HeldKeys /\ r.day \in DOMAIN x1[r.key] /\ r.day \in Nat /\ r.day < x3
           /\ r.median = x1[r.key][r.day] /\ r.median > 0
  BY DEF H!HoldsInv, H!TypeOK
<1>2. CASE H!Tick
  BY <1>1, <1>2, TableKeeps DEF H!Tick, H!KeysOf
<1>3. CASE H!apply_retention
  <2>1. x4' = {r \in x4 : r.day >= x3 - RetentionDays} /\ UNCHANGED <<x1, x3, x5, x6>>
    BY <1>3 DEF H!apply_retention
  <2>2. ASSUME NEW d \in Nat
        PROVE  /\ H!KeysOf(x4, d) \subseteq H!KeysOf(x4', d) \/ (H!KeysOf(x4', d) = {} /\ d < x3 - RetentionDays)
               /\ H!KeysOf(x4, d) = {} => H!KeysOf(x4', d) = {}
    <3>1. d >= x3 - RetentionDays => H!KeysOf(x4', d) = H!KeysOf(x4, d)
      BY <2>1 DEF H!KeysOf
    <3>2. d < x3 - RetentionDays => H!KeysOf(x4', d) = {}
      BY <1>1, <2>1 DEF H!KeysOf
    <3>3. d >= x3 - RetentionDays \/ d < x3 - RetentionDays
      BY <1>1
    <3> QED BY <3>1, <3>2, <3>3
  <2> QED BY <1>1, <2>1, <2>2, TableKeeps
<1>4. ASSUME NEW k \in HeldKeys, H!upsert_days(k)
      PROVE  (H!HoldsInv)'
  <2> DEFINE days == {[key |-> k, day |-> d, median |-> x1[k][d]] :
                        d \in {e \in DOMAIN x1[k] : x1[k][e] > 0 /\ e >= x3 - RetentionDays /\ e < x3}}
  <2>1. /\ x4' = {r \in x4 : r.key # k \/ r.day \notin {d.day : d \in days}} \cup days
        /\ UNCHANGED <<x1, x3, x5, x6>>
    BY <1>4 DEF H!upsert_days
  <2>2. \A r \in days : /\ r.key = k /\ r.day \in DOMAIN x1[k] /\ r.day \in Nat /\ r.day < x3
                        /\ r.day >= x3 - RetentionDays /\ r.median = x1[k][r.day] /\ r.median > 0
    BY <1>1
  <2> HIDE DEF days
  <2>3. ASSUME NEW r \in x4'
        PROVE  /\ r.key \in HeldKeys /\ r.day \in DOMAIN x1[r.key] /\ r.day < x3
               /\ r.median = x1[r.key][r.day] /\ r.median > 0
    BY <1>1, <2>1, <2>2
  <2>4. ASSUME NEW d \in Nat
        PROVE  H!KeysOf(x4, d) \subseteq H!KeysOf(x4', d)
    <3> SUFFICES ASSUME NEW r \in x4, r.day = d PROVE \E q \in x4' : q.day = d /\ q.key = r.key
      BY DEF H!KeysOf
    <3>1. CASE r \in x4'
      BY <3>1
    <3>2. CASE r \notin x4'
      <4>1. r.key = k /\ \E q \in days : q.day = r.day
        BY <2>1, <3>2
      <4> QED BY <2>1, <2>2, <4>1
    <3> QED BY <3>1, <3>2
  <2>5. ASSUME NEW d \in Nat, H!KeysOf(x4, d) = {}, d < x3 - RetentionDays
        PROVE  H!KeysOf(x4', d) = {}
    <3> SUFFICES ASSUME NEW r \in x4', r.day = d PROVE FALSE
      BY DEF H!KeysOf
    <3>1. r \notin x4
      BY <2>5 DEF H!KeysOf
    <3>2. r \in days /\ r.day >= x3 - RetentionDays
      BY <2>1, <2>2, <3>1
    <3> QED BY <1>1, <2>5, <3>2
  <2> QED BY <1>1, <2>1, <2>3, <2>4, <2>5, TableKeeps
<1> QED
  BY <1>2, <1>3, <1>4

\* A step of a call, whose record becomes r: it counts now or keeps its count, and stores whole fits.
LEMMA HoldCallKeeps ==
  ASSUME H!HoldsInv, NEW c \in Callers, NEW r, UNCHANGED <<x1, x3, x4>>,
         x6' = [x6 EXCEPT ![c] = r], DOMAIN r = DOMAIN H!Idle,
         \/ x5' = x5
         \/ /\ x6[c].pc # "idle" /\ x5' # H!None
            /\ x5'[1].latest = x6[c].latest /\ x5'[1].n = x6[c].n /\ x5'[1].day = x6[c].day
            /\ H!Whole(x5'[1]),
         r.pc # "idle" =>
           \/ x6[c].pc # "idle" /\ r.latest = x6[c].latest /\ r.n = x6[c].n /\ r.day = x6[c].day
           \/ r.latest \in Nat /\ r.n = Cardinality(r.day) /\ r.day = H!KeysOf(x4, r.latest),
         r.pc \in {"store", "quote", "done"} => H!Whole(r),
         r.pc = "done" => \A row \in r.rows : row.qualified =>
           \E d \in DOMAIN x1[row.key] : x1[row.key][d] > 0 /\ d <= r.latest /\ r.latest - d < WeekDays
  PROVE  (H!HoldsInv)'
<1>1. H!TypeOK /\ H!DaysGrow /\ H!CountsAreComparable /\ H!FitsAreWhole /\ H!HoldsSeeTheCountedDay
  BY DEF H!HoldsInv
<1>2. /\ DOMAIN x6 = Callers /\ DOMAIN x6' = Callers /\ x6'[c] = r
      /\ \A b \in Callers : b # c => x6'[b] = x6[b]
  BY <1>1 DEF H!TypeOK
<1>3. (H!TypeOK)'
  BY <1>1, <1>2 DEF H!TypeOK, H!Idle
<1>4. (H!DaysGrow)' /\ (H!CountsAreComparable)'
  <2>1. ASSUME NEW o \in (H!Counts)'
        PROVE  \/ o \in H!Counts
               \/ /\ o.latest \in Nat /\ o.n = Cardinality(o.day)
                  /\ o.day = H!KeysOf(x4, o.latest)
    <3>1. CASE \E b \in Callers : x6'[b].pc # "idle" /\ o = [latest |-> x6'[b].latest, n |-> x6'[b].n, day |-> x6'[b].day]
      <4> PICK b \in Callers : x6'[b].pc # "idle" /\ o = [latest |-> x6'[b].latest, n |-> x6'[b].n, day |-> x6'[b].day]
        BY <3>1
      <4>1. CASE b # c
        BY <1>2, <4>1 DEF H!Counts
      <4>2. CASE b = c /\ x6[c].pc # "idle" /\ r.latest = x6[c].latest /\ r.n = x6[c].n /\ r.day = x6[c].day
        BY <1>2, <4>2 DEF H!Counts
      <4>3. CASE b = c /\ r.latest \in Nat /\ r.n = Cardinality(r.day) /\ r.day = H!KeysOf(x4, r.latest)
        BY <1>2, <4>3
      <4> QED BY <1>2, <4>1, <4>2, <4>3
    <3>2. CASE x5' # H!None /\ o = [latest |-> x5'[1].latest, n |-> x5'[1].n, day |-> x5'[1].day]
      <4>1. CASE x5' = x5
        BY <3>2, <4>1 DEF H!Counts
      <4>2. CASE x5' # x5
        BY <3>2, <4>2 DEF H!Counts
      <4> QED BY <4>1, <4>2
    <3>3. \/ \E b \in Callers : x6'[b].pc # "idle" /\ o = [latest |-> x6'[b].latest, n |-> x6'[b].n, day |-> x6'[b].day]
          \/ x5' # H!None /\ o = [latest |-> x5'[1].latest, n |-> x5'[1].n, day |-> x5'[1].day]
      BY DEF H!Counts, H!None
    <3> QED BY <3>1, <3>2, <3>3
  <2> QED BY <2>1, CountsKeep
<1>5. (H!FitsAreWhole)'
  <2>1. ASSUME NEW b \in Callers, x6'[b].pc \in {"store", "quote", "done"}
        PROVE  H!Whole(x6'[b])
    BY <1>1, <1>2, <2>1 DEF H!FitsAreWhole
  <2>2. ASSUME x5' # H!None
        PROVE  H!Whole(x5'[1])
    BY <1>1, <2>2 DEF H!FitsAreWhole
  <2> QED BY <2>1, <2>2 DEF H!FitsAreWhole, H!Whole, H!Retired, H!FitsAreOf
<1>6. (H!HoldsSeeTheCountedDay)'
  <2> SUFFICES ASSUME NEW b \in Callers, x6'[b].pc = "done"
               PROVE  /\ x6'[b].day \subseteq x6'[b].of \/ x6'[b].latest < x3 - RetentionDays
                      /\ \A row \in x6'[b].rows : row.qualified =>
                           \E d \in DOMAIN x1[row.key] :
                             x1[row.key][d] > 0 /\ d <= x6'[b].latest /\ x6'[b].latest - d < WeekDays
    BY DEF H!HoldsSeeTheCountedDay
  <2>1. CASE b # c
    BY <1>1, <1>2, <2>1 DEF H!HoldsSeeTheCountedDay
  <2>2. CASE b = c
    BY <1>2, <2>2 DEF H!Whole, H!Retired
  <2> QED BY <2>1, <2>2
<1> QED
  BY <1>3, <1>4, <1>5, <1>6 DEF H!HoldsInv

\* Fits found under the same count of the same day hold every key that was counted.
LEMMA HitIsWhole ==
  ASSUME H!HoldsInv, NEW c \in Callers, x6[c].pc # "idle", H!Hit(c)
  PROVE  /\ x6[c].day \subseteq x5[1].of \/ H!Retired(x6[c].latest)
         /\ H!FitsAreOf(x5[1].fits, x6[c].latest)
<1> USE HoldsAssumption
<1> DEFINE o == [latest |-> x6[c].latest, n |-> x6[c].n, day |-> x6[c].day]
           p == [latest |-> x5[1].latest, n |-> x5[1].n, day |-> x5[1].day]
<1>1. H!DaysGrow /\ H!CountsAreComparable /\ H!FitsAreWhole
  BY DEF H!HoldsInv
<1>2. x5 # H!None /\ p.latest = o.latest /\ p.n = o.n
  BY DEF H!Hit
<1>3. o \in H!Counts /\ p \in H!Counts
  BY <1>2 DEF H!Counts
<1>4. \A Q : H!Cardinality(Q) = Cardinality(Q)
  BY DEF H!Cardinality, Cardinality
<1>5. /\ o.day \subseteq HeldKeys /\ p.day \subseteq HeldKeys
      /\ Cardinality(o.day) = Cardinality(p.day)
      /\ o.day \subseteq p.day \/ p.day \subseteq o.day
  BY <1>1, <1>2, <1>3, <1>4 DEF H!DaysGrow, H!CountsAreComparable
<1>6. IsFiniteSet(o.day) /\ IsFiniteSet(p.day)
  BY <1>5, FS_Subset
<1>7. o.day = p.day
  BY <1>5, <1>6, FS_Subset
<1>8. H!Whole(x5[1])
  BY <1>1, <1>2 DEF H!FitsAreWhole
<1> QED
  BY <1>2, <1>7, <1>8 DEF H!Whole

\* Fits made of what is there hold every key that was counted, unless the day was retired.
LEMMA LoadIsWhole ==
  ASSUME H!HoldsInv, NEW c \in Callers, x6[c].pc # "idle"
  PROVE  /\ x6[c].day \subseteq H!KeysOf(x4, x6[c].latest) \/ H!Retired(x6[c].latest)
         /\ H!FitsAreOf(H!Fits(x4, x6[c].latest), x6[c].latest)
<1> DEFINE o == [latest |-> x6[c].latest, n |-> x6[c].n, day |-> x6[c].day]
<1>1. H!DaysGrow /\ H!TypeOK
  BY DEF H!HoldsInv
<1>2. o \in H!Counts
  BY DEF H!Counts
<1>3. /\ o.latest \in Nat
      /\ o.day \subseteq H!KeysOf(x4, o.latest) \/ H!Retired(o.latest)
  BY <1>1, <1>2 DEF H!DaysGrow
<1>4. H!FitsAreOf(H!Fits(x4, o.latest), o.latest)
  BY <1>1, <1>3, FitsAreReal
<1> QED
  BY <1>3, <1>4

LEMMA CountKeeps ==
  ASSUME H!HoldsInv, NEW c \in Callers, H!Count(c)
  PROVE  (H!HoldsInv)'
<1> USE HoldsAssumption
<1>1. H!TypeOK
  BY DEF H!HoldsInv
<1>2. UNCHANGED <<x1, x2, x3, x4, x5>>
  BY DEF H!Count
<1>3. PICK t \in Thresholds :
        x6' = [x6 EXCEPT ![c] =
          IF H!latest_day_rows(x4) = H!None THEN H!Idle
          ELSE [H!Idle EXCEPT !.pc = "look", !.latest = H!latest_day_rows(x4)[1].latest,
                              !.n = H!latest_day_rows(x4)[1].n, !.day = H!OfLatest(x4), !.t = H!Clamped(t)]]
  BY DEF H!Count
<1>4. CASE H!latest_day_rows(x4) = H!None
  <2>1. x6' = [x6 EXCEPT ![c] = H!Idle] /\ H!Idle.pc = "idle"
    BY <1>3, <1>4 DEF H!Idle
  <2> QED BY <1>2, <2>1, HoldCallKeeps
<1>5. CASE H!latest_day_rows(x4) # H!None
  <2> DEFINE L == H!Latest(x4)
             r == [H!Idle EXCEPT !.pc = "look", !.latest = H!latest_day_rows(x4)[1].latest,
                                 !.n = H!latest_day_rows(x4)[1].n, !.day = H!OfLatest(x4), !.t = H!Clamped(t)]
  <2>1. x4 # {}
    BY <1>5 DEF H!latest_day_rows
  <2>2. H!latest_day_rows(x4)[1].latest = L /\ H!latest_day_rows(x4)[1].n = Cardinality(H!OfLatest(x4))
    <3>1. \A Q : H!Cardinality(Q) = Cardinality(Q)
      BY DEF H!Cardinality, Cardinality
    <3>2. H!latest_day_rows(x4) = <<[latest |-> L, n |-> H!Cardinality(H!OfLatest(x4))]>>
      BY <2>1, Zenon DEF H!latest_day_rows, H!Some
    <3> HIDE DEF L
    <3>3. H!latest_day_rows(x4)[1] = [latest |-> L, n |-> H!Cardinality(H!OfLatest(x4))]
      BY <3>2
    <3> QED BY <3>1, <3>3
  <2>3. H!OfLatest(x4) = H!KeysOf(x4, L)
    BY Zenon DEF H!OfLatest
  <2>4. L \in Nat
    BY <1>1, <2>1, LatestIs
  <2>5. x6' = [x6 EXCEPT ![c] = r]
    BY <1>3, <1>5, Zenon
  <2>6. r.pc = "look" /\ r.latest = L /\ r.n = Cardinality(r.day) /\ r.day = H!KeysOf(x4, L) /\ DOMAIN r = DOMAIN H!Idle
    BY <2>2, <2>3 DEF H!Idle
  <2> HIDE DEF r, L
  <2> QED BY <1>2, <2>4, <2>5, <2>6, HoldCallKeeps
<1> QED
  BY <1>4, <1>5

\* A call goes on with its count, and what it had got or has got now.
LEMMA GoesOnKeeps ==
  ASSUME H!HoldsInv, NEW c \in Callers, NEW pc, NEW fits, NEW of, UNCHANGED <<x1, x3, x4, x5>>,
         x6[c].pc # "idle",
         x6' = [x6 EXCEPT ![c] = [@ EXCEPT !.pc = pc, !.fits = fits, !.of = of]],
         pc # "done",
         pc \in {"store", "quote"} =>
           /\ x6[c].day \subseteq of \/ H!Retired(x6[c].latest)
           /\ H!FitsAreOf(fits, x6[c].latest)
  PROVE  (H!HoldsInv)'
<1> DEFINE r == [x6[c] EXCEPT !.pc = pc, !.fits = fits, !.of = of]
<1>1. DOMAIN x6 = Callers /\ DOMAIN x6[c] = DOMAIN H!Idle
  BY DEF H!HoldsInv, H!TypeOK
<1>2. x6' = [x6 EXCEPT ![c] = r]
  BY <1>1
<1>3. /\ DOMAIN r = DOMAIN H!Idle
      /\ r.pc = pc /\ r.fits = fits /\ r.of = of
      /\ r.latest = x6[c].latest /\ r.n = x6[c].n /\ r.day = x6[c].day
  BY <1>1 DEF H!Idle
<1> HIDE DEF r
<1>4. pc \in {"store", "quote"} => H!Whole(r)
  BY <1>3 DEF H!Whole
<1> QED
  BY <1>2, <1>3, <1>4, HoldCallKeeps

LEMMA LookLoadKeeps ==
  ASSUME H!HoldsInv, NEW c \in Callers, H!Look(c) \/ H!Load(c)
  PROVE  (H!HoldsInv)'
<1>1. DOMAIN x6 = Callers /\ DOMAIN x6[c] = DOMAIN H!Idle
  BY DEF H!HoldsInv, H!TypeOK
<1>2. UNCHANGED <<x1, x2, x3, x4, x5>> /\ x6[c].pc # "idle"
  BY DEF H!Look, H!Load
<1>3. CASE H!Look(c) /\ H!Hit(c)
  <2>1. x6' = [x6 EXCEPT ![c] = [@ EXCEPT !.pc = "quote", !.fits = x5[1].fits, !.of = x5[1].of]]
    BY <1>3 DEF H!Look
  <2>2. /\ x6[c].day \subseteq x5[1].of \/ H!Retired(x6[c].latest)
        /\ H!FitsAreOf(x5[1].fits, x6[c].latest)
    BY <1>2, <1>3, HitIsWhole
  <2> QED BY <1>2, <2>1, <2>2, GoesOnKeeps
<1>4. CASE H!Look(c) /\ ~H!Hit(c)
  <2>1. x6' = [x6 EXCEPT ![c] = [@ EXCEPT !.pc = "load"]]
    BY <1>4 DEF H!Look
  <2>2. [x6[c] EXCEPT !.pc = "load"] = [x6[c] EXCEPT !.pc = "load", !.fits = x6[c].fits, !.of = x6[c].of]
    BY <1>1 DEF H!Idle
  <2>3. x6' = [x6 EXCEPT ![c] = [@ EXCEPT !.pc = "load", !.fits = x6[c].fits, !.of = x6[c].of]]
    BY <1>1, <2>1, <2>2
  <2> QED BY <1>2, <2>3, GoesOnKeeps
<1>5. CASE H!Load(c)
  <2>1. x6' = [x6 EXCEPT ![c] = [@ EXCEPT !.pc = "store", !.fits = H!Fits(x4, x6[c].latest),
                                          !.of = H!KeysOf(x4, x6[c].latest)]]
    BY <1>5 DEF H!Load
  <2>2. /\ x6[c].day \subseteq H!KeysOf(x4, x6[c].latest) \/ H!Retired(x6[c].latest)
        /\ H!FitsAreOf(H!Fits(x4, x6[c].latest), x6[c].latest)
    BY <1>2, LoadIsWhole
  <2> HIDE DEF H!Fits, H!KeysOf
  <2> QED BY <1>2, <2>1, <2>2, GoesOnKeeps
<1> QED
  BY <1>3, <1>4, <1>5

LEMMA StoreKeeps ==
  ASSUME H!HoldsInv, NEW c \in Callers, H!Store(c)
  PROVE  (H!HoldsInv)'
<1> DEFINE v == [latest |-> x6[c].latest, n |-> x6[c].n,
                 fits |-> x6[c].fits, of |-> x6[c].of, day |-> x6[c].day]
           r == [x6[c] EXCEPT !.pc = "quote"]
<1>1. DOMAIN x6 = Callers /\ DOMAIN x6[c] = DOMAIN H!Idle
  BY DEF H!HoldsInv, H!TypeOK
<1>2. UNCHANGED <<x1, x2, x3, x4>> /\ x6[c].pc = "store" /\ x5' = <<v>> /\ x6' = [x6 EXCEPT ![c] = r]
  BY <1>1 DEF H!Store, H!StoredUnder, H!Some
<1>3. H!Whole(x6[c])
  BY <1>2 DEF H!HoldsInv, H!FitsAreWhole
<1>4. x5' # H!None /\ x5'[1] = v
  BY <1>2 DEF H!None
<1>5. H!Whole(v)
  BY <1>3 DEF H!Whole
<1>6. /\ DOMAIN r = DOMAIN H!Idle /\ r.pc = "quote"
      /\ r.latest = x6[c].latest /\ r.n = x6[c].n /\ r.day = x6[c].day /\ r.fits = x6[c].fits /\ r.of = x6[c].of
  BY <1>1 DEF H!Idle
<1>7. v.latest = x6[c].latest /\ v.n = x6[c].n /\ v.day = x6[c].day
  OBVIOUS
<1> HIDE DEF v, r
<1>8. H!Whole(r)
  BY <1>3, <1>6, SMTT(20) DEF H!Whole
<1> QED
  BY <1>2, <1>4, <1>5, <1>6, <1>7, <1>8, HoldCallKeeps

LEMMA AnswerHoldsKeeps ==
  ASSUME H!HoldsInv, NEW c \in Callers, H!Answer(c)
  PROVE  (H!HoldsInv)'
<1> DEFINE f == x6[c].fits
           fitted == {k \in HeldKeys \cap KnownKeys : f[k] # H!None}
           row(k) == H!hold_row(k, f[k][1], H!quote_or_closed(x2[k], PriceNow(f[k][1].weekly)), x6[c].t)
           r == [x6[c] EXCEPT !.pc = "done", !.rows = {row(k) : k \in fitted}]
<1>1. DOMAIN x6 = Callers /\ DOMAIN x6[c] = DOMAIN H!Idle
  BY DEF H!HoldsInv, H!TypeOK
<1>2. UNCHANGED <<x1, x2, x3, x4, x5>> /\ x6[c].pc = "quote"
      /\ x6' = [x6 EXCEPT ![c] = [@ EXCEPT !.pc = "done", !.rows = {row(k) : k \in fitted}]]
  BY DEF H!Answer
<1>3. H!Whole(x6[c])
  BY <1>2 DEF H!HoldsInv, H!FitsAreWhole
<1>4. \A k \in fitted : row(k).key = k /\ (row(k).qualified => f[k][1].last_week = H!LAST_WEEK)
  BY DEF H!hold_row, H!qualifies
<1> HIDE DEF row
<1>5. /\ DOMAIN r = DOMAIN H!Idle /\ r.pc = "done" /\ r.rows = {row(k) : k \in fitted}
      /\ r.latest = x6[c].latest /\ r.n = x6[c].n /\ r.day = x6[c].day /\ r.fits = x6[c].fits /\ r.of = x6[c].of
  BY <1>1 DEF H!Idle
<1>6. x6' = [x6 EXCEPT ![c] = r]
  BY <1>1, <1>2
<1>7. \A w \in r.rows : w.qualified =>
        \E d \in DOMAIN x1[w.key] : x1[w.key][d] > 0 /\ d <= r.latest /\ r.latest - d < WeekDays
  BY <1>3, <1>4, <1>5 DEF H!Whole, H!FitsAreOf
<1> HIDE DEF r
<1>8. H!Whole(r)
  BY <1>3, <1>5 DEF H!Whole
<1> QED
  BY <1>2, <1>5, <1>6, <1>7, <1>8, HoldCallKeeps

LEMMA HoldsNext ==
  ASSUME H!HoldsInv, H!Next
  PROVE  (H!HoldsInv)'
<1>1. CASE H!Tick \/ H!apply_retention \/ \E k \in HeldKeys : H!upsert_days(k)
  BY <1>1, TableNext
<1>2. ASSUME NEW c \in Callers,
             H!Count(c) \/ H!Look(c) \/ H!Load(c) \/ H!Store(c) \/ H!Answer(c) \/ H!Again(c)
      PROVE  (H!HoldsInv)'
  <2>1. CASE H!Again(c)
    <3>1. UNCHANGED <<x1, x3, x4, x5>> /\ x6' = [x6 EXCEPT ![c] = H!Idle]
      BY <2>1 DEF H!Again
    <3>2. H!Idle.pc = "idle"
      BY DEF H!Idle
    <3> QED BY <3>1, <3>2, HoldCallKeeps
  <2> QED BY <1>2, <2>1, CountKeeps, LookLoadKeeps, StoreKeeps, AnswerHoldsKeeps
<1> QED
  BY <1>1, <1>2 DEF H!Next

-----------------------------------------------------------------------------
(* The figures: closed windows.                                             *)

\* The window a fetch fixes lies within the rows that are loaded for as long as the fetch
\* is fresh (aggregate, load_fresh).
LEMMA WindowIs ==
  ASSUME NEW rows, NEW today, NEW least
  PROVE  F!aggregate(rows, today, least).window = {r.day : r \in {s \in rows : s.day >= today - 7 /\ s.day < today}}
BY DEF F!aggregate

LEMMA WindowsAreWhole ==
  ASSUME NEW q \in ClosedKeys, F!ClosedOf(q).stats # F!None
  PROVE  LET anchor == F!Day(F!cutoff(q.fetch.at)) IN
         F!ClosedOf(q).stats[1].window = {r.day : r \in {s \in q.rows : s.day >= anchor - 7 /\ s.day < anchor}}
<1>a. PICK a : a = F!Day(F!cutoff(q.fetch.at))
  OBVIOUS
<1>l. PICK loaded : loaded = F!Loaded(q.rows, q.now)
  OBVIOUS
<1>s. PICK st : st = F!aggregate(loaded, a, 10)
  OBVIOUS
<1>1. F!ClosedOf(q).stats = F!load_fresh(q.rows, q.fetch, q.now, 10)
  BY DEF F!ClosedOf
<1>2. q.fetch.at >= q.now - 6 /\ F!ClosedOf(q).stats = <<st>>
  BY <1>1, <1>a, <1>l, <1>s DEF F!load_fresh, F!None, F!Some, F!Ticks
<1>3. st.window = {r.day : r \in {s \in loaded : s.day >= a - 7 /\ s.day < a}}
  BY <1>s, WindowIs
<1>4. q.fetch.at \in Nat /\ q.now \in Nat /\ q.fetch.at <= q.now /\ \A r \in q.rows : r.day \in Int
  BY FiguresAssumption DEF FiguresAssumption
<1>5. a \in Int /\ a <= F!Day(q.now) /\ a - 7 >= F!Day(q.now) - 11 /\ F!Day(q.now) \in Int
  BY <1>2, <1>4, <1>a DEF F!Day, F!cutoff, F!Ticks
<1>6. loaded = {r \in q.rows : r.day >= F!Day(q.now) - 11 /\ r.day < F!Day(q.now)}
  BY <1>l, <1>4 DEF F!Loaded
<1>7. {s \in loaded : s.day >= a - 7 /\ s.day < a} = {s \in q.rows : s.day >= a - 7 /\ s.day < a}
  BY <1>4, <1>5, <1>6
<1> QED BY <1>2, <1>3, <1>7, <1>a


-----------------------------------------------------------------------------
(* Counting up, and folds over a finite set.                                *)

\* A statement about numbers holds up to a bound when it holds at 0 and each
\* number passes it on: the statement is the set of the numbers it holds for.
LEMMA CountUp ==
  ASSUME NEW Good, 0 \in Good, NEW n \in Nat, \A k \in 0..(n - 1) : k \in Good => k + 1 \in Good
  PROVE  \A k \in 0..n : k \in Good
<1> DEFINE Bad == {k \in 0..n : k \notin Good}
<1> SUFFICES ASSUME Bad # {} PROVE FALSE
  OBVIOUS
<1>0. Bad \in SUBSET Nat
  OBVIOUS
<1> HIDE DEF Bad
<1>1. PICK k \in Bad : \A j \in Bad : k <= j
  BY <1>0, HasLeast
<1> USE DEF Bad
<1>2. k # 0 /\ k - 1 \in 0..(n - 1) /\ k - 1 \notin Bad
  BY <1>1
<1>3. k - 1 \in Good
  BY <1>2
<1>4. (k - 1) + 1 \in Good
  BY <1>2, <1>3
<1> QED
  BY <1>1, <1>4

\* A fold over the subsets of a finite set has the values its equation says: the
\* element it takes next is ch's, and step is the step.
StepsOf(Z, V) == [Z -> [V -> V]]
Folds(f, V, step, base, ch, Z) ==
  /\ f \in [SUBSET Z -> V]
  /\ \A T \in SUBSET Z : f[T] = IF T = {} THEN base ELSE step[ch[T]][f[T \ {ch[T]}]]

\* Whatever its steps, a fold over a finite set has values.
LEMMA FoldExists ==
  ASSUME NEW Z, IsFiniteSet(Z), NEW V, NEW base \in V,
         NEW step \in StepsOf(Z, V), NEW ch,
         \A T \in SUBSET Z : T # {} => ch[T] \in T
  PROVE  \E f : Folds(f, V, step, base, ch, Z)
<1> DEFINE Holds(f, k) == \A T \in SUBSET Z : Cardinality(T) <= k =>
             f[T] = IF T = {} THEN base ELSE step[ch[T]][f[T \ {ch[T]}]]
           Q == {k \in Nat : \E f \in [SUBSET Z -> V] : Holds(f, k)}
           n == Cardinality(Z)
<1>n. n \in Nat
  BY FS_CardinalityType
<1>f. \A T \in SUBSET Z : IsFiniteSet(T) /\ Cardinality(T) \in Nat /\ Cardinality(T) <= n
  BY FS_Subset, FS_CardinalityType
<1>e. \A T \in SUBSET Z : Cardinality(T) = 0 <=> T = {}
  BY <1>f, FS_EmptySet
<1>0. 0 \in Q
  <2> DEFINE f == [T \in SUBSET Z |-> base]
  <2>1. f \in [SUBSET Z -> V]
    OBVIOUS
  <2>2. Holds(f, 0)
    BY <1>e, <1>f
  <2> QED BY <2>1, <2>2
<1>1. ASSUME NEW k \in 0..(n - 1), k \in Q
      PROVE  k + 1 \in Q
  <2>1. PICK f \in [SUBSET Z -> V] : Holds(f, k)
    BY <1>1
  <2> DEFINE g == [T \in SUBSET Z |-> IF Cardinality(T) <= k THEN f[T]
                                      ELSE step[ch[T]][f[T \ {ch[T]}]]]
  <2>2. k \in Nat
    BY <1>n
  <2>3. ASSUME NEW T \in SUBSET Z, T # {}
        PROVE  /\ ch[T] \in Z /\ T \ {ch[T]} \in SUBSET Z
               /\ Cardinality(T \ {ch[T]}) = Cardinality(T) - 1
    <3>1. ch[T] \in T
      BY <2>3
    <3> QED BY <3>1, <1>f, FS_RemoveElement
  <2>4. g \in [SUBSET Z -> V]
    <3> SUFFICES ASSUME NEW T \in SUBSET Z, ~(Cardinality(T) <= k)
                 PROVE  step[ch[T]][f[T \ {ch[T]}]] \in V
      BY <2>1
    <3>1. T # {}
      BY <1>e, <2>2
    <3>2. ch[T] \in Z /\ f[T \ {ch[T]}] \in V
      BY <2>1, <2>3, <3>1
    <3>3. step[ch[T]] \in [V -> V]
      <4>1. step \in [Z -> [V -> V]]
        BY DEF StepsOf
      <4> QED BY ONLY <3>2, <4>1
    <3> QED BY <3>2, <3>3
  <2>5. Holds(g, k + 1)
    <3> SUFFICES ASSUME NEW T \in SUBSET Z, Cardinality(T) <= k + 1
                 PROVE  g[T] = IF T = {} THEN base ELSE step[ch[T]][g[T \ {ch[T]}]]
      OBVIOUS
    <3>1. CASE T = {}
      <4>1. Cardinality(T) <= k
        BY <1>e, <2>2, <3>1
      <4> QED BY <2>1, <3>1, <4>1
    <3>2. CASE T # {}
      <4>1. Cardinality(T \ {ch[T]}) <= k /\ T \ {ch[T]} \in SUBSET Z
        BY <1>f, <2>2, <2>3, <3>2
      <4>2. g[T \ {ch[T]}] = f[T \ {ch[T]}]
        BY <4>1, SMTT(20)
      <4>3. CASE Cardinality(T) <= k
        <5>1. f[T] = step[ch[T]][f[T \ {ch[T]}]]
          BY <2>1, <3>2, <4>3
        <5> QED BY <3>2, <4>2, <4>3, <5>1
      <4>4. CASE ~(Cardinality(T) <= k)
        BY <3>2, <4>2, <4>4
      <4> QED BY <4>3, <4>4
    <3> QED BY <3>1, <3>2, Zenon
  <2> HIDE DEF g, Holds
  <2> QED BY <2>2, <2>4, <2>5
<1> HIDE DEF Q
<1>2. n \in Q
  BY <1>0, <1>1, <1>n, CountUp
<1>3. PICK f \in [SUBSET Z -> V] : Holds(f, n)
  BY <1>2 DEF Q
<1> QED
  BY <1>3, <1>f DEF Folds

\* A set of numbers up to n has the largest one the library picks.
LEMMA LargestIs ==
  ASSUME NEW n \in Nat, NEW T \in SUBSET (1..n), T # {}
  PROVE  F!Max(T) \in T /\ \A y \in T : y <= F!Max(T)
<1> DEFINE U == {m \in Nat : \A y \in T : y <= m}
<1>1. n \in U /\ U \in SUBSET Nat
  OBVIOUS
<1> HIDE DEF U
<1>2. PICK m \in U : \A k \in U : m <= k
  BY <1>1, HasLeast
<1> USE DEF U
<1>3. m \in T
  <2> SUFFICES ASSUME m \notin T PROVE FALSE
    OBVIOUS
  <2>1. PICK y \in T : TRUE
    OBVIOUS
  <2>2. y \in Nat /\ y <= m /\ y # m
    BY <1>2
  <2>3. m - 1 \in U
    BY <1>2, <2>2
  <2> QED BY <1>2, <2>3
<1>4. \A y \in T : m >= y
  BY <1>2
<1> QED
  BY <1>3, <1>4 DEF F!Max

\* The largest of 1..k is k, and the rest is 1..k-1.
LEMMA LastOf ==
  ASSUME NEW n \in Nat, NEW k \in 1..n
  PROVE  F!Max(1..k) = k /\ (1..k) \ {k} = 1..(k - 1) /\ 1..k \in SUBSET (1..n) /\ 1..k # {}
<1>1. 1..k \in SUBSET (1..n) /\ 1..k # {} /\ k \in 1..k /\ (1..k) \ {k} = 1..(k - 1)
  OBVIOUS
<1>2. F!Max(1..k) \in 1..k /\ \A y \in 1..k : y <= F!Max(1..k)
  BY <1>1, LargestIs
<1> QED BY <1>1, <1>2

\* A fold from the left has a value: `it' is the iteration over the sets of positions.
Steps(it, V, step, base, n) == it \in [SUBSET (1..n) -> V] /\ \A s \in SUBSET (1..n) :
  it[s] = IF s = {} THEN base ELSE step[F!Max(s)][it[s \ {F!Max(s)}]]

\* A fold over 1..n in order has values.
LEMMA StepsExist ==
  ASSUME NEW n \in Nat, NEW V, NEW base \in V, NEW step \in StepsOf(1..n, V)
  PROVE  \E f : Steps(f, V, step, base, n)
<1> PICK ch : ch = [T \in SUBSET (1..n) |-> F!Max(T)]
  OBVIOUS
<1> PICK Z : Z = 1..n
  OBVIOUS
<1>1. \A T \in SUBSET Z : T # {} => ch[T] \in T
  BY LargestIs
<1>2. IsFiniteSet(Z)
  BY FS_Interval
<1>3. PICK f : Folds(f, V, step, base, ch, Z)
  BY <1>1, <1>2, FoldExists
<1> QED BY <1>3 DEF Steps, Folds

-----------------------------------------------------------------------------
(* The figures: the lane counts.                                            *)

SweepEvents == [at : Int, lane : {"hot", "cold", "trader"}, ok : BOOLEAN]

\* What is recorded is what happened from some event on: those before it are over an hour old.
TailFrom(s, all, m, k, now) ==
  /\ m \in 0..k
  /\ s = [j \in 1..(k - m) |-> all[m + j]]
  /\ \A i \in 1..m : all[i].at < now - 2
IsTail(s, all, k, now) == \E m \in 0..k : TailFrom(s, all, m, k, now)

\* An event recorded leaves one of the events that happened (record).
LEMMA RecordStays ==
  ASSUME NEW s \in Seq(SweepEvents), NEW e \in SweepEvents
  PROVE  F!record(s, e) \in Seq(SweepEvents)
<1>l. PICK l : l = Append(s, e)
  OBVIOUS
<1>k. PICK keep : keep = {i \in DOMAIN l : l[i].at >= e.at - F!Hour}
  OBVIOUS
<1>1. l \in Seq(SweepEvents) /\ Len(l) = Len(s) + 1 /\ l[Len(s) + 1] = e /\ Len(s) \in Nat /\ DOMAIN l = 1..(Len(s) + 1)
  BY <1>l
<1>2. e.at \in Int /\ e.at >= e.at - F!Hour
  BY DEF SweepEvents, F!Hour
<1>3. Len(s) + 1 \in keep /\ keep \in SUBSET Nat
  BY <1>1, <1>2, <1>k
<1>4. F!Min(keep) \in keep
  <2>1. \E x \in keep : \A y \in keep : x <= y
    BY <1>3, HasLeast
  <2> QED BY <2>1 DEF F!Min
<1>5. F!record(s, e) = SubSeq(l, F!Min(keep), Len(l))
  BY <1>3, <1>l, <1>k DEF F!record, F!Pruned
<1>6. F!Min(keep) \in 1..(Len(s) + 1)
  BY <1>1, <1>4, <1>k
<1> QED BY <1>1, <1>5, <1>6

\* An event recorded leaves the events from one on, and drops what is over an hour older
\* than it (record).
LEMMA RecordKeepsTheTail ==
  ASSUME NEW all \in Seq(SweepEvents), NEW now \in Int, \A i \in DOMAIN all : all[i].at <= now,
         NEW k \in 0..(Len(all) - 1), NEW s, IsTail(s, all, k, now)
  PROVE  IsTail(F!record(s, all[k + 1]), all, k + 1, now)
<1>m. PICK m \in 0..k : TailFrom(s, all, m, k, now)
  BY DEF IsTail
<1>e. PICK e : e = all[k + 1]
  OBVIOUS
<1>l. PICK l : l = Append(s, e)
  OBVIOUS
<1>k. PICK keep : keep = {i \in DOMAIN l : l[i].at >= e.at - F!Hour}
  OBVIOUS
<1>0. Len(all) \in Nat /\ k + 1 \in DOMAIN all /\ DOMAIN all = 1..Len(all) /\ \A i \in DOMAIN all : all[i] \in SweepEvents
  OBVIOUS
<1>1. e \in SweepEvents /\ e.at \in Int /\ e.at <= now
  BY <1>0, <1>e DEF SweepEvents
<1>2. s = [j \in 1..(k - m) |-> all[m + j]] /\ m \in Nat /\ k - m \in Nat
  BY <1>m DEF TailFrom
<1>3. s \in Seq(SweepEvents) /\ Len(s) = k - m
  <2>1. \A j \in 1..(k - m) : all[m + j] \in SweepEvents
    BY <1>0, <1>2
  <2>2. s \in [1..(k - m) -> SweepEvents]
    BY <1>2, <2>1
  <2>3. k - m \in Nat
    BY <1>2
  <2>4. s \in Seq(SweepEvents) /\ DOMAIN s = 1..(k - m)
    BY <2>2, <2>3
  <2> QED BY <2>3, <2>4
<1>4. Len(l) = (k - m) + 1 /\ DOMAIN l = 1..((k - m) + 1) /\ \A j \in DOMAIN l : l[j] = all[m + j]
  <2>1. \A j \in 1..(k - m) : l[j] = s[j]
    BY <1>3, <1>l
  <2>2. l[(k - m) + 1] = e
    BY <1>3, <1>l
  <2>3. Len(l) = (k - m) + 1 /\ DOMAIN l = 1..((k - m) + 1)
    BY <1>1, <1>3, <1>l
  <2>4. m + ((k - m) + 1) = k + 1
    BY <1>2
  <2>5. \A j \in 1..((k - m) + 1) : j \in 1..(k - m) \/ j = (k - m) + 1
    BY <1>2
  <2> QED BY <1>2, <1>e, <2>1, <2>2, <2>3, <2>4, <2>5
<1>5. (k - m) + 1 \in keep /\ keep \in SUBSET Nat
  <2>1. (k - m) + 1 \in DOMAIN l /\ m + ((k - m) + 1) = k + 1
    BY <1>2, <1>4
  <2>2. l[(k - m) + 1] = e
    BY <1>4, <1>e, <2>1
  <2>3. e.at >= e.at - F!Hour
    BY <1>1 DEF F!Hour
  <2> QED BY <1>4, <1>k, <2>1, <2>2, <2>3
<1>6. PICK a : a = F!Min(keep)
  OBVIOUS
<1>7. a \in keep /\ \A y \in keep : a <= y
  <2>1. \E x \in keep : \A y \in keep : x <= y
    BY <1>5, HasLeast
  <2> QED BY <1>6, <2>1 DEF F!Min
<1>8. a \in 1..((k - m) + 1)
  BY <1>4, <1>7, <1>k
<1>9. F!record(s, all[k + 1]) = SubSeq(l, a, Len(l))
  BY <1>5, <1>6, <1>l, <1>k, <1>e DEF F!record, F!Pruned
<1>10. PICK m2 : m2 = m + (a - 1)
  OBVIOUS
<1>11. m2 \in 0..(k + 1) /\ (k + 1) - m2 = Len(l) - a + 1 /\ m2 \in Nat
  <2>1. Len(l) = (k - m) + 1
    BY <1>4
  <2>2. m \in Nat /\ k \in Nat /\ m <= k
    BY <1>2
  <2>3. a \in Nat /\ 1 <= a /\ a <= (k - m) + 1
    BY <1>8, <2>2
  <2>4. m2 \in Nat /\ m2 <= k + 1 /\ (k + 1) - m2 = ((k - m) + 1) - a + 1
    BY ONLY <1>10, <2>2, <2>3
  <2> QED BY <2>1, <2>2, <2>4
<1>12. SubSeq(l, a, Len(l)) = [j \in 1..((k + 1) - m2) |-> all[m2 + j]]
  <2>1. SubSeq(l, a, Len(l)) = [j \in 1..(Len(l) - a + 1) |-> l[a + j - 1]]
    BY <1>4, <1>8
  <2>2. \A j \in 1..(Len(l) - a + 1) : a + j - 1 \in DOMAIN l /\ m + (a + j - 1) = m2 + j
    BY <1>2, <1>4, <1>8, <1>10
  <2>3. \A j \in 1..(Len(l) - a + 1) : l[a + j - 1] = all[m2 + j]
    BY <1>4, <2>2
  <2> QED BY <1>11, <2>1, <2>3
<1>13. \A i \in 1..m2 : all[i].at < now - 2
  <2> SUFFICES ASSUME NEW i \in 1..m2 PROVE all[i].at < now - 2
    OBVIOUS
  <2>1. CASE i <= m
    BY <1>2, <1>m, <2>1 DEF TailFrom
  <2>2. CASE i > m
    <3>1. i - m \in 1..(a - 1) /\ m + (i - m) = i
      BY <1>2, <1>8, <1>10, <1>11, <2>2
    <3>2. i - m \in DOMAIN l /\ ~(a <= i - m)
      BY <1>2, <1>4, <1>8, <3>1
    <3>3. i - m \notin keep /\ l[i - m] = all[i]
      BY <1>4, <1>7, <3>1, <3>2
    <3>4. ~(all[i].at >= e.at - 2)
      BY <1>k, <3>2, <3>3 DEF F!Hour
    <3>5. i \in DOMAIN all
      BY <1>0, <1>2, <1>8, <1>10
    <3>6. all[i].at \in Int
      BY <1>0, <3>5 DEF SweepEvents
    <3> QED BY <1>1, <3>4, <3>6
  <2> QED BY <1>2, <2>1, <2>2
<1>14. TailFrom(SubSeq(l, a, Len(l)), all, m2, k + 1, now)
  BY <1>11, <1>12, <1>13 DEF TailFrom
<1> QED BY <1>9, <1>11, <1>14 DEF IsTail

\* All that is recorded is the events from one on; those before are over an hour old.
LEMMA RecordedIsTail ==
  ASSUME NEW all \in Seq(SweepEvents), NEW now \in Int, \A i \in DOMAIN all : all[i].at <= now
  PROVE  IsTail(F!Recorded(all), all, Len(all), now)
<1>n. PICK n : n = Len(all)
  OBVIOUS
<1>v. PICK V : V = Seq(SweepEvents)
  OBVIOUS
<1>0. n \in Nat /\ DOMAIN all = 1..n /\ \A i \in 1..n : all[i] \in SweepEvents
  BY <1>n
<1>t. PICK step : step = [i \in 1..n |-> [a \in V |-> F!record(a, all[i])]]
  OBVIOUS
<1>1. <<>> \in V
  BY <1>v
<1>2. \A i \in 1..n, a \in V : F!record(a, all[i]) \in V
  BY <1>0, <1>v, RecordStays
<1>3. step \in StepsOf(1..n, V)
  BY <1>2, <1>t DEF StepsOf
<1>4. \A i \in 1..n, a \in V : step[i][a] = F!record(a, all[i])
  BY <1>t
<1>6. \A s \in SUBSET (1..n) : s # {} => F!Max(s) \in 1..n
  BY <1>0, LargestIs
<1> DEFINE E(it) == [s \in SUBSET (DOMAIN all) |-> IF s = {} THEN <<>>
                        ELSE LET x == F!Max(s) IN F!record(it[s \ {x}], all[x])]
           iter == CHOOSE it : it = E(it)
<1>8. PICK f : Steps(f, V, step, <<>>, n)
  BY <1>0, <1>1, <1>3, StepsExist
<1>9. f = E(f)
  <2>1. ASSUME NEW s \in SUBSET (1..n)
        PROVE  f[s] = IF s = {} THEN <<>> ELSE F!record(f[s \ {F!Max(s)}], all[F!Max(s)])
    <3>1. s \ {F!Max(s)} \in SUBSET (1..n) /\ f[s \ {F!Max(s)}] \in V
      BY <1>8 DEF Steps
    <3>2. s # {} => f[s] = step[F!Max(s)][f[s \ {F!Max(s)}]]
      BY <1>8 DEF Steps
    <3>3. s = {} => f[s] = <<>>
      BY <1>8 DEF Steps
    <3> QED BY <1>4, <1>6, <3>1, <3>2, <3>3
  <2>2. f = [s \in SUBSET (1..n) |-> f[s]]
    BY <1>8 DEF Steps
  <2> QED BY <1>0, <2>1, <2>2
<1>10. iter = E(iter)
  BY <1>9
<1>11. F!Recorded(all) = iter[DOMAIN all]
  BY DEF F!Recorded, F!FoldLeft, F!MapThenFoldSet
<1> HIDE DEF iter
<1> DEFINE Q == {k \in 0..n : IsTail(iter[1..k], all, k, now)}
<1>12. 0 \in Q
  <2>1. 1..0 = {} /\ {} \in SUBSET (1..n) /\ 0 \in 0..n
    BY <1>0
  <2>2. iter[1..0] = <<>>
    BY <1>0, <1>10, <2>1
  <2>3. TailFrom(<<>>, all, 0, 0, now)
    <3>1. 1..(0 - 0) = {} /\ 1..0 = {} /\ 0 \in 0..0
      OBVIOUS
    <3>2. <<>> = [j \in 1..(0 - 0) |-> all[0 + j]]
      OBVIOUS
    <3> QED BY <3>1, <3>2 DEF TailFrom
  <2>4. IsTail(<<>>, all, 0, now)
    BY <2>3 DEF IsTail
  <2> QED BY <2>1, <2>2, <2>4
<1>13. ASSUME NEW k \in 0..(n - 1), k \in Q PROVE k + 1 \in Q
  <2>1. k + 1 \in 1..n /\ (k + 1) - 1 = k /\ IsTail(iter[1..k], all, k, now) /\ k + 1 \in 0..n
    BY <1>0, <1>13
  <2>2. PICK s : s = 1..(k + 1)
    OBVIOUS
  <2>3. s \in SUBSET (1..n) /\ s # {} /\ F!Max(s) = k + 1 /\ s \ {k + 1} = 1..k
    BY <1>0, <2>1, <2>2, LastOf
  <2>4. iter[s] = F!record(iter[1..k], all[k + 1])
    BY <1>0, <1>10, <2>3
  <2>5. IsTail(iter[s], all, k + 1, now)
    BY <1>13, <1>n, <2>1, <2>4, RecordKeepsTheTail
  <2> QED BY <2>1, <2>2, <2>5
<1> HIDE DEF Q
<1>14. n \in Q
  <2>1. \A k \in 0..n : k \in Q
    BY <1>0, <1>12, <1>13, CountUp, Zenon
  <2> QED BY <1>0, <2>1
<1> QED BY <1>0, <1>11, <1>14, <1>n DEF Q

\* Two finite sets that correspond one to one have as many elements.
LEMMA SameCount ==
  ASSUME NEW Z, NEW T, IsFiniteSet(Z), NEW h, h \in [Z -> T],
         \A i, j \in Z : h[i] = h[j] => i = j, \A t \in T : \E i \in Z : h[i] = t
  PROVE  IsFiniteSet(T) /\ Cardinality(Z) = Cardinality(T)
<1>1. h \in Bijection(Z, T)
  <2>1. h \in Injection(Z, T)
    BY DEF Injection, IsInjective
  <2>2. h \in Surjection(Z, T)
    BY DEF Surjection
  <2> QED BY <2>1, <2>2 DEF Bijection
<1>2. ExistsBijection(Z, T)
  BY <1>1 DEF ExistsBijection
<1> QED BY <1>2, FS_Bijection

\* The recent ones among the last events are the recent ones of all: they are only numbered
\* differently.
LEMMA RecentAreAll ==
  ASSUME NEW all \in Seq(SweepEvents), NEW now \in Int, NEW lane,
         NEW s, IsTail(s, all, Len(all), now)
  PROVE  LET r == {i \in DOMAIN s : s[i].lane = lane /\ s[i].at >= now - 2}
             w == {i \in DOMAIN all : all[i].lane = lane /\ all[i].at >= now - 2}
         IN  IsFiniteSet(r) /\ Cardinality(r) = Cardinality(w) /\ \A i \in r : s[i] \in SweepEvents
<1>n. PICK n : n = Len(all)
  OBVIOUS
<1>m. PICK m \in 0..n : TailFrom(s, all, m, n, now)
  BY <1>n DEF IsTail
<1>r. PICK r : r = {i \in DOMAIN s : s[i].lane = lane /\ s[i].at >= now - 2}
  OBVIOUS
<1>w. PICK w : w = {i \in DOMAIN all : all[i].lane = lane /\ all[i].at >= now - 2}
  OBVIOUS
<1>0. n \in Nat /\ DOMAIN all = 1..n /\ \A i \in 1..n : all[i] \in SweepEvents
  BY <1>n
<1>1. DOMAIN s = 1..(n - m) /\ (\A j \in 1..(n - m) : s[j] = all[m + j]) /\ \A i \in 1..m : all[i].at < now - 2
  BY <1>m DEF TailFrom
<1>2. m \in Nat /\ n - m \in Nat
  BY <1>0, <1>m
<1>3. \A j \in 1..(n - m) : m + j \in 1..n
  BY <1>0, <1>2
<1>4. r \in SUBSET (1..(n - m)) /\ \A i \in r : s[i] \in SweepEvents
  BY <1>0, <1>1, <1>3, <1>r
<1>5. IsFiniteSet(r)
  <2>1. IsFiniteSet(1..(n - m))
    BY <1>2, FS_Interval
  <2> QED BY <1>4, <2>1, FS_Subset
<1>6. PICK h : h = [j \in r |-> m + j]
  OBVIOUS
<1>7. \A j \in r : h[j] \in w
  BY <1>0, <1>1, <1>3, <1>4, <1>r, <1>w, <1>6
<1>8. \A i \in w : \E j \in r : h[j] = i
  <2> SUFFICES ASSUME NEW i \in w PROVE \E j \in r : h[j] = i
    OBVIOUS
  <2>1. i \in 1..n /\ all[i].lane = lane /\ all[i].at >= now - 2 /\ all[i].at \in Int
    BY <1>0, <1>w DEF SweepEvents
  <2>2. ~(i <= m)
    BY <1>1, <1>2, <2>1
  <2>3. i - m \in 1..(n - m) /\ m + (i - m) = i
    BY <1>0, <1>2, <2>1, <2>2
  <2>4. i - m \in r
    BY <1>1, <1>r, <2>1, <2>3
  <2> QED BY <1>6, <2>3, <2>4
<1>9. h \in [r -> w] /\ \A i, j \in r : h[i] = h[j] => i = j
  BY <1>2, <1>4, <1>6, <1>7
<1>10. Cardinality(r) = Cardinality(w)
  BY <1>5, <1>8, <1>9, SameCount
<1> QED BY <1>4, <1>5, <1>10, <1>r, <1>w

\* Those that succeeded and those that failed are all of them.
LEMMA EitherOrCounts ==
  ASSUME NEW Z, IsFiniteSet(Z), NEW s, \A i \in Z : s[i].ok \in BOOLEAN
  PROVE  Cardinality({i \in Z : s[i].ok}) + Cardinality({i \in Z : ~s[i].ok}) = Cardinality(Z)
<1>a. PICK A : A = {i \in Z : s[i].ok}
  OBVIOUS
<1>b. PICK B1 : B1 = {i \in Z : ~s[i].ok}
  OBVIOUS
<1>1. A \cup B1 = Z /\ A \cap B1 = {}
  BY <1>a, <1>b
<1>2. IsFiniteSet(A) /\ IsFiniteSet(B1)
  <2>1. A \in SUBSET Z /\ B1 \in SUBSET Z
    BY <1>1
  <2> QED BY <2>1, FS_Subset
<1>3. Cardinality(Z) = Cardinality(A) + Cardinality(B1) - Cardinality({})
  BY <1>1, <1>2, FS_Union
<1>4. Cardinality({}) = 0 /\ Cardinality(A) \in Nat /\ Cardinality(B1) \in Nat
  BY <1>2, FS_EmptySet, FS_CardinalityType
<1> QED BY <1>3, <1>4, <1>a, <1>b

\* The lane counts are the sweeps of the last hour (Health).
LEMMA LanesAreTheLastHour ==
  ASSUME NEW q \in Watches
  PROVE  \A lane \in DOMAIN F!HealthOf(q) :
           F!HealthOf(q)[lane].swept_last_hour + F!HealthOf(q)[lane].errors_last_hour =
             F!Cardinality({i \in DOMAIN q.events : q.events[i].lane = lane /\ q.events[i].at >= q.now - F!Hour})
<1>a. PICK all : all = q.events
  OBVIOUS
<1>n. PICK now : now = q.now
  OBVIOUS
<1>s. PICK s : s = F!Recorded(all)
  OBVIOUS
<1>0. all \in Seq(SweepEvents) /\ now \in Int /\ \A i \in DOMAIN all : all[i].at <= now
  BY FiguresAssumption, <1>a, <1>n DEF FiguresAssumption, SweepEvents
<1>1. IsTail(s, all, Len(all), now)
  BY <1>0, <1>s, RecordedIsTail
<1>2. F!HealthOf(q) = [lane \in {"hot", "cold", "trader"} |-> F!lane_health(s, lane, now)]
  BY <1>a, <1>n, <1>s DEF F!HealthOf, F!snapshot
<1> SUFFICES ASSUME NEW lane \in DOMAIN F!HealthOf(q)
             PROVE  F!HealthOf(q)[lane].swept_last_hour + F!HealthOf(q)[lane].errors_last_hour =
                      F!Cardinality({i \in DOMAIN all : all[i].lane = lane /\ all[i].at >= now - F!Hour})
  BY <1>a, <1>n, Zenon
<1>z. F!HealthOf(q)[lane] = F!lane_health(s, lane, now) /\ F!Hour = 2
  BY <1>2 DEF F!Hour
<1>r. PICK r : r = {i \in DOMAIN s : s[i].lane = lane /\ s[i].at >= now - 2}
  OBVIOUS
<1>3. IsFiniteSet(r) /\ (\A i \in r : s[i] \in SweepEvents)
      /\ Cardinality(r) = Cardinality({i \in DOMAIN all : all[i].lane = lane /\ all[i].at >= now - 2})
  <2>1. LET r1 == {i \in DOMAIN s : s[i].lane = lane /\ s[i].at >= now - 2}
            w == {i \in DOMAIN all : all[i].lane = lane /\ all[i].at >= now - 2}
        IN  IsFiniteSet(r1) /\ Cardinality(r1) = Cardinality(w) /\ \A i \in r1 : s[i] \in SweepEvents
    BY <1>0, <1>1, RecentAreAll, Zenon
  <2> QED BY <1>r, <2>1
<1>4. \A Z : F!Cardinality(Z) = Cardinality(Z)
  BY DEF F!Cardinality, Cardinality
<1>5. F!lane_health(s, lane, now).swept_last_hour = F!Cardinality({i \in r : s[i].ok})
      /\ F!lane_health(s, lane, now).errors_last_hour = F!Cardinality({i \in r : ~s[i].ok})
  BY <1>r DEF F!lane_health, F!Hour
<1>6. \A i \in r : s[i].ok \in BOOLEAN
  BY <1>3 DEF SweepEvents
<1>7. Cardinality({i \in r : s[i].ok}) + Cardinality({i \in r : ~s[i].ok}) = Cardinality(r)
  BY <1>3, <1>6, EitherOrCounts
<1> QED BY <1>3, <1>4, <1>5, <1>7, <1>z

-----------------------------------------------------------------------------
(* The figures: the warm-up page.                                           *)

\* The trades of a week.
WeekOf(trades, now) == {t \in trades : t.at > now - 14 /\ t.at <= now}

\* A key's figures count the trades of its week and the days since its first sweep
\* (compute_item_stats).
LEMMA ComputedIs ==
  ASSUME NEW trades, NEW spread, NEW first, first # F!None, first[1] \in Nat, NEW now \in Nat, first[1] <= now
  PROVE  LET c == F!compute_item_stats(trades, spread, first, now) IN
         /\ c.trades = F!Cardinality(WeekOf(trades, now))
         /\ c.history_days = (now - first[1]) \div 2
         /\ c.warm <=> (now - first[1]) \div 2 >= 7 /\ F!Cardinality(WeekOf(trades, now)) >= 10
<1>w. PICK week : week = WeekOf(trades, now)
  OBVIOUS
<1>1. week = {t \in trades : t.at > now - 7 * F!Ticks /\ t.at <= now}
  BY <1>w DEF WeekOf, F!Ticks
<1>2. ~(now < first[1]) /\ F!Day(now - first[1]) = (now - first[1]) \div 2
  BY DEF F!Day, F!Ticks
<1>3. F!compute_item_stats(trades, spread, first, now).trades = F!Cardinality(week)
  BY <1>1 DEF F!compute_item_stats
<1>4. F!compute_item_stats(trades, spread, first, now).history_days = (now - first[1]) \div 2
  BY <1>2 DEF F!compute_item_stats
<1>5. F!compute_item_stats(trades, spread, first, now).warm <=>
        (now - first[1]) \div 2 >= 7 /\ F!Cardinality(week) >= 10
  BY <1>1, <1>2 DEF F!compute_item_stats
<1> QED BY <1>3, <1>4, <1>5, <1>w

\* A key's row is its figures and its item (KeyStats).
LEMMA StatIs ==
  ASSUME NEW k, NEW now
  PROVE  LET c == F!compute_item_stats(k.trades, k.spread, k.first_swept_at, now) IN
         /\ F!StatsOf(k, now).item = k.item
         /\ F!StatsOf(k, now).trades = c.trades
         /\ F!StatsOf(k, now).history_days = c.history_days
<1>c. PICK c : c = F!compute_item_stats(k.trades, k.spread, k.first_swept_at, now)
  OBVIOUS
<1>1. DOMAIN c = {"trades", "avg_price", "moving_avg", "profit", "min_price", "max_price", "median", "history_days", "warm"}
  BY <1>c DEF F!compute_item_stats
<1>2. F!StatsOf(k, now) = [column \in DOMAIN c \cup {"item"} |-> IF column = "item" THEN k.item ELSE c[column]]
  BY <1>c DEF F!StatsOf
<1>3. "trades" \in DOMAIN c /\ "history_days" \in DOMAIN c
  BY <1>1
<1> QED BY <1>2, <1>3, <1>c

\* The trades of a week made again so many days later.
Trades == [id : Int, side : {"sell", "buy"}, platinum : Int, at : Int]
MadeAgain(trades, d) == {[t EXCEPT !.at = @ + d * F!Ticks] : t \in trades}

\* The week's trades made again are as many, in the week that has moved with them.
LEMMA WeekMovesOn ==
  ASSUME NEW trades \in SUBSET Trades, IsFiniteSet(trades), NEW now \in Nat, NEW d \in Nat
  PROVE  Cardinality(WeekOf(MadeAgain(trades, d), now + d * F!Ticks)) = Cardinality(WeekOf(trades, now))
<1>w. PICK week : week = WeekOf(trades, now)
  OBVIOUS
<1>l. PICK later : later = WeekOf(MadeAgain(trades, d), now + d * F!Ticks)
  OBVIOUS
<1>e. PICK e : e = d * F!Ticks
  OBVIOUS
<1>h. PICK h : h = [t \in week |-> [t EXCEPT !.at = @ + e]]
  OBVIOUS
<1>0. e \in Nat
  BY <1>e DEF F!Ticks
<1>1. week \in SUBSET trades /\ IsFiniteSet(week)
  <2>1. week \in SUBSET trades
    BY <1>w DEF WeekOf
  <2> QED BY <2>1, FS_Subset
<1>2. \A t \in trades : t \in Trades /\ t.at \in Int
  BY DEF Trades
<1>3. \A t \in trades : LET r == [t EXCEPT !.at = @ + e] IN
        r.id = t.id /\ r.side = t.side /\ r.platinum = t.platinum /\ r.at = t.at + e
  BY DEF Trades
<1>4. \A t \in trades : [t EXCEPT !.at = @ + e].at > (now + e) - 14 <=> t.at > now - 14
  BY <1>0, <1>2, <1>3
<1>5. \A t \in trades : [t EXCEPT !.at = @ + e].at <= now + e <=> t.at <= now
  BY <1>0, <1>2, <1>3
<1>6. later = {r \in {[t EXCEPT !.at = @ + e] : t \in trades} : r.at > (now + e) - 14 /\ r.at <= now + e}
  BY <1>e, <1>l DEF WeekOf, MadeAgain
<1>7. \A t \in week : t \in trades /\ t.at > now - 14 /\ t.at <= now
  BY <1>w DEF WeekOf
<1>8. h \in [week -> later]
  BY <1>4, <1>5, <1>6, <1>7, <1>h
<1>9. ASSUME NEW r \in later PROVE \E t \in week : h[t] = r
  <2>1. PICK t \in trades : r = [t EXCEPT !.at = @ + e]
    BY <1>6
  <2>2. r.at > (now + e) - 14 /\ r.at <= now + e
    BY <1>6
  <2>3. t.at > now - 14 /\ t.at <= now
    BY <1>4, <1>5, <2>1, <2>2
  <2>4. t \in week
    BY <1>w, <2>3 DEF WeekOf
  <2> QED BY <1>h, <2>1, <2>4
<1>10. ASSUME NEW t \in week, NEW u \in week, h[t] = h[u] PROVE t = u
  <2>1. t \in Trades /\ u \in Trades /\ t.at \in Int /\ u.at \in Int
    BY <1>2, <1>7
  <2>2. [t EXCEPT !.at = @ + e] = [u EXCEPT !.at = @ + e]
    BY <1>10, <1>h
  <2>3. t.id = u.id /\ t.side = u.side /\ t.platinum = u.platinum /\ t.at + e = u.at + e
    BY <1>3, <1>7, <2>2
  <2>4. t.at = u.at
    <3> PICK a : a = t.at
      OBVIOUS
    <3> PICK b : b = u.at
      OBVIOUS
    <3>1. a \in Int /\ b \in Int /\ a + e = b + e
      BY <2>1, <2>3
    <3>2. a = b
      BY ONLY <1>0, <3>1
    <3> QED BY <3>2
  <2> QED BY <2>1, <2>3, <2>4 DEF Trades
<1>11. Cardinality(week) = Cardinality(later)
  BY <1>1, <1>8, <1>9, <1>10, SameCount
<1> QED BY <1>11, <1>w, <1>l

\* What the pages are asked is about keys that were swept, each with figures of its own.
AreKeys(keys, now) ==
  /\ now \in Nat /\ IsFiniteSet(keys)
  /\ \A k \in keys :
       /\ IsFiniteSet(k.trades) /\ k.trades \in SUBSET Trades
       /\ k.first_swept_at # F!None /\ k.first_swept_at[1] \in Nat /\ k.first_swept_at[1] <= now
  /\ \A k, l \in keys : k.item = l.item => k = l

\* The keys of a question are such keys.
LEMMA KeysAre ==
  ASSUME NEW q \in PagesAsked
  PROVE  AreKeys(q.keys, q.now)
<1>1. F!None = None
  BY DEF F!None, None
<1>2. q.now \in Nat /\ IsFiniteSet(q.keys)
  BY FiguresAssumption DEF FiguresAssumption
<1>3. ASSUME NEW k \in q.keys
      PROVE  /\ IsFiniteSet(k.trades) /\ k.trades \in SUBSET Trades
             /\ k.first_swept_at # F!None /\ k.first_swept_at[1] \in Nat /\ k.first_swept_at[1] <= q.now
  BY <1>1, FiguresAssumption DEF FiguresAssumption, Trades
<1>4. \A k, l \in q.keys : k.item = l.item => k = l
  BY FiguresAssumption DEF FiguresAssumption
<1> QED BY <1>2, <1>3, <1>4 DEF AreKeys

LaterOf(k, d, now) ==
  F!compute_item_stats(MadeAgain(k.trades, d), k.spread, k.first_swept_at, now + d * F!Ticks)

\* A key is warm in d days just if its row has the trades now, and the days with d more
\* (warmup and compute_item_stats).
LEMMA WarmLater ==
  ASSUME NEW keys, NEW now, AreKeys(keys, now), NEW k \in keys, NEW d \in Nat
  PROVE  LaterOf(k, d, now).warm <=> F!StatsOf(k, now).history_days + d >= 7 /\ F!StatsOf(k, now).trades >= 10
<1>f. PICK first : first = k.first_swept_at[1]
  OBVIOUS
<1>e. PICK e : e = d * F!Ticks
  OBVIOUS
<1>0. e = 2 * d /\ e \in Nat
  BY <1>e DEF F!Ticks
<1>1. now \in Nat /\ first \in Nat /\ first <= now /\ k.first_swept_at # F!None
      /\ k.trades \in SUBSET Trades /\ IsFiniteSet(k.trades)
  BY <1>f DEF AreKeys
<1>2. now + e \in Nat /\ first <= now + e
  BY <1>0, <1>1
<1>c. \A Z : F!Cardinality(Z) = Cardinality(Z)
  BY DEF F!Cardinality, Cardinality
<1>3. F!StatsOf(k, now).trades = Cardinality(WeekOf(k.trades, now)) /\ F!StatsOf(k, now).history_days = (now - first) \div 2
  BY <1>1, <1>c, <1>f, StatIs, ComputedIs
<1>4. LaterOf(k, d, now).warm <=>
        ((now + e) - first) \div 2 >= 7 /\ F!Cardinality(WeekOf(MadeAgain(k.trades, d), now + e)) >= 10
  BY <1>1, <1>2, <1>e, <1>f, ComputedIs DEF LaterOf
<1>5. F!Cardinality(WeekOf(MadeAgain(k.trades, d), now + e)) = Cardinality(WeekOf(k.trades, now))
  BY <1>1, <1>c, <1>e, WeekMovesOn
<1>6. ((now + e) - first) \div 2 = (now - first) \div 2 + d
  BY <1>0, <1>1
<1> QED BY <1>3, <1>4, <1>5, <1>6

\* Each key has a row of its own.
LEMMA RowsDiffer ==
  ASSUME NEW keys, NEW now, AreKeys(keys, now), NEW K \in SUBSET keys, NEW Q,
         Q = {F!StatsOf(k, now) : k \in K}
  PROVE  IsFiniteSet(Q) /\ Cardinality(K) = Cardinality(Q)
<1>h. PICK h : h = [k \in K |-> F!StatsOf(k, now)]
  OBVIOUS
<1>1. IsFiniteSet(K)
  BY FS_Subset DEF AreKeys
<1>2. \A k \in K : F!StatsOf(k, now).item = k.item
  BY StatIs
<1>3. \A k, l \in K : h[k] = h[l] => k = l
  BY <1>2, <1>h DEF AreKeys
<1>4. h \in [K -> Q] /\ \A r \in Q : \E k \in K : h[k] = r
  BY <1>h
<1> QED BY <1>1, <1>3, <1>4, SameCount

\* The projections are those of the collector's own figures (warmup).
LEMMA ProjectionsAreRight ==
  ASSUME NEW keys, NEW now, AreKeys(keys, now), NEW d \in 1..7
  PROVE  F!warmup(F!KeyStats(keys, now)).projected[d] = F!Cardinality({k \in keys : LaterOf(k, d, now).warm})
<1>s. PICK stats : stats = F!KeyStats(keys, now)
  OBVIOUS
<1>q. PICK Q : Q = {s \in stats : s.history_days + d >= 7 /\ s.trades >= 10}
  OBVIOUS
<1>k. PICK K : K = {k \in keys : LaterOf(k, d, now).warm}
  OBVIOUS
<1>1. F!warmup(stats).projected[d] = F!Cardinality(Q)
  <2>1. F!WARM_DAYS = 7 /\ F!WARM_TRADES = 10
    BY DEF F!WARM_DAYS, F!WARM_TRADES
  <2>2. F!warmup(stats).projected = [e \in 1..F!WARM_DAYS |->
          F!Cardinality({s \in stats : s.history_days + e >= F!WARM_DAYS /\ s.trades >= F!WARM_TRADES})]
    BY DEF F!warmup
  <2> QED BY <1>q, <2>1, <2>2
<1>2. stats = {F!StatsOf(k, now) : k \in keys}
  BY <1>s DEF F!KeyStats
<1>3. \A k \in keys : LaterOf(k, d, now).warm <=> F!StatsOf(k, now).history_days + d >= 7 /\ F!StatsOf(k, now).trades >= 10
  BY WarmLater
<1>4. Q = {F!StatsOf(k, now) : k \in K}
  BY <1>2, <1>3, <1>k, <1>q
<1>5. Cardinality(K) = Cardinality(Q)
  <2>1. K \in SUBSET keys
    BY <1>k
  <2> QED BY <1>4, <2>1, RowsDiffer
<1>6. \A Z : F!Cardinality(Z) = Cardinality(Z)
  BY DEF F!Cardinality, Cardinality
<1> QED BY <1>1, <1>5, <1>6, <1>k, <1>s

\* Those put under one of the labels of T.
PutUnder(Z, b, T) == {s \in Z : b[s] \in T}

\* Those put under a label and those put under the other labels are all that are put under them.
LEMMA LabelledCounts ==
  ASSUME NEW Z, IsFiniteSet(Z), NEW b, NEW T, NEW x \in T
  PROVE  Cardinality(PutUnder(Z, b, T)) = Cardinality(PutUnder(Z, b, {x})) + Cardinality(PutUnder(Z, b, T \ {x}))
<1>a. PICK A : A = PutUnder(Z, b, {x})
  OBVIOUS
<1>r. PICK R : R = PutUnder(Z, b, T \ {x})
  OBVIOUS
<1>w. PICK W : W = PutUnder(Z, b, T)
  OBVIOUS
<1>1. A \cup R = W /\ A \cap R = {}
  BY <1>a, <1>r, <1>w DEF PutUnder
<1>2. IsFiniteSet(A) /\ IsFiniteSet(R)
  <2>1. A \in SUBSET Z /\ R \in SUBSET Z
    BY <1>a, <1>r DEF PutUnder
  <2> QED BY <2>1, FS_Subset
<1>3. Cardinality(W) = Cardinality(A) + Cardinality(R) - Cardinality({})
  BY <1>1, <1>2, FS_Union
<1>4. Cardinality({}) = 0 /\ Cardinality(A) \in Nat /\ Cardinality(R) \in Nat
  BY <1>2, FS_EmptySet, FS_CardinalityType
<1> QED BY <1>3, <1>4, <1>a, <1>r, <1>w

\* A histogram that puts each element under one label counts every element once (SumOver).
LEMMA HistogramCountsAll ==
  ASSUME NEW Z, IsFiniteSet(Z), NEW D, IsFiniteSet(D), NEW b \in [Z -> D],
         NEW g, g = [x \in D |-> F!Cardinality({s \in Z : b[s] = x})]
  PROVE  F!SumOver(g) = Cardinality(Z)
<1> DEFINE E(it) == [s \in SUBSET (DOMAIN g) |-> IF s = {} THEN 0
                        ELSE LET x == CHOOSE y \in s : TRUE IN g[x] + it[s \ {x}]]
           iter == CHOOSE it : it = E(it)
<1>c. \A T : F!Cardinality(T) = Cardinality(T)
  BY DEF F!Cardinality, Cardinality
<1>d. DOMAIN g = D
  OBVIOUS
<1>p. \A s : s # {} => (CHOOSE y \in s : TRUE) \in s
  OBVIOUS
<1>1. F!SumOver(g) = iter[DOMAIN g]
  BY DEF F!SumOver, F!FoldFunction, F!FoldFunctionOnSet, F!MapThenFoldSet
<1>f. PICK f : f = [T \in SUBSET D |-> Cardinality(PutUnder(Z, b, T))]
  OBVIOUS
<1>2. \A T \in SUBSET D : \A x \in T : f[T] = g[x] + f[T \ {x}]
  <2> SUFFICES ASSUME NEW T \in SUBSET D, NEW x \in T PROVE f[T] = g[x] + f[T \ {x}]
    OBVIOUS
  <2>1. f[T] = Cardinality(PutUnder(Z, b, T)) /\ f[T \ {x}] = Cardinality(PutUnder(Z, b, T \ {x}))
    BY <1>f
  <2>2. g[x] = Cardinality(PutUnder(Z, b, {x}))
    <3>1. {s \in Z : b[s] = x} = PutUnder(Z, b, {x})
      BY DEF PutUnder
    <3> QED BY <1>c, <3>1
  <2>3. Cardinality(PutUnder(Z, b, T)) = Cardinality(PutUnder(Z, b, {x})) + Cardinality(PutUnder(Z, b, T \ {x}))
    <3>1. IsFiniteSet(Z) /\ x \in T
      OBVIOUS
    <3> QED BY ONLY <3>1, LabelledCounts
  <2> QED BY <2>1, <2>2, <2>3
<1>3. f[{}] = 0
  <2>1. PutUnder(Z, b, {}) = {} /\ {} \in SUBSET D
    BY DEF PutUnder
  <2> QED BY <1>f, <2>1, FS_EmptySet
<1>4. f = E(f)
  <2>1. \A s \in SUBSET D : f[s] = IF s = {} THEN 0
                        ELSE LET x == CHOOSE y \in s : TRUE IN g[x] + f[s \ {x}]
    BY <1>2, <1>3, <1>p
  <2>2. f = [s \in SUBSET D |-> f[s]]
    BY <1>f
  <2> QED BY <1>d, <2>1, <2>2
<1>5. iter = E(iter)
  <2> HIDE DEF E
  <2> QED BY <1>4, Zenon
<1> HIDE DEF iter
<1> DEFINE Q == {k \in Nat : \A T \in SUBSET D : Cardinality(T) = k => iter[T] = f[T]}
<1>6. \A T \in SUBSET D : IsFiniteSet(T)
  BY FS_Subset
<1>7. 0 \in Q
  <2> SUFFICES ASSUME NEW T \in SUBSET D, Cardinality(T) = 0 PROVE iter[T] = f[T]
    OBVIOUS
  <2>1. T = {}
    BY <1>6, FS_EmptySet
  <2>2. iter[{}] = 0
    BY <1>5, <1>d
  <2> QED BY <1>3, <2>1, <2>2
<1>8. ASSUME NEW k \in Nat, k \in Q PROVE k + 1 \in Q
  <2> SUFFICES ASSUME NEW T \in SUBSET D, Cardinality(T) = k + 1 PROVE iter[T] = f[T]
    OBVIOUS
  <2>1. T # {}
    BY <1>6, FS_EmptySet
  <2>2. PICK x : x = CHOOSE y \in T : TRUE
    BY Zenon
  <2>3. x \in T /\ iter[T] = g[x] + iter[T \ {x}]
    BY <1>5, <1>d, <2>1, <2>2, ZenonT(40)
  <2>4. Cardinality(T \ {x}) = k /\ T \ {x} \in SUBSET D
    <3>1. Cardinality(T \ {x}) = Cardinality(T) - 1
      BY <1>6, <2>3, FS_RemoveElement, Zenon
    <3> QED BY <3>1
  <2>5. iter[T \ {x}] = f[T \ {x}]
    BY <1>8, <2>4
  <2> QED BY <1>2, <2>3, <2>5
<1> HIDE DEF Q
<1>9. Cardinality(D) \in Nat
  BY FS_CardinalityType
<1>10. \A k \in 0..Cardinality(D) : k \in Q
  BY <1>7, <1>8, <1>9, CountUp
<1>11. Cardinality(D) \in Q
  BY <1>9, <1>10
<1>12. iter[D] = f[D]
  BY <1>11 DEF Q
<1>13. PutUnder(Z, b, D) = Z
  BY DEF PutUnder
<1> QED BY <1>1, <1>12, <1>13, <1>d, <1>f

\* The two histograms of the warm-up page count every key once (warmup).
LEMMA HistogramsCountKeys ==
  ASSUME NEW keys, NEW now, AreKeys(keys, now)
  PROVE  LET w == F!warmup(F!KeyStats(keys, now)) IN
         F!SumOver(w.by_history) = Cardinality(keys) /\ F!SumOver(w.by_trades) = Cardinality(keys)
<1>s. PICK stats : stats = F!KeyStats(keys, now)
  OBVIOUS
<1>w. PICK w : w = F!warmup(stats)
  OBVIOUS
<1>1. stats = {F!StatsOf(k, now) : k \in keys}
  BY <1>s DEF F!KeyStats
<1>2. IsFiniteSet(stats) /\ Cardinality(keys) = Cardinality(stats)
  BY <1>1, RowsDiffer
<1>c. \A T : F!Cardinality(T) = Cardinality(T)
  BY DEF F!Cardinality, Cardinality
<1>3. \A s \in stats : s.history_days \in Nat /\ s.trades \in Nat
  <2> SUFFICES ASSUME NEW k \in keys
               PROVE  F!StatsOf(k, now).history_days \in Nat /\ F!StatsOf(k, now).trades \in Nat
    BY <1>1
  <2>f. PICK first : first = k.first_swept_at[1]
    OBVIOUS
  <2>1. now \in Nat /\ first \in Nat /\ first <= now /\ k.first_swept_at # F!None
        /\ k.trades \in SUBSET Trades /\ IsFiniteSet(k.trades)
    BY <2>f DEF AreKeys
  <2>2. F!StatsOf(k, now).trades = Cardinality(WeekOf(k.trades, now)) /\ F!StatsOf(k, now).history_days = (now - first) \div 2
    BY <1>c, <2>1, <2>f, StatIs, ComputedIs
  <2>3. IsFiniteSet(WeekOf(k.trades, now))
    <3>1. WeekOf(k.trades, now) \in SUBSET k.trades
      BY DEF WeekOf
    <3> QED BY <2>1, <3>1, FS_Subset
  <2>4. (now - first) \div 2 \in Nat
    BY <2>1
  <2> QED BY <2>2, <2>3, <2>4, FS_CardinalityType
<1>4. F!SumOver(w.by_history) = Cardinality(stats)
  <2>b. PICK b : b = [s \in stats |-> IF s.history_days >= 7 THEN 7 ELSE s.history_days]
    OBVIOUS
  <2>1. b \in [stats -> 0..7]
    BY <1>3, <2>b
  <2>2. IsFiniteSet(0..7)
    <3>1. \A a, z \in Int : IsFiniteSet(a..z)
      BY FS_Interval
    <3>2. 0 \in Int /\ 7 \in Int
      OBVIOUS
    <3> QED BY <3>1, <3>2, Zenon
  <2>3. w.by_history = [d \in 0..7 |-> F!Cardinality({s \in stats : IF d = 7 THEN s.history_days >= d ELSE s.history_days = d})]
    BY <1>w DEF F!warmup, F!WARM_DAYS
  <2>4. ASSUME NEW d \in 0..7
        PROVE  {s \in stats : IF d = 7 THEN s.history_days >= d ELSE s.history_days = d} = {s \in stats : b[s] = d}
    BY <1>3, <2>b
  <2>5. w.by_history = [d \in 0..7 |-> F!Cardinality({s \in stats : b[s] = d})]
    BY <2>3, <2>4
  <2>6. PICK D : D = 0..7
    OBVIOUS
  <2>7. PICK g : g = [d \in D |-> F!Cardinality({s \in stats : b[s] = d})]
    OBVIOUS
  <2>8. IsFiniteSet(D) /\ b \in [stats -> D]
    BY <2>1, <2>2, <2>6
  <2>9. F!SumOver(g) = Cardinality(stats)
    BY <1>2, <2>7, <2>8, HistogramCountsAll
  <2> QED BY <2>5, <2>6, <2>7, <2>9
<1>5. F!SumOver(w.by_trades) = Cardinality(stats)
  <2>d. PICK D : D = {"0", "1-4", "5-9", "10+"}
    OBVIOUS
  <2> DEFINE bucket(n) == CASE n = 0 -> "0" [] n \in 1..4 -> "1-4" [] n \in 5..9 -> "5-9" [] OTHER -> "10+"
  <2>b. PICK b : b = [s \in stats |-> bucket(s.trades)]
    OBVIOUS
  <2>0. \A n \in Nat : bucket(n) \in D
    BY <2>d
  <2>1. b \in [stats -> D]
    <3> HIDE DEF bucket
    <3> QED BY <1>3, <2>0, <2>b
  <2>2. IsFiniteSet(D)
    <3>1. IsFiniteSet({"0"})
      BY FS_Singleton
    <3>2. IsFiniteSet({"0"} \cup {"1-4"})
      BY <3>1, FS_AddElement
    <3>3. IsFiniteSet(({"0"} \cup {"1-4"}) \cup {"5-9"})
      BY <3>2, FS_AddElement
    <3>4. IsFiniteSet((({"0"} \cup {"1-4"}) \cup {"5-9"}) \cup {"10+"})
      BY <3>3, FS_AddElement
    <3>5. D = (({"0"} \cup {"1-4"}) \cup {"5-9"}) \cup {"10+"}
      BY <2>d
    <3> QED BY <3>4, <3>5
  <2>3. w.by_trades = [x \in D |-> F!Cardinality({s \in stats : bucket(s.trades) = x})]
    BY <1>w, <2>d DEF F!warmup
  <2> HIDE DEF bucket
  <2>4. \A x : {s \in stats : bucket(s.trades) = x} = {s \in stats : b[s] = x}
    BY <2>b
  <2>5. w.by_trades = [x \in D |-> F!Cardinality({s \in stats : b[s] = x})]
    BY <2>3, <2>4
  <2> QED BY <1>2, <2>1, <2>2, <2>5, HistogramCountsAll
<1> QED BY <1>2, <1>4, <1>5, <1>s, <1>w

\* The warm-up page foretells what the collector will say, and its histograms count every key
\* once (PagesAsked).
LEMMA WarmupIsRight ==
  ASSUME NEW q \in PagesAsked
  PROVE  LET w == F!MarketOf(q).warmup
             later(k, d) == F!compute_item_stats({[t EXCEPT !.at = @ + d * F!Ticks] : t \in k.trades},
                                          k.spread, k.first_swept_at, q.now + d * F!Ticks)
         IN  /\ \A d \in DOMAIN w.projected : w.projected[d] = F!Cardinality({k \in q.keys : later(k, d).warm})
             /\ F!SumOver(w.by_history) = F!Cardinality(q.keys)
             /\ F!SumOver(w.by_trades) = F!Cardinality(q.keys)
<1>1. AreKeys(q.keys, q.now)
  BY KeysAre
<1>2. F!MarketOf(q).warmup = F!warmup(F!KeyStats(q.keys, q.now))
  BY DEF F!MarketOf
<1>3. DOMAIN F!warmup(F!KeyStats(q.keys, q.now)).projected = 1..7
  BY DEF F!warmup, F!WARM_DAYS
<1>4. \A d \in 1..7 : F!warmup(F!KeyStats(q.keys, q.now)).projected[d] = F!Cardinality({k \in q.keys : LaterOf(k, d, q.now).warm})
  <2> TAKE d \in 1..7
  <2>1. PICK keys, now : keys = q.keys /\ now = q.now
    OBVIOUS
  <2>2. AreKeys(keys, now)
    BY <1>1, <2>1
  <2>3. F!warmup(F!KeyStats(keys, now)).projected[d] = F!Cardinality({k \in keys : LaterOf(k, d, now).warm})
    BY <2>2, ProjectionsAreRight, ZenonT(40)
  <2> QED BY <2>1, <2>3
<1>5. F!SumOver(F!warmup(F!KeyStats(q.keys, q.now)).by_history) = F!Cardinality(q.keys)
      /\ F!SumOver(F!warmup(F!KeyStats(q.keys, q.now)).by_trades) = F!Cardinality(q.keys)
  <2>1. F!Cardinality(q.keys) = Cardinality(q.keys)
    BY DEF F!Cardinality, Cardinality
  <2> QED BY <1>1, <2>1, HistogramsCountKeys
<1>6. \A k, d : LaterOf(k, d, q.now) = F!compute_item_stats({[t EXCEPT !.at = @ + d * F!Ticks] : t \in k.trades},
                                          k.spread, k.first_swept_at, q.now + d * F!Ticks)
  BY DEF LaterOf, MadeAgain
<1> DEFINE later(k, d) == F!compute_item_stats({[t EXCEPT !.at = @ + d * F!Ticks] : t \in k.trades},
                                          k.spread, k.first_swept_at, q.now + d * F!Ticks)
<1>7. \A d : {k \in q.keys : LaterOf(k, d, q.now).warm} = {k \in q.keys : later(k, d).warm}
  <2>1. \A k, d : LaterOf(k, d, q.now) = later(k, d)
    BY <1>6
  <2> HIDE DEF later
  <2> QED BY <2>1
<1> HIDE DEF later
<1>8. \A d \in 1..7 : F!warmup(F!KeyStats(q.keys, q.now)).projected[d] = F!Cardinality({k \in q.keys : later(k, d).warm})
  BY <1>4, <1>7
<1>9. LET w == F!MarketOf(q).warmup
      IN  /\ \A d \in DOMAIN w.projected : w.projected[d] = F!Cardinality({k \in q.keys : later(k, d).warm})
          /\ F!SumOver(w.by_history) = F!Cardinality(q.keys)
          /\ F!SumOver(w.by_trades) = F!Cardinality(q.keys)
  BY <1>2, <1>3, <1>5, <1>8
<1> QED BY <1>9 DEF later

-----------------------------------------------------------------------------
(* The figures: what is answered.                                           *)

\* No answer is there before a question is.
LEMMA FiguresBegin ==
  ASSUME F!FiguresInit
  PROVE  F!FiguresInv
<1>1. x3 = F!Unanswered /\ F!Unanswered.of = "none"
  BY DEF F!FiguresInit, F!Unanswered
<1>2. /\ x1 = "closed" => x2 \in ClosedKeys
      /\ x1 = "market" => x2 \in PagesAsked
      /\ x1 = "watch" => x2 \in Watches
  BY DEF F!FiguresInit
<1> QED BY <1>1, <1>2 DEF F!FiguresInv

\* A step answers the question that was put, with what the operators say of it (Figures).
LEMMA FiguresNextKeeps ==
  ASSUME F!FiguresInv, F!FiguresNext
  PROVE  (F!FiguresInv)'
<1>1. ASSUME NEW kind \in {"ledger", "range", "list"}, NEW a, F!Answer(kind, a)
      PROVE  (F!FiguresInv)'
  <2>1. x1' = kind /\ x3' = [of |-> kind, is |-> a]
    BY <1>1 DEF F!Answer
  <2>2. x1' \notin {"closed", "market", "watch"} /\ x3'.of \notin {"closed", "market", "watch"}
    BY <2>1
  <2> QED BY <2>2 DEF F!FiguresInv
<1>2. CASE F!ClosedFigures
  <2>1. x1 = "closed" /\ x1' = x1 /\ x2' = x2 /\ x3' = [of |-> "closed", is |-> F!ClosedOf(x2)]
    BY <1>2 DEF F!ClosedFigures, F!Answer
  <2>2. x2 \in ClosedKeys
    BY <2>1 DEF F!FiguresInv
  <2> QED BY <2>1, <2>2 DEF F!FiguresInv
<1>3. CASE F!MarketPages
  <2>1. x1 = "market" /\ x1' = x1 /\ x2' = x2 /\ x3' = [of |-> "market", is |-> F!MarketOf(x2)]
    BY <1>3 DEF F!MarketPages, F!Answer
  <2>2. x2 \in PagesAsked
    BY <2>1 DEF F!FiguresInv
  <2> QED BY <2>1, <2>2 DEF F!FiguresInv
<1>4. CASE F!Health
  <2>1. x1 = "watch" /\ x1' = x1 /\ x2' = x2 /\ x3' = [of |-> "watch", is |-> F!HealthOf(x2)]
    BY <1>4 DEF F!Health, F!Answer
  <2>2. x2 \in Watches
    BY <2>1 DEF F!FiguresInv
  <2> QED BY <2>1, <2>2 DEF F!FiguresInv
<1>5. CASE F!dashboard_summary
  BY <1>1, <1>5 DEF F!dashboard_summary
<1>6. CASE F!Analytics
  BY <1>1, <1>6 DEF F!Analytics
<1>7. CASE F!Listing
  BY <1>1, <1>7 DEF F!Listing
<1> QED BY <1>2, <1>3, <1>4, <1>5, <1>6, <1>7 DEF F!FiguresNext

\* A figure that is shown was computed from the question it answers.
LEMMA ShownIsAnswered ==
  ASSUME F!FiguresInv
  PROVE  /\ F!Told("closed") => x2 \in ClosedKeys /\ x3.is = F!ClosedOf(x2)
         /\ F!Told("market") => x2 \in PagesAsked /\ x3.is = F!MarketOf(x2)
         /\ F!Told("watch") => x2 \in Watches /\ x3.is = F!HealthOf(x2)
<1>1. F!Unanswered.of = "none"
  BY DEF F!Unanswered
<1>2. CASE x1 = "closed"
  BY <1>1, <1>2 DEF F!FiguresInv, F!Told
<1>3. CASE x1 = "market"
  BY <1>1, <1>3 DEF F!FiguresInv, F!Told
<1>4. CASE x1 = "watch"
  BY <1>1, <1>4 DEF F!FiguresInv, F!Told
<1>5. CASE x1 \notin {"closed", "market", "watch"}
  BY <1>5 DEF F!FiguresInv, F!Told
<1> QED BY <1>2, <1>3, <1>4, <1>5

\* So the figures shown are whole.
LEMMA FiguresAreWhole ==
  ASSUME F!FiguresInv
  PROVE  F!ClosedWindowIsWhole /\ F!WarmupProjects /\ F!LaneCountsAreTheLastHour
<1>1. F!ClosedWindowIsWhole
  <2> SUFFICES ASSUME F!Told("closed"), x3.is.stats # F!None
               PROVE  LET anchor == F!Day(F!cutoff(x2.fetch.at)) IN
                      x3.is.stats[1].window = {r.day : r \in {s \in x2.rows : s.day >= anchor - 7 /\ s.day < anchor}}
    BY DEF F!ClosedWindowIsWhole
  <2>1. x2 \in ClosedKeys /\ x3.is = F!ClosedOf(x2)
    BY ShownIsAnswered
  <2> QED BY <2>1, WindowsAreWhole
<1>2. F!WarmupProjects
  <2> SUFFICES ASSUME F!Told("market") PROVE F!WarmupProjects
    BY DEF F!WarmupProjects
  <2>1. x2 \in PagesAsked /\ x3.is = F!MarketOf(x2)
    BY ShownIsAnswered
  <2> QED BY <2>1, WarmupIsRight DEF F!WarmupProjects
<1>3. F!LaneCountsAreTheLastHour
  <2> SUFFICES ASSUME F!Told("watch") PROVE F!LaneCountsAreTheLastHour
    BY DEF F!LaneCountsAreTheLastHour
  <2>1. x2 \in Watches /\ x3.is = F!HealthOf(x2)
    BY ShownIsAnswered
  <2> QED BY <2>1, LanesAreTheLastHour DEF F!LaneCountsAreTheLastHour
<1> QED BY <1>1, <1>2, <1>3

-----------------------------------------------------------------------------
(* The collector's parts side by side.                                      *)

CollectorInv ==
  /\ part = "rollups" => M!RollupsInv
  /\ part = "book" => O!BookInv
  /\ part = "holds" => H!HoldsInv
  /\ part = "figures" => F!FiguresInv

services == <<part, x1, x2, x3, x4, x5, x6, x7, x8, x9>>

\* Where nothing changes the invariant stays.
LEMMA CollectorStutter ==
  ASSUME CollectorInv, UNCHANGED services
  PROVE  CollectorInv'
<1>1. (M!RollupsInv)' <=> M!RollupsInv
  BY DEF services, M!RollupsInv, M!TypeOK, M!ClocksInOrder, M!HoursAreRolled, M!DaysAreRolled,
         M!DeletedIsOld, M!DeletedRowsWereRolledUp, M!InHourly, M!InDaily, M!Traded
<1>2. (O!BookInv)' <=> O!BookInv
  BY DEF services, O!BookInv, O!TypeOK, O!SweepIsLatest, O!DropsAreReal, O!TradesHadTheirWindow,
         O!PartialsAreReal, O!ReturnedOrdersAreNoTrades
<1>3. (H!HoldsInv)' <=> H!HoldsInv
  BY DEF services, H!HoldsInv, H!TypeOK, H!Counts, H!DaysGrow, H!CountsAreComparable, H!FitsAreWhole,
         H!Whole, H!Retired, H!FitsAreOf, H!HoldsSeeTheCountedDay, H!KeysOf
<1>4. (F!FiguresInv)' <=> F!FiguresInv
  BY DEF services, F!FiguresInv
<1> QED
  BY <1>1, <1>2, <1>3, <1>4 DEF CollectorInv, services

\* A step is one of the part the behaviour is about.
LEMMA CollectorStep ==
  ASSUME CollectorInv, [ServicesNext]_services
  PROVE  CollectorInv'
<1>1. CASE RollupsPart
  BY <1>1, RollupsNext DEF RollupsPart, CollectorInv
<1>2. CASE BookPart
  BY <1>2, BookNext DEF BookPart, CollectorInv
<1>3. CASE HoldsPart
  BY <1>3, HoldsNext DEF HoldsPart, CollectorInv
<1>4. CASE FiguresPart
  BY <1>4, FiguresNextKeeps DEF FiguresPart, CollectorInv
<1>5. CASE BackupsPart \/ SchemaPart \/ ClientPart
  BY <1>5 DEF BackupsPart, SchemaPart, ClientPart, CollectorInv
<1>6. CASE UNCHANGED services
  BY <1>6, CollectorStutter
<1> QED
  BY <1>1, <1>2, <1>3, <1>4, <1>5, <1>6 DEF ServicesNext

\* The maintenance, the order book, the hold suggestions and the pages of figures keep their
\* inductive invariants.
THEOREM CollectorInvariance == ServicesSpec => []CollectorInv
<1>1. ServicesInit => CollectorInv
  BY RollupsInit, BookInit, HoldsInit, FiguresBegin DEF ServicesInit, CollectorInv
<1>2. CollectorInv /\ [ServicesNext]_services => CollectorInv'
  BY CollectorStep
<1> QED
  BY <1>1, <1>2, PTL DEF ServicesSpec, services

\* No row is deleted that is not rolled up, whichever passes fail and wherever they stop
\* (rollup_hourly, rollup_daily, apply_retention).
THEOREM DeletedRowsWereRolledUpHolds == ServicesSpec => []DeletedRowsWereRolledUp
<1>1. CollectorInv => DeletedRowsWereRolledUp
  BY DEF CollectorInv, M!RollupsInv, DeletedRowsWereRolledUp
<1> QED
  BY <1>1, CollectorInvariance, PTL

\* No more units of an order are counted as partial trades than left the market, unless a book was
\* recorded after a younger one; and a vanish whose order came back and vanished again within the
\* relist window is never resolved as a trade, whatever sweeps, prefetched books and resolutions overlap (apply_sweep, resolve_vanish).
THEOREM CountedTradesAreRealHolds == ServicesSpec => []CountedTradesAreReal
<1>1. CollectorInv => CountedTradesAreReal
  BY DEF CollectorInv, O!BookInv, CountedTradesAreReal
<1> QED
  BY <1>1, CollectorInvariance, PTL

\* The fits a call answers with were made from every key its count of the latest day saw, unless
\* the day was retired, however calls, rows and deletions overlap (holds, FITS).
THEOREM HoldsSeeTheCountedDayHolds == ServicesSpec => []HoldsSeeTheCountedDay
<1>1. CollectorInv => HoldsSeeTheCountedDay
  BY DEF CollectorInv, H!HoldsInv, HoldsSeeTheCountedDay
<1> QED
  BY <1>1, CollectorInvariance, PTL

\* Closed figures come from the seven days before the cutoff their fetch could see, however far the
\* clock has moved on; the keys projected warm are those the collector's own thresholds call warm
\* once the days have passed, and the histograms count every key once; the lane counts are all the
\* sweeps of the last hour, in whatever order they were recorded (load_fresh, warmup, record).
THEOREM MarketFiguresAreWholeHolds == ServicesSpec => []MarketFiguresAreWhole
<1>1. CollectorInv => MarketFiguresAreWhole
  BY FiguresAreWhole DEF CollectorInv, MarketFiguresAreWhole
<1> QED
  BY <1>1, CollectorInvariance, PTL
=============================================================================
