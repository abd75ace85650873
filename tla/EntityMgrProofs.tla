--------------------------- MODULE EntityMgrProofs ---------------------------
(***************************************************************************)
(* Proofs about EntityMgr for any number of indices, versions and kinds, as  *)
(* long as no version wraps around (NoWrap).                                 *)
(***************************************************************************)
EXTENDS EntityMgr, SequenceTheorems, TLAPS

NoWrap == MaxVer < VerMod

\* A living entity has the version of its index, a destroyed one is older, and
\* so is every id of a free index.
VersionInv ==
  /\ \A e \in issued : e.idx < counter /\ 1 <= e.ver /\ e.ver <= VerOf(e.idx)
  /\ \A e \in live : e.ver = VerOf(e.idx)
  /\ \A e \in dead : e.ver < VerOf(e.idx)
  /\ \A e \in issued : e.idx \in FreeSet => e.ver < VerOf(e.idx)
  /\ \A i \in 1..counter : 1 <= ver[i] /\ ver[i] <= MaxVer

FreeInv == \A i, j \in 1..Len(free) : free[i] = free[j] => i = j

Inv == TypeOK /\ PoolsCoverIndices /\ VersionInv /\ FreeInv

-----------------------------------------------------------------------------

LEMMA InitInv == ASSUME NoWrap PROVE Init => Inv
<1> SUFFICES ASSUME Init PROVE Inv
  OBVIOUS
<1> USE EntityAssumption DEF Init
<1>1. TypeOK
  BY DEF TypeOK, Kinds
<1>2. PoolsCoverIndices /\ FreeInv
  BY DEF PoolsCoverIndices, FreeInv
<1>3. VersionInv
  BY DEF VersionInv, live
<1> QED
  BY <1>1, <1>2, <1>3 DEF Inv

LEMMA CreateNewInv == ASSUME NoWrap, Inv, CreateNew PROVE Inv'
<1> USE EntityAssumption DEF Inv, CreateNew, NoWrap
<1>1. /\ ver' \in Seq(0..(VerMod - 1)) /\ Len(ver') = counter + 1
      /\ \A i \in 1..counter : ver'[i] = ver[i]
      /\ ver'[counter + 1] = 1
  BY DEF TypeOK
<1>2. TypeOK'
  <2>1. free' \in Seq(0..(counter' - 1))
    BY DEF TypeOK
  <2>2. size' \in [Kinds -> -1..MaxIdx]
    BY DEF TypeOK
  <2>3. issued' \subseteq Ids
    BY DEF TypeOK, Ids
  <2> QED
    BY <1>1, <2>1, <2>2, <2>3 DEF TypeOK
<1>3. PoolsCoverIndices'
  BY DEF PoolsCoverIndices, TypeOK
<1>4. VersionInv'
  BY <1>1 DEF VersionInv, VerOf, live, FreeSet, TypeOK, Ids
<1> QED
  BY <1>2, <1>3, <1>4 DEF FreeInv

LEMMA PopBack ==
  ASSUME NEW S, NEW s \in Seq(S), s # << >>
  PROVE  LET t == SubSeq(s, 1, Len(s) - 1)
         IN  /\ Len(s) \in Nat \ {0} /\ s[Len(s)] \in S
             /\ t \in Seq(S) /\ Len(t) = Len(s) - 1
             /\ \A j \in 1..Len(t) : t[j] = s[j]
<1> DEFINE n == Len(s) - 1
<1>1. Len(s) \in Nat \ {0} /\ \A j \in 1..Len(s) : s[j] \in S
  BY ElementOfSeq
<1>2. 1 \in Int /\ n \in Nat /\ Len(s) = n + 1 /\ \A j \in 1..n : s[j] \in S
  BY <1>1
<1> HIDE DEF n
<1>3. /\ SubSeq(s, 1, n) \in Seq(S) /\ Len(SubSeq(s, 1, n)) = IF 1 <= n THEN n - 1 + 1 ELSE 0
      /\ \A j \in 1..(n - 1 + 1) : SubSeq(s, 1, n)[j] = s[1 + j - 1]
  BY <1>2, SubSeqProperties
<1>4. Len(SubSeq(s, 1, n)) = n /\ \A j \in 1..n : SubSeq(s, 1, n)[j] = s[j]
  BY <1>2, <1>3
<1>5. s[Len(s)] \in S
  BY <1>1
<1> QED
  BY <1>1, <1>2, <1>3, <1>4, <1>5 DEF n

LEMMA CreateAgainInv == ASSUME NoWrap, Inv, CreateAgain PROVE Inv'
<1> USE EntityAssumption
<1> DEFINE n == Len(free)
           i == free[n]
<1>1. /\ n \in Nat \ {0} /\ i \in 0..(counter - 1)
      /\ free' \in Seq(0..(counter - 1)) /\ Len(free') = n - 1
      /\ \A j \in 1..Len(free') : free'[j] = free[j]
  BY PopBack DEF Inv, TypeOK, CreateAgain
<1>2. FreeSet' \subseteq FreeSet /\ i \in FreeSet /\ i \notin FreeSet'
  BY <1>1 DEF FreeSet, Inv, FreeInv
<1>3. UNCHANGED <<counter, ver, npools, size, has, dead>>
      /\ issued' = issued \cup {[idx |-> i, ver |-> ver[i + 1]]}
  BY DEF CreateAgain, VerOf
<1> HIDE DEF n, i
<1>4. i + 1 \in 1..counter /\ ver[i + 1] \in 1..MaxVer /\ ver[i + 1] \in 0..(VerMod - 1)
      /\ counter \in 0..MaxIdx /\ counter \in Nat /\ i \in 0..(MaxIdx - 1)
  BY <1>1 DEF Inv, TypeOK, VersionInv, NoWrap
<1>5. [idx |-> i, ver |-> ver[i + 1]] \in Ids
  BY <1>4 DEF Ids
<1>6. TypeOK'
  BY <1>1, <1>3, <1>5 DEF TypeOK, Inv
<1>7. FreeInv' /\ PoolsCoverIndices'
  BY <1>1, <1>3 DEF FreeInv, PoolsCoverIndices, Inv, n
<1>8. VersionInv'
  <2>1. VerOf(i) = ver[i + 1]
    BY DEF VerOf
  <2>2. \A d : VerOf(d)' = VerOf(d)
    BY <1>3 DEF VerOf
  <2>3. \A d \in issued : d.idx \in FreeSet => d.ver < VerOf(d.idx)
    BY DEF Inv, VersionInv
  <2>4. [idx |-> i, ver |-> ver[i + 1]] \notin dead
    BY <1>4, <2>1 DEF Inv, VersionInv
  <2> DEFINE e == [idx |-> i, ver |-> ver[i + 1]]
  <2>5. e.idx = i /\ e.ver = VerOf(i)
    BY <2>1
  <2>6. issued' = issued \cup {e} /\ live' = live \cup {e}
    BY <1>3, <2>4 DEF live
  <2> HIDE DEF e
  <2>7. \A d \in issued' : d.idx < counter' /\ 1 <= d.ver /\ d.ver <= VerOf(d.idx)'
    BY <1>1, <1>3, <1>4, <2>1, <2>2, <2>5, <2>6 DEF Inv, VersionInv
  <2>8. (\A d \in live' : d.ver = VerOf(d.idx)') /\ (\A d \in dead' : d.ver < VerOf(d.idx)')
    BY <1>3, <2>2, <2>5, <2>6 DEF Inv, VersionInv
  <2>9. \A d \in issued' : d.idx \in FreeSet' => d.ver < VerOf(d.idx)'
    BY <1>2, <2>2, <2>3, <2>5, <2>6
  <2> QED
    BY <1>3, <2>7, <2>8, <2>9 DEF VersionInv, Inv
<1> QED
  BY <1>6, <1>7, <1>8 DEF Inv

\* An id that checks and was issued is of a living entity.
LEMMA Living ==
  ASSUME Inv, NEW e \in issued \cup {Nil}, check(e)
  PROVE  /\ e \in live /\ e \in Ids
         /\ e.idx \in 0..(counter - 1) /\ e.idx \notin FreeSet
         /\ e.ver = ver[e.idx + 1] /\ e.ver \in 1..MaxVer
<1>1. e \in issued
  BY DEF Inv, VersionInv, check, Nil, VerOf, TypeOK
<1>2. e \in Ids /\ e.idx \in 0..(counter - 1) /\ e.ver = ver[e.idx + 1] /\ e.ver \in Nat
  BY <1>1 DEF Inv, VersionInv, check, VerOf, TypeOK, Ids
<1>3. e.idx \notin FreeSet /\ e \notin dead
  BY <1>1, <1>2 DEF Inv, VersionInv, check, VerOf
<1>4. e.ver \in 1..MaxVer
  <2>1. e.idx + 1 \in 1..counter
    BY <1>2 DEF Inv, TypeOK
  <2> QED
    BY <1>2, <2>1 DEF Inv, VersionInv
<1> QED
  BY <1>1, <1>2, <1>3, <1>4 DEF live

LEMMA SmallMod == ASSUME NEW m \in Nat \ {0}, NEW a \in 0..(m - 1) PROVE a % m = a
  OBVIOUS

LEMMA DestroyInv == ASSUME NoWrap, Inv, NEW e \in issued \cup {Nil}, Destroy(e) PROVE Inv'
<1> USE EntityAssumption
<1> DEFINE i == e.idx
           v == e.ver
<1>1. /\ e \in live /\ i \in 0..(counter - 1) /\ i \notin FreeSet
      /\ v = ver[i + 1] /\ v \in 1..MaxVer /\ v < MaxVer
  BY Living DEF Destroy
<1>2. /\ ver' = [ver EXCEPT ![i + 1] = (@ + 1) % VerMod]
      /\ free' = Append(free, i) /\ dead' = dead \cup {e} /\ has' \subseteq has
      /\ UNCHANGED <<counter, npools, size, issued>>
  BY DEF Destroy
<1>3. \A d \in issued : d.idx \in 0..(counter - 1) /\ d.ver \in Nat
  BY DEF Inv, TypeOK, Ids, VersionInv
<1>4. \A d \in live' : d.idx # i
  <2> SUFFICES ASSUME NEW d \in live, d # e, d.idx = i PROVE FALSE
    BY <1>2 DEF live
  <2>1. d.ver = v /\ d \in Ids /\ e \in Ids
    BY <1>1 DEF Inv, VersionInv, VerOf, live, TypeOK
  <2> QED
    BY <2>1 DEF Ids
<1>5. e.idx = i /\ e.ver = v
  OBVIOUS
<1> HIDE DEF i, v
<1>6. counter \in Nat /\ i + 1 \in 1..counter /\ v \in Nat /\ (v + 1) % VerMod = v + 1
      /\ v + 1 \in 0..(VerMod - 1)
  <2>1. v \in Nat /\ v + 1 \in 0..(VerMod - 1)
    BY <1>1 DEF NoWrap
  <2> QED
    BY <1>1, <2>1, SmallMod DEF Inv, TypeOK
<1>7. /\ ver' \in Seq(0..(VerMod - 1)) /\ Len(ver') = counter
      /\ ver'[i + 1] = v + 1
      /\ \A j \in 1..counter : j # i + 1 => ver'[j] = ver[j]
  <2>1. ver' = [ver EXCEPT ![i + 1] = v + 1]
    BY <1>1, <1>2, <1>6
  <2>2. ver \in Seq(0..(VerMod - 1)) /\ Len(ver) = counter
    BY DEF Inv, TypeOK
  <2> QED
    BY <1>6, <2>1, <2>2, ExceptSeq
<1>8. /\ free' \in Seq(0..(counter - 1)) /\ Len(free') = Len(free) + 1 /\ Len(free) \in Nat
      /\ \A j \in 1..Len(free) : free'[j] = free[j]
      /\ free'[Len(free) + 1] = i
  <2>1. free \in Seq(0..(counter - 1)) /\ Len(free) \in Nat
    BY DEF Inv, TypeOK
  <2> QED
    BY <1>1, <1>2, <2>1, AppendProperties
<1>9. FreeSet' = FreeSet \cup {i}
  <2>1. \A j \in 1..Len(free') : j \in 1..Len(free) \/ j = Len(free) + 1
    BY <1>8
  <2>2. 1..Len(free) \subseteq 1..Len(free') /\ Len(free) + 1 \in 1..Len(free')
    BY <1>8
  <2>3. \A x \in FreeSet' : x \in FreeSet \cup {i}
    BY <1>8, <2>1 DEF FreeSet
  <2>4. \A x \in FreeSet : x \in FreeSet'
    BY <1>8, <2>2 DEF FreeSet
  <2>5. i \in FreeSet'
    BY <1>8, <2>2 DEF FreeSet
  <2> QED
    BY <2>3, <2>4, <2>5
<1>10. TypeOK'
  BY <1>1, <1>2, <1>7, <1>8 DEF TypeOK, Inv, live
<1>11. FreeInv'
  <2>1. \A j \in 1..Len(free) : free[j] # i
    BY <1>1 DEF FreeSet
  <2> QED
    BY <1>8, <2>1 DEF FreeInv, Inv
<1>12. VersionInv'
  <2>0. \A j \in 1..counter : ver[j] \in Nat
    BY ElementOfSeq DEF Inv, TypeOK
  <2>1. ASSUME NEW d \in issued PROVE d.idx + 1 \in 1..counter /\ VerOf(d.idx) \in Nat
    <3>1. d.idx + 1 \in 1..counter
      BY <1>3, <1>6
    <3> QED
      BY <2>0, <3>1 DEF VerOf
  <2>2. ASSUME NEW d \in issued, d.idx # i PROVE VerOf(d.idx)' = VerOf(d.idx)
    <3>1. d.idx + 1 # i + 1
      BY <1>1, <1>3, <2>2
    <3> QED
      BY <1>7, <2>1, <3>1 DEF VerOf
  <2>3. \A d \in issued : d.idx = i => VerOf(d.idx)' = VerOf(d.idx) + 1
    BY <1>1, <1>7 DEF VerOf
  <2>4. \A d \in issued' : d.idx < counter' /\ 1 <= d.ver /\ d.ver <= VerOf(d.idx)'
    BY <1>2, <1>3, <2>1, <2>2, <2>3 DEF Inv, VersionInv
  <2>5. \A d \in live' : d.ver = VerOf(d.idx)'
    BY <1>2, <1>4, <2>2 DEF Inv, VersionInv, live
  <2>6. \A d \in dead' : d.ver < VerOf(d.idx)'
    <3>1. ASSUME NEW d \in dead PROVE d.ver < VerOf(d.idx)'
      BY <1>3, <2>1, <2>2, <2>3 DEF Inv, VersionInv, TypeOK
    <3>2. e.ver < VerOf(e.idx)'
      BY <1>5, <1>6, <1>7 DEF VerOf
    <3> QED
      BY <1>2, <3>1, <3>2
  <2>7. \A d \in issued' : d.idx \in FreeSet' => d.ver < VerOf(d.idx)'
    BY <1>2, <1>3, <1>9, <2>1, <2>2, <2>3 DEF Inv, VersionInv
  <2>8. \A j \in 1..counter' : 1 <= ver'[j] /\ ver'[j] <= MaxVer
    <3>1. 1 <= v + 1 /\ v + 1 <= MaxVer
      BY <1>1, <1>6
    <3>2. \A j \in 1..counter : j # i + 1 => 1 <= ver'[j] /\ ver'[j] <= MaxVer
      BY <1>7 DEF Inv, VersionInv
    <3> QED
      BY <1>2, <1>7, <3>1, <3>2
  <2> QED
    BY <2>4, <2>5, <2>6, <2>7, <2>8 DEF VersionInv
<1> QED
  BY <1>2, <1>10, <1>11, <1>12 DEF PoolsCoverIndices, Inv

LEMMA AddInv ==
  ASSUME NoWrap, Inv, NEW e \in issued \cup {Nil}, NEW k \in Kinds, Add(e, k) PROVE Inv'
<1> USE EntityAssumption DEF Inv, Add
<1>1. e.idx \in 0..(counter - 1)
  BY Living DEF TypeOK, Ids, Nil
<1>2. TypeOK'
  <2>1. k \in Int /\ 0 <= k /\ k < NumKinds
    BY DEF Kinds
  <2>2. npools' \in 0..NumKinds
    BY <2>1 DEF TypeOK
  <2>3. size' \in [Kinds -> -1..MaxIdx]
    BY DEF TypeOK
  <2>4. has' \subseteq Kinds \X (0..(counter - 1))
    BY <1>1 DEF TypeOK
  <2> QED
    BY <2>2, <2>3, <2>4 DEF TypeOK
<1>3. PoolsCoverIndices'
  BY DEF PoolsCoverIndices, TypeOK, Kinds
<1> QED
  BY <1>2, <1>3 DEF VersionInv, FreeInv, live, FreeSet, VerOf

LEMMA NextInv == ASSUME NoWrap PROVE Inv /\ [Next]_vars => Inv'
<1> SUFFICES ASSUME Inv, [Next]_vars PROVE Inv'
  OBVIOUS
<1>1. CASE UNCHANGED vars
  BY <1>1 DEF vars, Inv, TypeOK, PoolsCoverIndices, VersionInv, FreeInv, live,
              FreeSet, VerOf
<1> QED
  BY <1>1, CreateNewInv, CreateAgainInv, DestroyInv, AddInv DEF Next, DestroyStale

LEMMA InvHolds == ASSUME NoWrap PROVE Spec => []Inv
  BY InitInv, NextInv, PTL DEF Spec

\* Types of the manager, for any constants without wrap-around.
THEOREM TypeCorrect == ASSUME NoWrap PROVE Spec => []TypeOK
<1>1. Inv => TypeOK
  BY DEF Inv
<1> QED
  BY <1>1, InvHolds, PTL

\* Every pool reaches as far as the indices, so component and add stay in
\* bounds.
THEOREM PoolsCoverHolds == ASSUME NoWrap PROVE Spec => []PoolsCoverIndices
<1>1. Inv => PoolsCoverIndices
  BY DEF Inv
<1> QED
  BY <1>1, InvHolds, PTL

LEMMA InvCheckExact == Inv => CheckExact
<1> SUFFICES ASSUME Inv PROVE CheckExact
  OBVIOUS
<1>1. ~check(Nil)
  <2>1. Len(ver) = counter /\ counter \in Nat
    BY EntityAssumption DEF Inv, TypeOK
  <2> QED
    BY <2>1 DEF check, Nil, VerOf, Inv, VersionInv
<1>2. ASSUME NEW e \in issued, check(e) PROVE e \in live
  BY <1>2, Living
<1>3. ASSUME NEW e \in live PROVE check(e)
  BY DEF check, Inv, VersionInv, live, TypeOK
<1> QED
  BY <1>1, <1>2, <1>3 DEF CheckExact

\* check is exact: an id never comes back to life.
THEOREM CheckExactHolds == ASSUME NoWrap PROVE Spec => []CheckExact
  BY InvCheckExact, InvHolds, PTL

LEMMA InvIndexOnce == Inv => IndexOnce
<1> SUFFICES ASSUME Inv PROVE IndexOnce
  OBVIOUS
<1>1. ASSUME NEW d \in live, NEW e \in live, d.idx = e.idx PROVE d = e
  <2>1. d \in Ids /\ e \in Ids /\ d.ver = e.ver
    BY <1>1 DEF Inv, VersionInv, live, TypeOK
  <2> QED
    BY <1>1, <2>1 DEF Ids
<1>2. ASSUME NEW e \in live PROVE e.idx \notin FreeSet
  <2>1. e.ver = VerOf(e.idx) /\ e \in issued /\ e \in Ids
    BY DEF Inv, VersionInv, live, TypeOK
  <2>2. e.ver \in Nat
    BY <2>1, EntityAssumption DEF Ids
  <2> QED
    BY <2>1, <2>2 DEF Inv, VersionInv
<1> QED
  BY <1>1, <1>2 DEF IndexOnce, Inv, FreeInv

\* An index belongs to one living entity or to the free list, once.
THEOREM IndexOnceHolds == ASSUME NoWrap PROVE Spec => []IndexOnce
  BY InvIndexOnce, InvHolds, PTL

\* entities_with_components finds the living entities with the component.
THEOREM QueryExactHolds == ASSUME NoWrap PROVE Spec => []QueryExact
<1>1. Inv => QueryExact
  <2> SUFFICES ASSUME Inv, NEW k \in Kinds, k < npools
               PROVE  entities_with_components(k, issued \cup {Nil}) = {e \in live : component(e, k)}
    BY DEF QueryExact
  <2>1. ~check(Nil) /\ \A e \in issued : check(e) <=> e \in live
    BY InvCheckExact DEF CheckExact
  <2> QED
    BY <2>1 DEF entities_with_components, component, live
<1> QED
  BY <1>1, InvHolds, PTL

-----------------------------------------------------------------------------
(* The manager implements the store, if components are added to living        *)
(* entities only: the slots of free indices are empty.                        *)

CleanInv ==
  /\ \A s \in has : size[s[1]] # -1
  /\ \A s \in has : s[2] \notin FreeSet

LEMMA NextClean ==
  ASSUME NoWrap, ~StaleAdds PROVE Inv /\ CleanInv /\ [Next]_vars => CleanInv'
<1> SUFFICES ASSUME Inv, CleanInv, [Next]_vars PROVE CleanInv'
  OBVIOUS
<1>1. CASE CreateNew
  <2>1. counter + 1 # -1 /\ has \subseteq Kinds \X (0..(counter - 1))
    BY EntityAssumption DEF Inv, TypeOK
  <2> QED
    BY <1>1, <2>1 DEF CreateNew, CleanInv, FreeSet
<1>2. CASE CreateAgain
  <2>1. FreeSet' \subseteq FreeSet
    BY <1>2, PopBack DEF CreateAgain, FreeSet, Inv, TypeOK
  <2> QED
    BY <1>2, <2>1 DEF CreateAgain, CleanInv
<1>3. ASSUME NEW e \in issued \cup {Nil}, Destroy(e) PROVE CleanInv'
  <2>1. e.idx \in 0..(counter - 1) /\ counter \in Nat /\ counter >= e.idx
    BY <1>3, Living, EntityAssumption DEF Destroy, Inv, TypeOK
  <2>2. \A s \in has : s[1] \in Kinds /\ size[s[1]] = counter
    BY DEF CleanInv, Inv, TypeOK, PoolsCoverIndices
  <2>3. \A s \in has' : s \in has /\ s[2] # e.idx
    BY <1>3, <2>1, <2>2 DEF Destroy
  <2>4. FreeSet' \subseteq FreeSet \cup {e.idx}
    BY <1>3, <2>1, AppendProperties DEF Destroy, FreeSet, Inv, TypeOK
  <2> QED
    BY <1>3, <2>3, <2>4 DEF CleanInv, Destroy
<1>4. ASSUME NEW e \in issued \cup {Nil}, NEW k \in Kinds, Add(e, k) PROVE CleanInv'
  <2>1. e.idx \notin FreeSet
    BY <1>4, Living DEF Add
  <2>2. counter # -1 /\ has \subseteq Kinds \X (0..(counter - 1)) /\ size \in [Kinds -> -1..MaxIdx]
    BY EntityAssumption DEF Inv, TypeOK
  <2>3. size'[k] # -1 /\ \A j \in Kinds : size[j] # -1 => size'[j] # -1
    BY <1>4, <2>2 DEF Add
  <2>4. \A s \in has : s[1] \in Kinds
    BY <2>2
  <2>5. UNCHANGED FreeSet /\ has' = has \cup {<<k, e.idx>>}
    BY <1>4 DEF Add, FreeSet
  <2> QED
    BY <2>1, <2>3, <2>4, <2>5 DEF CleanInv
<1>5. CASE UNCHANGED vars
  BY <1>5 DEF vars, CleanInv, FreeSet
<1> QED
  BY <1>1, <1>2, <1>3, <1>4, <1>5 DEF Next, DestroyStale

Shown == {p \in live \X Kinds : component(p[1], p[2])}

LEMMA CreateStep ==
  ASSUME Inv, CleanInv, NEW e \in Ids \ issued, issued' = issued \cup {e}, dead' = dead,
         \A k \in Kinds : <<k, e.idx>> \notin has,
         UNCHANGED <<npools, has>>, \A k \in Kinds : (size'[k] = -1) <=> (size[k] = -1)
  PROVE  Store!Next
<1>1. live' = live \cup {e}
  BY DEF live, Inv, TypeOK
<1>2. \A d, k : k \in Kinds => (component(d, k)' <=> component(d, k))
  BY DEF component
<1>3. \A k \in Kinds : ~component(e, k)
  BY DEF component
<1>4. Shown' = Shown
  BY <1>1, <1>2, <1>3 DEF Shown
<1>5. Store!Create(e)
  BY <1>1, <1>4 DEF Store!Create, Shown
<1> QED
  BY <1>5 DEF Store!Next

LEMMA Refines ==
  ASSUME NoWrap, ~StaleAdds PROVE Inv /\ CleanInv /\ [Next]_vars => [Store!Next]_Store!store
<1> SUFFICES ASSUME Inv, CleanInv, [Next]_vars PROVE [Store!Next]_Store!store
  OBVIOUS
<1> USE EntityAssumption
<1>1. CASE CreateNew
  <2> DEFINE e == [idx |-> counter, ver |-> 1]
  <2>1. e \in Ids /\ e \notin issued
    BY <1>1 DEF CreateNew, Ids, Inv, TypeOK, VersionInv, NoWrap
  <2>2. \A k \in Kinds : <<k, e.idx>> \notin has
    BY DEF Inv, TypeOK
  <2>3. \A k \in Kinds : (size'[k] = -1) <=> (size[k] = -1)
    BY <1>1 DEF CreateNew, Inv, TypeOK
  <2> QED
    BY <1>1, <2>1, <2>2, <2>3, CreateStep DEF CreateNew
<1>2. CASE CreateAgain
  <2> DEFINE i == free[Len(free)]
             e == [idx |-> i, ver |-> VerOf(i)]
  <2>1. Inv'
    BY <1>2, CreateAgainInv
  <2>2. i \in FreeSet
    BY <1>2, PopBack DEF CreateAgain, Inv, TypeOK, FreeSet
  <2>3. e \in Ids /\ issued' = issued \cup {e}
    BY <1>2, <2>1 DEF Inv, TypeOK, CreateAgain
  <2>4. e \notin issued
    <3>1. e.idx = i /\ e.ver = VerOf(i) /\ e.ver \in Nat
      BY <2>3 DEF Ids
    <3> QED
      BY <2>2, <3>1 DEF Inv, VersionInv
  <2>5. \A k \in Kinds : <<k, e.idx>> \notin has
    BY <2>2 DEF CleanInv
  <2> QED
    BY <1>2, <2>3, <2>4, <2>5, CreateStep DEF CreateAgain
<1>3. ASSUME NEW e \in issued \cup {Nil}, Destroy(e) PROVE Store!Next
  <2>1. e \in live /\ e \in Ids /\ e.idx \in 0..(counter - 1)
    BY <1>3, Living DEF Destroy
  <2>2. live' = live \ {e} /\ issued' = issued
    BY <1>3 DEF Destroy, live
  <2>3. \A d \in live : d # e => d.idx # e.idx
    BY <2>1, InvIndexOnce DEF IndexOnce
  <2>4. \A d \in live, k \in Kinds : d # e => (component(d, k)' <=> component(d, k))
    BY <1>3, <2>3 DEF component, Destroy
  <2>5. Shown' = {c \in Shown : c[1] # e}
    BY <2>2, <2>4 DEF Shown
  <2>6. Store!Destroy(e)
    BY <2>1, <2>2, <2>5 DEF Store!Destroy, Shown
  <2> QED
    BY <2>1, <2>6 DEF Store!Next
<1>4. ASSUME NEW e \in issued \cup {Nil}, NEW k \in Kinds, Add(e, k) PROVE Store!Next
  <2>1. e \in live /\ e \in Ids
    BY <1>4, Living DEF Add
  <2>2. UNCHANGED <<live, issued>>
    BY <1>4 DEF Add, live
  <2>3. \A d \in live : d.idx = e.idx => d = e
    BY <2>1, InvIndexOnce DEF IndexOnce
  <2>4. component(e, k)'
    BY <1>4 DEF component, Add, Inv, TypeOK, Kinds
  <2>5. \A d \in live, j \in Kinds : <<d, j>> # <<e, k>> => (component(d, j)' <=> component(d, j))
    <3> SUFFICES ASSUME NEW d \in live, NEW j \in Kinds, <<d, j>> # <<e, k>>
                 PROVE  component(d, j)' <=> component(d, j)
      OBVIOUS
    <3>1. (<<j, d.idx>> \in has') <=> (<<j, d.idx>> \in has)
      BY <1>4, <2>3 DEF Add
    <3>2. <<j, d.idx>> \in has => size[j] # -1 /\ j < npools
      BY DEF CleanInv, Inv, PoolsCoverIndices
    <3>3. size[j] # -1 /\ j < npools => size'[j] # -1 /\ j < npools'
      BY <1>4 DEF Add, Inv, TypeOK, Kinds
    <3> QED
      BY <3>1, <3>2, <3>3 DEF component
  <2>6. Shown' = Shown \cup {<<e, k>>}
    BY <2>1, <2>2, <2>4, <2>5 DEF Shown
  <2>7. Store!Add(e, k)
    BY <2>1, <2>2, <2>6 DEF Store!Add, Shown
  <2> QED
    BY <2>1, <2>7 DEF Store!Next
<1>5. CASE UNCHANGED vars
  BY <1>5 DEF vars, Store!store, live, component
<1> QED
  BY <1>1, <1>2, <1>3, <1>4, <1>5 DEF Next, DestroyStale

\* The manager implements EntityStore: ids are fresh, and no entity inherits a
\* component of the one that had its index before.
THEOREM StoreRefinement == ASSUME NoWrap, ~StaleAdds PROVE Spec => ImplementsStore
<1>1. Init => CleanInv /\ Store!Init
  BY DEF Init, CleanInv, Store!Init, live
<1> QED
  BY <1>1, InvHolds, NextClean, Refines, PTL DEF Spec, ImplementsStore, Store!Spec

=============================================================================
