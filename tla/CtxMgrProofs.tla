---------------------------- MODULE CtxMgrProofs -----------------------------
(***************************************************************************)
(* Proofs about CtxMgr, for any threads, names and bounds, also when there  *)
(* are more contexts than ids.                                              *)
(***************************************************************************)
EXTENDS CtxMgr, SequenceTheorems, TLAPS

Pairs == [name : Names, id : Ids]

\* The names are in strictly increasing order.
Sorted ==
  \A i, j \in DOMAIN names : i < j => names[i].name < names[j].name

\* What a thread in the middle of create_ctx or stop_ctx works on.
BusyInv ==
  /\ \A t \in Makers : mpc[t] = "init" => mobj[t] \in 1..allocid
  /\ \A t \in Stoppers :
       /\ spc[t] # "idle" => sid[t] \in Ids
       /\ spc[t] \in {"del", "shut"} => sobj[t] \in Objs

NameInv == TypeOK /\ Sorted

LEMMA ConcatNth ==
  ASSUME NEW S, NEW u \in Seq(S), NEW v \in Seq(S)
  PROVE  /\ u \o v \in Seq(S) /\ Len(u \o v) = Len(u) + Len(v)
         /\ \A i \in 1..(Len(u) + Len(v)) :
              (u \o v)[i] = IF i <= Len(u) THEN u[i] ELSE v[i - Len(u)]
OBVIOUS

LEMMA InsertAtProps ==
  ASSUME NEW S, NEW q \in Seq(S), NEW e \in S, NEW k \in 1..(Len(q) + 1)
  PROVE  /\ InsertAt(q, k, e) \in Seq(S)
         /\ Len(InsertAt(q, k, e)) = Len(q) + 1
         /\ \A i \in 1..(k - 1) : InsertAt(q, k, e)[i] = q[i]
         /\ InsertAt(q, k, e)[k] = e
         /\ \A i \in k..Len(q) : InsertAt(q, k, e)[i + 1] = q[i]
<1> DEFINE a == SubSeq(q, 1, k - 1)
           b == SubSeq(q, k, Len(q))
<1>1. a \in Seq(S) /\ Len(a) = k - 1 /\ \A i \in 1..(k - 1) : a[i] = q[i]
  OBVIOUS
<1>2. b \in Seq(S) /\ Len(b) = Len(q) - k + 1
      /\ \A i \in 1..(Len(q) - k + 1) : b[i] = q[i + k - 1]
  OBVIOUS
<1>0. Len(q) \in Nat /\ k \in Nat /\ 1 <= k /\ k <= Len(q) + 1  OBVIOUS
<1> HIDE DEF a, b
<1>3. (a \o <<e>>) \in Seq(S) /\ Len(a \o <<e>>) = k
      /\ \A i \in 1..k : (a \o <<e>>)[i] = IF i < k THEN q[i] ELSE e
  BY <1>1
<1>4. /\ ((a \o <<e>>) \o b) \in Seq(S)
      /\ Len((a \o <<e>>) \o b) = Len(a \o <<e>>) + Len(b)
      /\ \A i \in 1..(Len(a \o <<e>>) + Len(b)) :
           ((a \o <<e>>) \o b)[i] = IF i <= Len(a \o <<e>>) THEN (a \o <<e>>)[i]
                                    ELSE b[i - Len(a \o <<e>>)]
  <2>1. b \in Seq(S)  BY <1>2
  <2>2. (a \o <<e>>) \in Seq(S)  BY <1>3
  <2> QED  BY <2>1, <2>2, ConcatNth, Zenon
<1>5. Len(a \o <<e>>) + Len(b) = Len(q) + 1
  <2>1. Len(a \o <<e>>) = k  BY <1>3
  <2>2. Len(b) = Len(q) - k + 1  BY <1>2
  <2> QED  BY <1>0, <2>1, <2>2
<1>6. \A i \in 1..(k - 1) : ((a \o <<e>>) \o b)[i] = q[i]
  BY <1>0, <1>3, <1>4, <1>5
<1>7. ((a \o <<e>>) \o b)[k] = e
  BY <1>0, <1>3, <1>4, <1>5
<1>8. \A i \in k..Len(q) : ((a \o <<e>>) \o b)[i + 1] = q[i]
  <2> TAKE i \in k..Len(q)
  <2>1. Len(a \o <<e>>) = k  BY <1>3
  <2>2. i + 1 \in 1..(Len(a \o <<e>>) + Len(b)) /\ ~(i + 1 <= k)  BY <1>0, <1>5
  <2>3. ((a \o <<e>>) \o b)[i + 1] = b[i + 1 - k]  BY <1>4, <2>1, <2>2
  <2>4. i + 1 - k \in 1..(Len(q) - k + 1) /\ (i + 1 - k) + k - 1 = i  BY <1>0
  <2>5. b[i + 1 - k] = q[(i + 1 - k) + k - 1]  BY <1>2, <2>4
  <2> QED  BY <2>3, <2>4, <2>5
<1>9. InsertAt(q, k, e) = (a \o <<e>>) \o b
  BY DEF InsertAt, a, b
<1> QED  BY <1>4, <1>5, <1>6, <1>7, <1>8, <1>9

LEMMA RemoveAtProps ==
  ASSUME NEW S, NEW q \in Seq(S), NEW k \in 1..Len(q)
  PROVE  /\ RemoveAt(q, k) \in Seq(S)
         /\ Len(RemoveAt(q, k)) = Len(q) - 1
         /\ \A i \in 1..(Len(q) - 1) :
              RemoveAt(q, k)[i] = IF i < k THEN q[i] ELSE q[i + 1]
<1> DEFINE a == SubSeq(q, 1, k - 1)
           b == SubSeq(q, k + 1, Len(q))
<1>1. a \in Seq(S) /\ Len(a) = k - 1 /\ \A i \in 1..(k - 1) : a[i] = q[i]
  OBVIOUS
<1>2. b \in Seq(S) /\ Len(b) = Len(q) - k
      /\ \A i \in 1..(Len(q) - k) : b[i] = q[i + k]
  OBVIOUS
<1>3. Len(q) \in Nat /\ k \in Nat /\ 1 <= k /\ k <= Len(q)  OBVIOUS
<1> HIDE DEF a, b
<1>4. /\ a \o b \in Seq(S) /\ Len(a \o b) = Len(a) + Len(b)
      /\ \A i \in 1..(Len(a) + Len(b)) :
           (a \o b)[i] = IF i <= Len(a) THEN a[i] ELSE b[i - Len(a)]
  <2>1. a \in Seq(S) /\ b \in Seq(S)  BY <1>1, <1>2
  <2> QED  BY <2>1, ConcatNth, Zenon
<1>5. Len(a) + Len(b) = Len(q) - 1  BY <1>1, <1>2, <1>3
<1>6. \A i \in 1..(Len(q) - 1) : ~(i < k) => b[i - (k - 1)] = q[i + 1]
  BY <1>2, <1>3
<1>7. RemoveAt(q, k) = a \o b  BY DEF RemoveAt, a, b
<1> QED  BY <1>1, <1>3, <1>4, <1>5, <1>6, <1>7

LEMMA PairsTyped ==
  TypeOK => /\ names \in Seq(Pairs) /\ DOMAIN names = 1..Len(names)
            /\ Len(names) \in Nat
            /\ \A i \in 1..Len(names) : names[i] \in Pairs /\ names[i].name \in Int
<1> SUFFICES ASSUME TypeOK
             PROVE  /\ names \in Seq(Pairs) /\ DOMAIN names = 1..Len(names)
                    /\ Len(names) \in Nat
                    /\ \A i \in 1..Len(names) :
                         names[i] \in Pairs /\ names[i].name \in Int
  OBVIOUS
<1>1. names \in Seq(Pairs)  BY DEF TypeOK, Pairs
<1>2. \A r \in Pairs : r.name \in Int  BY MgrAssumption DEF Pairs
<1>3. \A i \in 1..Len(names) : names[i] \in Pairs  BY <1>1
<1> QED  BY <1>1, <1>2, <1>3

\* In a sorted vector the binary search misses no name.
LEMMA HasNameExact ==
  ASSUME NameInv, NEW n \in Int, ~HasName(n)
  PROVE  \A i \in 1..Len(names) : names[i].name # n
<1>1. /\ Len(names) \in Nat /\ DOMAIN names = 1..Len(names)
      /\ \A i \in 1..Len(names) : names[i].name \in Int
  BY PairsTyped DEF NameInv
<1> SUFFICES ASSUME NEW i \in 1..Len(names), names[i].name = n PROVE FALSE
  OBVIOUS
<1>2. i \in LowerBound(n)  BY <1>1 DEF LowerBound, NameInv, Sorted
<1> QED  BY <1>2 DEF HasName

\* register_name keeps the vector sorted.
LEMMA EmplaceKeepsSorted ==
  ASSUME NameInv, NEW n \in Names, NEW id \in Ids, ~HasName(n),
         EmplaceAndSort(n, id)
  PROVE  names' \in Seq(Pairs) /\ Sorted'
<1>1. /\ names \in Seq(Pairs) /\ Len(names) \in Nat /\ DOMAIN names = 1..Len(names)
      /\ \A i \in 1..Len(names) : names[i].name \in Int
  BY PairsTyped DEF NameInv
<1>2. PICK e \in Pairs : e = [name |-> n, id |-> id]  BY DEF Pairs
<1>21. e.name = n /\ n \in Int  BY <1>2, MgrAssumption
<1> PICK k \in 1..(Len(names) + 1) :
       /\ \A j \in 1..(k - 1) : names[j].name < n
       /\ \A j \in k..Len(names) : n <= names[j].name
       /\ names' = InsertAt(names, k, e)
  BY <1>2 DEF EmplaceAndSort
<1>22. \A j \in k..Len(names) : n < names[j].name
  <2>1. \A j \in 1..Len(names) : names[j].name # n  BY <1>21, HasNameExact
  <2> QED  BY <1>1, <1>21, <2>1
<1>3. /\ names' \in Seq(Pairs) /\ Len(names') = Len(names) + 1
      /\ \A i \in 1..(k - 1) : names'[i] = names[i]
      /\ names'[k] = e
      /\ \A i \in k..Len(names) : names'[i + 1] = names[i]
  <2>1. names \in Seq(Pairs)  BY <1>1
  <2>2. names' = InsertAt(names, k, e)  OBVIOUS
  <2>3. InsertAt(names, k, e) \in Seq(Pairs)  BY <2>1, InsertAtProps
  <2>4. Len(InsertAt(names, k, e)) = Len(names) + 1  BY <2>1, InsertAtProps
  <2>5. \A i \in 1..(k - 1) : InsertAt(names, k, e)[i] = names[i]
    BY <2>1, InsertAtProps
  <2>6. InsertAt(names, k, e)[k] = e  BY <2>1, InsertAtProps
  <2>7. \A i \in k..Len(names) : InsertAt(names, k, e)[i + 1] = names[i]
    BY <2>1, InsertAtProps
  <2> QED  BY <2>2, <2>3, <2>4, <2>5, <2>6, <2>7, Zenon
<1>4. ASSUME NEW i \in 1..(Len(names) + 1), NEW j \in 1..(Len(names) + 1), i < j
      PROVE  names'[i].name < names'[j].name
  <2>0. DOMAIN names = 1..Len(names)  BY <1>1
  <2>1. \A u, v \in 1..Len(names) : u < v => names[u].name < names[v].name
    BY <2>0 DEF NameInv, Sorted
  <2>2. CASE j < k
    <3>1. i \in 1..Len(names) /\ j \in 1..Len(names) /\ i < k  BY <1>1, <1>4, <2>2
    <3>2. names'[i] = names[i] /\ names'[j] = names[j]  BY <1>3, <2>2, <3>1
    <3> QED  BY <1>4, <2>1, <3>1, <3>2
  <2>3. CASE j = k  BY <1>1, <1>21, <1>3, <1>4, <2>3
  <2>4. CASE j > k
    <3>1. j - 1 \in k..Len(names) /\ names'[j] = names[j - 1]
      BY <1>1, <1>3, <1>4, <2>4
    <3>2. CASE i < k  BY <1>1, <1>3, <1>4, <2>1, <2>4, <3>1, <3>2
    <3>3. CASE i = k  BY <1>1, <1>21, <1>22, <1>3, <3>1, <3>3
    <3>4. CASE i > k
      <4>1. i - 1 \in 1..Len(names) /\ j - 1 \in 1..Len(names) /\ i - 1 < j - 1
            /\ names'[i] = names[i - 1]
        BY <1>1, <1>3, <1>4, <3>4
      <4> QED  BY <2>1, <3>1, <4>1
    <3> QED  BY <3>2, <3>3, <3>4
  <2> QED  BY <1>1, <2>2, <2>3, <2>4
<1> QED  BY <1>1, <1>3, <1>4 DEF Sorted

\* del_ctx keeps the vector sorted.
LEMMA EraseKeepsSorted ==
  ASSUME NameInv, NEW id, EraseFirst(id)
  PROVE  names' \in Seq(Pairs) /\ Sorted'
<1>1. names \in Seq(Pairs)  BY DEF NameInv, TypeOK, Pairs
<1>2. CASE UNCHANGED names  BY <1>1, <1>2 DEF NameInv, Sorted
<1>3. ASSUME NEW k \in DOMAIN names, names' = RemoveAt(names, k)
      PROVE  names' \in Seq(Pairs) /\ Sorted'
  <2>1. k \in 1..Len(names)  BY <1>1, <1>3
  <2>2. /\ names' \in Seq(Pairs) /\ Len(names') = Len(names) - 1
        /\ \A i \in 1..(Len(names) - 1) :
             names'[i] = IF i < k THEN names[i] ELSE names[i + 1]
    BY <1>1, <1>3, <2>1, RemoveAtProps
  <2>3. \A u, v \in 1..Len(names) : u < v => names[u].name < names[v].name
    BY <1>1 DEF NameInv, Sorted
  <2>4. ASSUME NEW i \in 1..(Len(names) - 1), NEW j \in 1..(Len(names) - 1), i < j
        PROVE  names'[i].name < names'[j].name
    <3>1. i \in 1..Len(names) /\ i + 1 \in 1..Len(names) /\ j \in 1..Len(names)
          /\ j + 1 \in 1..Len(names) /\ i < j + 1 /\ i + 1 < j + 1
      BY <1>1, <2>4
    <3> QED  BY <2>1, <2>2, <2>3, <2>4, <3>1
  <2> QED  BY <1>1, <2>2, <2>4 DEF Sorted
<1> QED  BY <1>2, <1>3 DEF EraseFirst

\* What lower_bound finds in a sorted vector.
LEMMA SortedLookup == NameInv => LookupExact
<1> SUFFICES ASSUME NameInv PROVE LookupExact
  OBVIOUS
<1>1. /\ names \in Seq(Pairs) /\ DOMAIN names = 1..Len(names)
      /\ \A i \in 1..Len(names) : names[i].name \in Int
  BY PairsTyped DEF NameInv
<1> SUFFICES ASSUME NEW i \in DOMAIN names
             PROVE  /\ FindName(names[i].name) = names[i].id
                    /\ \A j \in DOMAIN names : names[i].name = names[j].name => i = j
  BY DEF LookupExact
<1> DEFINE n == names[i].name
<1>2. \A j \in DOMAIN names : n = names[j].name => i = j
  BY <1>1 DEF NameInv, Sorted
<1>3. i \in LowerBound(n)
  BY <1>1 DEF LowerBound, NameInv, Sorted
<1>4. ASSUME NEW j \in LowerBound(n) PROVE j = i
  <2>1. j \in 1..Len(names) /\ names[j].name >= n
        /\ \A m \in 1..(j - 1) : names[m].name < n
    BY <1>1, <1>4 DEF LowerBound
  <2>2. ~(j < i)  BY <1>1, <2>1 DEF NameInv, Sorted
  <2>3. ~(i < j)  BY <1>1, <2>1
  <2> QED  BY <1>1, <2>1, <2>2, <2>3
<1>5. LowerBound(n) = {i}  BY <1>3, <1>4
<1>6. FindName(n) = names[i].id
  <2>1. (CHOOSE m \in LowerBound(n) : TRUE) = i  BY <1>5
  <2> QED  BY <1>3, <2>1 DEF FindName, HasName
<1> QED  BY <1>2, <1>6

LEMMA FindNameType == ASSUME TypeOK, NEW n, FindName(n) # None PROVE FindName(n) \in Ids
<1>1. names \in Seq(Pairs)  BY DEF TypeOK, Pairs
<1>2. \E i \in LowerBound(n) : names[i].name = n  BY DEF FindName, HasName
<1> DEFINE c == CHOOSE i \in LowerBound(n) : TRUE
<1>3. c \in LowerBound(n)  BY <1>2
<1>4. c \in DOMAIN names  BY <1>3 DEF LowerBound
<1>5. FindName(n) = names[c].id  BY <1>2 DEF FindName, HasName
<1> HIDE DEF c
<1>6. names[c] \in Pairs  BY <1>4, PairsTyped
<1> QED  BY <1>5, <1>6 DEF Pairs

LEMMA IdOfType == \A o \in Nat : IdOf(o) \in Ids
BY MgrAssumption DEF IdOf, Ids

-----------------------------------------------------------------------------
(* Types and names *)

BaseInv == NameInv /\ BusyInv

LEMMA InitBase == Init => BaseInv
<1> SUFFICES ASSUME Init PROVE BaseInv
  OBVIOUS
<1>1. names \in Seq([name : Names, id : Ids])  BY DEF Init
<1>2. TypeOK  BY <1>1, MgrAssumption DEF Init, TypeOK, Objs, Ids
<1>3. Sorted /\ BusyInv  BY DEF Init, Sorted, BusyInv
<1> QED  BY <1>2, <1>3 DEF BaseInv, NameInv

LEMMA NextBase == BaseInv /\ [Next]_vars => BaseInv'
<1> SUFFICES ASSUME BaseInv, [Next]_vars PROVE BaseInv'
  OBVIOUS
<1>0. NameInv /\ TypeOK /\ Sorted /\ BusyInv  BY DEF BaseInv, NameInv
<1>1. ASSUME TypeOK', BusyInv', UNCHANGED names PROVE BaseInv'
  BY <1>0, <1>1 DEF BaseInv, NameInv, Sorted
<1> USE MgrAssumption DEF TypeOK, BusyInv, maker, stopper, closer, Objs
<1>2. CASE \E t \in Makers : NewId(t)
  <2> PICK t \in Makers : NewId(t)  BY <1>2
  <2>1. TypeOK'  BY <1>0 DEF NewId
  <2>2. BusyInv'  BY <1>0 DEF NewId
  <2> QED  BY <1>1, <2>1, <2>2 DEF NewId
<1>3. CASE \E t \in Makers, n \in Names : RegisterName(t, n)
  <2> PICK t \in Makers, n \in Names : RegisterName(t, n)  BY <1>3
  <2>1. IdOf(mobj[t]) \in Ids  BY <1>0, IdOfType
  <2>2. names' \in Seq(Pairs) /\ Sorted'
    BY <1>0, <2>1, EmplaceKeepsSorted DEF RegisterName
  <2>3. mcount' \in [Makers -> 0..NamesPerCtx]  BY <1>0 DEF RegisterName
  <2>4. TypeOK'  BY <1>0, <2>2, <2>3 DEF RegisterName, Pairs
  <2>5. BusyInv'  BY <1>0 DEF RegisterName
  <2> QED  BY <2>2, <2>4, <2>5 DEF BaseInv, NameInv
<1>4. CASE \E t \in Makers : InitFails(t)
  <2> PICK t \in Makers : InitFails(t)  BY <1>4
  <2>1. TypeOK'  BY <1>0 DEF InitFails
  <2>2. BusyInv'  BY <1>0 DEF InitFails
  <2> QED  BY <1>1, <2>1, <2>2 DEF InitFails
<1>5. CASE \E t \in Makers : AddCtx(t)
  <2> PICK t \in Makers : AddCtx(t)  BY <1>5
  <2>1. ctxs' \in [Ids -> 0..MaxAlloc]  BY <1>0 DEF AddCtx
  <2>2. added' \subseteq Objs
    <3>1. mobj[t] \in 1..allocid /\ allocid \in 0..MaxAlloc  BY <1>0 DEF AddCtx
    <3>2. mobj[t] \in 1..MaxAlloc  BY <3>1
    <3> QED  BY <1>0, <3>2 DEF AddCtx
  <2>3. TypeOK'  BY <1>0, <2>1, <2>2 DEF AddCtx
  <2>4. BusyInv'  BY <1>0 DEF AddCtx
  <2> QED  BY <1>1, <2>3, <2>4 DEF AddCtx
<1>6. CASE \E t \in Stoppers, n \in Names : StopByName(t, n)
  <2> PICK t \in Stoppers, n \in Names : StopByName(t, n)  BY <1>6
  <2>1. FindName(n) \in Ids  BY <1>0, FindNameType DEF StopByName
  <2>2. TypeOK'  BY <1>0, <2>1 DEF StopByName
  <2>3. BusyInv'  BY <1>0, <2>1 DEF StopByName
  <2> QED  BY <1>1, <2>2, <2>3 DEF StopByName
<1>7. CASE \E t \in Stoppers, i \in Ids : StopById(t, i)
  <2> PICK t \in Stoppers, i \in Ids : StopById(t, i)  BY <1>7
  <2>1. TypeOK'  BY <1>0 DEF StopById
  <2>2. BusyInv'  BY <1>0 DEF StopById
  <2> QED  BY <1>1, <2>1, <2>2 DEF StopById
<1>8. CASE \E t \in Stoppers : StopGet(t)
  <2> PICK t \in Stoppers : StopGet(t)  BY <1>8
  <2>1. ctxs[sid[t]] \in Objs  BY <1>0 DEF StopGet
  <2>2. TypeOK'  BY <1>0, <2>1 DEF StopGet
  <2>3. BusyInv'  BY <1>0, <2>1 DEF StopGet
  <2> QED  BY <1>1, <2>2, <2>3 DEF StopGet
<1>9. CASE \E t \in Stoppers : StopMiss(t)
  <2> PICK t \in Stoppers : StopMiss(t)  BY <1>9
  <2>1. TypeOK'  BY <1>0 DEF StopMiss
  <2>2. BusyInv'  BY <1>0 DEF StopMiss
  <2> QED  BY <1>1, <2>1, <2>2 DEF StopMiss
<1>10. CASE \E t \in Stoppers : StopDel(t)
  <2> PICK t \in Stoppers : StopDel(t)  BY <1>10
  <2>1. names' \in Seq(Pairs) /\ Sorted'  BY <1>0, EraseKeepsSorted DEF StopDel
  <2>2. ctxs' \in [Ids -> 0..MaxAlloc]  BY <1>0 DEF StopDel
  <2>3. TypeOK'  BY <1>0, <2>1, <2>2 DEF StopDel, Pairs
  <2>4. BusyInv'  BY <1>0 DEF StopDel
  <2> QED  BY <2>1, <2>3, <2>4 DEF BaseInv, NameInv
<1>11. CASE \E t \in Stoppers : StopShut(t)
  <2> PICK t \in Stoppers : StopShut(t)  BY <1>11
  <2>1. stopped' \subseteq 1..MaxAlloc  BY <1>0 DEF StopShut
  <2>2. sobj' \in [Stoppers -> 0..MaxAlloc]  BY <1>0 DEF StopShut
  <2>3. sid' \in [Stoppers -> Ids \cup {None}]  BY <1>0 DEF StopShut
  <2>4. TypeOK'  BY <1>0, <2>1, <2>2, <2>3 DEF StopShut
  <2>5. BusyInv'  BY <1>0 DEF StopShut
  <2> QED  BY <1>1, <2>4, <2>5 DEF StopShut
<1>12. CASE CollectCtxids
  <2>1. TypeOK'  BY <1>0, <1>12 DEF CollectCtxids
  <2>2. BusyInv'  BY <1>0, <1>12 DEF CollectCtxids
  <2> QED  BY <1>1, <1>12, <2>1, <2>2 DEF CollectCtxids
<1>13. CASE \E i \in Ids : ShutdownNext(i)
  <2> PICK i \in Ids : ShutdownNext(i)  BY <1>13
  <2>1. ctxs[i] # 0 => ctxs[i] \in Objs  BY <1>0
  <2>2. stopped' \subseteq Objs  BY <1>0, <2>1 DEF ShutdownNext
  <2>3. TypeOK'  BY <1>0, <2>2 DEF ShutdownNext
  <2>4. BusyInv'  BY <1>0 DEF ShutdownNext
  <2> QED  BY <1>1, <2>3, <2>4 DEF ShutdownNext
<1>14. CASE UNCHANGED vars
  BY <1>0, <1>1, <1>14 DEF vars
<1> QED
  BY <1>2, <1>3, <1>4, <1>5, <1>6, <1>7, <1>8, <1>9, <1>10, <1>11, <1>12, <1>13,
     <1>14 DEF Next

\* The manager's map, vector and its callers' local state keep their types.
THEOREM TypeCorrect == Spec => []TypeOK
<1>1. BaseInv => TypeOK  BY DEF BaseInv, NameInv
<1> QED  BY InitBase, NextBase, <1>1, PTL DEF Spec

\* find_name finds exactly what register_name put in and del_ctx left there.
THEOREM LookupExactHolds == Spec => []LookupExact
<1>1. BaseInv => LookupExact  BY SortedLookup DEF BaseInv
<1> QED  BY InitBase, NextBase, <1>1, PTL DEF Spec

-----------------------------------------------------------------------------
(* What a step does to a name *)

\* What find_name returns is in the vector, and what is in it is found.
Found ==
  \A n \in Names :
    /\ FindName(n) # None =>
         \E i \in 1..Len(names) : names[i].name = n /\ names[i].id = FindName(n)
    /\ \A i \in 1..Len(names) : names[i].name = n => FindName(n) = names[i].id

LEMMA NameFound == NameInv => Found
<1> SUFFICES ASSUME NameInv PROVE Found
  OBVIOUS
<1>1. DOMAIN names = 1..Len(names) /\ LookupExact  BY PairsTyped, SortedLookup DEF NameInv
<1>2. \A n \in Names : \A i \in 1..Len(names) : names[i].name = n => FindName(n) = names[i].id
  BY <1>1 DEF LookupExact
<1>3. ASSUME NEW n \in Names, FindName(n) # None
      PROVE  \E i \in 1..Len(names) : names[i].name = n
  BY <1>1, <1>3 DEF FindName, HasName, LowerBound
<1> QED  BY <1>2, <1>3 DEF Found

LEMMA EmplaceKeeps ==
  ASSUME NameInv, NEW n \in Names, NEW id \in Ids, EmplaceAndSort(n, id),
         NEW i \in 1..Len(names)
  PROVE  \E j \in 1..Len(names') : names'[j] = names[i]
<1>1. names \in Seq(Pairs) /\ Len(names) \in Nat  BY PairsTyped DEF NameInv
<1>2. PICK e \in Pairs : e = [name |-> n, id |-> id]  BY DEF Pairs
<1> PICK k \in 1..(Len(names) + 1) : names' = InsertAt(names, k, e)
  BY <1>2 DEF EmplaceAndSort
<1>3. Len(names') = Len(names) + 1  BY <1>1, InsertAtProps
<1>4. \A j \in 1..(k - 1) : names'[j] = names[j]  BY <1>1, InsertAtProps
<1>5. \A j \in k..Len(names) : names'[j + 1] = names[j]  BY <1>1, InsertAtProps
<1>6. CASE i < k
  <2>1. i \in 1..(k - 1) /\ i \in 1..Len(names')  BY <1>1, <1>3, <1>6
  <2> QED  BY <1>4, <2>1
<1>7. CASE ~(i < k)
  <2>1. i \in k..Len(names) /\ i + 1 \in 1..Len(names')  BY <1>1, <1>3, <1>7
  <2> QED  BY <1>5, <2>1
<1> QED  BY <1>6, <1>7

\* A pair stays, or it is the erased one and its name occurs no more.
LEMMA EraseKeeps ==
  ASSUME NameInv, NEW id, EraseFirst(id), NEW i \in 1..Len(names)
  PROVE  \/ \E j \in 1..Len(names') : names'[j] = names[i]
         \/ /\ names[i].id = id
            /\ \A j \in 1..Len(names') : names'[j].name # names[i].name
<1>1. /\ names \in Seq(Pairs) /\ Len(names) \in Nat /\ DOMAIN names = 1..Len(names)
      /\ \A u \in 1..Len(names) : names[u].name \in Int
  BY PairsTyped DEF NameInv
<1>2. CASE UNCHANGED names  BY <1>2
<1>3. ASSUME NEW k \in 1..Len(names), names[k].id = id, names' = RemoveAt(names, k)
      PROVE  \/ \E j \in 1..Len(names') : names'[j] = names[i]
             \/ /\ names[i].id = id
                /\ \A j \in 1..Len(names') : names'[j].name # names[i].name
  <2>1. /\ Len(names') = Len(names) - 1
        /\ \A j \in 1..(Len(names) - 1) :
             names'[j] = IF j < k THEN names[j] ELSE names[j + 1]
    BY <1>1, <1>3, RemoveAtProps
  <2>2. CASE i < k
    <3>1. i \in 1..(Len(names) - 1)  BY <1>1, <2>2
    <3> QED  BY <2>1, <2>2, <3>1
  <2>3. CASE i > k
    <3>1. i - 1 \in 1..(Len(names) - 1) /\ ~(i - 1 < k) /\ (i - 1) + 1 = i
      BY <1>1, <2>3
    <3>2. names'[i - 1] = names[(i - 1) + 1]  BY <2>1, <3>1
    <3> QED  BY <2>1, <3>1, <3>2
  <2>4. CASE i = k
    <3>1. \A u, v \in 1..Len(names) : u < v => names[u].name < names[v].name
      BY <1>1 DEF NameInv, Sorted
    <3>2. \A u \in 1..Len(names) : u # i => names[u].name # names[i].name
      BY <1>1, <3>1
    <3>3. ASSUME NEW j \in 1..(Len(names) - 1)
          PROVE  \E u \in 1..Len(names) : u # i /\ names'[j] = names[u]
      <4>1. CASE j < k
        <5>1. j \in 1..Len(names) /\ j # i  BY <1>1, <2>4, <4>1
        <5> QED  BY <2>1, <4>1, <5>1
      <4>2. CASE ~(j < k)
        <5>1. j + 1 \in 1..Len(names) /\ j + 1 # i  BY <1>1, <2>4, <4>2
        <5> QED  BY <2>1, <4>2, <5>1
      <4> QED  BY <4>1, <4>2
    <3> QED  BY <1>3, <2>1, <2>4, <3>2, <3>3
  <2> QED  BY <2>2, <2>3, <2>4
<1> QED  BY <1>1, <1>2, <1>3 DEF EraseFirst

\* A name changes hands only through the removal of its owner, for any threads
\* that register names and stop contexts, also when ids wrap round.
THEOREM NamesKeptHolds == Spec => NamesKept
<1> DEFINE Kept == \A n \in Names : FindName(n) # None =>
                     \/ FindName(n)' = FindName(n)
                     \/ FindName(n)' = None /\ ctxs'[FindName(n)] = 0
<1>1. ASSUME BaseInv, BaseInv', Next PROVE Kept
  <2> SUFFICES ASSUME NEW n \in Names, FindName(n) # None
               PROVE  \/ FindName(n)' = FindName(n)
                      \/ FindName(n)' = None /\ ctxs'[FindName(n)] = 0
    OBVIOUS
  <2>0. NameInv /\ NameInv' /\ TypeOK /\ BusyInv  BY <1>1 DEF BaseInv, NameInv
  <2>1. PICK i \in 1..Len(names) : names[i].name = n /\ names[i].id = FindName(n)
    BY <2>0, NameFound DEF Found
  <2>2. /\ FindName(n)' # None =>
             \E j \in 1..Len(names') : names'[j].name = n /\ names'[j].id = FindName(n)'
        /\ \A j \in 1..Len(names') : names'[j].name = n => FindName(n)' = names'[j].id
    <3>1. Found'  BY <2>0, NameFound, PTL
    <3> QED  BY <3>1 DEF Found
  <2>3. ASSUME NEW j \in 1..Len(names'), names'[j] = names[i]
        PROVE  FindName(n)' = FindName(n)
    BY <2>1, <2>2, <2>3
  <2>4. CASE UNCHANGED names
    BY <2>1, <2>3, <2>4
  <2>5. ASSUME NEW t \in Makers, NEW m \in Names, RegisterName(t, m)
        PROVE  FindName(n)' = FindName(n)
    <3>1. IdOf(mobj[t]) \in Ids  BY <2>0, IdOfType DEF TypeOK
    <3> QED  BY <2>0, <2>3, <2>5, <3>1, EmplaceKeeps DEF RegisterName
  <2>6. ASSUME NEW t \in Stoppers, StopDel(t)
        PROVE  \/ FindName(n)' = FindName(n)
               \/ FindName(n)' = None /\ ctxs'[FindName(n)] = 0
    <3>1. sid[t] \in Ids /\ ctxs'[sid[t]] = 0  BY <2>0, <2>6 DEF StopDel, BusyInv, TypeOK
    <3>2. EraseFirst(sid[t])  BY <2>6 DEF StopDel
    <3> QED  BY <2>0, <2>1, <2>2, <2>3, <3>1, <3>2, EraseKeeps
  <2> QED
    BY <1>1, <2>4, <2>5, <2>6 DEF Next, NewId, InitFails, AddCtx, StopByName, StopById,
       StopGet, StopMiss, StopShut, CollectCtxids, ShutdownNext
<1>2. BaseInv /\ BaseInv' /\ [Next]_vars => [Kept]_vars
  <2> HIDE DEF Kept
  <2> QED  BY <1>1
<1> QED  BY <1>2, InitBase, NextBase, PTL DEF Spec, NamesKept

-----------------------------------------------------------------------------
(* The map: contexts that share their id with no other *)

FreshInv ==
  /\ added \subseteq 1..allocid
  /\ \A t \in Makers : mpc[t] = "init" => mobj[t] \notin added
  /\ \A t, u \in Makers :
       t # u /\ mpc[t] = "init" /\ mpc[u] = "init" => mobj[t] # mobj[u]

OwnInv ==
  /\ \A i \in Ids : ctxs[i] # 0 => IdOf(ctxs[i]) = i /\ ctxs[i] \in added
  /\ \A t \in Stoppers :
       spc[t] \in {"del", "shut"} => IdOf(sobj[t]) = sid[t] /\ sobj[t] \in added

LoopInv ==
  clpc = "loop" =>
    \A o \in snapshot :
      o \in added /\ (Unique(o) => IdOf(o) \in clids \/ o \in stopped \/ Ending(o))

MapInv == BaseInv /\ FreshInv /\ OwnInv /\ NoZombie /\ LoopInv

LEMMA InitMap == Init => MapInv
BY InitBase DEF Init, MapInv, FreshInv, OwnInv, NoZombie, LoopInv

\* Two contexts that have the same id are a whole round of ids apart.
LEMMA SameIdApart ==
  ASSUME NEW o \in Nat, NEW p \in Nat, IdOf(o) = IdOf(p), o # p
  PROVE  p + IdMod <= o \/ o + IdMod <= p
<1>1. IdMod \in Nat \ {0}  BY MgrAssumption
<1> DEFINE q == o \div IdMod
           v == p \div IdMod
           r == o % IdMod
<1>2. q \in Int /\ v \in Int /\ r \in Int /\ r = p % IdMod
  BY <1>1 DEF IdOf
<1>21. o % IdMod = o - IdMod * (o \div IdMod)  BY <1>1
<1>22. p % IdMod = p - IdMod * (p \div IdMod)  BY <1>1
<1>3. r = o - IdMod * q /\ r = p - IdMod * v /\ q \in Int /\ v \in Int /\ r \in Int
  BY <1>2, <1>21, <1>22
<1> HIDE DEF q, v, r
<1>4. CASE q < v
  <2>1. IdMod * (q + 1) <= IdMod * v  BY <1>1, <1>3, <1>4
  <2>2. IdMod * (q + 1) = IdMod * q + IdMod  BY <1>1, <1>3
  <2> QED  BY <1>1, <1>3, <2>1, <2>2
<1>5. CASE v < q
  <2>1. IdMod * (v + 1) <= IdMod * q  BY <1>1, <1>3, <1>5
  <2>2. IdMod * (v + 1) = IdMod * v + IdMod  BY <1>1, <1>3
  <2> QED  BY <1>1, <1>3, <2>1, <2>2
<1>6. q # v
  <2> SUFFICES ASSUME q = v PROVE FALSE
    OBVIOUS
  <2>1. o - IdMod * q = p - IdMod * q  BY <1>3
  <2>2. IdMod * q \in Int  BY <1>1, <1>3
  <2> QED  BY <2>1, <2>2
<1> QED  BY <1>3, <1>4, <1>5, <1>6

\* A context about to be added is none of those in the map.
LEMMA NewInMap ==
  ASSUME MapInv, NEW t \in Makers, mpc[t] = "init"
  PROVE  /\ mobj[t] \in 1..allocid /\ mobj[t] \in Objs /\ mobj[t] \notin added
         /\ mobj[t] # 0 /\ IdOf(mobj[t]) \in Ids
<1>1. mobj[t] \in 1..allocid /\ allocid \in 0..MaxAlloc /\ mobj[t] \notin added
  BY DEF MapInv, BaseInv, BusyInv, NameInv, TypeOK, FreshInv
<1>2. mobj[t] \in 1..MaxAlloc  BY <1>1, MgrAssumption
<1> QED  BY <1>1, <1>2, IdOfType DEF Objs

LEMMA NextMap == MapInv /\ [Next]_vars => MapInv'
<1> SUFFICES ASSUME MapInv, [Next]_vars PROVE MapInv'
  OBVIOUS
<1>0. /\ TypeOK /\ BusyInv /\ BaseInv /\ FreshInv /\ OwnInv /\ NoZombie /\ LoopInv
      /\ BaseInv'
  BY NextBase DEF MapInv, BaseInv, NameInv
<1>1. ASSUME FreshInv', OwnInv', NoZombie', LoopInv' PROVE MapInv'
  BY <1>0, <1>1 DEF MapInv
<1> USE DEF maker, stopper, closer
<1>2. CASE \E t \in Makers : NewId(t)
  <2> PICK t \in Makers : NewId(t)  BY <1>2
  <2>1. allocid \in Nat  BY <1>0, MgrAssumption DEF TypeOK
  <2>2. allocid + 1 \notin 1..allocid  BY <2>1
  <2>3. FreshInv'
    <3>1. added' \subseteq 1..allocid'  BY <1>0, <2>1 DEF NewId, FreshInv
    <3>2. \A u \in Makers : mobj'[u] = IF u = t THEN allocid + 1 ELSE mobj[u]
      BY <1>0 DEF NewId, TypeOK
    <3>3. \A u \in Makers : u # t => mpc'[u] = mpc[u]
      BY <1>0 DEF NewId, TypeOK
    <3>4. allocid + 1 \notin added  BY <1>0, <2>2 DEF FreshInv
    <3>5. \A u \in Makers : mpc[u] = "init" => mobj[u] # allocid + 1
      BY <1>0, <2>2 DEF BusyInv
    <3>6. \A u \in Makers : mpc'[u] = "init" => mobj'[u] \notin added'
      BY <1>0, <3>2, <3>3, <3>4 DEF NewId, FreshInv
    <3>7. \A u, v \in Makers :
            u # v /\ mpc'[u] = "init" /\ mpc'[v] = "init" => mobj'[u] # mobj'[v]
      BY <1>0, <3>2, <3>3, <3>5 DEF FreshInv
    <3> QED  BY <3>1, <3>6, <3>7 DEF FreshInv
  <2>4. \A o : Unique(o)' => Unique(o)  BY <2>1 DEF NewId, Unique
  <2>5. OwnInv' /\ NoZombie' /\ LoopInv'
    BY <1>0, <2>4 DEF NewId, OwnInv, NoZombie, LoopInv, Ending
  <2> QED  BY <1>1, <2>3, <2>5
<1>3. CASE \E t \in Makers, n \in Names : RegisterName(t, n)
  <2> PICK t \in Makers, n \in Names : RegisterName(t, n)  BY <1>3
  <2> QED
    BY <1>0, <1>1
    DEF RegisterName, FreshInv, OwnInv, NoZombie, LoopInv, Ending, Unique
<1>4. CASE \E t \in Makers : InitFails(t)
  <2> PICK t \in Makers : InitFails(t)  BY <1>4
  <2>1. FreshInv'  BY <1>0 DEF InitFails, FreshInv, TypeOK
  <2>2. OwnInv' /\ NoZombie' /\ LoopInv'
    BY <1>0 DEF InitFails, OwnInv, NoZombie, LoopInv, Ending, Unique
  <2> QED  BY <1>1, <2>1, <2>2
<1>5. CASE \E t \in Makers : AddCtx(t)
  <2> PICK t \in Makers : AddCtx(t)  BY <1>5
  <2> DEFINE o == mobj[t]
  <2>1. /\ o \in Objs /\ o \in 1..allocid /\ o # 0 /\ o \notin added
        /\ IdOf(o) \in Ids
    BY NewInMap DEF AddCtx
  <2>2. \A i \in Ids : ctxs'[i] = IF i = IdOf(o) /\ ctxs[i] = 0 THEN o ELSE ctxs[i]
    BY <1>0, <2>1 DEF AddCtx, TypeOK
  <2>3. added' = added \cup {o}  BY DEF AddCtx
  <2>4. FreshInv'
    <3>1. added' \subseteq 1..allocid'  BY <1>0, <2>1 DEF AddCtx, FreshInv
    <3>2. \A u \in Makers : mpc'[u] = "init" => u # t /\ mpc[u] = "init"
                                               /\ mobj'[u] = mobj[u]
      BY <1>0 DEF AddCtx, TypeOK
    <3>3. mpc[t] = "init"  BY DEF AddCtx
    <3> QED  BY <1>0, <2>3, <3>1, <3>2, <3>3 DEF FreshInv
  <2>5. OwnInv'  BY <1>0, <2>2, <2>3 DEF AddCtx, OwnInv
  <2>6. NoZombie'
    <3> SUFFICES ASSUME NEW p \in added', Unique(p)
                 PROVE  ctxs'[IdOf(p)] = p \/ p \in stopped \/ Ending(p)
      BY DEF NoZombie, Unique, Ending, AddCtx
    <3>1. CASE p = o
      <4>1. ctxs[IdOf(o)] = 0  BY <1>0, <2>1, <3>1 DEF OwnInv, FreshInv, Unique
      <4> QED  BY <2>1, <2>2, <3>1, <4>1
    <3>2. CASE p # o
      <4>1. IdOf(p) # IdOf(o) /\ p \in added  BY <2>1, <2>3, <3>2 DEF Unique
      <4>2. IdOf(p) \in Ids  BY <1>0, <4>1, IdOfType DEF TypeOK, Objs
      <4> QED  BY <1>0, <2>2, <4>1, <4>2 DEF NoZombie
    <3> QED  BY <3>1, <3>2
  <2>7. LoopInv'  BY <1>0, <2>3 DEF AddCtx, LoopInv, Ending, Unique
  <2> QED  BY <1>1, <2>4, <2>5, <2>6, <2>7
<1>6. CASE \E t \in Stoppers, n \in Names : StopByName(t, n)
  <2> PICK t \in Stoppers, n \in Names : StopByName(t, n)  BY <1>6
  <2>1. \A u \in Stoppers : spc'[u] \in {"del", "shut"} =>
           u # t /\ spc'[u] = spc[u] /\ sid'[u] = sid[u] /\ sobj'[u] = sobj[u]
    BY <1>0 DEF StopByName, TypeOK
  <2>2. \A p : Ending(p) => Ending(p)'
    BY <1>0 DEF StopByName, Ending, TypeOK
  <2>3. FreshInv' /\ OwnInv'  BY <1>0, <2>1 DEF StopByName, FreshInv, OwnInv
  <2>4. NoZombie' /\ LoopInv'  BY <1>0, <2>2 DEF StopByName, NoZombie, LoopInv, Unique
  <2> QED  BY <1>1, <2>3, <2>4
<1>7. CASE \E t \in Stoppers, i \in Ids : StopById(t, i)
  <2> PICK t \in Stoppers, i \in Ids : StopById(t, i)  BY <1>7
  <2>1. \A u \in Stoppers : spc'[u] \in {"del", "shut"} =>
           u # t /\ spc'[u] = spc[u] /\ sid'[u] = sid[u] /\ sobj'[u] = sobj[u]
    BY <1>0 DEF StopById, TypeOK
  <2>2. \A p : Ending(p) => Ending(p)'
    BY <1>0 DEF StopById, Ending, TypeOK
  <2>3. FreshInv' /\ OwnInv'  BY <1>0, <2>1 DEF StopById, FreshInv, OwnInv
  <2>4. NoZombie' /\ LoopInv'  BY <1>0, <2>2 DEF StopById, NoZombie, LoopInv, Unique
  <2> QED  BY <1>1, <2>3, <2>4
<1>8. CASE \E t \in Stoppers : StopGet(t)
  <2> PICK t \in Stoppers : StopGet(t)  BY <1>8
  <2>1. /\ sid[t] \in Ids /\ IdOf(ctxs[sid[t]]) = sid[t]
        /\ ctxs[sid[t]] \in added
    BY <1>0 DEF StopGet, BusyInv, OwnInv
  <2>2. \A u \in Stoppers :
          /\ sid'[u] = sid[u]
          /\ sobj'[u] = IF u = t THEN ctxs[sid[t]] ELSE sobj[u]
          /\ u # t => spc'[u] = spc[u]
    BY <1>0, <2>1 DEF StopGet, TypeOK
  <2>3. FreshInv' /\ OwnInv'
    BY <1>0, <2>1, <2>2 DEF StopGet, FreshInv, OwnInv
  <2>4. \A p : Ending(p) => Ending(p)'  BY <2>2 DEF StopGet, Ending
  <2>5. NoZombie' /\ LoopInv'  BY <1>0, <2>4 DEF StopGet, NoZombie, LoopInv, Unique
  <2> QED  BY <1>1, <2>3, <2>5
<1>9. CASE \E t \in Stoppers : StopMiss(t)
  <2> PICK t \in Stoppers : StopMiss(t)  BY <1>9
  <2>1. \A u \in Stoppers : spc'[u] \in {"del", "shut"} =>
           u # t /\ spc'[u] = spc[u] /\ sid'[u] = sid[u] /\ sobj'[u] = sobj[u]
    BY <1>0 DEF StopMiss, TypeOK
  <2>2. \A p : Ending(p) => Ending(p)'
    BY <1>0 DEF StopMiss, Ending, TypeOK
  <2>3. FreshInv' /\ OwnInv'  BY <1>0, <2>1 DEF StopMiss, FreshInv, OwnInv
  <2>4. NoZombie' /\ LoopInv'  BY <1>0, <2>2 DEF StopMiss, NoZombie, LoopInv, Unique
  <2> QED  BY <1>1, <2>3, <2>4
<1>10. CASE \E t \in Stoppers : StopDel(t)
  <2> PICK t \in Stoppers : StopDel(t)  BY <1>10
  <2>1. /\ IdOf(sobj[t]) = sid[t] /\ sobj[t] \in added
        /\ sid[t] \in Ids /\ spc[t] = "del"
    BY <1>0 DEF StopDel, OwnInv, BusyInv
  <2>2. \A i \in Ids : ctxs'[i] = IF i = sid[t] THEN 0 ELSE ctxs[i]
    BY <1>0, <2>1 DEF StopDel, TypeOK
  <2>3. \A u \in Stoppers :
          /\ sid'[u] = sid[u] /\ sobj'[u] = sobj[u]
          /\ spc'[u] = IF u = t THEN "shut" ELSE spc[u]
    BY <1>0 DEF StopDel, TypeOK
  <2>4. FreshInv'  BY <1>0 DEF StopDel, FreshInv
  <2>5. OwnInv'  BY <1>0, <2>1, <2>2, <2>3 DEF StopDel, OwnInv
  <2>6. \A p : Ending(p) => Ending(p)'  BY <2>1, <2>3 DEF Ending
  <2>8. NoZombie'
    <3> SUFFICES ASSUME NEW p \in added, Unique(p)
                 PROVE  ctxs'[IdOf(p)] = p \/ p \in stopped \/ Ending(p)'
      BY DEF StopDel, NoZombie, Unique
    <3>2. CASE IdOf(p) = sid[t]
      <4>1. sobj[t] = p  BY <1>0, <2>1, <3>2 DEF FreshInv, Unique
      <4> QED  BY <2>3, <4>1 DEF Ending
    <3>3. CASE IdOf(p) # sid[t]
      <4>1. IdOf(p) \in Ids  BY <1>0, IdOfType DEF TypeOK, Objs
      <4> QED  BY <1>0, <2>2, <2>6, <3>3, <4>1 DEF NoZombie
    <3> QED  BY <3>2, <3>3
  <2>9. LoopInv'  BY <1>0, <2>6 DEF StopDel, LoopInv, Unique
  <2> QED  BY <1>1, <2>4, <2>5, <2>8, <2>9
<1>11. CASE \E t \in Stoppers : StopShut(t)
  <2> PICK t \in Stoppers : StopShut(t)  BY <1>11
  <2>1. stopped' = stopped \cup {sobj[t]} /\ spc[t] = "shut"  BY DEF StopShut
  <2>2. \A u \in Stoppers :
          /\ u # t => spc'[u] = spc[u] /\ sid'[u] = sid[u] /\ sobj'[u] = sobj[u]
          /\ u = t => spc'[u] = "idle"
    BY <1>0 DEF StopShut, TypeOK
  <2>3. \A p : Ending(p) => Ending(p)' \/ p \in stopped'
    BY <2>1, <2>2 DEF Ending
  <2>4. FreshInv' /\ OwnInv'  BY <1>0, <2>2 DEF StopShut, FreshInv, OwnInv
  <2>5. NoZombie'  BY <1>0, <2>1, <2>3 DEF StopShut, NoZombie, Unique
  <2>6. LoopInv'  BY <1>0, <2>1, <2>3 DEF StopShut, LoopInv, Unique
  <2> QED  BY <1>1, <2>4, <2>5, <2>6
<1>12. CASE CollectCtxids
  <2>1. FreshInv' /\ OwnInv' /\ NoZombie'
    BY <1>0, <1>12 DEF CollectCtxids, FreshInv, OwnInv, NoZombie, Ending, Unique
  <2>2. LoopInv'
    BY <1>0, <1>12 DEF CollectCtxids, OwnInv, LoopInv
  <2> QED  BY <1>1, <2>1, <2>2
<1>13. CASE \E i \in Ids : ShutdownNext(i)
  <2> PICK i \in Ids : ShutdownNext(i)  BY <1>13
  <2>1. \A p : Ending(p)' = Ending(p)  BY DEF ShutdownNext, Ending
  <2>2. stopped \subseteq stopped'  BY DEF ShutdownNext
  <2>3. ASSUME NEW p \in added, Unique(p), IdOf(p) = i
        PROVE  p \in stopped' \/ Ending(p)
    <3>1. CASE ctxs[i] = 0
      <4>1. p # 0  BY <1>0, MgrAssumption DEF TypeOK, Objs
      <4> QED  BY <1>0, <2>2, <2>3, <3>1, <4>1 DEF NoZombie
    <3>2. CASE ctxs[i] # 0
      BY <1>0, <2>3, <3>2 DEF OwnInv, FreshInv, Unique, ShutdownNext
    <3> QED  BY <3>1, <3>2
  <2>4. FreshInv' /\ OwnInv'  BY <1>0 DEF ShutdownNext, FreshInv, OwnInv
  <2>5. NoZombie'  BY <1>0, <2>1, <2>2 DEF ShutdownNext, NoZombie, Unique
  <2>6. LoopInv'  BY <1>0, <2>1, <2>2, <2>3 DEF ShutdownNext, LoopInv, Unique
  <2> QED  BY <1>1, <2>4, <2>5, <2>6
<1>14. CASE UNCHANGED vars
  BY <1>0, <1>1, <1>14
  DEF vars, FreshInv, OwnInv, NoZombie, LoopInv, Ending, Unique
<1> QED
  BY <1>2, <1>3, <1>4, <1>5, <1>6, <1>7, <1>8, <1>9, <1>10, <1>11, <1>12, <1>13,
     <1>14 DEF Next

\* stop_ctx, however its callers interleave: a context taken out of the map is
\* shut down or is about to be, until another context is given its id.
THEOREM NoZombieHolds == Spec => []NoZombie
<1>1. MapInv => NoZombie  BY DEF MapInv
<1> QED  BY InitMap, NextMap, <1>1, PTL DEF Spec

\* The loop at the end of cqy_app::start shuts down every context that was
\* there when it began, whatever stop_ctx does meanwhile, unless another context
\* was given the same id.
THEOREM ShutdownReachesAllHolds == Spec => []ShutdownReachesAll
<1>1. MapInv => ShutdownReachesAll
  BY DEF MapInv, LoopInv, ShutdownReachesAll
<1> QED  BY InitMap, NextMap, <1>1, PTL DEF Spec

\* The assertion in add_ctx fails only if a context created a whole round of
\* ids earlier or later is still in the map: creating and stopping contexts in
\* any order never makes it fail sooner.
THEOREM ClashOnlyAfterWrapHolds == Spec => ClashOnlyAfterWrap
<1> DEFINE A == \A t \in Makers : AddCtx(t) =>
                  LET o == mobj[t]
                      p == ctxs'[IdOf(o)]
                  IN  p = o \/ p + IdMod <= o \/ o + IdMod <= p
<1>1. MapInv /\ [Next]_vars => [A]_vars
  <2> SUFFICES ASSUME MapInv, NEW t \in Makers, AddCtx(t)
               PROVE  LET o == mobj[t]
                          p == ctxs'[IdOf(o)]
                      IN  p = o \/ p + IdMod <= o \/ o + IdMod <= p
    OBVIOUS
  <2> DEFINE o == mobj[t]
             p == ctxs[IdOf(o)]
  <2>1. o \in 1..allocid /\ o \in Objs /\ o \notin added /\ IdOf(o) \in Ids
    BY NewInMap DEF AddCtx
  <2>2. ctxs \in [Ids -> 0..MaxAlloc]  BY DEF MapInv, BaseInv, NameInv, TypeOK
  <2>3. ctxs'[IdOf(o)] = IF p = 0 THEN o ELSE p  BY <2>1, <2>2 DEF AddCtx
  <2>4. o \in Nat /\ p \in Nat  BY <2>1, <2>2, MgrAssumption DEF Objs
  <2>5. p # 0 => IdOf(p) = IdOf(o) /\ p # o
    BY <2>1 DEF MapInv, OwnInv
  <2>6. p # 0 => p + IdMod <= o \/ o + IdMod <= p
    BY <2>4, <2>5, SameIdApart
  <2> QED  BY <2>3, <2>6
<1> HIDE DEF A
<1>3. Spec => [][A]_vars  BY InitMap, <1>1, NextMap, PTL DEF Spec
<1> QED  BY <1>3 DEF ClashOnlyAfterWrap, A

=============================================================================
