------------------------------ MODULE EntityMgr ------------------------------
(***************************************************************************)
(* entity_mgr_t (example/entity.h, example/entity.cpp): entities are an      *)
(* index and a version; destroyed indices are used again through a free      *)
(* list, and every component type has a pool with one slot per index.        *)
(*                                                                         *)
(* The manager belongs to one scene of one context, so calls do not overlap. *)
(* Callers keep the ids they were given for as long as they like.            *)
(***************************************************************************)
EXTENDS Integers, Sequences, FiniteSets

CONSTANTS
  NumKinds,   \* number of component types
  MaxIdx,     \* bound on the indices
  MaxVer,     \* bound on the versions
  VerMod,     \* versions are counted modulo this, 2^32
  StaleAdds   \* callers add components through ids of destroyed entities

ASSUME EntityAssumption ==
  /\ NumKinds \in Nat /\ MaxIdx \in Nat /\ MaxVer \in Nat \ {0} /\ VerMod \in Nat \ {0}
  /\ StaleAdds \in BOOLEAN

Kinds == 0..(NumKinds - 1)      \* a component type is its component_id
Ids   == [idx : 0..(MaxIdx - 1), ver : 0..(VerMod - 1)]

VARIABLES
  counter,   \* index_counter_
  ver,       \* entity_version_
  free,      \* free_list_
  npools,    \* pools_.size()
  size,      \* size of the pool of each kind, -1 while there is none
  has,       \* slots that hold a component: kind, index
  issued,    \* history: ids create has returned
  dead       \* history: ids destroy has accepted

vars == <<counter, ver, free, npools, size, has, issued, dead>>

Nil == [idx |-> 0, ver |-> 0]       \* a default entity_id_t

FreeSet == {free[i] : i \in 1..Len(free)}

Init ==
  /\ counter = 0 /\ ver = << >> /\ free = << >>
  /\ npools = 0 /\ size = [k \in Kinds |-> -1] /\ has = {}
  /\ issued = {} /\ dead = {}

\* entity_version_ counts indices from 0.
VerOf(i) == ver[i + 1]

check(e) == e.idx < Len(ver) /\ VerOf(e.idx) = e.ver

\* component<T>: no check of the version.
component(e, k) == k < npools /\ size[k] # -1 /\ <<k, e.idx>> \in has

\* Variant: no test of the version.
QueryUnchecked(k, es) == {e \in es : size[k] # -1 /\ <<k, e.idx>> \in has}

\* entities_with_components<T>, of the entities es.  It reads pools_[k] without
\* the test of component: k < npools is up to the caller.
entities_with_components(k, es) ==
  {e \in es : check(e) /\ size[k] # -1 /\ <<k, e.idx>> \in has}

-----------------------------------------------------------------------------

\* Variant: the pools do not grow.
CreateNewNoResize ==
  /\ free = << >> /\ counter < MaxIdx
  /\ counter' = counter + 1
  /\ ver' = Append(ver, 1)
  /\ issued' = issued \cup {[idx |-> counter, ver |-> 1]}
  /\ UNCHANGED <<free, npools, size, has, dead>>

\* create, with no index to use again.
CreateNew ==
  /\ free = << >> /\ counter < MaxIdx
  /\ counter' = counter + 1
  /\ ver' = Append(ver, 1)
  /\ size' = [k \in Kinds |-> IF size[k] = -1 THEN -1 ELSE counter + 1]
  /\ issued' = issued \cup {[idx |-> counter, ver |-> 1]}
  /\ UNCHANGED <<free, npools, has, dead>>

\* create, with the index that was freed last.
CreateAgain ==
  LET i == free[Len(free)] IN
  /\ free # << >>
  /\ free' = SubSeq(free, 1, Len(free) - 1)
  /\ issued' = issued \cup {[idx |-> i, ver |-> VerOf(i)]}
  /\ UNCHANGED <<counter, ver, npools, size, has, dead>>

\* Variant: the version stays.
DestroySameVersion(e) ==
  /\ check(e) /\ e.ver < MaxVer
  /\ free' = Append(free, e.idx)
  /\ has' = {s \in has : ~(s[2] = e.idx /\ size[s[1]] >= e.idx)}
  /\ dead' = dead \cup {e}
  /\ UNCHANGED <<counter, ver, npools, size, issued>>

\* Variant: the components stay.
DestroyKeepsComponents(e) ==
  /\ check(e) /\ e.ver < MaxVer
  /\ ver' = [ver EXCEPT ![e.idx + 1] = (@ + 1) % VerMod]
  /\ free' = Append(free, e.idx)
  /\ dead' = dead \cup {e}
  /\ UNCHANGED <<counter, npools, size, has, issued>>

\* destroy; an id that does not check is left alone.
Destroy(e) ==
  /\ check(e) /\ e.ver < MaxVer
  /\ ver' = [ver EXCEPT ![e.idx + 1] = (@ + 1) % VerMod]
  /\ free' = Append(free, e.idx)
  /\ has' = {s \in has : ~(s[2] = e.idx /\ size[s[1]] >= e.idx)}
  /\ dead' = dead \cup {e}
  /\ UNCHANGED <<counter, npools, size, issued>>

DestroyStale(e) == ~check(e) /\ UNCHANGED vars

\* add<T>: the pool is made by the first component of its kind.
Add(e, k) ==
  /\ check(e) \/ (StaleAdds /\ e.idx < counter)
  /\ npools' = IF npools <= k THEN k + 1 ELSE npools
  /\ size' = [size EXCEPT ![k] = IF @ = -1 THEN counter ELSE @]
  /\ has' = has \cup {<<k, e.idx>>}
  /\ UNCHANGED <<counter, ver, free, issued, dead>>

Next ==
  \/ CreateNew
  \/ CreateAgain
  \/ \E e \in issued \cup {Nil} :
       Destroy(e) \/ DestroyStale(e) \/ \E k \in Kinds : Add(e, k)

Spec == Init /\ [][Next]_vars

-----------------------------------------------------------------------------
(* Properties *)

live == issued \ dead

\* Every variable keeps its type, with as many versions as indices.
TypeOK ==
  /\ counter \in 0..MaxIdx
  /\ ver \in Seq(0..(VerMod - 1)) /\ Len(ver) = counter
  /\ free \in Seq(0..(counter - 1))
  /\ npools \in 0..NumKinds
  /\ size \in [Kinds -> -1..MaxIdx]
  /\ has \subseteq Kinds \X (0..(counter - 1))
  /\ issued \subseteq Ids /\ dead \subseteq issued

\* create, add: every pool has a slot for every index, so that component and
\* add never read past its end.
PoolsCoverIndices ==
  \A k \in Kinds : size[k] # -1 => size[k] = counter /\ k < npools

\* check tells exactly the entities that were created and not destroyed; no id
\* comes back to life when its index is used again, and a default id is none.
CheckExact ==
  /\ ~check(Nil)
  /\ \A e \in issued : check(e) <=> e \in live

\* create, destroy: no two living entities share an index, and none has an
\* index that is free.
IndexOnce ==
  /\ \A d, e \in live : d.idx = e.idx => d = e
  /\ \A e \in live : e.idx \notin FreeSet
  /\ \A i, j \in 1..Len(free) : free[i] = free[j] => i = j

\* entities_with_components finds the living entities with the component, also
\* among ids that are stale.
QueryExact ==
  \A k \in Kinds : k < npools =>
    entities_with_components(k, issued \cup {Nil}) = {e \in live : component(e, k)}

\* As users see it, through component, the manager is the abstract store: no
\* entity inherits a component of the one that had its index before.
Store == INSTANCE EntityStore WITH
  used <- issued,
  live <- live,
  comps <- {p \in live \X Kinds : component(p[1], p[2])}

ImplementsStore == Store!Spec

=============================================================================
