----------------------------- MODULE EntityStore -----------------------------
(***************************************************************************)
(* What a user of entity_mgr_t may rely on: create returns an id that was    *)
(* never used and has no components, components belong to the entity they    *)
(* were added to, and destroy takes them all away for good.                  *)
(***************************************************************************)
EXTENDS Integers

CONSTANTS Ids, Kinds

VARIABLES used, live, comps

store == <<used, live, comps>>

Init == used = {} /\ live = {} /\ comps = {}

Create(e) ==
  /\ e \in Ids \ used
  /\ used' = used \cup {e} /\ live' = live \cup {e}
  /\ UNCHANGED comps

Add(e, k) ==
  /\ e \in live
  /\ comps' = comps \cup {<<e, k>>}
  /\ UNCHANGED <<used, live>>

Destroy(e) ==
  /\ e \in live
  /\ live' = live \ {e}
  /\ comps' = {c \in comps : c[1] # e}
  /\ UNCHANGED used

Next == \E e \in Ids : Create(e) \/ Destroy(e) \/ \E k \in Kinds : Add(e, k)

Spec == Init /\ [][Next]_store

=============================================================================
