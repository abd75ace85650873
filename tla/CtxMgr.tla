------------------------------- MODULE CtxMgr --------------------------------
(***************************************************************************)
(* cqy_ctx_mgr (src/cqy_ctx_mgr.cpp) as cqy_app uses it: create_ctx and     *)
(* stop_ctx run on any thread, each of their calls into the manager takes   *)
(* the manager's lock by itself, and the shutdown loop at the end of        *)
(* cqy_app::start walks the contexts.  A context is identified by the       *)
(* number of its allocation; its handle is that number masked to the width  *)
(* of cqy_handle_t::set_ctxid.  Names are numbers, ordered like the strings.*)
(***************************************************************************)
EXTENDS Integers, SequencesExt

CONSTANTS
  Makers,       \* threads that call create_ctx
  Stoppers,     \* threads that call stop_ctx
  Names,        \* context names
  MaxAlloc,     \* bound on the contexts created
  IdMod,        \* number of context ids, 2^24 in the code
  NamesPerCtx,  \* bound on the names one on_init registers
  None          \* no id

Objs == 1..MaxAlloc
Ids  == 0..(IdMod - 1)

ASSUME MgrAssumption ==
  /\ MaxAlloc \in Nat /\ IdMod \in Nat \ {0} /\ NamesPerCtx \in Nat
  /\ Names \subseteq Int /\ None \notin Ids

VARIABLES
  allocid,   \* contexts allocated so far
  ctxs,      \* the map from id to context, 0 where there is none
  names,     \* the vector of (name, id) pairs
  mpc, mobj, mcount,   \* makers: next step, context, names registered
  spc, sid, sobj,      \* stoppers: next step, id, context
  clpc, clids,         \* shutdown loop: next step, ids still to visit
  stopped,   \* contexts whose mailbox was shut down
  added,     \* history: contexts passed to add_ctx
  snapshot   \* history: contexts in the map when the shutdown loop began

maker   == <<mpc, mobj, mcount>>
stopper == <<spc, sid, sobj>>
closer  == <<clpc, clids, snapshot>>
vars == <<allocid, ctxs, names, maker, stopper, closer, stopped, added>>

\* Variant: one bit of the id is lost.
IdOfNarrow(o) == o % (IdMod \div 2)

\* cqy_handle_t::set_ctxid keeps the low bits.
IdOf(o) == o % IdMod

Init ==
  /\ allocid = 0 /\ ctxs = [i \in Ids |-> 0] /\ names = <<>>
  /\ mpc = [t \in Makers |-> "idle"] /\ mobj = [t \in Makers |-> 0]
  /\ mcount = [t \in Makers |-> 0]
  /\ spc = [t \in Stoppers |-> "idle"] /\ sid = [t \in Stoppers |-> None]
  /\ sobj = [t \in Stoppers |-> 0]
  /\ clpc = "idle" /\ clids = {}
  /\ stopped = {} /\ added = {} /\ snapshot = {}

-----------------------------------------------------------------------------
(* The vector of names *)

\* lower_bound: the first pair whose name is not less than n.
LowerBound(n) ==
  {i \in DOMAIN names :
     names[i].name >= n /\ \A j \in 1..(i - 1) : names[j].name < n}

\* Variant: a name is never found to exist.
HasNameNever(n) == FALSE

\* binary_search
HasName(n) == \E i \in LowerBound(n) : names[i].name = n

FindName(n) ==
  IF HasName(n) THEN names[CHOOSE i \in LowerBound(n) : TRUE].id ELSE None

\* emplace_back and sort: the pair goes where the order of the names wants it.
EmplaceAndSort(n, id) ==
  \E k \in 1..(Len(names) + 1) :
    /\ \A j \in 1..(k - 1) : names[j].name < n
    /\ \A j \in k..Len(names) : n <= names[j].name
    /\ names' = InsertAt(names, k, [name |-> n, id |-> id])

\* Variant: without the test for the end, the last pair goes if none matches.
EraseFirstUnchecked(id) ==
  \/ \E k \in DOMAIN names :
       /\ \/ names[k].id = id
          \/ k = Len(names) /\ \A j \in DOMAIN names : names[j].id # id
       /\ \A j \in 1..(k - 1) : names[j].id # id
       /\ names' = RemoveAt(names, k)
  \/ names = <<>> /\ UNCHANGED names

\* find and erase: the first pair that has the id, if any.
EraseFirst(id) ==
  \/ \E k \in DOMAIN names :
       /\ names[k].id = id /\ \A j \in 1..(k - 1) : names[j].id # id
       /\ names' = RemoveAt(names, k)
  \/ /\ \A k \in DOMAIN names : names[k].id # id
     /\ UNCHANGED names

-----------------------------------------------------------------------------
(* create_ctx *)

\* new_id (an atomic fetch_add) and attach_init.
NewId(t) ==
  /\ mpc[t] = "idle" /\ allocid < MaxAlloc
  /\ allocid' = allocid + 1
  /\ mobj' = [mobj EXCEPT ![t] = allocid + 1]
  /\ mpc' = [mpc EXCEPT ![t] = "init"]
  /\ UNCHANGED <<ctxs, names, mcount, stopper, closer, stopped, added>>

\* on_init registers a name nobody has.
RegisterName(t, n) ==
  /\ mpc[t] = "init" /\ mcount[t] < NamesPerCtx /\ ~HasName(n)
  /\ EmplaceAndSort(n, IdOf(mobj[t]))
  /\ mcount' = [mcount EXCEPT ![t] = @ + 1]
  /\ UNCHANGED <<allocid, ctxs, mpc, mobj, stopper, closer, stopped, added>>

\* on_init returns false, or register_name throws out of it ("name already
\* exists"): create_ctx ends, names registered so far stay.
InitFails(t) ==
  /\ mpc[t] = "init" /\ mpc' = [mpc EXCEPT ![t] = "idle"]
  /\ mobj' = [mobj EXCEPT ![t] = 0] /\ mcount' = [mcount EXCEPT ![t] = 0]
  /\ UNCHANGED <<allocid, ctxs, names, stopper, closer, stopped, added>>

\* on_init returned true: add_ctx, whose try_emplace keeps an old entry.
AddCtx(t) ==
  /\ mpc[t] = "init"
  /\ ctxs' = [ctxs EXCEPT ![IdOf(mobj[t])] = IF @ = 0 THEN mobj[t] ELSE @]
  /\ added' = added \cup {mobj[t]}
  /\ mpc' = [mpc EXCEPT ![t] = "idle"]
  /\ mobj' = [mobj EXCEPT ![t] = 0] /\ mcount' = [mcount EXCEPT ![t] = 0]
  /\ UNCHANGED <<allocid, names, stopper, closer, stopped>>

-----------------------------------------------------------------------------
(* stop_ctx, by name and by id *)

StopByName(t, n) ==
  /\ spc[t] = "idle" /\ FindName(n) # None
  /\ sid' = [sid EXCEPT ![t] = FindName(n)]
  /\ spc' = [spc EXCEPT ![t] = "get"]
  /\ UNCHANGED <<allocid, ctxs, names, maker, sobj, closer, stopped, added>>

StopById(t, i) ==
  /\ spc[t] = "idle"
  /\ sid' = [sid EXCEPT ![t] = i]
  /\ spc' = [spc EXCEPT ![t] = "get"]
  /\ UNCHANGED <<allocid, ctxs, names, maker, sobj, closer, stopped, added>>

\* get_ctx gives a shared pointer to the context ...
StopGet(t) ==
  /\ spc[t] = "get" /\ ctxs[sid[t]] # 0
  /\ sobj' = [sobj EXCEPT ![t] = ctxs[sid[t]]]
  /\ spc' = [spc EXCEPT ![t] = "del"]
  /\ UNCHANGED <<allocid, ctxs, names, maker, sid, closer, stopped, added>>

\* ... or there is nothing to stop.
StopMiss(t) ==
  /\ spc[t] = "get" /\ ctxs[sid[t]] = 0
  /\ sid' = [sid EXCEPT ![t] = None]
  /\ spc' = [spc EXCEPT ![t] = "idle"]
  /\ UNCHANGED <<allocid, ctxs, names, maker, sobj, closer, stopped, added>>

\* Variant: the context is taken out and not shut down.
StopDelOnly(t) ==
  /\ spc[t] = "del"
  /\ ctxs' = [ctxs EXCEPT ![sid[t]] = 0]
  /\ EraseFirst(sid[t])
  /\ sobj' = [sobj EXCEPT ![t] = 0] /\ sid' = [sid EXCEPT ![t] = None]
  /\ spc' = [spc EXCEPT ![t] = "idle"]
  /\ UNCHANGED <<allocid, maker, closer, stopped, added>>

\* del_ctx erases the entry and one name.
StopDel(t) ==
  /\ spc[t] = "del"
  /\ ctxs' = [ctxs EXCEPT ![sid[t]] = 0]
  /\ EraseFirst(sid[t])
  /\ spc' = [spc EXCEPT ![t] = "shut"]
  /\ UNCHANGED <<allocid, maker, sid, sobj, closer, stopped, added>>

\* ctx->shutdown() stops the mailbox.
StopShut(t) ==
  /\ spc[t] = "shut"
  /\ stopped' = stopped \cup {sobj[t]}
  /\ sobj' = [sobj EXCEPT ![t] = 0] /\ sid' = [sid EXCEPT ![t] = None]
  /\ spc' = [spc EXCEPT ![t] = "idle"]
  /\ UNCHANGED <<allocid, ctxs, names, maker, closer, added>>

-----------------------------------------------------------------------------
(* The end of cqy_app::start *)

CollectCtxids ==
  /\ clpc = "idle" /\ clpc' = "loop"
  /\ clids' = {i \in Ids : ctxs[i] # 0}
  /\ snapshot' = {ctxs[i] : i \in {j \in Ids : ctxs[j] # 0}}
  /\ UNCHANGED <<allocid, ctxs, names, maker, stopper, stopped, added>>

\* Variant: the loop ends at the first context that is gone.
ShutdownNextOrBreak(i) ==
  /\ clpc = "loop" /\ i \in clids
  /\ clids' = IF ctxs[i] # 0 THEN clids \ {i} ELSE {}
  /\ stopped' = IF ctxs[i] # 0 THEN stopped \cup {ctxs[i]} ELSE stopped
  /\ UNCHANGED <<allocid, ctxs, names, maker, stopper, clpc, snapshot, added>>

\* get_ctx may find nothing any more; a context found is shut down.
ShutdownNext(i) ==
  /\ clpc = "loop" /\ i \in clids
  /\ clids' = clids \ {i}
  /\ stopped' = IF ctxs[i] # 0 THEN stopped \cup {ctxs[i]} ELSE stopped
  /\ UNCHANGED <<allocid, ctxs, names, maker, stopper, clpc, snapshot, added>>

-----------------------------------------------------------------------------

Next ==
  \/ \E t \in Makers : NewId(t) \/ InitFails(t) \/ AddCtx(t)
  \/ \E t \in Makers, n \in Names : RegisterName(t, n)
  \/ \E t \in Stoppers, n \in Names : StopByName(t, n)
  \/ \E t \in Stoppers, i \in Ids : StopById(t, i)
  \/ \E t \in Stoppers : StopGet(t) \/ StopMiss(t) \/ StopDel(t) \/ StopShut(t)
  \/ CollectCtxids
  \/ \E i \in Ids : ShutdownNext(i)

Spec == Init /\ [][Next]_vars

-----------------------------------------------------------------------------
(* Properties *)

\* Every variable keeps its type.
TypeOK ==
  /\ allocid \in 0..MaxAlloc
  /\ ctxs \in [Ids -> 0..MaxAlloc]
  /\ names \in Seq([name : Names, id : Ids])
  /\ mpc \in [Makers -> {"idle", "init"}]
  /\ mobj \in [Makers -> 0..MaxAlloc] /\ mcount \in [Makers -> 0..NamesPerCtx]
  /\ spc \in [Stoppers -> {"idle", "get", "del", "shut"}]
  /\ sid \in [Stoppers -> Ids \cup {None}] /\ sobj \in [Stoppers -> 0..MaxAlloc]
  /\ clpc \in {"idle", "loop"} /\ clids \subseteq Ids
  /\ stopped \subseteq Objs /\ added \subseteq Objs /\ snapshot \subseteq Objs

\* find_name, a binary search, and register_name, append and sort, agree with
\* a plain search: a name has at most one owner and looking it up finds it.
LookupExact ==
  \A i \in DOMAIN names :
    /\ FindName(names[i].name) = names[i].id
    /\ \A j \in DOMAIN names : names[i].name = names[j].name => i = j

\* register_name and del_ctx: a name that somebody has leads to its owner until
\* the step that takes the owner out of the map, and to nobody after it; no
\* registration takes a name over.
NamesKept ==
  [][\A n \in Names : FindName(n) # None =>
       \/ FindName(n)' = FindName(n)
       \/ FindName(n)' = None /\ ctxs'[FindName(n)] = 0]_vars

\* No other context has been given the id of o so far: the counter has not gone
\* round past o.
Unique(o) == \A p \in 1..allocid : IdOf(p) = IdOf(o) => p = o

\* Some stop_ctx has taken o out of the map and is about to shut it down.
Ending(o) == \E t \in Stoppers : spc[t] = "shut" /\ sobj[t] = o

\* A context taken out of the map is shut down, or the stop_ctx that took it
\* out, or another one that found it before, is about to do so.  Nothing is said
\* of contexts that share an id: there del_ctx may take out the other one.
NoZombie ==
  \A o \in added :
    Unique(o) => ctxs[IdOf(o)] = o \/ o \in stopped \/ Ending(o)

\* add_ctx: assert(it.second).  The new context is in the map, unless one that
\* was created at least a whole round of ids before or after it still has the
\* place; then the assertion fails.
ClashOnlyAfterWrap ==
  [][\A t \in Makers : AddCtx(t) =>
       LET o == mobj[t]
           p == ctxs'[IdOf(o)]
       IN  p = o \/ p + IdMod <= o \/ o + IdMod <= p]_vars

\* The shutdown loop leaves no context of its snapshot running, even if
\* stop_ctx removes some of them meanwhile, except where ids are shared.
ShutdownReachesAll ==
  clpc = "loop" /\ clids = {} =>
    \A o \in snapshot : Unique(o) => o \in stopped \/ Ending(o)

=============================================================================
