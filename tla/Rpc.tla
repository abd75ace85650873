--------------------------------- MODULE Rpc ---------------------------------
(***************************************************************************)
(* Calls between contexts: ctx_call by id, ctx_call_name by name, and        *)
(* rpc_find_ctx, on the caller's node or on another one, while contexts are  *)
(* created and stopped.                                                      *)
(*                                                                         *)
(* A call to another node is a request and a reply that may be late or lost; *)
(* the caller may give up at any time and the request be executed            *)
(* afterwards.  What a call does to the context locks is in CtxExec, the      *)
(* single steps of create_ctx and stop_ctx are in CtxMgr.                     *)
(***************************************************************************)
EXTENDS Naturals

CONSTANTS
  Nodes,   \* node ids
  Knows,   \* nodes in the configuration of each node
  Ctxs,    \* contexts, known by their ids, which are never given out twice
  Home,    \* the node of each context: the nodeid of its cqy_handle_t
  Names,   \* names of contexts
  Calls,   \* the calls under consideration
  None     \* no context (id 0), no name

ASSUME RpcAssumption ==
  /\ Knows \in [Nodes -> SUBSET Nodes] /\ \A n \in Nodes : n \in Knows[n]
  /\ Home \in [Ctxs -> Nodes]
  /\ None \notin Ctxs /\ None \notin Names

VARIABLES
  state,     \* "new", "init" (in on_init), "up" (in ctx_mgr), "stopped"
  named,     \* the name each context has registered
  names,     \* ctx_mgr of each node: context by name
  req,       \* what each call asks for
  cpc,       \* the caller: "idle", "waiting", "done"
  status,    \* rpc_result_t::status as the caller sees it
  spc,       \* the callee's side of the call: next step
  found,     \* the context looked up for the call
  answer,    \* the status the callee answers with
  ran,       \* history: number of times the function was executed
  owners     \* history: contexts that had the name while the call was waiting

ctxs   == <<state, named, names>>
caller == <<req, cpc, status, owners>>
callee == <<spc, found, answer, ran>>
vars   == <<ctxs, caller, callee>>

\* status 0; -1; -2; -3; -4; an exception thrown at the caller.
Statuses == {"ok", "miss", "config", "param", "net", "threw"}

\* A call by name, or rpc_find_ctx; a call by id.
NameReqs == [by : {"name", "find"}, from : Nodes, node : Nodes, name : Names, id : {None}]
IdReqs   == {r \in [by : {"id"}, from : Nodes, node : Nodes, name : {None}, id : Ctxs] :
               r.node = Home[r.id]}
Reqs     == NameReqs \cup IdReqs

NoReq == [by |-> "none"]

Init ==
  /\ state = [c \in Ctxs |-> "new"] /\ named = [c \in Ctxs |-> None]
  /\ names = [n \in Nodes |-> [x \in Names |-> None]]
  /\ req = [k \in Calls |-> NoReq] /\ cpc = [k \in Calls |-> "idle"]
  /\ status = [k \in Calls |-> "none"] /\ owners = [k \in Calls |-> {}]
  /\ spc = [k \in Calls |-> "none"] /\ found = [k \in Calls |-> None]
  /\ answer = [k \in Calls |-> "none"] /\ ran = [k \in Calls |-> 0]

Local(k) == req[k].from = req[k].node

-----------------------------------------------------------------------------
(* Contexts *)

\* create_ctx: on_init registers a name nobody has.  Calls that wait for an
\* owner of the name may find this one from now on.
RegisterName(c, x) ==
  /\ state[c] = "new" /\ names[Home[c]][x] = None
  /\ state' = [state EXCEPT ![c] = "init"]
  /\ named' = [named EXCEPT ![c] = x]
  /\ names' = [names EXCEPT ![Home[c]][x] = c]
  /\ owners' = [k \in Calls |->
       IF cpc[k] # "idle" /\ req[k].by # "id" /\ req[k].node = Home[c] /\ req[k].name = x
       THEN owners[k] \cup {c} ELSE owners[k]]
  /\ UNCHANGED <<req, cpc, status, callee>>

\* on_init without a name, or with one that is taken.
InitNameless(c) ==
  /\ state[c] = "new"
  /\ state' = [state EXCEPT ![c] = "init"]
  /\ UNCHANGED <<named, names, caller, callee>>

\* create_ctx: add_ctx.
AddCtx(c) ==
  /\ state[c] = "init"
  /\ state' = [state EXCEPT ![c] = "up"]
  /\ UNCHANGED <<named, names, caller, callee>>

\* Variant: del_ctx leaves the name.
StopCtxKeepsName(c) ==
  /\ state[c] = "up"
  /\ state' = [state EXCEPT ![c] = "stopped"]
  /\ named' = [named EXCEPT ![c] = None]
  /\ UNCHANGED <<names, caller, callee>>

\* stop_ctx: del_ctx erases the context and its name.
StopCtx(c) ==
  /\ state[c] = "up"
  /\ state' = [state EXCEPT ![c] = "stopped"]
  /\ named' = [named EXCEPT ![c] = None]
  /\ names' = [n \in Nodes |-> [x \in Names |->
                 IF names[n][x] = c THEN None ELSE names[n][x]]]
  /\ UNCHANGED <<caller, callee>>

-----------------------------------------------------------------------------
(* The caller *)

\* Who has the name now.
Owners(r) == {c \in Ctxs : Home[c] = r.node /\ named[c] = r.name /\ r.by # "id"}

\* get_handle, or get_node for an id, does not know the node.
CallUnknown(k, r) ==
  /\ cpc[k] = "idle" /\ r.node \notin Knows[r.from]
  /\ req' = [req EXCEPT ![k] = r]
  /\ cpc' = [cpc EXCEPT ![k] = "done"]
  /\ status' = [status EXCEPT ![k] = IF r.by = "id" THEN "config" ELSE "miss"]
  /\ UNCHANGED <<ctxs, owners, callee>>

\* The caller's own node executes the call directly, another one is sent a
\* request.
Call(k, r) ==
  /\ cpc[k] = "idle" /\ r.node \in Knows[r.from]
  /\ req' = [req EXCEPT ![k] = r]
  /\ cpc' = [cpc EXCEPT ![k] = "waiting"]
  /\ owners' = [owners EXCEPT ![k] = Owners(r)]
  /\ spc' = [spc EXCEPT ![k] = IF r.from = r.node THEN "call" ELSE "wire"]
  /\ UNCHANGED <<ctxs, status, found, answer, ran>>

\* Variant: a failure of the network looks like a missing context.
CallFailsAsMiss(k) ==
  /\ cpc[k] = "waiting" /\ ~Local(k)
  /\ cpc' = [cpc EXCEPT ![k] = "done"]
  /\ status' = [status EXCEPT ![k] = "miss"]
  /\ UNCHANGED <<ctxs, req, owners, callee>>

\* Variant: there is no timeout, only a request that does not get out fails.
CallFailsUnsent(k) ==
  /\ cpc[k] = "waiting" /\ spc[k] = "wire"
  /\ cpc' = [cpc EXCEPT ![k] = "done"]
  /\ status' = [status EXCEPT ![k] = IF req[k].by = "find" THEN "miss" ELSE "net"]
  /\ UNCHANGED <<ctxs, req, owners, callee>>

\* send_request fails or times out; the request may be anywhere.  rpc_find_ctx
\* returns 0, as if there were no such context.
CallFails(k) ==
  /\ cpc[k] = "waiting" /\ ~Local(k)
  /\ cpc' = [cpc EXCEPT ![k] = "done"]
  /\ status' = [status EXCEPT ![k] = IF req[k].by = "find" THEN "miss" ELSE "net"]
  /\ UNCHANGED <<ctxs, req, owners, callee>>

\* The result gets back to the caller, if it still waits.
Return(k) ==
  /\ spc[k] = "reply"
  /\ spc' = [spc EXCEPT ![k] = "none"]
  /\ cpc' = [cpc EXCEPT ![k] = "done"]
  /\ status' = [status EXCEPT ![k] = IF cpc[k] = "waiting" THEN answer[k] ELSE @]
  /\ UNCHANGED <<ctxs, req, owners, found, answer, ran>>

-----------------------------------------------------------------------------
(* The network *)

Arrive(k) ==
  /\ spc[k] = "wire"
  /\ spc' = [spc EXCEPT ![k] = "call"]
  /\ UNCHANGED <<ctxs, caller, found, answer, ran>>

\* A request or a reply is lost.
Lose(k) ==
  /\ spc[k] \in {"wire", "reply"} /\ ~Local(k)
  /\ spc' = [spc EXCEPT ![k] = "none"]
  /\ UNCHANGED <<ctxs, caller, found, answer, ran>>

-----------------------------------------------------------------------------
(* The callee *)

Answer(k, s) ==
  /\ spc' = [spc EXCEPT ![k] = "reply"]
  /\ answer' = [answer EXCEPT ![k] = s]

\* rpc_ctx_call_name: find_name.  rpc_ctx_call starts from the id.
FindName(k) ==
  /\ spc[k] = "call" /\ req[k].by # "find"
  /\ spc' = [spc EXCEPT ![k] = "get"]
  /\ found' = [found EXCEPT ![k] =
       IF req[k].by = "id" THEN req[k].id ELSE names[req[k].node][req[k].name]]
  /\ UNCHANGED <<ctxs, caller, answer, ran>>

\* rpc_find_ctx answers with the id, or 0.
FindCtx(k) ==
  LET c == names[req[k].node][req[k].name] IN
  /\ spc[k] = "call" /\ req[k].by = "find"
  /\ found' = [found EXCEPT ![k] = c]
  /\ Answer(k, IF c = None THEN "miss" ELSE "ok")
  /\ UNCHANGED <<ctxs, caller, ran>>

\* get_ctx finds the context.
GetCtx(k) ==
  /\ spc[k] = "get" /\ found[k] # None /\ state[found[k]] = "up"
  /\ spc' = [spc EXCEPT ![k] = "run"]
  /\ UNCHANGED <<ctxs, caller, found, answer, ran>>

\* get_ctx does not.
CtxMiss(k) ==
  /\ spc[k] = "get" /\ (found[k] # None => state[found[k]] # "up")
  /\ Answer(k, "miss")
  /\ UNCHANGED <<ctxs, caller, found, ran>>

\* rpc_on_call: no function of that name.
FuncMiss(k) ==
  /\ spc[k] = "run" /\ Answer(k, "miss")
  /\ UNCHANGED <<ctxs, caller, found, ran>>

\* rpc_call_func: the parameters do not deserialise.
ParamError(k) ==
  /\ spc[k] = "run" /\ Answer(k, "param")
  /\ UNCHANGED <<ctxs, caller, found, ran>>

Run(k) ==
  /\ spc[k] = "run" /\ Answer(k, "ok")
  /\ ran' = [ran EXCEPT ![k] = @ + 1]
  /\ UNCHANGED <<ctxs, caller, found>>

\* The function throws: through to a caller on the same node, while coro_rpc
\* answers another node with an error.
RunThrows(k) ==
  /\ spc[k] = "run" /\ Answer(k, IF Local(k) THEN "threw" ELSE "net")
  /\ ran' = [ran EXCEPT ![k] = @ + 1]
  /\ UNCHANGED <<ctxs, caller, found>>

-----------------------------------------------------------------------------

\* What the callee's node does without entering the context, and the return.
LookupStep(k) ==
  FindName(k) \/ FindCtx(k) \/ GetCtx(k) \/ CtxMiss(k) \/ Return(k)

\* What it does once it has the context, most of it under the context's lock.
ExecStep(k) == FuncMiss(k) \/ ParamError(k) \/ Run(k) \/ RunThrows(k)

CtxStep(c) ==
  \/ InitNameless(c) \/ AddCtx(c) \/ StopCtx(c)
  \/ \E x \in Names : RegisterName(c, x)

Next ==
  \/ \E c \in Ctxs : CtxStep(c)
  \/ \E k \in Calls : LookupStep(k) \/ ExecStep(k) \/ CallFails(k) \/ Arrive(k) \/ Lose(k)
  \/ \E k \in Calls, r \in Reqs : CallUnknown(k, r) \/ Call(k, r)

\* Executors run what is ready and needs no context lock, and send_request has a
\* timeout.  ExecStep is not fair: the context's lock may never be free (CtxExec)
\* and the function need not return.
Fairness == \A k \in Calls : WF_vars(LookupStep(k)) /\ WF_vars(CallFails(k))

Spec == Init /\ [][Next]_vars
FairSpec == Spec /\ Fairness

-----------------------------------------------------------------------------
(* Properties *)

\* Every variable keeps its type.
TypeOK ==
  /\ state \in [Ctxs -> {"new", "init", "up", "stopped"}]
  /\ named \in [Ctxs -> Names \cup {None}]
  /\ names \in [Nodes -> [Names -> Ctxs \cup {None}]]
  /\ req \in [Calls -> Reqs \cup {NoReq}]
  /\ cpc \in [Calls -> {"idle", "waiting", "done"}]
  /\ status \in [Calls -> Statuses \cup {"none"}]
  /\ owners \in [Calls -> SUBSET Ctxs]
  /\ spc \in [Calls -> {"none", "wire", "call", "get", "run", "reply"}]
  /\ found \in [Calls -> Ctxs \cup {None}]
  /\ answer \in [Calls -> Statuses \cup {"none"}]
  /\ ran \in [Calls -> Nat]

\* rpc_result_t::status: 0 says that the function was executed, once, and -1,
\* -2 and -3 that it was not and will not be, whatever the network does.
\* Otherwise it was executed at most once.  rpc_find_ctx executes nothing.
StatusHonest ==
  \A k \in Calls :
    /\ ran[k] <= 1
    /\ status[k] = "ok" => ran[k] = (IF req[k].by = "find" THEN 0 ELSE 1)
    /\ status[k] \in {"miss", "config", "param"} =>
         ran[k] = 0 /\ (req[k].by = "find" \/ spc[k] = "none")

\* find_name: a call by name gets to a context that had the name at some moment
\* while the call was under way.
RightContext ==
  \A k \in Calls :
    found[k] # None =>
      IF req[k].by = "id" THEN found[k] = req[k].id ELSE found[k] \in owners[k]

\* ctx_call: a call to another node ends, by its answer or by the timeout of
\* send_request, wherever request and answer are.  A call on the caller's own
\* node has no timeout: it ends, or it has got into a context, which then decides.
CallEndsOrRuns ==
  \A k \in Calls :
    cpc[k] = "waiting" ~> (cpc[k] = "done" \/ (spc[k] = "run" /\ Local(k)))

=============================================================================
