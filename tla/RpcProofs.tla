------------------------------ MODULE RpcProofs ------------------------------
(* Theorems about Rpc, for any nodes, configurations, contexts and calls. *)
EXTENDS Rpc, TLAPS

-----------------------------------------------------------------------------
(* The inductive invariant *)

\* A name leads to a context of that node that has the name; a context that
\* has not been created has none.
NameInv ==
  /\ \A n \in Nodes, x \in Names :
       names[n][x] # None => named[names[n][x]] = x /\ Home[names[n][x]] = n
  /\ \A c \in Ctxs : state[c] = "new" => named[c] = None

\* A call that has not looked its name up yet has recorded its owners.
OwnersInv ==
  \A k \in Calls : spc[k] \in {"wire", "call"} /\ req[k].by # "id" =>
    \A c \in Ctxs : Home[c] = req[k].node /\ named[c] = req[k].name => c \in owners[k]

\* What is known at each stage of a call.
StageInv ==
  \A k \in Calls :
    /\ cpc[k] = "idle" => spc[k] = "none" /\ found[k] = None /\ ran[k] = 0
    /\ cpc[k] # "idle" => req[k] \in Reqs
    /\ cpc[k] # "done" => status[k] = "none"
    /\ spc[k] \in {"wire", "call", "get", "run"} => ran[k] = 0
    /\ spc[k] \in {"get", "run"} => req[k].by # "find"
    /\ req[k].by = "find" => ran[k] = 0
    /\ spc[k] = "reply" =>
         /\ answer[k] = "ok" => ran[k] = IF req[k].by = "find" THEN 0 ELSE 1
         /\ answer[k] \in {"miss", "config", "param"} => ran[k] = 0

\* The inductive invariant, with the two properties themselves.
IInv == TypeOK /\ NameInv /\ OwnersInv /\ StageInv /\ StatusHonest /\ RightContext

-----------------------------------------------------------------------------

\* The fields of a request.
LEMMA ReqFacts ==
  ASSUME NEW r \in Reqs
  PROVE  /\ r.by \in {"id", "name", "find"}
         /\ r.from \in Nodes /\ r.node \in Nodes
         /\ r.by # "id" => r.name \in Names
         /\ r.by = "id" => r.id \in Ctxs
BY DEF Reqs, NameReqs, IdReqs

\* The empty request is none of them.
LEMMA NoReqBy == NoReq.by = "none"
BY DEF NoReq

\* No context and no name is None.
LEMMA NoneApart == None \notin Ctxs /\ None \notin Names
BY RpcAssumption

LEMMA InitInv == Init => IInv
<1> SUFFICES ASSUME Init PROVE IInv
  OBVIOUS
<1> USE NoReqBy DEF Init
<1>1. TypeOK
  BY DEF TypeOK
<1>2. NameInv
  BY DEF NameInv
<1>3. OwnersInv /\ StageInv /\ StatusHonest /\ RightContext
  BY DEF OwnersInv, StageInv, StatusHonest, RightContext, Statuses
<1> QED BY <1>1, <1>2, <1>3 DEF IInv

-----------------------------------------------------------------------------
(* Contexts come and go: nothing of a call changes but its possible owners. *)

LEMMA RegisterNameStep ==
  ASSUME IInv, NEW c \in Ctxs, NEW x \in Names, RegisterName(c, x)
  PROVE  IInv'
<1> USE NoneApart, RpcAssumption DEF RegisterName, callee
<1>1. TypeOK'
  BY DEF IInv, TypeOK
<1>2. NameInv'
  <2>1. \A d \in Ctxs : state'[d] = "new" => named'[d] = None
    BY DEF IInv, TypeOK, NameInv
  <2>2. ASSUME NEW n \in Nodes, NEW y \in Names, names'[n][y] # None
        PROVE  named'[names'[n][y]] = y /\ Home[names'[n][y]] = n
    <3>1. CASE n = Home[c] /\ y = x
      BY <2>2, <3>1 DEF IInv, TypeOK
    <3>2. CASE ~(n = Home[c] /\ y = x)
      <4>1. names'[n][y] = names[n][y] /\ names[n][y] \in Ctxs
        BY <2>2, <3>2 DEF IInv, TypeOK
      <4>2. names[n][y] # c
        BY <4>1 DEF IInv, NameInv
      <4> QED BY <2>2, <4>1, <4>2 DEF IInv, TypeOK, NameInv
    <3> QED BY <3>1, <3>2
  <2> QED BY <2>1, <2>2 DEF NameInv
<1>3. \A k \in Calls : owners[k] \subseteq owners'[k]
  BY DEF IInv, TypeOK
<1>4. OwnersInv'
  BY <1>3 DEF IInv, TypeOK, OwnersInv, StageInv
<1>5. StageInv' /\ StatusHonest'
  BY DEF IInv, StageInv, StatusHonest
<1>6. RightContext'
  BY <1>3 DEF IInv, RightContext
<1> QED BY <1>1, <1>2, <1>4, <1>5, <1>6 DEF IInv

LEMMA CtxOtherStep ==
  ASSUME IInv, NEW c \in Ctxs, InitNameless(c) \/ AddCtx(c) \/ StopCtx(c)
  PROVE  IInv'
<1> USE NoneApart, RpcAssumption DEF InitNameless, AddCtx, StopCtx, caller, callee
<1>1. TypeOK'
  <2>1. state' \in [Ctxs -> {"new", "init", "up", "stopped"}]
    <3>1. CASE InitNameless(c)
      BY <3>1 DEF IInv, TypeOK
    <3>2. CASE AddCtx(c)
      BY <3>2 DEF IInv, TypeOK
    <3>3. CASE StopCtx(c)
      BY <3>3 DEF IInv, TypeOK
    <3> QED BY <3>1, <3>2, <3>3
  <2>2. named' \in [Ctxs -> Names \cup {None}]
    BY DEF IInv, TypeOK
  <2>3. names' \in [Nodes -> [Names -> Ctxs \cup {None}]]
    BY DEF IInv, TypeOK
  <2> QED BY <2>1, <2>2, <2>3 DEF IInv, TypeOK
<1>2. NameInv'
  <2>1. \A d \in Ctxs : state'[d] = "new" => named'[d] = None
    BY DEF IInv, TypeOK, NameInv
  <2>2. ASSUME NEW n \in Nodes, NEW y \in Names, names'[n][y] # None
        PROVE  named'[names'[n][y]] = y /\ Home[names'[n][y]] = n
    <3>1. names'[n][y] = names[n][y] /\ (StopCtx(c) => names[n][y] # c)
      BY <2>2 DEF IInv, TypeOK
    <3> QED BY <2>2, <3>1 DEF IInv, TypeOK, NameInv
  <2> QED BY <2>1, <2>2 DEF NameInv
<1>3. \A d \in Ctxs : named'[d] \in {named[d], None}
  BY DEF IInv, TypeOK
<1>4. OwnersInv'
  <2> SUFFICES ASSUME NEW k \in Calls, spc[k] \in {"wire", "call"}, req[k].by # "id",
                      NEW d \in Ctxs, Home[d] = req[k].node, named'[d] = req[k].name
               PROVE  d \in owners[k]
    BY DEF OwnersInv
  <2>1. req[k].name \in Names
    BY ReqFacts DEF IInv, StageInv
  <2> QED BY <1>3, <2>1 DEF IInv, OwnersInv
<1>5. StageInv' /\ StatusHonest' /\ RightContext'
  BY DEF IInv, StageInv, StatusHonest, RightContext
<1> QED BY <1>1, <1>2, <1>4, <1>5 DEF IInv

-----------------------------------------------------------------------------
(* The caller *)

LEMMA CallUnknownStep ==
  ASSUME IInv, NEW k \in Calls, NEW r \in Reqs, CallUnknown(k, r)
  PROVE  IInv'
<1> USE ReqFacts DEF CallUnknown, ctxs, callee
<1>1. TypeOK'
  BY DEF IInv, TypeOK, Statuses
<1>2. NameInv'
  BY DEF IInv, NameInv
<1>3. OwnersInv'
  BY DEF IInv, TypeOK, OwnersInv, StageInv
<1>4. StageInv' /\ StatusHonest'
  BY DEF IInv, TypeOK, StageInv, StatusHonest
<1>5. RightContext'
  BY DEF IInv, TypeOK, StageInv, RightContext
<1> QED BY <1>1, <1>2, <1>3, <1>4, <1>5 DEF IInv

LEMMA CallStep ==
  ASSUME IInv, NEW k \in Calls, NEW r \in Reqs, Call(k, r)
  PROVE  IInv'
<1> USE ReqFacts DEF Call, ctxs
<1>1. TypeOK'
  BY DEF IInv, TypeOK, Owners
<1>2. NameInv'
  BY DEF IInv, NameInv
<1>3. OwnersInv'
  BY DEF IInv, TypeOK, OwnersInv, Owners
<1>4. StageInv' /\ StatusHonest'
  BY DEF IInv, TypeOK, StageInv, StatusHonest
<1>5. RightContext'
  BY DEF IInv, TypeOK, StageInv, RightContext
<1> QED BY <1>1, <1>2, <1>3, <1>4, <1>5 DEF IInv

LEMMA EndStep ==
  ASSUME IInv, NEW k \in Calls, CallFails(k) \/ Return(k)
  PROVE  IInv'
<1> USE DEF CallFails, Return, ctxs, callee
<1>1. TypeOK'
  BY DEF IInv, TypeOK, Statuses
<1>2. NameInv'
  BY DEF IInv, NameInv
<1>3. OwnersInv'
  BY DEF IInv, TypeOK, OwnersInv
<1>4. StageInv'
  BY DEF IInv, TypeOK, StageInv
<1>5. StatusHonest'
  BY DEF IInv, TypeOK, StageInv, StatusHonest
<1>6. RightContext'
  BY DEF IInv, TypeOK, RightContext
<1> QED BY <1>1, <1>2, <1>3, <1>4, <1>5, <1>6 DEF IInv

-----------------------------------------------------------------------------
(* The network and the callee *)

LEMMA WireStep ==
  ASSUME IInv, NEW k \in Calls, Arrive(k) \/ Lose(k) \/ GetCtx(k)
  PROVE  IInv'
<1> USE DEF Arrive, Lose, GetCtx, ctxs, caller
<1>1. TypeOK'
  BY DEF IInv, TypeOK
<1>2. NameInv'
  BY DEF IInv, NameInv
<1>3. OwnersInv'
  BY DEF IInv, TypeOK, OwnersInv
<1>4. StageInv' /\ StatusHonest'
  BY DEF IInv, TypeOK, StageInv, StatusHonest
<1>5. RightContext'
  BY DEF IInv, RightContext
<1> QED BY <1>1, <1>2, <1>3, <1>4, <1>5 DEF IInv

LEMMA FindStep ==
  ASSUME IInv, NEW k \in Calls, FindName(k) \/ FindCtx(k)
  PROVE  IInv'
<1> USE DEF FindName, FindCtx, Answer, ctxs, caller
<1>1. req[k] \in Reqs
  BY DEF IInv, TypeOK, StageInv
<1>2. /\ req[k].node \in Nodes
      /\ req[k].by = "id" => req[k].id \in Ctxs
      /\ req[k].by # "id" => req[k].name \in Names
  BY <1>1, ReqFacts
<1>3. TypeOK'
  <2>1. found' \in [Calls -> Ctxs \cup {None}]
    <3>1. req[k].by # "id" => names[req[k].node][req[k].name] \in Ctxs \cup {None}
      BY <1>2 DEF IInv, TypeOK
    <3>2. found'[k] \in Ctxs \cup {None}
      BY <1>2, <3>1 DEF IInv, TypeOK
    <3> QED BY <3>2 DEF IInv, TypeOK
  <2>2. spc' \in [Calls -> {"none", "wire", "call", "get", "run", "reply"}]
    BY DEF IInv, TypeOK
  <2>3. answer' \in [Calls -> Statuses \cup {"none"}]
    BY DEF IInv, TypeOK, Statuses
  <2> QED BY <2>1, <2>2, <2>3 DEF IInv, TypeOK
<1>4. NameInv'
  BY DEF IInv, NameInv
<1>5. OwnersInv'
  BY DEF IInv, TypeOK, OwnersInv
<1>6. StageInv' /\ StatusHonest'
  BY DEF IInv, TypeOK, StageInv, StatusHonest
<1>7. RightContext'
  <2>1. req[k].by # "id" =>
          LET c == names[req[k].node][req[k].name] IN c # None => c \in owners[k]
    BY <1>2 DEF IInv, TypeOK, NameInv, OwnersInv
  <2> QED BY <1>2, <2>1 DEF IInv, TypeOK, RightContext
<1> QED BY <1>3, <1>4, <1>5, <1>6, <1>7 DEF IInv

LEMMA AnswerStep ==
  ASSUME IInv, NEW k \in Calls,
         CtxMiss(k) \/ FuncMiss(k) \/ ParamError(k) \/ Run(k) \/ RunThrows(k)
  PROVE  IInv'
<1> USE DEF CtxMiss, FuncMiss, ParamError, Run, RunThrows, Answer, ctxs, caller
<1>1. TypeOK'
  <2>1. spc' \in [Calls -> {"none", "wire", "call", "get", "run", "reply"}]
    BY DEF IInv, TypeOK
  <2>2. answer' \in [Calls -> Statuses \cup {"none"}]
    BY DEF IInv, TypeOK, Statuses
  <2>3. ran' \in [Calls -> Nat]
    BY DEF IInv, TypeOK
  <2> QED BY <2>1, <2>2, <2>3 DEF IInv, TypeOK
<1>2. NameInv'
  BY DEF IInv, NameInv
<1>3. OwnersInv'
  BY DEF IInv, TypeOK, OwnersInv
<1>4. StageInv'
  BY DEF IInv, TypeOK, StageInv
<1>5. StatusHonest'
  BY DEF IInv, TypeOK, StageInv, StatusHonest
<1>6. RightContext'
  BY DEF IInv, RightContext
<1> QED BY <1>1, <1>2, <1>3, <1>4, <1>5, <1>6 DEF IInv

-----------------------------------------------------------------------------

LEMMA StutterStep == ASSUME IInv, UNCHANGED vars PROVE IInv'
BY DEF vars, ctxs, caller, callee, IInv, TypeOK, NameInv, OwnersInv, StageInv,
       StatusHonest, RightContext

LEMMA Inductive == Spec => []IInv
<1>1. IInv /\ [Next]_vars => IInv'
  <2> SUFFICES ASSUME IInv, [Next]_vars PROVE IInv'
    OBVIOUS
  <2>1. ASSUME NEW c \in Ctxs, CtxStep(c) PROVE IInv'
    BY <2>1, RegisterNameStep, CtxOtherStep DEF CtxStep
  <2>2. ASSUME NEW k \in Calls, \/ LookupStep(k) \/ ExecStep(k)
                                \/ CallFails(k) \/ Arrive(k) \/ Lose(k)
        PROVE  IInv'
    BY <2>2, EndStep, WireStep, FindStep, AnswerStep DEF LookupStep, ExecStep
  <2>3. ASSUME NEW k \in Calls, NEW r \in Reqs, CallUnknown(k, r) \/ Call(k, r)
        PROVE  IInv'
    BY <2>3, CallUnknownStep, CallStep
  <2> QED BY <2>1, <2>2, <2>3, StutterStep DEF Next
<1> QED BY InitInv, <1>1, PTL DEF Spec

\* Types of contexts and calls.
THEOREM TypeCorrect == Spec => []TypeOK
<1>1. IInv => TypeOK
  BY DEF IInv
<1> QED BY Inductive, <1>1, PTL

\* ctx_call, ctx_call_name: a status tells the truth about what was executed,
\* for any number of calls, nodes and contexts and whatever the network loses
\* or delays.
THEOREM StatusHonestHolds == Spec => []StatusHonest
<1>1. IInv => StatusHonest
  BY DEF IInv
<1> QED BY Inductive, <1>1, PTL

\* rpc_ctx_call_name, rpc_find_ctx: a call by name gets to a context that had
\* the name while the call was under way.
THEOREM RightContextHolds == Spec => []RightContext
<1>1. IInv => RightContext
  BY DEF IInv
<1> QED BY Inductive, <1>1, PTL

-----------------------------------------------------------------------------
(* What may still happen to a call that has returned *)

\* A call that has returned has a status; "threw" says that the function ran.
EndInv ==
  \A k \in Calls :
    /\ cpc[k] = "done" => status[k] # "none"
    /\ spc[k] = "reply" => answer[k] # "none"
    /\ spc[k] = "reply" /\ answer[k] = "threw" => ran[k] = 1
    /\ status[k] = "threw" => ran[k] = 1

\* rpc_result_t::status: a result is final, and the only one after which the
\* function may still be executed is -4, no answer.
LateOnlyAfterNet ==
  [][\A k \in Calls : cpc[k] = "done" =>
       /\ status'[k] = status[k]
       /\ ran'[k] # ran[k] => status[k] = "net"]_vars

LEMMA EndInvStep == IInv /\ EndInv /\ [Next]_vars => EndInv'
<1> SUFFICES ASSUME IInv, EndInv, [Next]_vars PROVE EndInv'
  OBVIOUS
<1>0. TypeOK /\ StageInv  BY DEF IInv
<1> USE <1>0 DEF TypeOK, ctxs, caller, callee
<1>1. ASSUME UNCHANGED <<cpc, status, callee>> PROVE EndInv'
  BY <1>1 DEF EndInv
<1>2. ASSUME NEW c \in Ctxs, CtxStep(c) PROVE EndInv'
  BY <1>1, <1>2 DEF CtxStep, InitNameless, AddCtx, StopCtx, RegisterName
<1>3. ASSUME NEW k \in Calls, Arrive(k) \/ Lose(k) \/ FindName(k) \/ GetCtx(k)
      PROVE  EndInv'
  BY <1>3 DEF EndInv, Arrive, Lose, FindName, GetCtx
<1>4. ASSUME NEW k \in Calls, FindCtx(k) \/ CtxMiss(k) \/ FuncMiss(k) \/ ParamError(k)
      PROVE  EndInv'
  BY <1>4 DEF EndInv, FindCtx, CtxMiss, FuncMiss, ParamError, Answer
<1>5. ASSUME NEW k \in Calls, Run(k) \/ RunThrows(k) PROVE EndInv'
  <2>1. ran[k] = 0 /\ ran' = [ran EXCEPT ![k] = 1] /\ UNCHANGED <<cpc, status>>
    BY <1>5 DEF Run, RunThrows, StageInv
  <2>2. /\ spc' = [spc EXCEPT ![k] = "reply"]
        /\ \A j \in Calls : j # k => answer'[j] = answer[j]
        /\ answer'[k] # "none"
    BY <1>5 DEF Run, RunThrows, Answer
  <2> QED  BY <2>1, <2>2 DEF EndInv
<1>6. ASSUME NEW k \in Calls, CallFails(k) \/ Return(k) PROVE EndInv'
  <2>1. CASE CallFails(k)
    BY <2>1 DEF EndInv, CallFails
  <2>2. CASE Return(k)
    <3>1. /\ spc[k] = "reply" /\ spc'[k] = "none" /\ UNCHANGED <<answer, ran>>
          /\ \A j \in Calls : j # k => /\ spc'[j] = spc[j] /\ cpc'[j] = cpc[j]
                                       /\ status'[j] = status[j]
          /\ status'[k] = IF cpc[k] = "waiting" THEN answer[k] ELSE status[k]
      BY <2>2 DEF Return
    <3>2. cpc[k] = "waiting" \/ cpc[k] = "done"  BY <3>1 DEF StageInv
    <3>3. status'[k] # "none" /\ (status'[k] = "threw" => ran[k] = 1)
      BY <3>1, <3>2 DEF EndInv
    <3> QED  BY <3>1, <3>3 DEF EndInv
  <2> QED  BY <1>6, <2>1, <2>2
<1>7. ASSUME NEW k \in Calls, NEW r \in Reqs, CallUnknown(k, r) \/ Call(k, r)
      PROVE  EndInv'
  BY <1>7 DEF EndInv, CallUnknown, Call
<1>8. CASE UNCHANGED vars  BY <1>1, <1>8 DEF vars
<1> QED
  BY <1>2, <1>3, <1>4, <1>5, <1>6, <1>7, <1>8 DEF Next, LookupStep, ExecStep

\* For any calls and whatever is lost or late: nothing is executed behind the
\* back of a caller that got another result than -4.
THEOREM LateOnlyAfterNetHolds == Spec => LateOnlyAfterNet
<1> DEFINE Late == \A k \in Calls : cpc[k] = "done" =>
                     /\ status'[k] = status[k]
                     /\ ran'[k] # ran[k] => status[k] = "net"
<1>1. Init => EndInv  BY DEF Init, EndInv
<1>2. ASSUME IInv, EndInv, Next PROVE Late
  <2> SUFFICES ASSUME NEW j \in Calls, cpc[j] = "done"
               PROVE  status'[j] = status[j] /\ (ran'[j] # ran[j] => status[j] = "net")
    OBVIOUS
  <2>0. TypeOK /\ StageInv /\ StatusHonest  BY <1>2 DEF IInv
  <2> USE <2>0 DEF TypeOK, ctxs, caller, callee
  <2>1. ASSUME NEW k \in Calls, Run(k) \/ RunThrows(k)
        PROVE  status'[j] = status[j] /\ (ran'[j] # ran[j] => status[j] = "net")
    <3>1. UNCHANGED status /\ (ran'[j] # ran[j] => j = k)  BY <2>1 DEF Run, RunThrows
    <3>2. spc[k] = "run" /\ ran[k] = 0 /\ req[k].by # "find"
      BY <2>1 DEF Run, RunThrows, StageInv
    <3>3. j = k => status[j] \notin {"ok", "miss", "config", "param", "threw", "none"}
      BY <1>2, <3>2 DEF StatusHonest, EndInv
    <3> QED  BY <3>1, <3>3 DEF Statuses
  <2>2. ASSUME NEW k \in Calls, CallFails(k) \/ Return(k)
        PROVE  status'[j] = status[j] /\ ran'[j] = ran[j]
    BY <2>2 DEF CallFails, Return
  <2>3. ASSUME NEW k \in Calls, NEW r \in Reqs, CallUnknown(k, r) \/ Call(k, r)
        PROVE  status'[j] = status[j] /\ ran'[j] = ran[j]
    BY <2>3 DEF CallUnknown, Call
  <2>4. ASSUME NEW k \in Calls,
               \/ Arrive(k) \/ Lose(k) \/ FindName(k) \/ GetCtx(k)
               \/ FindCtx(k) \/ CtxMiss(k) \/ FuncMiss(k) \/ ParamError(k)
        PROVE  UNCHANGED <<status, ran>>
    BY <2>4 DEF Arrive, Lose, FindName, GetCtx, FindCtx, CtxMiss, FuncMiss, ParamError
  <2>5. ASSUME NEW c \in Ctxs, CtxStep(c) PROVE UNCHANGED <<status, ran>>
    BY <2>5 DEF CtxStep, InitNameless, AddCtx, StopCtx, RegisterName
  <2> QED
    BY <1>2, <2>1, <2>2, <2>3, <2>4, <2>5 DEF Next, LookupStep, ExecStep
<1>3. IInv /\ EndInv /\ [Next]_vars => [Late]_vars
  <2> HIDE DEF Late
  <2> QED  BY <1>2
<1> QED  BY <1>1, <1>3, Inductive, EndInvStep, PTL DEF Spec, LateOnlyAfterNet

=============================================================================
