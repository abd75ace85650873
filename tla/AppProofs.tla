------------------------------ MODULE AppProofs ------------------------------
(***************************************************************************)
(* Proofs about App, for any nodes, configurations, names, threads that     *)
(* stop() and number of messages, and about CtxExec, for any contexts,      *)
(* tasks and threads.                                                       *)
(*                                                                         *)
(* App: what CrashOnlyAtEdges and NothingLeftRunning say follows from how   *)
(* far start() has come (TableInv); DispatchFate needs to know of every     *)
(* message on its way whom it is for, that no other has its session, and    *)
(* that handling it again settles nothing new (MsgInv).  CtxExec: NoRace and NoOrphanLock are inductive only together, *)
(* with the owner of a lock finding it taken.                               *)
(***************************************************************************)
EXTENDS App, CtxExec, TLAPS

-----------------------------------------------------------------------------
(* App: the table of nodes along start() and the shutdown *)

\* While the application lives every link has its client; the shutdown has
\* treated all entries but those it has still to reach; a context exists only
\* between the bootstrap and the end.
TableInv ==
  /\ client \subseteq Range(nodes)
  /\ life \in {"clients", "serve", "boot", "init", "block"} =>
       Range(nodes) \ {Self} \subseteq client
  /\ life = "links" => Range(nodes) \subseteq shut \cup Range(todo) /\ client \subseteq Range(todo)
  /\ life \in {"links", "returned"} => server = "stopped"
  /\ life = "returned" => Range(nodes) \subseteq shut /\ client = {} /\ ctx # "added"
  /\ life = "threw" => (Self \notin Range(config) /\ ctx = "none") \/ ctx = "failed"
  /\ life \in {"clients", "serve", "boot"} => ctx = "none"
  /\ life = "init" => ctx = "init"

\* What is in a link, or in a request it has given up.
Pending == stale \cup UNION {Range(queue[p]) : p \in Peers}

\* Such a message is known to the sender and names the receiver as the sender
\* did.  If it has been handled, handling it again makes no difference.
Waits(m) ==
  LET d == sent[m.session] IN
  /\ m \in Msgs /\ m.session \in 1..Len(sent) /\ m.to.node \in Peers
  /\ d.node = m.to.node
  /\ d.fate = "queued" \/ d.fate = FateAt(m.to.node, m, d.name)
  /\ ~m.route => m.to = Handle(m.to.node, d.name)
  /\ m.route => /\ m.size = d.name % ByteMod /\ m.chars = d.name
                /\ asserts => d.name < ByteMod

QueueInv ==
  /\ \A m \in Pending : Waits(m)
  /\ \A p \in Peers : \A m \in Range(queue[p]) : m.to.node = p

SessionInv == \A x, y \in Pending : x.session = y.session => x = y

\* The context h has, or had, the message of session s.
Answers(h, s) ==
  /\ s \in 1..Len(sent) /\ sent[s].fate # "queued" /\ h.node = sent[s].node
  /\ sent[s].fate = "wrong" \/ h.node = Self \/ h.ctx = sent[s].name

MailInv ==
  /\ \A x \in mail : Answers(x.at, x.m.session)
  /\ \A m \in back \cup heard : Answers(m.from, m.session)

\* Nothing was dispatched before there was a context.
SentInv == ctx = "none" => sent = << >>

MsgInv == QueueInv /\ SessionInv /\ MailInv /\ SentInv

AppInv == AppTypeOK /\ TableInv /\ MsgInv /\ CrashOnlyAtEdges /\ DispatchFate

LEMMA EmptyRange == Range(<< >>) = {}
BY DEF Range

LEMMA AppendRange ==
  ASSUME NEW S, NEW s \in Seq(S), NEW e \in S
  PROVE  Range(Append(s, e)) = Range(s) \cup {e}
<1>1. /\ DOMAIN Append(s, e) = 1..(Len(s) + 1) /\ DOMAIN s = 1..Len(s) /\ Len(s) \in Nat
      /\ \A i \in 1..Len(s) : Append(s, e)[i] = s[i]
      /\ Append(s, e)[Len(s) + 1] = e
  OBVIOUS
<1>2. 1..(Len(s) + 1) = 1..Len(s) \cup {Len(s) + 1}
  BY <1>1
<1> QED  BY <1>1, <1>2 DEF Range

LEMMA TailRange ==
  ASSUME NEW S, NEW s \in Seq(S), s # << >>
  PROVE  /\ Head(s) \in S /\ Tail(s) \in Seq(S)
         /\ Range(s) \subseteq Range(Tail(s)) \cup {Head(s)}
<1>1. /\ Head(s) \in S /\ Tail(s) \in Seq(S) /\ Head(s) = s[1]
      /\ DOMAIN s = 1..Len(s) /\ DOMAIN Tail(s) = 1..(Len(s) - 1) /\ Len(s) \in Nat
      /\ \A i \in 1..(Len(s) - 1) : Tail(s)[i] = s[i + 1]
  OBVIOUS
<1>2. ASSUME NEW i \in 1..Len(s) PROVE s[i] \in Range(Tail(s)) \cup {Head(s)}
  <2>1. CASE i = 1  BY <1>1, <2>1
  <2>2. CASE i # 1
    <3>1. i - 1 \in 1..(Len(s) - 1) /\ (i - 1) + 1 = i  BY <1>1, <2>2
    <3>2. Tail(s)[i - 1] = s[i]  BY <1>1, <3>1
    <3> QED  BY <1>1, <3>1, <3>2 DEF Range
  <2> QED  BY <2>1, <2>2
<1> QED  BY <1>1, <1>2 DEF Range

LEMMA SeqRange ==
  ASSUME NEW S, NEW s \in Seq(S)
  PROVE  Range(s) \subseteq S
BY DEF Range

LEMMA AppInitInv == AppInit => AppInv
<1> SUFFICES ASSUME AppInit PROVE AppInv
  OBVIOUS
<1>1. AppTypeOK
  <2>1. todo \in Seq(Nodes)  BY AppAssumption DEF AppInit, Nodes
  <2>2. queue \in [Peers -> Seq(Msgs)]  BY DEF AppInit
  <2>3. nodes \in Seq(Nodes) /\ sent \in Seq(Sents)  BY DEF AppInit
  <2>4. config \in Configs /\ asserts \in BOOLEAN /\ bstop \in BOOLEAN /\ early \in BOOLEAN
    BY DEF AppInit
  <2>5. stopper \in [Stoppers -> {"idle", "closing", "done"}]  BY DEF AppInit
  <2>6. client = {} /\ spawned = {} /\ shut = {} /\ mail = {} /\ back = {} /\ heard = {}
        /\ stale = {} /\ fails \in Nat
    BY DEF AppInit
  <2>7. life = "clients" /\ server = "none" /\ ctx = "none" /\ crash = "none"
    BY DEF AppInit
  <2> QED  BY <2>1, <2>2, <2>3, <2>4, <2>5, <2>6, <2>7 DEF AppTypeOK
<1>2. TableInv  BY EmptyRange DEF AppInit, TableInv
<1>3. MsgInv
  <2>1. Pending = {} /\ \A p \in Peers : Range(queue[p]) = {}
    BY EmptyRange DEF AppInit, Pending
  <2> QED  BY <2>1 DEF AppInit, MsgInv, QueueInv, SessionInv, MailInv, SentInv
<1>4. CrashOnlyAtEdges  BY DEF AppInit, CrashOnlyAtEdges, Alive
<1>5. DispatchFate
  <2>1. DOMAIN sent = {}  BY DEF AppInit
  <2> QED  BY <2>1 DEF AppInit, DispatchFate
<1> QED  BY <1>1, <1>2, <1>3, <1>4, <1>5 DEF AppInv

-----------------------------------------------------------------------------
(* Steps of start(), stop() and the links: no message moves. *)

\* What such a step may do to the messages' fate.
LEMMA QuietAppStep ==
  ASSUME AppInv, AppTypeOK', TableInv', UNCHANGED <<setup, msgs>>, shut \subseteq shut',
         UNCHANGED nodes \/ ctx = "none",
         ctx' = ctx \/ ctx = "none" \/ ctx = "init" \/ (ctx = "added" /\ ctx' = "shut"),
         ctx' = "none" => ctx = "none",
         UNCHANGED crash \/ crash' = "race",
         crash = "null" => UNCHANGED life
  PROVE  AppInv'
<1>1. MsgInv'
  BY DEF AppInv, MsgInv, QueueInv, SessionInv, Pending, MailInv, SentInv, Waits, Answers,
     setup, msgs
<1>2. CrashOnlyAtEdges'
  <2>1. Growing' => ctx' = "none"  BY DEF Growing, TableInv
  <2> QED  BY <2>1 DEF AppInv, CrashOnlyAtEdges, Alive
<1>3. DispatchFate'
  <2>1. sent' = sent /\ heard' = heard /\ asserts' = asserts  BY DEF setup, msgs
  <2>2. sent # << >> => UNCHANGED nodes  BY DEF AppInv, MsgInv, SentInv
  <2>3. DOMAIN << >> = {}  OBVIOUS
  <2>4. heard # {} => ctx \in {"added", "shut"}  BY DEF AppInv, DispatchFate
  <2>5. heard # {} => ctx' \in {"added", "shut"}  BY <2>4
  <2>6. ASSUME NEW t \in DOMAIN sent
        PROVE  /\ sent[t].fate = "wrong" => sent[t].name >= ByteMod /\ ~asserts
               /\ sent[t].fate = "dropped" =>
                    \/ sent[t].node = Self /\ (sent[t].name = MyName => sent[t].at # "added")
                    \/ sent[t].node # Self /\ sent[t].name \notin PeerNames
                    \/ sent[t].node # Self /\ sent[t].name >= ByteMod /\ ~asserts
                    \/ sent[t].node \in shut' \/ ~GetNode(sent[t].node)'
    <3>1. UNCHANGED nodes  BY <2>2, <2>3
    <3>2. /\ sent[t].fate = "wrong" => sent[t].name >= ByteMod /\ ~asserts
          /\ sent[t].fate = "dropped" =>
               \/ sent[t].node = Self /\ (sent[t].name = MyName => sent[t].at # "added")
               \/ sent[t].node # Self /\ sent[t].name \notin PeerNames
               \/ sent[t].node # Self /\ sent[t].name >= ByteMod /\ ~asserts
               \/ sent[t].node \in shut \/ ~GetNode(sent[t].node)
      BY DEF AppInv, DispatchFate
    <3>3. GetNode(sent[t].node)' <=> GetNode(sent[t].node)  BY <2>1, <3>1 DEF GetNode
    <3> QED  BY <3>2, <3>3
  <2>7. \A m \in heard :
          /\ m.session \in DOMAIN sent /\ m.from.node = sent[m.session].node
          /\ sent[m.session].fate = "wrong" \/ m.from.node = Self
               \/ m.from.ctx = sent[m.session].name
    BY DEF AppInv, DispatchFate
  <2> QED  BY <2>1, <2>5, <2>6, <2>7 DEF DispatchFate
<1> QED  BY <1>1, <1>2, <1>3 DEF AppInv

LEMMA StartStepInv == ASSUME AppInv, StartStep, crash = "none" PROVE AppInv'
<1> USE DEF setup, table, stops
<1>0. /\ AppTypeOK /\ TableInv /\ nodes \in Seq(Nodes) /\ todo \in Seq(Nodes)
      /\ Self \in Nodes /\ Self \notin Peers
  BY AppAssumption DEF AppInv, AppTypeOK, Nodes
<1>1. CASE CreateClient
  <2>1. Head(todo) \in Nodes /\ Tail(todo) \in Seq(Nodes)
    BY <1>0, <1>1, TailRange DEF CreateClient
  <2>2. CASE Head(todo) = Self
    <3>1. UNCHANGED <<nodes, client>>  BY <1>1, <2>2 DEF CreateClient
    <3>2. AppTypeOK'  BY <1>0, <1>1, <2>1, <3>1 DEF CreateClient, AppTypeOK, msgs
    <3>3. TableInv'  BY <1>0, <1>1, <3>1 DEF CreateClient, TableInv
    <3> QED  BY <1>0, <1>1, <3>1, <3>2, <3>3, QuietAppStep DEF CreateClient, TableInv
  <2>3. CASE Head(todo) # Self
    <3>1. nodes' = Append(nodes, Head(todo)) /\ client' = client \cup {Head(todo)}
      BY <1>1, <2>3 DEF CreateClient
    <3>2. nodes' \in Seq(Nodes) /\ Range(nodes') = Range(nodes) \cup {Head(todo)}
      BY <1>0, <2>1, <3>1, AppendRange
    <3>3. AppTypeOK'
      <4>1. client' \subseteq Peers  BY <1>0, <2>1, <2>3, <3>1 DEF AppTypeOK, Nodes
      <4> QED  BY <1>0, <1>1, <2>1, <3>2, <4>1 DEF CreateClient, AppTypeOK, msgs
    <3>4. TableInv'  BY <1>0, <1>1, <3>1, <3>2 DEF CreateClient, TableInv
    <3> QED  BY <1>0, <1>1, <3>3, <3>4, QuietAppStep DEF CreateClient, TableInv
  <2> QED  BY <2>2, <2>3
<1>2. CASE SelfMissing
  <2>1. AppTypeOK' /\ TableInv'
    BY <1>0, <1>2 DEF SelfMissing, AppTypeOK, TableInv, msgs
  <2> QED  BY <1>0, <1>2, <2>1, QuietAppStep DEF SelfMissing, TableInv
<1>3. CASE CreateRpcServer
  <2>1. nodes' \in Seq(Nodes) /\ Range(nodes') = Range(nodes) \cup {Self}
    BY <1>0, <1>3, AppendRange DEF CreateRpcServer
  <2>2. AppTypeOK'  BY <1>0, <1>3, <2>1 DEF CreateRpcServer, AppTypeOK, msgs
  <2>3. TableInv'  BY <1>0, <1>3, <2>1 DEF CreateRpcServer, TableInv
  <2> QED  BY <1>0, <1>3, <2>2, <2>3, QuietAppStep DEF CreateRpcServer, TableInv
<1>4. CASE RpcServerStart
  <2>1. AppTypeOK' /\ TableInv'
    BY <1>0, <1>4 DEF RpcServerStart, AppTypeOK, TableInv, msgs
  <2> QED  BY <1>0, <1>4, <2>1, QuietAppStep DEF RpcServerStart
<1>5. CASE Bootstrap
  <2>1. AppTypeOK' /\ TableInv'
    BY <1>0, <1>5 DEF Bootstrap, AppTypeOK, TableInv, msgs
  <2> QED  BY <1>0, <1>5, <2>1, QuietAppStep DEF Bootstrap, TableInv
<1>6. CASE Bootstrapped
  <2>1. AppTypeOK' /\ TableInv'
    BY <1>0, <1>6 DEF Bootstrapped, AppTypeOK, TableInv, msgs
  <2> QED  BY <1>0, <1>6, <2>1, QuietAppStep DEF Bootstrapped, TableInv
<1>7. CASE ServerOver
  <2>1. AppTypeOK' /\ TableInv'
    BY <1>0, <1>7 DEF ServerOver, AppTypeOK, TableInv, msgs
  <2> QED  BY <1>0, <1>7, <2>1, QuietAppStep DEF ServerOver
<1>8. CASE ShutdownLink
  <2>1. /\ Head(todo) \in Nodes /\ Tail(todo) \in Seq(Nodes)
        /\ Range(todo) \subseteq Range(Tail(todo)) \cup {Head(todo)}
    BY <1>0, <1>8, TailRange DEF ShutdownLink
  <2>2. AppTypeOK'  BY <1>0, <1>8, <2>1 DEF ShutdownLink, AppTypeOK, msgs
  <2>3. TableInv'  BY <1>0, <1>8, <2>1 DEF ShutdownLink, TableInv
  <2> QED  BY <1>0, <1>8, <2>2, <2>3, QuietAppStep DEF ShutdownLink
<1>9. CASE ShutdownCtxs
  <2>1. AppTypeOK'  BY <1>0, <1>9 DEF ShutdownCtxs, AppTypeOK, msgs
  <2>2. TableInv'  BY <1>0, <1>9, EmptyRange DEF ShutdownCtxs, TableInv
  <2> QED  BY <1>0, <1>9, <2>1, <2>2, QuietAppStep DEF ShutdownCtxs
<1>10. CASE BootstrapThrows
  <2>1. AppTypeOK' /\ TableInv'
    BY <1>0, <1>10 DEF BootstrapThrows, AppTypeOK, TableInv, msgs
  <2> QED  BY <1>0, <1>10, <2>1, QuietAppStep DEF BootstrapThrows, TableInv
<1> QED
  BY <1>1, <1>2, <1>3, <1>4, <1>5, <1>6, <1>7, <1>8, <1>9, <1>10 DEF StartStep

LEMMA OtherQuietInv ==
  ASSUME AppInv, crash = "none",
         \/ \E t \in Stoppers : StopStep(t)
         \/ \E p \in Peers : NodeMqSpawn(p)
  PROVE  AppInv'
<1> USE DEF setup, table, stops
<1>0. AppTypeOK /\ TableInv  BY DEF AppInv
<1>1. ASSUME NEW t \in Stoppers, StopStep(t) PROVE AppInv'
  <2>1. AppTypeOK'
    BY <1>0, <1>1 DEF StopStep, StopExchange, RpcServerClose, AppTypeOK, msgs
  <2>2. TableInv'  BY <1>0, <1>1 DEF StopStep, StopExchange, RpcServerClose, TableInv
  <2> QED
    BY <1>1, <2>1, <2>2, QuietAppStep DEF StopStep, StopExchange, RpcServerClose
<1>2. ASSUME NEW p \in Peers, NodeMqSpawn(p) PROVE AppInv'
  <2>1. AppTypeOK'  BY <1>0, <1>2 DEF NodeMqSpawn, AppTypeOK, msgs
  <2>2. TableInv'  BY <1>0, <1>2 DEF NodeMqSpawn, TableInv
  <2> QED  BY <1>2, <2>1, <2>2, QuietAppStep DEF NodeMqSpawn
<1> QED  BY <1>1, <1>2

-----------------------------------------------------------------------------
(* Steps of the messages: the table of nodes and the contexts stay. *)

LEMMA AppendAt ==
  ASSUME NEW S, NEW s \in Seq(S), NEW e \in S
  PROVE  /\ Append(s, e) \in Seq(S) /\ Len(Append(s, e)) = Len(s) + 1 /\ Len(s) \in Nat
         /\ DOMAIN Append(s, e) = 1..(Len(s) + 1) /\ DOMAIN s = 1..Len(s)
         /\ \A i \in 1..Len(s) : Append(s, e)[i] = s[i]
         /\ Append(s, e)[Len(s) + 1] = e
OBVIOUS

\* One entry of DispatchFate.
FateOK(d) ==
  /\ d.fate = "wrong" => d.name >= ByteMod /\ ~asserts
  /\ d.fate = "dropped" =>
       \/ d.node = Self /\ (d.name = MyName => d.at # "added")
       \/ d.node # Self /\ d.name \notin PeerNames
       \/ d.node # Self /\ d.name >= ByteMod /\ ~asserts
       \/ d.node \in shut \/ ~GetNode(d.node)

\* DispatchFate, apart from what MailInv says about the answers.
LEMMA FateSplit ==
  ASSUME AppTypeOK, MailInv
  PROVE  DispatchFate <=> /\ \A t \in 1..Len(sent) : FateOK(sent[t])
                          /\ heard # {} => ctx \in {"added", "shut"}
<1>1. DOMAIN sent = 1..Len(sent)  BY DEF AppTypeOK
<1>2. \A m \in heard :
        /\ m.session \in 1..Len(sent) /\ m.from.node = sent[m.session].node
        /\ sent[m.session].fate = "wrong" \/ m.from.node = Self
             \/ m.from.ctx = sent[m.session].name
  BY DEF MailInv, Answers
<1>3. DispatchFate => /\ \A t \in 1..Len(sent) : FateOK(sent[t])
                      /\ heard # {} => ctx \in {"added", "shut"}
  BY <1>1 DEF DispatchFate, FateOK
<1>4. ASSUME \A t \in 1..Len(sent) : FateOK(sent[t]),
             heard # {} => ctx \in {"added", "shut"}
      PROVE  DispatchFate
  BY <1>1, <1>2, <1>4 DEF DispatchFate, FateOK
<1> QED  BY <1>3, <1>4

\* A step of the messages alone cannot disturb the rest of the invariant.
LEMMA MessageStep ==
  ASSUME AppInv, UNCHANGED <<app, crash>>, AppTypeOK', QueueInv', SessionInv', MailInv',
         SentInv', \A t \in 1..Len(sent') : FateOK(sent'[t]),
         heard' # {} => ctx \in {"added", "shut"}
  PROVE  AppInv'
<1> USE DEF app, setup, table, stops
<1>1. TableInv'  BY DEF AppInv, TableInv
<1>2. CrashOnlyAtEdges'  BY DEF AppInv, CrashOnlyAtEdges, Growing, Alive
<1>3. DispatchFate'
  <2>1. (DispatchFate <=> /\ \A t \in 1..Len(sent) : FateOK(sent[t])
                          /\ heard # {} => ctx \in {"added", "shut"})'
    BY FateSplit, PTL
  <2>2. (\A t \in 1..Len(sent) : FateOK(sent[t]))'
    BY DEF FateOK, GetNode
  <2> QED  BY <2>1, <2>2
<1> QED  BY <1>1, <1>2, <1>3 DEF AppInv, MsgInv

LEMMA SendsInv ==
  ASSUME AppInv, Alive, NEW node \in Nodes, NEW name \in Names, NEW m \in Msgs,
         Sends(node, name, m), UNCHANGED <<app, crash, stale, fails, back, heard>>,
         m.session = Len(sent) + 1,
         ToLink(m) =>
           /\ m.to.node = node
           /\ ~m.route => m.to = Handle(node, name)
           /\ m.route => /\ m.size = name % ByteMod /\ m.chars = name
                         /\ asserts => name < ByteMod,
         ToMailbox(m) => node = Self,
         ToLink(m) \/ ToMailbox(m) \/ node \in shut \/ ~GetNode(node)
           \/ (node = Self /\ (name = MyName => ctx # "added"))
  PROVE  AppInv'
<1> DEFINE d == [node |-> node, name |-> name, at |-> ctx,
                 fate |-> IF ToMailbox(m) THEN "right"
                          ELSE IF ToLink(m) THEN "queued" ELSE "dropped"]
<1>0. /\ AppTypeOK /\ sent \in Seq(Sents) /\ queue \in [Peers -> Seq(Msgs)]
      /\ QueueInv /\ SessionInv /\ MailInv /\ DispatchFate
  BY DEF AppInv, MsgInv, AppTypeOK
<1>1. d \in Sents  BY DEF Sents, Alive
<1>2. sent' = Append(sent, d)  BY DEF Sends
<1> HIDE DEF d
<1>3. /\ sent' \in Seq(Sents) /\ Len(sent') = Len(sent) + 1 /\ Len(sent) \in Nat
      /\ \A t \in 1..Len(sent) : sent'[t] = sent[t]
      /\ sent'[Len(sent) + 1] = d
  BY <1>0, <1>1, <1>2, AppendAt
<1>4. /\ d.node = node /\ d.name = name /\ d.at = ctx
      /\ d.fate = IF ToMailbox(m) THEN "right" ELSE IF ToLink(m) THEN "queued" ELSE "dropped"
  BY DEF d
<1>5. ToLink(m) => m.to.node \in Peers /\ ~ToMailbox(m)
  <2>1. Range(nodes) \subseteq Nodes  BY <1>0, SeqRange DEF AppTypeOK
  <2> QED  BY <2>1 DEF ToLink, ToMailbox, GetNode, Nodes, MyId, Handle
<1>6. /\ ToLink(m) => queue' = [queue EXCEPT ![m.to.node] = Append(@, m)]
      /\ ~ToLink(m) => queue' = queue
      /\ mail' = IF ToMailbox(m) THEN mail \cup {[at |-> MyId, m |-> m]} ELSE mail
  BY DEF Sends, NodeMqPush
<1>7. ASSUME NEW p \in Peers
      PROVE  /\ queue'[p] \in Seq(Msgs)
             /\ \/ Range(queue'[p]) = Range(queue[p])
                \/ ToLink(m) /\ p = node /\ Range(queue'[p]) = Range(queue[p]) \cup {m}
  <2>0. queue[p] \in Seq(Msgs)  BY <1>0
  <2>1. CASE ToLink(m) /\ p = node
    <3>1. queue'[p] = Append(queue[p], m)  BY <1>0, <1>6, <2>1
    <3> QED  BY <2>0, <2>1, <3>1, AppendAt, AppendRange
  <2>2. CASE ~(ToLink(m) /\ p = node)
    <3>1. queue'[p] = queue[p]  BY <1>0, <1>6, <2>2
    <3> QED  BY <2>0, <3>1
  <2> QED  BY <2>1, <2>2
<1>8. AppTypeOK'
  <2>1. queue' \in [Peers -> Seq(Msgs)]
    <3>1. CASE ToLink(m)
      <4>1. Append(queue[m.to.node], m) \in Seq(Msgs)  BY <1>0, <1>5, <3>1, AppendAt
      <4> QED  BY <1>0, <1>6, <3>1, <4>1
    <3> QED  BY <1>0, <1>6, <3>1
  <2>2. MyId \in Handles
    BY AppAssumption DEF MyId, Handle, Handles, Nodes
  <2>3. mail' \subseteq [at : Handles, m : Msgs]
    BY <1>0, <1>6, <2>2 DEF AppTypeOK
  <2> QED  BY <1>0, <1>3, <2>1, <2>3 DEF AppTypeOK, app, setup, table, stops
<1>9. ASSUME NEW q, Waits(q) PROVE Waits(q)'
  BY <1>3, <1>9 DEF Waits, app, setup
<1>10. ToLink(m) => Waits(m)'
  <2> SUFFICES ASSUME ToLink(m) PROVE Waits(m)'
    OBVIOUS
  <2>1. m.session \in 1..Len(sent') /\ sent'[m.session] = d /\ asserts' = asserts
    BY <1>3 DEF app, setup
  <2> QED  BY <2>1, <1>4, <1>5 DEF Waits
<1>11. \A q \in Pending' : q \in Pending \/ (ToLink(m) /\ q = m)
  BY <1>7 DEF Pending
<1>12. QueueInv'
  <2>1. ASSUME NEW q \in Pending' PROVE Waits(q)'
    BY <1>0, <1>9, <1>10, <1>11 DEF QueueInv
  <2>2. ASSUME NEW p \in Peers, NEW q \in Range(queue'[p]) PROVE q.to.node = p
    BY <1>0, <1>7 DEF QueueInv
  <2> QED  BY <2>1, <2>2 DEF QueueInv
<1>13. SessionInv'
  <2>1. \A q \in Pending : q.session # m.session
    <3>1. \A q \in Pending : q.session \in 1..Len(sent)  BY <1>0 DEF QueueInv, Waits
    <3> QED  BY <1>3, <3>1
  <2> QED  BY <1>0, <1>11, <2>1 DEF SessionInv
<1>14. MailInv'
  <2>1. ASSUME NEW h, NEW t, Answers(h, t) PROVE Answers(h, t)'
    BY <1>3, <2>1 DEF Answers
  <2>2. ToMailbox(m) => Answers(MyId, m.session)'
    BY <1>3, <1>4 DEF Answers, MyId, Handle
  <2> QED  BY <1>0, <1>6, <2>1, <2>2 DEF MailInv
<1>15. SentInv'  BY DEF SentInv, Alive, app
<1>16. ASSUME NEW t \in 1..Len(sent') PROVE FateOK(sent'[t])
  <2>1. CASE t \in 1..Len(sent)
    BY <1>0, <1>3, <2>1, FateSplit
  <2>2. CASE t \notin 1..Len(sent)
    <3>1. sent'[t] = d  BY <1>3, <2>2
    <3>2. FateOK(d)  BY <1>4 DEF FateOK
    <3> QED  BY <3>1, <3>2
  <2> QED  BY <2>1, <2>2
<1>17. heard' # {} => ctx \in {"added", "shut"}  BY <1>0 DEF DispatchFate
<1> QED  BY <1>8, <1>12, <1>13, <1>14, <1>15, <1>16, <1>17, MessageStep

LEMMA DispatchInv ==
  ASSUME AppInv, NEW node \in Nodes, NEW name \in Names,
         DispatchId(node, name) \/ DispatchName(node, name)
  PROVE  AppInv'
<1>0. name \in Nat \ {0} /\ ByteMod \in Nat \ {0} /\ MyName \in Nat \ {0}
  BY AppAssumption, ByteAssumption
<1>1. /\ Len(sent) + 1 \in Nat /\ Self \in Nodes /\ 0 \notin Nodes
      /\ MyId \in Handles /\ MyId = [node |-> Self, ctx |-> MyName]
      /\ NoId \in Handles /\ NoId = [node |-> 0, ctx |-> 0]
      /\ Handle(node, name) \in Handles /\ Handle(node, name) = [node |-> node, ctx |-> name]
      /\ Handle(node, 0) \in Handles /\ Handle(node, 0) = [node |-> node, ctx |-> 0]
  BY <1>0, AppAssumption DEF AppInv, AppTypeOK, Nodes, Handles, Handle, MyId, NoId
<1>2. ~GetNode(0)
  <2>1. Range(nodes) \subseteq Nodes  BY SeqRange DEF AppInv, AppTypeOK
  <2> QED  BY <1>1, <2>1 DEF GetNode
<1>3. CASE DispatchId(node, name)
  <2> DEFINE m == Make(MyId, Handle(node, name), Len(sent) + 1, FALSE)
  <2>1. Alive /\ Sends(node, name, m) /\ UNCHANGED <<app, crash, stale, fails, back, heard>>
    BY <1>3 DEF DispatchId
  <2>2. /\ m \in Msgs /\ m.session = Len(sent) + 1 /\ ~m.route
        /\ m.to = [node |-> node, ctx |-> name]
    BY <1>1 DEF Make, Msgs
  <2> HIDE DEF m
  <2>3. m.to.node = node /\ m.to.ctx = name  BY <2>2
  <2>4. ToMailbox(m) <=> node = Self /\ name = MyName /\ ctx = "added"
    BY <1>1, <2>2 DEF ToMailbox
  <2>5. ToLink(m) <=> node # Self /\ GetNode(node) /\ node \notin shut
    BY <2>3 DEF ToLink
  <2> QED  BY <1>1, <2>1, <2>2, <2>3, <2>4, <2>5, SendsInv
<1>4. CASE DispatchName(node, name) /\ node # Self
  <2> DEFINE m == MakeNamed(MyId, node, name, Len(sent) + 1)
  <2>1. Alive /\ Sends(node, name, m) /\ UNCHANGED <<app, crash, stale, fails, back, heard>>
    BY <1>4 DEF DispatchName
  <2>2. name % ByteMod \in Nat  BY <1>0
  <2>3. /\ m \in Msgs /\ m.session = Len(sent) + 1 /\ m.route
        /\ m.to = [node |-> node, ctx |-> 0] /\ m.size = name % ByteMod /\ m.chars = name
    BY <1>0, <1>1, <2>2 DEF MakeNamed, Msgs
  <2>4. asserts => name < ByteMod  BY <1>0, <1>4 DEF DispatchName
  <2> HIDE DEF m
  <2>5. m.to.node = node /\ m.to.ctx = 0  BY <2>3
  <2>6. ~ToMailbox(m)  BY <1>0, <1>1, <2>3 DEF ToMailbox
  <2>7. ToLink(m) <=> GetNode(node) /\ node \notin shut  BY <1>4, <2>5 DEF ToLink
  <2> QED  BY <2>1, <2>3, <2>4, <2>5, <2>6, <2>7, SendsInv
<1>5. CASE DispatchName(node, name) /\ node = Self
  <2> DEFINE m == Make(MyId, FindName(name), Len(sent) + 1, FALSE)
  <2>1. Alive /\ Sends(node, name, m) /\ UNCHANGED <<app, crash, stale, fails, back, heard>>
    BY <1>5 DEF DispatchName
  <2>2. FindName(name) \in Handles /\ FindName(name) = IF name = MyName THEN MyId ELSE NoId
    BY <1>1 DEF FindName
  <2>3. m \in Msgs /\ m.session = Len(sent) + 1 /\ ~m.route /\ m.to = FindName(name)
    BY <1>1, <2>2 DEF Make, Msgs
  <2> HIDE DEF m
  <2>4. ~ToLink(m)
    <3>1. m.to.node = Self \/ m.to.node = 0  BY <1>1, <2>2, <2>3
    <3> QED  BY <3>1, <1>2 DEF ToLink
  <2>5. name = MyName /\ ctx = "added" => ToMailbox(m)  BY <2>2, <2>3 DEF ToMailbox
  <2> QED  BY <1>5, <2>1, <2>3, <2>4, <2>5, SendsInv
<1> QED  BY <1>3, <1>4, <1>5

\* The process ends in a context: by an assertion, or because the client of a
\* link has been taken away.
LEMMA ContextCrashInv ==
  ASSUME AppInv, NEW node \in Nodes,
         CtxCall(node) \/ \E name \in Names : DispatchAborts(node, name)
  PROVE  AppInv'
<1> USE DEF app, setup, table, stops, msgs
<1>1. UNCHANGED <<app, msgs>> /\ crash' \in {"assert", "null"}
  BY DEF CtxCall, DispatchAborts
<1>2. AppTypeOK'  BY <1>1 DEF AppInv, AppTypeOK
<1>3. TableInv'  BY <1>1 DEF AppInv, TableInv
<1>4. MsgInv'
  BY <1>1 DEF AppInv, MsgInv, QueueInv, SessionInv, Pending, MailInv, SentInv, Waits, Answers
<1>5. DispatchFate'  BY <1>1 DEF AppInv, DispatchFate, GetNode
<1>6. crash' = "null" => life \in {"links", "returned"}
  <2>1. CASE CtxCall(node)
    <3>1. node \in Range(nodes) /\ node # Self /\ node \notin client
          /\ ctx \in {"init", "added", "shut"}
      BY <2>1 DEF CtxCall, GetNode, Alive
    <3>2. life \notin {"clients", "serve", "boot", "init", "block", "threw"}
      BY <3>1 DEF AppInv, TableInv
    <3> QED  BY <3>2 DEF AppInv, AppTypeOK
  <2>2. CASE \E name \in Names : DispatchAborts(node, name)
    BY <2>2 DEF DispatchAborts
  <2> QED  BY <2>1, <2>2
<1>7. CrashOnlyAtEdges'  BY <1>1, <1>6 DEF AppInv, CrashOnlyAtEdges, Growing, Alive
<1> QED  BY <1>2, <1>3, <1>4, <1>5, <1>7 DEF AppInv

LEMMA AnswerInv ==
  ASSUME AppInv,
         (\E x \in mail : Response(x)) \/ \E m \in back : RpcOnMq(m)
  PROVE  AppInv'
<1> USE DEF app, setup, table, stops, msgs
<1>0. /\ AppTypeOK /\ MailInv /\ DispatchFate /\ mail \subseteq [at : Handles, m : Msgs]
      /\ back \subseteq Msgs /\ heard \subseteq Msgs
  BY DEF AppInv, MsgInv, AppTypeOK
<1>1. UNCHANGED <<app, crash, queue, stale, fails, sent>>  BY DEF Response, RpcOnMq
<1>2. /\ mail' \subseteq mail
      /\ \A m \in back' \cup heard' : m \in Msgs /\ Answers(m.from, m.session)
  <2>1. ASSUME NEW x \in mail, Response(x)
        PROVE  /\ mail' \subseteq mail
               /\ \A m \in back' \cup heard' : m \in Msgs /\ Answers(m.from, m.session)
    <3> DEFINE r == Make(x.at, x.m.from, x.m.session, TRUE)
    <3>1. x.at \in Handles /\ x.m \in Msgs /\ Answers(x.at, x.m.session)
      BY <1>0 DEF MailInv
    <3>2. x.m.from \in Handles /\ x.m.session \in Nat  BY <3>1 DEF Msgs
    <3>3. r \in Msgs /\ r.from = x.at /\ r.session = x.m.session
      BY <3>1, <3>2 DEF Make, Msgs
    <3>4. mail' \subseteq mail /\ back' \cup heard' \subseteq back \cup heard \cup {r}
      BY <2>1 DEF Response
    <3> HIDE DEF r
    <3> QED  BY <1>0, <3>1, <3>3, <3>4 DEF MailInv
  <2>2. ASSUME NEW m \in back, RpcOnMq(m)
        PROVE  mail' \subseteq mail /\ back' \cup heard' \subseteq back \cup heard
    BY <2>2 DEF RpcOnMq
  <2> QED  BY <1>0, <2>1, <2>2 DEF MailInv
<1>3. AppTypeOK'  BY <1>0, <1>1, <1>2 DEF AppTypeOK
<1>4. QueueInv' /\ SessionInv' /\ SentInv'
  BY <1>1 DEF AppInv, MsgInv, QueueInv, SessionInv, Pending, SentInv, Waits
<1>5. MailInv'  BY <1>0, <1>1, <1>2 DEF MailInv, Answers
<1>6. heard' # {} => ctx \in {"added", "shut"}
  BY <1>0 DEF Response, RpcOnMq, ToMailbox, DispatchFate
<1>7. \A t \in 1..Len(sent') : FateOK(sent'[t])  BY <1>0, <1>1, FateSplit
<1> QED  BY <1>1, <1>3, <1>4, <1>5, <1>6, <1>7, MessageStep

\* Where rpc_on_mq finds the context of a message, and the fate that it meets.
LEMMA FateMet ==
  ASSUME AppInv, NEW m, Waits(m)
  PROVE  LET p == m.to.node
             d == sent[m.session]
             to == Receiver(p, m)
             f == FateAt(p, m, d.name)
         IN  /\ to.node = p /\ to \in Handles
             /\ f \in {"right", "wrong", "dropped"}
             /\ f = "wrong" => d.name >= ByteMod /\ ~asserts
             /\ f = "dropped" => \/ d.name \notin PeerNames
                                 \/ d.name >= ByteMod /\ ~asserts
             /\ f = "right" => to.ctx = d.name
             /\ to.ctx \in PeerNames => f # "dropped"
<1> DEFINE p == m.to.node
           n == sent[m.session].name
           to == Receiver(p, m)
           f == FateAt(p, m, n)
<1>0. /\ n \in Nat \ {0} /\ ByteMod \in Nat \ {0} /\ p \in Nodes /\ asserts \in BOOLEAN
      /\ m.to \in Handles /\ m.size \in Nat /\ m.chars \in Nat /\ m.route \in BOOLEAN
  <2>1. m \in Msgs /\ m.session \in 1..Len(sent) /\ p \in Peers  BY DEF Waits
  <2>2. sent[m.session] \in Sents /\ asserts \in BOOLEAN  BY <2>1 DEF AppInv, AppTypeOK
  <2>3. n \in Nat \ {0}  BY <2>2, AppAssumption DEF Sents
  <2> QED  BY <2>1, <2>2, <2>3, ByteAssumption DEF Msgs, Nodes
<1>1. /\ f = IF to.ctx \notin PeerNames THEN "dropped"
             ELSE IF to.ctx = n /\ StrayIn(m) = 0 THEN "right" ELSE "wrong"
  BY DEF FateAt
<1>2. /\ to.node = p /\ to \in Handles
      /\ n < ByteMod => to.ctx = n /\ StrayIn(m) = 0
      /\ m.route /\ asserts => n < ByteMod
      /\ m.route \/ (to.ctx = n /\ StrayIn(m) = 0)
  <2>1. CASE ~m.route
    <3>1. m.to = Handle(p, n)  BY <2>1 DEF Waits
    <3>2. to = m.to /\ StrayIn(m) = 0  BY <2>1 DEF Receiver, NameIn, StrayIn
    <3> HIDE DEF to, n, p
    <3>3. to = [node |-> p, ctx |-> n]  BY <3>1, <3>2 DEF Handle
    <3>4. to.node = p /\ to.ctx = n  BY <3>3
    <3>5. to \in Handles  BY <1>0, <3>3 DEF Handles
    <3> QED  BY <1>0, <2>1, <3>2, <3>4, <3>5
  <2>2. CASE m.route
    <3>1. m.size = n % ByteMod /\ m.chars = n /\ (asserts => n < ByteMod)
      BY <2>2 DEF Waits
    <3>2. NameIn(m) = m.size /\ StrayIn(m) = m.chars - m.size
      BY <2>2 DEF NameIn, StrayIn
    <3>3. to = IF m.size # 0 THEN [node |-> p, ctx |-> m.size] ELSE m.to
      BY <3>2 DEF Receiver, Handle
    <3>4. m.to.node = p  OBVIOUS
    <3> HIDE DEF to, n, p
    <3>5. n < ByteMod => m.size = n  BY <1>0, <3>1
    <3>6. to.node = p /\ to \in Handles  BY <1>0, <3>3, <3>4 DEF Handles
    <3>7. m.size # 0 => to.ctx = m.size  BY <3>3
    <3>8. n < ByteMod => to.ctx = n /\ m.chars = m.size  BY <1>0, <3>1, <3>5, <3>7
    <3>9. m.chars = m.size => StrayIn(m) = 0  BY <1>0, <3>2
    <3> QED  BY <2>2, <3>1, <3>6, <3>8, <3>9
  <2> QED  BY <2>1, <2>2
<1> HIDE DEF to, f, n, p
<1>3. /\ f \in {"right", "wrong", "dropped"}
      /\ f = "wrong" => n >= ByteMod /\ ~asserts
      /\ f = "dropped" => n \notin PeerNames \/ (n >= ByteMod /\ ~asserts)
      /\ f = "right" => to.ctx = n
      /\ to.ctx \in PeerNames => f # "dropped"
  BY <1>0, <1>1, <1>2
<1> QED  BY <1>2, <1>3 DEF to, f, n, p

\* A peer handles a message that is in a link or was in one, for the first time
\* or again.
LEMMA HandledInv ==
  ASSUME AppInv, NEW m \in Pending, PeerOnMq(m.to.node, m),
         UNCHANGED <<app, crash, fails, back, heard>>,
         queue' \in [Peers -> Seq(Msgs)], stale' \subseteq stale,
         \A q \in Peers : Range(queue'[q]) \subseteq Range(queue[q])
  PROVE  AppInv'
<1> DEFINE s == m.session
           p == m.to.node
           to == Receiver(p, m)
           f == FateAt(p, m, sent[s].name)
<1>0. /\ AppTypeOK /\ sent \in Seq(Sents) /\ QueueInv /\ SessionInv /\ MailInv /\ SentInv
      /\ DispatchFate
  BY DEF AppInv, MsgInv, AppTypeOK
<1>1. /\ mail' = IF to.ctx \in PeerNames THEN mail \cup {[at |-> to, m |-> m]} ELSE mail
      /\ sent' = [sent EXCEPT ![s].fate = f]
  BY DEF PeerOnMq
<1>2. Waits(m)  BY <1>0 DEF QueueInv
<1>3. /\ m \in Msgs /\ s \in 1..Len(sent) /\ sent[s] \in Sents /\ sent[s].node = p
      /\ p \in Peers
      /\ sent[s].fate = "queued" \/ sent[s].fate = f
      /\ DOMAIN sent = 1..Len(sent)
  BY <1>0, <1>2 DEF Waits
<1>4. /\ to.node = p /\ to \in Handles
      /\ f \in {"right", "wrong", "dropped"}
      /\ f = "wrong" => sent[s].name >= ByteMod /\ ~asserts
      /\ f = "dropped" => \/ sent[s].name \notin PeerNames
                          \/ sent[s].name >= ByteMod /\ ~asserts
      /\ f = "right" => to.ctx = sent[s].name
      /\ to.ctx \in PeerNames => f # "dropped"
  BY <1>2, FateMet
<1>f. f = FateAt(m.to.node, m, sent[m.session].name) /\ s = m.session /\ p = m.to.node
  OBVIOUS
<1> HIDE DEF s, p, to, f
<1>5. /\ sent' \in Seq(Sents) /\ Len(sent') = Len(sent)
      /\ \A t \in 1..Len(sent) : t # s => sent'[t] = sent[t]
      /\ sent'[s].node = p /\ sent'[s].name = sent[s].name /\ sent'[s].fate = f
  <2>1. sent' = [sent EXCEPT ![s] = [sent[s] EXCEPT !.fate = f]]  BY <1>0, <1>1, <1>3
  <2>2. [sent[s] EXCEPT !.fate = f] \in Sents  BY <1>3, <1>4 DEF Sents
  <2>3. PICK e \in Sents : e = [sent[s] EXCEPT !.fate = f]  BY <2>2
  <2>4. e.node = p /\ e.name = sent[s].name /\ e.fate = f  BY <1>3, <2>3 DEF Sents
  <2>5. sent' = [sent EXCEPT ![s] = e]  BY <2>1, <2>3
  <2> HIDE DEF Sents
  <2> QED  BY <1>0, <1>3, <2>4, <2>5
<1>6. AppTypeOK'
  <2>1. mail' \subseteq [at : Handles, m : Msgs]
    BY <1>0, <1>1, <1>3, <1>4 DEF AppTypeOK
  <2> QED  BY <1>0, <1>5, <2>1 DEF AppTypeOK, app, setup, table, stops
<1>7. Pending' \subseteq Pending  BY DEF Pending
<1>8. QueueInv'
  <2>1. ASSUME NEW x \in Pending' PROVE Waits(x)'
    <3>1. x \in Pending /\ Waits(x)  BY <1>0, <1>7 DEF QueueInv
    <3>2. CASE x.session # s
      <4>1. sent'[x.session] = sent[x.session] /\ Len(sent') = Len(sent) /\ asserts' = asserts
        BY <1>5, <3>1, <3>2 DEF Waits, app, setup
      <4> QED  BY <3>1, <4>1 DEF Waits
    <3>3. CASE x.session = s
      <4>1. x = m  BY <1>0, <1>f, <3>1, <3>3 DEF SessionInv
      <4>2. asserts' = asserts  BY DEF app, setup
      <4> QED  BY <1>2, <1>3, <1>5, <1>f, <4>1, <4>2 DEF Waits
    <3> QED  BY <3>2, <3>3
  <2>2. ASSUME NEW q \in Peers, NEW x \in Range(queue'[q]) PROVE x.to.node = q
    BY <1>0 DEF QueueInv
  <2> QED  BY <2>1, <2>2 DEF QueueInv
<1>9. SessionInv'  BY <1>0, <1>7 DEF SessionInv
<1>10. MailInv'
  <2>1. ASSUME NEW h, NEW t, Answers(h, t) PROVE Answers(h, t)'
    <3>1. t \in 1..Len(sent)  BY <2>1 DEF Answers
    <3>2. CASE t # s  BY <1>5, <2>1, <3>1, <3>2 DEF Answers
    <3>3. CASE t = s
      <4>1. sent[s].fate = f  BY <1>3, <2>1, <3>3 DEF Answers
      <4> QED  BY <1>3, <1>4, <1>5, <2>1, <3>3, <4>1 DEF Answers
    <3> QED  BY <3>2, <3>3
  <2>2. PICK h \in Handles, x \in Msgs : h = to /\ x = m  BY <1>3, <1>4
  <2>3. h.ctx \in PeerNames => Answers(h, x.session)'
    <3>1. h.ctx \in PeerNames => f = "right" \/ f = "wrong"  BY <1>4, <2>2
    <3>2. x.session = s  BY <1>f, <2>2
    <3>3. h.node = p /\ (f = "right" => h.ctx = sent[s].name)  BY <1>4, <2>2
    <3> QED  BY <1>3, <1>5, <3>1, <3>2, <3>3 DEF Answers
  <2>4. ASSUME NEW y \in mail' PROVE Answers(y.at, y.m.session)'
    <3>1. CASE y \in mail
      <4>1. PICK g, t : g = y.at /\ t = y.m.session /\ Answers(g, t)
        BY <1>0, <3>1 DEF MailInv
      <4> QED  BY <2>1, <4>1
    <3>2. CASE y \notin mail
      <4>1. h.ctx \in PeerNames /\ y = [at |-> h, m |-> x]  BY <1>1, <2>2, <3>2
      <4> QED  BY <2>3, <4>1
    <3> QED  BY <3>1, <3>2
  <2>5. ASSUME NEW y \in back' \cup heard' PROVE Answers(y.from, y.session)'
    BY <1>0, <2>1 DEF MailInv
  <2> QED  BY <2>4, <2>5 DEF MailInv
<1>11. SentInv'
  <2>1. ctx # "none"
    <3>1. ctx = "none" => Len(sent) = 0  BY <1>0 DEF SentInv
    <3> QED  BY <1>3, <3>1
  <2> QED  BY <2>1 DEF SentInv, app
<1>12. ASSUME NEW t \in 1..Len(sent') PROVE FateOK(sent'[t])
  <2>1. CASE t # s
    BY <1>0, <1>5, <2>1, FateSplit
  <2>2. CASE t = s
    <3>1. p # Self  BY <1>3, AppAssumption
    <3> QED  BY <1>4, <1>5, <2>2, <3>1 DEF FateOK
  <2> QED  BY <2>1, <2>2
<1>13. heard' # {} => ctx \in {"added", "shut"}  BY <1>0 DEF DispatchFate
<1> QED  BY <1>6, <1>8, <1>9, <1>10, <1>11, <1>12, <1>13, MessageStep

\* Whatever a link sends, sends again or has sent, and the peer handles.
LEMMA LinkInv ==
  ASSUME AppInv,
         \/ \E p \in Peers : LinkSend(p) \/ LinkFails(p)
         \/ \E m \in stale : StaleHandled(m)
  PROVE  AppInv'
<1>0. /\ AppTypeOK /\ queue \in [Peers -> Seq(Msgs)] /\ stale \subseteq Msgs
      /\ QueueInv /\ SessionInv /\ MailInv /\ SentInv /\ DispatchFate
  BY DEF AppInv, MsgInv, AppTypeOK
<1>1. ASSUME NEW p \in Peers, queue[p] # << >>
      PROVE  Head(queue[p]) \in Range(queue[p]) /\ Head(queue[p]) \in Msgs
  BY <1>0, <1>1 DEF Range
<1>2. ASSUME NEW p \in Peers, LinkSend(p) PROVE AppInv'
  <2>1. queue[p] # << >> /\ queue' = [queue EXCEPT ![p] = Tail(@)]  BY <1>2 DEF LinkSend
  <2>2. PICK m \in Pending : m = Head(queue[p]) /\ m.to.node = p
    BY <1>0, <1>1, <2>1 DEF Pending, QueueInv
  <2>3. Tail(queue[p]) \in Seq(Msgs) /\ Range(Tail(queue[p])) \subseteq Range(queue[p])
    <3>1. queue[p] \in Seq(Msgs)  BY <1>0
    <3>2. /\ Tail(queue[p]) \in Seq(Msgs) /\ Len(queue[p]) \in Nat
          /\ DOMAIN Tail(queue[p]) = 1..(Len(queue[p]) - 1)
          /\ DOMAIN queue[p] = 1..Len(queue[p])
          /\ \A i \in 1..(Len(queue[p]) - 1) : Tail(queue[p])[i] = queue[p][i + 1]
      BY <2>1, <3>1
    <3>3. \A i \in 1..(Len(queue[p]) - 1) : i + 1 \in 1..Len(queue[p])  BY <3>2
    <3> QED  BY <3>2, <3>3 DEF Range
  <2>4. /\ queue' \in [Peers -> Seq(Msgs)]
        /\ \A q \in Peers : Range(queue'[q]) \subseteq Range(queue[q])
    BY <1>0, <2>1, <2>3
  <2>5. /\ PeerOnMq(m.to.node, m) /\ stale' = stale
        /\ UNCHANGED <<app, crash, fails, back, heard>>
    BY <1>2, <2>2 DEF LinkSend
  <2> QED  BY <2>4, <2>5, HandledInv
<1>3. ASSUME NEW m \in stale, StaleHandled(m) PROVE AppInv'
  <2>1. m \in Pending /\ UNCHANGED <<app, crash, queue, fails, back, heard>>
        /\ PeerOnMq(m.to.node, m) /\ stale' \subseteq stale
    BY <1>3 DEF StaleHandled, Pending
  <2> QED  BY <1>0, <2>1, HandledInv
<1>4. ASSUME NEW p \in Peers, LinkFails(p) PROVE AppInv'
  <2>1. /\ UNCHANGED <<app, crash, queue, mail, back, heard, sent>> /\ fails' = fails + 1
        /\ stale' = stale \cup {Head(queue[p])} /\ queue[p] # << >>
    BY <1>4 DEF LinkFails
  <2>2. Head(queue[p]) \in Pending /\ Head(queue[p]) \in Msgs
    BY <1>1, <2>1 DEF Pending
  <2>3. Pending' = Pending  BY <2>1, <2>2 DEF Pending
  <2>4. AppTypeOK'  BY <1>0, <2>1, <2>2 DEF AppTypeOK, app, setup, table, stops
  <2>5. QueueInv'
    BY <1>0, <2>1, <2>3 DEF QueueInv, Waits, app, setup
  <2>6. SessionInv' /\ MailInv' /\ SentInv'
    BY <1>0, <2>1, <2>3 DEF SessionInv, MailInv, SentInv, Answers, app
  <2>7. \A t \in 1..Len(sent') : FateOK(sent'[t])  BY <1>0, <2>1, FateSplit
  <2>8. heard' # {} => ctx \in {"added", "shut"}  BY <1>0, <2>1 DEF DispatchFate
  <2> QED  BY <2>1, <2>4, <2>5, <2>6, <2>7, <2>8, MessageStep
<1> QED  BY <1>2, <1>3, <1>4

-----------------------------------------------------------------------------

LEMMA AppNextInv == AppInv /\ [AppNext]_appvars => AppInv'
<1> SUFFICES ASSUME AppInv, [AppNext]_appvars PROVE AppInv'
  OBVIOUS
<1>1. CASE UNCHANGED appvars
  <2> USE DEF appvars, app, setup, table, stops, msgs
  <2>1. AppTypeOK' /\ TableInv'  BY <1>1 DEF AppInv, AppTypeOK, TableInv
  <2>2. MsgInv'
    BY <1>1 DEF AppInv, MsgInv, QueueInv, SessionInv, Pending, MailInv, SentInv, Waits, Answers
  <2>3. CrashOnlyAtEdges' /\ DispatchFate'
    BY <1>1 DEF AppInv, CrashOnlyAtEdges, Growing, Alive, DispatchFate, GetNode
  <2> QED  BY <2>1, <2>2, <2>3 DEF AppInv
<1>2. CASE AppNext
  <2>1. CASE ContextStep
    <3>1. CASE \E n \in Nodes, name \in Names : DispatchId(n, name) \/ DispatchName(n, name)
      BY <3>1, DispatchInv
    <3>2. CASE \E n \in Nodes : CtxCall(n) \/ \E name \in Names : DispatchAborts(n, name)
      BY <3>2, ContextCrashInv
    <3>3. CASE (\E x \in mail : Response(x)) \/ \E m \in back : RpcOnMq(m)
      BY <3>3, AnswerInv
    <3> QED  BY <2>1, <3>1, <3>2, <3>3 DEF ContextStep, Nodes
  <2> QED
    BY <1>2, <2>1, StartStepInv, OtherQuietInv, LinkInv DEF AppNext
<1> QED  BY <1>1, <1>2

\* Through start(), stop() and every dispatch the nodes, queues and messages
\* keep their types: a message always carries handles of known nodes.
THEOREM AppTypeCorrect == AppSpec => []AppTypeOK
<1>1. AppInv => AppTypeOK  BY DEF AppInv
<1> QED  BY AppInitInv, AppNextInv, <1>1, PTL DEF AppSpec

\* Whatever the configuration, however often and whenever stop() is called:
\* when start() returns the server is over and no link or context is left, and
\* only a missing own node or an on_init that throws makes it leave otherwise.
THEOREM NothingLeftRunningHolds == AppSpec => []NothingLeftRunning
<1>1. AppInv => NothingLeftRunning  BY DEF AppInv, TableInv, NothingLeftRunning
<1> QED  BY AppInitInv, AppNextInv, <1>1, PTL DEF AppSpec

\* No context ever reads the vector of nodes while start() extends it, and a
\* null rpc_client is only met once the shutdown has begun.
THEOREM CrashOnlyAtEdgesHolds == AppSpec => []CrashOnlyAtEdges
<1>1. AppInv => CrashOnlyAtEdges  BY DEF AppInv
<1> QED  BY AppInitInv, AppNextInv, <1>1, PTL DEF AppSpec

\* For any names, nodes and number of messages: a dispatched message and its
\* answer get where they should, with the stated exceptions and no others.
THEOREM DispatchFateHolds == AppSpec => []DispatchFate
<1>1. AppInv => DispatchFate  BY DEF AppInv
<1> QED  BY AppInitInv, AppNextInv, <1>1, PTL DEF AppSpec

-----------------------------------------------------------------------------
(* CtxExec: a lock is taken exactly as long as one task owns it, wherever    *)
(* that task is suspended.                                                  *)

\* A task that owns the lock of cur finds it taken.
OwnerLocked == \A k \in Tasks : st[k] \in Owning => locked[cur[k]]

Inv == TypeOK /\ NoRace /\ NoOrphanLock /\ OwnerLocked

LEMMA InitInv == Init => Inv
<1> SUFFICES ASSUME Init PROVE Inv
  OBVIOUS
<1>1. TypeOK
  <2>1. \A k \in Tasks : callers[k] \in Seq(Ctxs)  BY DEF Init
  <2>2. awaits \in [Tasks -> 0..MaxAwaits]  BY ExecAssumption DEF Init
  <2> QED  BY <2>1, <2>2, ExecAssumption DEF Init, TypeOK, States
<1>2. NoRace /\ NoOrphanLock /\ OwnerLocked
  BY DEF Init, NoRace, NoOrphanLock, OwnerLocked, Owning
<1> QED  BY <1>1, <1>2 DEF Inv

\* A step that changes neither the locks nor who owns one.
LEMMA QuietStep ==
  ASSUME Inv, TypeOK', UNCHANGED locked,
         \A k \in Tasks : st'[k] \in Owning <=> st[k] \in Owning,
         \A k \in Tasks : st[k] \in Owning => cur'[k] = cur[k]
  PROVE  Inv'
BY DEF Inv, NoRace, NoOrphanLock, OwnerLocked

\* Task k, owning nothing, takes the lock of cur[k].
LEMMA LockStep ==
  ASSUME Inv, TypeOK', NEW k \in Tasks, st[k] \notin Owning, Lock(k),
         Goto(k, "crit"), UNCHANGED cur
  PROVE  Inv'
BY DEF Inv, TypeOK, NoRace, NoOrphanLock, OwnerLocked, Lock, Goto, Owning

\* Task k, owning the lock of cur[k], releases it.
LEMMA UnlockStep ==
  ASSUME Inv, TypeOK', NEW k \in Tasks, st[k] \in Owning, Unlock(k),
         NEW s, s \notin Owning, Goto(k, s),
         \A j \in Tasks : j # k => cur'[j] = cur[j]
  PROVE  Inv'
<1>0. locked \in [Ctxs -> BOOLEAN] /\ cur \in [Tasks -> Ctxs] /\ st \in [Tasks -> States]
  BY DEF Inv, TypeOK
<1>1. st'[k] = s /\ \A j \in Tasks : j # k => st'[j] = st[j]  BY <1>0 DEF Goto
<1>2. NoRace'  BY <1>1 DEF Inv, NoRace
<1>3. NoOrphanLock'  BY <1>0, <1>1 DEF Inv, NoOrphanLock, Unlock
<1>4. OwnerLocked'  BY <1>0, <1>1 DEF Inv, OwnerLocked, NoRace, Unlock
<1> QED  BY <1>2, <1>3, <1>4 DEF Inv

LEMMA NextInv == Inv /\ [Next]_vars => Inv'
<1> SUFFICES ASSUME Inv, [Next]_vars PROVE Inv'
  OBVIOUS
<1>1. CASE UNCHANGED vars
  BY <1>1 DEF vars, Inv, TypeOK, NoRace, NoOrphanLock, OwnerLocked
<1>2. ASSUME NEW k \in Tasks,
             Dispatch(k) \/ Step(k) \/ AwaitOver(k) \/ BareOver(k)
      PROVE  Inv'
  <2> USE ExecAssumption DEF Inv, TypeOK, States, Goto, Yield
  <2>1. CASE Dispatch(k)
    BY <2>1, QuietStep DEF Dispatch
  <2>2. CASE CoLock(k)
    <3>1. TypeOK'  BY <2>2 DEF CoLock, Lock
    <3> QED  BY <2>2, <3>1, LockStep DEF CoLock, Owning
  <2>3. CASE CoYield(k)
    BY <2>3, QuietStep DEF CoYield
  <2>4. CASE SyncCall(k)
    <3>1. TypeOK'  BY <2>4 DEF SyncCall, Unlock
    <3> QED  BY <2>4, <3>1, UnlockStep DEF SyncCall, Owning
  <2>5. CASE Relock(k)
    <3>1. TypeOK'  BY <2>5 DEF Relock, Lock
    <3> QED  BY <2>5, <3>1, LockStep DEF Relock, Owning
  <2>6. CASE ReturnToCaller(k)
    <3>1. TypeOK'
      <4>1. /\ callers[k] \in Seq(Ctxs) /\ callers[k][Len(callers[k])] \in Ctxs
            /\ SubSeq(callers[k], 1, Len(callers[k]) - 1) \in Seq(Ctxs)
        BY <2>6 DEF ReturnToCaller
      <4>2. cur' \in [Tasks -> Ctxs] /\ callers' \in [Tasks -> Seq(Ctxs)]
        BY <2>6, <4>1 DEF ReturnToCaller
      <4>3. locked' \in [Ctxs -> BOOLEAN] /\ st' \in [Tasks -> States]
        BY <2>6 DEF ReturnToCaller, Unlock
      <4>4. \A j \in Tasks : st'[j] = IF j = k THEN "relock" ELSE st[j]
        BY <2>6 DEF ReturnToCaller
      <4>5. UNCHANGED <<exec, running, awaits>>  BY <2>6 DEF ReturnToCaller
      <4> HIDE DEF Goto, Yield, States
      <4> QED  BY <4>2, <4>3, <4>4, <4>5
    <3>2. Unlock(k) /\ Goto(k, "relock") /\ st[k] \in Owning /\ "relock" \notin Owning
      BY <2>6 DEF ReturnToCaller, Owning
    <3>3. \A j \in Tasks : j # k => cur'[j] = cur[j]  BY <2>6 DEF ReturnToCaller
    <3> HIDE DEF Inv, TypeOK, Goto
    <3> QED  BY <3>1, <3>2, <3>3, UnlockStep
  <2>7. CASE Finish(k)
    <3>1. TypeOK'  BY <2>7 DEF Finish, Unlock
    <3> QED  BY <2>7, <3>1, UnlockStep DEF Finish, Owning
  <2>8. CASE BareAwait(k)
    BY <2>8, QuietStep DEF BareAwait, Owning
  <2>9. CASE BareResume(k)
    BY <2>9, QuietStep DEF BareResume, Owning
  <2>10. CASE \E c \in Ctxs : CallLocal(k, c)
    <3> PICK c \in Ctxs : CallLocal(k, c)  BY <2>10
    <3>1. TypeOK'
      <4>1. Append(callers[k], cur[k]) \in Seq(Ctxs)  OBVIOUS
      <4>2. cur' \in [Tasks -> Ctxs] /\ callers' \in [Tasks -> Seq(Ctxs)]
        BY <4>1 DEF CallLocal
      <4>3. /\ locked' \in [Ctxs -> BOOLEAN] /\ st' \in [Tasks -> States]
            /\ awaits' \in [Tasks -> 0..MaxAwaits]
        BY DEF CallLocal, Unlock
      <4>4. \A j \in Tasks : st'[j] = IF j = k THEN "colock" ELSE st[j]
        BY DEF CallLocal
      <4>5. UNCHANGED <<exec, running>>  BY DEF CallLocal
      <4> HIDE DEF Goto, Yield, States
      <4> QED  BY <4>2, <4>3, <4>4, <4>5
    <3>2. Unlock(k) /\ Goto(k, "colock") /\ st[k] \in Owning /\ "colock" \notin Owning
      BY DEF CallLocal, Owning
    <3>3. \A j \in Tasks : j # k => cur'[j] = cur[j]  BY DEF CallLocal
    <3> HIDE DEF Inv, TypeOK, Goto
    <3> QED  BY <3>1, <3>2, <3>3, UnlockStep
  <2>11. CASE AwaitOver(k)
    BY <2>11, QuietStep DEF AwaitOver, Owning
  <2>12. CASE BareOver(k)
    BY <2>12, QuietStep DEF BareOver, Owning
  <2> QED
    BY <1>2, <2>1, <2>2, <2>3, <2>4, <2>5, <2>6, <2>7, <2>8, <2>9, <2>10, <2>11,
       <2>12 DEF Step
<1> QED  BY <1>1, <1>2 DEF Next, AllDone

\* Tasks, locks and call stacks keep their types through every call and return.
THEOREM TypeCorrect == Spec => []TypeOK
<1>1. Inv => TypeOK  BY DEF Inv
<1> QED  BY InitInv, NextInv, <1>1, PTL DEF Spec

\* No two tasks ever execute the code of one context at the same time, however
\* sync_call and ctx_call give locks up and take them back.
THEOREM NoRaceHolds == Spec => []NoRace
<1>1. Inv => NoRace  BY DEF Inv
<1> QED  BY InitInv, NextInv, <1>1, PTL DEF Spec

\* A context's lock is never left taken without a task that will release it.
THEOREM NoOrphanLockHolds == Spec => []NoOrphanLock
<1>1. Inv => NoOrphanLock  BY DEF Inv
<1> QED  BY InitInv, NextInv, <1>1, PTL DEF Spec

=============================================================================
