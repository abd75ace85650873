--------------------------------- MODULE App ---------------------------------
(***************************************************************************)
(* One application: cqy_app::start and stop, the table of nodes they build  *)
(* and take down, and the messages that a context dispatches meanwhile to   *)
(* itself and to contexts of other nodes.                                   *)
(*                                                                         *)
(* The application runs one context, its bootstrap.  The other nodes serve  *)
(* all the time and have one context for every name in PeerNames.  A link   *)
(* sends its oldest message until a request is answered, so that a message  *)
(* may be handled more than once (NodeLink has the batches); the steps      *)
(* inside a queue are those of CvQueue.                                     *)
(***************************************************************************)
EXTENDS CqyMsg, Sequences, Functions

CONSTANTS
  Self,        \* config.nodeid
  Peers,       \* the other nodes
  Configs,     \* possible config.nodes, as sequences of node ids
  Names,       \* names that are dispatched to
  PeerNames,   \* names registered on every peer
  MyName,      \* the name of the bootstrap context
  Stoppers,    \* threads that call stop()
  MaxSent,     \* bound on the messages dispatched
  MaxFails     \* bound on the requests that fail

ASSUME AppAssumption ==
  /\ Self \notin Peers /\ 0 \notin Peers \cup {Self} /\ Names \subseteq Nat \ {0}
  /\ PeerNames \subseteq Names /\ MyName \in Names
  /\ MaxSent \in Nat /\ MaxFails \in Nat
  /\ Configs \subseteq Seq(Peers \cup {Self})

VARIABLES
  config,   \* config.nodes
  asserts,  \* the build checks its assertions
  life,     \* next step of start()
  todo,     \* entries the loop of start() or of shutdown() has not reached
  nodes,    \* cqy_node_t::nodes, the vector of entries
  client,   \* entries whose rpc_client is set
  spawned,  \* entries whose node_mq_spawn has begun
  shut,     \* entries whose coro_queue is stopped
  server,   \* the coro_rpc_server
  ctx,      \* the bootstrap context
  bstop,    \* cqy_app_t::bstop
  stopper,  \* next step of each stop()
  early,    \* history: the close of the server found none that ran
  crash,    \* how the process ended
  queue,    \* coro_queue of each link
  stale,    \* messages in requests given up by the link, not yet handled
  fails,    \* how many requests have failed
  mail,     \* messages delivered and not answered, with the context's id
  back,     \* answers on their way from other nodes
  heard,    \* history: answers the bootstrap context got
  sent      \* history: what was dispatched, by session, and its fate

setup == <<config, asserts>>
table == <<nodes, client, spawned, shut>>
stops == <<bstop, stopper, early>>
msgs  == <<queue, stale, fails, mail, back, heard, sent>>
app   == <<setup, life, todo, table, server, ctx, stops>>
appvars == <<app, crash, msgs>>

\* The id of a context is the number of its name.
MyId == Handle(Self, MyName)

AppInit ==
  /\ config \in Configs /\ asserts \in BOOLEAN
  /\ life = "clients" /\ todo = config /\ nodes = <<>>
  /\ client = {} /\ spawned = {} /\ shut = {} /\ server = "none"
  /\ ctx = "none" /\ bstop = FALSE /\ early = FALSE /\ crash = "none"
  /\ stopper = [s \in Stoppers |-> "idle"]
  /\ queue = [p \in Peers |-> <<>>] /\ stale = {} /\ fails = 0
  /\ mail = {} /\ back = {} /\ heard = {} /\ sent = <<>>

-----------------------------------------------------------------------------
(* start() *)

\* One round of the loop over config.nodes: create_client, which pushes the
\* entry and schedules its node_mq_spawn; nothing for the node itself.
CreateClient ==
  /\ life = "clients" /\ todo # <<>>
  /\ todo' = Tail(todo)
  /\ \/ Head(todo) = Self /\ UNCHANGED <<nodes, client>>
     \/ /\ Head(todo) # Self
        /\ nodes' = Append(nodes, Head(todo))
        /\ client' = client \cup {Head(todo)}
  /\ UNCHANGED <<setup, life, spawned, shut, server, ctx, stops, crash, msgs>>

\* "self node not config": the clients are left as they are.
SelfMissing ==
  /\ life = "clients" /\ todo = <<>> /\ Self \notin Range(config)
  /\ life' = "threw"
  /\ UNCHANGED <<setup, todo, table, server, ctx, stops, crash, msgs>>

\* create_rpc_server: the server, and an entry without a client.
CreateRpcServer ==
  /\ life = "clients" /\ todo = <<>> /\ Self \in Range(config)
  /\ nodes' = Append(nodes, Self)
  /\ server' = "created" /\ life' = "serve"
  /\ UNCHANGED <<setup, todo, client, spawned, shut, ctx, stops, crash, msgs>>

\* async_start, which fails at once when the port is taken or the server has
\* been stopped before.
RpcServerStart ==
  /\ life = "serve" /\ life' = "boot"
  /\ server' \in IF server = "stopped" THEN {"stopped"} ELSE {"running", "stopped"}
  /\ UNCHANGED <<setup, todo, table, ctx, stops, crash, msgs>>

\* create_ctx of the bootstrap: new_id, attach_init, on_init begins.
Bootstrap ==
  /\ life = "boot" /\ life' = "init" /\ ctx' = "init"
  /\ UNCHANGED <<setup, todo, table, server, stops, crash, msgs>>

\* No bootstrap, an unknown one, or on_init has returned: false, or true and
\* then add_ctx.
Bootstrapped ==
  /\ \/ life = "boot" /\ UNCHANGED ctx
     \/ life = "init" /\ ctx' \in {"failed", "added"}
  /\ life' = "block"
  /\ UNCHANGED <<setup, todo, table, server, stops, crash, msgs>>

\* on_init throws, as register_name does for a name that is taken: create_ctx
\* and start() are left at once, the links and the server stay.
BootstrapThrows ==
  /\ life = "init" /\ life' = "threw" /\ ctx' = "failed"
  /\ UNCHANGED <<setup, todo, table, server, stops, crash, msgs>>

\* std::move(f).get() returns.
ServerOver ==
  /\ life = "block" /\ server = "stopped"
  /\ life' = "links" /\ todo' = nodes
  /\ UNCHANGED <<setup, table, server, ctx, stops, crash, msgs>>

\* Variant: links that have not begun are passed over.
ShutdownLinkBegun ==
  /\ life = "links" /\ todo # <<>>
  /\ todo' = Tail(todo)
  /\ client' = client \ {Head(todo)}
  /\ shut' = IF Head(todo) \in spawned \cup {Self} THEN shut \cup {Head(todo)}
             ELSE shut
  /\ UNCHANGED <<setup, life, nodes, spawned, server, ctx, stops, crash, msgs>>

\* One round of cqy_node::shutdown.
ShutdownLink ==
  /\ life = "links" /\ todo # <<>>
  /\ todo' = Tail(todo)
  /\ shut' = shut \cup {Head(todo)} /\ client' = client \ {Head(todo)}
  /\ UNCHANGED <<setup, life, nodes, spawned, server, ctx, stops, crash, msgs>>

\* The contexts' shutdown (CtxMgr has the loop), then start() returns.
ShutdownCtxs ==
  /\ life = "links" /\ todo = <<>> /\ life' = "returned"
  /\ ctx' = IF ctx = "added" THEN "shut" ELSE ctx
  /\ UNCHANGED <<setup, todo, table, server, stops, crash, msgs>>

-----------------------------------------------------------------------------
(* stop(), called by any thread at any time *)

\* bstop.exchange(true): a call that finds it set returns, without a change.
StopExchange(s) ==
  /\ stopper[s] = "idle" /\ ~bstop
  /\ stopper' = [stopper EXCEPT ![s] = "closing"]
  /\ bstop' = TRUE
  /\ UNCHANGED <<setup, life, todo, table, server, ctx, early, crash, msgs>>

\* Variant: the server is closed only while it has clients.
RpcServerCloseIfClients(s) ==
  /\ stopper[s] = "closing" /\ stopper' = [stopper EXCEPT ![s] = "done"]
  /\ server' = IF server = "running" /\ client # {} THEN "stopped" ELSE server
  /\ early' = (early \/ server \in {"none", "created"})
  /\ UNCHANGED <<setup, life, todo, table, ctx, bstop, crash, msgs>>

\* rpc_server_close.  Whether the stop of a server that has not been started
\* keeps it from starting is left open.
RpcServerClose(s) ==
  /\ stopper[s] = "closing" /\ stopper' = [stopper EXCEPT ![s] = "done"]
  /\ \/ server = "running" /\ server' = "stopped" /\ UNCHANGED early
     \/ server = "created" /\ server' = "stopped" /\ UNCHANGED early
     \/ server \in {"none", "created"} /\ early' = TRUE /\ UNCHANGED server
     \/ server = "stopped" /\ UNCHANGED <<server, early>>
  /\ UNCHANGED <<setup, life, todo, table, ctx, bstop, crash, msgs>>

-----------------------------------------------------------------------------
(* Links and contexts *)

\* start() will push another entry.
Growing == life = "clients" /\ (todo # <<>> \/ Self \in Range(config))

\* The scheduled node_mq_spawn begins with get_node, which walks the vector;
\* nothing keeps start() from reallocating it meanwhile.
NodeMqSpawn(p) ==
  /\ p \in Range(nodes) \ (spawned \cup {Self})
  /\ \/ spawned' = spawned \cup {p} /\ UNCHANGED crash
     \/ Growing /\ crash' = "race" /\ UNCHANGED spawned
  /\ UNCHANGED <<setup, life, todo, nodes, client, shut, server, ctx, stops,
                 msgs>>

\* get_node, by id or by name.
GetNode(n) == n \in Range(nodes)

\* There is a context whose code runs.
Alive == ctx \in {"init", "added", "shut"}

\* find_name of this node: on_init registers MyName before it dispatches.
FindName(name) == IF name = MyName THEN MyId ELSE NoId

\* node_mq_push: into the context's mailbox, into the queue of a link, or
\* nowhere.  A queue that is stopped takes nothing.
ToMailbox(m) == m.to = MyId /\ ctx = "added"
ToLink(m) == m.to.node # Self /\ GetNode(m.to.node) /\ m.to.node \notin shut
NodeMqPush(m) ==
  /\ queue' = IF ToLink(m) THEN [queue EXCEPT ![m.to.node] = Append(@, m)]
              ELSE queue
  /\ mail' = IF ToMailbox(m) THEN mail \cup {[at |-> MyId, m |-> m]} ELSE mail

\* A message leaves the context: its fate is known, or it waits in a link.
Sends(node, name, m) ==
  /\ NodeMqPush(m)
  /\ sent' = Append(sent, [node |-> node, name |-> name, at |-> ctx,
                           fate |-> IF ToMailbox(m) THEN "right"
                                    ELSE IF ToLink(m) THEN "queued" ELSE "dropped"])

\* dispatch to an id: ++session, make, node_mq_push.
DispatchId(node, name) ==
  /\ Alive /\ Len(sent) < MaxSent
  /\ Sends(node, name, Make(MyId, Handle(node, name), Len(sent) + 1, FALSE))
  /\ UNCHANGED <<app, crash, stale, fails, back, heard>>

\* dispatch to a name: get_handle finds the node by its name (a node it does
\* not find gives -1 and changes nothing), a local name is looked up here.
DispatchName(node, name) ==
  /\ Alive /\ Len(sent) < MaxSent /\ GetNode(node)
  /\ node # Self /\ asserts => name < ByteMod - 1
  /\ LET s == Len(sent) + 1
     IN  Sends(node, name, IF node = Self THEN Make(MyId, FindName(name), s, FALSE)
                           ELSE MakeNamed(MyId, node, name, s))
  /\ UNCHANGED <<app, crash, stale, fails, back, heard>>

\* assert(ctxname.size() < 255)
DispatchAborts(node, name) ==
  /\ Alive /\ node # Self /\ GetNode(node) /\ asserts /\ name >= ByteMod - 1
  /\ crash' = "assert"
  /\ UNCHANGED <<app, msgs>>

\* rpc_on_mq of node p looks the context up, by the name in the message if it
\* has one; what that makes of a message that was meant for name.
Receiver(p, m) == IF NameIn(m) # 0 THEN Handle(p, NameIn(m)) ELSE m.to
FateAt(p, m, name) ==
  LET to == Receiver(p, m) IN
  IF to.ctx \notin PeerNames THEN "dropped"
  ELSE IF to.ctx = name /\ StrayIn(m) = 0 THEN "right" ELSE "wrong"
PeerOnMq(p, m) ==
  /\ mail' = IF Receiver(p, m).ctx \in PeerNames
             THEN mail \cup {[at |-> Receiver(p, m), m |-> m]} ELSE mail
  /\ sent' = [sent EXCEPT ![m.session].fate = FateAt(p, m, sent[m.session].name)]

\* node_mq_spawn sends the oldest message; the peer handles it and answers.
LinkSend(p) ==
  /\ p \in spawned \ shut /\ queue[p] # <<>>
  /\ PeerOnMq(p, Head(queue[p]))
  /\ queue' = [queue EXCEPT ![p] = Tail(@)]
  /\ UNCHANGED <<app, crash, stale, fails, back, heard>>

\* The request fails for the link, which keeps the message and sends it again
\* after its sleep.  The peer may have the request all the same.
LinkFails(p) ==
  /\ p \in spawned \ shut /\ queue[p] # <<>>
  /\ fails < MaxFails /\ fails' = fails + 1
  /\ stale' = stale \cup {Head(queue[p])}
  /\ UNCHANGED <<app, crash, queue, mail, back, heard, sent>>

\* The peer handles such a request: before it is sent again, between, or after
\* one that was answered, and also when the link is shut.
StaleHandled(m) ==
  /\ PeerOnMq(m.to.node, m) /\ stale' = stale \ {m}
  /\ UNCHANGED <<app, crash, queue, fails, back, heard>>

\* response(): to where the message came from, with its session; an answer to
\* the context itself goes straight into its mailbox.
Response(x) ==
  LET m == Make(x.at, x.m.from, x.m.session, TRUE) IN
  /\ mail' = mail \ {x}
  /\ heard' = IF x.at = MyId /\ ToMailbox(m) THEN heard \cup {m} ELSE heard
  /\ back' = IF x.at = MyId THEN back ELSE back \cup {m}
  /\ UNCHANGED <<app, crash, queue, stale, fails, sent>>

\* rpc_on_mq of this node for an answer from another one.
RpcOnMq(m) ==
  /\ server = "running" /\ back' = back \ {m}
  /\ heard' = IF ToMailbox(m) THEN heard \cup {m} ELSE heard
  /\ UNCHANGED <<app, crash, queue, stale, fails, mail, sent>>

\* Variant: no test whether the id is one of this node.
CtxCallAnywhere(n) ==
  /\ Alive /\ GetNode(n) /\ n \notin client
  /\ crash' = "null"
  /\ UNCHANGED <<app, msgs>>

\* ctx_call and ctx_call_name to another node use n->rpc_client without a
\* test.  Calls that find a client, or are local, are those of Rpc.
CtxCall(n) ==
  /\ Alive /\ n # Self /\ GetNode(n) /\ n \notin client
  /\ crash' = "null"
  /\ UNCHANGED <<app, msgs>>

-----------------------------------------------------------------------------

StartStep ==
  \/ CreateClient \/ SelfMissing \/ CreateRpcServer \/ RpcServerStart
  \/ Bootstrap \/ Bootstrapped \/ BootstrapThrows
  \/ ServerOver \/ ShutdownLink \/ ShutdownCtxs
StopStep(s) == StopExchange(s) \/ RpcServerClose(s)
ContextStep ==
  \/ \E n \in Peers \cup {Self}, name \in Names :
       DispatchId(n, name) \/ DispatchName(n, name) \/ DispatchAborts(n, name)
  \/ \E n \in Peers \cup {Self} : CtxCall(n)
  \/ \E x \in mail : Response(x)
  \/ \E m \in back : RpcOnMq(m)

AppNext ==
  /\ crash = "none"
  /\ \/ StartStep \/ ContextStep
     \/ \E s \in Stoppers : StopStep(s)
     \/ \E p \in Peers : NodeMqSpawn(p) \/ LinkSend(p) \/ LinkFails(p)
     \/ \E m \in stale : StaleHandled(m)

\* The threads that call start() and stop() go on; on_init ends.
AppFairness ==
  /\ WF_appvars(crash = "none" /\ StartStep)
  /\ \A s \in Stoppers : WF_appvars(crash = "none" /\ RpcServerClose(s))

AppSpec == AppInit /\ [][AppNext]_appvars /\ AppFairness

-----------------------------------------------------------------------------
(* Properties *)

Nodes   == Peers \cup {Self}
Handles == [node : Nodes \cup {0}, ctx : Nat]
Msgs    == [from : Handles, to : Handles, session : Nat, response : BOOLEAN,
            route : BOOLEAN, size : Nat, chars : Nat]
Sents   == [node : Nodes, name : Names, at : {"init", "added", "shut"},
            fate : {"queued", "right", "wrong", "dropped"}]

\* Every variable keeps its type.
AppTypeOK ==
  /\ config \in Configs /\ asserts \in BOOLEAN
  /\ life \in {"clients", "serve", "boot", "init", "block", "links", "returned", "threw"}
  /\ todo \in Seq(Nodes) /\ nodes \in Seq(Nodes)
  /\ client \subseteq Peers /\ spawned \subseteq Peers /\ shut \subseteq Nodes
  /\ server \in {"none", "created", "running", "stopped"}
  /\ ctx \in {"none", "init", "failed", "added", "shut"}
  /\ bstop \in BOOLEAN /\ early \in BOOLEAN
  /\ stopper \in [Stoppers -> {"idle", "closing", "done"}]
  /\ crash \in {"none", "race", "assert", "null"}
  /\ queue \in [Peers -> Seq(Msgs)] /\ stale \subseteq Msgs /\ fails \in Nat
  /\ mail \subseteq [at : Handles, m : Msgs] /\ back \subseteq Msgs /\ heard \subseteq Msgs
  /\ sent \in Seq(Sents)

\* A stop() ends start(), unless it came before the server ran: then bstop is
\* set, nothing was closed, and no later stop() closes anything.
StopEndsStart ==
  bstop ~> (life \in {"returned", "threw"} \/ early \/ crash # "none")

\* When start() returns, the server is over, every link is shut down and no
\* context is in use.  It is left by an exception, which shuts nothing down,
\* only if its own node is not configured or the bootstrap's on_init throws.
NothingLeftRunning ==
  /\ life = "returned" =>
       server = "stopped" /\ Range(nodes) \subseteq shut /\ client = {} /\ ctx # "added"
  /\ life = "threw" => Self \notin Range(config) \/ ctx = "failed"

\* The unguarded vector of nodes is read while it grows by links that start()
\* has made itself, never by a context; and a context meets a null rpc_client
\* only when the server is over and shutdown() has begun.
CrashOnlyAtEdges ==
  /\ Growing => ~Alive
  /\ crash = "null" => life \in {"links", "returned"}

\* A dispatched message gets to the context it names, with its data alone,
\* and so does its answer, however often a link sends it again.  It gets
\* elsewhere only if the name does not fit into a byte; it is dropped for that
\* reason, or if nobody has the name, if its link was shut down, or if it is
\* for the sender, outside its time in the table of contexts.
DispatchFate ==
  /\ \A s \in DOMAIN sent :
       LET d == sent[s] IN
       /\ d.fate = "wrong" => d.name >= ByteMod /\ ~asserts
       /\ d.fate = "dropped" =>
            \/ d.node = Self /\ (d.name = MyName => d.at # "added")
            \/ d.node # Self /\ d.name \notin PeerNames
            \/ d.node # Self /\ d.name >= ByteMod /\ ~asserts
            \/ d.node \in shut \/ ~GetNode(d.node)
  /\ \A m \in heard :
       /\ m.session \in DOMAIN sent /\ m.from.node = sent[m.session].node
       /\ sent[m.session].fate = "wrong" \/ m.from.node = Self
            \/ m.from.ctx = sent[m.session].name
       /\ ctx \in {"added", "shut"}
=============================================================================
