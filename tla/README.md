# TLA+ models and proofs for cqy

cqy is a small C++20 coroutine framework for programs made of *nodes*
(processes, one `cqy_app` each) that hold *contexts* (`cqy_ctx_t`, actors with a
mailbox, a lock and registered RPC functions). Contexts talk by `dispatch`
(asynchronous, queued and retried between nodes) and by `ctx_call` (RPC). A game
server demo is built on top of it.

This directory models the parts that decide whether messages, calls and objects
survive concurrency, failures and restarts. Each component module is checked
with TLC on small instances; the main safety results are proved with TLAPS for
every value of the constants.

Checking a run: `tlc -config CvQueue.cfg MCCvQueue`; checking proofs:
`tlapm CvQueueProofs.tla`. `PROJECT.json` lists runs, mutants, the source lines
of every definition, findings, hazards and theorems. Paths below are relative to
`src/`.

## 1. Inventory

| Component | State | Operations | Hard because |
|---|---|---|---|
| `cqy_cv_queue_t` (`include/cqy_utils.h:104-166`) | deque, coroutine mutex, condition variable, atomic `stop` | `push`, `size`, `pop`, `pop_all`, `try_pop`, `shutdown` | `push` tests `stop` before the mutex and notifies after it; `shutdown` takes no mutex at all |
| `cqy_node` (`src/cqy_node.cpp`) | nodes of the configuration, one queue, client pool and batch per peer | `create_client`, `node_mq_spawn`, `shutdown` | retries a batch until it is answered; `shutdown` resets `rpc_client` under the running coroutine |
| `cqy_app` routing (`src/cqy_app.cpp`) | table of nodes, names | `node_mq_push`, `rpc_on_mq`, `get_handle` | drops what it cannot deliver and still answers |
| `cqy_app` start, stop (`src/cqy_app.cpp:51-103`) | node, server, stop flag | `start`, `stop`, the shutdown loop | links begin on other threads while the table of nodes still grows; `stop()` may come first |
| `cqy_ctx_mgr` (`src/cqy_ctx_mgr.cpp`) | allocation counter, map id to context, sorted vector of names | `new_id`, `add_ctx`, `get_ctx`, `del_ctx`, `collect_ctxids`, `register_name`, `find_name` | callers need several separately locked calls; ids have 24 bits |
| `cqy_ctx` (`src/cqy_ctx.cpp`, `include/cqy_ctx.h`) | mailbox, spin lock, functions, session counter | `wait_msg_spawn`, `dispatch`, `async_call`, `sync_call`, `ctx_call`, `ctx_call_name`, `rpc_on_call` | the lock is given up around awaits and taken back by spinning |
| RPC (`src/cqy_app.cpp:165-281`, `include/cqy_ctx.h:160-300`) | status and payload of a result | `rpc_ctx_call`, `rpc_ctx_call_name`, `rpc_find_ctx` | names and ids are resolved in steps, answers get lost |
| `cqy_msg`, `cqy_handle` | header, name, data; 8 + 24 bits | `make`, `parse`, `set_ctxid` | narrow fields |
| Generator (`include/cqy_gen.h:375-630`) | handles in generators, iterators and awaiters; `value_`, `top_`, `info_` of every promise | `begin`, `++`, move, destroy; a body yields, nests, ends, throws | nested generators are resumed through pointers that every nesting and every end must keep right; `begin()` moves ownership; the plots of the demo run on it |
| game demo, login (`example/game_demo.cpp`) | connections; players of gate, world and game, by connection and by name | connect, login, repeated login, close | four contexts hold copies of the same fact; messages overtake each other |
| game demo, scenes (`example/game_demo.cpp`, `game_component.cpp`) | scenes by name, views, plot generator | enter scene, PlotEnd, npc lines, reward | scenes outlive connections |
| game demo, entities (`example/entity.h`, `entity.cpp`) | versions, free list, component pools | `create`, `destroy`, `check`, `add`, `component`, `entities_with_components` | indices are used again |
| `cqy_algo`, `cqy_finally`, `cqy_logger`; ping, pong, msgpack examples | - | - | - |

How they interact: `dispatch` to another node pushes into the peer's link queue;
`node_mq_spawn` takes the whole queue, sends it as one `rpc_on_mq` request and
repeats it until it is answered; the peer finds the context by name or id and
pushes into its mailbox; the context's `wait_msg_spawn` pops and starts one task
per message on some executor; the task takes the context lock. `ctx_call`
releases the caller's lock, runs the function under the callee's lock (same
node) or sends a request (other node), and takes the lock back.

What makes the components correct:

- queue: FIFO, nothing lost or doubled, nobody sleeps while work waits, `shutdown` ends the loops;
- link: nothing forgotten before the peer saw it, order kept across retries, no
  repetition without a failure, every message gets there in the end;
- manager: exact lookups, no context that runs without being reachable or about
  to be shut down;
- execution: one task at a time inside a context, no lock left behind, nobody waits for ever;
- calls: the status tells the truth, the right context is called, a call ends unless its
  function runs on;
- login: one connection per player name, no context remembers a connection that is gone;
- scenes: a plot goes forward once and rewards once;
- application: `stop` ends `start`, nothing is left running when it returns, a message
  gets to the context it names or is dropped for a reason a user can know;
- generator: every frame has one owner, nested generators read as one stream;
- entities: an id never comes back to life, no component is inherited.

## 2. Modules and the code

| Module | Models | Composition |
|---|---|---|
| `FifoChannel` | abstract: what is put comes out once, in order, in batches; closing is for good | refined by `CvQueue` and `NodeLink` |
| `CvQueue` | `cqy_cv_queue_t` and the loops of `wait_msg_spawn` and `node_mq_spawn` around it | `ImplementsChannel` |
| `NodeLink` | `node_mq_push`, `node_mq_spawn`, `cqy_node::shutdown`; the peer's start, crash, `rpc_on_mq` | uses the queue as `FifoChannel` allows: message numbers in order |
| `CtxMgr` | `cqy_ctx_mgr` under `create_ctx`, both `stop_ctx`, the end of `cqy_app::start` | |
| `CtxExec` | tasks, executors and context locks in `on_msg`, RPC handlers, `async_call`, `sync_call`, `ctx_call` | |
| `Rpc` | `ctx_call`, `ctx_call_name`, `rpc_find_ctx` and their status | manager and locks abstracted to what `CtxMgr` and `CtxExec` establish |
| `CqyMsg` | the layout of messages: `make`, `name`, `buffer`, handles | extended by `App` |
| `App` | `start`, `stop`, the table of nodes, `dispatch` by id and by name, `node_mq_push`, `rpc_on_mq`, `response` | links as `NodeLink` and contexts as `CtxMgr` establish them |
| `GamePlayers` | the players of `game_t`: `rpc_add_player` and the close of a connection | extended by `GameLogin` and `GameScene` |
| `GameLogin` | ws_server, gate, world and game during login and close | handlers alternate as `CtxExec` allows, inboxes are sets |
| `GameScene` | scenes, views and the plot | players come and go by the steps of `GamePlayers`, at any time |
| `EntityStore` | abstract: fresh ids, components owned by their entity | refined by `EntityMgr` |
| `EntityMgr` | `entity_mgr_t` | `ImplementsStore` |
| `NestedStream` | abstract: stacks of generators, the innermost one gives the values | refined by `Generator` |
| `Generator` | frames, promises, owners, `begin`, `++`, moves, `NestedAwaiter`, `FinalAwaiter` | `ImplementsStream` |

`MC<Module>` instantiates a module for TLC, `<Module>Proofs` holds its theorems;
`GameProofs` has those of `GameLogin` and `GameScene`, `AppProofs` those of `App` and
`CtxExec`. Where two modules meet in one, definitions carry a prefix (`SceneInit`,
`AppNext`).
Operators marked `Variant` are deliberately wrong forms of the operator below
them; they are not part of any specification, each shows that a property can fail.

**CvQueue.** A thread is a call in progress, its `pc` the next step. Steps are
cut where another thread can come in between: the test of `stop`, the mutex, the
predicate of `cv.wait`, the suspension, the second test of `stop` in `pop`, the
move out of the deque, the notify. Mutex and condition variable (async_simple)
are external: an owner, and a set of parked consumers; `notify` wakes a non-empty
subset of them, so the result does not depend on how many it resumes. `missed`
records consumers that had evaluated the predicate but were not waiting yet when
`shutdown` notified: those are the ones the code really loses.

**NodeLink.** One link. Messages are numbered as dispatched, so the queue is the
interval `popped+1..pushed` and the batch `acked+1..popped`. A request lives in a
slot at the peer and is walked message by message, also after the sender gave up
on it; several such stale requests may be walked at once. The peer starts, adds
the context, stops it, crashes. A null `rpc_client` is the state `crashed`.
`rpc_on_mq`'s return on a message that does not parse cannot happen, because
`node_mq_push` parses the message before it queues it.

**CtxMgr.** A context is the number of its allocation, its id is that number
modulo `IdMod` (2^24 in the code). `create_ctx` and `stop_ctx` are split at every
call that takes the manager's lock. The vector of names is a sequence;
`binary_search` and `lower_bound` are what they are on any vector, sorted or not
known to be. Ids wrap in the run as in the proofs, so a new context may get the id
of a living one, which `add_ctx` then does not replace (builds without assertions);
`Unique` marks the contexts whose id nobody else got.

**CtxExec.** An executor is one thread; `coLock` gives the thread away while the
lock is taken, `lock()` in `finally` spins and keeps it. A local `ctx_call`
continues in the same coroutine under the callee's lock, so a task has a stack of
callers. `Bare` tasks may `co_await` without `sync_call`, with the lock in hand,
which nothing forbids. Handlers registered as `muli` take no lock and are out.

**Rpc.** A call goes through lookup of the name, lookup of the context, function
and answer, as separate steps, while contexts are created and stopped; a remote
call adds request and reply, each of which can be late or lost, and a caller that
gives up at any time. `rpc_ctx_call_name` resolves the node name again at the
callee; the nodes' configurations are taken to agree on names. Here a context
registers at most one name; what several names do is in `CtxMgr`. A local call has
no timeout: it may wait for the callee's lock, or for the function, for ever.

**App.** One application; `life` is the next step of `start()`, `stopper` that of
each `stop()`, and a context dispatches meanwhile. The other nodes are always up.
A link sends a message until it is answered: a request that fails (`LinkFails`, at
most `MaxFails` times) is sent again and may still be handled later (`stale`), so a
message can be put into a mailbox more than once, and mailboxes are sets. What is
asked is whether it gets to the right one: the table of nodes, the tables of names
and the shutdown decide that. `on_init` of the bootstrap context returns true, returns
false or throws (`BootstrapThrows`), which leaves `start()` without a shutdown.
Every `stop()` after the first finds `bstop` set and does nothing. Names are the prefixes of one string: a name is its
length, and the byte that holds the length keeps it modulo `ByteMod`; both builds,
with and without assertions, are initial states. `get_node` walks a vector that
`start()` may still push to: a crash is one of the outcomes (`NodeMqSpawn`). The
RPC server is external; whether stopping it before it was started keeps it from
starting is left open. Out: a torn read of the server and client pointers, which
are shared without a lock.

**Generator.** `own` says which handle every Generator, iterator and awaiter holds; a
frame may be allocated again after its destruction. Bodies and consumer are free
to do what the type allows. A root that throws is at its final suspension point
like one that returned. `stack` (the nesting the bodies built), `threw` and `bad`
(a resumption of a coroutine that is not suspended, or a Generator assigned to
itself, which destroys the frame and keeps the handle; nothing follows either) are
auxiliary. Out: a body that iterates another generator itself (two independent
roots), and the branch for compilers that have `std::generator`.

**GameLogin.** `wait_msg_spawn` starts every message as a task, so handlers of one
context may run in any order: an inbox is a set. A Login passes gate, world, gate,
game, and other messages come in between. `overtaken` records connections whose
stop was handled before their start or while a login was between two contexts.
`Renamed` says that a connection got in under two names, by a second login while
the first was in flight: the maps by name of world and game then have both, and
its close takes only one of them along.
A write through the reference that `co_login` keeps over its await, when the
player was erased meanwhile, is a choice among the outcomes (`StrayLogin`).

**GameScene.** `Join` and `Leave` are the two steps by which `GameLogin` changes
`game_t`'s players, free to happen at any time; `LoginMovesPlayers` proves that the
login has no other. The generator of the plot is its position. Entities are never
destroyed in scenes, so they are numbers in order of creation; a missing entry of
`connid2eid` gives the default id, which `component` takes for the first entity;
`LineToPlayer` says which view a line is written into, that case included.
`asserts` distinguishes builds with and without assertions.

**EntityMgr.** The counter, the versions, the free list and the pools as they
are; ids are kept by callers for ever (`issued`). `StaleAdds` lets callers use
`add` through ids of destroyed entities, which the code does not prevent.

## 3. Runs

| Run | Instance | States | Shows |
|---|---|---|---|
| `cvqueue` | 2 producers, a `pop` and a `pop_all` consumer, 1 poller, 2 closers, 2 messages | 73,795 | refinement of `FifoChannel`; `NoLostWakeup`; `StrandedOnlyIfMissed`; `AcceptedLeadsToTaken`; `StopLeadsToExit` |
| `nodelink` | 2 messages, 2 failures, 3 request slots | 154,802 | refinement of `FifoChannel`; `AckedHandled`; `ExactlyOnceWithoutFailure`; `AtMostOneLateSend`; `DispatchLeadsToHandled` |
| `nodelink_drop` | 1 message, no failure | violation | `DispatchNotDropped` fails (finding 1) |
| `ctxmgr` | 2 creators, 2 stoppers, shutdown loop, 3 allocations, 2 ids, 2 names, 2 names per context | 113,142 | `LookupExact`, `NoZombie`, `ShutdownReachesAll`, `NamesKept`, `ClashOnlyAfterWrap` |
| `ctxexec` | 2 contexts, 2 tasks, one of them bare, 2 executors, 2 calls or awaits each | 24,944 | `NoRace`, `NoOrphanLock`, `StuckOnlyBySpinning` |
| `rpc` | 2 nodes, one not known to the other, 2 contexts, 1 name, 1 call | 4,624 | `StatusHonest`, `RightContext`, `CallEndsOrRuns` |
| `gamelogin` | 2 connections, 2 names, up to 2 logins of one connection and 1 of the other | 4,392,647 | `OnePlayerPerName`, `NameHasLogin`, `NoGhost`, `ReferenceValid` |
| `gamelogin_kick` | 2 connections, 1 name | violation | `KickLeadsToClose` fails (finding 2) |
| `entitymgr` | 3 indices, versions to 3 of 4, 2 kinds | 4,747 | `PoolsCoverIndices`, `CheckExact`, `QueryExact`, refinement of `EntityStore` |
| `gamescene` | 2 connections, 2 names, 2 lines, 3 views per scene | 63,127 | `RewardOnce`, `PlotToPlayer`, `LineToPlayer` |
| `generator` | 2 Generators, 2 iterators, 5 frames, 2 values | 5,569 | `OwnedOnce`, `PointersAgree`, `ResumesSuspended`, refinement of `NestedStream` |
| `app` | a peer before the own node, none, or the own node missing; 2 stoppers, 2 messages, 1 failed request, 4 names, lengths modulo 3 | 1,216,061 | `NothingLeftRunning`, `CrashOnlyAtEdges`, `DispatchFate`, `StopEndsStart` |

The type invariants (`TypeOK`, `SceneTypeOK`, `AppTypeOK`) are proved and not in
the runs. Symmetry is used in `ctxmgr`, `gamelogin`, `gamescene` and
`generator` only, which check no liveness.

Why the bounds are enough to be interesting:

- `cvqueue`: two messages and two consumers make the case where one notify is
  used up by the wrong consumer; two closers make the second `shutdown` that must do nothing.
- `nodelink`: two failures and three slots let two stale requests be walked beside
  the third attempt; two messages make partial walks and batches of one and of two.
- `ctxmgr`: two stoppers can hold the same context, the third allocation wraps
  onto the id of the first, which may be living, stopped or between two steps; two names per context leave a name behind, as `del_ctx` does.
- `ctxexec`: two tasks and two awaits let A call B while B calls A, and a context call itself.
- `rpc`: two contexts can have the name one after the other during one call;
  calls do not influence each other, so one is enough.
- `gamelogin`: two names and a second login let a connection change its name while
  its first login is in flight, against another connection that takes it over.
- `entitymgr`: an index is used three times, beside others; pools are made before and after.
- `generator`: five frames make a generator nested twice beside another root with
  one nested in it, and a frame that is allocated again while a stale pointer to
  it would still be around; two values tell the innermost generator's from its root's.
- `app`: lengths modulo 3 and names of 1 to 4 characters make names that fit, the one
  only the assertion refuses, one that becomes empty and one that becomes another name;
  one failed request makes a second handling, before or after the first is answered.
- `gamescene`: three views are the first, one of another connection, one more of the same.

`CHECK_DEADLOCK FALSE` is in four passing configurations: in `CtxExec.cfg` because the
deadlock by spinning is real and `StuckOnlyBySpinning` says which states they are,
in `Rpc.cfg` because nothing is left to do when the calls have ended and the
contexts are stopped, in `Generator.cfg` because the model goes no further than an
undefined resumption or a self-move, in `App.cfg` because `start()` returns, throws or the
process ends. The other modules have an explicit step for legal ends, or a call that is always possible.

### Fairness

- `CvQueue`: a call in progress goes on; the coroutine mutex resumes its waiters
  in turn, so a consumer that waits for it again and again gets it (strong
  fairness); `push` spins with `tryLock` and has no turn (weak). Nobody has to call.
- `NodeLink`: coroutine and handlers go on, a finished request is answered, the
  peer is started again. Failures are free, but finitely many (`MaxFails`).
  `DispatchLeadsToHandled` would be false for a peer that stays down, as in the code.
- `CtxExec`: an executor serves its queue in order, so a ready task has its turn
  (strong fairness of `Dispatch`); awaited work ends.
- `Rpc`: executors run what is ready and `send_request` times out. That the callee's
  lock becomes free or the function ends is not assumed: `CallEndsOrRuns` excepts a
  local call in that state, and no other.
- `App`: the threads of `start()` and of a `stop()` that has set `bstop` go on, and
  `on_init` ends, with a result or an exception. Nobody has to call `stop()`, links and contexts need do nothing.
- `GameLogin` (`gamelogin_kick` only): tasks are executed, a closed socket ends its read loop. Clients need do nothing.

## 4. Findings

1. **dispatch may drop** (`src/cqy_app.cpp:162`). `test/test.cpp:262-263` and
   `example/ping.cpp:55-56` say that `dispatch` retries until the peer is ready.
   The server answers from `rpc_server_start` on, contexts come later: a message
   in between is dropped, acknowledged and never repeated.
2. **a repeated login does not kick** (`example/game_demo.cpp:395`). The gate has no
   branch for world's `close`, although line 394 announces the kick.

Also seen while modelling, listed under hazards: `shutdown` of the queue can miss
a consumer; `del_ctx` leaves the second name of a context behind; a name
registered by a failed `on_init` stays; one send may go through a null
`rpc_client`; `finally` can spin on the thread the lock's owner needs; the lock
of `ws_server_t::conns` is never awaited; the close of an older login erases the
name of the newer one; `add` through a stale id; `stop()` before the server runs,
after which nothing stops it; after 2^24 creations a context gets an id that may
be in use; entering a scene twice meets an assertion on components that views
never get (`example/game_demo.cpp:652`); `begin()` of a Generator whose first
`begin()` threw resumes a finished coroutine; links read the table of nodes while
`start()` still grows it, and are left running when the own node is not
configured; an exception out of the bootstrap's `on_init` (`register_name` throws)
leaves `start()` with server and links running; a Generator assigned to itself
holds a destroyed frame; a connection that logs in a second time while its first login
is in flight stays in `name2conid` and `name2id` under one of its names after its close; a name of 256 characters and more is cut to another name in builds
without assertions.

## 5. Proofs

For every number of threads, messages, contexts, connections and so on. A theorem
`Spec => []P` rests on an inductive invariant; the properties alone are seldom
inductive.

| Module | Theorems | Inductive invariant and why |
|---|---|---|
| `CvQueueProofs` | `TypeCorrect`, `FifoOnceHolds`, `ChannelRefinement`, `NoLostWakeupHolds`, `StrandedOnlyIfMissedHolds`, `AtMostOneLateTakeHolds` | `Inv`: the mutex is owned exactly at the critical steps (`LockInv`), so what a thread saw is still true when it acts (`WaitInv`, `HoldInv`). On it `FifoOnce` (appended = taken then queued) gives the refinement. `ParkMissed` in `WakeInv` covers consumers that are about to park; `LateInv` ties late takes to the top of the loop |
| `NodeLinkProofs` | `TypeCorrect`, `AckedHandledHolds`, `ChannelRefinement`, `ExactlyOnceHolds`, `AtMostOneLateSendHolds` | `SeenInv`: first encounters are 1, 2, 3...; `ReqInv`: no request, stale ones included, is ahead of them. That is why repeated and overtaking requests cannot break the order. `CalmInv` (no failure so far: the only request is the awaited one), `LateInv` |
| `CtxMgrProofs` | `TypeCorrect`, `LookupExactHolds`, `NamesKeptHolds`, `NoZombieHolds`, `ShutdownReachesAllHolds`, `ClashOnlyAfterWrapHolds` | `Sorted`: strictly increasing names, kept by insertion and erasure; with it a name leads to its owner until the step that removes the owner (`NamesKept`). `MapInv`: a context is not in the map before its `add_ctx` (`FreshInv`), a stopper holds a context of its id (`OwnInv`), and the properties strengthened (`LoopInv`), for ids that wrap; two contexts of one id are a whole round of allocations apart |
| `AppProofs`, of `App` | `AppTypeCorrect`, `NothingLeftRunningHolds`, `CrashOnlyAtEdgesHolds`, `DispatchFateHolds` | `TableInv`: how far `start()` has come decides which entries have a client, which are shut and whether there is a context; the loop of `shutdown()` has treated every entry but those in `todo`. `QueueInv`, `SessionInv`: a message in a link or in a stale request (`Pending`) names the context its sender named, and no other has its session, so that settling one touches no other and handling it again gives the same fate. `MailInv`: who answers a session was the right one, or the name did not fit |
| `AppProofs`, of `CtxExec` | `TypeCorrect`, `NoRaceHolds`, `NoOrphanLockHolds` | a lock is taken exactly as long as one task owns it: `NoRace`, `NoOrphanLock` and `OwnerLocked` are inductive only together |
| `RpcProofs` | `TypeCorrect`, `StatusHonestHolds`, `RightContextHolds`, `LateOnlyAfterNetHolds` | `NameInv` (names and contexts agree), `OwnersInv` (who has the name now is recorded for calls that have not looked it up), `StageInv` (what each stage of a call has and has not done); `EndInv` (a call that has returned has a status, and "threw" means that the function ran) for the action property: after any result but -4 nothing is executed any more |
| `GameProofs`, of `GameLogin` | `TypeCorrect`, `OnePlayerPerNameHolds`, `NameHasLoginHolds`, `ReferenceValidHolds`, `NoGhostHolds`, `LoginMovesPlayers` | `NamesInv`: a name leads to a connection with an answered login of that name (`NameAnswered`, `NameAdded`) that plays under it or got in under another too (`WorldNames`, `GameNames`), `LoginHasPlayer` (a login in flight has its player), `StoppedForgets` (after a stop every context has forgotten the connection or has a close for it in its inbox) |
| `GameProofs`, of `GameScene` | `SceneTypeCorrect`, `RewardOnceHolds`, `PlotToPlayerHolds`, `LineToPlayerHolds` | `SceneInv`: with `OnePlayerPerName` the name leads back to the connection that acts, which is why the plot talks to it; `SceneBegun`: a scene whose plot has begun has a view, and the view the reward goes to is the first; `ViewsOwned`: `connid2eid` leads to the newest view of its connection |
| `GeneratorProofs` | `TypeCorrect`, `FramesOwnedOnce`, `NestingPointers`, `OnlyThrownResumedWrongly`, `StreamRefinement` | `Inv`: no frame is in two stacks (`Disjoint`), the innermost frame runs or waits at a yield (`InnermostInv`), everything outside the stacks has not begun or is over (`OutsideInv`), what runs is innermost in the root being resumed (`RunInv`), a Generator holds a coroutine that has not begun unless its `begin()` threw (`HolderInv`). A self-move breaks it, so what is invariant is `Inv` or `SelfMoved`, after which nothing happens. Together they make the frames destroyed with a root exactly its stack, without which neither the owners nor the pointers are inductive |
| `EntityMgrProofs` | `TypeCorrect`, `PoolsCoverHolds`, `CheckExactHolds`, `IndexOnceHolds`, `QueryExactHolds`, `StoreRefinement` | `VersionInv`: living ids have the version of their index, dead and free ones are older; `FreeInv`: no index twice in the free list; `CleanInv`: no component in a free slot, which is what an entity would inherit |

Assumptions: the `ASSUME`s of the component modules (bounds are numbers, the
kinds of threads are disjoint, `None` is none of them). Those of
`App`: node and name are not 0, the own node is none of the peers, the bootstrap's
name is one of the names. `CtxMgrProofs` assumes nothing of the number of allocations:
`NoZombie` and `ShutdownReachesAll` speak of contexts whose id nobody else got, and
`ClashOnlyAfterWrap` of all of them. Those of `EntityMgrProofs` assume `MaxVer < VerMod`,
below 2^32 uses of an index; `StoreRefinement` also `~StaleAdds`: a caller that adds through a dead id
does make the next entity inherit a component. The others of that module hold
for such callers too, which the run does not instantiate.

Only model-checked: liveness (`AcceptedLeadsToTaken`, `StopLeadsToExit`,
`DispatchLeadsToHandled`, `StuckOnlyBySpinning`, `CallEndsOrRuns`, `StopEndsStart`), which
needs fairness and is out of the prover's reach. Every invariant, action property
and refinement of the passing runs has a theorem. `FifoOnce`, `AtMostOneLateTake`,
`IndexOnce`, `LateOnlyAfterNet` and the type invariants are proved and in
no run; the first is what `ImplementsChannel` says.

## 6. Not modelled

- `cqy_algo`, `cqy_finally`, `cqy_logger`, ping, pong: no state of their own to
  get wrong; what `finally` does is part of `CtxExec`.
- msgpack and struct_pack: byte formats without control.
- async_simple, coro_rpc, coro_http, the client pool: external, modelled by what
  the code relies on.
- `muli` handlers: they run outside the lock by declaration.
- The data race on `ws_server_t::conns`: undefined behaviour inside a container;
  listed as a hazard. The one on the vector of nodes is a crash in `App`.
- Messages that do not parse: every message is made by `make`, so `parse` only
  returns what the operators of `CqyMsg` say.
- `entities_with_components` for a kind that no entity has got yet, which reads past
  the pools: the demo asks only after `enter_scene` has added the component.
- Texts, positions, building and fighting in the game demo, and what is written back to clients.

## 7. Plan

1. Done: queue, link, context manager, execution, RPC, login, scenes, entities,
   generator, message layout, start, stop and routing of an application; proofs
   of every safety property of the runs.
2. An abstract specification of a call, at most one execution and one result, that
   `Rpc` implements; `StatusHonest` and `LateOnlyAfterNet` are its two halves.
3. Composition of `CvQueue` and `CtxExec`: a context's mailbox and its tasks up to
   the end of the last one after `stop_ctx`.
4. `muli` handlers that use `sync_call`, as tasks of `CtxExec` without the lock.
   New runs replace weaker ones where they ask the same question of more of the system.
