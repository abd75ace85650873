------------------------------- MODULE NodeLink -------------------------------
(***************************************************************************)
(* One outgoing link of a node: cqy_node::node_mq_spawn takes everything    *)
(* that was dispatched to a peer, sends it as one rpc_on_mq request and     *)
(* repeats the request until it is answered; the peer's                     *)
(* cqy_app::rpc_on_mq walks the batch and pushes each message into the      *)
(* mailbox of the context it names.                                         *)
(*                                                                         *)
(* Messages are numbered in the order they were dispatched.  The link's     *)
(* queue is FIFO (CvQueue), so it holds popped+1 .. pushed and the batch    *)
(* msgs holds acked+1 .. popped.  coro_rpc and its client pool are external: *)
(* a request reaches the peer at most once, its answer may be lost or come  *)
(* too late, and then the peer may still be working on it.                  *)
(***************************************************************************)
EXTENDS Integers, Sequences

CONSTANTS
  MaxMsgs,     \* bound on the messages dispatched
  MaxFails,    \* bound on the failures of the network and of the peer
  Slots,       \* room for requests the peer has not finished
  None         \* no request

\* A request carries messages lo+1 .. hi; rpc_on_mq has gone past lo+1 .. pos
\* and, when found, holds the context for message pos+1.
Requests ==
  [lo : 0..MaxMsgs, hi : 0..MaxMsgs, pos : 0..MaxMsgs, found : BOOLEAN]

ASSUME LinkAssumption ==
  /\ MaxMsgs \in Nat /\ MaxFails \in Nat
  /\ None \notin Slots /\ None \notin Requests

VARIABLES
  pushed,      \* messages dispatched so far
  popped,      \* messages taken out of the queue by pop_all
  acked,       \* messages whose request was answered
  pc,          \* next step of node_mq_spawn
  stop,        \* coro_queue.stop
  client,      \* rpc_client is set
  cur,         \* slot of the request being awaited
  reqs,        \* requests at the peer, by slot
  phase,       \* the peer and the context the messages are for
  fails,       \* failures so far
  seen,        \* history: messages in the order rpc_on_mq first met them
  again,       \* history: messages rpc_on_mq met more than once
  delivered,   \* history: messages pushed into the context's mailbox
  lateSends    \* history: requests attempted after stop

vars == <<pushed, popped, acked, pc, stop, client, cur, reqs, phase, fails,
          seen, again, delivered, lateSends>>

sender  == <<pushed, popped, acked, stop, client, lateSends>>
history == <<seen, again, delivered>>

Pcs == {"top", "fill", "send", "wait", "sleep", "done", "crashed"}

\* down: no server; serving: the server runs, the context is not registered;
\* ready: add_ctx was called; gone: stop_ctx was called.
Phases == {"down", "serving", "ready", "gone"}

Init ==
  /\ pushed = 0 /\ popped = 0 /\ acked = 0 /\ lateSends = 0
  /\ pc = "top" /\ stop = FALSE /\ client = TRUE /\ cur = None
  /\ reqs = [s \in Slots |-> None] /\ phase = "down" /\ fails = 0
  /\ seen = <<>> /\ again = {} /\ delivered = {}

-----------------------------------------------------------------------------
(* The sending node *)

\* node_mq_push: coro_queue.push.  A stopped queue ignores the call, which is
\* a stuttering step; one that tested stop before shutdown may append after it.
NodeMqPush ==
  /\ pushed < MaxMsgs
  /\ pushed' = pushed + 1
  /\ UNCHANGED <<popped, acked, pc, stop, client, cur, reqs, phase, fails,
                 history, lateSends>>

\* Variant: the loop does not look at stop.
LoopTopForever ==
  /\ pc = "top"
  /\ pc' = IF acked = popped THEN "fill" ELSE "send"
  /\ UNCHANGED <<sender, cur, reqs, phase, fails, history>>

\* while (!stop): a batch that was not answered is sent again.
LoopTop ==
  /\ pc = "top"
  /\ pc' = IF stop THEN "done" ELSE IF acked = popped THEN "fill" ELSE "send"
  /\ UNCHANGED <<sender, cur, reqs, phase, fails, history>>

\* pop_all returns the whole queue, or nothing when stopped: then break.
Fill ==
  /\ pc = "fill" /\ (popped < pushed \/ stop)
  /\ popped' = pushed
  /\ pc' = IF pushed = popped THEN "done" ELSE "send"
  /\ UNCHANGED <<pushed, acked, stop, client, cur, reqs, phase, fails, history,
                 lateSends>>

\* Variant: the request carries only the newest message of the batch.
SendNewest ==
  /\ pc = "send" /\ client /\ phase # "down"
  /\ \E s \in Slots :
       /\ reqs[s] = None
       /\ cur' = s
       /\ reqs' = [reqs EXCEPT ![s] = [lo |-> popped - 1, hi |-> popped,
                                       pos |-> popped - 1, found |-> FALSE]]
  /\ pc' = "wait"
  /\ lateSends' = IF stop THEN lateSends + 1 ELSE lateSends
  /\ UNCHANGED <<pushed, popped, acked, stop, client, phase, fails, history>>

\* n->rpc_client->send_request(...) reaches the peer.
Send ==
  /\ pc = "send" /\ client /\ phase # "down"
  /\ \E s \in Slots :
       /\ reqs[s] = None
       /\ cur' = s
       /\ reqs' = [reqs EXCEPT ![s] =
                     [lo |-> acked, hi |-> popped, pos |-> acked, found |-> FALSE]]
  /\ pc' = "wait"
  /\ lateSends' = IF stop THEN lateSends + 1 ELSE lateSends
  /\ UNCHANGED <<pushed, popped, acked, stop, client, phase, fails, history>>

\* conn error: the peer is down ...
SendRefused ==
  /\ pc = "send" /\ client /\ phase = "down"
  /\ pc' = "sleep"
  /\ lateSends' = IF stop THEN lateSends + 1 ELSE lateSends
  /\ UNCHANGED <<pushed, popped, acked, stop, client, cur, reqs, phase, fails,
                 history>>

\* ... or the network fails.
SendFails ==
  /\ pc = "send" /\ client /\ phase # "down"
  /\ fails < MaxFails /\ fails' = fails + 1
  /\ pc' = "sleep"
  /\ lateSends' = IF stop THEN lateSends + 1 ELSE lateSends
  /\ UNCHANGED <<pushed, popped, acked, stop, client, cur, reqs, phase, history>>

\* shutdown has reset rpc_client: the call goes through a null pointer.
SendNull ==
  /\ pc = "send" /\ ~client
  /\ pc' = "crashed"
  /\ lateSends' = lateSends + 1
  /\ UNCHANGED <<pushed, popped, acked, stop, client, cur, reqs, phase, fails,
                 history>>

\* Variant: no msgs.clear().
AnsweredKeeps ==
  /\ pc = "wait" /\ reqs[cur] # None /\ reqs[cur].pos = reqs[cur].hi
  /\ reqs' = [reqs EXCEPT ![cur] = None] /\ cur' = None
  /\ pc' = "top"
  /\ UNCHANGED <<sender, phase, fails, history>>

\* The answer arrives: msgs.clear().
Answered ==
  /\ pc = "wait" /\ reqs[cur] # None /\ reqs[cur].pos = reqs[cur].hi
  /\ acked' = popped
  /\ reqs' = [reqs EXCEPT ![cur] = None] /\ cur' = None
  /\ pc' = "top"
  /\ UNCHANGED <<pushed, popped, stop, client, phase, fails, history, lateSends>>

\* The peer went down with the request.
RequestDies ==
  /\ pc = "wait" /\ reqs[cur] = None
  /\ cur' = None /\ pc' = "sleep"
  /\ UNCHANGED <<sender, reqs, phase, fails, history>>

\* Variant: the batch is cleared although the request failed.
RequestFailsClears ==
  /\ pc = "wait" /\ reqs[cur] # None
  /\ fails < MaxFails /\ fails' = fails + 1
  /\ acked' = popped
  /\ cur' = None /\ pc' = "sleep"
  /\ UNCHANGED <<pushed, popped, stop, client, lateSends, reqs, phase, history>>

\* A broken connection, a timeout: the peer has the request and goes on.
RequestFails ==
  /\ pc = "wait" /\ reqs[cur] # None
  /\ fails < MaxFails /\ fails' = fails + 1
  /\ cur' = None /\ pc' = "sleep"
  /\ UNCHANGED <<sender, reqs, phase, history>>

\* sleep_for(2s) is over: continue.
Wake ==
  /\ pc = "sleep" /\ pc' = "top"
  /\ UNCHANGED <<sender, cur, reqs, phase, fails, history>>

\* cqy_node::shutdown: coro_queue.shutdown(), then rpc_client.reset().
ShutdownQueue ==
  /\ ~stop /\ stop' = TRUE
  /\ UNCHANGED <<pushed, popped, acked, pc, client, cur, reqs, phase, fails,
                 history, lateSends>>

ShutdownClient ==
  /\ stop /\ client /\ client' = FALSE
  /\ UNCHANGED <<pushed, popped, acked, pc, stop, cur, reqs, phase, fails,
                 history, lateSends>>

-----------------------------------------------------------------------------
(* The peer *)

\* cqy_app::start: rpc_server_start comes before create_ctx of the bootstrap.
PeerStart ==
  /\ phase = "down" /\ phase' = "serving"
  /\ UNCHANGED <<sender, pc, cur, reqs, fails, history>>

\* The end of create_ctx: add_ctx.
PeerAddCtx ==
  /\ phase = "serving" /\ phase' = "ready"
  /\ UNCHANGED <<sender, pc, cur, reqs, fails, history>>

\* stop_ctx: del_ctx and the mailbox's shutdown.
PeerStopCtx ==
  /\ phase = "ready" /\ phase' = "gone"
  /\ UNCHANGED <<sender, pc, cur, reqs, fails, history>>

\* The peer's process ends, and its handlers with it.
PeerCrash ==
  /\ phase # "down" /\ phase' = "down"
  /\ fails < MaxFails /\ fails' = fails + 1
  /\ reqs' = [s \in Slots |-> None]
  /\ UNCHANGED <<sender, pc, cur, history>>

\* The messages some rpc_on_mq has gone past.
Handled == {seen[i] : i \in 1..Len(seen)}

\* rpc_on_mq is done with the next message of request s.  Its early return for a
\* message that does not parse is never taken: node_mq_push parses what it queues.
GoPast(s) ==
  LET m == reqs[s].pos + 1 IN
  /\ reqs' = [reqs EXCEPT ![s].pos = m, ![s].found = FALSE]
  /\ IF m \in Handled THEN again' = again \cup {m} /\ UNCHANGED seen
                       ELSE seen' = Append(seen, m) /\ UNCHANGED again

Working(s) == reqs[s] # None /\ reqs[s].pos < reqs[s].hi

\* find_name and get_ctx find the context ...
MqFound(s) ==
  /\ Working(s) /\ ~reqs[s].found /\ phase = "ready"
  /\ reqs' = [reqs EXCEPT ![s].found = TRUE]
  /\ UNCHANGED <<sender, pc, cur, phase, fails, history>>

\* ... or not: the message is dropped with a log line, the loop goes on.
MqDrop(s) ==
  /\ Working(s) /\ ~reqs[s].found /\ phase # "ready"
  /\ GoPast(s)
  /\ UNCHANGED <<sender, pc, cur, phase, fails, delivered>>

\* node_push_msg: the mailbox of a stopped context ignores the push.
MqPush(s) ==
  /\ Working(s) /\ reqs[s].found
  /\ GoPast(s)
  /\ delivered' = IF phase = "ready" THEN delivered \cup {reqs[s].pos + 1}
                  ELSE delivered
  /\ UNCHANGED <<sender, pc, cur, phase, fails>>

\* A request nobody waits for any more ends, or was lost before it arrived.
Abandoned(s) ==
  /\ reqs[s] # None /\ s # cur
  /\ reqs[s].pos \in {reqs[s].lo, reqs[s].hi} /\ ~reqs[s].found
  /\ reqs' = [reqs EXCEPT ![s] = None]
  /\ UNCHANGED <<sender, pc, cur, phase, fails, history>>

-----------------------------------------------------------------------------

SenderStep ==
  \/ LoopTop \/ Fill \/ Send \/ SendRefused \/ SendFails \/ SendNull
  \/ Answered \/ RequestDies \/ RequestFails \/ Wake
HandlerStep(s) == MqFound(s) \/ MqDrop(s) \/ MqPush(s)
PeerStep == PeerStart \/ PeerAddCtx

\* node_mq_spawn has ended; what the peer still does is of no interest to it.
Ended == pc \in {"done", "crashed"} /\ UNCHANGED vars

Next ==
  \/ NodeMqPush \/ SenderStep \/ ShutdownQueue \/ ShutdownClient
  \/ PeerStep \/ PeerStopCtx \/ PeerCrash
  \/ \E s \in Slots : HandlerStep(s) \/ Abandoned(s)
  \/ Ended

\* The coroutine, the handlers and the peer's start go on, and the answer to
\* a finished request arrives.  Failures (SendFails, RequestFails, PeerCrash)
\* are free to happen, finitely often.
Fairness ==
  /\ WF_vars(LoopTop \/ Fill \/ Send \/ SendRefused \/ Answered \/ RequestDies
             \/ Wake)
  /\ WF_vars(PeerStart)
  /\ \A s \in Slots : WF_vars(HandlerStep(s)) /\ WF_vars(Abandoned(s))

Spec == Init /\ [][Next]_vars
FairSpec == Spec /\ Fairness

-----------------------------------------------------------------------------
(* Properties *)

\* Every variable keeps its type; the counters are ordered.
TypeOK ==
  /\ pushed \in 0..MaxMsgs /\ popped \in 0..pushed /\ acked \in 0..popped
  /\ pc \in Pcs /\ stop \in BOOLEAN /\ client \in BOOLEAN
  /\ cur \in Slots \cup {None} /\ (pc = "wait" => cur \in Slots)
  /\ reqs \in [Slots -> Requests \cup {None}]
  /\ phase \in Phases /\ fails \in 0..MaxFails
  /\ seen \in Seq(1..MaxMsgs)
  /\ again \subseteq 1..MaxMsgs /\ delivered \subseteq 1..MaxMsgs
  /\ lateSends \in Nat

\* Whatever fails, is repeated or overtakes: the link is a FIFO channel whose
\* receiver is the peer's first encounter with each message.  A request sent
\* again, or an abandoned one still running, only repeats old messages.
Channel == INSTANCE FifoChannel WITH
  Msgs <- 1..MaxMsgs, sent <- [i \in 1..pushed |-> i], got <- seen, closed <- stop
ImplementsChannel == Channel!Spec

\* node_mq_spawn forgets a batch (msgs.clear) only when rpc_on_mq went through
\* all of it: nothing is lost between the two nodes while the link runs.
AckedHandled == 1..acked \subseteq Handled

\* Only failures make the link send a message twice.
ExactlyOnceWithoutFailure == fails = 0 => again = {}

\* shutdown resets rpc_client while node_mq_spawn may be about to use it: the
\* loop makes at most one attempt to send after stop.
AtMostOneLateSend == lateSends <= 1

\* What example/ping.cpp:55-56 and test/test.cpp:262-263 promise of dispatch:
\* it retries until the other side is there, no message is dropped before.
\* Here: a message the sender is done with reached the context, unless the
\* context was stopped.
DispatchNotDropped == phase # "gone" => 1..acked \subseteq delivered

\* A dispatched message gets to the peer, unless the link is shut down.
DispatchLeadsToHandled ==
  \A m \in 1..MaxMsgs : pushed >= m ~> (m \in Handled \/ stop)

=============================================================================
