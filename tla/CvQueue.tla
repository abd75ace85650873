------------------------------- MODULE CvQueue -------------------------------
(***************************************************************************)
(* cqy_cv_queue_t<T> (include/cqy_utils.h:104-166): the unbounded queue     *)
(* behind every context mailbox (cqy_ctx.cpp, pop) and every outgoing node  *)
(* link (cqy_node.cpp, pop_all).  A coroutine mutex guards a deque, a       *)
(* condition variable parks the consumer, an atomic flag stops everybody.   *)
(*                                                                         *)
(* A thread of the model is a call in progress; its pc names the next step. *)
(* The mutex and the condition variable are external (async_simple): the    *)
(* mutex is its owner, the condition variable the set of parked consumers,  *)
(* and waiting atomically joins that set and releases the mutex.            *)
(***************************************************************************)
EXTENDS Integers, Sequences, FiniteSets

CONSTANTS
  Producers,   \* threads that call push
  Consumers,   \* coroutines that loop over pop or pop_all
  PopAll,      \* the consumers that use size and pop_all (node_mq_spawn)
  Pollers,     \* threads that call try_pop
  Closers,     \* threads that call shutdown, once each
  Msgs,        \* the messages, each pushed at most once
  None         \* no message, no owner

Threads == Producers \cup Consumers \cup Pollers \cup Closers

ASSUME ThreadsAssumption ==
  /\ Producers \cap (Consumers \cup Pollers \cup Closers) = {}
  /\ Consumers \cap (Pollers \cup Closers) = {}
  /\ Pollers \cap Closers = {}
  /\ PopAll \subseteq Consumers
  /\ None \notin Threads
  /\ None \notin Msgs

VARIABLES
  items,       \* the deque
  stop,        \* the atomic flag
  owner,       \* holder of the mutex, or None
  parked,      \* consumers suspended in the condition variable
  pc,          \* next step of every thread
  arg,         \* the message a producer is pushing
  hold,        \* what a consumer or poller has moved out of the deque
  unsent,      \* messages nobody has pushed yet
  accepted,    \* history: the messages appended, in order
  taken,       \* history: the messages handed out, in order
  missed,      \* history: consumers about to park when shutdown notified
  late         \* history: per consumer, the takes completed after stop

vars == <<items, stop, owner, parked, pc, arg, hold, unsent, accepted, taken,
          missed, late>>

ProducerPcs == {"idle", "spin", "append", "notify"}
ConsumerPcs == {"top", "size", "sizing", "lock", "pred", "park", "parked",
                "check", "grab", "erase", "done"}
PollerPcs   == {"idle", "grab", "erase"}
CloserPcs   == {"idle", "notifyAll", "done"}

\* The steps at which a thread owns the mutex.
Critical == {"append", "sizing", "pred", "park", "check", "grab", "erase"}

Init ==
  /\ items = <<>> /\ stop = FALSE /\ owner = None /\ parked = {}
  /\ pc = [t \in Threads |-> IF t \in Consumers THEN "top" ELSE "idle"]
  /\ arg = [p \in Producers |-> None]
  /\ hold = [c \in Consumers \cup Pollers |-> <<>>]
  /\ unsent = Msgs
  /\ accepted = <<>> /\ taken = <<>>
  /\ missed = {} /\ late = [c \in Consumers |-> 0]

Goto(t, label) == pc' = [pc EXCEPT ![t] = label]

history == <<accepted, taken, missed, late>>

-----------------------------------------------------------------------------
(* push *)

\* A call that finds the queue running goes on to the mutex.
PushBegin(p, m) ==
  /\ pc[p] = "idle" /\ m \in unsent /\ ~stop
  /\ unsent' = unsent \ {m}
  /\ arg' = [arg EXCEPT ![p] = m]
  /\ Goto(p, "spin")
  /\ UNCHANGED <<items, stop, owner, parked, hold, history>>

\* A stopped queue ignores the call.
PushRefused(p, m) ==
  /\ pc[p] = "idle" /\ m \in unsent /\ stop
  /\ unsent' = unsent \ {m}
  /\ UNCHANGED <<items, stop, owner, parked, pc, arg, hold, history>>

\* while (!lock.tryLock()): the failing iterations are stuttering.
PushLock(p) ==
  /\ pc[p] = "spin" /\ owner = None
  /\ owner' = p /\ Goto(p, "append")
  /\ UNCHANGED <<items, stop, parked, arg, hold, unsent, history>>

\* emplace_back, and the guard's destructor releases the mutex.
PushAppend(p) ==
  /\ pc[p] = "append"
  /\ items' = Append(items, arg[p])
  /\ accepted' = Append(accepted, arg[p])
  /\ arg' = [arg EXCEPT ![p] = None]
  /\ owner' = None /\ Goto(p, "notify")
  /\ UNCHANGED <<stop, parked, hold, unsent, taken, missed, late>>

\* Resume the parked consumers of W, thread t goes to label.
Wake(t, label, W) ==
  /\ parked' = parked \ W
  /\ pc' = [u \in Threads |-> IF u = t THEN label
                              ELSE IF u \in W THEN "lock" ELSE pc[u]]

\* Variant: push without a notify.
PushNotifyNobody(p) ==
  /\ pc[p] = "notify"
  /\ Goto(p, "idle")
  /\ UNCHANGED <<items, stop, owner, parked, arg, hold, unsent, history>>

\* cv.notify(), outside the mutex: some parked consumer if there is one.
PushNotify(p) ==
  /\ pc[p] = "notify"
  /\ \E W \in SUBSET parked :
       /\ parked # {} => W # {}
       /\ Wake(p, "idle", W)
  /\ UNCHANGED <<items, stop, owner, arg, hold, unsent, history>>

-----------------------------------------------------------------------------
(* The consumer loops of wait_msg_spawn and node_mq_spawn; size, pop, pop_all *)

\* while (!stop)
LoopTop(c) ==
  /\ pc[c] = "top"
  /\ Goto(c, IF stop THEN "done" ELSE IF c \in PopAll THEN "size" ELSE "lock")
  /\ UNCHANGED <<items, stop, owner, parked, arg, hold, unsent, history>>

\* size(): co_await lock.coScopedLock().
SizeLock(c) ==
  /\ pc[c] = "size" /\ owner = None
  /\ owner' = c /\ Goto(c, "sizing")
  /\ UNCHANGED <<items, stop, parked, arg, hold, unsent, history>>

\* size() returns; only log lines depend on its value.
SizeReturn(c) ==
  /\ pc[c] = "sizing"
  /\ owner' = None /\ Goto(c, "lock")
  /\ UNCHANGED <<items, stop, parked, arg, hold, unsent, history>>

\* coScopedLock at the head of pop and pop_all, coLock inside cv.wait.
PopLock(c) ==
  /\ pc[c] = "lock" /\ owner = None
  /\ owner' = c /\ Goto(c, "pred")
  /\ UNCHANGED <<items, stop, parked, arg, hold, unsent, history>>

\* The predicate of cv.wait.
WaitPred(c) ==
  /\ pc[c] = "pred"
  /\ Goto(c, IF items = <<>> /\ ~stop THEN "park"
             ELSE IF c \in PopAll THEN "grab" ELSE "check")
  /\ UNCHANGED <<items, stop, owner, parked, arg, hold, unsent, history>>

\* cv.wait suspends: join the waiters and release the mutex.
Park(c) ==
  /\ pc[c] = "park"
  /\ parked' = parked \cup {c}
  /\ owner' = None /\ Goto(c, "parked")
  /\ UNCHANGED <<items, stop, arg, hold, unsent, history>>

\* pop reads stop again and goes on to take the front.
PopCheck(c) ==
  /\ pc[c] = "check" /\ items # <<>> /\ ~stop
  /\ Goto(c, "grab")
  /\ UNCHANGED <<items, stop, owner, parked, arg, hold, unsent, history>>

\* pop throws "queue stop", which releases the mutex; the loop catches it.
PopThrow(c) ==
  /\ pc[c] = "check" /\ (items = <<>> \/ stop)
  /\ owner' = None /\ Goto(c, "top")
  /\ UNCHANGED <<items, stop, parked, arg, hold, unsent, history>>

\* Move the front out (pop, try_pop), or the whole deque (pop_all).
Grab(c) ==
  /\ pc[c] = "grab"
  /\ hold' = [hold EXCEPT ![c] = IF c \in PopAll THEN items ELSE <<Head(items)>>]
  /\ Goto(c, "erase")
  /\ UNCHANGED <<items, stop, owner, parked, arg, unsent, history>>

\* What pop_front, or the moved-from deque, leaves behind.
Erased(c) == IF c \in PopAll THEN <<>> ELSE Tail(items)

\* pop_front or the end of the move; the scope's destructor releases the
\* mutex.  node_mq_spawn leaves its loop on an empty batch.
Erase(c) ==
  /\ pc[c] = "erase"
  /\ items' = Erased(c)
  /\ taken' = taken \o hold[c]
  /\ late' = [late EXCEPT ![c] = IF stop /\ hold[c] # <<>> THEN @ + 1 ELSE @]
  /\ hold' = [hold EXCEPT ![c] = <<>>]
  /\ owner' = None
  /\ Goto(c, IF hold[c] = <<>> THEN "done" ELSE "top")
  /\ UNCHANGED <<stop, parked, arg, unsent, accepted, missed>>

-----------------------------------------------------------------------------
(* try_pop: gives up when the mutex is taken or the deque is empty. *)

TryPopLock(q) ==
  /\ pc[q] = "idle" /\ owner = None
  /\ owner' = q /\ Goto(q, "grab")
  /\ UNCHANGED <<items, stop, parked, arg, hold, unsent, history>>

TryPopEmpty(q) ==
  /\ pc[q] = "grab" /\ items = <<>>
  /\ owner' = None /\ Goto(q, "idle")
  /\ UNCHANGED <<items, stop, parked, arg, hold, unsent, history>>

TryPopFront(q) ==
  /\ pc[q] = "grab" /\ items # <<>>
  /\ hold' = [hold EXCEPT ![q] = <<Head(items)>>]
  /\ Goto(q, "erase")
  /\ UNCHANGED <<items, stop, owner, parked, arg, unsent, history>>

TryPopErase(q) ==
  /\ pc[q] = "erase"
  /\ items' = Tail(items)
  /\ taken' = taken \o hold[q]
  /\ hold' = [hold EXCEPT ![q] = <<>>]
  /\ owner' = None /\ Goto(q, "idle")
  /\ UNCHANGED <<stop, parked, arg, unsent, accepted, missed, late>>

-----------------------------------------------------------------------------
(* shutdown *)

\* Variant: every caller flips the flag.
ShutdownToggle(s) ==
  /\ pc[s] = "idle"
  /\ stop' = ~stop
  /\ Goto(s, IF stop THEN "done" ELSE "notifyAll")
  /\ UNCHANGED <<items, owner, parked, arg, hold, unsent, history>>

\* stop.exchange(true): only the first caller goes on.
ShutdownExchange(s) ==
  /\ pc[s] = "idle"
  /\ stop' = TRUE
  /\ Goto(s, IF stop THEN "done" ELSE "notifyAll")
  /\ UNCHANGED <<items, owner, parked, arg, hold, unsent, history>>

\* Variant: cv.notify() in place of cv.notifyAll().
ShutdownNotifyOne(s) ==
  /\ pc[s] = "notifyAll"
  /\ IF parked = {} THEN Wake(s, "done", {})
     ELSE \E c \in parked : Wake(s, "done", {c})
  /\ missed' = missed \cup {c \in Consumers : pc[c] = "park"}
  /\ UNCHANGED <<items, stop, owner, arg, hold, unsent, accepted, taken, late>>

\* cv.notifyAll() without the mutex: a consumer between its predicate and
\* its suspension is not a waiter yet and is not woken.
ShutdownNotify(s) ==
  /\ pc[s] = "notifyAll"
  /\ Wake(s, "done", parked)
  /\ missed' = missed \cup {c \in Consumers : pc[c] = "park"}
  /\ UNCHANGED <<items, stop, owner, arg, hold, unsent, accepted, taken, late>>

-----------------------------------------------------------------------------

ProducerStep(p) == PushLock(p) \/ PushAppend(p) \/ PushNotify(p)
ConsumerStep(c) ==
  \/ LoopTop(c)  \/ SizeLock(c) \/ SizeReturn(c) \/ PopLock(c) \/ WaitPred(c)
  \/ Park(c)     \/ PopCheck(c) \/ PopThrow(c)   \/ Grab(c)    \/ Erase(c)
PollerStep(q) ==
  TryPopLock(q) \/ TryPopEmpty(q) \/ TryPopFront(q) \/ TryPopErase(q)

\* Every message was pushed and every call has returned or is parked.
Quiescent ==
  /\ unsent = {}
  /\ \A t \in Threads : pc[t] \in {"idle", "parked", "done"}
  /\ \A s \in Closers : pc[s] = "done"

\* Nothing is left to do: the system may stay as it is.
Terminated == Quiescent /\ UNCHANGED vars

Next ==
  \/ \E p \in Producers, m \in Msgs : PushBegin(p, m) \/ PushRefused(p, m)
  \/ \E p \in Producers : ProducerStep(p)
  \/ \E c \in Consumers : ConsumerStep(c)
  \/ \E q \in Pollers : PollerStep(q)
  \/ \E s \in Closers : ShutdownExchange(s) \/ ShutdownNotify(s)
  \/ Terminated

\* A call in progress goes on; nobody is obliged to start one.  The coroutine
\* mutex resumes its waiters in turn, so that no consumer waits for it for ever;
\* push spins with tryLock and has no such turn.
Fairness ==
  /\ \A p \in Producers : WF_vars(ProducerStep(p))
  /\ \A c \in Consumers : WF_vars(ConsumerStep(c)) /\ SF_vars(SizeLock(c) \/ PopLock(c))
  /\ \A q \in Pollers : WF_vars(TryPopEmpty(q) \/ TryPopFront(q) \/ TryPopErase(q))
  /\ \A s \in Closers : WF_vars(ShutdownNotify(s))

Spec == Init /\ [][Next]_vars
FairSpec == Spec /\ Fairness

-----------------------------------------------------------------------------
(* Properties *)

\* Every variable keeps its type.
TypeOK ==
  /\ items \in Seq(Msgs) /\ accepted \in Seq(Msgs) /\ taken \in Seq(Msgs)
  /\ stop \in BOOLEAN
  /\ owner \in Threads \cup {None}
  /\ parked \subseteq Consumers /\ missed \subseteq Consumers
  /\ unsent \subseteq Msgs
  /\ pc \in [Threads -> ProducerPcs \cup ConsumerPcs \cup CloserPcs]
  /\ \A p \in Producers : pc[p] \in ProducerPcs
  /\ \A c \in Consumers : pc[c] \in ConsumerPcs
  /\ \A q \in Pollers   : pc[q] \in PollerPcs
  /\ \A s \in Closers   : pc[s] \in CloserPcs
  /\ arg \in [Producers -> Msgs \cup {None}]
  /\ hold \in [Consumers \cup Pollers -> Seq(Msgs)]
  /\ late \in [Consumers -> Nat]

\* push, pop, pop_all and try_pop together: every message appended is either
\* still queued or was handed out exactly once, and the order in which
\* messages are handed out is the order in which they were appended.
FifoOnce == accepted = taken \o items

\* The queue, whatever its threads do, is a FIFO channel: each step appends one
\* message, hands out the oldest ones, closes, or changes nothing visible.
Channel == INSTANCE FifoChannel WITH sent <- accepted, got <- taken,
                                     closed <- stop
ImplementsChannel == Channel!Spec

\* push notifies after it has released the mutex: while messages wait and the
\* queue runs, a parked consumer is never forgotten; a notify is still to
\* come or another consumer is on its way to the queue.
NoLostWakeup ==
  ~stop /\ items # <<>> /\ parked # {} =>
    \/ \E p \in Producers : pc[p] = "notify"
    \/ \E c \in Consumers : pc[c] \notin {"parked", "done"}

\* shutdown notifies without the mutex: once it has, the only consumers that
\* can be left asleep are those it overtook between predicate and suspension.
StrandedOnlyIfMissed ==
  stop /\ (\A s \in Closers : pc[s] # "notifyAll") => parked \subseteq missed

\* After stop a consumer completes at most one more take: the one whose last
\* stop test came before the flag (pop), or the final batch (pop_all).
AtMostOneLateTake == \A c \in Consumers : late[c] <= 1

\* A message appended to a running queue is handed out, unless it is stopped.
AcceptedLeadsToTaken ==
  \A m \in Msgs :
    (\E i \in 1..Len(accepted) : accepted[i] = m)
      ~> (stop \/ \E i \in 1..Len(taken) : taken[i] = m)

\* shutdown ends every consumer loop, except the ones it overtook.
StopLeadsToExit ==
  \A c \in Consumers : stop ~> (pc[c] = "done" \/ c \in missed)

=============================================================================
