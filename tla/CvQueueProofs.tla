---------------------------- MODULE CvQueueProofs ----------------------------
(***************************************************************************)
(* Proofs about CvQueue, for any number of threads and messages.  Inv is    *)
(* the inductive invariant: the mutex is owned exactly at the critical      *)
(* steps, and what a thread saw under the mutex is still true when it acts. *)
(***************************************************************************)
EXTENDS CvQueue, SequenceTheorems, TLAPS

\* A producer that passed the stop test holds a message.
ArgInv == \A p \in Producers : pc[p] \in {"spin", "append"} => arg[p] \in Msgs

\* The mutex is owned by the one thread inside a critical step.
LockInv == \A t \in Threads : pc[t] \in Critical <=> owner = t

\* What a consumer on its way to sleep, or out of its loop, knows.
WaitInv ==
  \A c \in Consumers :
    /\ pc[c] = "parked" <=> c \in parked
    /\ pc[c] = "park" => items = <<>>
    /\ pc[c] = "done" => stop

\* What a thread about to take, or in the middle of taking, knows.
HoldInv ==
  /\ \A c \in Consumers :
       /\ pc[c] \in {"grab", "erase"} => items # <<>> \/ (c \in PopAll /\ stop)
       /\ pc[c] = "erase" =>
            hold[c] = IF c \in PopAll THEN items ELSE <<Head(items)>>
  /\ \A q \in Pollers :
       pc[q] = "erase" => items # <<>> /\ hold[q] = <<Head(items)>>

Inv == TypeOK /\ ArgInv /\ LockInv /\ WaitInv /\ HoldInv

LEMMA InitInv == Init => Inv
<1> SUFFICES ASSUME Init PROVE Inv
  OBVIOUS
<1> USE ThreadsAssumption
    DEF Init, Threads, Critical, ProducerPcs, ConsumerPcs, PollerPcs, CloserPcs
<1>1. TypeOK
  <2>1. <<>> \in Seq(Msgs)  OBVIOUS
  <2> QED  BY <2>1 DEF TypeOK
<1>2. ArgInv /\ LockInv  BY DEF ArgInv, LockInv
<1>3. WaitInv /\ HoldInv  BY DEF WaitInv, HoldInv
<1> QED  BY <1>1, <1>2, <1>3 DEF Inv

\* Inv is inductive, one step per action.
LEMMA NextInv == Inv /\ [Next]_vars => Inv'
<1> SUFFICES ASSUME Inv, [Next]_vars PROVE Inv'
  OBVIOUS
<1> USE ThreadsAssumption
    DEF Inv, TypeOK, ArgInv, LockInv, WaitInv, HoldInv, Threads, Critical,
        ProducerPcs, ConsumerPcs, PollerPcs, CloserPcs, Goto, history
<1>1. CASE \E p \in Producers, m \in Msgs : PushBegin(p, m)
  <2> PICK p \in Producers, m \in Msgs : PushBegin(p, m)  BY <1>1
  <2> USE DEF PushBegin
  <2>1. TypeOK'  OBVIOUS
  <2>2. ArgInv' /\ LockInv'  OBVIOUS
  <2>3. WaitInv' /\ HoldInv'  OBVIOUS
  <2> QED  BY <2>1, <2>2, <2>3
<1>2. CASE \E p \in Producers, m \in Msgs : PushRefused(p, m)
  BY <1>2 DEF PushRefused
<1>3. CASE \E p \in Producers : PushLock(p)
  BY <1>3 DEF PushLock
<1>4. CASE \E p \in Producers : PushAppend(p)
  BY <1>4 DEF PushAppend
<1>5. CASE \E p \in Producers : PushNotify(p)
  <2> PICK p \in Producers : PushNotify(p)  BY <1>5
  <2> PICK W \in SUBSET parked : Wake(p, "idle", W)  BY DEF PushNotify
  <2>1. \A u \in W : u \in Consumers /\ pc[u] = "parked" /\ u # p  BY DEF PushNotify
  <2>2. \A u \in Threads : pc'[u] = IF u = p THEN "idle" ELSE IF u \in W THEN "lock" ELSE pc[u]  BY DEF Wake
  <2> USE DEF PushNotify, Wake
  <2>3. TypeOK'  BY <2>1
  <2>4. ArgInv'  BY <2>1, <2>2
  <2>5. LockInv'  BY <2>1, <2>2
  <2>6. WaitInv'  BY <2>1, <2>2
  <2>7. HoldInv'  BY <2>1, <2>2
  <2> QED  BY <2>3, <2>4, <2>5, <2>6, <2>7
<1>6. CASE \E c \in Consumers : LoopTop(c)
  <2> PICK c \in Consumers : LoopTop(c)  BY <1>6
  <2> USE DEF LoopTop
  <2>1. TypeOK'  OBVIOUS
  <2>2. ArgInv'  OBVIOUS
  <2>3. LockInv'  OBVIOUS
  <2>4. WaitInv'  OBVIOUS
  <2>5. HoldInv'  OBVIOUS
  <2> QED  BY <2>1, <2>2, <2>3, <2>4, <2>5
<1>7. CASE \E c \in Consumers : SizeLock(c)
  BY <1>7 DEF SizeLock
<1>8. CASE \E c \in Consumers : SizeReturn(c)
  BY <1>8 DEF SizeReturn
<1>9. CASE \E c \in Consumers : PopLock(c)
  BY <1>9 DEF PopLock
<1>10. CASE \E c \in Consumers : WaitPred(c)
  BY <1>10 DEF WaitPred
<1>11. CASE \E c \in Consumers : Park(c)
  BY <1>11 DEF Park
<1>12. CASE \E c \in Consumers : PopCheck(c)
  BY <1>12 DEF PopCheck
<1>13. CASE \E c \in Consumers : PopThrow(c)
  BY <1>13 DEF PopThrow
<1>14. CASE \E c \in Consumers : Grab(c)
  BY <1>14 DEF Grab
<1>15. CASE \E c \in Consumers : Erase(c)
  <2> PICK c \in Consumers : Erase(c)  BY <1>15
  <2> USE DEF Erase, Erased
  <2>1. TypeOK'  OBVIOUS
  <2>2. ArgInv'  OBVIOUS
  <2>3. LockInv'  OBVIOUS
  <2>4. WaitInv'
    <3>1. owner = c /\ \A d \in Consumers : pc[d] = "park" => FALSE  OBVIOUS
    <3>2. hold[c] = <<>> => stop
      <4>1. \A m : <<m>> # <<>>  OBVIOUS
      <4>2. CASE c \in PopAll  BY <4>2
      <4>3. CASE c \notin PopAll  BY <4>1, <4>3
      <4> QED  BY <4>2, <4>3
    <3> QED  BY <3>1, <3>2
  <2>5. HoldInv'  OBVIOUS
  <2> QED  BY <2>1, <2>2, <2>3, <2>4, <2>5
<1>16. CASE \E q \in Pollers : TryPopLock(q)
  BY <1>16 DEF TryPopLock
<1>17. CASE \E q \in Pollers : TryPopEmpty(q)
  BY <1>17 DEF TryPopEmpty
<1>18. CASE \E q \in Pollers : TryPopFront(q)
  BY <1>18 DEF TryPopFront
<1>19. CASE \E q \in Pollers : TryPopErase(q)
  BY <1>19 DEF TryPopErase
<1>20. CASE \E s \in Closers : ShutdownExchange(s)
  BY <1>20 DEF ShutdownExchange
<1>21. CASE \E s \in Closers : ShutdownNotify(s)
  <2> PICK s \in Closers : ShutdownNotify(s)  BY <1>21
  <2> USE DEF ShutdownNotify, Wake
  <2>1. TypeOK'  OBVIOUS
  <2>2. ArgInv'  OBVIOUS
  <2>3. LockInv'  OBVIOUS
  <2>4. WaitInv'  OBVIOUS
  <2>5. HoldInv'  OBVIOUS
  <2> QED  BY <2>1, <2>2, <2>3, <2>4, <2>5
<1>22. CASE UNCHANGED vars
  BY <1>22 DEF vars
<1> QED
  BY <1>1, <1>2, <1>3, <1>4, <1>5, <1>6, <1>7, <1>8, <1>9, <1>10, <1>11, <1>12, <1>13, <1>14, <1>15, <1>16, <1>17, <1>18, <1>19, <1>20, <1>21, <1>22
     DEF Next, ProducerStep, ConsumerStep, PollerStep, Terminated

\* push, pop, pop_all, try_pop and shutdown keep every variable in its type;
\* in particular no Head is taken of an empty deque.
THEOREM TypeCorrect == Spec => []TypeOK
<1>1. Inv => TypeOK  BY DEF Inv
<1> QED  BY InitInv, NextInv, <1>1, PTL DEF Spec

-----------------------------------------------------------------------------
(* First in, first out *)

LEMMA ConcatFront ==
  ASSUME NEW S, NEW s \in Seq(S), NEW t \in Seq(S), t # <<>>
  PROVE  s \o t = (s \o <<Head(t)>>) \o Tail(t)
<1>1. Head(t) \in S /\ Tail(t) \in Seq(S) /\ <<Head(t)>> \in Seq(S)  OBVIOUS
<1>2. t = <<Head(t)>> \o Tail(t)  BY <1>1
<1> QED  BY <1>1, <1>2, ConcatAssociative

LEMMA ConcatPrefix ==
  ASSUME NEW S, NEW s \in Seq(S), NEW t \in Seq(S)
  PROVE  SubSeq(s \o t, 1, Len(s)) = s
OBVIOUS

\* One take, by whichever call, moves the front of the deque to taken.
LEMMA TakeStep ==
  ASSUME Inv, FifoOnce,
         NEW c \in Consumers \cup Pollers, pc[c] = "erase",
         taken' = taken \o hold[c],
         items' = IF c \in PopAll THEN <<>> ELSE Tail(items)
  PROVE  /\ hold[c] \in Seq(Msgs) /\ items' \in Seq(Msgs)
         /\ accepted = taken' \o items'
<1> USE ThreadsAssumption DEF Inv, TypeOK, HoldInv, FifoOnce
<1>1. CASE c \in PopAll
  <2>1. hold[c] = items  BY <1>1
  <2> QED  BY <1>1, <2>1, ConcatEmptySeq
<1>2. CASE c \notin PopAll
  <2>1. hold[c] = <<Head(items)>> /\ items # <<>>  BY <1>2
  <2> QED  BY <1>2, <2>1, ConcatFront
<1> QED  BY <1>1, <1>2

LEMMA NextFifo == Inv /\ FifoOnce /\ [Next]_vars => FifoOnce'
<1> SUFFICES ASSUME Inv, FifoOnce, [Next]_vars PROVE FifoOnce'
  OBVIOUS
<1>1. CASE \E p \in Producers : PushAppend(p)
  <2> PICK p \in Producers : PushAppend(p)  BY <1>1
  <2>1. arg[p] \in Msgs /\ taken \in Seq(Msgs) /\ items \in Seq(Msgs)
    BY DEF PushAppend, Inv, TypeOK, ArgInv
  <2>2. Append(taken \o items, arg[p]) = taken \o Append(items, arg[p])
    BY <2>1
  <2> QED  BY <2>2 DEF PushAppend, FifoOnce
<1>2. CASE \E c \in Consumers : Erase(c)
  <2> PICK c \in Consumers : Erase(c)  BY <1>2
  <2> QED  BY TakeStep DEF Erase, Erased, FifoOnce
<1>3. CASE \E q \in Pollers : TryPopErase(q)
  <2> PICK q \in Pollers : TryPopErase(q)  BY <1>3
  <2>1. q \notin PopAll  BY ThreadsAssumption
  <2> QED  BY <2>1, TakeStep DEF TryPopErase, FifoOnce
<1>4. CASE UNCHANGED <<accepted, taken, items>>
  BY <1>4 DEF FifoOnce
<1> QED
  BY <1>1, <1>2, <1>3, <1>4
     DEF Next, ProducerStep, ConsumerStep, PollerStep, Terminated, vars, history,
         PushBegin, PushRefused, PushLock, PushNotify, LoopTop, SizeLock,
         SizeReturn, PopLock, WaitPred, Park, PopCheck, PopThrow, Grab,
         TryPopLock, TryPopEmpty, TryPopFront, ShutdownExchange, ShutdownNotify

\* Messages come out of the queue once and in the order they went in, whatever
\* mix of push, pop, pop_all, try_pop and shutdown runs concurrently.
THEOREM FifoOnceHolds == Spec => []FifoOnce
<1>1. Init => FifoOnce  BY DEF Init, FifoOnce
<1> QED  BY InitInv, NextInv, <1>1, NextFifo, PTL DEF Spec

\* The queue implements the abstract channel.
THEOREM ChannelRefinement == Spec => ImplementsChannel
<1>1. Init => Channel!Init  BY DEF Init, Channel!Init
<1>2. Inv /\ FifoOnce /\ [Next]_vars => [Channel!Next]_<<accepted, taken, stop>>
  <2> SUFFICES ASSUME Inv, FifoOnce, [Next]_vars
               PROVE  [Channel!Next]_<<accepted, taken, stop>>
    OBVIOUS
  <2>1. CASE \E p \in Producers : PushAppend(p)
    BY <2>1 DEF PushAppend, Channel!Next, Channel!Put, Inv, ArgInv
  <2>2. ASSUME NEW c \in Consumers \cup Pollers, pc[c] = "erase",
               taken' = taken \o hold[c],
               items' = IF c \in PopAll THEN <<>> ELSE Tail(items),
               UNCHANGED <<accepted, stop>>
        PROVE  [Channel!Next]_<<accepted, taken, stop>>
    <3>1. /\ hold[c] \in Seq(Msgs) /\ items' \in Seq(Msgs)
          /\ accepted = taken' \o items'
      BY <2>2, TakeStep
    <3>2. taken \in Seq(Msgs)  BY DEF Inv, TypeOK
    <3>3. CASE hold[c] = <<>>
      BY <2>2, <3>2, <3>3, ConcatEmptySeq
    <3>4. CASE hold[c] # <<>>
      <4>1. taken' \in Seq(Msgs) /\ Len(taken') = Len(taken) + Len(hold[c])
        BY <2>2, <3>1, <3>2
      <4>2. Len(hold[c]) \in Nat /\ Len(hold[c]) > 0  BY <3>1, <3>4
      <4>3. taken' = SubSeq(accepted, 1, Len(taken'))
        BY <3>1, <4>1, ConcatPrefix
      <4>4. Len(taken') \in Len(taken) + 1 .. Len(accepted)
        BY <3>1, <3>2, <4>1, <4>2
      <4> QED  BY <2>2, <4>3, <4>4 DEF Channel!Next, Channel!Get
    <3> QED  BY <3>3, <3>4
  <2>3. CASE \E c \in Consumers : Erase(c)
    BY <2>2, <2>3 DEF Erase, Erased
  <2>4. CASE \E q \in Pollers : TryPopErase(q)
    <3> PICK q \in Pollers : TryPopErase(q)  BY <2>4
    <3>1. q \notin PopAll  BY ThreadsAssumption
    <3> QED  BY <2>2, <3>1 DEF TryPopErase
  <2>5. CASE \E s \in Closers : ShutdownExchange(s)
    BY <2>5 DEF ShutdownExchange, history, Channel!Next, Channel!Close, Inv, TypeOK
  <2>6. CASE UNCHANGED <<accepted, taken, stop>>
    BY <2>6
  <2> QED
    BY <2>1, <2>3, <2>4, <2>5, <2>6
       DEF Next, ProducerStep, ConsumerStep, PollerStep, Terminated, vars, history,
           PushBegin, PushRefused, PushLock, PushNotify, LoopTop, SizeLock,
           SizeReturn, PopLock, WaitPred, Park, PopCheck, PopThrow, Grab,
           TryPopLock, TryPopEmpty, TryPopFront, ShutdownNotify
<1> QED
  BY InitInv, NextInv, NextFifo, FifoOnceHolds, <1>1, <1>2, PTL
     DEF Spec, ImplementsChannel, Channel!Spec

-----------------------------------------------------------------------------
(* Wake-ups *)

\* A consumer found about to park after shutdown's notification was overtaken
\* by it.
ParkMissed ==
  stop /\ (\A s \in Closers : pc[s] # "notifyAll") =>
    \A c \in Consumers : pc[c] = "park" => c \in missed

WakeInv == NoLostWakeup /\ StrandedOnlyIfMissed /\ ParkMissed

LEMMA NextWake == Inv /\ WakeInv /\ [Next]_vars => WakeInv'
<1> SUFFICES ASSUME Inv, WakeInv, [Next]_vars PROVE WakeInv'
  OBVIOUS
<1> USE ThreadsAssumption
    DEF Inv, TypeOK, LockInv, WaitInv, HoldInv, Threads, Critical, Goto, history,
        WakeInv, NoLostWakeup, StrandedOnlyIfMissed, ParkMissed
<1>1. CASE \E p \in Producers, m \in Msgs : PushBegin(p, m)
  BY <1>1 DEF PushBegin
<1>2. CASE \E p \in Producers, m \in Msgs : PushRefused(p, m)
  BY <1>2 DEF PushRefused
<1>3. CASE \E p \in Producers : PushLock(p)
  BY <1>3 DEF PushLock
<1>4. CASE \E p \in Producers : PushAppend(p)
  BY <1>4 DEF PushAppend
<1>5. CASE \E p \in Producers : PushNotify(p)
  BY <1>5 DEF PushNotify, Wake
<1>6. CASE \E c \in Consumers : LoopTop(c)
  BY <1>6 DEF LoopTop
<1>7. CASE \E c \in Consumers : SizeLock(c)
  BY <1>7 DEF SizeLock
<1>8. CASE \E c \in Consumers : SizeReturn(c)
  BY <1>8 DEF SizeReturn
<1>9. CASE \E c \in Consumers : PopLock(c)
  BY <1>9 DEF PopLock
<1>10. CASE \E c \in Consumers : WaitPred(c)
  BY <1>10 DEF WaitPred
<1>11. CASE \E c \in Consumers : Park(c)
  BY <1>11 DEF Park
<1>12. CASE \E c \in Consumers : PopCheck(c)
  BY <1>12 DEF PopCheck
<1>13. CASE \E c \in Consumers : PopThrow(c)
  BY <1>13 DEF PopThrow
<1>14. CASE \E c \in Consumers : Grab(c)
  BY <1>14 DEF Grab
<1>15. CASE \E c \in Consumers : Erase(c)
  <2> PICK c \in Consumers : Erase(c)  BY <1>15
  <2> USE DEF Erase, Erased
  <2>1. ~stop => pc'[c] = "top"
    <3>1. \A m : <<m>> # <<>>  OBVIOUS
    <3> QED  BY <3>1
  <2>2. NoLostWakeup'  BY <2>1
  <2>3. StrandedOnlyIfMissed' /\ ParkMissed'  OBVIOUS
  <2> QED  BY <2>2, <2>3
<1>16. CASE \E q \in Pollers : TryPopLock(q)
  BY <1>16 DEF TryPopLock
<1>17. CASE \E q \in Pollers : TryPopEmpty(q)
  BY <1>17 DEF TryPopEmpty
<1>18. CASE \E q \in Pollers : TryPopFront(q)
  BY <1>18 DEF TryPopFront
<1>19. CASE \E q \in Pollers : TryPopErase(q)
  BY <1>19 DEF TryPopErase
<1>20. CASE \E s \in Closers : ShutdownExchange(s)
  BY <1>20 DEF ShutdownExchange
<1>21. CASE \E s \in Closers : ShutdownNotify(s)
  BY <1>21 DEF ShutdownNotify, Wake
<1>22. CASE UNCHANGED vars
  BY <1>22 DEF vars
<1> QED
  BY <1>1, <1>2, <1>3, <1>4, <1>5, <1>6, <1>7, <1>8, <1>9, <1>10, <1>11, <1>12, <1>13, <1>14, <1>15, <1>16, <1>17, <1>18, <1>19, <1>20, <1>21, <1>22
     DEF Next, ProducerStep, ConsumerStep, PollerStep, Terminated

LEMMA WakeHolds == Spec => []WakeInv
<1>1. Init => WakeInv
  BY ThreadsAssumption
     DEF Init, WakeInv, NoLostWakeup, StrandedOnlyIfMissed, ParkMissed
<1> QED  BY InitInv, NextInv, <1>1, NextWake, PTL DEF Spec

\* Although push notifies after releasing the mutex, no message waits in a
\* running queue while every consumer sleeps and no notify is to come.
THEOREM NoLostWakeupHolds == Spec => []NoLostWakeup
<1>1. WakeInv => NoLostWakeup  BY DEF WakeInv
<1> QED  BY WakeHolds, <1>1, PTL

\* shutdown leaves no consumer asleep but those it overtook on their way to
\* sleep, for it notifies without the mutex.
THEOREM StrandedOnlyIfMissedHolds == Spec => []StrandedOnlyIfMissed
<1>1. WakeInv => StrandedOnlyIfMissed  BY DEF WakeInv
<1> QED  BY WakeHolds, <1>1, PTL

-----------------------------------------------------------------------------
(* After stop *)

\* A consumer that took after stop is on its way out.
LateInv ==
  \A c \in Consumers :
    late[c] <= 1 /\ (late[c] # 0 => stop /\ pc[c] \in {"top", "done"})

LEMMA NextLate == Inv /\ LateInv /\ [Next]_vars => LateInv'
<1> SUFFICES ASSUME Inv, LateInv, [Next]_vars PROVE LateInv'
  OBVIOUS
<1> USE ThreadsAssumption
    DEF Inv, TypeOK, WaitInv, Threads, Goto, history, LateInv
<1>1. CASE \E p \in Producers, m \in Msgs : PushBegin(p, m)
  BY <1>1 DEF PushBegin
<1>2. CASE \E p \in Producers, m \in Msgs : PushRefused(p, m)
  BY <1>2 DEF PushRefused
<1>3. CASE \E p \in Producers : PushLock(p)
  BY <1>3 DEF PushLock
<1>4. CASE \E p \in Producers : PushAppend(p)
  BY <1>4 DEF PushAppend
<1>5. CASE \E p \in Producers : PushNotify(p)
  BY <1>5 DEF PushNotify, Wake
<1>6. CASE \E c \in Consumers : LoopTop(c)
  BY <1>6 DEF LoopTop
<1>7. CASE \E c \in Consumers : SizeLock(c)
  BY <1>7 DEF SizeLock
<1>8. CASE \E c \in Consumers : SizeReturn(c)
  BY <1>8 DEF SizeReturn
<1>9. CASE \E c \in Consumers : PopLock(c)
  BY <1>9 DEF PopLock
<1>10. CASE \E c \in Consumers : WaitPred(c)
  BY <1>10 DEF WaitPred
<1>11. CASE \E c \in Consumers : Park(c)
  BY <1>11 DEF Park
<1>12. CASE \E c \in Consumers : PopCheck(c)
  BY <1>12 DEF PopCheck
<1>13. CASE \E c \in Consumers : PopThrow(c)
  BY <1>13 DEF PopThrow
<1>14. CASE \E c \in Consumers : Grab(c)
  BY <1>14 DEF Grab
<1>15. CASE \E c \in Consumers : Erase(c)
  BY <1>15 DEF Erase, Erased
<1>16. CASE \E q \in Pollers : TryPopLock(q)
  BY <1>16 DEF TryPopLock
<1>17. CASE \E q \in Pollers : TryPopEmpty(q)
  BY <1>17 DEF TryPopEmpty
<1>18. CASE \E q \in Pollers : TryPopFront(q)
  BY <1>18 DEF TryPopFront
<1>19. CASE \E q \in Pollers : TryPopErase(q)
  BY <1>19 DEF TryPopErase
<1>20. CASE \E s \in Closers : ShutdownExchange(s)
  BY <1>20 DEF ShutdownExchange
<1>21. CASE \E s \in Closers : ShutdownNotify(s)
  BY <1>21 DEF ShutdownNotify, Wake
<1>22. CASE UNCHANGED vars
  BY <1>22 DEF vars
<1> QED
  BY <1>1, <1>2, <1>3, <1>4, <1>5, <1>6, <1>7, <1>8, <1>9, <1>10, <1>11, <1>12, <1>13, <1>14, <1>15, <1>16, <1>17, <1>18, <1>19, <1>20, <1>21, <1>22
     DEF Next, ProducerStep, ConsumerStep, PollerStep, Terminated

\* The loops of wait_msg_spawn and node_mq_spawn take at most once after stop.
THEOREM AtMostOneLateTakeHolds == Spec => []AtMostOneLateTake
<1>1. Init => LateInv  BY DEF Init, LateInv
<1>2. LateInv => AtMostOneLateTake  BY DEF LateInv, AtMostOneLateTake
<1> QED  BY InitInv, NextInv, <1>1, <1>2, NextLate, PTL DEF Spec

=============================================================================
