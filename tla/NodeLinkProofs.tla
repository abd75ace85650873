---------------------------- MODULE NodeLinkProofs ----------------------------
(***************************************************************************)
(* Proofs about NodeLink, for any number of messages, failures and          *)
(* requests in progress.  ReqInv is the reason the order survives retries:  *)
(* no request, awaited or abandoned, is ever ahead of what the peer has met.*)
(***************************************************************************)
EXTENDS NodeLink, TLAPS

\* The peer has met exactly the first Len(seen) messages, in order.
SeenInv == Len(seen) <= pushed /\ \A i \in 1..Len(seen) : seen[i] = i

\* No request is ahead of seen, and the awaited one carries the batch.
ReqInv ==
  /\ acked <= Len(seen)
  /\ \A s \in Slots : reqs[s] # None =>
       /\ reqs[s].lo <= reqs[s].pos /\ reqs[s].pos <= reqs[s].hi
       /\ reqs[s].hi <= popped /\ reqs[s].pos <= Len(seen)
  /\ pc = "wait" /\ reqs[cur] # None => reqs[cur].hi = popped

Inv == TypeOK /\ SeenInv /\ ReqInv

LEMMA InitInv == Init => Inv
<1> SUFFICES ASSUME Init PROVE Inv
  OBVIOUS
<1> USE LinkAssumption DEF Init
<1>1. TypeOK
  <2>1. <<>> \in Seq(1..MaxMsgs)  OBVIOUS
  <2>2. reqs \in [Slots -> Requests \cup {None}]  OBVIOUS
  <2>3. pushed \in 0..MaxMsgs /\ popped \in 0..pushed /\ acked \in 0..popped
    OBVIOUS
  <2>4. fails \in 0..MaxFails /\ lateSends \in Nat  OBVIOUS
  <2>5. pc \in Pcs /\ phase \in Phases /\ stop \in BOOLEAN /\ client \in BOOLEAN
    BY DEF Pcs, Phases
  <2>6. cur = None /\ pc # "wait" /\ again = {} /\ delivered = {} /\ seen = <<>>
    OBVIOUS
  <2> HIDE DEF Init
  <2> QED  BY <2>1, <2>2, <2>3, <2>4, <2>5, <2>6 DEF TypeOK
<1>2. SeenInv /\ ReqInv  BY DEF SeenInv, ReqInv
<1> QED  BY <1>1, <1>2 DEF Inv

LEMMA HandledPrefix == Inv => Handled = 1..Len(seen)
BY DEF Inv, TypeOK, SeenInv, Handled

LEMMA AppendNth ==
  ASSUME NEW S, NEW q \in Seq(S), NEW e \in S
  PROVE  /\ Append(q, e) \in Seq(S) /\ Len(Append(q, e)) = Len(q) + 1
         /\ Append(q, e)[Len(q) + 1] = e
         /\ \A i \in 1..Len(q) : Append(q, e)[i] = q[i]
OBVIOUS

\* What GoPast does to a request and to seen.
LEMMA GoPastInv ==
  ASSUME Inv, NEW s \in Slots, Working(s), GoPast(s),
         UNCHANGED <<sender, pc, cur, phase, fails>>
  PROVE  /\ reqs' \in [Slots -> Requests \cup {None}] /\ reqs'[s] \in Requests
         /\ seen' \in Seq(1..MaxMsgs) /\ again' \subseteq 1..MaxMsgs
         /\ SeenInv' /\ ReqInv'
         /\ seen' # seen => seen' = Append(seen, Len(seen) + 1)
<1> DEFINE m == reqs[s].pos + 1
<1>1. /\ reqs[s] \in Requests /\ m \in 1..MaxMsgs /\ reqs[s].lo <= m
      /\ m <= reqs[s].hi /\ reqs[s].hi <= popped
      /\ m <= Len(seen) + 1 /\ m <= popped
  BY LinkAssumption DEF Inv, TypeOK, Working, ReqInv, Requests
<1>2. /\ reqs \in [Slots -> Requests \cup {None}]
      /\ reqs' = [reqs EXCEPT ![s] = [@ EXCEPT !.pos = m, !.found = FALSE]]
  BY DEF GoPast, Inv, TypeOK
<1>3. reqs'[s] = [lo |-> reqs[s].lo, hi |-> reqs[s].hi, pos |-> m, found |-> FALSE]
  BY <1>1, <1>2 DEF Requests
<1>4. reqs'[s] \in Requests
  BY <1>1, <1>3 DEF Requests
<1>5. \A t \in Slots : t # s => reqs'[t] = reqs[t]
  BY <1>2
<1>6. reqs' \in [Slots -> Requests \cup {None}]
  BY <1>2, <1>4
<1>7. seen \in Seq(1..MaxMsgs) /\ Len(seen) \in Nat /\ popped \in Nat /\ pushed \in Nat
      /\ again \subseteq 1..MaxMsgs /\ Handled = 1..Len(seen) /\ popped <= pushed
  BY LinkAssumption, HandledPrefix DEF Inv, TypeOK
<1>8. IF m \in Handled THEN again' = again \cup {m} /\ seen' = seen
                        ELSE seen' = Append(seen, m) /\ again' = again
  BY DEF GoPast
<1>9. SeenInv /\ ReqInv /\ acked \in Nat  BY LinkAssumption DEF Inv, TypeOK
<1> HIDE DEF m
<1>10. ASSUME seen' \in Seq(1..MaxMsgs), Len(seen') >= Len(seen), m <= Len(seen')
       PROVE  ReqInv'
  <2>1. Len(seen') \in Nat  BY <1>10
  <2>2. UNCHANGED <<acked, popped, pc, cur>>  BY DEF sender
  <2>3. acked' <= Len(seen')  BY <1>7, <1>9, <1>10, <2>1, <2>2 DEF ReqInv
  <2>4. ASSUME NEW t \in Slots, reqs'[t] # None
        PROVE  /\ reqs'[t].lo <= reqs'[t].pos /\ reqs'[t].pos <= reqs'[t].hi
               /\ reqs'[t].hi <= popped' /\ reqs'[t].pos <= Len(seen')
    <3>1. CASE t = s
      BY <1>1, <1>3, <1>10, <2>2, <3>1
    <3>2. CASE t # s
      <4>1. reqs'[t] = reqs[t] /\ reqs[t] \in Requests  BY <1>2, <1>5, <2>4, <3>2
      <4> QED  BY <1>7, <1>9, <1>10, <2>1, <2>2, <2>4, <4>1 DEF ReqInv, Requests
    <3> QED  BY <3>1, <3>2
  <2>5. ASSUME pc' = "wait", reqs'[cur'] # None PROVE reqs'[cur'].hi = popped'
    <3>1. cur \in Slots  BY <2>2, <2>5 DEF Inv, TypeOK
    <3>2. reqs[cur] # None /\ reqs'[cur].hi = reqs[cur].hi
      BY <1>3, <1>5, <2>2, <2>5, <3>1 DEF Working
    <3> QED  BY <1>9, <2>2, <2>5, <3>2 DEF ReqInv
  <2> QED  BY <2>3, <2>4, <2>5 DEF ReqInv
<1>11. CASE m \in Handled
  <2>1. m <= Len(seen) /\ seen' = seen  BY <1>7, <1>8, <1>11
  <2>2. SeenInv'  BY <1>9, <2>1 DEF SeenInv, sender
  <2>3. ReqInv'  BY <1>7, <1>10, <2>1
  <2> QED  BY <1>1, <1>4, <1>6, <1>7, <1>8, <1>11, <2>1, <2>2, <2>3
<1>12. CASE m \notin Handled
  <2>1. m = Len(seen) + 1 /\ seen' = Append(seen, m)  BY <1>1, <1>7, <1>8, <1>12
  <2>2. /\ seen' \in Seq(1..MaxMsgs) /\ Len(seen') = Len(seen) + 1 /\ seen'[m] = m
        /\ \A i \in 1..Len(seen) : seen'[i] = seen[i]
    BY <1>1, <1>7, <2>1, AppendNth
  <2>3. \A i \in 1..Len(seen') : seen'[i] = i
    BY <1>7, <1>9, <2>1, <2>2 DEF SeenInv
  <2>4. Len(seen') <= pushed'
    BY <1>1, <1>7, <2>1, <2>2 DEF sender
  <2>5. SeenInv'  BY <2>3, <2>4 DEF SeenInv
  <2>6. ReqInv'  BY <1>7, <1>10, <2>1, <2>2
  <2> QED  BY <1>4, <1>6, <1>7, <1>8, <1>12, <2>1, <2>2, <2>5, <2>6
<1> QED  BY <1>11, <1>12

\* Inv is inductive, one step per action.
LEMMA NextInv == Inv /\ [Next]_vars => Inv'
<1> SUFFICES ASSUME Inv, [Next]_vars PROVE Inv'
  OBVIOUS
<1> USE LinkAssumption
    DEF Inv, TypeOK, SeenInv, ReqInv, Pcs, Phases, sender, history
<1>1. CASE NodeMqPush  BY <1>1 DEF NodeMqPush
<1>2. CASE LoopTop  BY <1>2 DEF LoopTop
<1>3. CASE Fill
  <2>1. popped' = pushed /\ pushed' = pushed /\ acked' = acked  BY <1>3 DEF Fill
  <2>2. TypeOK'  BY <1>3, <2>1 DEF Fill
  <2>3. SeenInv'  BY <1>3 DEF Fill
  <2>4. \A s \in Slots : reqs[s] # None => reqs[s].hi <= pushed
    BY DEF Requests
  <2>5. ReqInv'  BY <1>3, <2>1, <2>4 DEF Fill
  <2> QED  BY <2>2, <2>3, <2>5
<1>4. CASE Send
  <2> PICK s \in Slots :
         /\ reqs[s] = None /\ cur' = s
         /\ reqs' = [reqs EXCEPT ![s] =
              [lo |-> acked, hi |-> popped, pos |-> acked, found |-> FALSE]]
    BY <1>4 DEF Send
  <2>1. [lo |-> acked, hi |-> popped, pos |-> acked, found |-> FALSE] \in Requests
    BY DEF Requests
  <2>2. TypeOK'  BY <1>4, <2>1 DEF Send
  <2>3. SeenInv' /\ ReqInv'  BY <1>4, <2>1 DEF Send
  <2> QED  BY <2>2, <2>3
<1>5. CASE SendRefused  BY <1>5 DEF SendRefused
<1>6. CASE SendFails  BY <1>6 DEF SendFails
<1>7. CASE SendNull  BY <1>7 DEF SendNull
<1>8. CASE Answered  BY <1>8 DEF Answered
<1>9. CASE RequestDies  BY <1>9 DEF RequestDies
<1>10. CASE RequestFails  BY <1>10 DEF RequestFails
<1>11. CASE Wake  BY <1>11 DEF Wake
<1>12. CASE ShutdownQueue  BY <1>12 DEF ShutdownQueue
<1>13. CASE ShutdownClient  BY <1>13 DEF ShutdownClient
<1>14. CASE PeerStart \/ PeerAddCtx \/ PeerStopCtx
  BY <1>14 DEF PeerStart, PeerAddCtx, PeerStopCtx
<1>15. CASE PeerCrash  BY <1>15 DEF PeerCrash
<1>16. CASE \E s \in Slots : MqFound(s)
  <2> PICK s \in Slots : MqFound(s)  BY <1>16
  <2>1. reqs[s] \in Requests /\ reqs' = [reqs EXCEPT ![s] = [@ EXCEPT !.found = TRUE]]
    BY DEF MqFound, Working
  <2>2. /\ reqs'[s] \in Requests /\ reqs'[s].lo = reqs[s].lo /\ reqs'[s].hi = reqs[s].hi
        /\ reqs'[s].pos = reqs[s].pos
        /\ \A t \in Slots : t # s => reqs'[t] = reqs[t]
    BY <2>1 DEF Requests
  <2>3. TypeOK'  BY <2>1, <2>2 DEF MqFound
  <2>4. SeenInv' /\ ReqInv'  BY <2>1, <2>2 DEF MqFound, Working
  <2> QED  BY <2>3, <2>4
<1>17. CASE \E s \in Slots : MqDrop(s)
  <2> PICK s \in Slots : MqDrop(s)  BY <1>17
  <2> QED  BY GoPastInv DEF MqDrop
<1>18. CASE \E s \in Slots : MqPush(s)
  <2> PICK s \in Slots : MqPush(s)  BY <1>18
  <2>1. reqs[s].pos + 1 \in 1..MaxMsgs  BY DEF MqPush, Working, Requests
  <2> QED  BY <2>1, GoPastInv DEF MqPush
<1>19. CASE \E s \in Slots : Abandoned(s)  BY <1>19 DEF Abandoned
<1>20. CASE UNCHANGED vars  BY <1>20 DEF vars
<1> QED
  BY <1>1, <1>2, <1>3, <1>4, <1>5, <1>6, <1>7, <1>8, <1>9, <1>10, <1>11, <1>12,
     <1>13, <1>14, <1>15, <1>16, <1>17, <1>18, <1>19, <1>20
     DEF Next, SenderStep, HandlerStep, PeerStep, Ended

\* The counters of the link stay ordered, and its other variables in their
\* types, whatever the network and the peer do.
THEOREM TypeCorrect == Spec => []TypeOK
<1>1. Inv => TypeOK  BY DEF Inv
<1> QED  BY InitInv, NextInv, <1>1, PTL DEF Spec

\* node_mq_spawn forgets no message the peer has not gone past.
THEOREM AckedHandledHolds == Spec => []AckedHandled
<1>1. Inv => AckedHandled
  BY HandledPrefix DEF Inv, TypeOK, ReqInv, AckedHandled
<1> QED  BY InitInv, NextInv, <1>1, PTL DEF Spec

-----------------------------------------------------------------------------
(* The link is a FIFO channel *)

\* Retries, abandoned requests, crashes and shutdown never reorder or skip:
\* what the peer meets first is what was dispatched, in that order.
THEOREM ChannelRefinement == Spec => ImplementsChannel
<1>1. Init => Channel!Init
  <2> SUFFICES ASSUME Init PROVE Channel!Init
    OBVIOUS
  <2>1. [i \in 1..pushed |-> i] = <<>>  BY DEF Init
  <2> QED  BY <2>1 DEF Init, Channel!Init
<1>2. Inv /\ [Next]_vars => [Channel!Next]_<<[i \in 1..pushed |-> i], seen, stop>>
  <2> SUFFICES ASSUME Inv, [Next]_vars
               PROVE  [Channel!Next]_<<[i \in 1..pushed |-> i], seen, stop>>
    OBVIOUS
  <2>1. CASE NodeMqPush
    <3>1. pushed \in Nat /\ pushed + 1 \in 1..MaxMsgs /\ pushed' = pushed + 1
      BY <2>1, LinkAssumption DEF NodeMqPush, Inv, TypeOK
    <3>2. [i \in 1..(pushed + 1) |-> i] = Append([i \in 1..pushed |-> i], pushed + 1)
      BY <3>1
    <3>3. Channel!Put(pushed + 1)
      BY <2>1, <3>1, <3>2 DEF Channel!Put, NodeMqPush, history
    <3>4. \E m \in 1..MaxMsgs : Channel!Put(m)  BY <3>1, <3>3 DEF Channel!Put
    <3> QED  BY <3>4 DEF Channel!Next
  <2>2. ASSUME NEW s \in Slots, Working(s), GoPast(s),
               UNCHANGED <<sender, pc, cur, phase, fails>>
        PROVE  [Channel!Next]_<<[i \in 1..pushed |-> i], seen, stop>>
    <3>1. /\ seen' \in Seq(1..MaxMsgs) /\ SeenInv'
          /\ seen' # seen => seen' = Append(seen, Len(seen) + 1)
      BY <2>2, GoPastInv
    <3>2. UNCHANGED <<pushed, stop>>  BY <2>2 DEF sender
    <3>3. CASE seen' = seen  BY <3>2, <3>3
    <3>4. CASE seen' # seen
      <4>1. seen \in Seq(1..MaxMsgs) /\ Len(seen) \in Nat /\ pushed \in Nat
        BY LinkAssumption DEF Inv, TypeOK
      <4>2. Len(seen') = Len(seen) + 1 /\ Len(seen') <= pushed
        BY <3>1, <3>2, <3>4, <4>1 DEF SeenInv
      <4>3. seen' = SubSeq([i \in 1..pushed |-> i], 1, Len(seen'))
        BY <3>1, <4>1, <4>2 DEF SeenInv
      <4>4. /\ Len([i \in 1..pushed |-> i]) = pushed
            /\ Len(seen') \in Len(seen) + 1 .. pushed
        BY <4>1, <4>2
      <4>5. Channel!Get  BY <3>2, <4>3, <4>4 DEF Channel!Get
      <4> QED  BY <4>5 DEF Channel!Next
    <3> QED  BY <3>3, <3>4
  <2>3. CASE \E s \in Slots : MqDrop(s)  BY <2>2, <2>3 DEF MqDrop
  <2>4. CASE \E s \in Slots : MqPush(s)  BY <2>2, <2>4 DEF MqPush
  <2>5. CASE ShutdownQueue
    BY <2>5 DEF ShutdownQueue, history, Channel!Next, Channel!Close
  <2>6. CASE UNCHANGED <<pushed, seen, stop>>  BY <2>6
  <2> QED
    BY <2>1, <2>3, <2>4, <2>5, <2>6
       DEF Next, SenderStep, HandlerStep, PeerStep, Ended, vars, sender, history,
           LoopTop, Fill, Send, SendRefused, SendFails, SendNull, Answered,
           RequestDies, RequestFails, Wake, ShutdownClient, PeerStart, PeerAddCtx,
           PeerStopCtx, PeerCrash, MqFound, Abandoned
<1> QED
  BY InitInv, NextInv, <1>1, <1>2, PTL DEF Spec, ImplementsChannel, Channel!Spec

-----------------------------------------------------------------------------
(* Without failures *)

\* As long as nothing failed, the awaited request is the only one, and the
\* peer has met what was answered and what that request went past.
CalmInv ==
  fails = 0 =>
    /\ again = {}
    /\ pc = "wait" => reqs[cur] # None /\ reqs[cur].pos = Len(seen)
    /\ pc # "wait" => Len(seen) = acked
    /\ \A s \in Slots : reqs[s] # None => pc = "wait" /\ s = cur

LEMMA NextCalm == Inv /\ CalmInv /\ [Next]_vars => CalmInv'
<1> SUFFICES ASSUME Inv, CalmInv, [Next]_vars, fails' = 0 PROVE CalmInv'
  BY DEF CalmInv
<1>0. fails = 0 /\ CalmInv
  BY DEF Next, SenderStep, HandlerStep, PeerStep, Ended, vars, NodeMqPush, LoopTop,
         Fill, Send, SendRefused, SendFails, SendNull, Answered, RequestDies,
         RequestFails, Wake, ShutdownQueue, ShutdownClient, PeerStart, PeerAddCtx,
         PeerStopCtx, PeerCrash, MqFound, MqDrop, MqPush, Abandoned, Inv, TypeOK
<1>1. ASSUME NEW s \in Slots, Working(s), GoPast(s),
             UNCHANGED <<sender, pc, cur, phase, fails>>
      PROVE  CalmInv'
  <2>1. pc = "wait" /\ s = cur /\ reqs[s].pos = Len(seen) /\ again = {}
    BY <1>0, <1>1 DEF CalmInv, Working
  <2>2. Handled = 1..Len(seen) /\ Len(seen) \in Nat /\ seen \in Seq(1..MaxMsgs)
        /\ reqs \in [Slots -> Requests \cup {None}] /\ reqs[s] \in Requests
    BY <1>1, HandledPrefix DEF Inv, TypeOK, Working
  <2>3. seen' = Append(seen, Len(seen) + 1) /\ again' = again
    BY <1>1, <2>1, <2>2 DEF GoPast
  <2>4. Len(seen') = Len(seen) + 1  BY <2>2, <2>3
  <2>5. reqs' = [reqs EXCEPT ![s] = [@ EXCEPT !.pos = Len(seen) + 1, !.found = FALSE]]
    BY <1>1, <2>1 DEF GoPast
  <2>6. reqs'[s].pos = Len(seen) + 1 /\ \A t \in Slots : t # s => reqs'[t] = reqs[t]
    BY <2>2, <2>5 DEF Requests
  <2>7. reqs'[s] # None
    BY <1>1, GoPastInv, LinkAssumption
  <2> QED  BY <1>0, <1>1, <2>1, <2>3, <2>4, <2>6, <2>7 DEF CalmInv
<1>2. CASE \E s \in Slots : MqDrop(s)  BY <1>1, <1>2 DEF MqDrop
<1>3. CASE \E s \in Slots : MqPush(s)  BY <1>1, <1>3 DEF MqPush
<1>4. CASE \E s \in Slots : MqFound(s)
  <2> PICK s \in Slots : MqFound(s)  BY <1>4
  <2>1. reqs \in [Slots -> Requests \cup {None}] /\ reqs[s] \in Requests
    BY DEF MqFound, Working, Inv, TypeOK
  <2>2. reqs'[s].pos = reqs[s].pos /\ reqs'[s] \in Requests
        /\ \A t \in Slots : t # s => reqs'[t] = reqs[t]
    BY <2>1 DEF MqFound, Requests
  <2> QED  BY <1>0, <2>1, <2>2, LinkAssumption DEF CalmInv, MqFound, sender, history, Working
<1> USE <1>0, LinkAssumption DEF CalmInv, Inv, TypeOK, ReqInv, sender, history
<1>5. CASE Send
  <2> PICK s \in Slots :
         /\ reqs[s] = None /\ cur' = s
         /\ reqs' = [reqs EXCEPT ![s] =
              [lo |-> acked, hi |-> popped, pos |-> acked, found |-> FALSE]]
    BY <1>5 DEF Send
  <2>1. [lo |-> acked, hi |-> popped, pos |-> acked, found |-> FALSE] \in Requests
    BY DEF Requests
  <2> QED  BY <1>5, <2>1 DEF Send
<1>6. CASE Answered  BY <1>6 DEF Answered
<1>7. CASE NodeMqPush \/ LoopTop \/ Fill \/ SendRefused \/ SendNull \/ RequestDies \/ Wake
  BY <1>7 DEF NodeMqPush, LoopTop, Fill, SendRefused, SendNull, RequestDies, Wake
<1>8. CASE ShutdownQueue \/ ShutdownClient \/ PeerStart \/ PeerAddCtx \/ PeerStopCtx
  BY <1>8 DEF ShutdownQueue, ShutdownClient, PeerStart, PeerAddCtx, PeerStopCtx
<1>9. CASE \E s \in Slots : Abandoned(s)  BY <1>9 DEF Abandoned
<1>10. CASE SendFails \/ RequestFails \/ PeerCrash
  BY <1>10 DEF SendFails, RequestFails, PeerCrash
<1>11. CASE UNCHANGED vars  BY <1>11 DEF vars
<1> QED
  BY <1>2, <1>3, <1>4, <1>5, <1>6, <1>7, <1>8, <1>9, <1>10, <1>11
     DEF Next, SenderStep, HandlerStep, PeerStep, Ended

\* The link hands a message to rpc_on_mq twice only after a failure.
THEOREM ExactlyOnceHolds == Spec => []ExactlyOnceWithoutFailure
<1>1. Init => CalmInv  BY DEF Init, CalmInv
<1>2. CalmInv => ExactlyOnceWithoutFailure
  BY DEF CalmInv, ExactlyOnceWithoutFailure
<1> QED  BY InitInv, NextInv, NextCalm, <1>1, <1>2, PTL DEF Spec

-----------------------------------------------------------------------------
(* After stop *)

\* A loop that tried to send after stop never gets to send again.
LateInv ==
  /\ ~client => stop
  /\ lateSends # 0 => lateSends = 1 /\ stop /\ pc \notin {"fill", "send"}

LEMMA NextLate == Inv /\ LateInv /\ [Next]_vars => LateInv'
BY DEF LateInv, Inv, TypeOK, Next, SenderStep, HandlerStep, PeerStep, Ended, vars,
       sender, NodeMqPush, LoopTop, Fill, Send, SendRefused, SendFails, SendNull,
       Answered, RequestDies, RequestFails, Wake, ShutdownQueue, ShutdownClient,
       PeerStart, PeerAddCtx, PeerStopCtx, PeerCrash, MqFound, MqDrop, MqPush,
       Abandoned

\* node_mq_spawn tries to send at most once after shutdown has begun.
THEOREM AtMostOneLateSendHolds == Spec => []AtMostOneLateSend
<1>1. Init => LateInv  BY DEF Init, LateInv
<1>2. LateInv => AtMostOneLateSend  BY DEF LateInv, AtMostOneLateSend
<1> QED  BY InitInv, NextInv, NextLate, <1>1, <1>2, PTL DEF Spec

=============================================================================
