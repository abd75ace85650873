----------------------------- MODULE FifoChannel -----------------------------
(***************************************************************************)
(* What a message queue promises its users: what was put comes out once, in *)
(* the order it was put, in batches; closing is for good.                   *)
(***************************************************************************)
EXTENDS Naturals, Sequences

CONSTANT Msgs

VARIABLES
  sent,     \* everything put so far, in order
  got,      \* everything handed out so far, in order
  closed    \* the channel was closed

Init == sent = <<>> /\ got = <<>> /\ closed = FALSE

Put(m) ==
  /\ sent' = Append(sent, m)
  /\ UNCHANGED <<got, closed>>

\* Hand out one or more of the oldest messages not handed out yet.
Get ==
  /\ \E n \in Len(got) + 1 .. Len(sent) : got' = SubSeq(sent, 1, n)
  /\ UNCHANGED <<sent, closed>>

Close ==
  /\ ~closed /\ closed' = TRUE
  /\ UNCHANGED <<sent, got>>

Next == (\E m \in Msgs : Put(m)) \/ Get \/ Close

Spec == Init /\ [][Next]_<<sent, got, closed>>

=============================================================================
