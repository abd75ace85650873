--------------------------- MODULE NestedStream ---------------------------
(***************************************************************************)
(* What nested generators promise: each root r is a stack of generators,   *)
(* the innermost last; the consumer sees the last value of the innermost.  *)
(***************************************************************************)
EXTENDS Sequences, Naturals

CONSTANTS Frames, Values, Null
VARIABLES
  stack,   \* the generators of each root that have begun and not ended
  seen,    \* the value the consumer sees of each root, Null if none
  run,     \* the generator that runs, Null when the consumer does
  except   \* an exception is unwinding it

vars == <<stack, seen, run, except>>

Init ==
  /\ stack = [r \in Frames |-> <<>>]
  /\ seen = [r \in Frames |-> Null]
  /\ run = Null /\ except = FALSE

Innermost(r) == stack[r][Len(stack[r])]
Runs(r) == stack[r] # <<>> /\ run = Innermost(r) /\ run # Null
Active(f) == \E r \in Frames : \E k \in 1 .. Len(stack[r]) : stack[r][k] = f

\* The first resumption.
Begin(r) ==
  /\ run = Null /\ ~Active(r)
  /\ stack' = [stack EXCEPT ![r] = <<r>>]
  /\ run' = r
  /\ UNCHANGED <<seen, except>>

\* The consumer asks for the next value.
Resume(r) ==
  /\ run = Null /\ stack[r] # <<>>
  /\ run' = Innermost(r)
  /\ seen' = [seen EXCEPT ![r] = Null]
  /\ UNCHANGED <<stack, except>>

Yield(r, v) ==
  /\ Runs(r) /\ ~except
  /\ seen' = [seen EXCEPT ![r] = v]
  /\ run' = Null
  /\ UNCHANGED <<stack, except>>

Nest(r, c) ==
  /\ Runs(r) /\ ~except /\ ~Active(c)
  /\ stack' = [stack EXCEPT ![r] = Append(@, c)]
  /\ run' = c
  /\ UNCHANGED <<seen, except>>

\* The innermost generator returns or throws: the one around it, if any, goes
\* on and meets the exception.
End(r, thrown) ==
  LET n == Len(stack[r]) - 1 IN
  /\ Runs(r) /\ (except => thrown)
  /\ stack' = [stack EXCEPT ![r] = SubSeq(@, 1, n)]
  /\ run' = IF n = 0 THEN Null ELSE stack[r][n]
  /\ except' = (thrown /\ n # 0)
  /\ UNCHANGED seen

Catch(r) ==
  /\ Runs(r) /\ except
  /\ except' = FALSE
  /\ UNCHANGED <<stack, seen, run>>

\* The consumer drops a stream before its end.
Drop(r) ==
  /\ run = Null /\ stack[r] # <<>>
  /\ stack' = [stack EXCEPT ![r] = <<>>]
  /\ seen' = [seen EXCEPT ![r] = Null]
  /\ UNCHANGED <<run, except>>

Next ==
  \E r \in Frames :
    \/ Begin(r) \/ Resume(r) \/ Catch(r) \/ Drop(r)
    \/ \E v \in Values : Yield(r, v)
    \/ \E c \in Frames : Nest(r, c)
    \/ \E thrown \in BOOLEAN : End(r, thrown)

Spec == Init /\ [][Next]_vars
===========================================================================
