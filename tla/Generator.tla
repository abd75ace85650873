---------------------------- MODULE Generator ----------------------------
(***************************************************************************)
(* cqy::coro::Generator (include/cqy_gen.h): a lazy coroutine that yields  *)
(* values to a consumer and can nest another generator in place of its own *)
(* values (co_yield elements_of(g)).                                       *)
(*                                                                         *)
(* A coroutine frame is a member of Frames and may be allocated again once *)
(* it has been destroyed.  Coroutine handles are held by Generator objects *)
(* (Gens), iterators (Its) and, for a nested generator, by the             *)
(* NestedAwaiter in the frame of its parent: own[h] is the handle of h.    *)
(* What a body does (yield, nest, return, throw, catch) is free, and so is *)
(* what the consumer does between two resumptions.                         *)
(***************************************************************************)
EXTENDS Naturals, Sequences

CONSTANTS Frames, Gens, Its, Values, Null

ASSUME GeneratorAssumption ==
  /\ Frames \cap Gens = {} /\ Frames \cap Its = {} /\ Gens \cap Its = {}
  /\ Null \notin Frames \cup Gens \cup Its \cup Values

VARIABLES
  own,     \* the handle a Generator, an iterator or a NestedAwaiter holds
  st,      \* where each frame is suspended
  value,   \* promise value_: the last value yielded
  top,     \* promise top_: in a root, the coroutine that ++ resumes
  parent,  \* promise info_->parent_, Null when info_ is null
  root,    \* promise info_->root_, Null when info_ is null
  run,     \* the frame that runs, Null when the consumer runs
  except,  \* an exception is unwinding the body that runs
  call,    \* the begin() or operator++ of the consumer under way
  threw,   \* auxiliary: frames whose exception left begin()
  bad,     \* auxiliary: what has made the rest of the run undefined
  stack    \* auxiliary: for a root, the generators nested in one another

promise == <<value, top, parent, root>>
vars == <<own, st, promise, run, except, call, threw, bad, stack>>

Holders == Gens \cup Its \cup Frames
States == {"free", "initial", "running", "yielded", "nesting", "done"}
Idle == [op |-> "none", holder |-> Null, to |-> Null]
Fine == [op |-> "none", frame |-> Null]

TypeOK ==
  /\ own \in [Holders -> Frames \cup {Null}]
  /\ st \in [Frames -> States]
  /\ value \in [Frames -> Values \cup {Null}]
  /\ top \in [Frames -> Frames]
  /\ parent \in [Frames -> Frames \cup {Null}]
  /\ root \in [Frames -> Frames \cup {Null}]
  /\ run \in Frames \cup {Null}
  /\ except \in BOOLEAN
  /\ call \in {Idle}
       \cup [op : {"begin"}, holder : Gens, to : Its]
       \cup [op : {"next"}, holder : Its, to : {Null}]
  /\ threw \in SUBSET Frames
  /\ bad \in {Fine} \cup [op : {"begin", "next", "nest", "selfmove"}, frame : Frames]
  /\ stack \in [Frames -> Seq(Frames)]

Init ==
  /\ own = [h \in Holders |-> Null]
  /\ st = [f \in Frames |-> "free"]
  /\ value = [f \in Frames |-> Null]
  /\ top = [f \in Frames |-> f]
  /\ parent = [f \in Frames |-> Null]
  /\ root = [f \in Frames |-> Null]
  /\ run = Null /\ except = FALSE /\ call = Idle
  /\ threw = {} /\ bad = Fine
  /\ stack = [f \in Frames |-> <<>>]

Consumer == run = Null /\ call = Idle /\ bad = Fine
Body(f) == run = f /\ f # Null /\ bad = Fine

\* The root of the coroutine that runs.
Root == own[call.holder]
Innermost(s) == s[Len(s)]

---------------------------------------------------------------------------
(* Destruction.  A frame that is destroyed takes with it the awaiter in    *)
(* it, whose gen_ destroys the frame it holds, and so on.                  *)

Closed(S) == \A p \in S : own[p] # Null => own[p] \in S
Below(f) == {x \in Frames :
               \A S \in SUBSET Frames : f \in S /\ Closed(S) => x \in S}

\* The frames D are gone.
Destroy(D) ==
  /\ st' = [f \in Frames |-> IF f \in D THEN "free" ELSE st[f]]
  /\ value' = [f \in Frames |-> IF f \in D THEN Null ELSE value[f]]
  /\ top' = [f \in Frames |-> IF f \in D THEN f ELSE top[f]]
  /\ parent' = [f \in Frames |-> IF f \in D THEN Null ELSE parent[f]]
  /\ root' = [f \in Frames |-> IF f \in D THEN Null ELSE root[f]]
  /\ threw' = threw \ D
  /\ stack' = [f \in Frames |-> IF f \in D THEN <<>> ELSE stack[f]]

\* The handles that are left then.
Without(D) == [h \in Holders |-> IF h \in D THEN Null ELSE own[h]]

---------------------------------------------------------------------------
(* The consumer. *)

\* Calling a coroutine: initial_suspend, get_return_object.
Create(g, f) ==
  /\ Consumer /\ own[g] = Null /\ st[f] = "free"
  /\ own' = [own EXCEPT ![g] = f]
  /\ st' = [st EXCEPT ![f] = "initial"]
  /\ UNCHANGED <<promise, run, except, call, threw, bad, stack>>

Resumable(f) == st[f] \in {"initial", "yielded"}

\* begin(): asserts that there is a handle, not that it can be resumed.
\* The result is constructed in, or assigned to, the iterator i.
Begin(g, i) ==
  /\ Consumer /\ own[g] # Null
  /\ \/ /\ ~Resumable(own[g])
        /\ bad' = [op |-> "begin", frame |-> own[g]]
        /\ UNCHANGED <<st, run, call, stack>>
     \/ /\ Resumable(own[g])
        /\ call' = [op |-> "begin", holder |-> g, to |-> i]
        /\ run' = own[g]
        /\ st' = [st EXCEPT ![own[g]] = "running"]
        /\ stack' = [stack EXCEPT ![own[g]] = <<own[g]>>]
        /\ UNCHANGED bad
  /\ UNCHANGED <<own, promise, except, threw>>

\* The end of begin() once the body has been suspended: the handle leaves the
\* Generator.  An assignment to an iterator that owns a coroutine throws, and
\* the temporary iterator destroys the new one.
BeginReturn ==
  /\ run = Null /\ call.op = "begin" /\ bad = Fine
  /\ call' = Idle
  /\ \/ /\ own[call.to] = Null
        /\ own' = [own EXCEPT ![call.to] = Root, ![call.holder] = Null]
        /\ UNCHANGED <<st, promise, threw, stack>>
     \/ /\ own[call.to] # Null
        /\ own' = [Without(Below(Root)) EXCEPT ![call.holder] = Null]
        /\ Destroy(Below(Root))
  /\ UNCHANGED <<run, except, bad>>

\* operator++: asserts that the root is not done, resumes its top_.
Increment(i) ==
  /\ Consumer /\ own[i] # Null /\ st[own[i]] # "done"
  /\ \/ /\ ~Resumable(top[own[i]])
        /\ bad' = [op |-> "next", frame |-> top[own[i]]]
        /\ UNCHANGED <<st, run, call>>
     \/ /\ Resumable(top[own[i]])
        /\ call' = [op |-> "next", holder |-> i, to |-> Null]
        /\ run' = top[own[i]]
        /\ st' = [st EXCEPT ![top[own[i]]] = "running"]
        /\ UNCHANGED bad
  /\ UNCHANGED <<own, promise, except, threw, stack>>

\* ~Generator, ~iterator and iterator::destroy.
Drop(h) ==
  /\ Consumer /\ own[h] # Null
  /\ own' = [Without(Below(own[h])) EXCEPT ![h] = Null]
  /\ Destroy(Below(own[h]))
  /\ UNCHANGED <<run, except, call, bad>>

\* The move constructors, and the assignment of iterators, which asserts that
\* the target owns nothing.
Move(d, s) ==
  /\ Consumer /\ own[d] = Null /\ own[s] # Null
  /\ own' = [own EXCEPT ![d] = own[s], ![s] = Null]
  /\ UNCHANGED <<st, promise, run, except, call, threw, bad, stack>>

\* Variant: what the target holds is overwritten.
MoveAssignKeeps(d, s) ==
  /\ Consumer /\ d # s /\ own[d] # Null
  /\ own' = [own EXCEPT ![d] = own[s], ![s] = Null]
  /\ UNCHANGED <<st, promise, run, except, call, threw, bad, stack>>

\* Generator::operator=: destroys what the target holds ...
MoveAssign(d, s) ==
  /\ Consumer /\ d # s /\ own[d] # Null
  /\ own' = [Without(Below(own[d])) EXCEPT ![d] = own[s], ![s] = Null]
  /\ Destroy(Below(own[d]))
  /\ UNCHANGED <<run, except, call, bad>>

\* ... also in g = std::move(g), after which g keeps the handle of what has
\* been destroyed, and can only use it or destroy it again.
SelfMove(g) ==
  /\ Consumer /\ own[g] # Null
  /\ own' = Without(Below(own[g]))
  /\ Destroy(Below(own[g]))
  /\ bad' = [op |-> "selfmove", frame |-> own[g]]
  /\ UNCHANGED <<run, except, call>>

---------------------------------------------------------------------------
(* The body of the frame f that runs. *)

\* resume() returns to the consumer, normally or with an exception.  Only
\* begin() goes on after a normal return.
BackToConsumer(thrown) ==
  /\ run' = Null
  /\ call' = IF call.op = "begin" /\ ~thrown THEN call ELSE Idle
  /\ threw' = IF call.op = "begin" /\ thrown THEN threw \cup {Root} ELSE threw

\* Variant: the value goes to the root.
YieldToRoot(f, v) ==
  /\ Body(f) /\ ~except
  /\ value' = [value EXCEPT ![Root] = v]
  /\ st' = [st EXCEPT ![f] = "yielded"]
  /\ BackToConsumer(FALSE)
  /\ UNCHANGED <<own, top, parent, root, except, bad, stack>>

\* yield_value of a value, directly or through ElementAwaiter.
Yield(f, v) ==
  /\ Body(f) /\ ~except
  /\ value' = [value EXCEPT ![f] = v]
  /\ st' = [st EXCEPT ![f] = "yielded"]
  /\ BackToConsumer(FALSE)
  /\ UNCHANGED <<own, top, parent, root, except, bad, stack>>

\* Variant: the parent is taken for the root.
AwaitSuspendParent(f, c) ==
  /\ parent' = [parent EXCEPT ![c] = f]
  /\ root' = [root EXCEPT ![c] = f]
  /\ top' = [top EXCEPT ![f] = c]
  /\ run' = c
  /\ st' = [st EXCEPT ![f] = "nesting", ![c] = "running"]
  /\ stack' = [stack EXCEPT ![Root] = Append(@, c)]

\* NestedAwaiter::await_suspend in f for the child c.
AwaitSuspend(f, c) ==
  LET r == IF parent[f] # Null THEN root[f] ELSE f IN
  /\ parent' = [parent EXCEPT ![c] = f]
  /\ root' = [root EXCEPT ![c] = r]
  /\ top' = [top EXCEPT ![r] = c]
  /\ run' = c
  /\ st' = [st EXCEPT ![f] = "nesting", ![c] = "running"]
  /\ stack' = [stack EXCEPT ![Root] = Append(@, c)]

\* co_yield elements_of(a new generator): also how a range is nested.
NestNew(f, c) ==
  /\ Body(f) /\ ~except /\ st[c] = "free"
  /\ own' = [own EXCEPT ![f] = c]
  /\ AwaitSuspend(f, c)
  /\ UNCHANGED <<value, except, call, threw, bad>>

\* co_yield elements_of(std::move(g)).  Nothing happens when g has been moved
\* from (await_ready); g is not the generator whose begin() runs this body.
NestGen(f, g) ==
  /\ Body(f) /\ ~except /\ own[g] # Null /\ call.holder # g
  /\ \/ /\ ~Resumable(own[g])
        /\ bad' = [op |-> "nest", frame |-> own[g]]
        /\ UNCHANGED <<own, st, top, parent, root, run, stack>>
     \/ /\ Resumable(own[g])
        /\ own' = [own EXCEPT ![f] = own[g], ![g] = Null]
        /\ AwaitSuspend(f, own[g])
        /\ UNCHANGED bad
  /\ UNCHANGED <<value, except, call, threw>>

\* final_suspend of a root: the consumer goes on.
FinalRoot(f, thrown) ==
  /\ parent[f] = Null
  /\ st' = [st EXCEPT ![f] = "done"]
  /\ stack' = [stack EXCEPT ![Root] = <<>>]
  /\ except' = FALSE
  /\ BackToConsumer(thrown)
  /\ UNCHANGED <<own, promise, bad>>

\* Variant: top_ of the root is left at the generator that ended.
FinalNestedStale(f, thrown) ==
  LET p == parent[f] IN
  /\ p # Null
  /\ run' = p
  /\ except' = thrown
  /\ own' = [own EXCEPT ![p] = Null]
  /\ st' = [st EXCEPT ![f] = "free", ![p] = "running"]
  /\ value' = [value EXCEPT ![f] = Null]
  /\ top' = [top EXCEPT ![f] = f]
  /\ parent' = [parent EXCEPT ![f] = Null]
  /\ root' = [root EXCEPT ![f] = Null]
  /\ threw' = threw \ {f}
  /\ stack' = [stack EXCEPT ![Root] = SubSeq(@, 1, Len(@) - 1)]
  /\ UNCHANGED <<call, bad>>

\* FinalAwaiter::await_suspend of a nested generator: its parent goes on in
\* NestedAwaiter::await_resume, which rethrows the exception, and destroys
\* the awaiter and with it the frame f.
FinalNested(f, thrown) ==
  LET p == parent[f] IN
  /\ p # Null
  /\ run' = p
  /\ except' = thrown
  /\ own' = [own EXCEPT ![p] = Null]
  /\ st' = [st EXCEPT ![f] = "free", ![p] = "running"]
  /\ value' = [value EXCEPT ![f] = Null]
  /\ top' = [top EXCEPT ![root[f]] = p, ![f] = f]
  /\ parent' = [parent EXCEPT ![f] = Null]
  /\ root' = [root EXCEPT ![f] = Null]
  /\ threw' = threw \ {f}
  /\ stack' = [stack EXCEPT ![Root] = SubSeq(@, 1, Len(@) - 1)]
  /\ UNCHANGED <<call, bad>>

Final(f, thrown) == FinalRoot(f, thrown) \/ FinalNested(f, thrown)

\* return_void, then final_suspend.
Return(f) == Body(f) /\ ~except /\ Final(f, FALSE)

\* unhandled_exception: an exception of the body's own or of a nested
\* generator is stored for the parent, or thrown to the consumer.
Throw(f) == Body(f) /\ Final(f, TRUE)

\* The body catches what a nested generator threw.
Catch(f) ==
  /\ Body(f) /\ except
  /\ except' = FALSE
  /\ UNCHANGED <<own, st, promise, run, call, threw, bad, stack>>

Next ==
  \/ \E g \in Gens, f \in Frames : Create(g, f)
  \/ \E g \in Gens, i \in Its : Begin(g, i)
  \/ BeginReturn
  \/ \E i \in Its : Increment(i)
  \/ \E h \in Gens \cup Its : Drop(h)
  \/ \E g \in Gens : SelfMove(g)
  \/ \E d, s \in Gens : Move(d, s) \/ MoveAssign(d, s)
  \/ \E d, s \in Its : Move(d, s)
  \/ \E f \in Frames, v \in Values : Yield(f, v)
  \/ \E f, c \in Frames : NestNew(f, c)
  \/ \E f \in Frames, g \in Gens : NestGen(f, g)
  \/ \E f \in Frames : Return(f) \/ Throw(f) \/ Catch(f)

Spec == Init /\ [][Next]_vars

---------------------------------------------------------------------------
(* Properties. *)

\* Every frame that exists is held by exactly one Generator, iterator or
\* nested awaiter, and nothing holds a destroyed frame: no leak, no use after
\* free and no second destroy() whatever is nested, dropped, thrown or moved,
\* except that a Generator moved to itself holds the frame it has destroyed.
OwnedOnce ==
  /\ \A h, k \in Holders : own[h] # Null /\ own[h] = own[k] => h = k
  /\ \A f \in Frames :
       \/ st[f] # "free" <=> \E h \in Holders : own[h] = f
       \/ bad = [op |-> "selfmove", frame |-> f]

\* The pointers that resumption follows (top_ of the root, info_ of every
\* nested coroutine) agree with the nesting the bodies built.
PointersAgree ==
  \A r \in Frames : stack[r] # <<>> =>
    /\ top[r] = Innermost(stack[r]) /\ stack[r][1] = r /\ parent[r] = Null
    /\ \A k \in 1 .. Len(stack[r]) - 1 :
         /\ own[stack[r][k]] = stack[r][k + 1]
         /\ st[stack[r][k]] = "nesting"
         /\ parent[stack[r][k + 1]] = stack[r][k]
         /\ root[stack[r][k + 1]] = r

\* A coroutine that is not suspended is resumed only through a Generator
\* whose begin() has thrown and which is begun or nested again: begin() and
\* elements_of test the handle only.  operator++ never does it.
ResumesSuspended ==
  bad.op \in {"begin", "nest", "next"} => bad.op # "next" /\ bad.frame \in threw

\* What the consumer sees of the root r between two calls: the value_ of the
\* coroutine that ++ would resume (operator*).
Seen == [r \in Frames |->
           IF stack[r] = <<>> \/ (run # Null /\ r = Root) THEN Null
           ELSE value[top[r]]]

Stream == INSTANCE NestedStream WITH seen <- Seen

\* Nested generators read as one stream: a value is always the one that the
\* innermost generator yielded last, ++ continues there, a generator that
\* ends hands over to the one that nested it, an exception too.
ImplementsStream == Stream!Spec
===========================================================================
