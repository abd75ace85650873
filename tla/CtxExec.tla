------------------------------- MODULE CtxExec -------------------------------
(***************************************************************************)
(* How contexts run their code.  Every on_msg, every RPC handler (unless    *)
(* registered as muli) and every async_call task of a context runs under    *)
(* the context's spin lock: coScopedLock at the start, released at the end. *)
(* sync_call, ctx_call and ctx_call_name release the lock around the        *)
(* awaited work and take it back in a `finally` with the blocking lock().   *)
(*                                                                         *)
(* SpinLock and the executors are external (async_simple, coro_io): an      *)
(* executor is one thread with a queue, a coroutine resumes on the executor *)
(* it was started on, coLock yields the thread while the lock is taken and  *)
(* lock() spins on it.  unlock() stores false, whoever calls it.            *)
(***************************************************************************)
EXTENDS Integers, Sequences

CONSTANTS
  Ctxs,        \* contexts of one node
  Tasks,       \* messages, RPC requests and async_call tasks to execute
  Bare,        \* the tasks that co_await without sync_call, lock in hand
  Threads,     \* executors
  MaxAwaits,   \* bound on the calls and awaits of a task
  None         \* no task

ASSUME ExecAssumption ==
  /\ Bare \subseteq Tasks /\ None \notin Tasks
  /\ MaxAwaits \in Nat

VARIABLES
  exec,      \* the executor a task was started on
  running,   \* what a thread is executing
  locked,    \* ctx_lock of each context
  st,        \* state of each task
  cur,       \* the context whose code a task executes or wants to execute
  callers,   \* the contexts whose ctx_call the task is inside of
  awaits     \* calls and awaits so far

vars == <<exec, running, locked, st, cur, callers, awaits>>

\* colock: wants the lock, yielding; crit: runs with it; away: suspended in
\* sync_call without it; relock: takes it back, spinning; bare: suspended with
\* it; hot: ready to go on with it.
States == {"colock", "crit", "away", "relock", "bare", "hot", "done"}

\* The states in which a task owns the lock of cur.
Owning == {"crit", "bare", "hot"}

Init ==
  /\ exec \in [Tasks -> Threads]
  /\ running = [h \in Threads |-> None]
  /\ locked = [c \in Ctxs |-> FALSE]
  /\ st = [k \in Tasks |-> "colock"]
  /\ cur \in [Tasks -> Ctxs]
  /\ callers = [k \in Tasks |-> <<>>]
  /\ awaits = [k \in Tasks |-> 0]

Runs(k) == running[exec[k]] = k
Goto(k, s) == st' = [st EXCEPT ![k] = s]
Yield(k) == running' = [running EXCEPT ![exec[k]] = None]
Lock(k) == ~locked[cur[k]] /\ locked' = [locked EXCEPT ![cur[k]] = TRUE]
Unlock(k) == locked' = [locked EXCEPT ![cur[k]] = FALSE]

-----------------------------------------------------------------------------

\* An idle executor takes a task that is ready.
Dispatch(k) ==
  /\ st[k] \in {"colock", "relock", "hot"} /\ running[exec[k]] = None
  /\ running' = [running EXCEPT ![exec[k]] = k]
  /\ UNCHANGED <<exec, locked, st, cur, callers, awaits>>

\* co_await ctx_lock().coScopedLock() gets the lock ...
CoLock(k) ==
  /\ Runs(k) /\ st[k] = "colock"
  /\ Lock(k) /\ Goto(k, "crit")
  /\ UNCHANGED <<exec, running, cur, callers, awaits>>

\* ... or gives the thread to others and tries again later.
CoYield(k) ==
  /\ Runs(k) /\ st[k] = "colock" /\ locked[cur[k]]
  /\ Yield(k)
  /\ UNCHANGED <<exec, locked, st, cur, callers, awaits>>

\* ctx_call of a context of this node: release, then run the callee's handler
\* in the same coroutine, under the callee's lock.
CallLocal(k, c) ==
  /\ Runs(k) /\ st[k] = "crit" /\ awaits[k] < MaxAwaits
  /\ Unlock(k)
  /\ callers' = [callers EXCEPT ![k] = Append(@, cur[k])]
  /\ cur' = [cur EXCEPT ![k] = c]
  /\ Goto(k, "colock")
  /\ awaits' = [awaits EXCEPT ![k] = @ + 1]
  /\ UNCHANGED <<exec, running>>

\* Variant: the lock is not released.
SyncCallLocked(k) ==
  /\ Runs(k) /\ st[k] = "crit" /\ awaits[k] < MaxAwaits
  /\ Goto(k, "away") /\ Yield(k)
  /\ awaits' = [awaits EXCEPT ![k] = @ + 1]
  /\ UNCHANGED <<exec, locked, cur, callers>>

\* sync_call, or ctx_call of another node: release and suspend.
SyncCall(k) ==
  /\ Runs(k) /\ st[k] = "crit" /\ awaits[k] < MaxAwaits
  /\ Unlock(k) /\ Goto(k, "away") /\ Yield(k)
  /\ awaits' = [awaits EXCEPT ![k] = @ + 1]
  /\ UNCHANGED <<exec, cur, callers>>

\* The awaited work is over: the coroutine is queued on its executor.
AwaitOver(k) ==
  /\ st[k] = "away" /\ Goto(k, "relock")
  /\ UNCHANGED <<exec, running, locked, cur, callers, awaits>>

\* Variant: `finally` does not wait for the lock.
RelockAtOnce(k) ==
  /\ Runs(k) /\ st[k] = "relock"
  /\ locked' = [locked EXCEPT ![cur[k]] = TRUE] /\ Goto(k, "crit")
  /\ UNCHANGED <<exec, running, cur, callers, awaits>>

\* finally { ctx_lock().lock(); }: until it succeeds the thread spins.
Relock(k) ==
  /\ Runs(k) /\ st[k] = "relock"
  /\ Lock(k) /\ Goto(k, "crit")
  /\ UNCHANGED <<exec, running, cur, callers, awaits>>

\* The handler of a local ctx_call ends: its guard releases the callee's lock,
\* then the caller's `finally` wants the caller's lock back.
ReturnToCaller(k) ==
  /\ Runs(k) /\ st[k] = "crit" /\ callers[k] # <<>>
  /\ Unlock(k) /\ Goto(k, "relock")
  /\ cur' = [cur EXCEPT ![k] = callers[k][Len(callers[k])]]
  /\ callers' = [callers EXCEPT ![k] = SubSeq(@, 1, Len(@) - 1)]
  /\ UNCHANGED <<exec, running, awaits>>

\* Variant: the lock is not released at the end.
FinishLocked(k) ==
  /\ Runs(k) /\ st[k] = "crit" /\ callers[k] = <<>>
  /\ Goto(k, "done") /\ Yield(k)
  /\ UNCHANGED <<exec, locked, cur, callers, awaits>>

\* The task ends and its guard releases the lock.
Finish(k) ==
  /\ Runs(k) /\ st[k] = "crit" /\ callers[k] = <<>>
  /\ Unlock(k) /\ Goto(k, "done") /\ Yield(k)
  /\ UNCHANGED <<exec, cur, callers, awaits>>

\* A plain co_await keeps the lock while the task is suspended.
BareAwait(k) ==
  /\ k \in Bare /\ Runs(k) /\ st[k] = "crit" /\ awaits[k] < MaxAwaits
  /\ Goto(k, "bare") /\ Yield(k)
  /\ awaits' = [awaits EXCEPT ![k] = @ + 1]
  /\ UNCHANGED <<exec, locked, cur, callers>>

BareOver(k) ==
  /\ st[k] = "bare" /\ Goto(k, "hot")
  /\ UNCHANGED <<exec, running, locked, cur, callers, awaits>>

BareResume(k) ==
  /\ Runs(k) /\ st[k] = "hot" /\ Goto(k, "crit")
  /\ UNCHANGED <<exec, running, locked, cur, callers, awaits>>

-----------------------------------------------------------------------------

Step(k) ==
  \/ CoLock(k) \/ CoYield(k) \/ SyncCall(k) \/ Relock(k) \/ ReturnToCaller(k)
  \/ Finish(k) \/ BareAwait(k) \/ BareResume(k)
  \/ \E c \in Ctxs : CallLocal(k, c)

AllDone == (\A k \in Tasks : st[k] = "done") /\ UNCHANGED vars

Next ==
  \/ \E k \in Tasks : Dispatch(k) \/ Step(k) \/ AwaitOver(k) \/ BareOver(k)
  \/ AllDone

\* A running task goes on, what is awaited ends, and an executor serves its
\* queue in order, so that a ready task has its turn again and again.
Fairness ==
  \A k \in Tasks :
    /\ WF_vars(Step(k)) /\ WF_vars(AwaitOver(k)) /\ WF_vars(BareOver(k))
    /\ SF_vars(Dispatch(k))

Spec == Init /\ [][Next]_vars
FairSpec == Spec /\ Fairness

-----------------------------------------------------------------------------
(* Properties *)

\* Every variable keeps its type; a thread executes only tasks of its own that
\* are not suspended.
TypeOK ==
  /\ exec \in [Tasks -> Threads]
  /\ running \in [Threads -> Tasks \cup {None}]
  /\ locked \in [Ctxs -> BOOLEAN]
  /\ st \in [Tasks -> States]
  /\ cur \in [Tasks -> Ctxs]
  /\ callers \in [Tasks -> Seq(Ctxs)]
  /\ awaits \in [Tasks -> 0..MaxAwaits]
  /\ \A h \in Threads :
       running[h] # None =>
         exec[running[h]] = h /\ st[running[h]] \in {"colock", "crit", "relock", "hot"}

\* README.md:30, "registered RPC functions and on_msg are free of races": no
\* two tasks are inside the code of one context, although the lock is given up
\* and taken back around every call.
NoRace ==
  \A j, k \in Tasks :
    j # k /\ st[j] \in Owning /\ st[k] \in Owning => cur[j] # cur[k]

\* A taken lock has an owner: no path through sync_call, ctx_call or the
\* guards leaves a lock behind that nobody will release.
NoOrphanLock ==
  \A c \in Ctxs :
    locked[c] => \E k \in Tasks : st[k] \in Owning /\ cur[k] = c

\* A thread spins in `finally` for a lock whose owner is suspended with it and
\* belongs to a thread that spins as well, in most cases the same one.
SpinsForSuspended ==
  \E h, k \in Tasks :
    /\ h # k /\ cur[h] = cur[k]
    /\ Runs(k) /\ st[k] = "relock" /\ st[h] \in {"bare", "hot"}
    /\ running[exec[h]] # None /\ st[running[exec[h]]] = "relock"

\* Contexts that call each other in circles do not wait for each other: every
\* message, RPC and task is executed to its end, unless one co_awaits with the
\* lock in hand and a `finally` spins on the thread it needs.
StuckOnlyBySpinning ==
  \A k \in Tasks : <>(st[k] = "done" \/ SpinsForSuspended)

=============================================================================
