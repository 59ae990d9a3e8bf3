--------------------------- MODULE ConnectionPool ---------------------------
(***************************************************************************)
(* dbconnector::pool::ConnectionPool, the pool of connections of an        *)
(* attached database: Acquire() in its three modes, Return() and Discard() *)
(* through PooledConnection handles, the thread-local caches, the reaper's *)
(* sweeps, SetMaxConnections() and Shutdown().                             *)
(*                                                                         *)
(* A step is one critical section of pool_lock, or one stretch of code     *)
(* between two of them.  Connections are counted, not named: which of the  *)
(* idle ones is taken matters only through its being expired or unhealthy, *)
(* and that may be so at any time.  pool_cv is the set of handles that are *)
(* asleep; a notified handle is awake until it holds the lock again.       *)
(***************************************************************************)
EXTENDS Naturals, FiniteSets

CONSTANTS
    Handles,        \* PooledConnection objects
    Threads,        \* threads that call the pool
    None,           \* no thread
    Modes,          \* values SetAcquireMode() is given
    Limits,         \* values SetMaxConnections() is given
    TLCacheEnabled, \* ConnectionPoolConfig::tl_cache_enabled
    DeadlinePasses  \* FALSE: the wait timeout outlasts the behaviour

ASSUME HandlesAssumption == IsFiniteSet(Handles)
ASSUME ThreadsAssumption ==
    IsFiniteSet(Threads) /\ Threads \cap {None, "admin", "reaper"} = {}
ASSUME ModesAssumption == Modes # {} /\ Modes \subseteq {"force", "wait", "try"}
ASSUME LimitsAssumption == Limits # {} /\ Limits \subseteq Nat
ASSUME FlagsAssumption == TLCacheEnabled \in BOOLEAN /\ DeadlinePasses \in BOOLEAN

VARIABLES
    acquire_mode, max_connections, shutdown_flag,
    available,           \* number of idle connections in the deque
    total_connections,
    cached,              \* threads whose thread-local cache has a connection
    pc,                  \* per handle: where its call is
    op,                  \* per handle: the mode it acquires in
    thread,              \* per handle: the thread that runs its call
    notifiers            \* others that have released the lock and owe a notify

configVars == <<acquire_mode, max_connections, shutdown_flag>>
countVars == <<available, total_connections, cached>>
callVars == <<pc, op, thread>>
vars == <<configVars, countVars, callVars, notifiers>>

\* "empty", "held" and "unmanaged" are the handles at rest.
Resting == {"empty", "held", "unmanaged"}
\* Handles that count in total_connections: a connection in use, being checked,
\* opened, or on its way back.
Owning == {"held", "check", "create", "discard", "return", "put"}
Locations == Resting \cup Owning \cup
    {"begin", "local", "cleared", "enter", "scan", "open", "asleep", "awake", "notify"}

PoolTypeOK ==
    /\ acquire_mode \in Modes
    /\ max_connections \in Limits
    /\ shutdown_flag \in BOOLEAN
    /\ available \in Nat
    /\ total_connections \in Nat
    /\ cached \in SUBSET Threads
    /\ pc \in [Handles -> Locations]
    /\ op \in [Handles -> {"force", "wait", "try"}]
    /\ thread \in [Handles -> Threads \cup {None}]
    /\ notifiers \in SUBSET ({"admin", "reaper"} \cup Threads)

Init ==
    /\ acquire_mode \in Modes
    /\ max_connections \in Limits
    /\ shutdown_flag = FALSE
    /\ available = 0
    /\ total_connections = 0
    /\ cached = {}
    /\ pc = [h \in Handles |-> "empty"]
    /\ op = [h \in Handles |-> "force"]
    /\ thread = [h \in Handles |-> None]
    /\ notifiers = {}

-----------------------------------------------------------------------------
IsPoolDisabled == max_connections = 0

DecrementedNever(total, k) == total

\* DecrementTotalConnections(), k times: it stops at zero.
Decremented(total, k) == IF total > k THEN total - k ELSE 0

Goto(h, from, to) == pc[h] = from /\ pc' = [pc EXCEPT ![h] = to]

\* The call ends and leaves its thread.
Finish(h, to) ==
    /\ pc' = [pc EXCEPT ![h] = to]
    /\ thread' = [thread EXCEPT ![h] = None]

\* A thread runs one call at a time.
Call(h, from, to) ==
    /\ Goto(h, from, to)
    /\ \E t \in Threads \ notifiers : /\ \A g \in Handles : thread[g] # t
                                      /\ thread' = [thread EXCEPT ![h] = t]

Sleeping == {h \in Handles : pc[h] = "asleep"}

\* notify_one() by handle h, whose call goes on at `to`.
NotifyOne(h, to) ==
    IF Sleeping = {}
      THEN pc' = [pc EXCEPT ![h] = to]
      ELSE \E w \in Sleeping : pc' = [pc EXCEPT ![h] = to, ![w] = "awake"]

-----------------------------------------------------------------------------
(* Acquire().                                                              *)

\* Reads the mode under the lock; a disabled pool is always forced.
Acquire(h) ==
    /\ Call(h, "empty", "begin")
    /\ op' = [op EXCEPT ![h] = IF IsPoolDisabled THEN "force" ELSE acquire_mode]
    /\ UNCHANGED <<configVars, countVars, notifiers>>

\* WaitAcquire() and TryAcquire() look again, and throw if the pool is disabled.
CheckDisabled(h) ==
    /\ pc[h] = "begin"
    /\ IF op[h] # "force" /\ IsPoolDisabled
         THEN Finish(h, "empty")
         ELSE Goto(h, "begin", "local") /\ UNCHANGED thread
    /\ UNCHANGED <<configVars, countVars, op, notifiers>>

\* A miss, or a hit: shutdown_flag is not consulted.
TryAcquireFromThreadLocal(h) ==
    /\ pc[h] = "local"
    /\ \/ /\ thread[h] \notin cached
          /\ Goto(h, "local", "enter")
          /\ UNCHANGED <<cached, thread>>
       \/ /\ thread[h] \in cached
          /\ cached' = cached \ {thread[h]}
          /\ Finish(h, "held")
    /\ UNCHANGED <<configVars, available, total_connections, op, notifiers>>

ReturnFromThreadLocalCacheUnlimited(keeps) ==
    /\ keeps => ~shutdown_flag
    /\ available' = IF keeps THEN available + 1 ELSE available
    /\ total_connections' = IF keeps THEN total_connections
                                     ELSE Decremented(total_connections, 1)

\* ReturnFromThreadLocalCache(), up to the end of its critical section: whether
\* the connection goes back to the idle ones, where another call may be told of it.
ReturnFromThreadLocalCache(keeps) ==
    /\ keeps => ~shutdown_flag /\ total_connections <= max_connections
    /\ available' = IF keeps THEN available + 1 ELSE available
    /\ total_connections' = IF keeps THEN total_connections
                                     ELSE Decremented(total_connections, 1)

\* The cached connection is expired or unhealthy: ThreadLocalConnectionCache's
\* Clear().  An unhealthy one that is not expired becomes idle again.
ClearThreadLocal(h) ==
    /\ pc[h] = "local"
    /\ thread[h] \in cached
    /\ cached' = cached \ {thread[h]}
    /\ \E keeps \in BOOLEAN :
         /\ ReturnFromThreadLocalCache(keeps)
         /\ Goto(h, "local", IF keeps THEN "cleared" ELSE "enter")
    /\ UNCHANGED <<configVars, op, thread, notifiers>>

NotifyCleared(h) ==
    /\ pc[h] = "cleared"
    /\ NotifyOne(h, "enter")
    /\ UNCHANGED <<configVars, countVars, op, thread, notifiers>>

\* ForceAcquire() looks at shutdown_flag and the limit in a critical section of
\* its own; the other modes go on under the same lock.
ForceEnter(h) ==
    /\ op[h] = "force"
    /\ pc[h] = "enter"
    /\ IF shutdown_flag
         THEN Finish(h, "empty")
         ELSE Goto(h, "enter", IF IsPoolDisabled THEN "open" ELSE "scan") /\ UNCHANGED thread
    /\ UNCHANGED <<configVars, countVars, op, notifiers>>

\* The loop over the idle connections, with `idle` of them left and `total` in
\* the count: expired ones are closed on the way; the first that is not is
\* checked with the lock released; when none is left a connection is opened, or
\* the call waits, or fails.
TakeOrCreate(h, idle, total) ==
    \/ \E expired \in 0 .. idle - 1 :
         /\ available' = idle - expired - 1
         /\ total_connections' = Decremented(total, expired)
         /\ pc' = [pc EXCEPT ![h] = "check"]
         /\ UNCHANGED thread
    \/ /\ available' = 0
       /\ IF op[h] = "force" \/ Decremented(total, idle) < max_connections
            THEN /\ total_connections' = Decremented(total, idle) + 1
                 /\ pc' = [pc EXCEPT ![h] = "create"]
                 /\ UNCHANGED thread
            ELSE /\ total_connections' = Decremented(total, idle)
                 /\ IF op[h] = "wait"
                      THEN pc' = [pc EXCEPT ![h] = "asleep"] /\ UNCHANGED thread
                      ELSE Finish(h, "empty")

\* The head of the loop: on entry, and after a wakeup (a spurious one too).
Scan(h) ==
    /\ pc[h] \in {"scan", "asleep", "awake"} \/ (pc[h] = "enter" /\ op[h] # "force")
    /\ IF shutdown_flag
         THEN Finish(h, "empty") /\ UNCHANGED <<available, total_connections>>
         ELSE TakeOrCreate(h, available, total_connections)
    /\ UNCHANGED <<configVars, cached, op, notifiers>>

\* The health check is over and the lock is held again.
Checked(h) ==
    /\ pc[h] = "check"
    /\ \/ /\ shutdown_flag
          /\ total_connections' = Decremented(total_connections, 1)
          /\ Finish(h, "empty")
          /\ UNCHANGED available
       \/ /\ ~shutdown_flag
          /\ Finish(h, "held")
          /\ UNCHANGED <<available, total_connections>>
       \/ /\ ~shutdown_flag
          /\ TakeOrCreate(h, available, Decremented(total_connections, 1))
    /\ UNCHANGED <<configVars, cached, op, notifiers>>

\* CreateNewConnection() for a slot taken: it opens, or fails and gives it back.
Created(h) ==
    /\ pc[h] = "create"
    /\ Finish(h, "held")
    /\ UNCHANGED <<configVars, countVars, op, notifiers>>

CreateFailsSilently(h) ==
    /\ pc[h] = "create"
    /\ total_connections' = Decremented(total_connections, 1)
    /\ Finish(h, "empty")
    /\ UNCHANGED <<configVars, available, cached, op, notifiers>>

CreateFails(h) ==
    /\ pc[h] = "create"
    /\ total_connections' = Decremented(total_connections, 1)
    /\ NotifyOne(h, "empty")
    /\ thread' = [thread EXCEPT ![h] = None]
    /\ UNCHANGED <<configVars, available, cached, op, notifiers>>

\* A connection of a disabled pool is not counted and has no pool to return to.
OpenUnmanaged(h) ==
    /\ pc[h] = "open"
    /\ \E to \in {"unmanaged", "empty"} : Finish(h, to)
    /\ UNCHANGED <<configVars, countVars, op, notifiers>>

\* wait_until() reports the deadline: also to a waiter that was notified just
\* before it passed.
TimeOut(h) ==
    /\ DeadlinePasses
    /\ pc[h] \in {"asleep", "awake"}
    /\ Finish(h, "empty")
    /\ UNCHANGED <<configVars, countVars, op, notifiers>>

-----------------------------------------------------------------------------
(* ReturnToPool().                                                         *)

\* Invalidate()d, expired, not recoverable or not resettable: Discard().  Any
\* other connection is returned.  The connection is the caller's until then.
ReturnToPool(h) ==
    /\ \E to \in {"discard", "return"} : Call(h, "held", to)
    /\ UNCHANGED <<configVars, countVars, op, notifiers>>

ReleaseUnmanaged(h) ==
    /\ Goto(h, "unmanaged", "empty")
    /\ UNCHANGED <<configVars, countVars, op, thread, notifiers>>

Discard(h) ==
    /\ Goto(h, "discard", "notify")
    /\ total_connections' = Decremented(total_connections, 1)
    /\ UNCHANGED <<configVars, available, cached, op, thread, notifiers>>

ReplaceThreadLocal(h) ==
    /\ pc[h] = "return"
    /\ IF /\ TLCacheEnabled
          /\ ~shutdown_flag
          /\ total_connections < max_connections \/ available > 0
         THEN cached' = cached \cup {thread[h]} /\ Finish(h, "empty")
         ELSE Goto(h, "return", "put") /\ UNCHANGED <<cached, thread>>
    /\ UNCHANGED <<configVars, available, total_connections, op, notifiers>>

\* The thread's cache takes the connection, unless it has one, the pool is shut
\* down, or the pool is exhausted and somebody may be waiting.
TryReturnToThreadLocal(h) ==
    /\ pc[h] = "return"
    /\ IF /\ TLCacheEnabled
          /\ thread[h] \notin cached
          /\ ~shutdown_flag
          /\ total_connections < max_connections \/ available > 0
         THEN cached' = cached \cup {thread[h]} /\ Finish(h, "empty")
         ELSE Goto(h, "return", "put") /\ UNCHANGED <<cached, thread>>
    /\ UNCHANGED <<configVars, available, total_connections, op, notifiers>>

PutUnlimited(h) ==
    /\ pc[h] = "put"
    /\ IF shutdown_flag
         THEN /\ total_connections' = Decremented(total_connections, 1)
              /\ Finish(h, "empty")
              /\ UNCHANGED available
         ELSE /\ available' = available + 1
              /\ Goto(h, "put", "notify")
              /\ UNCHANGED <<total_connections, thread>>
    /\ UNCHANGED <<configVars, cached, op, notifiers>>

\* The end of Return(): closed if shut down or above the limit, idle otherwise.
Put(h) ==
    /\ pc[h] = "put"
    /\ IF shutdown_flag \/ total_connections > max_connections
         THEN /\ total_connections' = Decremented(total_connections, 1)
              /\ Finish(h, "empty")
              /\ UNCHANGED available
         ELSE /\ available' = available + 1
              /\ Goto(h, "put", "notify")
              /\ UNCHANGED <<total_connections, thread>>
    /\ UNCHANGED <<configVars, cached, op, notifiers>>

\* notify_one(), after the lock was released.
Notify(h) ==
    /\ pc[h] = "notify"
    /\ NotifyOne(h, "empty")
    /\ thread' = [thread EXCEPT ![h] = None]
    /\ UNCHANGED <<configVars, countVars, op, notifiers>>

\* ~ThreadLocalConnectionCache(), when a thread ends.
ThreadExit(t) ==
    /\ t \in cached
    /\ \A h \in Handles : thread[h] # t
    /\ cached' = cached \ {t}
    /\ \E keeps \in BOOLEAN :
         /\ ReturnFromThreadLocalCache(keeps)
         /\ notifiers' = IF keeps THEN notifiers \cup {t} ELSE notifiers
    /\ UNCHANGED <<configVars, callVars>>

NotifyExit(t) ==
    /\ t \in notifiers
    /\ notifiers' = notifiers \ {t}
    /\ IF Sleeping = {}
         THEN UNCHANGED pc
         ELSE \E w \in Sleeping : pc' = [pc EXCEPT ![w] = "awake"]
    /\ UNCHANGED <<configVars, countVars, op, thread>>

-----------------------------------------------------------------------------
(* The pool's administration and its reaper.                               *)

SetAcquireMode(mode) ==
    /\ acquire_mode' = mode
    /\ UNCHANGED <<max_connections, shutdown_flag, countVars, callVars, notifiers>>

EvictedUnchecked(new_max) ==
    IF total_connections > new_max THEN total_connections - new_max ELSE 0

\* Idle connections closed while there are any and the pool is above its limit.
Evicted(new_max) ==
    IF total_connections <= new_max THEN 0
    ELSE IF total_connections - new_max < available THEN total_connections - new_max
    ELSE available

SetMaxConnections(new_max) ==
    /\ "admin" \notin notifiers
    /\ max_connections' = new_max
    /\ available' = available - Evicted(new_max)
    /\ total_connections' = Decremented(total_connections, Evicted(new_max))
    /\ notifiers' = notifiers \cup {"admin"}
    /\ UNCHANGED <<acquire_mode, shutdown_flag, cached, callVars>>

\* ReaperLoop(): a sweep that finds expired idle connections.
Reap ==
    /\ "reaper" \notin notifiers
    /\ \E expired \in 1 .. available :
         /\ available' = available - expired
         /\ total_connections' = Decremented(total_connections, expired)
    /\ notifiers' = notifiers \cup {"reaper"}
    /\ UNCHANGED <<configVars, cached, callVars>>

ShutdownWithoutNotify ==
    /\ ~shutdown_flag
    /\ "admin" \notin notifiers
    /\ shutdown_flag' = TRUE
    /\ available' = 0
    /\ UNCHANGED <<acquire_mode, max_connections, total_connections, cached, callVars,
                   notifiers>>

\* available.clear() closes the idle connections and leaves them in the count.
Shutdown ==
    /\ ~shutdown_flag
    /\ "admin" \notin notifiers
    /\ shutdown_flag' = TRUE
    /\ available' = 0
    /\ notifiers' = notifiers \cup {"admin"}
    /\ UNCHANGED <<acquire_mode, max_connections, total_connections, cached, callVars>>

\* pool_cv.notify_all(), after the lock was released.
NotifyAll(who) ==
    /\ who \in notifiers
    /\ notifiers' = notifiers \ {who}
    /\ pc' = [h \in Handles |-> IF pc[h] = "asleep" THEN "awake" ELSE pc[h]]
    /\ UNCHANGED <<configVars, countVars, op, thread>>

-----------------------------------------------------------------------------
\* The steps of a call in progress.
CallStep(h) ==
    \/ CheckDisabled(h) \/ TryAcquireFromThreadLocal(h) \/ ClearThreadLocal(h)
    \/ NotifyCleared(h) \/ ForceEnter(h) \/ Scan(h) \/ Checked(h) \/ Created(h)
    \/ CreateFails(h) \/ OpenUnmanaged(h) \/ TimeOut(h)
    \/ Discard(h) \/ TryReturnToThreadLocal(h) \/ Put(h) \/ Notify(h)

UserStep(h) == Acquire(h) \/ ReturnToPool(h) \/ ReleaseUnmanaged(h)

AdminStep ==
    \/ \E mode \in Modes : SetAcquireMode(mode)
    \/ \E new_max \in Limits : SetMaxConnections(new_max)
    \/ Shutdown
    \/ Reap

Next ==
    \/ \E h \in Handles : CallStep(h) \/ UserStep(h)
    \/ \E t \in Threads : ThreadExit(t) \/ NotifyExit(t)
    \/ \E who \in {"admin", "reaper"} : NotifyAll(who)
    \/ AdminStep

Spec == Init /\ [][Next]_vars

\* A thread in a call runs on, unless it sleeps; so does one that owes a notify.
Running(h) == pc[h] # "asleep" /\ CallStep(h)

Fairness ==
    /\ \A h \in Handles : WF_vars(Running(h))
    /\ \A who \in {"admin", "reaper"} : WF_vars(NotifyAll(who))
    /\ \A t \in Threads : WF_vars(NotifyExit(t))

FairSpec == Spec /\ Fairness

-----------------------------------------------------------------------------
Owners == {h \in Handles : pc[h] \in Owning}

(***************************************************************************)
(* Every connection is counted once, wherever it is: idle, in a thread's   *)
(* cache, in use, being checked, opened or returned.  After Shutdown() the *)
(* count may be too high (the idle ones stay in it) but never too low, so  *)
(* DecrementTotalConnections() never meets zero.                           *)
(***************************************************************************)
Accounting ==
    IF shutdown_flag
      THEN total_connections >= Cardinality(Owners) + Cardinality(cached)
      ELSE total_connections = available + Cardinality(Owners) + Cardinality(cached)

(***************************************************************************)
(* "Connections kept per attached database" (README, Return()): the pool   *)
(* keeps no idle connection while it is above its limit, although forced   *)
(* acquires go above it and the limit may be lowered at any time; and a    *)
(* pool that is shut down keeps none at all.                               *)
(***************************************************************************)
IdleWithinLimit ==
    available > 0 => total_connections <= max_connections /\ ~shutdown_flag

\* Connections or slots a waiter could have.
Free == available + (IF total_connections < max_connections
                       THEN max_connections - total_connections ELSE 0)

(***************************************************************************)
(* No wakeup is lost: when a waiter sleeps although it could be served,    *)
(* someone is awake, or about to notify, who will see to it (WaitAcquire(),*)
(* Return(), Discard(), the failure paths of the acquires).                *)
(***************************************************************************)
NoLostWakeup ==
    Sleeping # {} /\ (Free > 0 \/ shutdown_flag) =>
        \/ notifiers # {}
        \/ \E h \in Handles : pc[h] \in {"awake", "notify", "cleared"}

(***************************************************************************)
(* Shutdown() turns every waiter away, without waiting for its deadline.   *)
(***************************************************************************)
ShutdownWakesWaiters ==
    \A h \in Handles :
        shutdown_flag /\ pc[h] \in {"asleep", "awake"} ~> pc[h] = "empty"
=============================================================================
