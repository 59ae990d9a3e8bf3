------------------------ MODULE ConnectionPoolProofs ------------------------
(***************************************************************************)
(* Proofs about the connection pool: for any number of handles, threads    *)
(* and limits, every connection is counted once, no idle connection is     *)
(* kept above the limit or after Shutdown(), and no wakeup is lost.        *)
(***************************************************************************)
EXTENDS ConnectionPool, FiniteSetTheorems, TLAPS

\* A call in progress has a thread.
ThreadInv == \A h \in Handles : pc[h] \notin Resting => thread[h] \in Threads

PoolInv == PoolTypeOK /\ ThreadInv /\ Accounting /\ IdleWithinLimit

-----------------------------------------------------------------------------
LEMMA CountTypes ==
    ASSUME PoolTypeOK
    PROVE  /\ IsFiniteSet(Owners) /\ Cardinality(Owners) \in Nat
           /\ IsFiniteSet(cached) /\ Cardinality(cached) \in Nat
           /\ available \in Nat /\ total_connections \in Nat /\ max_connections \in Nat
  <1>1. Owners \subseteq Handles /\ cached \subseteq Threads
    BY DEF Owners, PoolTypeOK
  <1>2. IsFiniteSet(Owners) /\ IsFiniteSet(cached)
    BY <1>1, FS_Subset, HandlesAssumption, ThreadsAssumption
  <1> QED
    BY <1>2, FS_CardinalityType, LimitsAssumption DEF PoolTypeOK

\* A step in which only h can start or stop to own a connection.
LEMMA OwnersStep ==
    ASSUME PoolTypeOK, NEW h \in Handles,
           \A g \in Handles : g # h => (pc'[g] \in Owning <=> pc[g] \in Owning)
    PROVE  /\ (pc[h] \in Owning <=> pc'[h] \in Owning) =>
                  Cardinality(Owners)' = Cardinality(Owners)
           /\ pc[h] \in Owning /\ pc'[h] \notin Owning =>
                  /\ Cardinality(Owners)' = Cardinality(Owners) - 1
                  /\ Cardinality(Owners) > 0
           /\ pc[h] \notin Owning /\ pc'[h] \in Owning =>
                  Cardinality(Owners)' = Cardinality(Owners) + 1
  <1>1. CASE pc[h] \in Owning <=> pc'[h] \in Owning
    <2>1. Owners' = Owners
      BY <1>1 DEF Owners
    <2> QED
      BY <1>1, <2>1
  <1>2. CASE pc[h] \in Owning /\ pc'[h] \notin Owning
    <2>1. Owners' = Owners \ {h} /\ h \in Owners
      BY <1>2 DEF Owners
    <2>2. Cardinality(Owners \ {h}) = Cardinality(Owners) - 1
      BY <2>1, CountTypes, FS_RemoveElement
    <2>3. Cardinality(Owners \ {h}) \in Nat
      BY CountTypes, FS_RemoveElement, FS_CardinalityType
    <2> QED
      BY <1>2, <2>1, <2>2, <2>3, CountTypes
  <1>3. CASE pc[h] \notin Owning /\ pc'[h] \in Owning
    <2>1. Owners' = Owners \cup {h} /\ h \notin Owners
      BY <1>3 DEF Owners
    <2>2. Cardinality(Owners \cup {h}) = Cardinality(Owners) + 1
      BY <2>1, CountTypes, FS_AddElement
    <2> QED
      BY <1>3, <2>1, <2>2
  <1> QED
    BY <1>1, <1>2, <1>3

LEMMA CacheTaken ==
    ASSUME PoolTypeOK, NEW t \in cached, cached' = cached \ {t}
    PROVE  Cardinality(cached)' = Cardinality(cached) - 1 /\ Cardinality(cached) > 0
  <1>1. Cardinality(cached \ {t}) = Cardinality(cached) - 1
    BY CountTypes, FS_RemoveElement
  <1>2. Cardinality(cached \ {t}) \in Nat
    BY CountTypes, FS_RemoveElement, FS_CardinalityType
  <1> QED
    BY <1>1, <1>2, CountTypes

LEMMA CacheFilled ==
    ASSUME PoolTypeOK, NEW t \in Threads, t \notin cached, cached' = cached \cup {t}
    PROVE  Cardinality(cached)' = Cardinality(cached) + 1
  BY CountTypes, FS_AddElement

-----------------------------------------------------------------------------
LEMMA PoolInitInv == Init => PoolInv
  <1> SUFFICES ASSUME Init PROVE PoolInv
    OBVIOUS
  <1>1. PoolTypeOK
    BY DEF Init, PoolTypeOK, Locations, Resting
  <1>2. ThreadInv /\ IdleWithinLimit
    BY DEF Init, ThreadInv, IdleWithinLimit, Resting
  <1>3. Owners = {} /\ cached = {}
    BY DEF Init, Owners, Owning
  <1>4. Accounting
    BY <1>3, FS_EmptySet DEF Init, Accounting
  <1> QED
    BY <1>1, <1>2, <1>4 DEF PoolInv

\* What the calls do to the locations of the other handles: at most a wakeup.
LEMMA NotifyOneFacts ==
    ASSUME PoolTypeOK, NEW h \in Handles, NEW to \in Locations, pc[h] # "asleep", NotifyOne(h, to)
    PROVE  /\ pc' \in [Handles -> Locations] /\ pc'[h] = to
           /\ \A g \in Handles : g # h =>
                 (pc'[g] = pc[g] \/ (pc[g] = "asleep" /\ pc'[g] = "awake"))
  <1>1. CASE Sleeping = {}
    BY <1>1 DEF NotifyOne, PoolTypeOK
  <1>2. CASE Sleeping # {}
    <2>1. PICK w \in Sleeping : pc' = [pc EXCEPT ![h] = to, ![w] = "awake"]
      BY <1>2 DEF NotifyOne
    <2>2. w \in Handles /\ pc[w] = "asleep" /\ w # h /\ "awake" \in Locations
      BY DEF Sleeping, Locations
    <2> QED
      BY <2>1, <2>2 DEF PoolTypeOK
  <1> QED
    BY <1>1, <1>2

LEMMA FinishFacts ==
    ASSUME PoolTypeOK, NEW h \in Handles, NEW to \in Locations, Finish(h, to)
    PROVE  /\ pc' \in [Handles -> Locations] /\ thread' \in [Handles -> Threads \cup {None}]
           /\ pc'[h] = to
           /\ \A g \in Handles : g # h => pc'[g] = pc[g] /\ thread'[g] = thread[g]
  BY DEF Finish, PoolTypeOK

LEMMA TakeOrCreateFacts ==
    ASSUME PoolTypeOK, NEW h \in Handles, NEW idle \in Nat, NEW total \in Nat, idle <= total,
           TakeOrCreate(h, idle, total)
    PROVE  /\ pc' \in [Handles -> Locations] /\ thread' \in [Handles -> Threads \cup {None}]
           /\ \A g \in Handles : g # h => pc'[g] = pc[g] /\ thread'[g] = thread[g]
           /\ available' \in Nat /\ total_connections' \in Nat
           /\ pc'[h] \in {"check", "create", "asleep", "empty"}
           /\ pc'[h] # "empty" => thread'[h] = thread[h]
           /\ total_connections' - available' =
                 IF pc'[h] \in {"check", "create"} THEN total - idle + 1 ELSE total - idle
           /\ available' > 0 => total_connections' <= total
  <1>1. ASSUME NEW expired \in 0 .. idle - 1,
               available' = idle - expired - 1,
               total_connections' = Decremented(total, expired),
               pc' = [pc EXCEPT ![h] = "check"], UNCHANGED thread
        PROVE  /\ available' \in Nat /\ total_connections' = total - expired
               /\ total_connections' \in Nat
    BY <1>1 DEF Decremented
  <1>2. Decremented(total, idle) = total - idle
    BY DEF Decremented
  <1> QED
    BY <1>1, <1>2, FinishFacts DEF TakeOrCreate, PoolTypeOK, Locations, Resting, Owning

-----------------------------------------------------------------------------
(* One lemma per group of steps.                                           *)

\* Steps that touch no counter and change at most which calls are under way.
LEMMA QuietStep ==
    ASSUME PoolInv, UNCHANGED <<available, total_connections, cached, max_connections, shutdown_flag>>,
           acquire_mode' \in Modes, notifiers' \in SUBSET ({"admin", "reaper"} \cup Threads),
           pc' \in [Handles -> Locations], op' \in [Handles -> {"force", "wait", "try"}],
           thread' \in [Handles -> Threads \cup {None}],
           \A g \in Handles : /\ pc'[g] \in Owning <=> pc[g] \in Owning
                              /\ pc'[g] \notin Resting => thread'[g] \in Threads
    PROVE  PoolInv'
  <1>1. PoolTypeOK' /\ ThreadInv' /\ IdleWithinLimit'
    BY DEF PoolInv, PoolTypeOK, ThreadInv, IdleWithinLimit
  <1>2. Owners' = Owners
    BY DEF Owners
  <1> QED
    BY <1>1, <1>2 DEF PoolInv, Accounting

\* Any other step of a call: the type and the threads are as in a quiet step;
\* what is left is arithmetic.
LEMMA CountingStep ==
    ASSUME PoolInv, UNCHANGED <<max_connections, shutdown_flag>>,
           acquire_mode' \in Modes, notifiers' \in SUBSET ({"admin", "reaper"} \cup Threads),
           pc' \in [Handles -> Locations], op' \in [Handles -> {"force", "wait", "try"}],
           thread' \in [Handles -> Threads \cup {None}],
           available' \in Nat, total_connections' \in Nat, cached' \in SUBSET Threads,
           \A g \in Handles : pc'[g] \notin Resting => thread'[g] \in Threads,
           total_connections' - available' - Cardinality(Owners)' - Cardinality(cached)' =
               total_connections - available - Cardinality(Owners) - Cardinality(cached),
           available' > 0 => total_connections' <= max_connections /\ ~shutdown_flag
    PROVE  PoolInv'
  <1>1. PoolTypeOK' /\ ThreadInv' /\ IdleWithinLimit'
    BY DEF PoolInv, PoolTypeOK, ThreadInv, IdleWithinLimit
  <1>2. /\ Cardinality(Owners) \in Nat /\ Cardinality(cached) \in Nat
        /\ Cardinality(Owners)' \in Nat /\ Cardinality(cached)' \in Nat
        /\ available \in Nat /\ total_connections \in Nat
    <2>1. Owners' \subseteq Handles /\ cached' \subseteq Threads
      BY DEF Owners
    <2>2. IsFiniteSet(Owners') /\ IsFiniteSet(cached')
      BY <2>1, FS_Subset, HandlesAssumption, ThreadsAssumption
    <2> QED
      BY <2>2, FS_CardinalityType, CountTypes DEF PoolInv
  <1>3. Accounting'
    BY <1>2 DEF PoolInv, Accounting, IdleWithinLimit
  <1> QED
    BY <1>1, <1>3 DEF PoolInv

\* The count covers every connection, so a decrement never meets zero.
LEMMA CountCovers ==
    ASSUME PoolInv
    PROVE  /\ total_connections >= available + Cardinality(Owners) + Cardinality(cached)
           /\ \A k \in Nat : k <= total_connections =>
                  Decremented(total_connections, k) = total_connections - k
  <1>1. total_connections >= available + Cardinality(Owners) + Cardinality(cached)
    BY CountTypes DEF PoolInv, Accounting, IdleWithinLimit
  <1>2. total_connections \in Nat
    BY DEF PoolInv, PoolTypeOK
  <1> QED
    BY <1>1, <1>2 DEF Decremented

LEMMA UserStepInv ==
    ASSUME PoolInv, NEW h \in Handles, UserStep(h)
    PROVE  PoolInv'
  <1>1. ASSUME NEW from, NEW to \in Locations \ Resting, Call(h, from, to)
        PROVE  /\ pc' \in [Handles -> Locations] /\ thread' \in [Handles -> Threads \cup {None}]
               /\ pc[h] = from /\ pc'[h] = to /\ thread'[h] \in Threads
               /\ \A g \in Handles : g # h => pc'[g] = pc[g] /\ thread'[g] = thread[g]
    BY <1>1 DEF Call, Goto, PoolInv, PoolTypeOK
  <1>2. CASE Acquire(h)
    <2>1. op' \in [Handles -> {"force", "wait", "try"}]
      BY <1>2, ModesAssumption DEF Acquire, PoolInv, PoolTypeOK
    <2>2. Call(h, "empty", "begin") /\ "begin" \in Locations \ Resting
      BY <1>2 DEF Acquire, Locations, Resting
    <2> QED
      BY <1>1, <1>2, <2>1, <2>2, QuietStep
      DEF Acquire, PoolInv, PoolTypeOK, ThreadInv, configVars, countVars, Owning
  <1>3. CASE ReturnToPool(h)
    <2>1. PICK to \in {"discard", "return"} : Call(h, "held", to)
      BY <1>3 DEF ReturnToPool
    <2>2. to \in Locations \ Resting /\ to \in Owning /\ "held" \in Owning
      BY DEF Locations, Resting, Owning
    <2> QED
      BY <1>1, <1>3, <2>1, <2>2, QuietStep
      DEF ReturnToPool, PoolInv, PoolTypeOK, ThreadInv, configVars, countVars
  <1>4. CASE ReleaseUnmanaged(h)
    BY <1>4, QuietStep DEF ReleaseUnmanaged, Goto, PoolInv, PoolTypeOK, ThreadInv, configVars,
       countVars, Owning, Resting, Locations
  <1> QED
    BY <1>2, <1>3, <1>4 DEF UserStep

\* Steps of a call that count nothing.
LEMMA QuietCallInv ==
    ASSUME PoolInv, NEW h \in Handles,
           \/ CheckDisabled(h) \/ NotifyCleared(h) \/ ForceEnter(h) \/ Created(h)
           \/ OpenUnmanaged(h) \/ TimeOut(h) \/ Notify(h)
    PROVE  PoolInv'
  <1>1. /\ UNCHANGED <<configVars, countVars, op, notifiers>>
    BY DEF CheckDisabled, NotifyCleared, ForceEnter, Created, OpenUnmanaged, TimeOut, Notify
  <1>2. /\ pc' \in [Handles -> Locations] /\ thread' \in [Handles -> Threads \cup {None}]
        /\ \A g \in Handles : /\ pc'[g] \in Owning <=> pc[g] \in Owning
                              /\ pc'[g] \notin Resting => thread'[g] \in Threads
    <2> USE DEF PoolInv, PoolTypeOK, ThreadInv
    <2>1. CASE CheckDisabled(h)
      BY <2>1 DEF CheckDisabled, Finish, Goto, Locations, Resting, Owning
    <2>2. CASE ForceEnter(h)
      BY <2>2 DEF ForceEnter, Finish, Goto, Locations, Resting, Owning
    <2>3. CASE Created(h) \/ OpenUnmanaged(h) \/ TimeOut(h)
      BY <2>3 DEF Created, OpenUnmanaged, TimeOut, Finish, Locations, Resting, Owning
    <2>4. CASE NotifyCleared(h)
      <3>1. /\ pc[h] = "cleared" /\ UNCHANGED thread /\ NotifyOne(h, "enter")
            /\ "enter" \in Locations
        BY <2>4 DEF NotifyCleared, Locations
      <3> QED
        BY <3>1, NotifyOneFacts DEF Resting, Owning
    <2>5. CASE Notify(h)
      <3>1. /\ pc[h] = "notify" /\ NotifyOne(h, "empty") /\ "empty" \in Locations
            /\ thread' = [thread EXCEPT ![h] = None]
        BY <2>5 DEF Notify, Locations, Resting
      <3> QED
        BY <3>1, NotifyOneFacts DEF Resting, Owning
    <2> QED
      BY <2>1, <2>2, <2>3, <2>4, <2>5
  <1> QED
    BY <1>1, <1>2, QuietStep DEF configVars, countVars, PoolInv, PoolTypeOK

\* A connection that stops to be owned and leaves the count.
LEMMA CloseInv ==
    ASSUME PoolInv, NEW h \in Handles, UNCHANGED <<configVars, available, cached, op>>,
           notifiers' = notifiers,
           pc[h] \in Owning, pc'[h] \notin Owning,
           total_connections' = Decremented(total_connections, 1),
           pc' \in [Handles -> Locations], thread' \in [Handles -> Threads \cup {None}],
           \A g \in Handles : g # h => (pc'[g] \in Owning <=> pc[g] \in Owning),
           \A g \in Handles : pc'[g] \notin Resting => thread'[g] \in Threads
    PROVE  PoolInv'
  <1>1. Cardinality(Owners)' = Cardinality(Owners) - 1 /\ Cardinality(Owners) > 0
    BY OwnersStep DEF PoolInv
  <1>2. total_connections > 0 /\ total_connections' = total_connections - 1
    BY <1>1, CountCovers, CountTypes DEF PoolInv
  <1>3. available > 0 => total_connections <= max_connections /\ ~shutdown_flag
    BY DEF PoolInv, IdleWithinLimit
  <1>4. total_connections' \in Nat
    BY <1>2, CountTypes DEF PoolInv
  <1>5. total_connections' - available' - Cardinality(Owners)' - Cardinality(cached)' =
            total_connections - available - Cardinality(Owners) - Cardinality(cached)
    BY <1>1, <1>2, CountTypes DEF PoolInv
  <1>6. available' > 0 => total_connections' <= max_connections /\ ~shutdown_flag
    BY <1>2, <1>3, CountTypes DEF PoolInv
  <1> QED
    BY <1>4, <1>5, <1>6, CountingStep DEF configVars, PoolInv, PoolTypeOK

LEMMA ClosingCallInv ==
    ASSUME PoolInv, NEW h \in Handles, CreateFails(h) \/ Discard(h)
    PROVE  PoolInv'
  <1>1. CASE CreateFails(h)
    <2>1. /\ pc[h] = "create" /\ NotifyOne(h, "empty") /\ "empty" \in Locations
          /\ thread' = [thread EXCEPT ![h] = None]
          /\ total_connections' = Decremented(total_connections, 1)
          /\ UNCHANGED <<configVars, available, cached, op, notifiers>>
      BY <1>1 DEF CreateFails, Locations, Resting
    <2>2. /\ pc' \in [Handles -> Locations] /\ pc'[h] = "empty"
          /\ \A g \in Handles : g # h =>
                 (pc'[g] = pc[g] \/ (pc[g] = "asleep" /\ pc'[g] = "awake"))
      BY <2>1, NotifyOneFacts DEF PoolInv
    <2>3. /\ thread' \in [Handles -> Threads \cup {None}]
          /\ \A g \in Handles : pc'[g] \notin Resting => thread'[g] \in Threads
      BY <2>1, <2>2 DEF PoolInv, PoolTypeOK, ThreadInv, Resting
    <2>4. /\ pc[h] \in Owning /\ pc'[h] \notin Owning
          /\ \A g \in Handles : g # h => (pc'[g] \in Owning <=> pc[g] \in Owning)
      BY <2>1, <2>2 DEF Owning
    <2> QED
      BY <2>1, <2>2, <2>3, <2>4, CloseInv
  <1>2. CASE Discard(h)
    <2>1. /\ pc[h] = "discard" /\ pc' = [pc EXCEPT ![h] = "notify"] /\ UNCHANGED thread
          /\ total_connections' = Decremented(total_connections, 1)
          /\ UNCHANGED <<configVars, available, cached, op, notifiers>>
      BY <1>2 DEF Discard, Goto
    <2>2. /\ pc' \in [Handles -> Locations]
          /\ \A g \in Handles : pc'[g] = IF g = h THEN "notify" ELSE pc[g]
      BY <2>1 DEF PoolInv, PoolTypeOK, Locations
    <2>3. /\ thread' \in [Handles -> Threads \cup {None}]
          /\ \A g \in Handles : pc'[g] \notin Resting => thread'[g] \in Threads
      BY <2>1, <2>2 DEF PoolInv, PoolTypeOK, ThreadInv, Resting
    <2>4. /\ pc[h] \in Owning /\ pc'[h] \notin Owning
          /\ \A g \in Handles : g # h => (pc'[g] \in Owning <=> pc[g] \in Owning)
      BY <2>1, <2>2 DEF Owning
    <2> QED
      BY <2>1, <2>2, <2>3, <2>4, CloseInv
  <1> QED
    BY <1>1, <1>2

LEMMA PutInv ==
    ASSUME PoolInv, NEW h \in Handles, Put(h)
    PROVE  PoolInv'
  <1>1. pc[h] = "put" /\ UNCHANGED <<configVars, cached, op, notifiers>>
    BY DEF Put
  <1>2. CASE shutdown_flag \/ total_connections > max_connections
    <2>1. /\ Finish(h, "empty") /\ "empty" \in Locations /\ UNCHANGED available
          /\ total_connections' = Decremented(total_connections, 1)
      BY <1>2 DEF Put, Locations, Resting
    <2>2. /\ pc' \in [Handles -> Locations] /\ thread' \in [Handles -> Threads \cup {None}]
          /\ pc'[h] = "empty"
          /\ \A g \in Handles : g # h => pc'[g] = pc[g] /\ thread'[g] = thread[g]
      BY <2>1, FinishFacts DEF PoolInv
    <2>3. /\ pc[h] \in Owning /\ pc'[h] \notin Owning
          /\ \A g \in Handles : pc'[g] \notin Resting => thread'[g] \in Threads
      BY <1>1, <2>2 DEF Owning, Resting, PoolInv, ThreadInv
    <2> QED
      BY <1>1, <2>1, <2>2, <2>3, CloseInv
  <1>3. CASE ~shutdown_flag /\ total_connections <= max_connections
    <2>1. /\ pc' = [pc EXCEPT ![h] = "notify"] /\ UNCHANGED <<total_connections, thread>>
          /\ available' = available + 1
      BY <1>3, CountTypes DEF Put, Goto, PoolInv
    <2>2. /\ pc' \in [Handles -> Locations]
          /\ \A g \in Handles : pc'[g] = IF g = h THEN "notify" ELSE pc[g]
      BY <2>1 DEF PoolInv, PoolTypeOK, Locations
    <2>3. Cardinality(Owners)' = Cardinality(Owners) - 1
      BY <1>1, <2>2, OwnersStep DEF Owning, PoolInv
    <2>4. \A g \in Handles : pc'[g] \notin Resting => thread'[g] \in Threads
      BY <1>1, <2>1, <2>2 DEF PoolInv, ThreadInv, Resting
    <2>5. total_connections' - available' - Cardinality(Owners)' - Cardinality(cached)' =
              total_connections - available - Cardinality(Owners) - Cardinality(cached)
      BY <1>1, <2>1, <2>3, CountTypes DEF PoolInv
    <2> QED
      BY <1>1, <1>3, <2>1, <2>2, <2>4, <2>5, CountingStep DEF configVars, PoolInv, PoolTypeOK
  <1> QED
    BY <1>2, <1>3, CountTypes DEF PoolInv

\* The loop over the idle connections, entered by a handle that owns none (the
\* count is as it stands) or by one that has just given one up.
LEMMA LoopInv ==
    ASSUME PoolInv, NEW h \in Handles, NEW total \in Nat, ~shutdown_flag,
           total = IF pc[h] \in Owning THEN total_connections - 1 ELSE total_connections,
           pc[h] \notin Resting, TakeOrCreate(h, available, total),
           UNCHANGED <<configVars, cached, op, notifiers>>
    PROVE  PoolInv'
  <1>0. pc[h] \in Owning => Cardinality(Owners) > 0
    <2>1. ASSUME pc[h] \in Owning PROVE Cardinality(Owners) # 0
      <3>1. h \in Owners
        BY <2>1 DEF Owners
      <3> QED
        BY <3>1, CountTypes, FS_EmptySet DEF PoolInv
    <2> QED
      BY <2>1, CountTypes DEF PoolInv
  <1>1. available <= total
    BY <1>0, CountTypes, CountCovers DEF PoolInv
  <1>2. /\ pc' \in [Handles -> Locations] /\ thread' \in [Handles -> Threads \cup {None}]
        /\ \A g \in Handles : g # h => pc'[g] = pc[g] /\ thread'[g] = thread[g]
        /\ available' \in Nat /\ total_connections' \in Nat
        /\ pc'[h] \in {"check", "create", "asleep", "empty"}
        /\ pc'[h] # "empty" => thread'[h] = thread[h]
        /\ total_connections' - available' =
              IF pc'[h] \in {"check", "create"} THEN total - available + 1 ELSE total - available
        /\ available' > 0 => total_connections' <= total
    BY <1>1, TakeOrCreateFacts, CountTypes DEF PoolInv
  <1>3. pc'[h] \in Owning <=> pc'[h] \in {"check", "create"}
    BY <1>2 DEF Owning
  <1>4. Cardinality(Owners)' - Cardinality(Owners) =
            (IF pc'[h] \in Owning THEN 1 ELSE 0) - (IF pc[h] \in Owning THEN 1 ELSE 0)
    BY <1>2, OwnersStep, CountTypes DEF PoolInv
  <1>5. Cardinality(Owners)' \in Nat
    <2>1. Owners' \subseteq Handles
      BY DEF Owners
    <2> QED
      BY <2>1, FS_Subset, HandlesAssumption, FS_CardinalityType
  <1>6. total_connections' - available' - Cardinality(Owners)' - Cardinality(cached)' =
            total_connections - available - Cardinality(Owners) - Cardinality(cached)
    BY <1>2, <1>3, <1>4, <1>5, CountTypes DEF PoolInv
  <1>7. available' > 0 => total_connections' <= max_connections
    <2>1. available > 0 => total_connections <= max_connections
      BY DEF PoolInv, IdleWithinLimit
    <2>2. available' > 0 => available > 0
      BY CountTypes DEF TakeOrCreate, PoolInv
    <2> QED
      BY <1>2, <2>1, <2>2, CountTypes DEF PoolInv
  <1>8. \A g \in Handles : pc'[g] \notin Resting => thread'[g] \in Threads
    BY <1>2 DEF PoolInv, ThreadInv, Resting
  <1> QED
    BY <1>2, <1>6, <1>7, <1>8, CountingStep DEF configVars, PoolInv, PoolTypeOK

LEMMA ScanInv ==
    ASSUME PoolInv, NEW h \in Handles, Scan(h)
    PROVE  PoolInv'
  <1>1. /\ pc[h] \in {"scan", "asleep", "awake", "enter"}
        /\ UNCHANGED <<configVars, cached, op, notifiers>>
    BY DEF Scan
  <1>2. CASE shutdown_flag
    <2>1. Finish(h, "empty") /\ "empty" \in Locations /\ UNCHANGED <<available, total_connections>>
      BY <1>2 DEF Scan, Locations, Resting
    <2> QED
      BY <1>1, <2>1, FinishFacts, QuietStep
      DEF PoolInv, PoolTypeOK, ThreadInv, configVars, Owning, Resting
  <1>3. CASE ~shutdown_flag
    <2>1. TakeOrCreate(h, available, total_connections)
      BY <1>3 DEF Scan
    <2>2. pc[h] \notin Owning /\ pc[h] \notin Resting /\ total_connections \in Nat
      BY <1>1, CountTypes DEF Owning, Resting, PoolInv
    <2> QED
      BY <1>1, <1>3, <2>1, <2>2, LoopInv
  <1> QED
    BY <1>2, <1>3

LEMMA CheckedInv ==
    ASSUME PoolInv, NEW h \in Handles, Checked(h)
    PROVE  PoolInv'
  <1>1. /\ pc[h] = "check" /\ UNCHANGED <<configVars, cached, op, notifiers>>
        /\ pc[h] \in Owning /\ pc[h] \notin Resting
    BY DEF Checked, Owning, Resting
  <1>2. CASE /\ total_connections' = Decremented(total_connections, 1)
             /\ Finish(h, "empty")
             /\ UNCHANGED available
    <2>1. /\ pc' \in [Handles -> Locations] /\ thread' \in [Handles -> Threads \cup {None}]
          /\ pc'[h] = "empty"
          /\ \A g \in Handles : g # h => pc'[g] = pc[g] /\ thread'[g] = thread[g]
      BY <1>2, FinishFacts DEF PoolInv, Locations, Resting
    <2>2. /\ pc'[h] \notin Owning
          /\ \A g \in Handles : pc'[g] \notin Resting => thread'[g] \in Threads
      BY <2>1 DEF Owning, Resting, PoolInv, ThreadInv
    <2> QED
      BY <1>1, <1>2, <2>1, <2>2, CloseInv
  <1>3. CASE Finish(h, "held") /\ UNCHANGED <<available, total_connections>>
    <2>1. "held" \in Locations
      BY DEF Locations, Resting
    <2> QED
      BY <1>1, <1>3, <2>1, FinishFacts, QuietStep
      DEF PoolInv, PoolTypeOK, ThreadInv, configVars, Owning, Resting
  <1>4. CASE ~shutdown_flag /\ TakeOrCreate(h, available, Decremented(total_connections, 1))
    <2>1. h \in Owners
      BY <1>1 DEF Owners
    <2>2. Cardinality(Owners) > 0
      BY <2>1, CountTypes, FS_EmptySet DEF PoolInv
    <2>3. total_connections > 0 /\ Decremented(total_connections, 1) = total_connections - 1
      BY <2>2, CountCovers, CountTypes DEF PoolInv
    <2>4. Decremented(total_connections, 1) \in Nat
      BY <2>3, CountTypes DEF PoolInv
    <2> QED
      BY <1>1, <1>4, <2>3, <2>4, LoopInv
  <1> QED
    BY <1>2, <1>3, <1>4 DEF Checked

-----------------------------------------------------------------------------
(* Thread-local caches.                                                    *)

\* A connection leaves a thread's cache: the counts of ReturnFromThreadLocalCache().
LEMMA FromCacheInv ==
    ASSUME PoolInv, NEW t \in cached, cached' = cached \ {t}, NEW keeps \in BOOLEAN,
           ReturnFromThreadLocalCache(keeps), UNCHANGED <<configVars, op>>,
           notifiers' \in SUBSET ({"admin", "reaper"} \cup Threads),
           pc' \in [Handles -> Locations], thread' \in [Handles -> Threads \cup {None}],
           \A g \in Handles : /\ pc'[g] \in Owning <=> pc[g] \in Owning
                              /\ pc'[g] \notin Resting => thread'[g] \in Threads
    PROVE  PoolInv'
  <1>1. Cardinality(cached)' = Cardinality(cached) - 1 /\ Cardinality(cached) > 0
    BY CacheTaken DEF PoolInv
  <1>2. Owners' = Owners
    BY DEF Owners
  <1>3. cached' \in SUBSET Threads
    BY DEF PoolInv, PoolTypeOK
  <1>4. total_connections > 0 /\ Decremented(total_connections, 1) = total_connections - 1
    BY <1>1, CountCovers, CountTypes DEF PoolInv
  <1>5. /\ available' = IF keeps THEN available + 1 ELSE available
        /\ total_connections' = IF keeps THEN total_connections ELSE total_connections - 1
        /\ keeps => ~shutdown_flag /\ total_connections <= max_connections
    BY <1>4 DEF ReturnFromThreadLocalCache
  <1>6. /\ available' \in Nat /\ total_connections' \in Nat
        /\ total_connections' - available' - Cardinality(Owners)' - Cardinality(cached)' =
               total_connections - available - Cardinality(Owners) - Cardinality(cached)
    BY <1>1, <1>2, <1>4, <1>5, CountTypes DEF PoolInv
  <1>7. available' > 0 => total_connections' <= max_connections /\ ~shutdown_flag
    BY <1>5, CountTypes DEF PoolInv, IdleWithinLimit
  <1> QED
    BY <1>3, <1>6, <1>7, CountingStep DEF configVars, PoolInv, PoolTypeOK

LEMMA ThreadLocalInv ==
    ASSUME PoolInv, NEW h \in Handles,
           \/ TryAcquireFromThreadLocal(h) \/ ClearThreadLocal(h) \/ TryReturnToThreadLocal(h)
    PROVE  PoolInv'
  <1>1. CASE ClearThreadLocal(h)
    <2>1. PICK keeps \in BOOLEAN :
             /\ ReturnFromThreadLocalCache(keeps)
             /\ Goto(h, "local", IF keeps THEN "cleared" ELSE "enter")
      BY <1>1 DEF ClearThreadLocal
    <2>2. /\ pc' \in [Handles -> Locations] /\ pc[h] = "local" /\ pc'[h] \in {"cleared", "enter"}
          /\ \A g \in Handles : g # h => pc'[g] = pc[g]
      BY <2>1 DEF Goto, PoolInv, PoolTypeOK, Locations
    <2>3. \A g \in Handles : /\ pc'[g] \in Owning <=> pc[g] \in Owning
                             /\ pc'[g] \notin Resting => thread[g] \in Threads
      BY <2>2 DEF Owning, Resting, PoolInv, ThreadInv
    <2> QED
      BY <1>1, <2>1, <2>2, <2>3, FromCacheInv DEF ClearThreadLocal, PoolInv, PoolTypeOK
  <1>2. CASE TryAcquireFromThreadLocal(h) /\ thread[h] \notin cached
    <2>1. /\ pc[h] = "local" /\ pc' = [pc EXCEPT ![h] = "enter"]
          /\ UNCHANGED <<configVars, countVars, op, thread, notifiers>>
      BY <1>2 DEF TryAcquireFromThreadLocal, Goto, countVars
    <2> QED
      BY <2>1, QuietStep
      DEF PoolInv, PoolTypeOK, ThreadInv, configVars, countVars, Owning, Resting, Locations
  <1>3. CASE TryAcquireFromThreadLocal(h) /\ thread[h] \in cached
    <2>1. /\ pc[h] = "local" /\ cached' = cached \ {thread[h]} /\ Finish(h, "held")
          /\ UNCHANGED <<configVars, available, total_connections, op, notifiers>>
          /\ "held" \in Locations
      BY <1>3 DEF TryAcquireFromThreadLocal, Locations, Resting
    <2>2. /\ pc' \in [Handles -> Locations] /\ thread' \in [Handles -> Threads \cup {None}]
          /\ pc'[h] = "held"
          /\ \A g \in Handles : g # h => pc'[g] = pc[g] /\ thread'[g] = thread[g]
      BY <2>1, FinishFacts DEF PoolInv
    <2>3. Cardinality(cached)' = Cardinality(cached) - 1
      BY <1>3, <2>1, CacheTaken DEF PoolInv
    <2>4. Cardinality(Owners)' = Cardinality(Owners) + 1
      BY <2>1, <2>2, OwnersStep DEF Owning, PoolInv
    <2>5. total_connections' - available' - Cardinality(Owners)' - Cardinality(cached)' =
              total_connections - available - Cardinality(Owners) - Cardinality(cached)
      BY <2>1, <2>3, <2>4, CountTypes DEF PoolInv
    <2>6. \A g \in Handles : pc'[g] \notin Resting => thread'[g] \in Threads
      BY <2>2 DEF Resting, PoolInv, ThreadInv
    <2> QED
      BY <2>1, <2>2, <2>5, <2>6, CountingStep DEF configVars, PoolInv, PoolTypeOK, IdleWithinLimit
  <1>4. CASE TryReturnToThreadLocal(h) /\ cached' # cached
    <2>1. /\ pc[h] = "return" /\ thread[h] \notin cached /\ cached' = cached \cup {thread[h]}
          /\ Finish(h, "empty") /\ "empty" \in Locations
          /\ UNCHANGED <<configVars, available, total_connections, op, notifiers>>
      BY <1>4 DEF TryReturnToThreadLocal, Locations, Resting
    <2>2. /\ pc' \in [Handles -> Locations] /\ thread' \in [Handles -> Threads \cup {None}]
          /\ pc'[h] = "empty"
          /\ \A g \in Handles : g # h => pc'[g] = pc[g] /\ thread'[g] = thread[g]
      BY <2>1, FinishFacts DEF PoolInv
    <2>3. thread[h] \in Threads
      BY <2>1 DEF PoolInv, ThreadInv, Resting
    <2>4. Cardinality(cached)' = Cardinality(cached) + 1
      BY <2>1, <2>3, CacheFilled DEF PoolInv
    <2>5. Cardinality(Owners)' = Cardinality(Owners) - 1
      BY <2>1, <2>2, OwnersStep DEF Owning, PoolInv
    <2>6. total_connections' - available' - Cardinality(Owners)' - Cardinality(cached)' =
              total_connections - available - Cardinality(Owners) - Cardinality(cached)
      BY <2>1, <2>4, <2>5, CountTypes DEF PoolInv
    <2>7. \A g \in Handles : pc'[g] \notin Resting => thread'[g] \in Threads
      BY <2>2 DEF Resting, PoolInv, ThreadInv
    <2> QED
      BY <2>1, <2>2, <2>3, <2>6, <2>7, CountingStep
      DEF configVars, PoolInv, PoolTypeOK, IdleWithinLimit
  <1>5. CASE TryReturnToThreadLocal(h) /\ cached' = cached
    <2>1. thread[h] \in Threads
      BY <1>5 DEF TryReturnToThreadLocal, PoolInv, ThreadInv, Resting
    <2>2. /\ pc[h] = "return" /\ pc' = [pc EXCEPT ![h] = "put"]
          /\ UNCHANGED <<configVars, countVars, op, thread, notifiers>>
      BY <1>5, <2>1 DEF TryReturnToThreadLocal, Goto, countVars
    <2> QED
      BY <2>2, QuietStep
      DEF PoolInv, PoolTypeOK, ThreadInv, configVars, countVars, Owning, Resting, Locations
  <1> QED
    BY <1>1, <1>2, <1>3, <1>4, <1>5

LEMMA ThreadStepInv ==
    ASSUME PoolInv, NEW t \in Threads, ThreadExit(t) \/ NotifyExit(t)
    PROVE  PoolInv'
  <1>1. CASE ThreadExit(t)
    <2>1. PICK keeps \in BOOLEAN :
             /\ ReturnFromThreadLocalCache(keeps)
             /\ notifiers' = IF keeps THEN notifiers \cup {t} ELSE notifiers
      BY <1>1 DEF ThreadExit
    <2>2. notifiers' \in SUBSET ({"admin", "reaper"} \cup Threads)
      BY <2>1 DEF PoolInv, PoolTypeOK
    <2>3. t \in cached /\ cached' = cached \ {t} /\ UNCHANGED <<configVars, callVars>>
      BY <1>1 DEF ThreadExit
    <2> QED
      BY <2>1, <2>2, <2>3, FromCacheInv DEF callVars, PoolInv, PoolTypeOK, ThreadInv
  <1>2. CASE NotifyExit(t)
    <2>1. /\ UNCHANGED <<configVars, countVars, op, thread>> /\ notifiers' = notifiers \ {t}
          /\ pc' \in [Handles -> Locations]
          /\ \A g \in Handles : pc'[g] = pc[g] \/ (pc[g] = "asleep" /\ pc'[g] = "awake")
      <3>1. CASE UNCHANGED pc
        BY <1>2, <3>1 DEF NotifyExit, PoolInv, PoolTypeOK
      <3>2. CASE \E w \in Sleeping : pc' = [pc EXCEPT ![w] = "awake"]
        BY <1>2, <3>2 DEF NotifyExit, Sleeping, PoolInv, PoolTypeOK, Locations
      <3> QED
        BY <1>2, <3>1, <3>2 DEF NotifyExit
    <2> QED
      BY <2>1, QuietStep
      DEF configVars, countVars, PoolInv, PoolTypeOK, ThreadInv, Owning, Resting
  <1> QED
    BY <1>1, <1>2

-----------------------------------------------------------------------------
(* Administration.                                                         *)

\* Idle connections are closed and leave the count, or (Shutdown()) the count
\* stays; no call moves.
LEMMA ClosedIdle ==
    ASSUME PoolInv, NEW k \in 0 .. available,
           available' = available - k,
           total_connections' = Decremented(total_connections, k),
           UNCHANGED <<shutdown_flag, acquire_mode, cached, callVars>>,
           max_connections' \in Limits,
           available' > 0 => total_connections' <= max_connections',
           notifiers' \in SUBSET ({"admin", "reaper"} \cup Threads)
    PROVE  PoolInv'
  <1>1. total_connections' = total_connections - k
    BY CountCovers, CountTypes DEF PoolInv
  <1>2. available' \in Nat /\ total_connections' \in Nat
    BY <1>1, CountCovers, CountTypes DEF PoolInv
  <1>3. PoolTypeOK' /\ ThreadInv'
    BY <1>2 DEF PoolInv, PoolTypeOK, ThreadInv, callVars
  <1>4. Owners' = Owners
    BY DEF Owners, callVars
  <1>5. Accounting'
    BY <1>1, <1>4, CountTypes DEF PoolInv, Accounting, IdleWithinLimit
  <1>6. IdleWithinLimit'
    BY CountTypes DEF PoolInv, IdleWithinLimit
  <1> QED
    BY <1>3, <1>5, <1>6 DEF PoolInv

LEMMA EvictedFacts ==
    ASSUME PoolInv, NEW new_max \in Limits
    PROVE  /\ Evicted(new_max) \in 0 .. available
           /\ available - Evicted(new_max) > 0 =>
                 Decremented(total_connections, Evicted(new_max)) <= new_max
  <1>1. new_max \in Nat /\ available \in Nat /\ total_connections \in Nat
    BY LimitsAssumption, CountTypes DEF PoolInv
  <1> QED
    BY <1>1 DEF Evicted, Decremented

LEMMA AdminStepInv ==
    ASSUME PoolInv, AdminStep
    PROVE  PoolInv'
  <1>1. ASSUME NEW mode \in Modes, SetAcquireMode(mode)
        PROVE  PoolInv'
    BY <1>1, QuietStep DEF SetAcquireMode, countVars, callVars, PoolInv, PoolTypeOK, ThreadInv
  <1>2. ASSUME NEW new_max \in Limits, SetMaxConnections(new_max)
        PROVE  PoolInv'
    <2>1. notifiers' \in SUBSET ({"admin", "reaper"} \cup Threads)
      BY <1>2 DEF SetMaxConnections, PoolInv, PoolTypeOK
    <2> QED
      BY <1>2, <2>1, EvictedFacts, ClosedIdle DEF SetMaxConnections
  <1>3. CASE Reap
    <2>1. PICK k \in 1 .. available : /\ available' = available - k
                                     /\ total_connections' = Decremented(total_connections, k)
      BY <1>3 DEF Reap
    <2>2. k \in 0 .. available /\ total_connections' <= total_connections
      BY <2>1, CountTypes, CountCovers DEF PoolInv
    <2>3. notifiers' \in SUBSET ({"admin", "reaper"} \cup Threads)
      BY <1>3 DEF Reap, PoolInv, PoolTypeOK
    <2>4. UNCHANGED <<configVars, cached, callVars>>
      BY <1>3 DEF Reap
    <2>5. available' > 0 => total_connections' <= max_connections
      BY <2>1, <2>2, CountTypes, CountCovers DEF PoolInv, IdleWithinLimit
    <2> QED
      BY <2>1, <2>2, <2>3, <2>4, <2>5, ClosedIdle DEF configVars, PoolInv, PoolTypeOK
  <1>4. CASE Shutdown
    <2>1. PoolTypeOK' /\ ThreadInv' /\ IdleWithinLimit'
      BY <1>4 DEF Shutdown, callVars, PoolInv, PoolTypeOK, ThreadInv, IdleWithinLimit
    <2>2. Owners' = Owners
      BY <1>4 DEF Shutdown, callVars, Owners
    <2>3. Accounting'
      BY <1>4, <2>2, CountTypes DEF Shutdown, PoolInv, Accounting
    <2> QED
      BY <2>1, <2>3 DEF PoolInv
  <1> QED
    BY <1>1, <1>2, <1>3, <1>4 DEF AdminStep

LEMMA NotifyAllInv ==
    ASSUME PoolInv, NEW who, NotifyAll(who)
    PROVE  PoolInv'
  <1>1. /\ UNCHANGED <<configVars, countVars, op, thread>> /\ notifiers' = notifiers \ {who}
        /\ pc' \in [Handles -> Locations]
        /\ \A g \in Handles : pc'[g] = IF pc[g] = "asleep" THEN "awake" ELSE pc[g]
    BY DEF NotifyAll, PoolInv, PoolTypeOK, Locations
  <1> QED
    BY <1>1, QuietStep DEF configVars, countVars, PoolInv, PoolTypeOK, ThreadInv, Owning, Resting

LEMMA PoolStepInv == PoolInv /\ [Next]_vars => PoolInv'
  <1> SUFFICES ASSUME PoolInv, [Next]_vars PROVE PoolInv'
    OBVIOUS
  <1>1. CASE UNCHANGED vars
    BY <1>1, QuietStep
    DEF vars, configVars, countVars, callVars, PoolInv, PoolTypeOK, ThreadInv
  <1>2. ASSUME NEW h \in Handles, CallStep(h) PROVE PoolInv'
    BY <1>2, QuietCallInv, ClosingCallInv, PutInv, ScanInv, CheckedInv, ThreadLocalInv
    DEF CallStep
  <1> QED
    BY <1>1, <1>2, UserStepInv, ThreadStepInv, AdminStepInv, NotifyAllInv DEF Next

(***************************************************************************)
(* The pool's state is typed, for any handles, threads, modes and limits.  *)
(***************************************************************************)
THEOREM PoolTypes == Spec => []PoolTypeOK
  <1>1. PoolInv => PoolTypeOK
    BY DEF PoolInv
  <1> QED
    BY <1>1, PoolInitInv, PoolStepInv, PTL DEF Spec

(***************************************************************************)
(* total_connections is exact until Shutdown() and an upper bound after    *)
(* it: no path of the acquires, the returns, the thread-local caches, the  *)
(* reaper or the evictions loses or repeats a decrement.                   *)
(***************************************************************************)
THEOREM PoolAccounting == Spec => []Accounting
  <1>1. PoolInv => Accounting
    BY DEF PoolInv
  <1> QED
    BY <1>1, PoolInitInv, PoolStepInv, PTL DEF Spec

(***************************************************************************)
(* Nothing idle is kept above max_connections or after Shutdown().         *)
(***************************************************************************)
THEOREM PoolLimit == Spec => []IdleWithinLimit
  <1>1. PoolInv => IdleWithinLimit
    BY DEF PoolInv
  <1> QED
    BY <1>1, PoolInitInv, PoolStepInv, PTL DEF Spec

-----------------------------------------------------------------------------
(***************************************************************************)
(* No wakeup is lost.  That somebody is awake is not inductive: an awake   *)
(* waiter takes one connection and goes, and another one may still be      *)
(* free.  What is kept is that the wakeups on their way are as many as the *)
(* connections and slots that are free.                                    *)
(***************************************************************************)
Waking == {"awake", "notify", "cleared"}
Wakers == {h \in Handles : pc[h] \in Waking}

WakeInv ==
    /\ cached = {} /\ notifiers \subseteq {"admin", "reaper"}
    /\ shutdown_flag /\ Sleeping # {} => "admin" \in notifiers
    /\ Sleeping # {} => notifiers # {} \/ Cardinality(Wakers) >= Free

LEMMA WakerTypes ==
    ASSUME PoolTypeOK
    PROVE  IsFiniteSet(Wakers) /\ Cardinality(Wakers) \in Nat /\ Free \in Nat
  <1>1. Wakers \subseteq Handles
    BY DEF Wakers
  <1>2. IsFiniteSet(Wakers) /\ Cardinality(Wakers) \in Nat
    BY <1>1, FS_Subset, FS_CardinalityType, HandlesAssumption
  <1> QED
    BY <1>2, CountTypes DEF Free

\* What a step adds to the wakeups that are on their way when it moves h.
Awoken(h) == (IF pc'[h] \in Waking THEN 1 ELSE 0) - (IF pc[h] \in Waking THEN 1 ELSE 0)

LEMMA WakersMove ==
    ASSUME PoolTypeOK, NEW h \in Handles,
           \A g \in Handles : g # h => (pc'[g] \in Waking <=> pc[g] \in Waking)
    PROVE  Cardinality(Wakers)' = Cardinality(Wakers) + Awoken(h)
  <1>1. CASE pc[h] \in Waking <=> pc'[h] \in Waking
    <2>1. Wakers' = Wakers
      BY <1>1 DEF Wakers
    <2> QED
      BY <1>1, <2>1, WakerTypes DEF Awoken
  <1>2. CASE pc[h] \in Waking /\ pc'[h] \notin Waking
    <2>1. Wakers' = Wakers \ {h} /\ h \in Wakers
      BY <1>2 DEF Wakers
    <2>2. Cardinality(Wakers \ {h}) = Cardinality(Wakers) - 1
      BY <2>1, WakerTypes, FS_RemoveElement
    <2> QED
      BY <1>2, <2>1, <2>2, WakerTypes DEF Awoken
  <1>3. CASE pc[h] \notin Waking /\ pc'[h] \in Waking
    <2>1. Wakers' = Wakers \cup {h} /\ h \notin Wakers
      BY <1>3 DEF Wakers
    <2>2. Cardinality(Wakers \cup {h}) = Cardinality(Wakers) + 1
      BY <2>1, WakerTypes, FS_AddElement
    <2> QED
      BY <1>3, <2>1, <2>2, WakerTypes DEF Awoken
  <1> QED
    BY <1>1, <1>2, <1>3

\* A notify_one() that leaves somebody asleep has woken somebody.
LEMMA WakersNotify ==
    ASSUME PoolTypeOK, NEW h \in Handles, NEW to \in Locations \ Waking, to # "asleep",
           pc[h] # "asleep", NotifyOne(h, to), Sleeping' # {}
    PROVE  /\ Cardinality(Wakers)' = Cardinality(Wakers) + 1 + Awoken(h)
           /\ Sleeping # {}
  <1>1. Sleeping # {}
    BY DEF NotifyOne, Sleeping, PoolTypeOK
  <1>2. PICK w \in Sleeping : pc' = [pc EXCEPT ![h] = to, ![w] = "awake"]
    BY <1>1 DEF NotifyOne
  <1>3. w \in Handles /\ pc[w] = "asleep" /\ w # h
    BY DEF Sleeping
  <1>4. pc'[h] = to /\ pc'[w] = "awake" /\ \A g \in Handles \ {h, w} : pc'[g] = pc[g]
    BY <1>2, <1>3 DEF PoolTypeOK
  <1>5. CASE pc[h] \in Waking
    <2>1. Wakers' = (Wakers \ {h}) \cup {w} /\ h \in Wakers /\ w \notin Wakers
      BY <1>3, <1>4, <1>5 DEF Wakers, Waking
    <2>2. /\ Cardinality(Wakers \ {h}) = Cardinality(Wakers) - 1 /\ IsFiniteSet(Wakers \ {h})
          /\ Cardinality((Wakers \ {h}) \cup {w}) = Cardinality(Wakers \ {h}) + 1
      BY <2>1, WakerTypes, FS_RemoveElement, FS_AddElement
    <2> QED
      BY <1>1, <1>4, <1>5, <2>1, <2>2, WakerTypes DEF Awoken
  <1>6. CASE pc[h] \notin Waking
    <2>1. Wakers' = Wakers \cup {w} /\ w \notin Wakers
      BY <1>3, <1>4, <1>6 DEF Wakers, Waking
    <2>2. Cardinality(Wakers \cup {w}) = Cardinality(Wakers) + 1
      BY <2>1, WakerTypes, FS_AddElement
    <2> QED
      BY <1>1, <1>4, <1>6, <2>1, <2>2, WakerTypes DEF Awoken
  <1> QED
    BY <1>5, <1>6

LEMMA NextFreeType ==
    ASSUME PoolTypeOK'
    PROVE  Free' \in Nat
  <1>1. available' \in Nat /\ total_connections' \in Nat /\ max_connections' \in Nat
    BY LimitsAssumption DEF PoolTypeOK
  <1>2. \A a, t, m \in Nat : a + (IF t < m THEN m - t ELSE 0) \in Nat
    OBVIOUS
  <1> QED
    BY <1>1, <1>2 DEF Free

\* A step that notifies nobody at once: it must not free more than it wakes, or
\* must leave nothing free, unless the pool is shut down and everybody is called.
LEMMA WakeStep ==
    ASSUME PoolInv, WakeInv, PoolTypeOK', UNCHANGED <<cached, notifiers, shutdown_flag>>,
           Sleeping' # {} =>
             \/ shutdown_flag /\ Sleeping # {}
             \/ ~shutdown_flag /\ Free' = 0
             \/ Sleeping # {} /\ Cardinality(Wakers)' - Cardinality(Wakers) >= Free' - Free
    PROVE  WakeInv'
  <1>1. /\ Cardinality(Wakers) \in Nat /\ Free \in Nat
        /\ Cardinality(Wakers)' \in Nat /\ Free' \in Nat
    <2>1. Wakers' \subseteq Handles
      BY DEF Wakers
    <2>2. Cardinality(Wakers)' \in Nat
      BY <2>1, FS_Subset, FS_CardinalityType, HandlesAssumption
    <2>3. Free' \in Nat
      BY NextFreeType
    <2> QED
      BY <2>2, <2>3, WakerTypes DEF PoolInv
  <1>2. shutdown_flag' /\ Sleeping' # {} => "admin" \in notifiers'
    BY DEF WakeInv
  <1>3. Sleeping' # {} => notifiers' # {} \/ Cardinality(Wakers)' >= Free'
    <2>1. CASE notifiers # {}
      BY <2>1
    <2>2. CASE notifiers = {}
      BY <1>1, <2>2 DEF WakeInv
    <2> QED
      BY <2>1, <2>2
  <1> QED
    BY <1>2, <1>3 DEF WakeInv

\* Steps that move h alone and free nothing.
LEMMA QuietWake ==
    ASSUME PoolInv, WakeInv, PoolTypeOK', NEW h \in Handles,
           UNCHANGED <<configVars, countVars, notifiers>>,
           \A g \in Handles : g # h => pc'[g] = pc[g],
           pc[h] \in Waking => pc'[h] \in Waking, pc'[h] # "asleep"
    PROVE  WakeInv'
  <1>1. Free' = Free
    BY DEF configVars, countVars, Free
  <1>2. Cardinality(Wakers)' = Cardinality(Wakers) + Awoken(h)
    BY WakersMove DEF PoolInv
  <1>3. Awoken(h) \in {0, 1}
    BY DEF Awoken
  <1>4. Sleeping' # {} => Sleeping # {}
    BY DEF Sleeping
  <1>5. /\ Cardinality(Wakers) \in Nat /\ Free \in Nat
    BY WakerTypes DEF PoolInv
  <1>6. Cardinality(Wakers)' - Cardinality(Wakers) >= Free' - Free
    BY <1>1, <1>2, <1>3, <1>5
  <1> QED
    BY <1>4, <1>6, WakeStep DEF configVars, countVars

LEMMA UserStepWake ==
    ASSUME PoolInv, WakeInv, NEW h \in Handles, UserStep(h)
    PROVE  WakeInv'
  <1>1. PoolTypeOK'
    BY UserStepInv DEF PoolInv
  <1>2. /\ UNCHANGED <<configVars, countVars, notifiers>>
        /\ pc[h] \notin Waking /\ pc'[h] # "asleep"
        /\ \A g \in Handles : g # h => pc'[g] = pc[g]
    BY DEF UserStep, Acquire, ReturnToPool, ReleaseUnmanaged, Call, Goto, PoolInv, PoolTypeOK,
       Waking
  <1> QED
    BY <1>1, <1>2, QuietWake

LEMMA QuietCallWake ==
    ASSUME PoolInv, WakeInv, NEW h \in Handles,
           CheckDisabled(h) \/ ForceEnter(h) \/ Created(h) \/ OpenUnmanaged(h)
    PROVE  WakeInv'
  <1>1. PoolTypeOK'
    BY QuietCallInv DEF PoolInv
  <1>2. /\ UNCHANGED <<configVars, countVars, notifiers>>
        /\ pc[h] \notin Waking /\ pc'[h] # "asleep"
        /\ \A g \in Handles : g # h => pc'[g] = pc[g]
    BY DEF CheckDisabled, ForceEnter, Created, OpenUnmanaged, Finish, Goto, PoolInv, PoolTypeOK,
       Waking
  <1> QED
    BY <1>1, <1>2, QuietWake

\* An owned connection is in the count besides the idle ones.
LEMMA OwnedIsCounted ==
    ASSUME PoolInv, NEW h \in Handles, pc[h] \in Owning
    PROVE  /\ total_connections >= available + 1
           /\ Decremented(total_connections, 1) = total_connections - 1
  <1>1. h \in Owners
    BY DEF Owners
  <1>2. Cardinality(Owners) # 0
    BY <1>1, CountTypes, FS_EmptySet DEF PoolInv
  <1>3. total_connections >= available + 1
    BY <1>2, CountCovers, CountTypes DEF PoolInv
  <1> QED
    BY <1>3, CountCovers, CountTypes DEF PoolInv

\* One idle connection more, or one slot: at most one more is free.
LEMMA FreeGains ==
    ASSUME PoolInv, UNCHANGED max_connections,
           \/ available' = available + 1 /\ total_connections' = total_connections
           \/ available' = available /\ total_connections' = total_connections - 1
    PROVE  /\ Free' <= Free + 1
           /\ available' = available /\ total_connections > max_connections => Free' = 0
  <1>1. available > 0 => total_connections <= max_connections
    BY DEF PoolInv, IdleWithinLimit
  <1> QED
    BY <1>1, CountTypes DEF PoolInv, Free

\* notify_one(): what the step frees, it passes on.
LEMMA NotifyWake ==
    ASSUME PoolInv, WakeInv, NEW h \in Handles, Notify(h) \/ NotifyCleared(h) \/ CreateFails(h)
    PROVE  WakeInv'
  <1>1. PoolTypeOK'
    BY QuietCallInv, ClosingCallInv DEF PoolInv
  <1>2. PICK to \in {"empty", "enter"} : NotifyOne(h, to)
    BY DEF Notify, NotifyCleared, CreateFails
  <1>3. /\ UNCHANGED <<cached, notifiers, shutdown_flag, max_connections>>
        /\ pc[h] # "asleep" /\ to \in Locations \ Waking /\ to # "asleep"
    BY DEF Notify, NotifyCleared, CreateFails, configVars, countVars, Locations, Resting, Waking
  <1>4. pc'[h] = to
    BY <1>2, <1>3, NotifyOneFacts DEF PoolInv
  <1> SUFFICES ASSUME Sleeping' # {}
               PROVE  /\ Sleeping # {}
                      /\ Cardinality(Wakers)' - Cardinality(Wakers) >= Free' - Free
    BY <1>1, <1>3, WakeStep
  <1>5. Sleeping # {} /\ Cardinality(Wakers)' = Cardinality(Wakers) + 1 + Awoken(h)
    BY <1>2, <1>3, WakersNotify DEF PoolInv
  <1>6. Cardinality(Wakers) \in Nat /\ Free \in Nat
    BY WakerTypes DEF PoolInv
  <1>7. CASE Notify(h) \/ NotifyCleared(h)
    <2>1. Free' = Free
      BY <1>7 DEF Notify, NotifyCleared, configVars, countVars, Free
    <2>2. Awoken(h) = -1
      BY <1>3, <1>4, <1>7 DEF Notify, NotifyCleared, Awoken, Waking
    <2> QED
      BY <1>5, <1>6, <2>1, <2>2
  <1>8. CASE CreateFails(h)
    <2>1. Awoken(h) = 0
      BY <1>3, <1>4, <1>8 DEF CreateFails, Awoken, Waking
    <2>2. available' = available /\ total_connections' = total_connections - 1
      <3>1. pc[h] \in Owning
        BY <1>8 DEF CreateFails, Owning
      <3> QED
        BY <1>8, <3>1, OwnedIsCounted DEF CreateFails
    <2>3. Free' <= Free + 1 /\ Free' \in Nat
      BY <1>1, <1>3, <2>2, FreeGains, NextFreeType
    <2> QED
      BY <1>5, <1>6, <2>1, <2>3
  <1> QED
    BY <1>7, <1>8

\* Discard() and the end of Return() free one connection and owe one notify,
\* unless the pool is above its limit or shut down.
LEMMA ReturnWake ==
    ASSUME PoolInv, WakeInv, NEW h \in Handles, Discard(h) \/ Put(h)
    PROVE  WakeInv'
  <1>1. PoolTypeOK'
    BY ClosingCallInv, PutInv DEF PoolInv
  <1>2. /\ UNCHANGED <<cached, notifiers, shutdown_flag, max_connections>>
        /\ pc[h] \in Owning /\ pc[h] \notin Waking /\ pc'[h] # "asleep"
        /\ \A g \in Handles : g # h => pc'[g] = pc[g]
    BY DEF Discard, Put, Finish, Goto, configVars, PoolInv, PoolTypeOK, Owning, Waking
  <1>3. Decremented(total_connections, 1) = total_connections - 1
    BY <1>2, OwnedIsCounted
  <1>4. Sleeping' # {} => Sleeping # {}
    BY <1>2 DEF Sleeping
  <1>5. Cardinality(Wakers)' = Cardinality(Wakers) + Awoken(h)
    BY <1>2, WakersMove DEF PoolInv
  <1>6. Cardinality(Wakers) \in Nat /\ Free \in Nat /\ Free' \in Nat
    BY <1>1, WakerTypes, NextFreeType DEF PoolInv
  <1>7. CASE pc'[h] = "notify"
    <2>1. \/ available' = available + 1 /\ total_connections' = total_connections
          \/ available' = available /\ total_connections' = total_connections - 1
      BY <1>3, <1>7 DEF Discard, Put, Finish, PoolInv, PoolTypeOK
    <2>2. Free' <= Free + 1
      BY <1>2, <2>1, FreeGains
    <2>3. Awoken(h) = 1
      BY <1>2, <1>7 DEF Awoken, Waking
    <2>4. Cardinality(Wakers)' - Cardinality(Wakers) >= Free' - Free
      BY <1>5, <1>6, <2>2, <2>3
    <2> QED
      BY <1>1, <1>2, <1>4, <2>4, WakeStep
  <1>8. CASE pc'[h] # "notify"
    <2>1. /\ shutdown_flag \/ total_connections > max_connections
          /\ available' = available /\ total_connections' = total_connections - 1
      BY <1>3, <1>8 DEF Discard, Put, Goto, PoolInv, PoolTypeOK
    <2>2. ~shutdown_flag => Free' = 0
      BY <1>2, <2>1, FreeGains
    <2> QED
      BY <1>1, <1>2, <1>4, <2>2, WakeStep
  <1> QED
    BY <1>7, <1>8

\* The loop over the idle connections takes one of those that are free, or
\* leaves nothing free.
LEMMA LoopFree ==
    ASSUME PoolInv, NEW h \in Handles, NEW total \in Nat, available <= total,
           total <= total_connections, TakeOrCreate(h, available, total),
           UNCHANGED max_connections
    PROVE  \/ Free' = 0
           \/ /\ pc'[h] \in {"check", "create"}
              /\ Free' + 1 <= available + (IF total < max_connections
                                             THEN max_connections - total ELSE 0)
  <1>1. available \in Nat /\ total_connections \in Nat /\ max_connections \in Nat
    BY CountTypes DEF PoolInv
  <1>2. available > 0 => total <= max_connections
    BY <1>1 DEF PoolInv, IdleWithinLimit
  <1>3. ASSUME NEW expired \in 0 .. available - 1,
               available' = available - expired - 1,
               total_connections' = Decremented(total, expired),
               pc' = [pc EXCEPT ![h] = "check"]
        PROVE  /\ pc'[h] \in {"check", "create"}
               /\ Free' + 1 <= available + (IF total < max_connections
                                              THEN max_connections - total ELSE 0)
    <2>1. total_connections' = total - expired
      BY <1>1, <1>3 DEF Decremented
    <2>2. pc'[h] \in {"check", "create"}
      BY <1>3 DEF PoolInv, PoolTypeOK
    <2>3. Free' + 1 <= available + (IF total < max_connections
                                      THEN max_connections - total ELSE 0)
      BY <1>1, <1>2, <1>3, <2>1 DEF Free
    <2> QED
      BY <2>2, <2>3
  <1>4. Decremented(total, available) = total - available
    BY <1>1 DEF Decremented
  <1>5. ASSUME available' = 0, total_connections' = total - available + 1,
               pc' = [pc EXCEPT ![h] = "create"]
        PROVE  \/ Free' = 0
               \/ /\ pc'[h] \in {"check", "create"}
                  /\ Free' + 1 <= available + (IF total < max_connections
                                                 THEN max_connections - total ELSE 0)
    <2>1. pc'[h] \in {"check", "create"}
      BY <1>5 DEF PoolInv, PoolTypeOK
    <2>2. Free' = 0 \/ Free' + 1 <= available + (IF total < max_connections
                                                   THEN max_connections - total ELSE 0)
      BY <1>1, <1>2, <1>5 DEF Free
    <2> QED
      BY <2>1, <2>2
  <1>6. ASSUME available' = 0, total_connections' = total - available,
               ~(total - available < max_connections)
        PROVE  Free' = 0
    BY <1>1, <1>6 DEF Free
  <1> QED
    BY <1>3, <1>4, <1>5, <1>6 DEF TakeOrCreate

LEMMA ScanWake ==
    ASSUME PoolInv, WakeInv, NEW h \in Handles, Scan(h)
    PROVE  WakeInv'
  <1>1. PoolTypeOK'
    BY ScanInv DEF PoolInv
  <1>2. /\ UNCHANGED <<cached, notifiers, shutdown_flag, max_connections>>
        /\ \A g \in Handles : g # h => pc'[g] = pc[g]
    BY DEF Scan, TakeOrCreate, Finish, configVars, PoolInv, PoolTypeOK
  <1>3. pc'[h] # "asleep" => (Sleeping' # {} => Sleeping # {})
    BY <1>2 DEF Sleeping
  <1>4. CASE shutdown_flag
    <2>1. pc'[h] = "empty"
      BY <1>4 DEF Scan, Finish, PoolInv, PoolTypeOK
    <2> QED
      BY <1>1, <1>2, <1>3, <1>4, <2>1, WakeStep
  <1>5. CASE ~shutdown_flag
    <2>1. TakeOrCreate(h, available, total_connections)
      BY <1>5 DEF Scan
    <2>2. /\ available \in Nat /\ total_connections \in Nat
          /\ available <= total_connections
      BY CountTypes, CountCovers DEF PoolInv
    <2>3. \/ Free' = 0
          \/ pc'[h] \in {"check", "create"} /\ Free' + 1 <= Free
      BY <1>2, <2>1, <2>2, LoopFree DEF Free
    <2>4. CASE Free' = 0
      BY <1>1, <1>2, <1>5, <2>4, WakeStep
    <2>5. CASE pc'[h] \in {"check", "create"} /\ Free' + 1 <= Free
      <3>1. Cardinality(Wakers)' = Cardinality(Wakers) + Awoken(h)
        BY <1>2, WakersMove DEF PoolInv
      <3>2. Awoken(h) \in {0, -1} /\ Free' + 1 <= Free
        BY <2>5 DEF Awoken, Waking
      <3>3. Cardinality(Wakers) \in Nat /\ Free \in Nat /\ Free' \in Nat
        BY <1>1, WakerTypes, NextFreeType DEF PoolInv
      <3>4. Cardinality(Wakers)' - Cardinality(Wakers) >= Free' - Free
        <4>1. \A n, f, g \in Nat : \A a \in {0, -1} : g + 1 <= f => (n + a) - n >= g - f
          OBVIOUS
        <4> QED
          BY <3>1, <3>2, <3>3, <4>1
      <3> QED
        BY <1>1, <1>2, <1>3, <2>5, <3>4, WakeStep
    <2> QED
      BY <2>3, <2>4, <2>5
  <1> QED
    BY <1>4, <1>5

LEMMA CheckedWake ==
    ASSUME PoolInv, WakeInv, NEW h \in Handles, Checked(h)
    PROVE  WakeInv'
  <1>1. PoolTypeOK'
    BY CheckedInv DEF PoolInv
  <1>2. /\ UNCHANGED <<cached, notifiers, shutdown_flag, max_connections>>
        /\ pc[h] = "check" /\ pc[h] \in Owning
        /\ \A g \in Handles : g # h => pc'[g] = pc[g]
    BY DEF Checked, TakeOrCreate, Finish, configVars, PoolInv, PoolTypeOK, Owning
  <1>3. pc'[h] # "asleep" => (Sleeping' # {} => Sleeping # {})
    BY <1>2 DEF Sleeping
  <1>4. CASE shutdown_flag
    <2>1. pc'[h] = "empty"
      BY <1>4 DEF Checked, Finish, PoolInv, PoolTypeOK
    <2> QED
      BY <1>1, <1>2, <1>3, <1>4, <2>1, WakeStep
  <1>5. CASE Finish(h, "held") /\ UNCHANGED <<available, total_connections>>
    <2>1. pc'[h] = "held" /\ pc[h] \notin Waking
      BY <1>2, <1>5 DEF Finish, PoolInv, PoolTypeOK, Waking
    <2> QED
      BY <1>1, <1>2, <1>5, <2>1, QuietWake DEF Checked, configVars, countVars
  <1>6. CASE ~shutdown_flag /\ TakeOrCreate(h, available, Decremented(total_connections, 1))
    <2>1. /\ total_connections >= available + 1
          /\ Decremented(total_connections, 1) = total_connections - 1
          /\ available \in Nat /\ total_connections \in Nat /\ max_connections \in Nat
      BY <1>2, OwnedIsCounted, CountTypes DEF PoolInv
    <2>2. PICK total \in Nat : total = total_connections - 1
      BY <2>1
    <2>3. TakeOrCreate(h, available, total) /\ available <= total /\ total <= total_connections
      BY <1>6, <2>1, <2>2
    <2>4. \/ Free' = 0
          \/ /\ pc'[h] \in {"check", "create"}
             /\ Free' + 1 <= available + (IF total < max_connections
                                            THEN max_connections - total ELSE 0)
      BY <1>2, <2>3, LoopFree
    <2>5. CASE Free' = 0
      BY <1>1, <1>2, <1>6, <2>5, WakeStep
    <2>6. CASE /\ pc'[h] \in {"check", "create"}
               /\ Free' + 1 <= available + (IF total < max_connections
                                              THEN max_connections - total ELSE 0)
      <3>1. Cardinality(Wakers)' = Cardinality(Wakers) + Awoken(h)
        BY <1>2, WakersMove DEF PoolInv
      <3>2. Awoken(h) = 0
        BY <1>2, <2>6 DEF Awoken, Waking
      <3>3. Cardinality(Wakers) \in Nat /\ Free' \in Nat
        BY <1>1, WakerTypes, NextFreeType DEF PoolInv
      <3>4. Free' <= Free /\ Free \in Nat
        BY <2>1, <2>2, <2>6, <3>3 DEF Free
      <3>5. Cardinality(Wakers)' - Cardinality(Wakers) >= Free' - Free
        BY <3>1, <3>2, <3>3, <3>4
      <3> QED
        BY <1>1, <1>2, <1>3, <2>6, <3>5, WakeStep
    <2> QED
      BY <2>4, <2>5, <2>6
  <1> QED
    BY <1>4, <1>5, <1>6 DEF Checked

\* With the thread-local cache off, a cache is never filled and never used.
LEMMA ThreadLocalWake ==
    ASSUME PoolInv, WakeInv, NEW h \in Handles, ~TLCacheEnabled,
           TryAcquireFromThreadLocal(h) \/ ClearThreadLocal(h) \/ TryReturnToThreadLocal(h)
    PROVE  WakeInv'
  <1>1. cached = {}
    BY DEF WakeInv
  <1>2. \/ TryAcquireFromThreadLocal(h) /\ Goto(h, "local", "enter")
        \/ TryReturnToThreadLocal(h) /\ Goto(h, "return", "put")
    BY <1>1 DEF TryAcquireFromThreadLocal, ClearThreadLocal, TryReturnToThreadLocal
  <1>3. UNCHANGED <<configVars, countVars, notifiers>>
    BY <1>1 DEF TryAcquireFromThreadLocal, ClearThreadLocal, TryReturnToThreadLocal, countVars
  <1>4. /\ pc[h] \notin Waking /\ pc'[h] # "asleep"
        /\ \A g \in Handles : g # h => pc'[g] = pc[g]
    BY <1>2 DEF Goto, PoolInv, PoolTypeOK, Waking
  <1>5. PoolTypeOK'
    BY ThreadLocalInv DEF PoolInv
  <1> QED
    BY <1>3, <1>4, <1>5, QuietWake

\* The administration and the reaper call everybody.
LEMMA AdminStepWake ==
    ASSUME PoolInv, WakeInv, AdminStep
    PROVE  WakeInv'
  <1>1. CASE \E mode \in Modes : SetAcquireMode(mode)
    <2>1. UNCHANGED <<max_connections, shutdown_flag, countVars, callVars, notifiers>>
      BY <1>1 DEF SetAcquireMode
    <2>2. Free' = Free /\ Sleeping' = Sleeping /\ Wakers' = Wakers
      BY <2>1 DEF countVars, callVars, Free, Sleeping, Wakers
    <2> QED
      BY <2>1, <2>2 DEF WakeInv, countVars
  <1>2. CASE (\E new_max \in Limits : SetMaxConnections(new_max)) \/ Reap
    <2>1. /\ UNCHANGED <<cached, shutdown_flag, callVars>>
          /\ notifiers' = notifiers \cup {"admin"} \/ notifiers' = notifiers \cup {"reaper"}
      BY <1>2 DEF SetMaxConnections, Reap, configVars
    <2>2. Sleeping' = Sleeping
      BY <2>1 DEF Sleeping, callVars
    <2> QED
      BY <2>1, <2>2 DEF WakeInv
  <1>3. CASE Shutdown
    BY <1>3 DEF Shutdown, WakeInv
  <1> QED
    BY <1>1, <1>2, <1>3 DEF AdminStep

LEMMA NotifyAllWake ==
    ASSUME PoolInv, WakeInv, NEW who, NotifyAll(who)
    PROVE  WakeInv'
  <1>1. Sleeping' = {}
    BY DEF NotifyAll, Sleeping
  <1> QED
    BY <1>1 DEF NotifyAll, WakeInv, countVars

LEMMA WakeStepInv ==
    ASSUME ~TLCacheEnabled, ~DeadlinePasses, PoolInv, WakeInv, [Next]_vars
    PROVE  WakeInv'
  <1>1. CASE UNCHANGED vars
    <2>1. Free' = Free /\ Sleeping' = Sleeping /\ Wakers' = Wakers
      BY <1>1 DEF vars, configVars, countVars, callVars, Free, Sleeping, Wakers
    <2> QED
      BY <1>1, <2>1 DEF WakeInv, vars, configVars, countVars
  <1>2. ASSUME NEW h \in Handles, CallStep(h) PROVE WakeInv'
    <2>1. ~TimeOut(h)
      BY DEF TimeOut
    <2> QED
      BY <1>2, <2>1, QuietCallWake, NotifyWake, ReturnWake, ScanWake, CheckedWake,
         ThreadLocalWake DEF CallStep
  <1>3. ASSUME NEW t \in Threads PROVE ~ThreadExit(t) /\ ~NotifyExit(t)
    BY ThreadsAssumption DEF WakeInv, ThreadExit, NotifyExit
  <1> QED
    BY <1>1, <1>2, <1>3, UserStepWake, AdminStepWake, NotifyAllWake DEF Next

LEMMA WakeImplies == PoolInv /\ WakeInv => NoLostWakeup
  <1> SUFFICES ASSUME PoolInv, WakeInv, Sleeping # {}, Free > 0 \/ shutdown_flag,
                      notifiers = {}
               PROVE  \E h \in Handles : pc[h] \in {"awake", "notify", "cleared"}
    BY DEF NoLostWakeup
  <1>1. Free > 0 /\ Cardinality(Wakers) >= Free
    BY DEF WakeInv
  <1>2. Cardinality(Wakers) # 0
    BY <1>1, WakerTypes DEF PoolInv
  <1>3. Wakers # {}
    BY <1>2, FS_EmptySet
  <1> QED
    BY <1>3 DEF Wakers, Waking

(***************************************************************************)
(* With the thread-local cache off, as the extension leaves it, no         *)
(* interleaving of Return(), Discard(), the failure paths of the acquires, *)
(* SetMaxConnections(), the reaper and Shutdown() leaves a waiter asleep   *)
(* beside a connection it could have, until a deadline passes.             *)
(***************************************************************************)
THEOREM NoWakeupIsLost ==
    ASSUME ~TLCacheEnabled, ~DeadlinePasses
    PROVE  Spec => []NoLostWakeup
  <1>1. Init => WakeInv
    <2>1. Init => Sleeping = {}
      BY DEF Init, Sleeping
    <2> QED
      BY <2>1 DEF Init, WakeInv
  <1>2. PoolInv /\ WakeInv /\ [Next]_vars => PoolInv' /\ WakeInv'
    BY PoolStepInv, WakeStepInv
  <1>3. Init => PoolInv /\ WakeInv
    BY <1>1, PoolInitInv
  <1> QED
    BY <1>2, <1>3, WakeImplies, PTL DEF Spec
=============================================================================
