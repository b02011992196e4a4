--------------------------- MODULE RenderProofs -----------------------------
(***************************************************************************)
(* Proofs about RenderQueue, for every number of backbuffers: no           *)
(* backbuffer is shared or lost, the assertions of render_queue.c hold,    *)
(* nothing is pushed on a freed executor, frames are shown in order, and   *)
(* there is a job for every frame that waits.                              *)
(***************************************************************************)
EXTENDS RenderQueue, FiniteSetTheorems, FunctionTheorems, SequenceTheorems, TLAPS

-----------------------------------------------------------------------------
(* The ring.                                                               *)

\* What % does to an index that has run over the end of the ring once.
LEMMA ModLemma ==
  ASSUME NEW M \in Nat \ {0}, NEW x \in Nat, x < 2 * M
  PROVE  x % M = IF x < M THEN x ELSE x - M
<1>1. CASE x < M
  BY <1>1, SMT
<1>2. CASE x >= M
  BY <1>2, SMT
<1> QED BY <1>1, <1>2

\* RENDER_QUEUE_MAX_BACKBUFFERS is a positive number.
LEMMA MaxType == MAX \in Nat \ {0}
BY RenderAssumption DEF MAX

\* ModLemma for the ring.
LEMMA ModMax ==
  \A x \in Nat : x < 2 * MAX => x % MAX = IF x < MAX THEN x ELSE x - MAX
BY ModLemma, MaxType

\* The slot of the i-th place of a queue that begins at slot n.
LEMMA RingLemma ==
  \A n, i \in Index :
    (n + i) % MAX = IF n + i < MAX THEN n + i ELSE n + i - MAX
<1> SUFFICES ASSUME NEW n \in Index, NEW i \in Index
             PROVE  (n + i) % MAX = IF n + i < MAX THEN n + i ELSE n + i - MAX
  OBVIOUS
<1>1. PICK x \in Nat : x = n + i /\ x < 2 * MAX
  BY MaxType DEF Index
<1>2. x % MAX = IF x < MAX THEN x ELSE x - MAX
  BY <1>1, ModMax
<1>3. (n + i) % MAX = x % MAX
  BY <1>1
<1> QED BY <1>1, <1>2, <1>3, MaxType DEF Index

\* Different places in the queue are different slots of the ring.
LEMMA SlotLemma ==
  ASSUME render_queue_next \in Index, NEW i \in Index, NEW j \in Index
  PROVE  Slot(i) \in Index /\ (Slot(i) = Slot(j) => i = j)
<1>1. /\ Slot(i) = IF render_queue_next + i < MAX THEN render_queue_next + i
                   ELSE render_queue_next + i - MAX
      /\ Slot(j) = IF render_queue_next + j < MAX THEN render_queue_next + j
                   ELSE render_queue_next + j - MAX
  BY RingLemma DEF Slot
<1> QED BY <1>1, MaxType DEF Index

\* render_queue_enqueue_for_display() adds its buffer behind the others.
LEMMA EnqueueLemma ==
  ASSUME render_queue_next \in Index, render_queue \in [Index -> Buffers \cup {NULL}],
         NEW n \in 0 .. MAX - 1, render_queue_length = n,
         NEW b, enqueue_for_display(b)
  PROVE  /\ \A i \in 0 .. n - 1 : Queued(i)' = Queued(i)
         /\ Queued(n)' = b
<1>1. n \in Index /\ \A i \in 0 .. n - 1 : i \in Index /\ i # n
  BY MaxType DEF Index
<1>2. \A i \in Index : Slot(i)' = Slot(i)
  BY DEF enqueue_for_display, Slot
<1>3. render_queue' = [render_queue EXCEPT ![Slot(n)] = b]
  BY DEF enqueue_for_display
<1>4. Slot(n) \in Index /\ \A i \in 0 .. n - 1 : Slot(i) \in Index /\ Slot(i) # Slot(n)
  BY <1>1, SlotLemma
<1>5. Queued(n)' = b
  BY <1>1, <1>2, <1>3, <1>4 DEF Queued
<1>6. \A i \in 0 .. n - 1 : Queued(i)' = Queued(i)
  BY <1>1, <1>2, <1>3, <1>4 DEF Queued
<1> QED BY <1>5, <1>6

\* render_queue_dequeue_for_display() takes the first buffer and leaves the
\* others in their order.
LEMMA DequeueLemma ==
  ASSUME render_queue_next \in Index,
         NEW n \in 1 .. MAX, render_queue_length = n,
         NEW b, dequeue_for_display(b)
  PROVE  /\ b = Queued(0)
         /\ render_queue_next' \in Index
         /\ \A i \in 0 .. n - 2 : Queued(i)' = Queued(i + 1)
<1>1. /\ b = render_queue[render_queue_next]
      /\ render_queue_next' = (render_queue_next + 1) % MAX
      /\ render_queue' = render_queue
  BY DEF dequeue_for_display
<1>2. 0 \in Index /\ Slot(0) = render_queue_next
  <2>1. render_queue_next \in Nat /\ render_queue_next < MAX /\ render_queue_next < 2 * MAX
    BY MaxType DEF Index
  <2>2. render_queue_next % MAX = render_queue_next
    BY <2>1, ModMax
  <2>3. render_queue_next + 0 = render_queue_next
    BY <2>1
  <2> QED BY <2>2, <2>3, MaxType DEF Slot, Index
<1>3. render_queue_next' = IF render_queue_next + 1 < MAX THEN render_queue_next + 1
                           ELSE render_queue_next + 1 - MAX
  <2>1. PICK x \in Nat : x = render_queue_next + 1 /\ x < 2 * MAX
    BY MaxType DEF Index
  <2>2. x % MAX = IF x < MAX THEN x ELSE x - MAX
    BY <2>1, ModMax
  <2>3. render_queue_next' = x % MAX
    BY <1>1, <2>1
  <2> QED BY <2>1, <2>2, <2>3, MaxType DEF Index
<1>4. render_queue_next' \in Index
  BY <1>3, MaxType DEF Index
<1>5. \A i \in 0 .. n - 2 : Slot(i)' = Slot(i + 1)
  <2> SUFFICES ASSUME NEW i \in 0 .. n - 2
               PROVE  (render_queue_next' + i) % MAX = (render_queue_next + (i + 1)) % MAX
    BY DEF Slot
  <2>1. i \in Index /\ i + 1 \in Index
    BY MaxType DEF Index
  <2>2. (render_queue_next' + i) % MAX =
          IF render_queue_next' + i < MAX THEN render_queue_next' + i
          ELSE render_queue_next' + i - MAX
    BY <1>4, <2>1, RingLemma
  <2>3. (render_queue_next + (i + 1)) % MAX =
          IF render_queue_next + (i + 1) < MAX THEN render_queue_next + (i + 1)
          ELSE render_queue_next + (i + 1) - MAX
    BY <2>1, RingLemma
  <2> QED BY <1>3, <2>1, <2>2, <2>3, MaxType DEF Index
<1> QED BY <1>1, <1>2, <1>4, <1>5 DEF Queued

-----------------------------------------------------------------------------
(* The backbuffers.                                                        *)

\* The inductive invariant.
BufferInv == TypeOK /\ NotShared /\ NotLost /\ ControlInv /\ NoPushOnFreed

\* Every backbuffer keeps its place when no step moves one.
LEMMA PlacesUnchanged ==
  ASSUME NotShared, NotLost, UNCHANGED <<pool, queue, freed, vbuf, rbuf>>,
         upc' = "ended" => upc = "ended"
  PROVE  NotShared' /\ NotLost'
<1>1. \A i : Queued(i)' = Queued(i)
  BY DEF Queued, Slot, queue
<1>2. InPool' = InPool /\ PoolDistinct'
  BY DEF InPool, PoolDistinct, NotShared, pool
<1>3. InQueue' = InQueue /\ QueueDistinct'
  BY <1>1 DEF InQueue, QueueDistinct, NotShared, queue
<1> QED BY <1>2, <1>3 DEF NotShared, Apart, NotLost

\* render_queue_create() puts every backbuffer into the pool.
LEMMA BufferInit == Init => BufferInv
<1> SUFFICES ASSUME Init PROVE BufferInv
  OBVIOUS
<1> USE MaxType DEF Init, Index, Buffers, NULL
<1>1. TypeOK
  <2>1. jobs \in Seq({"init", "render", "shutdown"})
    OBVIOUS
  <2>2. is_shutdown_initiated \in BOOLEAN /\ render_skip \in BOOLEAN
    OBVIOUS
  <2> QED BY <2>1, <2>2 DEF TypeOK
<1>2. NotShared
  BY DEF NotShared, PoolDistinct, QueueDistinct, Apart, InPool, InQueue
<1>3. NotLost
  BY DEF NotLost, InPool
<1>4. ControlInv /\ NoPushOnFreed
  BY DEF ControlInv, Held, NoPushOnFreed
<1> QED BY <1>1, <1>2, <1>3, <1>4 DEF BufferInv

\* The steps that move no backbuffer.
LEMMA QuietStep ==
  ASSUME BufferInv,
         \/ Draw \/ RefreshPush \/ ViceExits \/ TakeJob \/ RenderPresent
         \/ on_widget_realized \/ FrameClock \/ UpdateBegin \/ UpdateView \/ UpdateEnd
         \/ initiate_shutdown \/ render_thread_join \/ UNCHANGED vars
  PROVE  BufferInv'
<1> USE DEF BufferInv
<1>1. UNCHANGED <<pool, queue, freed, vbuf, rbuf>> /\ (upc' = "ended" => upc = "ended")
  BY DEF Draw, RefreshPush, ViceExits, TakeJob, RenderPresent, on_widget_realized, FrameClock,
     UpdateBegin, UpdateView, UpdateEnd, initiate_shutdown, render_thread_join, vars
<1>2. NotShared' /\ NotLost'
  BY <1>1, PlacesUnchanged
<1>3. CASE Draw
  <2>1. TypeOK'
    BY <1>3 DEF TypeOK, Draw, pool, queue, thread, ControlInv, Buffers
  <2>2. ControlInv' /\ NoPushOnFreed'
    BY <1>3 DEF Draw, ControlInv, NoPushOnFreed, pool, queue, thread, Held
  <2> QED BY <2>1, <2>2, <1>2
<1>4. CASE RefreshPush
  <2>1. TypeOK'
    BY <1>4 DEF TypeOK, RefreshPush, push_job, pool, queue, thread, history
  <2>2. ControlInv' /\ NoPushOnFreed'
    BY <1>4 DEF TypeOK, RefreshPush, push_job, ControlInv, NoPushOnFreed, pool, queue, thread, Held
  <2> QED BY <2>1, <2>2, <1>2
<1>5. CASE ViceExits \/ RenderPresent \/ UpdateBegin \/ UpdateView \/ UpdateEnd \/ UNCHANGED vars
  <2>1. TypeOK'
    <3>1. render_skip' \in BOOLEAN
      BY <1>5 DEF TypeOK, ViceExits, RenderPresent, UpdateBegin, UpdateView, UpdateEnd, vars
    <3>2. UNCHANGED <<pool, queue, pixel_data, freed, thread, vbuf, rbuf, history>>
      BY <1>5 DEF ViceExits, RenderPresent, UpdateBegin, UpdateView, UpdateEnd, vars
    <3>3. /\ canvas_lock' \in {"none", "vice", "render"}
          /\ render_lock' \in {"none", "render"}
          /\ vpc' \in {"idle", "drawing", "drawn", "push", "exited"}
          /\ rpc' \in {"idle", "job", "dequeued", "presenting"}
          /\ upc' \in {"idle", "update", "updated", "join", "ui_exit", "ended"}
      BY <1>5 DEF TypeOK, ViceExits, RenderPresent, UpdateBegin, UpdateView, UpdateEnd, vars
    <3> QED BY <3>1, <3>2, <3>3 DEF TypeOK, pool, queue, thread, history
  <2>2. ControlInv' /\ NoPushOnFreed'
    BY <1>5 DEF TypeOK, ViceExits, RenderPresent, UpdateBegin, UpdateView, UpdateEnd, vars,
                pool, queue, thread, history, ControlInv, NoPushOnFreed, Held
  <2> QED BY <2>1, <2>2, <1>2
<1>6. CASE TakeJob
  <2>1. TypeOK'
    BY <1>6 DEF TypeOK, TakeJob, pool, queue, history
  <2>2. ControlInv' /\ NoPushOnFreed'
    BY <1>6 DEF TypeOK, TakeJob, pool, queue, history, ControlInv, NoPushOnFreed, Held
  <2> QED BY <2>1, <2>2, <1>2
<1>7. CASE on_widget_realized \/ FrameClock
  <2>1. TypeOK'
    <3>1. jobs' \in Seq({"init", "render", "shutdown"})
      <4>1. \A s \in Seq({"init", "render", "shutdown"}) :
              Append(s, "render") \in Seq({"init", "render", "shutdown"})
        OBVIOUS
      <4>2. CASE on_widget_realized
        BY <4>2 DEF on_widget_realized
      <4>3. CASE FrameClock
        BY <4>1, <4>3 DEF TypeOK, FrameClock, push_job
      <4> QED BY <1>7, <4>2, <4>3
    <3> QED BY <1>7, <3>1 DEF TypeOK, on_widget_realized, FrameClock, push_job, pool, queue, history
  <2>2. ControlInv' /\ NoPushOnFreed'
    BY <1>7 DEF TypeOK, on_widget_realized, FrameClock, push_job, pool, queue, history,
                ControlInv, NoPushOnFreed, Held
  <2> QED BY <2>1, <2>2, <1>2
<1>8. CASE initiate_shutdown \/ render_thread_join
  <2>1. TypeOK'
    <3>1. jobs' \in Seq({"init", "render", "shutdown"})
      <4>1. \A s \in Seq({"init", "render", "shutdown"}) :
              Append(s, "shutdown") \in Seq({"init", "render", "shutdown"})
        OBVIOUS
      <4> QED BY <1>8, <4>1 DEF TypeOK, initiate_shutdown, render_thread_join
    <3>2. is_shutdown_initiated' \in BOOLEAN
      BY <1>8 DEF TypeOK, initiate_shutdown, render_thread_join
    <3> QED BY <1>8, <3>1, <3>2
        DEF TypeOK, initiate_shutdown, render_thread_join, pool, queue, history
  <2>2. ControlInv' /\ NoPushOnFreed'
    BY <1>8 DEF TypeOK, initiate_shutdown, render_thread_join, pool, queue, history,
                ControlInv, NoPushOnFreed, Held
  <2> QED BY <2>1, <2>2, <1>2
<1> QED BY <1>3, <1>4, <1>5, <1>6, <1>7, <1>8

-----------------------------------------------------------------------------
(* The four operations of render_queue.c as set operations.                *)

\* render_queue_get_from_pool().
LEMMA GetLemma ==
  ASSUME backbuffer_stack \in [Index -> Buffers], backbuffer_stack_size \in 0 .. MAX,
         NEW b, get_from_pool(b), PoolDistinct
  PROVE  /\ b \in Buffers
         /\ backbuffer_stack_size' = backbuffer_stack_size - 1
         /\ backbuffer_stack_size' \in 0 .. MAX
         /\ backbuffer_stack' \in [Index -> Buffers]
         /\ PoolDistinct'
         /\ InPool = InPool' \cup {b} /\ b \notin InPool'
<1> USE MaxType DEF get_from_pool
<1>1. /\ backbuffer_stack_size - 1 \in Index /\ b = backbuffer_stack[backbuffer_stack_size - 1]
      /\ backbuffer_stack_size' = backbuffer_stack_size - 1
      /\ backbuffer_stack' = backbuffer_stack
  BY DEF Index
<1>2. \A i \in 0 .. backbuffer_stack_size - 1 :
        i = backbuffer_stack_size - 1 \/ i \in 0 .. backbuffer_stack_size' - 1
  BY <1>1
<1>3. InPool = InPool' \cup {b} /\ b \notin InPool'
  BY <1>1, <1>2 DEF InPool, PoolDistinct
<1>4. PoolDistinct'
  BY <1>1 DEF PoolDistinct
<1> QED BY <1>1, <1>3, <1>4

\* render_queue_return_to_pool().
LEMMA ReturnLemma ==
  ASSUME backbuffer_stack \in [Index -> Buffers], backbuffer_stack_size \in Index,
         NEW b \in Buffers, return_to_pool(b), PoolDistinct, b \notin InPool
  PROVE  /\ backbuffer_stack' \in [Index -> Buffers]
         /\ backbuffer_stack_size' = backbuffer_stack_size + 1
         /\ PoolDistinct'
         /\ InPool' = InPool \cup {b}
<1> USE MaxType DEF return_to_pool, Index
<1>1. backbuffer_stack' \in [Index -> Buffers] /\ backbuffer_stack_size' = backbuffer_stack_size + 1
  OBVIOUS
<1>2. /\ \A i \in 0 .. backbuffer_stack_size - 1 : backbuffer_stack'[i] = backbuffer_stack[i]
      /\ backbuffer_stack'[backbuffer_stack_size] = b
      /\ \A i \in 0 .. backbuffer_stack_size' - 1 :
           i = backbuffer_stack_size \/ i \in 0 .. backbuffer_stack_size - 1
  OBVIOUS
<1>3. InPool' = InPool \cup {b}
  BY <1>1, <1>2 DEF InPool
<1>4. PoolDistinct'
  BY <1>1, <1>2 DEF PoolDistinct, InPool
<1> QED BY <1>1, <1>3, <1>4

\* render_queue_enqueue_for_display().
LEMMA EnqueueSetLemma ==
  ASSUME render_queue_next \in Index, render_queue \in [Index -> Buffers \cup {NULL}],
         render_queue_length \in 0 .. MAX - 1,
         NEW b \in Buffers, enqueue_for_display(b), QueueDistinct, b \notin InQueue
  PROVE  /\ render_queue_next' \in Index
         /\ render_queue' \in [Index -> Buffers \cup {NULL}]
         /\ render_queue_length' = render_queue_length + 1
         /\ QueueDistinct'
         /\ InQueue' = InQueue \cup {b}
<1> USE MaxType
<1>1. PICK n \in 0 .. MAX - 1 : render_queue_length = n /\ render_queue_length' = n + 1
  BY DEF enqueue_for_display
<1>2. (\A i \in 0 .. n - 1 : Queued(i)' = Queued(i)) /\ Queued(n)' = b
  BY <1>1, EnqueueLemma
<1>3. render_queue' \in [Index -> Buffers \cup {NULL}] /\ render_queue_next' = render_queue_next
  BY DEF enqueue_for_display
<1>4. \A i \in 0 .. n : i = n \/ i \in 0 .. n - 1
  OBVIOUS
<1>5. QueueDistinct'
  BY <1>1, <1>2, <1>4 DEF QueueDistinct, InQueue
<1>6. InQueue' = InQueue \cup {b}
  BY <1>1, <1>2, <1>4 DEF InQueue
<1> QED BY <1>1, <1>3, <1>5, <1>6

\* render_queue_dequeue_for_display() when something waits.
LEMMA DequeueSetLemma ==
  ASSUME render_queue_next \in Index, render_queue \in [Index -> Buffers \cup {NULL}],
         render_queue_length \in 1 .. MAX,
         NEW b, dequeue_for_display(b), QueueDistinct
  PROVE  /\ render_queue_next' \in Index
         /\ render_queue' = render_queue
         /\ render_queue_length' = render_queue_length - 1
         /\ QueueDistinct'
         /\ InQueue = InQueue' \cup {b} /\ b \notin InQueue'
<1> USE MaxType
<1>1. PICK n \in 1 .. MAX : render_queue_length = n /\ render_queue_length' = n - 1
  BY DEF dequeue_for_display
<1>2. b = Queued(0) /\ render_queue_next' \in Index /\ \A i \in 0 .. n - 2 : Queued(i)' = Queued(i + 1)
  BY <1>1, DequeueLemma
<1>3. render_queue' = render_queue
  BY DEF dequeue_for_display
<1>4. \A i \in 0 .. n - 1 : i = 0 \/ (i - 1 \in 0 .. n - 2 /\ i = (i - 1) + 1)
  OBVIOUS
<1>5. \A i \in 0 .. n - 2 : i + 1 \in 0 .. n - 1 /\ i + 1 # 0
  OBVIOUS
<1>6. QueueDistinct'
  <2> SUFFICES ASSUME NEW i \in 0 .. n - 2, NEW j \in 0 .. n - 2, i # j
               PROVE  Queued(i)' # Queued(j)'
    BY <1>1 DEF QueueDistinct
  <2>1. i + 1 # j + 1
    OBVIOUS
  <2> QED BY <1>1, <1>2, <1>5, <2>1 DEF QueueDistinct
<1>7. InQueue = InQueue' \cup {b}
  <2>1. \A i \in 0 .. n - 1 : Queued(i) \in InQueue' \cup {b}
    <3> SUFFICES ASSUME NEW i \in 0 .. n - 1, i # 0 PROVE Queued(i) \in InQueue'
      BY <1>2
    <3>1. PICK k \in 0 .. n - 2 : i = k + 1
      BY <1>4
    <3> QED BY <1>1, <1>2, <3>1 DEF InQueue
  <2>2. \A i \in 0 .. n - 2 : Queued(i)' \in InQueue
    BY <1>1, <1>2, <1>5 DEF InQueue
  <2>3. b \in InQueue
    BY <1>1, <1>2 DEF InQueue
  <2> QED BY <1>1, <2>1, <2>2, <2>3 DEF InQueue
<1>8. b \notin InQueue'
  BY <1>1, <1>2, <1>5 DEF InQueue, QueueDistinct
<1> QED BY <1>1, <1>2, <1>3, <1>6, <1>7, <1>8

-----------------------------------------------------------------------------
(* The steps that move a backbuffer.                                       *)

\* pool -> VICE thread.
LEMMA RefreshBeginStep == BufferInv /\ RefreshBegin => BufferInv'
<1> SUFFICES ASSUME BufferInv, RefreshBegin PROVE BufferInv'
  OBVIOUS
<1> USE MaxType DEF BufferInv, RefreshBegin
<1>1. upc # "ended" /\ freed = {} /\ vbuf = NULL /\ upc' = upc /\ freed' = freed /\ rbuf' = rbuf
  BY DEF ControlInv
<1>2. PICK b : vbuf' = b /\ get_from_pool(b)
  BY DEF get_from_pool
<1>3. /\ b \in Buffers
      /\ backbuffer_stack_size' = backbuffer_stack_size - 1
      /\ backbuffer_stack_size' \in 0 .. MAX
      /\ backbuffer_stack' \in [Index -> Buffers]
      /\ PoolDistinct'
      /\ InPool = InPool' \cup {b} /\ b \notin InPool'
  BY <1>2, GetLemma DEF TypeOK, NotShared
<1>4. b # NULL
  BY <1>3, MaxType DEF Buffers, NULL
<1>5. InQueue' = InQueue /\ QueueDistinct'
  BY DEF Queued, Slot, queue, InQueue, QueueDistinct, NotShared
<1>6. TypeOK'
  BY <1>1, <1>2, <1>3, <1>4 DEF TypeOK, queue, thread, history
<1>7. Apart'
  BY <1>1, <1>2, <1>3, <1>4, <1>5 DEF NotShared, Apart
<1>8. NotLost'
  BY <1>1, <1>2, <1>3, <1>4, <1>5 DEF NotLost, Buffers, NULL
<1>9. ControlInv' /\ NoPushOnFreed'
  BY <1>1, <1>2, <1>3, <1>4 DEF ControlInv, NoPushOnFreed, queue, thread, Held, TypeOK
<1> QED BY <1>3, <1>5, <1>6, <1>7, <1>8, <1>9 DEF NotShared

\* VICE thread -> queue.
LEMMA RefreshEnqueueStep == BufferInv /\ RefreshEnqueue => BufferInv'
<1> SUFFICES ASSUME BufferInv, RefreshEnqueue PROVE BufferInv'
  OBVIOUS
<1> USE MaxType DEF BufferInv, RefreshEnqueue
<1>1. /\ freed = {} /\ vbuf \in Buffers /\ vbuf # NULL /\ upc # "ended"
      /\ upc' = upc /\ freed' = freed /\ vbuf' = NULL /\ rbuf' = rbuf
      /\ render_queue_length \in 0 .. MAX - 1
  BY DEF TypeOK, ControlInv, Held
<1>2. /\ render_queue_next' \in Index
      /\ render_queue' \in [Index -> Buffers \cup {NULL}]
      /\ render_queue_length' = render_queue_length + 1
      /\ QueueDistinct'
      /\ InQueue' = InQueue \cup {vbuf}
  BY <1>1, EnqueueSetLemma DEF TypeOK, NotShared, Apart
<1>3. InPool' = InPool /\ PoolDistinct'
  BY DEF pool, InPool, PoolDistinct, NotShared
<1>4. InPool \subseteq Buffers
  BY DEF InPool, TypeOK, Index
<1>5. TypeOK'
  BY <1>1, <1>2 DEF TypeOK, pool, thread, history
<1>6. Apart'
  BY <1>1, <1>2, <1>3, <1>4 DEF NotShared, Apart, Buffers, NULL
<1>7. NotLost'
  BY <1>1, <1>2, <1>3 DEF NotLost
<1>8. ControlInv' /\ NoPushOnFreed'
  BY <1>1, <1>2 DEF ControlInv, NoPushOnFreed, pool, thread, Held, TypeOK
<1> QED BY <1>2, <1>3, <1>5, <1>6, <1>7, <1>8 DEF NotShared

\* VICE thread -> pool.
LEMMA RefreshDiscardStep == BufferInv /\ RefreshDiscard => BufferInv'
<1> SUFFICES ASSUME BufferInv, RefreshDiscard PROVE BufferInv'
  OBVIOUS
<1> USE MaxType DEF BufferInv, RefreshDiscard
<1>1. /\ freed = {} /\ vbuf \in Buffers /\ vbuf # NULL /\ upc # "ended"
      /\ upc' = upc /\ freed' = freed /\ vbuf' = NULL /\ rbuf' = rbuf
      /\ backbuffer_stack_size \in Index
  BY DEF TypeOK, ControlInv, Held, Index
<1>2. /\ backbuffer_stack' \in [Index -> Buffers]
      /\ backbuffer_stack_size' = backbuffer_stack_size + 1
      /\ PoolDistinct'
      /\ InPool' = InPool \cup {vbuf}
  BY <1>1, ReturnLemma DEF TypeOK, NotShared, Apart
<1>3. InQueue' = InQueue /\ QueueDistinct'
  BY DEF Queued, Slot, queue, InQueue, QueueDistinct, NotShared
<1>4. InPool \subseteq Buffers
  BY DEF InPool, TypeOK, Index
<1>5. TypeOK'
  BY <1>1, <1>2 DEF TypeOK, queue, thread, history, Index
<1>6. Apart'
  BY <1>1, <1>2, <1>3, <1>4 DEF NotShared, Apart, Buffers, NULL
<1>7. NotLost'
  BY <1>1, <1>2, <1>3 DEF NotLost
<1>8. ControlInv' /\ NoPushOnFreed'
  BY <1>1, <1>2 DEF ControlInv, NoPushOnFreed, queue, thread, Held, TypeOK
<1> QED BY <1>2, <1>3, <1>5, <1>6, <1>7, <1>8 DEF NotShared

\* queue -> render thread.
LEMMA RenderDequeueStep == BufferInv /\ RenderDequeue => BufferInv'
<1> SUFFICES ASSUME BufferInv, RenderDequeue PROVE BufferInv'
  OBVIOUS
<1> USE MaxType DEF BufferInv, RenderDequeue
<1>1. /\ executor # "none" /\ executor # "freed" /\ upc # "ended" /\ freed = {} /\ rbuf = NULL
      /\ upc' = upc /\ freed' = freed /\ vbuf' = vbuf
  BY DEF TypeOK, ControlInv, NoPushOnFreed
<1>2. InPool' = InPool /\ PoolDistinct'
  BY DEF pool, InPool, PoolDistinct, NotShared
<1>3. CASE render_queue_length = 0
  <2>1. UNCHANGED <<pool, queue, freed, vbuf, rbuf>>
    BY <1>1, <1>3 DEF dequeue_for_display
  <2>2. NotShared' /\ NotLost'
    BY <1>1, <2>1, PlacesUnchanged
  <2>3. TypeOK'
    BY <1>1, <2>1 DEF TypeOK, pool, queue, thread, history
  <2>4. ControlInv' /\ NoPushOnFreed'
    BY <1>1, <2>1 DEF ControlInv, NoPushOnFreed, pool, queue, thread, Held, TypeOK
  <2> QED BY <2>2, <2>3, <2>4
<1>4. CASE render_queue_length # 0
  <2>1. render_queue_length \in 1 .. MAX
    BY <1>4 DEF TypeOK
  <2>2. PICK b : rbuf' = b /\ dequeue_for_display(b)
    BY DEF dequeue_for_display
  <2>3. /\ render_queue_next' \in Index
        /\ render_queue' = render_queue
        /\ render_queue_length' = render_queue_length - 1
        /\ QueueDistinct'
        /\ InQueue = InQueue' \cup {b} /\ b \notin InQueue'
    BY <2>1, <2>2, DequeueSetLemma DEF TypeOK, NotShared
  <2>4. b \in Buffers /\ b # NULL
    <3>1. InQueue \subseteq Buffers \cup {NULL}
      <4> SUFFICES ASSUME NEW i \in 0 .. render_queue_length - 1
                   PROVE  Queued(i) \in Buffers \cup {NULL}
        BY DEF InQueue
      <4>1. i \in Index
        BY DEF Index, TypeOK
      <4> QED BY <4>1, SlotLemma DEF Queued, TypeOK
    <3> QED BY <2>3, <3>1 DEF NotShared, Apart
  <2>5. TypeOK'
    BY <1>1, <2>1, <2>2, <2>3, <2>4 DEF TypeOK, pool, thread, history
  <2>6. Apart'
    BY <1>1, <1>2, <2>2, <2>3, <2>4 DEF NotShared, Apart
  <2>7. NotLost'
    BY <1>1, <1>2, <2>2, <2>3, <2>4 DEF NotLost, Buffers, NULL
  <2>8. ControlInv' /\ NoPushOnFreed'
    BY <1>1, <2>1, <2>2, <2>3, <2>4 DEF ControlInv, NoPushOnFreed, pool, thread, Held, TypeOK
  <2> QED BY <1>2, <2>3, <2>5, <2>6, <2>7, <2>8 DEF NotShared
<1> QED BY <1>3, <1>4

\* render thread -> pool.
LEMMA RenderUploadStep == BufferInv /\ RenderUpload => BufferInv'
<1> SUFFICES ASSUME BufferInv, RenderUpload PROVE BufferInv'
  OBVIOUS
<1> USE MaxType DEF BufferInv, RenderUpload
<1>1. /\ executor # "none" /\ executor # "freed" /\ upc # "ended" /\ freed = {} /\ rbuf' = NULL
      /\ upc' = upc /\ freed' = freed /\ vbuf' = vbuf
  BY DEF TypeOK, ControlInv, NoPushOnFreed
<1>2. InQueue' = InQueue /\ QueueDistinct'
  BY DEF Queued, Slot, queue, InQueue, QueueDistinct, NotShared
<1>3. CASE rbuf = NULL
  <2>1. UNCHANGED <<pool, queue, freed, vbuf, rbuf, shown>>
    BY <1>1, <1>3
  <2>2. NotShared' /\ NotLost'
    BY <1>1, <2>1, PlacesUnchanged
  <2>3. TypeOK'
    BY <1>1, <2>1 DEF TypeOK, pool, queue, thread
  <2>4. ControlInv' /\ NoPushOnFreed'
    BY <1>1, <2>1 DEF ControlInv, NoPushOnFreed, pool, queue, thread, Held, TypeOK
  <2> QED BY <2>2, <2>3, <2>4
<1>4. CASE rbuf # NULL
  <2>1. rbuf \in Buffers /\ return_to_pool(rbuf) /\ backbuffer_stack_size \in Index
        /\ shown' = pixel_data[rbuf]
    BY <1>1, <1>4 DEF TypeOK, ControlInv, Held, Index
  <2>2. /\ backbuffer_stack' \in [Index -> Buffers]
        /\ backbuffer_stack_size' = backbuffer_stack_size + 1
        /\ PoolDistinct'
        /\ InPool' = InPool \cup {rbuf}
    BY <2>1, ReturnLemma DEF TypeOK, NotShared, Apart
  <2>3. InPool \subseteq Buffers
    BY DEF InPool, TypeOK, Index
  <2>4. TypeOK'
    BY <1>1, <2>1, <2>2 DEF TypeOK, queue, thread, Index
  <2>5. Apart'
    BY <1>1, <1>2, <1>4, <2>1, <2>2, <2>3 DEF NotShared, Apart, Buffers, NULL
  <2>6. NotLost'
    BY <1>1, <1>2, <2>2 DEF NotLost
  <2>7. ControlInv' /\ NoPushOnFreed'
    BY <1>1, <1>4, <2>1, <2>2 DEF ControlInv, NoPushOnFreed, queue, thread, Held, TypeOK
  <2> QED BY <1>2, <2>2, <2>4, <2>5, <2>6, <2>7 DEF NotShared
<1> QED BY <1>3, <1>4

\* queue -> pool.
LEMMA RenderSkipStep == BufferInv /\ RenderSkip => BufferInv'
<1> SUFFICES ASSUME BufferInv, RenderSkip PROVE BufferInv'
  OBVIOUS
<1> USE MaxType DEF BufferInv, RenderSkip
<1>1. /\ executor # "none" /\ executor # "freed" /\ upc # "ended" /\ freed = {}
      /\ upc' = upc /\ freed' = freed /\ vbuf' = vbuf /\ rbuf' = rbuf
  BY DEF TypeOK, ControlInv, NoPushOnFreed
<1>2. PICK b \in Buffers \cup {NULL} :
        dequeue_for_display(b) /\ IF b # NULL THEN return_to_pool(b) ELSE UNCHANGED pool
  OBVIOUS
<1>3. CASE render_queue_length = 0
  <2>1. UNCHANGED <<pool, queue, freed, vbuf, rbuf>>
    BY <1>1, <1>2, <1>3 DEF dequeue_for_display
  <2>2. NotShared' /\ NotLost'
    BY <1>1, <2>1, PlacesUnchanged
  <2>3. TypeOK'
    BY <1>1, <2>1 DEF TypeOK, pool, queue, thread, history
  <2>4. ControlInv' /\ NoPushOnFreed'
    BY <1>1, <2>1 DEF ControlInv, NoPushOnFreed, pool, queue, thread, Held, TypeOK
  <2> QED BY <2>2, <2>3, <2>4
<1>4. CASE render_queue_length # 0
  <2>1. render_queue_length \in 1 .. MAX
    BY <1>4 DEF TypeOK
  <2>2. /\ render_queue_next' \in Index
        /\ render_queue' = render_queue
        /\ render_queue_length' = render_queue_length - 1
        /\ QueueDistinct'
        /\ InQueue = InQueue' \cup {b} /\ b \notin InQueue'
    BY <1>2, <2>1, DequeueSetLemma DEF TypeOK, NotShared
  <2>3. b \in Buffers /\ b # NULL /\ b \notin InPool /\ return_to_pool(b)
    BY <1>2, <2>2 DEF NotShared, Apart
  <2>4. backbuffer_stack_size \in Index
    BY <1>1, <2>1 DEF TypeOK, ControlInv, Held, Index
  <2>5. /\ backbuffer_stack' \in [Index -> Buffers]
        /\ backbuffer_stack_size' = backbuffer_stack_size + 1
        /\ PoolDistinct'
        /\ InPool' = InPool \cup {b}
    BY <2>3, <2>4, ReturnLemma DEF TypeOK, NotShared
  <2>6. TypeOK'
    BY <1>1, <2>1, <2>2, <2>4, <2>5 DEF TypeOK, thread, history, Index
  <2>7. Apart'
    BY <1>1, <2>2, <2>3, <2>5 DEF NotShared, Apart
  <2>8. NotLost'
    BY <1>1, <2>2, <2>5 DEF NotLost
  <2>9. ControlInv' /\ NoPushOnFreed'
    BY <1>1, <2>1, <2>2, <2>4, <2>5 DEF ControlInv, NoPushOnFreed, thread, Held, TypeOK, Index
  <2> QED BY <2>2, <2>5, <2>6, <2>7, <2>8, <2>9 DEF NotShared
<1> QED BY <1>3, <1>4

\* render_queue_destroy() finds every backbuffer in the pool or the queue.
LEMMA DestroyStep == BufferInv /\ destroy_context => BufferInv'
<1> SUFFICES ASSUME BufferInv, destroy_context PROVE BufferInv'
  OBVIOUS
<1> USE MaxType DEF BufferInv, destroy_context, render_queue_destroy
<1>1. rpc = "idle" /\ jobs = << >> /\ vbuf = NULL /\ rbuf = NULL /\ freed = {}
  BY DEF TypeOK, ControlInv, NoPushOnFreed
<1>2. InPool \cup InQueue = Buffers
  <2>1. InPool \subseteq Buffers
    BY DEF InPool, TypeOK, Index
  <2>2. InQueue \subseteq Buffers
    <3> SUFFICES ASSUME NEW i \in 0 .. render_queue_length - 1
                 PROVE  Queued(i) \in Buffers
      BY DEF InQueue
    <3>1. i \in Index
      BY DEF Index, TypeOK
    <3>2. Queued(i) # NULL
      BY DEF NotShared, Apart, InQueue
    <3> QED BY <3>1, <3>2, SlotLemma DEF Queued, TypeOK
  <2>3. NULL \notin Buffers
    BY DEF Buffers, NULL
  <2>4. \A b \in Buffers : b \in InPool \cup InQueue
    BY <1>1, <2>3 DEF NotLost
  <2> QED BY <2>1, <2>2, <2>4
<1>3. freed' = Buffers /\ InPool' = {} /\ InQueue' = {}
  BY <1>2 DEF InPool, InQueue
<1>4. TypeOK'
  BY <1>3 DEF TypeOK, thread, history
<1>5. NotShared'
  BY <1>1, <1>3 DEF NotShared, PoolDistinct, QueueDistinct, Apart, Buffers, NULL
<1>6. NotLost'
  BY <1>3 DEF NotLost
<1>7. ControlInv' /\ NoPushOnFreed'
  BY <1>1, <1>3 DEF ControlInv, NoPushOnFreed, thread, Held, TypeOK, Buffers
<1> QED BY <1>4, <1>5, <1>6, <1>7

\* The invariant behind the two theorems: where each backbuffer is, how many
\* there are, and who may touch the queue.
THEOREM BufferInductive == Spec => []BufferInv
<1>1. BufferInv /\ [Next]_vars => BufferInv'
  BY QuietStep, RefreshBeginStep, RefreshEnqueueStep, RefreshDiscardStep, RenderDequeueStep,
     RenderUploadStep, RenderSkipStep, DestroyStep
  DEF Next, ViceNext, RenderNext, UiNext, Ended
<1> QED BY <1>1, BufferInit, PTL DEF Spec

\* vice_opengl_refresh_rect(), render() and vice_opengl_destroy_context():
\* for any number of backbuffers none is shared, none is lost, and the
\* assertions of render_queue.c never fail.
THEOREM BuffersSafe == Spec => [](NotShared /\ NotLost /\ RoomForHeld /\ NoPushOnFreed)
<1>1. BufferInv => NotShared /\ NotLost /\ RoomForHeld /\ NoPushOnFreed
  <2> SUFFICES ASSUME BufferInv PROVE RoomForHeld
    BY DEF BufferInv
  <2>1. CASE freed = {}
    BY <2>1, MaxType DEF BufferInv, TypeOK, ControlInv, Held, RoomForHeld
  <2>2. CASE freed # {}
    BY <2>2, MaxType DEF BufferInv, TypeOK, ControlInv, RoomForHeld
  <2> QED BY <2>1, <2>2
<1> QED BY <1>1, BufferInductive, PTL

\* Every backbuffer can be found again: refresh_rect() and render() lose none on
\* their early returns, and render_queue_destroy() frees them all.
THEOREM BuffersNotLost == Spec => []NotLost
BY BuffersSafe, PTL

\* render_queue_enqueue_for_display() and render_queue_return_to_pool() have room
\* whenever they are called: their assertions hold.
THEOREM RoomForEveryBuffer == Spec => []RoomForHeld
BY BuffersSafe, PTL

\* After render_thread_join() no job waits or runs, although the VICE thread may
\* still refresh.
THEOREM ExecutorUnusedOnceFreed == Spec => []NoPushOnFreed
BY BuffersSafe, PTL

-----------------------------------------------------------------------------
(* The order of frames.                                                    *)

\* Nothing is drawn at the start.
LEMMA OrderInit == Init => OrderInv
BY MaxType DEF Init, OrderInv, NULL

\* The steps that neither draw, move nor upload a waiting frame.
LEMMA OrderQuiet ==
  ASSUME BufferInv, OrderInv,
         UNCHANGED <<queue, pixel_data, rbuf, history>>,
         vpc' = "drawn" => vpc = "drawn" /\ vbuf' = vbuf
  PROVE  OrderInv'
<1>1. \A i : Queued(i)' = Queued(i)
  BY DEF Queued, Slot, queue
<1>2. render_queue_length' = render_queue_length /\ pixel_data' = pixel_data /\ rbuf' = rbuf
      /\ drawn' = drawn /\ shown' = shown
  BY DEF queue, history
<1> QED BY <1>1, <1>2 DEF OrderInv

\* A waiting backbuffer is a backbuffer that no thread holds.
LEMMA QueuedType ==
  ASSUME BufferInv, NEW i \in 0 .. render_queue_length - 1
  PROVE  Queued(i) \in Buffers /\ Queued(i) # vbuf /\ Queued(i) # rbuf
<1>1. i \in Index
  BY MaxType DEF Index, TypeOK, BufferInv
<1>2. Queued(i) \notin {NULL, vbuf, rbuf}
  BY DEF NotShared, Apart, InQueue, BufferInv
<1> QED BY <1>1, <1>2, SlotLemma DEF Queued, TypeOK, BufferInv

\* video_canvas_render() makes a frame newer than all others.
LEMMA OrderDraw == BufferInv /\ OrderInv /\ Draw => OrderInv'
<1> SUFFICES ASSUME BufferInv, OrderInv, Draw PROVE OrderInv'
  OBVIOUS
<1>1. /\ vbuf \in Buffers /\ vbuf # NULL /\ vbuf # rbuf /\ vpc = "drawing" /\ vpc' = "drawn"
      /\ drawn \in Nat /\ shown \in Nat /\ pixel_data \in [Buffers -> Nat]
      /\ rbuf # NULL => rbuf \in Buffers
      /\ render_queue_length' = render_queue_length /\ rbuf' = rbuf /\ vbuf' = vbuf
      /\ drawn' = drawn + 1 /\ shown' = shown
  BY DEF BufferInv, TypeOK, ControlInv, Draw, NotShared, Apart, queue
<1>2. \A i : Queued(i)' = Queued(i)
  BY DEF Queued, Slot, queue, Draw
<1>3. pixel_data' = [pixel_data EXCEPT ![vbuf] = drawn + 1]
  BY DEF Draw
<1>4. \A i \in 0 .. render_queue_length - 1 :
        Queued(i) \in Buffers /\ pixel_data'[Queued(i)] = pixel_data[Queued(i)]
  BY <1>1, <1>3, QueuedType
<1>5. pixel_data'[vbuf] = drawn + 1 /\ (rbuf # NULL => pixel_data'[rbuf] = pixel_data[rbuf])
  BY <1>1, <1>3
<1> QED BY <1>1, <1>2, <1>4, <1>5 DEF OrderInv

\* The newest frame goes behind the others.
LEMMA OrderEnqueue == BufferInv /\ OrderInv /\ RefreshEnqueue => OrderInv'
<1> SUFFICES ASSUME BufferInv, OrderInv, RefreshEnqueue PROVE OrderInv'
  OBVIOUS
<1>1. /\ vpc = "drawn" /\ vpc' = "push" /\ rbuf' = rbuf /\ pixel_data' = pixel_data
      /\ drawn' = drawn /\ shown' = shown
      /\ render_queue_length \in 0 .. MAX - 1
  BY MaxType DEF RefreshEnqueue, history, BufferInv, TypeOK, ControlInv, Held
<1>2. PICK n \in 0 .. MAX - 1 : render_queue_length = n /\ render_queue_length' = n + 1
  BY <1>1 DEF RefreshEnqueue, enqueue_for_display
<1>3. (\A i \in 0 .. n - 1 : Queued(i)' = Queued(i)) /\ Queued(n)' = vbuf
  BY <1>2, EnqueueLemma DEF BufferInv, TypeOK, RefreshEnqueue
<1>4. \A i \in 0 .. n : i = n \/ i \in 0 .. n - 1
  BY MaxType
<1>5. \A i \in 0 .. n - 1 : pixel_data[Queued(i)] < pixel_data[vbuf]
  BY <1>1, <1>2 DEF OrderInv
<1>6. \A i, j \in 0 .. n : i < j => i \in 0 .. n - 1 /\ (j = n \/ j \in 0 .. n - 1)
  BY MaxType
<1>7. \A i, j \in 0 .. n : i < j => pixel_data[Queued(i)'] < pixel_data[Queued(j)']
  BY <1>2, <1>3, <1>5, <1>6 DEF OrderInv
<1>8. drawn \in Nat /\ pixel_data[vbuf] = drawn /\ shown < drawn
      /\ (rbuf # NULL => pixel_data[rbuf] < drawn)
  BY <1>1 DEF OrderInv, BufferInv, TypeOK
<1>9. \A i \in 0 .. n :
        /\ shown < pixel_data[Queued(i)'] /\ pixel_data[Queued(i)'] <= drawn
        /\ rbuf # NULL => pixel_data[rbuf] < pixel_data[Queued(i)']
  BY <1>1, <1>2, <1>3, <1>4, <1>8 DEF OrderInv
<1>10. n + 1 - 1 = n
  BY MaxType
<1> QED BY <1>1, <1>2, <1>7, <1>8, <1>9, <1>10 DEF OrderInv

\* What a dequeue leaves of the order of the waiting frames.
LEMMA OrderDequeued ==
  ASSUME BufferInv, OrderInv, NEW n \in 1 .. MAX, render_queue_length = n,
         NEW b, dequeue_for_display(b)
  PROVE  /\ b = Queued(0) /\ render_queue_length' = n - 1
         /\ \A i, j \in 0 .. n - 2 : i < j => pixel_data[Queued(i)'] < pixel_data[Queued(j)']
         /\ \A i \in 0 .. n - 2 :
              /\ shown < pixel_data[Queued(i)'] /\ pixel_data[Queued(i)'] <= drawn
              /\ vpc = "drawn" => pixel_data[Queued(i)'] < drawn
              /\ pixel_data[b] < pixel_data[Queued(i)']
<1>1. b = Queued(0) /\ \A i \in 0 .. n - 2 : Queued(i)' = Queued(i + 1)
  BY DequeueLemma DEF BufferInv, TypeOK
<1>2. render_queue_length' = n - 1
  BY MaxType DEF dequeue_for_display
<1>3. 0 \in 0 .. n - 1 /\ \A i \in 0 .. n - 2 : i + 1 \in 0 .. n - 1 /\ 0 < i + 1
  BY MaxType
<1>4. \A i, j \in 0 .. n - 2 : i < j => i + 1 < j + 1
  BY MaxType
<1> QED BY <1>1, <1>2, <1>3, <1>4 DEF OrderInv

\* render() takes the oldest frame, to upload or to drop it.
LEMMA OrderDequeue == BufferInv /\ OrderInv /\ (RenderDequeue \/ RenderSkip) => OrderInv'
<1> SUFFICES ASSUME BufferInv, OrderInv, RenderDequeue \/ RenderSkip PROVE OrderInv'
  OBVIOUS
<1>1. PICK b : dequeue_for_display(b) /\ (rbuf' = b \/ RenderSkip)
  BY DEF RenderDequeue, RenderSkip, dequeue_for_display
<1>2. /\ pixel_data' = pixel_data /\ vbuf' = vbuf /\ vpc' = vpc
      /\ drawn' = drawn /\ shown' = shown
      /\ RenderSkip => rbuf' = rbuf
      /\ rpc = "job" /\ rbuf = NULL
  BY DEF RenderDequeue, RenderSkip, history, BufferInv, ControlInv
<1>3. CASE render_queue_length = 0
  BY <1>1, <1>2, <1>3 DEF dequeue_for_display, OrderInv, queue
<1>4. CASE render_queue_length # 0
  <2>1. PICK n \in 1 .. MAX : render_queue_length = n
    BY <1>4, MaxType DEF BufferInv, TypeOK
  <2>2. /\ b = Queued(0) /\ render_queue_length' = n - 1
        /\ \A i, j \in 0 .. n - 2 : i < j => pixel_data[Queued(i)'] < pixel_data[Queued(j)']
        /\ \A i \in 0 .. n - 2 :
             /\ shown < pixel_data[Queued(i)'] /\ pixel_data[Queued(i)'] <= drawn
             /\ vpc = "drawn" => pixel_data[Queued(i)'] < drawn
             /\ pixel_data[b] < pixel_data[Queued(i)']
    BY <1>1, <2>1, OrderDequeued
  <2>3. /\ shown < pixel_data[b] /\ pixel_data[b] <= drawn
        /\ vpc = "drawn" => pixel_data[b] < drawn
    <3>1. 0 \in 0 .. render_queue_length - 1
      BY <2>1, MaxType
    <3> QED BY <2>2, <3>1 DEF OrderInv
  <2>4. n - 1 - 1 = n - 2
    BY MaxType
  <2>5. rbuf' = NULL \/ rbuf' = b
    BY <1>1, <1>2
  <2> QED BY <1>2, <2>2, <2>3, <2>4, <2>5 DEF OrderInv
<1> QED BY <1>3, <1>4

\* The frame uploaded is newer than the last and older than those that wait.
LEMMA OrderUpload ==
  BufferInv /\ OrderInv /\ RenderUpload => OrderInv' /\ (shown' = shown \/ shown' > shown)
<1> SUFFICES ASSUME BufferInv, OrderInv, RenderUpload
             PROVE  OrderInv' /\ (shown' = shown \/ shown' > shown)
  OBVIOUS
<1>1. \A i : Queued(i)' = Queued(i)
  BY DEF Queued, Slot, queue, RenderUpload
<1>2. /\ render_queue_length' = render_queue_length /\ pixel_data' = pixel_data /\ rbuf' = NULL
      /\ drawn' = drawn /\ vpc' = vpc /\ vbuf' = vbuf
      /\ shown' = IF rbuf # NULL THEN pixel_data[rbuf] ELSE shown
  BY DEF RenderUpload, queue
<1>3. rbuf # NULL => shown < pixel_data[rbuf] /\ shown \in Nat /\ pixel_data[rbuf] \in Nat
  BY DEF OrderInv, BufferInv, TypeOK
<1> QED BY <1>1, <1>2, <1>3 DEF OrderInv

\* update_frame_textures() gets the frames in the order in which
\* video_canvas_render() drew them, and none twice.
THEOREM FramesOrdered == Spec => FramesInOrder
<1>1. BufferInv /\ OrderInv /\ [Next]_vars => OrderInv' /\ (shown' = shown \/ shown' > shown)
  <2> SUFFICES ASSUME BufferInv, OrderInv, [Next]_vars
               PROVE  OrderInv' /\ (shown' = shown \/ shown' > shown)
    OBVIOUS
  <2>1. CASE Draw
    BY <2>1, OrderDraw DEF Draw
  <2>2. CASE RefreshEnqueue
    BY <2>2, OrderEnqueue DEF RefreshEnqueue, history
  <2>3. CASE RenderDequeue \/ RenderSkip
    BY <2>3, OrderDequeue DEF RenderDequeue, RenderSkip, history
  <2>4. CASE RenderUpload
    BY <2>4, OrderUpload
  <2>5. CASE destroy_context
    <3>1. /\ render_queue_length' = 0 /\ pixel_data' = pixel_data /\ rbuf' = rbuf /\ vbuf' = vbuf
          /\ vpc' = vpc /\ drawn' = drawn /\ shown' = shown
      BY <2>5 DEF destroy_context, render_queue_destroy, history
    <3> QED BY <3>1 DEF OrderInv
  <2>6. CASE \/ RefreshBegin \/ RefreshPush \/ RefreshDiscard \/ ViceExits \/ TakeJob
             \/ RenderPresent \/ on_widget_realized \/ FrameClock \/ UpdateBegin \/ UpdateView
             \/ UpdateEnd \/ initiate_shutdown \/ render_thread_join \/ UNCHANGED vars
    <3>1. /\ UNCHANGED <<queue, pixel_data, rbuf, history>>
          /\ vpc' = "drawn" => vpc = "drawn" /\ vbuf' = vbuf
      BY <2>6 DEF RefreshBegin, RefreshPush, RefreshDiscard, ViceExits, TakeJob, RenderPresent,
         on_widget_realized, FrameClock, UpdateBegin, UpdateView, UpdateEnd, initiate_shutdown,
         render_thread_join, vars
    <3> QED BY <3>1, OrderQuiet DEF history
  <2> QED BY <2>1, <2>2, <2>3, <2>4, <2>5, <2>6
      DEF Next, ViceNext, RenderNext, UiNext, Ended
<1>2. BufferInv /\ OrderInv /\ [Next]_vars => [shown' > shown]_shown
  BY <1>1
<1> QED BY <1>1, <1>2, OrderInit, BufferInductive, PTL DEF Spec, FramesInOrder

-----------------------------------------------------------------------------
(* A job for every frame.                                                  *)

RenderPlaces(s) == {i \in 1 .. Len(s) : s[i] = "render"}
Jobs == {"init", "render", "shutdown"}

\* The render jobs of a sequence of jobs are finitely many.
LEMMA PlacesFinite ==
  ASSUME NEW s \in Seq(Jobs)
  PROVE  IsFiniteSet(RenderPlaces(s)) /\ Cardinality(RenderPlaces(s)) \in Nat
<1>1. IsFiniteSet(1 .. Len(s)) /\ RenderPlaces(s) \subseteq 1 .. Len(s)
  BY FS_Interval, LenProperties DEF RenderPlaces
<1> QED BY <1>1, FS_Subset, FS_CardinalityType

\* push_job() adds one job.
LEMMA PlacesAppend ==
  ASSUME NEW s \in Seq(Jobs), NEW job \in Jobs
  PROVE  Cardinality(RenderPlaces(Append(s, job)))
           = Cardinality(RenderPlaces(s)) + (IF job = "render" THEN 1 ELSE 0)
<1> DEFINE t == Append(s, job)
<1>1. /\ Len(s) \in Nat /\ Len(t) = Len(s) + 1 /\ t[Len(s) + 1] = job
      /\ \A i \in 1 .. Len(s) : t[i] = s[i]
  BY AppendProperties, LenProperties
<1> HIDE DEF t
<1>2. CASE job = "render"
  <2>1. RenderPlaces(t) = RenderPlaces(s) \cup {Len(s) + 1} /\ Len(s) + 1 \notin RenderPlaces(s)
    BY <1>1, <1>2 DEF RenderPlaces
  <2> QED BY <1>2, <2>1, PlacesFinite, FS_AddElement DEF t
<1>3. CASE job # "render"
  <2>1. RenderPlaces(t) = RenderPlaces(s)
    BY <1>1, <1>3 DEF RenderPlaces
  <2> QED BY <1>3, <2>1, PlacesFinite DEF t
<1> QED BY <1>2, <1>3

\* The executor takes the first job: the others move up.
LEMMA PlacesTail ==
  ASSUME NEW s \in Seq(Jobs), s # << >>
  PROVE  LET n == Cardinality(RenderPlaces(Tail(s)))
         IN  /\ Head(s) = "render" => n = Cardinality(RenderPlaces(s)) - 1
             /\ Head(s) # "render" => n = Cardinality(RenderPlaces(s))
<1> DEFINE t == Tail(s)
           P == RenderPlaces(s) \ {1}
           f == [i \in RenderPlaces(t) |-> i + 1]
<1>1. /\ Len(s) \in Nat \ {0} /\ t \in Seq(Jobs) /\ Len(t) = Len(s) - 1 /\ Head(s) = s[1]
      /\ \A i \in 1 .. Len(t) : t[i] = s[i + 1]
  BY HeadTailProperties, LenProperties, EmptySeq
<1> HIDE DEF t
<1>2. f \in Bijection(RenderPlaces(t), P)
  <2>1. f \in [RenderPlaces(t) -> P]
    BY <1>1 DEF RenderPlaces
  <2>2. \A i, j \in RenderPlaces(t) : f[i] = f[j] => i = j
    BY <1>1 DEF RenderPlaces
  <2>3. \A p \in P : \E i \in RenderPlaces(t) : f[i] = p
    <3> SUFFICES ASSUME NEW p \in P PROVE \E i \in RenderPlaces(t) : f[i] = p
      OBVIOUS
    <3>1. p - 1 \in RenderPlaces(t) /\ p \in Int
      BY <1>1 DEF RenderPlaces
    <3> QED BY <3>1
  <2> QED BY <2>1, <2>2, <2>3, Fun_IsBij
<1>3. Cardinality(P) = Cardinality(RenderPlaces(t))
  BY <1>1, <1>2, PlacesFinite, FS_Bijection DEF ExistsBijection
<1>4. CASE Head(s) = "render"
  <2>1. 1 \in RenderPlaces(s)
    BY <1>1, <1>4 DEF RenderPlaces
  <2>2. Cardinality(P) = Cardinality(RenderPlaces(s)) - 1
    BY <2>1, PlacesFinite, FS_RemoveElement
  <2> HIDE DEF P
  <2>3. Cardinality(RenderPlaces(t)) = Cardinality(RenderPlaces(s)) - 1
    BY <1>3, <2>2
  <2> QED BY <1>4, <2>3, Zenon DEF t
<1>5. CASE Head(s) # "render"
  <2>1. P = RenderPlaces(s)
    BY <1>1, <1>5 DEF RenderPlaces
  <2> QED BY <1>3, <1>5, <2>1, PlacesFinite DEF t
<1> QED BY <1>4, <1>5

\* The steps that change the queue, the jobs or who works on one.
LEMMA JobStep ==
  ASSUME BufferInv, JobPerFrame, [Next]_vars
  PROVE  JobPerFrame'
<1> DEFINE n == Cardinality(RenderPlaces(jobs))
<1>1. /\ jobs \in Seq(Jobs) /\ n \in Nat /\ render_queue_length \in Nat
      /\ is_shutdown_initiated \in BOOLEAN
  BY PlacesFinite, MaxType DEF BufferInv, TypeOK, Jobs
<1>2. RenderJobs = n + (IF rpc = "job" THEN 1 ELSE 0) + (IF vpc = "push" THEN 1 ELSE 0)
  BY DEF RenderJobs, RenderPlaces
<1>3. RenderJobs' = Cardinality(RenderPlaces(jobs')) + (IF rpc' = "job" THEN 1 ELSE 0)
                      + (IF vpc' = "push" THEN 1 ELSE 0)
  BY DEF RenderJobs, RenderPlaces
<1>4. is_shutdown_initiated \/ render_queue_length <= RenderJobs
  BY DEF JobPerFrame
<1> SUFFICES is_shutdown_initiated' \/ render_queue_length' <= RenderJobs'
  BY DEF JobPerFrame
<1>5. CASE RefreshEnqueue
  BY <1>1, <1>2, <1>3, <1>4, <1>5 DEF RefreshEnqueue, enqueue_for_display, thread
<1>6. CASE RefreshPush \/ FrameClock
  <2>1. CASE is_shutdown_initiated
    BY <1>6, <2>1 DEF RefreshPush, FrameClock, push_job
  <2>2. CASE ~is_shutdown_initiated
    <3>1. jobs' = Append(jobs, "render") /\ render_queue_length' = render_queue_length
          /\ rpc' = rpc /\ (vpc' = vpc \/ (vpc = "push" /\ vpc' = "idle"))
      BY <1>6, <2>2 DEF RefreshPush, FrameClock, push_job, queue
    <3>2. Cardinality(RenderPlaces(jobs')) = n + 1
      BY <1>1, <3>1, PlacesAppend DEF Jobs
    <3> QED BY <1>1, <1>2, <1>3, <1>4, <2>2, <3>1, <3>2
  <2> QED BY <2>1, <2>2
<1>7. CASE TakeJob
  <2>1. /\ jobs # << >> /\ jobs' = Tail(jobs) /\ rpc = "idle"
        /\ rpc' = (IF Head(jobs) = "render" THEN "job" ELSE "idle")
        /\ vpc' = vpc /\ render_queue_length' = render_queue_length
        /\ is_shutdown_initiated' = is_shutdown_initiated
    BY <1>7 DEF TakeJob, queue
  <2>2. /\ Head(jobs) = "render" => Cardinality(RenderPlaces(jobs')) = n - 1
        /\ Head(jobs) # "render" => Cardinality(RenderPlaces(jobs')) = n
    BY <1>1, <2>1, PlacesTail
  <2> QED BY <1>1, <1>2, <1>3, <1>4, <2>1, <2>2
<1>8. CASE RenderDequeue \/ RenderSkip
  <2>1. /\ jobs' = jobs /\ vpc' = vpc /\ rpc = "job" /\ rpc' # "job"
        /\ is_shutdown_initiated' = is_shutdown_initiated
        /\ render_queue_length' = (IF render_queue_length = 0 THEN 0 ELSE render_queue_length - 1)
    BY <1>8 DEF RenderDequeue, RenderSkip, dequeue_for_display, thread, queue
  <2> QED BY <1>1, <1>2, <1>3, <1>4, <2>1
<1>9. CASE on_widget_realized
  <2>1. /\ render_queue_length' = render_queue_length /\ rpc' = rpc /\ vpc' = vpc
        /\ is_shutdown_initiated' = is_shutdown_initiated
        /\ jobs = << >> /\ jobs' = <<"init">>
    BY <1>9 DEF on_widget_realized, BufferInv, ControlInv, queue
  <2>2. RenderPlaces(jobs) = {} /\ RenderPlaces(jobs') = {}
    BY <2>1 DEF RenderPlaces
  <2> QED BY <1>1, <1>2, <1>3, <1>4, <2>1, <2>2
<1>10. CASE initiate_shutdown
  <2>1. CASE is_shutdown_initiated'
    BY <2>1
  <2>2. CASE ~is_shutdown_initiated'
    <3>1. /\ jobs' = jobs /\ rpc' = rpc /\ vpc' = vpc /\ render_queue_length' = render_queue_length
          /\ is_shutdown_initiated' = is_shutdown_initiated
      BY <1>10, <2>2 DEF initiate_shutdown, queue
    <3> QED BY <1>2, <1>3, <1>4, <3>1
  <2> QED BY <2>1, <2>2
<1>11. CASE destroy_context
  <2>1. render_queue_length' = 0 /\ jobs' = jobs
    BY <1>11 DEF destroy_context, render_queue_destroy, thread
  <2> QED BY <1>1, <1>3, <2>1
<1>12. CASE \/ RefreshBegin \/ Draw \/ RefreshDiscard \/ ViceExits \/ RenderUpload \/ RenderPresent
            \/ UpdateBegin \/ UpdateView \/ UpdateEnd \/ render_thread_join \/ UNCHANGED vars
  <2>1. /\ jobs' = jobs /\ render_queue_length' = render_queue_length
        /\ is_shutdown_initiated' = is_shutdown_initiated
        /\ (rpc' = "job" <=> rpc = "job") /\ (vpc' = "push" <=> vpc = "push")
    BY <1>12 DEF RefreshBegin, Draw, RefreshDiscard, ViceExits, RenderUpload, RenderPresent,
       UpdateBegin, UpdateView, UpdateEnd, render_thread_join, vars, thread, queue
  <2> QED BY <1>2, <1>3, <1>4, <2>1
<1> QED BY <1>5, <1>6, <1>7, <1>8, <1>9, <1>10, <1>11, <1>12
    DEF Next, ViceNext, RenderNext, UiNext, Ended

\* render() finds a job for every frame that vice_opengl_refresh_rect() enqueued,
\* until the shutdown: no frame is left behind in the queue.
THEOREM JobsCoverFrames == Spec => []JobPerFrame
<1>1. Init => JobPerFrame
  <2> SUFFICES ASSUME Init PROVE JobPerFrame
    OBVIOUS
  <2>1. jobs \in Seq(Jobs) /\ render_queue_length = 0
    BY DEF Init
  <2>2. Cardinality(RenderPlaces(jobs)) \in Nat
    BY <2>1, PlacesFinite
  <2> QED BY <2>1, <2>2 DEF JobPerFrame, RenderJobs, RenderPlaces
<1>2. BufferInv /\ JobPerFrame /\ [Next]_vars => JobPerFrame'
  BY JobStep
<1> QED BY <1>1, <1>2, BufferInductive, PTL DEF Spec
=============================================================================
