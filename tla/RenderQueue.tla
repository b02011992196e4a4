---------------------------- MODULE RenderQueue -----------------------------
(***************************************************************************)
(* The way of a frame to the screen in the GTK3 OpenGL backend.  The VICE  *)
(* thread takes a backbuffer from the pool, draws into it without a lock   *)
(* and enqueues it (vice_opengl_refresh_rect() in opengl_renderer.c); the  *)
(* render thread dequeues it, uploads it and returns it to the pool        *)
(* (render()); the UI thread asks for repaints, on macOS suspends          *)
(* rendering during a resize, and at the end of the program joins the      *)
(* render thread and destroys the context.  The pool and the queue are     *)
(* render_queue.c, the job queue is render_thread.c on a GThreadPool with  *)
(* one thread.                                                             *)
(*                                                                         *)
(* A step is what one thread does between two points where another can     *)
(* come in.  Everything on the queue happens under the canvas lock; the    *)
(* lock is a variable where a thread keeps it across such a point.         *)
(***************************************************************************)
EXTENDS Integers, Sequences, FiniteSets

CONSTANTS
  RENDER_QUEUE_MAX_BACKBUFFERS,
  Macos,        \* the macOS view, whose -update suspends rendering
  MaxFrames,    \* bound: frames drawn
  MaxJobs       \* bound: jobs waiting when a repaint is asked for

ASSUME RenderAssumption ==
  /\ RENDER_QUEUE_MAX_BACKBUFFERS \in Nat \ {0}
  /\ Macos \in BOOLEAN
  /\ MaxFrames \in Nat
  /\ MaxJobs \in Nat

MAX == RENDER_QUEUE_MAX_BACKBUFFERS
Index == 0 .. MAX - 1
Buffers == 0 .. MAX - 1
NULL == -1

VARIABLES
  backbuffer_stack, backbuffer_stack_size,
  render_queue, render_queue_length, render_queue_next,
  pixel_data,              \* the number of the frame in each backbuffer
  freed,                   \* the backbuffers render_queue_destroy() has freed
  jobs,                    \* the jobs waiting in the executor
  executor,                \* "none", "live" or "freed"
  is_shutdown_initiated,
  canvas_lock, render_lock, render_skip,
  vpc, vbuf,               \* VICE thread and its backbuffer
  rpc, rbuf,               \* render thread and its backbuffer
  upc,                     \* UI thread
  drawn,                   \* history: the number of frames drawn
  shown                    \* history: the frame last uploaded, 0 for none

pool == <<backbuffer_stack, backbuffer_stack_size>>
queue == <<render_queue, render_queue_length, render_queue_next>>
thread == <<jobs, executor, is_shutdown_initiated>>
history == <<drawn, shown>>
vars == <<pool, queue, pixel_data, freed, thread, canvas_lock, render_lock,
          render_skip, vpc, vbuf, rpc, rbuf, upc, history>>

\* render_queue_create(), with a window that is realized later.
Init ==
  /\ backbuffer_stack = [i \in Index |-> i]
  /\ backbuffer_stack_size = MAX
  /\ render_queue = [i \in Index |-> NULL]
  /\ render_queue_length = 0
  /\ render_queue_next = 0
  /\ pixel_data = [b \in Buffers |-> 0]
  /\ freed = {}
  /\ jobs = << >> /\ executor = "none" /\ is_shutdown_initiated = FALSE
  /\ canvas_lock = "none" /\ render_lock = "none" /\ render_skip = FALSE
  /\ vpc = "idle" /\ vbuf = NULL
  /\ rpc = "idle" /\ rbuf = NULL
  /\ upc = "idle"
  /\ drawn = 0 /\ shown = 0

-----------------------------------------------------------------------------
(* render_queue.c and render_thread.c.                                     *)

\* The place of the i-th waiting backbuffer in the ring.
Slot(i) == (render_queue_next + i) % MAX

\* The i-th waiting backbuffer.
Queued(i) == render_queue[Slot(i)]

\* Mutant: the buffer taken stays in the pool.
GetStays(b) ==
  /\ backbuffer_stack_size > 0
  /\ b = backbuffer_stack[backbuffer_stack_size - 1]
  /\ UNCHANGED pool

get_from_pool(b) ==
  /\ backbuffer_stack_size > 0
  /\ b = backbuffer_stack[backbuffer_stack_size - 1]
  /\ backbuffer_stack_size' = backbuffer_stack_size - 1
  /\ UNCHANGED backbuffer_stack

return_to_pool(b) ==
  /\ backbuffer_stack' = [backbuffer_stack EXCEPT ![backbuffer_stack_size] = b]
  /\ backbuffer_stack_size' = backbuffer_stack_size + 1

enqueue_for_display(b) ==
  /\ render_queue' = [render_queue EXCEPT ![Slot(render_queue_length)] = b]
  /\ render_queue_length' = render_queue_length + 1
  /\ UNCHANGED render_queue_next

\* Mutant: render_queue_next stays where it is.
DequeueStays(b) ==
  \/ /\ render_queue_length = 0
     /\ b = NULL
     /\ UNCHANGED queue
  \/ /\ render_queue_length > 0
     /\ b = render_queue[render_queue_next]
     /\ render_queue_length' = render_queue_length - 1
     /\ UNCHANGED <<render_queue, render_queue_next>>

\* Mutant: the newest frame first.
DequeueNewest(b) ==
  \/ /\ render_queue_length = 0
     /\ b = NULL
     /\ UNCHANGED queue
  \/ /\ render_queue_length > 0
     /\ b = Queued(render_queue_length - 1)
     /\ render_queue_length' = render_queue_length - 1
     /\ UNCHANGED <<render_queue, render_queue_next>>

dequeue_for_display(b) ==
  \/ /\ render_queue_length = 0
     /\ b = NULL
     /\ UNCHANGED queue
  \/ /\ render_queue_length > 0
     /\ b = render_queue[render_queue_next]
     /\ render_queue_next' = (render_queue_next + 1) % MAX
     /\ render_queue_length' = render_queue_length - 1
     /\ UNCHANGED render_queue

InPool == {backbuffer_stack[i] : i \in 0 .. backbuffer_stack_size - 1}
InQueue == {Queued(i) : i \in 0 .. render_queue_length - 1}

\* Mutant: only the unused backbuffers are freed.
DestroyPoolOnly ==
  /\ freed' = InPool
  /\ backbuffer_stack_size' = 0
  /\ render_queue_length' = 0
  /\ UNCHANGED <<backbuffer_stack, render_queue, render_queue_next>>

render_queue_destroy ==
  /\ freed' = InPool \cup InQueue
  /\ backbuffer_stack_size' = 0
  /\ render_queue_length' = 0
  /\ UNCHANGED <<backbuffer_stack, render_queue, render_queue_next>>

\* Mutant: no job is pushed while another waits.
PushMerged(job) ==
  /\ jobs' = IF is_shutdown_initiated \/ jobs # << >> THEN jobs ELSE Append(jobs, job)
  /\ UNCHANGED <<executor, is_shutdown_initiated>>

\* Mutant: the shutdown is not looked at.
PushAlways(job) ==
  /\ jobs' = Append(jobs, job)
  /\ UNCHANGED <<executor, is_shutdown_initiated>>

\* A job pushed after the shutdown has begun is ignored.
push_job(job) ==
  /\ jobs' = IF is_shutdown_initiated THEN jobs ELSE Append(jobs, job)
  /\ UNCHANGED <<executor, is_shutdown_initiated>>

-----------------------------------------------------------------------------
(* The VICE thread: vice_opengl_refresh_rect(), which returns at once if   *)
(* there is no context or no free backbuffer.                              *)

RefreshBegin ==
  /\ vpc = "idle"
  /\ canvas_lock = "none"
  /\ drawn < MaxFrames
  /\ get_from_pool(vbuf')
  /\ vpc' = "drawing"
  /\ UNCHANGED <<queue, pixel_data, freed, thread, canvas_lock, render_lock,
                 render_skip, rpc, rbuf, upc, history>>

\* video_canvas_render(), without the canvas lock.
Draw ==
  /\ vpc = "drawing"
  /\ drawn' = drawn + 1
  /\ pixel_data' = [pixel_data EXCEPT ![vbuf] = drawn + 1]
  /\ vpc' = "drawn"
  /\ UNCHANGED <<pool, queue, freed, thread, canvas_lock, render_lock,
                 render_skip, vbuf, rpc, rbuf, upc, shown>>

RefreshEnqueue ==
  /\ vpc = "drawn"
  /\ canvas_lock = "none"
  /\ executor # "none"
  /\ enqueue_for_display(vbuf)
  /\ canvas_lock' = "vice"
  /\ vpc' = "push"
  /\ vbuf' = NULL
  /\ UNCHANGED <<pool, pixel_data, freed, thread, render_lock, render_skip,
                 rpc, rbuf, upc, history>>

RefreshPush ==
  /\ vpc = "push"
  /\ push_job("render")
  /\ canvas_lock' = "none"
  /\ vpc' = "idle"
  /\ UNCHANGED <<pool, queue, pixel_data, freed, render_lock, render_skip,
                 vbuf, rpc, rbuf, upc, history>>

\* context->render_thread is NULL.
RefreshDiscard ==
  /\ vpc = "drawn"
  /\ canvas_lock = "none"
  /\ executor = "none"
  /\ return_to_pool(vbuf)
  /\ vpc' = "idle"
  /\ vbuf' = NULL
  /\ UNCHANGED <<queue, pixel_data, freed, thread, canvas_lock, render_lock,
                 render_skip, rpc, rbuf, upc, history>>

\* The VICE thread ends in a yield or in archdep_vice_exit(), never within a
\* refresh.
ViceExits ==
  /\ vpc = "idle"
  /\ vpc' = "exited"
  /\ UNCHANGED <<pool, queue, pixel_data, freed, thread, canvas_lock, render_lock,
                 render_skip, vbuf, rpc, rbuf, upc, history>>

-----------------------------------------------------------------------------
(* The render thread: the executor calls render() for each job in turn.    *)

TakeJob ==
  /\ rpc = "idle"
  /\ jobs # << >>
  /\ jobs' = Tail(jobs)
  /\ rpc' = IF Head(jobs) = "render" THEN "job" ELSE "idle"
  /\ UNCHANGED <<pool, queue, pixel_data, freed, executor, is_shutdown_initiated,
                 canvas_lock, render_lock, render_skip, vpc, vbuf, rbuf, upc, history>>

\* The canvas lock stays with the thread while it waits for the render lock.
RenderDequeue ==
  /\ rpc = "job"
  /\ canvas_lock = "none"
  /\ ~render_skip
  /\ dequeue_for_display(rbuf')
  /\ canvas_lock' = "render"
  /\ rpc' = "dequeued"
  /\ UNCHANGED <<pool, pixel_data, freed, thread, render_lock, render_skip,
                 vpc, vbuf, upc, history>>

\* A resize is going on: the frame, if there is one, is dropped.
RenderSkip ==
  /\ rpc = "job"
  /\ canvas_lock = "none"
  /\ render_skip
  /\ \E b \in Buffers \cup {NULL} :
       /\ dequeue_for_display(b)
       /\ IF b # NULL THEN return_to_pool(b) ELSE UNCHANGED pool
  /\ rpc' = "idle"
  /\ UNCHANGED <<pixel_data, freed, thread, canvas_lock, render_lock, render_skip,
                 vpc, vbuf, rbuf, upc, history>>

\* update_frame_textures() and the layout.
RenderUpload ==
  /\ rpc = "dequeued"
  /\ render_lock = "none"
  /\ render_lock' = "render"
  /\ IF rbuf # NULL
       THEN shown' = pixel_data[rbuf] /\ return_to_pool(rbuf)
       ELSE UNCHANGED <<shown, pool>>
  /\ rbuf' = NULL
  /\ canvas_lock' = "none"
  /\ rpc' = "presenting"
  /\ UNCHANGED <<queue, pixel_data, freed, thread, render_skip, vpc, vbuf, upc, drawn>>

\* Mutant: the render lock is kept.
PresentKeepsLock ==
  /\ rpc = "presenting"
  /\ rpc' = "idle"
  /\ UNCHANGED <<pool, queue, pixel_data, freed, thread, canvas_lock, render_lock,
                 render_skip, vpc, vbuf, rbuf, upc, history>>

RenderPresent ==
  /\ rpc = "presenting"
  /\ render_lock' = "none"
  /\ rpc' = "idle"
  /\ UNCHANGED <<pool, queue, pixel_data, freed, thread, canvas_lock, render_skip,
                 vpc, vbuf, rbuf, upc, history>>

-----------------------------------------------------------------------------
(* The UI thread.                                                          *)

\* Before the VICE thread runs, refreshes happen on the same thread.
on_widget_realized ==
  /\ upc = "idle"
  /\ executor = "none"
  /\ vpc = "idle"
  /\ canvas_lock = "none"
  /\ executor' = "live"
  /\ jobs' = <<"init">>
  /\ UNCHANGED <<pool, queue, pixel_data, freed, is_shutdown_initiated, canvas_lock,
                 render_lock, render_skip, vpc, vbuf, rpc, rbuf, upc, history>>

\* vice_opengl_on_ui_frame_clock() while the emulation is paused.
FrameClock ==
  /\ upc = "idle"
  /\ executor # "none"
  /\ canvas_lock = "none"
  /\ Len(jobs) < MaxJobs
  /\ push_job("render")
  /\ UNCHANGED <<pool, queue, pixel_data, freed, canvas_lock, render_lock,
                 render_skip, vpc, vbuf, rpc, rbuf, upc, history>>

\* -update of the macOS view: no rendering until the resize is handled.
UpdateBegin ==
  /\ Macos
  /\ upc = "idle"
  /\ executor # "none"
  /\ canvas_lock = "none"
  /\ render_skip' = TRUE
  /\ upc' = "update"
  /\ UNCHANGED <<pool, queue, pixel_data, freed, thread, canvas_lock, render_lock,
                 vpc, vbuf, rpc, rbuf, history>>

\* [super update], with the render lock.
UpdateView ==
  /\ upc = "update"
  /\ render_lock = "none"
  /\ upc' = "updated"
  /\ UNCHANGED <<pool, queue, pixel_data, freed, thread, canvas_lock, render_lock,
                 render_skip, vpc, vbuf, rpc, rbuf, history>>

UpdateEnd ==
  /\ upc = "updated"
  /\ canvas_lock = "none"
  /\ render_skip' = FALSE
  /\ upc' = "idle"
  /\ UNCHANGED <<pool, queue, pixel_data, freed, thread, canvas_lock, render_lock,
                 vpc, vbuf, rpc, rbuf, history>>

\* main_exit() calls render_thread_shutdown_and_join_all().
initiate_shutdown ==
  /\ upc = "idle"
  /\ IF executor = "live"
       THEN /\ is_shutdown_initiated' = TRUE
            /\ jobs' = Append(jobs, "shutdown")
            /\ upc' = "join"
       ELSE /\ upc' = "ui_exit"
            /\ UNCHANGED <<is_shutdown_initiated, jobs>>
  /\ UNCHANGED <<pool, queue, pixel_data, freed, executor, canvas_lock, render_lock,
                 render_skip, vpc, vbuf, rpc, rbuf, history>>

\* g_thread_pool_free() waits for all jobs.
render_thread_join ==
  /\ upc = "join"
  /\ jobs = << >>
  /\ rpc = "idle"
  /\ executor' = "freed"
  /\ upc' = "ui_exit"
  /\ UNCHANGED <<pool, queue, pixel_data, freed, jobs, is_shutdown_initiated,
                 canvas_lock, render_lock, render_skip, vpc, vbuf, rpc, rbuf, history>>

\* ui_exit(), vice_thread_shutdown() and, in machine_shutdown(),
\* video_canvas_destroy(), which destroys the context.
destroy_context ==
  /\ upc = "ui_exit"
  /\ vpc = "exited"
  /\ canvas_lock = "none"
  /\ render_queue_destroy
  /\ upc' = "ended"
  /\ UNCHANGED <<pixel_data, thread, canvas_lock, render_lock, render_skip,
                 vpc, vbuf, rpc, rbuf, history>>

\* exit() ends the process.
Ended == upc = "ended" /\ UNCHANGED vars

-----------------------------------------------------------------------------
ViceNext ==
  \/ RefreshBegin \/ Draw \/ RefreshEnqueue \/ RefreshPush \/ RefreshDiscard
  \/ ViceExits
RenderNext ==
  \/ TakeJob \/ RenderDequeue \/ RenderSkip \/ RenderUpload \/ RenderPresent
UiNext ==
  \/ on_widget_realized \/ FrameClock \/ UpdateBegin \/ UpdateView \/ UpdateEnd
  \/ initiate_shutdown \/ render_thread_join \/ destroy_context \/ Ended

Next == ViceNext \/ RenderNext \/ UiNext
Spec == Init /\ [][Next]_vars

\* Every thread keeps running; a thread that finds a mutex free again and
\* again gets it; a thread that leaves a refresh again and again sees in a
\* yield that it has to exit.
Fairness ==
  /\ WF_vars(Draw) /\ WF_vars(RefreshPush)
  /\ SF_vars(RefreshEnqueue) /\ SF_vars(RefreshDiscard)
  /\ SF_vars(upc = "ui_exit" /\ ViceExits)
  /\ WF_vars(TakeJob) /\ WF_vars(RenderPresent)
  /\ SF_vars(RenderDequeue) /\ SF_vars(RenderSkip) /\ SF_vars(RenderUpload)
  /\ SF_vars(UpdateView) /\ SF_vars(UpdateEnd)
  /\ WF_vars(render_thread_join) /\ SF_vars(destroy_context)
FairSpec == Spec /\ Fairness
-----------------------------------------------------------------------------
(* Properties.                                                             *)

\* Every variable keeps its type.
TypeOK ==
  /\ backbuffer_stack \in [Index -> Buffers]
  /\ backbuffer_stack_size \in 0 .. MAX
  /\ render_queue \in [Index -> Buffers \cup {NULL}]
  /\ render_queue_length \in 0 .. MAX
  /\ render_queue_next \in Index
  /\ pixel_data \in [Buffers -> Nat]
  /\ freed \in SUBSET Buffers
  /\ jobs \in Seq({"init", "render", "shutdown"})
  /\ executor \in {"none", "live", "freed"}
  /\ is_shutdown_initiated \in BOOLEAN
  /\ canvas_lock \in {"none", "vice", "render"}
  /\ render_lock \in {"none", "render"}
  /\ render_skip \in BOOLEAN
  /\ vpc \in {"idle", "drawing", "drawn", "push", "exited"}
  /\ vbuf \in Buffers \cup {NULL}
  /\ rpc \in {"idle", "job", "dequeued", "presenting"}
  /\ rbuf \in Buffers \cup {NULL}
  /\ upc \in {"idle", "update", "updated", "join", "ui_exit", "ended"}
  /\ drawn \in Nat /\ shown \in Nat

PoolDistinct ==
  \A i, j \in 0 .. backbuffer_stack_size - 1 :
    i # j => backbuffer_stack[i] # backbuffer_stack[j]
QueueDistinct ==
  \A i, j \in 0 .. render_queue_length - 1 : i # j => Queued(i) # Queued(j)
Apart ==
  /\ InPool \cap InQueue = {}
  /\ {vbuf, rbuf} \cap InPool = {}
  /\ {NULL, vbuf, rbuf} \cap InQueue = {}
  /\ vbuf = rbuf => vbuf = NULL
  /\ (InPool \cup InQueue \cup {vbuf, rbuf}) \cap freed = {}

\* No backbuffer is in two places: not twice in the pool or the queue, not
\* drawn into by the VICE thread while it waits, is uploaded or is free to be
\* taken, and not used after render_queue_destroy() has freed it.
NotShared == PoolDistinct /\ QueueDistinct /\ Apart

\* No backbuffer gets lost: each is in the pool, in the queue, with a thread
\* or freed, so that render_queue_destroy() at the end frees them all.
NotLost ==
  /\ \A b \in Buffers : b \in InPool \cup InQueue \cup {vbuf, rbuf} \cup freed
  /\ upc = "ended" => freed = Buffers

\* The assertions of render_queue_enqueue_for_display() and
\* render_queue_return_to_pool(): there is room for every backbuffer that a
\* thread holds or the render thread is about to take from the queue.
RoomForHeld ==
  /\ vbuf # NULL => render_queue_length < MAX /\ backbuffer_stack_size < MAX
  /\ rbuf # NULL \/ render_queue_length > 0 => backbuffer_stack_size < MAX

RenderJobs ==
  Cardinality({i \in 1 .. Len(jobs) : jobs[i] = "render"})
    + (IF rpc = "job" THEN 1 ELSE 0) + (IF vpc = "push" THEN 1 ELSE 0)

\* vice_opengl_refresh_rect() pushes a job for every frame it enqueues and
\* render() takes one frame a job: until the shutdown there is a job on the
\* way for every frame that waits.
JobPerFrame == is_shutdown_initiated \/ render_queue_length <= RenderJobs

\* g_thread_pool_free() has released the executor: nothing is pushed on it,
\* although the VICE thread goes on drawing until it is joined later.
NoPushOnFreed == executor = "freed" => jobs = << >> /\ rpc = "idle"

\* render() never goes back to an older frame.
FramesInOrder == [][shown' > shown]_shown

Waits(f) == \E i \in 0 .. render_queue_length - 1 : pixel_data[Queued(i)] = f

\* What the proofs add to NotShared and NotLost: the number of backbuffers,
\* who may hold one, who holds the canvas lock, and how far an exit has come.
Held(b) == IF b = NULL THEN 0 ELSE 1
ControlInv ==
  /\ freed = {} =>
       backbuffer_stack_size + render_queue_length + Held(vbuf) + Held(rbuf) = MAX
  /\ vbuf # NULL <=> vpc \in {"drawing", "drawn"}
  /\ rbuf # NULL => rpc = "dequeued"
  /\ canvas_lock = "vice" <=> vpc = "push"
  /\ canvas_lock = "render" <=> rpc = "dequeued"
  /\ IF upc = "ended"
       THEN backbuffer_stack_size = 0 /\ render_queue_length = 0 /\ vpc = "exited"
       ELSE freed = {}
  /\ executor = "none" => jobs = << >> /\ rpc = "idle"
  /\ executor = "freed" => is_shutdown_initiated
  /\ vpc = "push" => executor # "none"
  /\ upc \in {"ui_exit", "ended"} => executor # "live"
  /\ upc = "join" => is_shutdown_initiated

\* Why frames stay in order: the frames uploaded, in upload, waiting and being
\* enqueued increase in this order.
OrderInv ==
  /\ shown <= drawn
  /\ \A i, j \in 0 .. render_queue_length - 1 :
       i < j => pixel_data[Queued(i)] < pixel_data[Queued(j)]
  /\ \A i \in 0 .. render_queue_length - 1 :
       /\ shown < pixel_data[Queued(i)] /\ pixel_data[Queued(i)] <= drawn
       /\ vpc = "drawn" => pixel_data[Queued(i)] < drawn
       /\ rbuf # NULL => pixel_data[rbuf] < pixel_data[Queued(i)]
  /\ rbuf # NULL => shown < pixel_data[rbuf] /\ pixel_data[rbuf] <= drawn
  /\ vpc = "drawn" => pixel_data[vbuf] = drawn /\ shown < drawn
  /\ vpc = "drawn" /\ rbuf # NULL => pixel_data[rbuf] < drawn

\* A frame whose job was pushed before the shutdown is taken from the queue.
FrameTaken ==
  \A f \in 1 .. MaxFrames :
    Waits(f) /\ vpc # "push" /\ ~is_shutdown_initiated ~> ~Waits(f)

\* main_exit() gets through render_thread_join() and to the end.
JoinCompletes == upc = "join" ~> upc = "ended"

=============================================================================
