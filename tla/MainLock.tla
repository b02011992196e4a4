------------------------------ MODULE MainLock ------------------------------
(***************************************************************************)
(* The main lock (src/mainlock.c): the VICE thread, which runs the         *)
(* emulation, owns main_lock except while it yields; the UI thread (GTK,   *)
(* the main thread) obtains it around the signal handlers that touch the   *)
(* emulation (vice_gtk3_locking.c).  A yielding VICE thread hands the lock *)
(* to a waiting UI thread and blocks until that has it.                    *)
(*                                                                         *)
(* Leaving the program: the UI thread runs main_exit() (gtk3main.c), that  *)
(* is ui_exit() with the lock, then vice_thread_shutdown() (main.c), which *)
(* tells the VICE thread to exit and joins it.  The VICE thread may also   *)
(* start it with archdep_vice_exit() (archdep_exit.c), which asks the UI   *)
(* thread to leave and ends the VICE thread on the spot.                   *)
(*                                                                         *)
(* Each step is one pthread call with the code up to the next one.  A      *)
(* thread that waits for a condition variable is "blocked" and becomes     *)
(* "woken" when it is signalled; it then needs internal_lock again.        *)
(***************************************************************************)
EXTENDS Naturals

VARIABLES
  main_lock,               \* owner: "none", "vice" or "ui"
  internal_lock,           \* owner
  main_lock_obtain_depth,
  ui_is_waiting,
  vice_thread_keepalive,
  vice_thread_is_running,
  vpc,                     \* where the VICE thread stands
  upc,                     \* where the UI thread stands
  quitting,                \* the UI thread is in main_exit()
  exit_requested,          \* exit_on_main_thread() is queued in the GTK loop
  owed                     \* history: the yield found the UI waiting, and since
                           \* then neither did the UI have the lock nor did the
                           \* wait end spuriously

flags == <<ui_is_waiting, vice_thread_keepalive, vice_thread_is_running>>
vars == <<main_lock, internal_lock, main_lock_obtain_depth, flags, vpc, upc,
          quitting, exit_requested, owed>>

Init ==
  /\ main_lock = "none"
  /\ internal_lock = "none"
  /\ main_lock_obtain_depth = 0
  /\ ui_is_waiting = FALSE
  /\ vice_thread_keepalive = TRUE
  /\ vice_thread_is_running = FALSE
  /\ vpc = "s_int"
  /\ upc = "idle"
  /\ quitting = FALSE
  /\ exit_requested = FALSE
  /\ owed = FALSE

-----------------------------------------------------------------------------
(* Parts of steps.                                                         *)

ViceGoes(from, to) == vpc = from /\ vpc' = to /\ UNCHANGED upc
UiGoes(from, to) == upc = from /\ upc' = to /\ UNCHANGED vpc

Lock(l, t) == l = "none" /\ l' = t
Unlock(l) == l' = "none"

rest == <<main_lock_obtain_depth, quitting, exit_requested>>

-----------------------------------------------------------------------------
(* The VICE thread.                                                        *)

\* The acquisitions of internal_lock: in mainlock_set_vice_thread(),
\* mainlock_yield_begin(), after its wait, in consider_exit() and in
\* mainlock_initiate_shutdown().
ViceLockInternal ==
  /\ \/ ViceGoes("s_int", "s_in")
     \/ ViceGoes("y_int", "y_in")
     \/ ViceGoes("y_woken", "y_out")
     \/ ViceGoes("e_int", "e_in")
     \/ ViceGoes("q_int", "q_in")
  /\ Lock(internal_lock, "vice")
  /\ UNCHANGED <<main_lock, flags, rest, owed>>

\* The acquisitions of main_lock: at the start of the thread and in
\* mainlock_yield_end().
ViceLockMain ==
  /\ \/ ViceGoes("s_main", "run")
     \/ ViceGoes("y_main", "e_int")
  /\ Lock(main_lock, "vice")
  /\ UNCHANGED <<internal_lock, flags, rest, owed>>

mainlock_set_vice_thread ==
  /\ ViceGoes("s_in", "s_main")
  /\ vice_thread_is_running' = TRUE
  /\ Unlock(internal_lock)
  /\ UNCHANGED <<main_lock, ui_is_waiting, vice_thread_keepalive, rest, owed>>

\* mainlock_yield_begin(): the emulation gives the lock away ...
YieldUnlock ==
  /\ ViceGoes("run", "y_int")
  /\ Unlock(main_lock)
  /\ UNCHANGED <<internal_lock, flags, rest, owed>>

\* Mutant: the VICE thread wakes the UI but does not wait for it.
YieldNoBlock ==
  /\ vpc = "y_in"
  /\ ui_is_waiting
  /\ vpc' = "y_main"
  /\ upc' = IF upc = "ob_blocked" THEN "ob_woken" ELSE upc
  /\ Unlock(internal_lock)
  /\ owed' = TRUE
  /\ UNCHANGED <<main_lock, flags, rest>>

\* ... and, if the UI is waiting, wakes it and waits until it has the lock;
YieldWait ==
  /\ vpc = "y_in"
  /\ ui_is_waiting
  /\ vpc' = "y_blocked"
  /\ upc' = IF upc = "ob_blocked" THEN "ob_woken" ELSE upc
  /\ Unlock(internal_lock)
  /\ owed' = TRUE
  /\ UNCHANGED <<main_lock, flags, rest>>

YieldNoWait ==
  /\ ~ui_is_waiting
  /\ ViceGoes("y_in", "y_main")
  /\ Unlock(internal_lock)
  /\ UNCHANGED <<main_lock, flags, rest, owed>>

YieldWoken ==
  /\ ViceGoes("y_out", "y_main")
  /\ Unlock(internal_lock)
  /\ UNCHANGED <<main_lock, flags, rest, owed>>

\* consider_exit(): the thread was told to die, and wakes a waiting UI,
ConsiderExit ==
  /\ vpc = "e_in"
  /\ ~vice_thread_keepalive
  /\ vpc' = "e_main"
  /\ vice_thread_is_running' = FALSE
  /\ upc' = IF ui_is_waiting /\ upc = "ob_blocked" THEN "ob_woken" ELSE upc
  /\ Unlock(internal_lock)
  /\ UNCHANGED <<main_lock, ui_is_waiting, vice_thread_keepalive, rest, owed>>

\* releases main_lock and exits,
ViceExits ==
  /\ ViceGoes("e_main", "exited")
  /\ Unlock(main_lock)
  /\ UNCHANGED <<internal_lock, flags, rest, owed>>

\* or goes on.
ConsiderStay ==
  /\ vice_thread_keepalive
  /\ ViceGoes("e_in", "run")
  /\ Unlock(internal_lock)
  /\ UNCHANGED <<main_lock, flags, rest, owed>>

\* archdep_vice_exit() on the VICE thread queues exit_on_main_thread().
ViceQuits ==
  /\ ViceGoes("run", "q_int")
  /\ exit_requested' = TRUE
  /\ UNCHANGED <<main_lock, internal_lock, flags, main_lock_obtain_depth, quitting, owed>>

\* mainlock_initiate_shutdown() on the VICE thread: consider_exit() follows,
\* unless a shutdown was initiated already; then the call returns.
InitiateExit ==
  /\ vice_thread_keepalive
  /\ ViceGoes("q_in", "e_int")
  /\ vice_thread_keepalive' = FALSE
  /\ Unlock(internal_lock)
  /\ UNCHANGED <<main_lock, ui_is_waiting, vice_thread_is_running, rest, owed>>

InitiateReturns ==
  /\ ~vice_thread_keepalive
  /\ ViceGoes("q_in", "returned")
  /\ Unlock(internal_lock)
  /\ UNCHANGED <<main_lock, flags, rest, owed>>

\* The assert(false) behind the call is compiled out unless debugging is
\* configured: the emulation goes on.
RunOn ==
  /\ ViceGoes("returned", "run")
  /\ UNCHANGED <<main_lock, internal_lock, flags, rest, owed>>

-----------------------------------------------------------------------------
(* The UI thread.                                                          *)

\* mainlock_obtain(): only the outermost call takes the lock.
mainlock_obtain(from) ==
  /\ upc = from
  /\ upc' = IF main_lock_obtain_depth > 0 THEN "inside" ELSE "ob_int"
  /\ main_lock_obtain_depth' = main_lock_obtain_depth + 1
  /\ UNCHANGED <<vpc, main_lock, internal_lock, flags, exit_requested, owed>>

\* The GTK loop runs a handler,
Obtain == mainlock_obtain("idle") /\ UNCHANGED quitting

\* and a handler triggers another one (once; deeper nesting is the same).
\* Only NestedSpec has this step.
ObtainNested ==
  /\ ~quitting
  /\ main_lock_obtain_depth = 1
  /\ mainlock_obtain("inside")
  /\ UNCHANGED quitting

UiLockInternal ==
  /\ \/ UiGoes("ob_int", "ob_in")
     \/ UiGoes("ob_woken", "ob_out")
     \/ UiGoes("sd_int", "sd_in")
  /\ Lock(internal_lock, "ui")
  /\ UNCHANGED <<main_lock, flags, rest, owed>>

\* Mutant: the UI tries again instead of waiting to be woken.
ObtainPolls ==
  /\ vice_thread_is_running
  /\ UiGoes("ob_in", "ob_int")
  /\ Unlock(internal_lock)
  /\ UNCHANGED <<main_lock, flags, rest, owed>>

ObtainWait ==
  /\ vice_thread_is_running
  /\ UiGoes("ob_in", "ob_blocked")
  /\ ui_is_waiting' = TRUE
  /\ Unlock(internal_lock)
  /\ UNCHANGED <<main_lock, vice_thread_keepalive, vice_thread_is_running, rest, owed>>

ObtainNotRunning ==
  /\ ~vice_thread_is_running
  /\ UiGoes("ob_in", "ob_main")
  /\ Unlock(internal_lock)
  /\ UNCHANGED <<main_lock, flags, rest, owed>>

ObtainWoken ==
  /\ UiGoes("ob_out", "ob_main")
  /\ ui_is_waiting' = FALSE
  /\ Unlock(internal_lock)
  /\ UNCHANGED <<main_lock, vice_thread_keepalive, vice_thread_is_running, rest, owed>>

\* Mutant: the UI goes ahead without main_lock.
UiSkipsMain ==
  /\ UiGoes("ob_main", "ob_signal")
  /\ owed' = FALSE
  /\ UNCHANGED <<main_lock, internal_lock, flags, rest>>

UiLockMain ==
  /\ UiGoes("ob_main", "ob_signal")
  /\ Lock(main_lock, "ui")
  /\ owed' = FALSE
  /\ UNCHANGED <<internal_lock, flags, rest>>

\* The VICE thread is told, without internal_lock, that the UI has main_lock.
UiSignal ==
  /\ upc = "ob_signal"
  /\ upc' = "inside"
  /\ vpc' = IF vpc = "y_blocked" THEN "y_woken" ELSE vpc
  /\ UNCHANGED <<main_lock, internal_lock, flags, rest, owed>>

\* mainlock_release(), at every depth.  (Unlocking a mutex that somebody else
\* owns is undefined; a normal mutex just becomes free.)
mainlock_release ==
  /\ upc = "inside"
  /\ upc' = IF quitting THEN "sd_int"
            ELSE IF main_lock_obtain_depth = 1 THEN "idle" ELSE "inside"
  /\ Unlock(main_lock)
  /\ main_lock_obtain_depth' = main_lock_obtain_depth - 1
  /\ UNCHANGED <<vpc, internal_lock, flags, quitting, exit_requested, owed>>

\* main_exit() calls ui_exit(), which obtains the lock: from the GTK loop, or
\* from a handler that has the lock already (quit_action()).
QuitUnlocked ==
  /\ ~quitting
  /\ quitting' = TRUE
  /\ mainlock_obtain("idle")

QuitLocked ==
  /\ ~quitting
  /\ main_lock_obtain_depth = 1
  /\ quitting' = TRUE
  /\ mainlock_obtain("inside")

exit_on_main_thread == exit_requested /\ QuitUnlocked

\* Mutant: the VICE thread is joined without having been told to exit.
ShutdownForgets ==
  /\ UiGoes("sd_in", "join")
  /\ Unlock(internal_lock)
  /\ UNCHANGED <<main_lock, flags, rest, owed>>

\* mainlock_initiate_shutdown() on the UI thread.
InitiateShutdown ==
  /\ UiGoes("sd_in", "join")
  /\ vice_thread_keepalive' = FALSE
  /\ Unlock(internal_lock)
  /\ UNCHANGED <<main_lock, ui_is_waiting, vice_thread_is_running, rest, owed>>

\* pthread_join(), machine_shutdown(), exit().
Join ==
  /\ vpc = "exited"
  /\ UiGoes("join", "ended")
  /\ UNCHANGED <<main_lock, internal_lock, flags, rest, owed>>

-----------------------------------------------------------------------------

\* pthread_cond_wait() may return without a signal, and neither wait of
\* mainlock.c is in a loop.
SpuriousWakeup ==
  /\ \/ ViceGoes("y_blocked", "y_woken") /\ owed' = FALSE
     \/ UiGoes("ob_blocked", "ob_woken") /\ UNCHANGED owed
  /\ UNCHANGED <<main_lock, internal_lock, flags, rest>>

ViceRuns ==
  \/ mainlock_set_vice_thread \/ YieldUnlock \/ YieldWait \/ YieldNoWait \/ YieldWoken
  \/ ConsiderExit \/ ViceExits \/ ConsiderStay
  \/ InitiateExit \/ InitiateReturns \/ RunOn

UiRuns ==
  \/ ObtainWait \/ ObtainNotRunning \/ ObtainWoken \/ UiSignal
  \/ mainlock_release \/ InitiateShutdown \/ Join

\* The process has ended.
Ended == upc = "ended" /\ UNCHANGED vars

Next ==
  \/ ViceRuns \/ ViceLockInternal \/ ViceLockMain \/ ViceQuits
  \/ UiRuns \/ UiLockInternal \/ UiLockMain
  \/ Obtain \/ QuitUnlocked \/ QuitLocked
  \/ SpuriousWakeup
  \/ Ended

\* Handlers do not nest, except that a handler may leave the program.
Spec == Init /\ [][Next]_vars

\* Handlers trigger handlers that obtain the lock again.
NestedSpec == Init /\ [][Next \/ ObtainNested]_vars

\* Both threads run, the emulation yields, handlers return, a mutex lets a
\* waiting thread in eventually, and the GTK loop gets to a queued callback.
FairSpec ==
  /\ Spec
  /\ WF_vars(ViceRuns) /\ SF_vars(YieldUnlock)
  /\ SF_vars(ViceLockInternal) /\ SF_vars(ViceLockMain)
  /\ WF_vars(UiRuns) /\ SF_vars(UiLockInternal) /\ SF_vars(UiLockMain)
  /\ SF_vars(exit_on_main_thread)

-----------------------------------------------------------------------------
(* Properties.                                                             *)

VicePcs == {"s_int", "s_in", "s_main", "run", "y_int", "y_in", "y_blocked", "y_woken",
            "y_out", "y_main", "e_int", "e_in", "e_main", "q_int", "q_in",
            "returned", "exited"}
UiPcs == {"idle", "ob_int", "ob_in", "ob_blocked", "ob_woken", "ob_out", "ob_main",
          "ob_signal", "inside", "sd_int", "sd_in", "join", "ended"}

\* Every variable keeps its type.
TypeOK ==
  /\ main_lock \in {"none", "vice", "ui"}
  /\ internal_lock \in {"none", "vice", "ui"}
  /\ main_lock_obtain_depth \in 0 .. 2
  /\ ui_is_waiting \in BOOLEAN
  /\ vice_thread_keepalive \in BOOLEAN
  /\ vice_thread_is_running \in BOOLEAN
  /\ vpc \in VicePcs
  /\ upc \in UiPcs
  /\ quitting \in BOOLEAN
  /\ exit_requested \in BOOLEAN
  /\ owed \in BOOLEAN

\* "This is lock coordinates access to VICE data structures" (the comment of
\* main_lock): the emulation never runs while a UI handler, or ui_exit(), is
\* between mainlock_obtain() and the matching mainlock_release().
MutualExclusion == ~(upc = "inside" /\ vpc \in {"run", "returned"})

\* mainlock_yield_begin(): a yield that found the UI waiting does not end
\* before the UI has had the lock, unless the wait itself ends spuriously, so
\* thread priorities do not matter.
HandOver == vpc = "y_main" => ~owed

\* Where each thread owns which lock and how deep the UI is; the strengthening of MutualExclusion.
LockInv ==
  /\ main_lock = "vice" <=>
       vpc \in {"run", "e_int", "e_in", "e_main", "q_int", "q_in", "returned"}
  /\ main_lock = "ui" <=> upc \in {"ob_signal", "inside"}
  /\ internal_lock = "vice" <=> vpc \in {"s_in", "y_in", "y_out", "e_in", "q_in"}
  /\ internal_lock = "ui" <=> upc \in {"ob_in", "ob_out", "sd_in"}
  /\ upc = "idle" => main_lock_obtain_depth = 0
  /\ upc \in {"ob_int", "ob_in", "ob_blocked", "ob_woken", "ob_out", "ob_main", "ob_signal"}
       => main_lock_obtain_depth = 1
  /\ upc = "inside" =>
       main_lock_obtain_depth > 0 /\ (quitting \/ main_lock_obtain_depth = 1)

\* A UI thread that asks for the lock gets it, whether the VICE thread is
\* starting, running, yielding, exiting or gone.
UiGetsLock ==
  upc \in {"ob_int", "ob_in", "ob_blocked", "ob_woken", "ob_out", "ob_main"}
    ~> upc = "inside"

\* Leaving the program ends it, whoever starts: nobody waits for ever for a
\* lock, a signal or the other thread.
ExitCompletes == quitting \/ exit_requested ~> upc = "ended"

=============================================================================
