--------------------------- MODULE MainLockProofs ---------------------------
(***************************************************************************)
(* Proofs about the main lock.  Mutual exclusion needs handlers that do    *)
(* not nest (Spec): under NestedSpec it does not hold.                     *)
(* The hand-over does not (NestedSpec).                                    *)
(***************************************************************************)
EXTENDS MainLock, TLAPS

IInv == TypeOK /\ LockInv

\* Nobody owns a lock at the start.
LEMMA InitInv == Init => IInv
<1> SUFFICES ASSUME Init PROVE IInv
  OBVIOUS
<1>1. TypeOK
  <2>1. main_lock_obtain_depth \in 0 .. 2 BY DEF Init
  <2>2. /\ main_lock \in {"none", "vice", "ui"} /\ internal_lock \in {"none", "vice", "ui"}
        /\ vpc \in VicePcs /\ upc \in UiPcs
    BY DEF Init, VicePcs, UiPcs
  <2> QED BY <2>1, <2>2, Zenon DEF Init, TypeOK
<1>2. LockInv BY DEF Init, LockInv
<1> QED BY <1>1, <1>2 DEF IInv

\* The steps of the VICE thread keep the table of who owns what.
LEMMA ViceInv ==
  ASSUME IInv, ViceRuns \/ ViceLockInternal \/ ViceLockMain \/ ViceQuits
  PROVE  IInv'
<1> USE DEF IInv, TypeOK, LockInv, VicePcs, UiPcs, ViceGoes, Lock, Unlock, flags, rest
<1>1. CASE mainlock_set_vice_thread BY <1>1 DEF mainlock_set_vice_thread
<1>2. CASE YieldUnlock BY <1>2 DEF YieldUnlock
<1>3. CASE YieldWait BY <1>3 DEF YieldWait
<1>4. CASE YieldNoWait BY <1>4 DEF YieldNoWait
<1>5. CASE YieldWoken BY <1>5 DEF YieldWoken
<1>6. CASE ConsiderExit BY <1>6 DEF ConsiderExit
<1>7. CASE ViceExits BY <1>7 DEF ViceExits
<1>8. CASE ConsiderStay BY <1>8 DEF ConsiderStay
<1>9. CASE InitiateExit BY <1>9 DEF InitiateExit
<1>10. CASE InitiateReturns BY <1>10 DEF InitiateReturns
<1>11. CASE RunOn BY <1>11 DEF RunOn
<1>12. CASE ViceLockInternal BY <1>12 DEF ViceLockInternal
<1>13. CASE ViceLockMain BY <1>13 DEF ViceLockMain
<1>14. CASE ViceQuits BY <1>14 DEF ViceQuits
<1> QED BY <1>1, <1>2, <1>3, <1>4, <1>5, <1>6, <1>7, <1>8, <1>9, <1>10, <1>11,
           <1>12, <1>13, <1>14 DEF ViceRuns

\* The steps of the UI thread keep it too, if handlers do not nest.
LEMMA UiInv ==
  ASSUME IInv,
         \/ UiRuns \/ UiLockInternal \/ UiLockMain
         \/ Obtain \/ QuitUnlocked \/ QuitLocked
  PROVE  IInv'
<1> USE DEF IInv, TypeOK, LockInv, VicePcs, UiPcs, UiGoes, Lock, Unlock, flags, rest
<1>1. CASE ObtainWait BY <1>1 DEF ObtainWait
<1>2. CASE ObtainNotRunning BY <1>2 DEF ObtainNotRunning
<1>3. CASE ObtainWoken BY <1>3 DEF ObtainWoken
<1>4. CASE UiSignal BY <1>4 DEF UiSignal
<1>5. CASE mainlock_release BY <1>5 DEF mainlock_release
<1>6. CASE InitiateShutdown BY <1>6 DEF InitiateShutdown
<1>7. CASE Join BY <1>7 DEF Join
<1>8. CASE UiLockInternal BY <1>8 DEF UiLockInternal
<1>9. CASE UiLockMain BY <1>9 DEF UiLockMain
<1>10. CASE Obtain BY <1>10 DEF Obtain, mainlock_obtain
<1>11. CASE QuitUnlocked BY <1>11 DEF QuitUnlocked, mainlock_obtain
<1>12. CASE QuitLocked BY <1>12 DEF QuitLocked, mainlock_obtain
<1> QED BY <1>1, <1>2, <1>3, <1>4, <1>5, <1>6, <1>7, <1>8, <1>9, <1>10, <1>11,
           <1>12 DEF UiRuns

\* The table of who owns which lock is an invariant of both threads.
THEOREM MainLockInductive ==
  Spec => []IInv
<1>1. IInv /\ [Next]_vars => IInv'
  <2> SUFFICES ASSUME IInv, [Next]_vars PROVE IInv'
    OBVIOUS
  <2>1. CASE ViceRuns \/ ViceLockInternal \/ ViceLockMain \/ ViceQuits
    BY <2>1, ViceInv
  <2>2. CASE \/ UiRuns \/ UiLockInternal \/ UiLockMain
             \/ Obtain \/ QuitUnlocked \/ QuitLocked
    BY <2>2, UiInv
  <2>3. CASE SpuriousWakeup
    <3> USE DEF IInv, TypeOK, LockInv, VicePcs, UiPcs, ViceGoes, UiGoes, flags, rest
    <3>1. CASE ViceGoes("y_blocked", "y_woken") /\ owed' = FALSE
      BY <2>3, <3>1 DEF SpuriousWakeup
    <3>2. CASE UiGoes("ob_blocked", "ob_woken") /\ UNCHANGED owed
      BY <2>3, <3>2 DEF SpuriousWakeup
    <3> QED BY <2>3, <3>1, <3>2 DEF SpuriousWakeup
  <2>4. CASE UNCHANGED vars
    BY <2>4 DEF IInv, TypeOK, LockInv, vars, flags
  <2> QED BY <2>1, <2>2, <2>3, <2>4 DEF Next, Ended
<1> QED BY <1>1, InitInv, PTL DEF Spec

\* The emulation and UI handlers exclude each other, whatever the order of
\* yields, handlers, shutdown and spurious wakeups, as long as handlers do
\* not nest.
THEOREM MainLockExclusion ==
  Spec => []MutualExclusion
<1>1. IInv => MutualExclusion
  BY DEF IInv, LockInv, MutualExclusion
<1> QED BY <1>1, MainLockInductive, PTL

\* What HandOver needs: the UI is waiting exactly inside the wait, and a debt
\* is open only while the VICE thread is blocked.
HandInv ==
  /\ ui_is_waiting <=> upc \in {"ob_blocked", "ob_woken", "ob_out"}
  /\ owed => vpc = "y_blocked" /\ upc # "ob_signal"

\* A yield that found the UI waiting does not end before the UI has had the
\* lock, unless its wait ends spuriously, even if handlers nest.
THEOREM MainLockHandOver ==
  NestedSpec => []HandOver
<1>1. Init => HandInv
  BY DEF Init, HandInv
<1>2. HandInv /\ [Next \/ ObtainNested]_vars => HandInv'
  <2> SUFFICES ASSUME HandInv, [Next \/ ObtainNested]_vars PROVE HandInv'
    OBVIOUS
  <2> USE DEF HandInv, ViceGoes, UiGoes, flags, rest
  <2>1. CASE ViceRuns
    BY <2>1 DEF ViceRuns, mainlock_set_vice_thread, YieldUnlock, YieldWait, YieldNoWait,
                YieldWoken, ConsiderExit, ViceExits, ConsiderStay, InitiateExit,
                InitiateReturns, RunOn
  <2>2. CASE ViceLockInternal \/ ViceLockMain \/ ViceQuits
    BY <2>2 DEF ViceLockInternal, ViceLockMain, ViceQuits
  <2>3. CASE UiRuns
    BY <2>3 DEF UiRuns, ObtainWait, ObtainNotRunning, ObtainWoken, UiSignal,
                mainlock_release, InitiateShutdown, Join
  <2>4. CASE UiLockInternal \/ UiLockMain
    BY <2>4 DEF UiLockInternal, UiLockMain
  <2>5. CASE Obtain \/ ObtainNested \/ QuitUnlocked \/ QuitLocked
    BY <2>5 DEF Obtain, ObtainNested, QuitUnlocked, QuitLocked, mainlock_obtain
  <2>6. CASE SpuriousWakeup
    BY <2>6 DEF SpuriousWakeup
  <2>7. CASE UNCHANGED vars
    BY <2>7 DEF vars
  <2> QED BY <2>1, <2>2, <2>3, <2>4, <2>5, <2>6, <2>7 DEF Next, Ended
<1>3. HandInv => HandOver
  BY DEF HandInv, HandOver
<1> QED BY <1>1, <1>2, <1>3, PTL DEF NestedSpec
==============================================================================
