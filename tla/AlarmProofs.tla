----------------------------- MODULE AlarmProofs -----------------------------
(***************************************************************************)
(* The alarm context is correct for every number of alarms, every array    *)
(* size and every clock range.  The invariant of the queue (QInv) is its   *)
(* own strengthening: the slot map is needed to know that the swap-with-   *)
(* last removal hits the right entry, and the cached minimum to know that  *)
(* the CPU loop stops only when nothing is due.                            *)
(***************************************************************************)
EXTENDS Alarm, TLAPS

QType ==
  /\ alarms \subseteq Alarms
  /\ num_pending_alarms \in 0 .. MAX_PENDING
  /\ pending_alarms \in [0 .. num_pending_alarms - 1 -> Entry]
  /\ next_pending_alarm_clk \in Clock
  /\ next_pending_alarm_idx \in -1 .. MAX_PENDING
  /\ pending_idx \in [Alarms -> -1 .. MAX_PENDING - 1]

CType ==
  /\ clk \in 0 .. CLK_BOUND
  /\ phase \in {"process", "callback", "fetch", "opcode"}
  /\ running \in Alarms \cup {NoAlarm}
  /\ rclk \in Clock

QInv == QType /\ SlotsConsistent /\ NextIsEarliest

IInv == QInv /\ CType /\ NothingDueAtFetch

\* What the scan of alarm_context_update_next_pending() leaves in the cache:
\* a slot of the array, the deadline in it, and no earlier one anywhere.
LEMMA UpdateNextPending ==
  ASSUME NEW n \in Nat, NEW pa \in [0 .. n - 1 -> Entry],
         alarm_context_update_next_pending(pa, n)
  PROVE  /\ next_pending_alarm_clk' \in Clock
         /\ next_pending_alarm_idx' \in 0 .. n - 1
         /\ \A j \in 0 .. n - 1 : next_pending_alarm_clk' <= pa[j].clk
         /\ pa[next_pending_alarm_idx'].clk = next_pending_alarm_clk'
  BY DEF alarm_context_update_next_pending, Entry

\* alarm_set() keeps the queue consistent, in each of its three cases.
LEMMA SetKeepsQueue ==
  ASSUME QInv, NEW a \in Alarms, NEW t \in Clock, alarm_set(a, t)
  PROVE  QInv'
<1> USE AlarmAssumption DEF QInv, QType, SlotsConsistent, NextIsEarliest, Entry, Clock
<1>1. CASE SetNew(a, t)
  <2>1. QType'
    BY <1>1 DEF SetNew
  <2>2. SlotsConsistent'
    BY <1>1, <2>1 DEF SetNew, alarm_set
  <2>3. NextIsEarliest'
    BY <1>1, <2>1 DEF SetNew
  <2> QED BY <2>1, <2>2, <2>3
<1>2. CASE SetFull(a)
  BY <1>2 DEF SetFull, queue
<1>3. CASE SetPending(a, t)
  <2> DEFINE idx == pending_idx[a]
             pa  == [pending_alarms EXCEPT ![idx] = [alarm |-> @.alarm, clk |-> t]]
  <2>1. /\ idx \in 0 .. num_pending_alarms - 1
        /\ pending_alarms' = pa
        /\ UNCHANGED <<alarms, num_pending_alarms, pending_idx>>
    BY <1>3 DEF SetPending
  <2>2. /\ pa \in [0 .. num_pending_alarms - 1 -> Entry]
        /\ \A i \in 0 .. num_pending_alarms - 1 :
             /\ pa[i].alarm = pending_alarms[i].alarm
             /\ i # idx => pa[i].clk = pending_alarms[i].clk
        /\ pa[idx].clk = t
    BY <2>1
  <2>3. SlotsConsistent'
    BY <2>1, <2>2
  <2>4. CASE next_pending_alarm_clk > t \/ idx = next_pending_alarm_idx
    <3>1. alarm_context_update_next_pending(pa, num_pending_alarms)
      BY <1>3, <2>4 DEF SetPending
    <3>2. /\ next_pending_alarm_clk' \in Clock
          /\ next_pending_alarm_idx' \in 0 .. num_pending_alarms - 1
          /\ \A j \in 0 .. num_pending_alarms - 1 : next_pending_alarm_clk' <= pa[j].clk
          /\ pa[next_pending_alarm_idx'].clk = next_pending_alarm_clk'
      <4>1. num_pending_alarms \in Nat
        OBVIOUS
      <4>2. pa \in [0 .. num_pending_alarms - 1 -> Entry]
        BY <2>2
      <4> HIDE DEF pa, Entry, Clock
      <4> QED BY <3>1, <4>1, <4>2, UpdateNextPending
    <3>3. QType' /\ NextIsEarliest'
      BY <2>1, <2>2, <3>2
    <3> QED BY <2>3, <3>3
  <2>5. CASE ~(next_pending_alarm_clk > t \/ idx = next_pending_alarm_idx)
    <3>1. UNCHANGED <<next_pending_alarm_clk, next_pending_alarm_idx>>
      BY <1>3, <2>5 DEF SetPending
    <3>2. QType'
      BY <2>1, <2>2, <3>1
    <3>3. NextIsEarliest'
      BY <2>1, <2>2, <2>5, <3>1
    <3> QED BY <2>3, <3>2, <3>3
  <2> QED BY <2>4, <2>5
<1> QED BY <1>1, <1>2, <1>3 DEF alarm_set

\* The three cases of alarm_unset() keep the queue consistent, and afterwards
\* the alarm is not pending.
LEMMA UnsetKeepsQueue ==
  ASSUME QInv, NEW a \in Alarms, unset(a),
         NEW S \in SUBSET Alarms, alarms' = S, S \in {alarms, alarms \ {a}}
  PROVE  QInv' /\ pending_idx'[a] = -1
<1> USE AlarmAssumption DEF QInv, QType, SlotsConsistent, NextIsEarliest, Entry, Clock
<1>1. CASE UnsetOne(a)
  <2> DEFINE idx  == pending_idx[a]
             last == num_pending_alarms - 1
             pa   == [i \in 0 .. last - 1 |->
                        IF i = idx THEN pending_alarms[last] ELSE pending_alarms[i]]
  <2>1. /\ idx \in 0 .. last
        /\ last \in 1 .. MAX_PENDING - 1
        /\ pending_alarms' = pa
        /\ num_pending_alarms' = last
        /\ pending_idx' = [b \in Alarms |->
                             IF b = a THEN -1
                             ELSE IF b = pending_alarms[last].alarm THEN idx
                             ELSE pending_idx[b]]
    BY <1>1 DEF UnsetOne, UnsetSlot
  <2>2. /\ pa \in [0 .. last - 1 -> Entry]
        /\ pending_idx' \in [Alarms -> -1 .. MAX_PENDING - 1]
    BY <2>1
  <2>3. SlotsConsistent'
    <3>1. \A i \in 0 .. last : pending_alarms[i].alarm = a <=> i = idx
      BY <2>1
    <3>2. \A i \in 0 .. last - 1 : pending_idx'[pa[i].alarm] = i
      BY <2>1, <2>2, <3>1
    <3>3. ASSUME NEW b \in Alarms, pending_idx'[b] >= 0
          PROVE  /\ b \in alarms'
                 /\ pending_idx'[b] < last
                 /\ pa[pending_idx'[b]].alarm = b
      <4>1. b # a
        BY <2>1, <3>3
      <4>2. CASE b = pending_alarms[last].alarm
        BY <2>1, <3>1, <4>1, <4>2
      <4>3. CASE b # pending_alarms[last].alarm
        <5>1. pending_idx'[b] = pending_idx[b]
          BY <2>1, <4>1, <4>3
        <5>2. pending_idx[b] \in 0 .. last /\ pending_idx[b] # last /\ pending_idx[b] # idx
          BY <2>1, <3>3, <4>1, <4>3, <5>1
        <5> QED BY <2>1, <3>3, <4>1, <5>1, <5>2
      <4> QED BY <4>2, <4>3
    <3> QED BY <2>1, <3>2, <3>3
  <2>4. CASE next_pending_alarm_idx = idx
    <3>1. alarm_context_update_next_pending(pa, last)
      BY <1>1, <2>4 DEF UnsetOne, UnsetSlot
    <3>2. /\ next_pending_alarm_clk' \in Clock
          /\ next_pending_alarm_idx' \in 0 .. last - 1
          /\ \A j \in 0 .. last - 1 : next_pending_alarm_clk' <= pa[j].clk
          /\ pa[next_pending_alarm_idx'].clk = next_pending_alarm_clk'
      <4>1. last \in Nat
        BY <2>1
      <4> HIDE DEF pa, last
      <4> QED BY <3>1, <2>2, <4>1, UpdateNextPending
    <3>3. QType'
      <4>1. next_pending_alarm_idx' \in -1 .. MAX_PENDING
        BY <2>1, <3>2
      <4>2. num_pending_alarms' \in 0 .. MAX_PENDING
        BY <2>1
      <4>3. pending_alarms' \in [0 .. num_pending_alarms' - 1 -> Entry]
        BY <2>1, <2>2
      <4> QED BY <2>2, <3>2, <4>1, <4>2, <4>3
    <3>4. NextIsEarliest'
      BY <2>1, <2>2, <3>2
    <3> QED BY <2>1, <2>3, <3>3, <3>4
  <2>5. CASE next_pending_alarm_idx # idx
    <3>1. /\ next_pending_alarm_idx' = IF next_pending_alarm_idx = last
                                       THEN idx ELSE next_pending_alarm_idx
          /\ next_pending_alarm_clk' = next_pending_alarm_clk
      BY <1>1, <2>5 DEF UnsetOne, UnsetSlot
    <3>2. QType'
      BY <2>1, <2>2, <3>1
    <3>3. NextIsEarliest'
      BY <2>1, <2>2, <2>5, <3>1
    <3> QED BY <2>1, <2>3, <3>2, <3>3
  <2> QED BY <2>4, <2>5
<1>2. CASE UnsetLast(a)
  BY <1>2 DEF UnsetLast
<1>3. CASE UnsetIdle(a)
  BY <1>3 DEF UnsetIdle
<1> QED BY <1>1, <1>2, <1>3 DEF unset

-----------------------------------------------------------------------------

LEMMA InitIInv == Init => IInv
  BY AlarmAssumption DEF Init, alarm_context_init, IInv, QInv, QType, CType,
     SlotsConsistent, NextIsEarliest, NothingDueAtFetch, Clock

\* Every step of the CPU loop and of the chips keeps the invariant.
LEMMA NextIInv == IInv /\ [Next]_vars => IInv'
<1> SUFFICES ASSUME IInv, [Next]_vars PROVE IInv'
  OBVIOUS
<1> USE AlarmAssumption
<1>0. QInv /\ CType /\ NothingDueAtFetch
  BY DEF IInv
<1>1. ASSUME NEW a \in Alarms, NEW t \in Clock, alarm_set(a, t) PROVE QInv'
  BY <1>0, <1>1, SetKeepsQueue
<1>2. ASSUME NEW a \in Alarms, alarm_unset(a) PROVE QInv'
  BY <1>0, <1>2, UnsetKeepsQueue DEF alarm_unset, QInv, QType
<1>3. ASSUME NEW a \in Alarms, alarm_destroy(a) PROVE QInv'
  <2>1. alarms \ {a} \in SUBSET Alarms
    BY <1>0 DEF QInv, QType
  <2> QED BY <1>0, <1>3, <2>1, UnsetKeepsQueue DEF alarm_destroy
<1>4. ASSUME UNCHANGED queue PROVE QInv'
  BY <1>0, <1>4 DEF queue, QInv, QType, SlotsConsistent, NextIsEarliest
<1>5. CASE alarm_context_dispatch
  <2>1. QInv'
    BY <1>4, <1>5 DEF alarm_context_dispatch
  <2>2. CType'
    BY <1>0, <1>5 DEF alarm_context_dispatch, CType, QInv, QType, Entry
  <2> QED BY <2>1, <2>2, <1>5 DEF alarm_context_dispatch, IInv, NothingDueAtFetch
<1>6. CASE AlarmsDone
  <2>1. QInv' /\ CType'
    BY <1>0, <1>4, <1>6 DEF AlarmsDone, CType
  <2>2. \A a \in Alarms : Deadline(a) \notin 0 .. clk
    <3> SUFFICES ASSUME NEW a \in Alarms, pending_idx[a] >= 0
                 PROVE  pending_alarms[pending_idx[a]].clk > clk
      BY <1>0 DEF Deadline, CType, QInv, QType, Entry, Clock
    <3> QED BY <1>0, <1>6 DEF AlarmsDone, QInv, QType, CType, SlotsConsistent,
                NextIsEarliest, Entry, Clock
  <2>3. NothingDueAtFetch'
    BY <2>2, <1>6 DEF AlarmsDone, NothingDueAtFetch, Deadline, queue
  <2> QED BY <2>1, <2>3 DEF IInv
<1>7. CASE CallbackReturn
  <2>1. QInv'
    <3>1. CASE UNCHANGED queue
      BY <1>4, <3>1
    <3>2. CASE ~UNCHANGED queue
      <4>1. running \in Alarms
        BY <1>0, <1>7, <3>2 DEF CallbackReturn, CType
      <4>2. \A t \in rclk + 1 .. CLOCK_MAX : t \in Clock
        BY <1>0 DEF CType, Clock
      <4> QED BY <1>1, <1>2, <1>7, <3>2, <4>1, <4>2 DEF CallbackReturn
    <3> QED BY <3>1, <3>2
  <2>2. CType'
    BY <1>0, <1>7 DEF CallbackReturn, CType, Clock
  <2> QED BY <2>1, <2>2, <1>7 DEF CallbackReturn, IInv, NothingDueAtFetch
<1>8. CASE FetchOpcode
  BY <1>0, <1>4, <1>8 DEF FetchOpcode, IInv, CType, NothingDueAtFetch
<1>9. ASSUME NEW a \in Alarms, NEW t \in Clock, CallbackSet(a, t) \/ OpcodeSet(a, t)
      PROVE  IInv'
  BY <1>0, <1>1, <1>9 DEF CallbackSet, OpcodeSet, cpu, IInv, CType, NothingDueAtFetch
<1>10. ASSUME NEW a \in Alarms, CallbackUnset(a) \/ OpcodeUnset(a) \/ OpcodeDestroy(a)
       PROVE  IInv'
  BY <1>0, <1>2, <1>3, <1>10 DEF CallbackUnset, OpcodeUnset, OpcodeDestroy, cpu, IInv,
     CType, NothingDueAtFetch
<1>11. ASSUME NEW a \in Alarms, OpcodeNew(a) PROVE IInv'
  <2>1. pending_idx[a] = -1 /\ pending_idx' = pending_idx
    BY <1>0, <1>11 DEF OpcodeNew, alarm_new, QInv, QType, SlotsConsistent
  <2>2. QInv'
    BY <1>0, <1>11, <2>1 DEF OpcodeNew, alarm_new, QInv, QType, SlotsConsistent, NextIsEarliest
  <2> QED BY <1>0, <1>11, <2>2 DEF OpcodeNew, cpu, IInv, CType, NothingDueAtFetch
<1>12. ASSUME NEW n \in 1 .. MAX_CYCLES, StealCycles(n) \/ OpcodeEnd(n) PROVE IInv'
  BY <1>0, <1>4, <1>12 DEF StealCycles, OpcodeEnd, IInv, CType, NothingDueAtFetch
<1>13. CASE UNCHANGED vars
  BY <1>0, <1>4, <1>13 DEF vars, cpu, queue, IInv, CType, NothingDueAtFetch, Deadline
<1> QED
  BY <1>5, <1>6, <1>7, <1>8, <1>9, <1>10, <1>11, <1>12, <1>13 DEF Next, Loop

\* The inductive invariant holds throughout.
THEOREM AlarmInvariant == Spec => []IInv
  BY InitIInv, NextIInv, PTL DEF Spec

\* Types.
THEOREM AlarmTypes == Spec => []TypeOK
<1>1. IInv => TypeOK
  BY DEF IInv, QInv, QType, CType, TypeOK
<1> QED BY <1>1, AlarmInvariant, PTL

\* For any number of alarms and any array size, slots and alarms agree.
THEOREM AlarmSlots == Spec => []SlotsConsistent
<1>1. IInv => SlotsConsistent
  BY DEF IInv, QInv
<1> QED BY <1>1, AlarmInvariant, PTL

\* The cached clock and slot of the next alarm are those of an earliest one.
THEOREM AlarmNextIsEarliest == Spec => []NextIsEarliest
<1>1. IInv => NextIsEarliest
  BY DEF IInv, QInv
<1> QED BY <1>1, AlarmInvariant, PTL

\* No opcode is fetched while an alarm is due.
THEOREM AlarmNothingDue == Spec => []NothingDueAtFetch
<1>1. IInv => NothingDueAtFetch
  BY DEF IInv
<1> QED BY <1>1, AlarmInvariant, PTL

-----------------------------------------------------------------------------
(* Refinement.                                                             *)

Deadlines == [a \in Alarms |-> Deadline(a)]

\* alarm_set() changes one deadline of the abstract queue, or, when the array
\* is full, nothing.
LEMMA SetDeadline ==
  ASSUME QInv, NEW a \in Alarms, NEW t \in Clock, alarm_set(a, t)
  PROVE  \/ Deadlines' = Deadlines
         \/ Deadlines' = [Deadlines EXCEPT ![a] = t]
<1> USE AlarmAssumption DEF QInv, QType, Entry, Clock
<1>1. CASE SetNew(a, t)
  <2> SUFFICES ASSUME NEW b \in Alarms
               PROVE  Deadline(b)' = IF b = a THEN t ELSE Deadline(b)
    BY DEF Deadlines
  <2>1. CASE b = a
    BY <1>1, <2>1 DEF SetNew, Deadline
  <2>2. CASE b # a
    BY <1>1, <2>2 DEF SetNew, Deadline, SlotsConsistent
  <2> QED BY <2>1, <2>2
<1>2. CASE SetFull(a)
  BY <1>2 DEF SetFull, queue, Deadlines, Deadline
<1>3. CASE SetPending(a, t)
  <2> SUFFICES ASSUME NEW b \in Alarms
               PROVE  Deadline(b)' = IF b = a THEN t ELSE Deadline(b)
    BY DEF Deadlines
  <2>1. CASE b = a
    BY <1>3, <2>1 DEF SetPending, Deadline, SlotsConsistent
  <2>2. CASE b # a
    BY <1>3, <2>2 DEF SetPending, Deadline, SlotsConsistent
  <2> QED BY <2>1, <2>2
<1> QED BY <1>1, <1>2, <1>3 DEF alarm_set

\* alarm_unset() makes one alarm idle and leaves every other deadline alone,
\* although it may move another alarm to a new slot.
LEMMA UnsetDeadline ==
  ASSUME QInv, NEW a \in Alarms, unset(a)
  PROVE  Deadlines' = [Deadlines EXCEPT ![a] = -1]
<1> USE AlarmAssumption DEF QInv, QType, Entry, Clock
<1> SUFFICES ASSUME NEW b \in Alarms
             PROVE  Deadline(b)' = IF b = a THEN -1 ELSE Deadline(b)
  BY DEF Deadlines
<1>1. CASE UnsetOne(a)
  <2> DEFINE idx  == pending_idx[a]
             last == num_pending_alarms - 1
  <2>1. /\ idx \in 0 .. last
        /\ last \in 1 .. MAX_PENDING - 1
        /\ pending_alarms' = [i \in 0 .. last - 1 |->
                               IF i = idx THEN pending_alarms[last] ELSE pending_alarms[i]]
        /\ pending_idx' = [c \in Alarms |->
                             IF c = a THEN -1
                             ELSE IF c = pending_alarms[last].alarm THEN idx
                             ELSE pending_idx[c]]
    BY <1>1 DEF UnsetOne, UnsetSlot, SlotsConsistent
  <2>2. CASE b = a
    BY <2>1, <2>2 DEF Deadline
  <2>3. CASE b # a /\ b = pending_alarms[last].alarm
    <3>1. pending_idx[b] = last /\ idx # last
      BY <2>1, <2>3 DEF SlotsConsistent
    <3> QED BY <2>1, <2>3, <3>1 DEF Deadline
  <2>4. CASE b # a /\ b # pending_alarms[last].alarm
    <3>1. pending_idx'[b] = pending_idx[b]
      BY <2>1, <2>4
    <3>2. CASE pending_idx[b] < 0
      BY <3>1, <3>2 DEF Deadline
    <3>3. CASE pending_idx[b] >= 0
      <4>1. pending_idx[b] \in 0 .. last - 1 /\ pending_idx[b] # idx
        BY <2>1, <2>4, <3>3 DEF SlotsConsistent
      <4> QED BY <2>1, <3>1, <4>1 DEF Deadline
    <3> QED BY <3>2, <3>3
  <2> QED BY <2>2, <2>3, <2>4
<1>2. CASE UnsetLast(a)
  BY <1>2 DEF UnsetLast, Deadline, SlotsConsistent
<1>3. CASE UnsetIdle(a)
  BY <1>3 DEF UnsetIdle, Deadline
<1> QED BY <1>1, <1>2, <1>3 DEF unset

\* While a callback runs there is an alarm it belongs to: the dispatch never
\* goes through the uninitialised slot number.
RunningOK == phase = "callback" => running \in Alarms

\* The cached slot of a due queue holds a due alarm that is earliest.
LEMMA DispatchIsEarliest ==
  ASSUME IInv, clk >= next_pending_alarm_clk
  PROVE  \E a \in Alarms :
           /\ next_pending_alarm_idx \in 0 .. num_pending_alarms - 1
           /\ a = pending_alarms[next_pending_alarm_idx].alarm
           /\ Deadline(a) = next_pending_alarm_clk
           /\ Deadline(a) # -1
           /\ \A b \in Alarms : Deadline(b) # -1 => Deadline(a) <= Deadline(b)
<1> USE AlarmAssumption DEF IInv, QInv, QType, CType, Entry, Clock
<1>1. /\ next_pending_alarm_idx \in 0 .. num_pending_alarms - 1
      /\ pending_alarms[next_pending_alarm_idx].clk = next_pending_alarm_clk
  BY DEF NextIsEarliest
<1>2. PICK a \in Alarms : a = pending_alarms[next_pending_alarm_idx].alarm
  BY <1>1
<1>3. pending_idx[a] = next_pending_alarm_idx
  BY <1>1, <1>2 DEF SlotsConsistent
<1>4. Deadline(a) = next_pending_alarm_clk /\ Deadline(a) # -1
  BY <1>1, <1>3 DEF Deadline
<1>5. ASSUME NEW b \in Alarms, Deadline(b) # -1
      PROVE  Deadline(a) <= Deadline(b)
  BY <1>4, <1>5 DEF Deadline, SlotsConsistent, NextIsEarliest
<1> QED BY <1>1, <1>2, <1>4, <1>5

LEMMA NextRunning == IInv /\ RunningOK /\ [Next]_vars => RunningOK'
<1> SUFFICES ASSUME IInv, RunningOK, [Next]_vars PROVE RunningOK'
  OBVIOUS
<1>1. CASE alarm_context_dispatch
  BY <1>1, DispatchIsEarliest DEF alarm_context_dispatch, RunningOK
<1>2. CASE ~alarm_context_dispatch
  BY <1>2 DEF RunningOK, Next, Loop, AlarmsDone, CallbackReturn, FetchOpcode, CallbackSet,
     OpcodeSet, CallbackUnset, OpcodeUnset, OpcodeNew, OpcodeDestroy, StealCycles,
     OpcodeEnd, cpu, vars
<1> QED BY <1>1, <1>2

\* Every step of the array is a step of the abstract queue, or none.
LEMMA NextRefines == IInv /\ RunningOK /\ [Next]_vars => [Abstract!Next]_(Abstract!vars)
<1> SUFFICES ASSUME IInv, RunningOK, [Next]_vars
             PROVE  [Abstract!Next]_(Abstract!vars)
  OBVIOUS
<1> USE AlarmAssumption
<1>0. QInv /\ CType /\ Clock = Abstract!Clock /\ Abstract!Idle = -1
  BY DEF IInv, Clock, Abstract!Clock, Abstract!Idle
<1>1. CASE alarm_context_dispatch
  <2>1. PICK a \in Alarms :
           /\ a = pending_alarms[next_pending_alarm_idx].alarm
           /\ next_pending_alarm_idx \in 0 .. num_pending_alarms - 1
           /\ Deadline(a) = next_pending_alarm_clk
           /\ Deadline(a) # -1
           /\ \A b \in Alarms : Deadline(b) # -1 => Deadline(a) <= Deadline(b)
    BY <1>1, DispatchIsEarliest DEF alarm_context_dispatch
  <2>2. Deadlines' = Deadlines
    BY <1>1 DEF alarm_context_dispatch, queue, Deadlines, Deadline
  <2>3. Abstract!Fire(a)
    BY <1>0, <1>1, <2>1, <2>2 DEF alarm_context_dispatch, Abstract!Fire, Abstract!Due,
       Deadlines, CType, QInv, QType, Clock
  <2> QED BY <2>3 DEF Abstract!Next
<1>2. CASE AlarmsDone
  <2>1. Deadlines' = Deadlines
    BY <1>2 DEF AlarmsDone, queue, Deadlines, Deadline
  <2>2. \A a \in Alarms : ~Abstract!Due(a)
    BY <1>0, <1>2 DEF AlarmsDone, Abstract!Due, Deadline, QInv, QType, CType,
       SlotsConsistent, NextIsEarliest, Entry, Clock
  <2>3. Abstract!Quiet
    BY <1>2, <2>1, <2>2 DEF AlarmsDone, Abstract!Quiet, Deadlines
  <2> QED BY <2>3 DEF Abstract!Next
<1>3. CASE CallbackReturn
  <2>0. running \in Alarms /\ running # NoAlarm
    BY <1>3 DEF CallbackReturn, RunningOK
  <2>1. CASE Deadline(running) \notin 0 .. rclk
    <3>1. Deadlines' = Deadlines
      BY <1>3, <2>1 DEF CallbackReturn, queue, Deadlines, Deadline
    <3>2. Deadline(running) = -1 \/ Deadline(running) > rclk
      BY <1>0, <2>0, <2>1 DEF Deadline, QInv, QType, CType, SlotsConsistent, Entry, Clock
    <3>3. Abstract!Return
      BY <1>0, <1>3, <2>0, <3>1, <3>2 DEF CallbackReturn, Abstract!Return, Deadlines
    <3> QED BY <3>3 DEF Abstract!Next
  <2>2. CASE Deadline(running) \in 0 .. rclk
    <3>1. CASE alarm_unset(running)
      <4>1. Deadlines' = [Deadlines EXCEPT ![running] = -1]
        BY <1>0, <2>0, <3>1, UnsetDeadline DEF alarm_unset
      <4>2. Abstract!Return
        BY <1>0, <1>3, <2>0, <4>1 DEF CallbackReturn, Abstract!Return, Deadlines
      <4> QED BY <4>2 DEF Abstract!Next
    <3>2. ASSUME NEW t \in rclk + 1 .. CLOCK_MAX, alarm_set(running, t)
          PROVE  Abstract!Next
      <4>1. t \in Clock
        BY <1>0 DEF CType, Clock
      <4>2. pending_idx[running] >= 0
        BY <1>0, <2>0, <2>2 DEF Deadline, QInv, QType, CType, Clock
      <4>3. Deadlines' = [Deadlines EXCEPT ![running] = t]
        <5>1. SetPending(running, t)
          BY <3>2, <4>2, <2>0, <1>0 DEF alarm_set, SetNew, SetFull, QInv, QType
        <5>2. PICK r \in Alarms : r = running
          BY <2>0
        <5>3. Deadline(r)' = t
          BY <1>0, <5>1, <5>2 DEF SetPending, Deadline, SlotsConsistent, QInv, QType
        <5>4. Deadlines'[r] = t /\ Deadlines[r] \in 0 .. rclk
          BY <2>2, <5>2, <5>3 DEF Deadlines
        <5>5. Deadlines' = [Deadlines EXCEPT ![r] = t]
          BY <1>0, <3>2, <4>1, <5>2, <5>4, SetDeadline DEF CType, Clock
        <5> QED BY <5>2, <5>5
      <4>4. Abstract!Return
        BY <1>0, <1>3, <2>0, <4>3 DEF CallbackReturn, Abstract!Return, Deadlines
      <4> QED BY <4>4 DEF Abstract!Next
    <3> QED BY <1>3, <2>0, <2>2, <3>1, <3>2 DEF CallbackReturn
  <2> QED BY <2>1, <2>2
<1>4. CASE FetchOpcode
  BY <1>4 DEF FetchOpcode, Abstract!Fetch, Abstract!Next, queue, Deadline
<1>5. ASSUME NEW a \in Alarms, NEW t \in Clock, CallbackSet(a, t) \/ OpcodeSet(a, t)
      PROVE  [Abstract!Next]_(Abstract!vars)
  <2>1. alarm_set(a, t) /\ UNCHANGED cpu
    BY <1>5 DEF CallbackSet, OpcodeSet
  <2>2. CASE Deadlines' = Deadlines
    BY <2>1, <2>2 DEF cpu, Abstract!vars, Deadlines
  <2>3. CASE Deadlines' = [Deadlines EXCEPT ![a] = t]
    <3>1. Abstract!Set(a, t)
      BY <1>5, <2>1, <2>3 DEF CallbackSet, OpcodeSet, cpu, Abstract!Set, Deadlines
    <3> QED BY <1>0, <3>1 DEF Abstract!Next
  <2> QED BY <1>0, <2>1, <2>2, <2>3, SetDeadline
<1>6. ASSUME NEW a \in Alarms, CallbackUnset(a) \/ OpcodeUnset(a) \/ OpcodeDestroy(a)
      PROVE  [Abstract!Next]_(Abstract!vars)
  <2>1. unset(a) /\ UNCHANGED cpu /\ phase \in {"opcode", "callback"}
    BY <1>6 DEF CallbackUnset, OpcodeUnset, OpcodeDestroy, alarm_unset, alarm_destroy
  <2>2. Deadlines' = [Deadlines EXCEPT ![a] = -1]
    BY <1>0, <2>1, UnsetDeadline
  <2>3. Abstract!Unset(a)
    BY <1>0, <2>1, <2>2 DEF cpu, Abstract!Unset, Deadlines
  <2> QED BY <2>3 DEF Abstract!Next
<1>7. ASSUME NEW a \in Alarms, OpcodeNew(a)
      PROVE  [Abstract!Next]_(Abstract!vars)
  <2>1. pending_idx' = pending_idx
    BY <1>0, <1>7 DEF OpcodeNew, alarm_new, QInv, QType, SlotsConsistent
  <2> QED BY <1>7, <2>1 DEF OpcodeNew, alarm_new, cpu, Abstract!vars, Deadline
<1>8. ASSUME NEW n \in 1 .. MAX_CYCLES, StealCycles(n) \/ OpcodeEnd(n)
      PROVE  [Abstract!Next]_(Abstract!vars)
  <2>1. Deadlines' = Deadlines
    BY <1>8 DEF StealCycles, OpcodeEnd, queue, Deadlines, Deadline
  <2>2. Abstract!Advance(n)
    BY <1>8, <2>1 DEF StealCycles, OpcodeEnd, Abstract!Advance, Deadlines
  <2> QED BY <2>2 DEF Abstract!Next
<1>9. CASE UNCHANGED vars
  BY <1>9 DEF vars, queue, cpu, Abstract!vars, Deadline
<1> QED
  BY <1>1, <1>2, <1>3, <1>4, <1>5, <1>6, <1>7, <1>8, <1>9 DEF Next, Loop

\* The alarm context implements the abstract alarm queue.
THEOREM AlarmRefinement == Spec => RefinesAlarmSpec
<1>1. Init => Abstract!Init /\ RunningOK
  BY DEF Init, alarm_context_init, Abstract!Init, Abstract!Idle, Deadline, RunningOK
<1> QED
  BY <1>1, AlarmInvariant, NextRunning, NextRefines, PTL
     DEF Spec, RefinesAlarmSpec, Abstract!Spec

==============================================================================
