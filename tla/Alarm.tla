-------------------------------- MODULE Alarm --------------------------------
(***************************************************************************)
(* The alarm context of src/alarm.c and src/alarm.h: the event queue that  *)
(* drives every emulated chip.  A chip asks for a callback at a clock tick *)
(* with alarm_set(); the CPU core, before it fetches an opcode, runs the   *)
(* PROCESS_ALARMS loop (src/6510core.c) which dispatches callbacks until   *)
(* no pending alarm is due.                                                *)
(*                                                                         *)
(* The pending alarms live in an unordered array.  An alarm remembers its  *)
(* slot (pending_idx), removal moves the last slot into the hole, and the  *)
(* context caches the earliest deadline and its slot, so that the CPU only *)
(* compares one number per opcode.  The model keeps exactly that; slots    *)
(* past num_pending_alarms, which the code never reads, are left out.      *)
(*                                                                         *)
(* The doubly linked list of all alarms of the context, used only to free  *)
(* them, is the set alarms.  alarm_context_time_warp() has no caller.      *)
(***************************************************************************)
EXTENDS Integers

CONSTANTS
  Alarms,          \* the alarm_t structures that may be allocated
  NoAlarm,         \* NULL
  MAX_PENDING,     \* ALARM_CONTEXT_MAX_PENDING_ALARMS
  CLOCK_MAX,       \* the largest CLOCK, "nothing is pending"
  CLK_BOUND,       \* bound on the CPU clock, below CLOCK_MAX
  MAX_CYCLES       \* bound on the cycles of one opcode or one cycle steal

ASSUME AlarmAssumption ==
  /\ NoAlarm \notin Alarms
  /\ MAX_PENDING \in Nat \ {0}
  /\ CLOCK_MAX \in Nat
  /\ CLK_BOUND \in Nat
  /\ CLK_BOUND < CLOCK_MAX
  /\ MAX_CYCLES \in Nat

VARIABLES
  alarms,                  \* allocated alarms of the context
  pending_alarms,          \* slots 0 .. num_pending_alarms - 1
  num_pending_alarms,
  next_pending_alarm_clk,
  next_pending_alarm_idx,
  pending_idx,             \* per alarm: its slot, or -1
  clk,                     \* CLK of the CPU that owns the context
  phase,                   \* where the CPU loop stands
  running,                 \* alarm whose callback is running
  rclk                     \* the tick that callback was due: CLK - offset

queue == <<alarms, pending_alarms, num_pending_alarms,
           next_pending_alarm_clk, next_pending_alarm_idx, pending_idx>>
cpu == <<clk, phase, running, rclk>>
vars == <<queue, cpu>>

Clock == 0 .. CLOCK_MAX
Entry == [alarm : Alarms, clk : Clock]

\* The deadline the queue holds for an alarm, -1 when it is not pending.
Deadline(a) == IF pending_idx[a] < 0 THEN -1
               ELSE pending_alarms[pending_idx[a]].clk

-----------------------------------------------------------------------------
(* The context.  alarm_context_init() leaves next_pending_alarm_idx as     *)
(* malloc() returned it: any slot number, or none at all.                  *)

alarm_context_init ==
  /\ alarms = {}
  /\ pending_alarms = [i \in {} |-> i]
  /\ num_pending_alarms = 0
  /\ next_pending_alarm_clk = CLOCK_MAX
  /\ next_pending_alarm_idx \in -1 .. MAX_PENDING
  /\ pending_idx = [a \in Alarms |-> -1]

\* The scan keeps the last of the slots that hold the smallest deadline
\* (it compares with <=).  It is only called with n > 0.
alarm_context_update_next_pending(pa, n) ==
  \E i \in 0 .. n - 1 :
    /\ \A j \in 0 .. n - 1 : pa[i].clk <= pa[j].clk
    /\ \A j \in i + 1 .. n - 1 : pa[i].clk < pa[j].clk
    /\ next_pending_alarm_clk' = pa[i].clk
    /\ next_pending_alarm_idx' = i

\* alarm_set() on an alarm that is not pending: append a slot.
SetNew(a, t) ==
  /\ pending_idx[a] < 0
  /\ num_pending_alarms < MAX_PENDING
  /\ pending_alarms' = [i \in 0 .. num_pending_alarms |->
                          IF i = num_pending_alarms
                          THEN [alarm |-> a, clk |-> t]
                          ELSE pending_alarms[i]]
  /\ num_pending_alarms' = num_pending_alarms + 1
  /\ IF t < next_pending_alarm_clk
     THEN /\ next_pending_alarm_clk' = t
          /\ next_pending_alarm_idx' = num_pending_alarms
     ELSE UNCHANGED <<next_pending_alarm_clk, next_pending_alarm_idx>>
  /\ pending_idx' = [pending_idx EXCEPT ![a] = num_pending_alarms]
  /\ UNCHANGED alarms

\* alarm_set() with the array full: logged and ignored.
SetFull(a) ==
  /\ pending_idx[a] < 0
  /\ num_pending_alarms >= MAX_PENDING
  /\ UNCHANGED queue

\* Mutant: no rescan when the earliest alarm itself is put off.
SetPendingNoRescan(a, t) ==
  LET idx == pending_idx[a]
      pa  == [pending_alarms EXCEPT ![idx] = [alarm |-> @.alarm, clk |-> t]]
  IN  /\ idx >= 0
      /\ pending_alarms' = pa
      /\ IF next_pending_alarm_clk > t
         THEN alarm_context_update_next_pending(pa, num_pending_alarms)
         ELSE UNCHANGED <<next_pending_alarm_clk, next_pending_alarm_idx>>
      /\ UNCHANGED <<alarms, num_pending_alarms, pending_idx>>

\* alarm_set() on a pending alarm: change its deadline in place.
SetPending(a, t) ==
  LET idx == pending_idx[a]
      pa  == [pending_alarms EXCEPT ![idx] = [alarm |-> @.alarm, clk |-> t]]
  IN  /\ idx >= 0
      /\ pending_alarms' = pa
      /\ IF next_pending_alarm_clk > t \/ idx = next_pending_alarm_idx
         THEN alarm_context_update_next_pending(pa, num_pending_alarms)
         ELSE UNCHANGED <<next_pending_alarm_clk, next_pending_alarm_idx>>
      /\ UNCHANGED <<alarms, num_pending_alarms, pending_idx>>

alarm_set(a, t) ==
  /\ a \in alarms
  /\ SetNew(a, t) \/ SetFull(a) \/ SetPending(a, t)

\* Remove the slot of a: the last slot takes its place, its alarm is told so
\* (moved), and a cached slot other than a's becomes next.
UnsetSlot(a, moved, next) ==
  LET idx  == pending_idx[a]
      last == num_pending_alarms - 1
      pa   == [i \in 0 .. last - 1 |->
                 IF i = idx THEN pending_alarms[last] ELSE pending_alarms[i]]
  IN  /\ idx >= 0
      /\ num_pending_alarms > 1
      /\ num_pending_alarms' = last
      /\ pending_alarms' = pa
      /\ pending_idx' = [b \in Alarms |->
                           IF b = a THEN -1
                           ELSE IF b = pending_alarms[last].alarm THEN moved
                           ELSE pending_idx[b]]
      /\ \/ /\ next_pending_alarm_idx = idx
            /\ alarm_context_update_next_pending(pa, last)
         \/ /\ next_pending_alarm_idx # idx
            /\ next_pending_alarm_idx' = next
            /\ UNCHANGED next_pending_alarm_clk

\* Mutant: the moved alarm still remembers its old slot.
UnsetForgetsMoved(a) ==
  UnsetSlot(a, num_pending_alarms - 1,
            IF next_pending_alarm_idx = num_pending_alarms - 1
            THEN pending_idx[a] ELSE next_pending_alarm_idx)

\* Mutant: the cached slot does not follow the slot that moved.
UnsetForgetsNext(a) == UnsetSlot(a, pending_idx[a], next_pending_alarm_idx)

\* alarm_unset() of a pending alarm while others are pending: the last slot
\* moves into the hole and the cached slot number follows it.
UnsetOne(a) ==
  UnsetSlot(a, pending_idx[a],
            IF next_pending_alarm_idx = num_pending_alarms - 1
            THEN pending_idx[a] ELSE next_pending_alarm_idx)

\* alarm_unset() of the only pending alarm.
UnsetLast(a) ==
  /\ pending_idx[a] >= 0
  /\ num_pending_alarms <= 1
  /\ num_pending_alarms' = 0
  /\ pending_alarms' = [i \in {} |-> i]
  /\ next_pending_alarm_clk' = CLOCK_MAX
  /\ next_pending_alarm_idx' = -1
  /\ pending_idx' = [pending_idx EXCEPT ![a] = -1]

UnsetIdle(a) ==
  /\ pending_idx[a] < 0
  /\ UNCHANGED <<pending_alarms, num_pending_alarms, next_pending_alarm_clk,
                 next_pending_alarm_idx, pending_idx>>

unset(a) == UnsetOne(a) \/ UnsetLast(a) \/ UnsetIdle(a)

alarm_unset(a) ==
  /\ a \in alarms
  /\ unset(a)
  /\ UNCHANGED alarms

alarm_new(a) ==
  /\ a \notin alarms
  /\ alarms' = alarms \cup {a}
  /\ pending_idx' = [pending_idx EXCEPT ![a] = -1]
  /\ UNCHANGED <<pending_alarms, num_pending_alarms, next_pending_alarm_clk,
                 next_pending_alarm_idx>>

alarm_destroy(a) ==
  /\ a \in alarms
  /\ unset(a)
  /\ alarms' = alarms \ {a}

-----------------------------------------------------------------------------
(* The CPU loop around the context.  "process" is the PROCESS_ALARMS loop, *)
(* "callback" a callback it called, "fetch" the point after the loop, and  *)
(* "opcode" the execution of one opcode, whose memory accesses reach the   *)
(* chips and through them the alarms.                                      *)

Init ==
  /\ alarm_context_init
  /\ clk = 0
  /\ phase = "process"
  /\ running = NoAlarm
  /\ rclk = 0

\* while (CLK >= next_pending_clk) dispatch: the body.  The callback is the
\* one in the cached slot, whatever that slot is.
alarm_context_dispatch ==
  /\ phase = "process"
  /\ clk >= next_pending_alarm_clk
  /\ rclk' = next_pending_alarm_clk
  /\ running' = IF next_pending_alarm_idx \in 0 .. num_pending_alarms - 1
                THEN pending_alarms[next_pending_alarm_idx].alarm
                ELSE NoAlarm
  /\ phase' = "callback"
  /\ UNCHANGED <<queue, clk>>

\* Mutant: the loop ends with an alarm that is due in this very cycle.
AlarmsDoneEarly ==
  /\ phase = "process"
  /\ clk <= next_pending_alarm_clk
  /\ phase' = "fetch"
  /\ UNCHANGED <<queue, clk, running, rclk>>

AlarmsDone ==
  /\ phase = "process"
  /\ clk < next_pending_alarm_clk
  /\ phase' = "fetch"
  /\ UNCHANGED <<queue, clk, running, rclk>>

\* The callbacks belong to the chips.  All of them share two habits, which
\* src/core/ciacore.c:299 spells out for its own: the next event is computed
\* from rclk, hence set after it, and the alarm is unset or rescheduled.
CallbackSet(a, t) ==
  /\ phase = "callback"
  /\ t > rclk
  /\ alarm_set(a, t)
  /\ UNCHANGED cpu

CallbackUnset(a) ==
  /\ phase = "callback"
  /\ alarm_unset(a) \/ alarm_destroy(a)
  /\ UNCHANGED cpu

\* A video chip steals cycles from inside its callback.
StealCycles(n) ==
  /\ phase = "callback"
  /\ clk + n <= CLK_BOUND
  /\ clk' = clk + n
  /\ UNCHANGED <<queue, phase, running, rclk>>

\* Mutant: a callback that leaves its own alarm pending and due.
CallbackReturnDue ==
  /\ phase = "callback"
  /\ phase' = "process"
  /\ running' = NoAlarm
  /\ rclk' = 0
  /\ UNCHANGED <<queue, clk>>

\* The end of a callback.  One that has not yet moved its own alarm does so
\* before it returns.
CallbackReturn ==
  /\ phase = "callback"
  /\ \/ /\ running # NoAlarm => Deadline(running) \notin 0 .. rclk
        /\ UNCHANGED queue
     \/ /\ running # NoAlarm
        /\ Deadline(running) \in 0 .. rclk
        /\ \/ alarm_unset(running)
           \/ \E t \in rclk + 1 .. CLOCK_MAX : alarm_set(running, t)
  /\ phase' = "process"
  /\ running' = NoAlarm
  /\ rclk' = 0
  /\ UNCHANGED clk

FetchOpcode ==
  /\ phase = "fetch"
  /\ phase' = "opcode"
  /\ UNCHANGED <<queue, clk, running, rclk>>

OpcodeSet(a, t) ==
  /\ phase = "opcode"
  /\ alarm_set(a, t)
  /\ UNCHANGED cpu

OpcodeUnset(a) ==
  /\ phase = "opcode"
  /\ alarm_unset(a)
  /\ UNCHANGED cpu

\* Cartridges and drives are attached and detached between opcodes.
OpcodeNew(a) ==
  /\ phase = "opcode"
  /\ alarm_new(a)
  /\ UNCHANGED cpu

OpcodeDestroy(a) ==
  /\ phase = "opcode"
  /\ alarm_destroy(a)
  /\ UNCHANGED cpu

OpcodeEnd(n) ==
  /\ phase = "opcode"
  /\ clk + n <= CLK_BOUND
  /\ clk' = clk + n
  /\ phase' = "process"
  /\ UNCHANGED <<queue, running, rclk>>

Loop == alarm_context_dispatch \/ AlarmsDone \/ CallbackReturn \/ FetchOpcode

Next ==
  \/ Loop
  \/ \E a \in Alarms :
       \/ \E t \in Clock : CallbackSet(a, t) \/ OpcodeSet(a, t)
       \/ CallbackUnset(a) \/ OpcodeUnset(a)
       \/ OpcodeNew(a) \/ OpcodeDestroy(a)
  \/ \E n \in 1 .. MAX_CYCLES : StealCycles(n) \/ OpcodeEnd(n)

Spec == Init /\ [][Next]_vars

\* The CPU never stops (it is a loop without exit) and callbacks return.
FairSpec == Spec /\ WF_vars(Loop)

-----------------------------------------------------------------------------
(* Properties.                                                             *)

\* Every variable keeps its type; a slot beyond the array is the one thing
\* next_pending_alarm_idx may be, before the first alarm is set.
TypeOK ==
  /\ alarms \subseteq Alarms
  /\ num_pending_alarms \in 0 .. MAX_PENDING
  /\ pending_alarms \in [0 .. num_pending_alarms - 1 -> Entry]
  /\ next_pending_alarm_clk \in Clock
  /\ next_pending_alarm_idx \in -1 .. MAX_PENDING
  /\ pending_idx \in [Alarms -> -1 .. MAX_PENDING - 1]
  /\ clk \in 0 .. CLK_BOUND
  /\ phase \in {"process", "callback", "fetch", "opcode"}
  /\ running \in Alarms \cup {NoAlarm}
  /\ rclk \in Clock

\* The slot an alarm remembers and the alarm a slot holds agree, after any
\* series of the swap-with-last removals of alarm_unset(); only allocated
\* alarms are in the array (alarm_destroy() leaves no dangling slot).
SlotsConsistent ==
  /\ \A i \in 0 .. num_pending_alarms - 1 :
       pending_idx[pending_alarms[i].alarm] = i
  /\ \A a \in Alarms : pending_idx[a] >= 0 =>
       /\ a \in alarms
       /\ pending_idx[a] < num_pending_alarms
       /\ pending_alarms[pending_idx[a]].alarm = a

\* The cached clock, the only number the CPU loop looks at, is the earliest
\* deadline, and the cached slot is one that holds it.  (While the earliest
\* deadline is CLOCK_MAX the slot may still be the uninitialised one.)
NextIsEarliest ==
  /\ \A i \in 0 .. num_pending_alarms - 1 :
       next_pending_alarm_clk <= pending_alarms[i].clk
  /\ next_pending_alarm_clk < CLOCK_MAX =>
       /\ next_pending_alarm_idx \in 0 .. num_pending_alarms - 1
       /\ pending_alarms[next_pending_alarm_idx].clk = next_pending_alarm_clk

\* PROCESS_ALARMS leaves nothing behind: when an opcode is fetched no pending
\* alarm is due, whatever the callbacks set, unset, destroyed or stole.
NothingDueAtFetch ==
  phase = "fetch" =>
    \A a \in Alarms : Deadline(a) \notin 0 .. clk

Abstract == INSTANCE AlarmSpec
              WITH deadline <- [a \in Alarms |-> Deadline(a)]

\* The array with its cached minimum implements the abstract queue: an alarm
\* is called when due, earliest first, and no call is ever made through a
\* slot that holds no alarm.  (An alarm_set() that the full array ignores is
\* a stuttering step of the queue.)
RefinesAlarmSpec == Abstract!Spec

\* The dispatch loop ends: callbacks that reschedule themselves, set other
\* alarms or steal cycles do not keep the CPU from its next opcode.
OpcodeEventuallyFetched == phase = "process" ~> phase = "fetch"

==============================================================================
