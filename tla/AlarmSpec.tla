------------------------------ MODULE AlarmSpec ------------------------------
(***************************************************************************)
(* What the alarm context promises to the chips and to the CPU loop, with  *)
(* no array, no slots and no cached minimum: a deadline per alarm, the     *)
(* earliest due alarm is the one called, and an opcode is fetched only     *)
(* when nothing is due.  Module Alarm is shown to implement it.            *)
(***************************************************************************)
EXTENDS Integers

CONSTANTS Alarms, NoAlarm, CLOCK_MAX, CLK_BOUND, MAX_CYCLES

VARIABLES
  deadline,   \* per alarm: the tick it is due at, or Idle
  clk, phase, running, rclk

vars == <<deadline, clk, phase, running, rclk>>

Idle == -1
Clock == 0 .. CLOCK_MAX
Due(a) == deadline[a] # Idle /\ deadline[a] <= clk

Init ==
  /\ deadline = [a \in Alarms |-> Idle]
  /\ clk = 0
  /\ phase = "process"
  /\ running = NoAlarm
  /\ rclk = 0

\* The callback of an alarm that is due and that no other is due before.
Fire(a) ==
  /\ phase = "process"
  /\ Due(a)
  /\ \A b \in Alarms : deadline[b] # Idle => deadline[a] <= deadline[b]
  /\ phase' = "callback"
  /\ running' = a
  /\ rclk' = deadline[a]
  /\ UNCHANGED <<deadline, clk>>

Set(a, t) ==
  /\ \/ phase = "opcode"
     \/ phase = "callback" /\ t > rclk
  /\ deadline' = [deadline EXCEPT ![a] = t]
  /\ UNCHANGED <<clk, phase, running, rclk>>

Unset(a) ==
  /\ phase \in {"opcode", "callback"}
  /\ deadline' = [deadline EXCEPT ![a] = Idle]
  /\ UNCHANGED <<clk, phase, running, rclk>>

\* A callback returns with its own alarm idle or past the tick it ran for.
Return ==
  /\ phase = "callback"
  /\ \/ /\ deadline[running] = Idle \/ deadline[running] > rclk
        /\ UNCHANGED deadline
     \/ \E t \in {Idle} \cup (rclk + 1 .. CLOCK_MAX) :
          deadline' = [deadline EXCEPT ![running] = t]
  /\ phase' = "process"
  /\ running' = NoAlarm
  /\ rclk' = 0
  /\ UNCHANGED clk

Quiet ==
  /\ phase = "process"
  /\ \A a \in Alarms : ~Due(a)
  /\ phase' = "fetch"
  /\ UNCHANGED <<deadline, clk, running, rclk>>

Fetch ==
  /\ phase = "fetch"
  /\ phase' = "opcode"
  /\ UNCHANGED <<deadline, clk, running, rclk>>

Advance(n) ==
  /\ clk + n <= CLK_BOUND
  /\ clk' = clk + n
  /\ \/ phase = "callback" /\ phase' = phase
     \/ phase = "opcode" /\ phase' = "process"
  /\ UNCHANGED <<deadline, running, rclk>>

Next ==
  \/ Return \/ Quiet \/ Fetch
  \/ \E a \in Alarms : Fire(a) \/ Unset(a) \/ \E t \in Clock : Set(a, t)
  \/ \E n \in 1 .. MAX_CYCLES : Advance(n)

Spec == Init /\ [][Next]_vars
==============================================================================
