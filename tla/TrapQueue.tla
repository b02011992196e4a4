------------------------------ MODULE TrapQueue ------------------------------
(***************************************************************************)
(* The traps of the main CPU (src/interrupt.c): functions that the UI, the *)
(* monitor, autostart and others schedule with                             *)
(* interrupt_maincpu_trigger_trap() to be run between two opcodes.         *)
(* interrupt_do_trap() runs the ones that were scheduled when it started;  *)
(* a trap may schedule further traps, which wait for the next cycle.       *)
(*                                                                         *)
(* The array is kept with its holes: realloc() leaves new slots            *)
(* uninitialised.  Each call of a trap function is two steps, because the  *)
(* function may call interrupt_maincpu_trigger_trap() in between.          *)
(* Names that Interrupt has as well begin with Trap or trap here, since    *)
(* InterruptProofs extends both.                                           *)
(***************************************************************************)
EXTENDS Integers, Sequences

CONSTANTS
  Traps,        \* trap functions (with their data)
  Garbage,      \* what an uninitialised slot holds
  NestingAt,    \* positions in a cycle at which trap functions schedule traps
  MAX_QUEUED,   \* bound on the traps waiting at any time
  MAX_SLOTS     \* bound on the size of the array

ASSUME TrapAssumption ==
  /\ Garbage \notin Traps
  /\ NestingAt \subseteq Nat
  /\ MAX_QUEUED \in Nat
  /\ MAX_SLOTS \in Nat

VARIABLES
  trap_func,     \* the array, slots 0 .. traps_size - 1
  traps_size,
  traps_next,
  traps_count,
  ik_trap,       \* IK_TRAP in global_pending_int
  trap_phase,    \* "cpu", or in DO_INTERRUPT: "loop", "trap", "done"
  trap_i,        \* its loop counter
  traps_this_cycle,
  running,       \* the trap function that runs
  due,           \* history: the trap that should run now
  fifo           \* history: the traps scheduled and not yet run, in order

queue == <<trap_func, traps_size, traps_next, traps_count, ik_trap>>
trap_vars == <<queue, trap_phase, trap_i, traps_this_cycle, running, due, fifo>>

Slot == Traps \cup {Garbage}

-----------------------------------------------------------------------------

NoTraps == [n \in {} |-> Garbage]

TrapInit ==
  /\ trap_func = NoTraps
  /\ traps_size = 0
  /\ traps_next = 0
  /\ traps_count = 0
  /\ ik_trap = FALSE
  /\ fifo = <<>>
  /\ trap_phase = "cpu"
  /\ trap_i = 0
  /\ traps_this_cycle = 0
  /\ running = Garbage
  /\ due = Garbage

\* Mutant: the new trap goes behind the pending ones as if none had been run.
TriggerAtCount(t) ==
  LET size == IF traps_count + 1 > traps_size THEN traps_count + 1 ELSE traps_size
  IN  /\ traps_count' = traps_count + 1
      /\ traps_size' = size
      /\ trap_func' = [n \in 0 .. size - 1 |->
                         IF n = traps_count THEN t
                         ELSE IF n < traps_size THEN trap_func[n] ELSE Garbage]
      /\ ik_trap' = TRUE
      /\ UNCHANGED traps_next

\* Mutant: IK_TRAP is only raised for the first trap of the array.
TriggerRaisesOnce(t) ==
  LET index  == traps_next + traps_count
      needed == index + 1
      size   == IF needed > traps_size THEN needed ELSE traps_size
  IN  /\ traps_count' = traps_count + 1
      /\ traps_size' = size
      /\ trap_func' = [n \in 0 .. size - 1 |->
                         IF n = index THEN t
                         ELSE IF n < traps_size THEN trap_func[n] ELSE Garbage]
      /\ ik_trap' = (ik_trap \/ traps_size = 0)
      /\ UNCHANGED traps_next

interrupt_maincpu_trigger_trap(t) ==
  LET index  == traps_next + traps_count
      needed == index + 1
      size   == IF needed > traps_size THEN needed ELSE traps_size
  IN  /\ traps_count' = traps_count + 1
      /\ traps_size' = size
      /\ trap_func' = [n \in 0 .. size - 1 |->
                         IF n = index THEN t
                         ELSE IF n < traps_size THEN trap_func[n] ELSE Garbage]
      /\ ik_trap' = TRUE
      /\ UNCHANGED traps_next

\* Between opcodes, or from a trap function that runs.
Trigger(t) ==
  /\ \/ trap_phase = "cpu"
     \/ trap_phase = "trap" /\ trap_i \in NestingAt
  /\ Len(fifo) < MAX_QUEUED
  /\ traps_next + traps_count < MAX_SLOTS
  /\ interrupt_maincpu_trigger_trap(t)
  /\ fifo' = Append(fifo, t)
  /\ UNCHANGED <<trap_phase, trap_i, traps_this_cycle, running, due>>

\* interrupt_do_trap(), called by the CPU loop when it sees IK_TRAP.
DoTrapBegin ==
  /\ trap_phase = "cpu"
  /\ ik_trap
  /\ trap_phase' = "loop"
  /\ trap_i' = 0
  /\ traps_this_cycle' = traps_count
  /\ UNCHANGED <<queue, running, due, fifo>>

CallTrap ==
  /\ trap_phase = "loop"
  /\ trap_i < traps_this_cycle
  /\ trap_phase' = "trap"
  /\ running' = IF traps_next < traps_size THEN trap_func[traps_next] ELSE Garbage
  /\ due' = IF fifo = <<>> THEN Garbage ELSE Head(fifo)
  /\ fifo' = IF fifo = <<>> THEN fifo ELSE Tail(fifo)
  /\ UNCHANGED <<queue, trap_i, traps_this_cycle>>

\* Mutant: the loop is not advanced.
TrapReturnsAgain ==
  /\ trap_phase = "trap"
  /\ trap_phase' = "loop"
  /\ UNCHANGED <<queue, trap_i, traps_this_cycle, running, due, fifo>>

TrapReturns ==
  /\ trap_phase = "trap"
  /\ trap_phase' = "loop"
  /\ traps_next' = traps_next + 1
  /\ trap_i' = trap_i + 1
  /\ UNCHANGED <<trap_func, traps_size, traps_count, ik_trap,
                 traps_this_cycle, running, due, fifo>>

\* Mutant: traps that traps scheduled are dropped with the rest.
DoTrapForgets ==
  /\ trap_phase = "loop"
  /\ trap_i = traps_this_cycle
  /\ trap_phase' = "done"
  /\ ik_trap' = FALSE
  /\ traps_next' = 0
  /\ traps_count' = 0
  /\ UNCHANGED <<trap_func, traps_size, trap_i, traps_this_cycle, running, due, fifo>>

DoTrapEnd ==
  /\ trap_phase = "loop"
  /\ trap_i = traps_this_cycle
  /\ trap_phase' = "done"
  /\ IF traps_count > traps_this_cycle
     THEN /\ traps_count' = traps_count - traps_this_cycle
          /\ UNCHANGED <<traps_next, ik_trap>>
     ELSE /\ ik_trap' = FALSE
          /\ traps_next' = 0
          /\ traps_count' = 0
  /\ UNCHANGED <<trap_func, traps_size, trap_i, traps_this_cycle, running, due, fifo>>

\* The opcode after the traps is executed.
Resume ==
  /\ trap_phase = "done"
  /\ trap_phase' = "cpu"
  /\ UNCHANGED <<queue, trap_i, traps_this_cycle, running, due, fifo>>

\* DO_INTERRUPT looks at IK_RESET after the traps.  cpu_reset() calls
\* interrupt_cpu_status_reset(), which zeroes the whole status: traps that the
\* traps of this cycle scheduled are dropped and the array is abandoned.
DropTraps ==
  /\ \/ trap_phase = "done"
     \/ trap_phase = "cpu" /\ ~ik_trap
  /\ trap_phase' = "cpu"
  /\ trap_func' = NoTraps
  /\ traps_size' = 0
  /\ traps_next' = 0
  /\ traps_count' = 0
  /\ ik_trap' = FALSE
  /\ fifo' = <<>>
  /\ UNCHANGED <<trap_i, traps_this_cycle, running, due>>

Cpu == DoTrapBegin \/ CallTrap \/ TrapReturns \/ DoTrapEnd \/ Resume

TrapNext == Cpu \/ DropTraps \/ \E t \in Traps : Trigger(t)

TrapSpec == TrapInit /\ [][TrapNext]_trap_vars

\* The CPU looks at IK_TRAP before every opcode, and trap functions return.
FairTrapSpec == TrapSpec /\ WF_trap_vars(Cpu)

-----------------------------------------------------------------------------
(* Properties.                                                             *)

\* Every variable keeps its type.
TrapTypeOK ==
  /\ traps_size \in Nat
  /\ traps_next \in Nat
  /\ traps_count \in Nat
  /\ trap_func \in [0 .. traps_size - 1 -> Slot]
  /\ ik_trap \in BOOLEAN
  /\ trap_phase \in {"cpu", "loop", "trap", "done"}
  /\ trap_i \in Nat
  /\ traps_this_cycle \in Nat
  /\ running \in Slot
  /\ due \in Slot
  /\ fifo \in Seq(Traps)

\* The comment of interrupt_maincpu_trigger_trap() claims that traps can
\* trigger traps and that more than one can be triggered per cycle: then the
\* function that is called is always the one scheduled longest ago, and
\* never what happens to be in an uninitialised slot.
TrapsRunInOrder == trap_phase = "trap" => running = due

\* Between opcodes IK_TRAP is set exactly while scheduled traps wait, and
\* they are the ones in the slots the next cycle will call.
NoTrapForgotten ==
  trap_phase = "cpu" =>
    /\ ik_trap <=> fifo # <<>>
    /\ traps_count = Len(fifo)
    /\ traps_next + traps_count <= traps_size
    /\ \A k \in 1 .. Len(fifo) : trap_func[traps_next + k - 1] = fifo[k]

\* The strengthening of both for induction: in a cycle, traps_count still
\* counts the i traps that were run, and traps_next points at the slot of the
\* trap that runs or comes next.
Done == CASE trap_phase \in {"cpu", "done"} -> 0
          [] trap_phase = "loop" -> trap_i
          [] trap_phase = "trap" -> trap_i + 1

Ahead == IF trap_phase = "trap" THEN 1 ELSE 0

TrapInv ==
  /\ traps_count = Done + Len(fifo)
  /\ traps_next + Ahead + Len(fifo) <= traps_size
  /\ \A k \in 1 .. Len(fifo) : trap_func[traps_next + Ahead + k - 1] = fifo[k]
  /\ trap_phase \in {"cpu", "done"} => (ik_trap <=> fifo # <<>>)
  /\ trap_phase \in {"loop", "trap"} =>
       ik_trap /\ Done <= traps_this_cycle /\ traps_this_cycle <= traps_count
  /\ TrapsRunInOrder

\* A cycle of traps ends: traps that schedule traps do not keep the CPU.
TrapCycleEnds == trap_phase = "loop" ~> trap_phase = "cpu"

==============================================================================
