------------------------------ MODULE Interrupt ------------------------------
(***************************************************************************)
(* The interrupt status of a 6510 (src/interrupt.c, src/interrupt.h) and   *)
(* the part of the CPU loop that acts on it: the pending-interrupt check   *)
(* and DO_INTERRUPT of src/6510core.c, BRK, the cycle stealing of          *)
(* src/dma.c and the interrupt part of a snapshot (src/maincpu.c).         *)
(*                                                                         *)
(* Chips raise and lower their own IRQ and NMI inputs.  The status counts  *)
(* the active ones, summarises them in global_pending_int and remembers    *)
(* when the line went active, because the 6510 reacts only INTERRUPT_DELAY *)
(* cycles later.                                                           *)
(*                                                                         *)
(* Clocks.  The code compares clocks with CLK and with each other only, so *)
(* the model keeps distances from CLK: an age is CLK - clock, and it stops *)
(* growing at AGE_MAX, beyond which no comparison can tell two ages apart. *)
(* irq_pending is irq_pending_clk - CLK, 0 once that is reached.           *)
(*                                                                         *)
(* The queue behind IK_TRAP is module TrapQueue; here a trap may do any of *)
(* the things trap functions do, and may leave IK_TRAP set.                *)
(***************************************************************************)
EXTENDS Integers, Sequences, FiniteSets

CONSTANTS
  IrqSources,   \* the sources (int_num) that use their IRQ input
  NmiSources,   \* the sources that use their NMI input
  Requests,     \* which of RESET, TRAP, MONITOR, DMA are ever requested
  MAX_BACK,     \* bound: how late a chip reports a change of its line
  MAX_LEFT,     \* bound: cycles between the start of a steal and CLK
  MAX_SUB,      \* bound: write cycles that delay a steal
  MAX_STOLEN,   \* bound: cycles stolen at once
  MAX_CYCLES,   \* bound: cycles of an opcode
  MAX_DMA,      \* bound: steals recorded per opcode
  AGE_MAX       \* ages from here on are not told apart

INTERRUPT_DELAY == 2
Never == 4      \* irq_pending when irq_pending_clk is CLOCK_MAX

ASSUME InterruptAssumption ==
  /\ IsFiniteSet(IrqSources)
  /\ IsFiniteSet(NmiSources)
  /\ Requests \subseteq {"RESET", "TRAP", "MONITOR", "DMA"}
  /\ MAX_BACK \in Nat
  /\ MAX_LEFT \in Nat
  /\ MAX_SUB \in Nat
  /\ MAX_STOLEN \in Nat
  /\ MAX_CYCLES \in Nat
  /\ MAX_DMA \in Nat
  /\ AGE_MAX \in Nat
  /\ AGE_MAX > MAX_LEFT + MAX_SUB
  /\ AGE_MAX > MAX_BACK + INTERRUPT_DELAY

VARIABLES
  cs,          \* the interrupt_cpu_status_t of the CPU
  flag_i,      \* the I flag, LOCAL_INTERRUPT()
  last_op,     \* what last_opcode_info says about the last opcode
  jammed,      \* CPU_IS_JAMMED
  pc_jam,      \* the PC stands on a JAM opcode
  phase,       \* where the CPU loop stands
  ik,          \* local copy of the pending interrupts in DO_INTERRUPT
  entry,       \* why the interrupt sequence in progress was started
  handler,     \* the vector it jumped through
  irq_seen,    \* history: the IRQ line was active since the last check
  snapshot     \* the saved interrupt status, or the empty record

vars == <<cs, flag_i, last_op, jammed, pc_jam, phase, ik, entry, handler,
          irq_seen, snapshot>>
cpu == <<flag_i, last_op, jammed, pc_jam, ik, entry, handler, snapshot>>

Kinds == {"NMI", "IRQ", "RESET", "TRAP", "MONITOR", "DMA", "IRQPEND"}
Age == -1 .. AGE_MAX
Capped(n) == IF n > AGE_MAX THEN AGE_MAX ELSE n

-----------------------------------------------------------------------------
(* Time.  After n cycles every clock is n further away.                    *)

Later(c, n) ==
  [c EXCEPT !.irq_age = Capped(@ + n),
            !.nmi_age = Capped(@ + n),
            !.stolen_age = Capped(@ + n),
            !.dma = [i \in DOMAIN @ |-> [left |-> @[i].left,
                                         age |-> Capped(@[i].age + n)]],
            !.irq_pending = IF @ = Never THEN Never
                            ELSE IF @ > n THEN @ - n ELSE 0]

\* OPINFO_DELAYS_INTERRUPT: a taken branch delays interrupts by one cycle.
CyclesLeftToTrigger == IF last_op = "delays" THEN 2 ELSE 1

\* The age interrupt_fixup_int_clk() gives to an interrupt requested at
\* CLK - back, before the end of the last steal.  The loop runs backwards
\* over this opcode's steals to the first that had begun; k = 0 if none had.
interrupt_fixup_int_clk(c, back) ==
  LET dma    == c.dma
      begun  == {i \in DOMAIN dma : dma[i].age + 1 >= back}
      k      == IF begun = {} THEN 0
                ELSE CHOOSE i \in begun : \A j \in begun : j <= i
      next   == k + 1
      left   == IF dma = <<>> THEN 0 ELSE dma[IF k = 0 THEN 1 ELSE k].left
      after  == IF next > Len(dma) THEN 0 ELSE dma[next].left
      room   == back - dma[next].age - 1
      cycles == IF k > 0 /\ next <= Len(dma)
                   /\ (left < after \/ left - after > room)
                THEN after + room ELSE left
      shift  == IF dma # <<>> /\ dma[1].age < back THEN back - dma[1].age ELSE 0
  IN  Capped(c.stolen_age + shift
             + (IF cycles >= CyclesLeftToTrigger THEN CyclesLeftToTrigger + 1 ELSE 0))

\* The age of a request made now with cpu_clk = CLK - back.
RequestAge(c, back) ==
  IF c.stolen_age >= back THEN back ELSE interrupt_fixup_int_clk(c, back)

-----------------------------------------------------------------------------
(* The lines.                                                              *)

\* Only the first active source is visible to the CPU: it sets the flags and
\* the time.
RaiseIrq(c, s, back) ==
  LET first == c.nirq = 0
  IN  [c EXCEPT !.irqs = @ \cup {s},
                !.nirq = @ + 1,
                !.global = IF first THEN @ \cup {"IRQ", "IRQPEND"} ELSE @,
                !.irq_pending = IF first THEN Never ELSE @,
                !.irq_age = IF first THEN RequestAge(c, back) ELSE @]

\* Mutant: the flag goes with the first source that lets go, not the last.
LowerIrqDropsFlag(c, s, back) ==
  [c EXCEPT !.irqs = @ \ {s}, !.nirq = @ - 1, !.global = @ \ {"IRQ"},
            !.irq_pending = IF back > 3 THEN 0 ELSE 3 - back]

LowerIrq(c, s, back) ==
  LET last == c.nirq = 1
  IN  [c EXCEPT !.irqs = @ \ {s},
                !.nirq = @ - 1,
                !.global = IF last THEN @ \ {"IRQ"} ELSE @,
                !.irq_pending = IF ~last THEN @ ELSE IF back > 3 THEN 0 ELSE 3 - back]

\* Mutant: a source that is already active is counted again.
SetIrqUnchecked(c, s, value, back) ==
  IF value THEN RaiseIrq(c, s, back)
  ELSE IF c.nirq = 0 THEN c ELSE LowerIrq(c, s, back)

interrupt_set_irq(c, s, value, back) ==
  IF value
  THEN IF s \in c.irqs THEN c ELSE RaiseIrq(c, s, back)
  ELSE IF s \notin c.irqs \/ c.nirq = 0 THEN c ELSE LowerIrq(c, s, back)

\* The NMI is edge triggered: the edge is latched in IK_NMI, and lowering the
\* input does not take it back.
RaiseNmi(c, s, back) ==
  LET edge == c.nnmi = 0 /\ "NMI" \notin c.global
  IN  [c EXCEPT !.nmis = @ \cup {s},
                !.nnmi = @ + 1,
                !.global = IF edge THEN @ \cup {"NMI"} ELSE @,
                !.nmi_age = IF edge THEN RequestAge(c, back) ELSE @]

\* Mutant: lowering an NMI input leaves the counter behind.
SetNmiKeepsCount(c, s, value, back) ==
  IF value
  THEN IF s \in c.nmis THEN c ELSE RaiseNmi(c, s, back)
  ELSE [c EXCEPT !.nmis = @ \ {s}]

interrupt_set_nmi(c, s, value, back) ==
  IF value
  THEN IF s \in c.nmis THEN c ELSE RaiseNmi(c, s, back)
  ELSE IF s \notin c.nmis \/ c.nnmi = 0 THEN c
       ELSE [c EXCEPT !.nmis = @ \ {s}, !.nnmi = @ - 1]

interrupt_ack_nmi(c) == [c EXCEPT !.global = @ \ {"NMI"}]
interrupt_ack_irq(c) == [c EXCEPT !.global = @ \ {"IRQPEND"}, !.irq_pending = Never]

\* Mutant: the pending interrupts start again after a steal.
StealRestarts(c, left, sub, num) ==
  [Later([c EXCEPT !.dma = Append(@, [left |-> left, age |-> left])], num)
     EXCEPT !.irq_age = left, !.nmi_age = left, !.stolen_age = left]

\* dma_maincpu_steal_cycles(): the video chip stops the CPU for num cycles
\* from dma_start = CLK - left, sub cycles after it asked for the bus.
Steal(c, left, sub, num) ==
  LET first     == c.dma = <<>> /\ left = CyclesLeftToTrigger
      new(age)  == (IF age < left THEN left ELSE age)
                   + (IF first /\ age <= left + sub THEN 1 ELSE 0)
      dma       == Append(c.dma, [left |-> left, age |-> left])
      stolen    == Later([c EXCEPT !.dma = dma], num)
  IN  [stolen EXCEPT !.irq_age = Capped(new(c.irq_age)),
                     !.nmi_age = Capped(new(c.nmi_age)),
                     !.stolen_age = left]

\* interrupt_cpu_status_reset() sets every clock to 0, cpu_reset() CLK to 6
\* and keeps the monitor's request alive.
cpu_reset(c) ==
  [irqs |-> {}, nmis |-> {}, nirq |-> 0, nnmi |-> 0,
   global |-> c.global \cap {"MONITOR"},
   irq_age |-> Capped(6), nmi_age |-> Capped(6), stolen_age |-> Capped(6),
   irq_pending |-> Never, dma |-> <<>>]

-----------------------------------------------------------------------------
(* The CPU loop.  In phase "alarms" it runs PROCESS_ALARMS, in "entering"  *)
(* the alarms inside an interrupt sequence or BRK, in "service" the rest   *)
(* of DO_INTERRUPT, in "opcode" an opcode.                                 *)

NoSnapshot == [saved |-> FALSE]

Init ==
  /\ cs = [cpu_reset([global |-> {}]) EXCEPT !.global = {"RESET"}]
  /\ flag_i = FALSE
  /\ last_op = "brk"
  /\ jammed = FALSE
  /\ pc_jam = FALSE
  /\ phase = "alarms"
  /\ ik = {}
  /\ entry = "none"
  /\ handler = "none"
  /\ irq_seen = FALSE
  /\ snapshot = NoSnapshot

\* Chips run in alarm callbacks and in the memory accesses of opcodes, and
\* the monitor reaches them from its prompt.
ChipsRun ==
  \/ phase \in {"alarms", "entering", "opcode"}
  \/ phase = "service" /\ "MONITOR" \in ik /\ ik \cap {"TRAP", "RESET"} = {}

Chips(c) ==
  /\ ChipsRun
  /\ cs' = c
  /\ irq_seen' = (irq_seen \/ c.nirq > 0)
  /\ UNCHANGED <<cpu, phase>>

SetIrq(s, value, back) ==
  /\ value \/ back >= 0
  /\ Chips(interrupt_set_irq(cs, s, value, back))

SetNmi(s, value, back) ==
  /\ value \/ back >= 0
  /\ Chips(interrupt_set_nmi(cs, s, value, back))

StealCycles(left, sub, num) ==
  /\ Len(cs.dma) < MAX_DMA
  /\ Chips(Steal(cs, left, sub, num))

\* interrupt_trigger_reset(), interrupt_maincpu_trigger_trap(),
\* interrupt_monitor_trap_on(), interrupt_trigger_dma()
Request(r) == Chips([cs EXCEPT !.global = @ \cup {r}])

interrupt_monitor_trap_off == Chips([cs EXCEPT !.global = @ \ {"MONITOR"}])

\* Nonzero if a pending NMI (IRQ) is old enough to be served.
interrupt_check_nmi_delay ==
  /\ last_op # "brk"
  /\ cs.nmi_age >= INTERRUPT_DELAY + (IF last_op = "delays" THEN 1 ELSE 0)

IrqOldEnough ==
  cs.irq_age >= INTERRUPT_DELAY + (IF last_op = "delays" THEN 1 ELSE 0)

interrupt_check_irq_delay == IrqOldEnough /\ last_op # "enables"

\* A jammed CPU takes no interrupts and only a reset recovers it.
JamHack(c) ==
  IF jammed
  THEN [interrupt_ack_irq(c) EXCEPT !.global = @ \ {"IRQ", "NMI"}]
  ELSE c

\* An IRQ that went away more than 3 cycles ago is forgotten.
ExpireIrqPend(c) ==
  IF "IRQ" \notin c.global /\ "IRQPEND" \in c.global /\ c.irq_pending = 0
  THEN interrupt_ack_irq(c) ELSE c

\* From the end of PROCESS_ALARMS to the first decision of DO_INTERRUPT.
\* The NMI is tested first; testing the IRQ's delay right after an opcode
\* that enables IRQs marks the IRQ as pending instead.
CheckPending ==
  LET c     == ExpireIrqPend(JamHack(cs))
      g     == c.global
      nmi   == "NMI" \in g /\ interrupt_check_nmi_delay
      open  == g \cap {"IRQ", "IRQPEND"} # {} /\ (~flag_i \/ last_op = "disables")
      irq   == ~nmi /\ open /\ interrupt_check_irq_delay
      defer == ~nmi /\ open /\ IrqOldEnough /\ last_op = "enables"
  IN  /\ phase = "alarms"
      /\ jammed' = (jammed /\ "RESET" \notin g)
      /\ ik' = g
      /\ \/ /\ nmi \/ irq
            /\ cs' = Later(c, 5)
            /\ entry' = IF nmi THEN "nmi" ELSE "irq"
            /\ flag_i' = TRUE
            /\ phase' = "entering"
            /\ UNCHANGED irq_seen
         \/ /\ ~nmi /\ ~irq
            /\ cs' = [c EXCEPT !.global = IF defer THEN @ \cup {"IRQPEND"} ELSE @]
            /\ phase' = IF g = {} THEN "opcode" ELSE "service"
            /\ irq_seen' = IF g = {} THEN c.nirq > 0 ELSE irq_seen
            /\ UNCHANGED <<entry, flag_i>>
      /\ UNCHANGED <<last_op, pc_jam, handler, snapshot>>

\* nmi_trap_func of a freezer cartridge lowers its own NMI when it is served.
NmiTrapFunc(c) == {c} \cup {interrupt_set_nmi(c, s, FALSE, 0) : s \in NmiSources}

\* The choice of the vector, after the alarms that ran during the pushes:
\* an NMI that is old enough by now takes over whatever was started.
VectorNmi ==
  /\ "NMI" \in cs.global
  /\ cs.nmi_age >= INTERRUPT_DELAY
  /\ \E c \in NmiTrapFunc(interrupt_ack_nmi(cs)) : cs' = Later(c, 2)
  /\ handler' = "nmi"

VectorOther(ack) ==
  /\ ~("NMI" \in cs.global /\ cs.nmi_age >= INTERRUPT_DELAY)
  /\ cs' = Later(IF ack THEN interrupt_ack_irq(cs) ELSE cs, 2)
  /\ handler' = IF ack THEN "irq" ELSE "brk"

Vector ==
  /\ phase = "entering"
  /\ entry \in {"nmi", "irq"}
  /\ VectorNmi \/ VectorOther(TRUE)
  /\ last_op' = "brk"
  /\ pc_jam' = FALSE
  /\ phase' = "service"
  /\ UNCHANGED <<flag_i, jammed, ik, entry, irq_seen, snapshot>>

\* interrupt_do_trap().  Trap functions trigger resets and further traps
\* (keep: IK_TRAP stays set), and are how snapshots are saved and loaded.  A
\* loaded snapshot replaces the interrupt status, the flags and the PC, but
\* not CPU_IS_JAMMED, and not this opcode's steals, whose absolute clocks
\* then mean nothing.
SnapshotOf(c) == [saved |-> TRUE, cs |-> [c EXCEPT !.dma = <<>>],
                  flag_i |-> flag_i, last_op |-> last_op, pc_jam |-> pc_jam]

Save ==
  /\ snapshot' = SnapshotOf(cs)
  /\ UNCHANGED <<flag_i, last_op, pc_jam>>

Load ==
  /\ snapshot.saved
  /\ flag_i' = snapshot.flag_i
  /\ last_op' = snapshot.last_op
  /\ pc_jam' = snapshot.pc_jam
  /\ UNCHANGED snapshot

\* Mutants: what interrupt_read_snapshot() leaves if the second part of the
\* module, with the counters and the flags, is not read.
LoadedWithoutCounts ==
  {[snapshot.cs EXCEPT !.nirq = 0, !.nnmi = 0, !.dma = cs.dma]}

LoadedWithoutFlags == {[snapshot.cs EXCEPT !.global = {}, !.dma = cs.dma]}

\* The status an interrupt_read_snapshot() and the chips' own restoring of
\* their lines leave behind.
Loaded ==
  {[snapshot.cs EXCEPT !.dma = [i \in DOMAIN cs.dma |-> [left |-> cs.dma[i].left,
                                                        age |-> ages[i]]]] :
     ages \in [DOMAIN cs.dma -> Age]}

AfterTraps(c, R, keep) ==
  [c EXCEPT !.global = ((@ \cup R) \ {"TRAP"}) \cup (IF keep THEN {"TRAP"} ELSE {})]

Trap ==
  /\ phase = "service"
  /\ "TRAP" \in ik
  /\ \E R \in SUBSET (Requests \ {"TRAP"}), keep \in BOOLEAN :
       /\ \/ Load /\ \E c \in Loaded : cs' = AfterTraps(c, R, keep)
          \/ Save /\ cs' = AfterTraps(cs, R, keep)
          \/ /\ cs' = AfterTraps(cs, R, keep)
             /\ UNCHANGED <<flag_i, last_op, pc_jam, snapshot>>
  /\ ik' = (ik \ {"TRAP"}) \cup (cs'.global \cap {"RESET"})
  /\ irq_seen' = (irq_seen \/ cs'.nirq > 0)
  /\ UNCHANGED <<jammed, phase, entry, handler>>

\* cpu_reset() and the rest of the IK_RESET branch; machine_reset() lowers
\* the lines of every chip.
Reset ==
  /\ phase = "service"
  /\ "TRAP" \notin ik
  /\ "RESET" \in ik
  /\ cs' = cpu_reset(cs)
  /\ flag_i' = TRUE
  /\ jammed' = FALSE
  /\ pc_jam' = FALSE
  /\ handler' = "reset"
  /\ ik' = ik \ {"RESET"}
  /\ UNCHANGED <<last_op, phase, entry, irq_seen, snapshot>>

\* Mutants: an IRQ that went away stays pending; a DMA is not acknowledged.
EndKeepsPending ==
  /\ phase = "service"
  /\ ik \cap {"TRAP", "RESET"} = {}
  /\ cs' = [cs EXCEPT !.global = IF "DMA" \in ik THEN @ \ {"DMA"} ELSE @]
  /\ phase' = "opcode"
  /\ ik' = {}
  /\ irq_seen' = (cs.nirq > 0)
  /\ UNCHANGED <<flag_i, last_op, jammed, pc_jam, entry, handler, snapshot>>

EndKeepsDma ==
  /\ phase = "service"
  /\ ik \cap {"TRAP", "RESET"} = {}
  /\ cs' = [cs EXCEPT !.global = IF "IRQ" \in @ THEN @ ELSE @ \ {"IRQPEND"}]
  /\ phase' = "opcode"
  /\ ik' = {}
  /\ irq_seen' = (cs.nirq > 0)
  /\ UNCHANGED <<flag_i, last_op, jammed, pc_jam, entry, handler, snapshot>>

\* The end of DO_INTERRUPT: the monitor has run, a DMA is acknowledged, and
\* an IRQ that went away without being taken is dropped.
EndInterrupt ==
  LET g == cs.global \ (IF "DMA" \in ik THEN {"DMA"} ELSE {})
  IN  /\ phase = "service"
      /\ ik \cap {"TRAP", "RESET"} = {}
      /\ cs' = [cs EXCEPT !.global = IF "IRQ" \in g THEN g ELSE g \ {"IRQPEND"}]
      /\ phase' = "opcode"
      /\ ik' = {}
      /\ irq_seen' = (cs.nirq > 0)
      /\ UNCHANGED <<flag_i, last_op, jammed, pc_jam, entry, handler, snapshot>>

\* Every opcode ends with num_dma_per_opcode = 0 and the loop starts again.
OpcodeEnds(c) ==
  /\ cs' = [c EXCEPT !.dma = <<>>]
  /\ phase' = "alarms"
  /\ entry' = "none"
  /\ handler' = "none"
  /\ UNCHANGED <<ik, irq_seen, snapshot>>

\* An opcode other than BRK and JAM.  CLI, SEI and PLP note a change of the
\* I flag, RTI changes it silently, and a taken branch delays interrupts.
Opcode(n, op, i) ==
  /\ phase = "opcode"
  /\ ~jammed /\ ~pc_jam
  /\ \/ op = "enables" /\ flag_i /\ ~i
     \/ op = "disables" /\ ~flag_i /\ i
     \/ op = "delays" /\ i = flag_i
     \/ op = "plain"
  /\ last_op' = op
  /\ flag_i' = i
  /\ OpcodeEnds(Later(cs, n))
  /\ UNCHANGED <<jammed, pc_jam>>

\* BRK up to the alarms it runs, and its choice of the vector.
BrkBegin ==
  /\ phase = "opcode"
  /\ ~jammed /\ ~pc_jam
  /\ cs' = Later(cs, 5)
  /\ last_op' = "brk"
  /\ entry' = "brk"
  /\ handler' = "none"
  /\ phase' = "entering"
  /\ UNCHANGED <<flag_i, jammed, pc_jam, ik, irq_seen, snapshot>>

BrkTakesIrq ==
  /\ cs.global \cap {"IRQ", "IRQPEND"} # {}
  /\ ~flag_i
  /\ cs.irq_age >= INTERRUPT_DELAY

\* Mutant: BRK always jumps through its own vector.
BrkIgnoresNmi ==
  /\ phase = "entering"
  /\ entry = "brk"
  /\ cs' = Later(cs, 2)
  /\ handler' = "brk"
  /\ flag_i' = TRUE
  /\ phase' = "brkend"
  /\ UNCHANGED <<last_op, jammed, pc_jam, ik, entry, irq_seen, snapshot>>

BrkVector ==
  /\ phase = "entering"
  /\ entry = "brk"
  /\ VectorNmi \/ VectorOther(BrkTakesIrq)
  /\ flag_i' = TRUE
  /\ phase' = "brkend"
  /\ UNCHANGED <<last_op, jammed, pc_jam, ik, entry, irq_seen, snapshot>>

BrkEnd ==
  /\ phase = "brkend"
  /\ OpcodeEnds(cs)
  /\ UNCHANGED <<flag_i, last_op, jammed, pc_jam>>

\* JAM, again and again (a jammed CPU is forced to execute the opcode that
\* jammed it): the dialog may choose a reset on the spot, or the monitor, in
\* which case no cycle passes.
Jam ==
  /\ phase = "opcode"
  /\ last_op' = "plain"
  /\ \/ /\ jammed' = TRUE
        /\ pc_jam' = TRUE
        /\ \E n \in {0, 1} : OpcodeEnds(Later(cs, n))
        /\ UNCHANGED flag_i
     \/ /\ "RESET" \in Requests
        /\ jammed' = FALSE
        /\ pc_jam' = FALSE
        /\ flag_i' = TRUE
        /\ OpcodeEnds(cpu_reset(cs))

Loop == CheckPending \/ Vector \/ Trap \/ Reset \/ EndInterrupt
        \/ BrkBegin \/ BrkVector \/ BrkEnd \/ Jam
        \/ \E n \in 2 .. MAX_CYCLES, i \in BOOLEAN,
              op \in {"plain", "delays", "enables", "disables"} : Opcode(n, op, i)

Next ==
  \/ Loop
  \/ \E v \in BOOLEAN, back \in -1 .. MAX_BACK :
       \/ \E s \in IrqSources : SetIrq(s, v, back)
       \/ \E s \in NmiSources : SetNmi(s, v, back)
  \/ \E left \in 0 .. MAX_LEFT, sub \in 0 .. MAX_SUB, num \in 1 .. MAX_STOLEN :
       StealCycles(left, sub, num)
  \/ \E r \in Requests : Request(r)
  \/ interrupt_monitor_trap_off

Spec == Init /\ [][Next]_vars

\* The CPU loop never stops.
FairSpec == Spec /\ WF_vars(Loop)

-----------------------------------------------------------------------------
(* Properties.                                                             *)

Status == [irqs : SUBSET IrqSources, nmis : SUBSET NmiSources,
           nirq : 0 .. Cardinality(IrqSources), nnmi : 0 .. Cardinality(NmiSources),
           global : SUBSET Kinds,
           irq_age : Age, nmi_age : Age, stolen_age : Age,
           irq_pending : 0 .. Never,
           dma : Seq([left : 0 .. MAX_LEFT, age : Age])]

\* Every variable keeps its type; the counters never leave the number of
\* sources.
TypeOK ==
  /\ cs \in Status
  /\ flag_i \in BOOLEAN
  /\ last_op \in {"brk", "plain", "delays", "enables", "disables"}
  /\ jammed \in BOOLEAN
  /\ pc_jam \in BOOLEAN
  /\ phase \in {"alarms", "entering", "service", "opcode", "brkend"}
  /\ ik \in SUBSET Kinds
  /\ entry \in {"none", "nmi", "irq", "brk"}
  /\ handler \in {"none", "nmi", "irq", "brk", "reset"}
  /\ irq_seen \in BOOLEAN

\* The counters that stand for the wired-or lines agree with the sources
\* that pull them, whatever order chips, resets and loaded snapshots come in.
CountsMatchLines ==
  /\ cs.nirq = Cardinality(cs.irqs)
  /\ cs.nnmi = Cardinality(cs.nmis)

\* The flag the CPU looks at agrees with the IRQ line when an opcode starts.
\* A jammed CPU, and one about to jam again, is the exception: the jam hack
\* clears the flag behind the line's back.
IrqFlagMatchesLine ==
  phase = "opcode" /\ ~jammed /\ ~pc_jam =>
    ("IRQ" \in cs.global <=> cs.nirq > 0)

\* A masked IRQ is never taken: a sequence that was started for an NMI ends
\* at the NMI vector, although lines change and cycles are stolen before the
\* vector is chosen (nmi_clk moves with the steals).
NmiEntryReachesNmi == handler = "irq" => entry # "nmi"

\* An IRQ is only taken if the line was active at some time since the check
\* before the last opcode: IK_IRQPEND does not outlive the line by more.
NoStaleIrq == phase = "entering" /\ entry = "irq" => irq_seen

\* A latched NMI edge is served or discarded by a reset, unless the CPU is
\* jammed: no stream of opcodes, steals, IRQs or further edges starves it.
NmiEventuallyServed ==
  "NMI" \in cs.global ~> "NMI" \notin cs.global \/ jammed

\* A requested reset or DMA is eventually carried out, even from a jam, and
\* although the CPU acts on a copy of the flags taken before the alarms of an
\* interrupt sequence ran.
RequestsEventuallyDone ==
  \A r \in {"RESET", "DMA"} : r \in cs.global ~> r \notin cs.global

=============================================================================
