--------------------------- MODULE InterruptProofs ---------------------------
(***************************************************************************)
(* Proofs about the interrupt status: the counters of the wired-or lines,  *)
(* the flags the CPU looks at, and what an interrupt sequence ends with,   *)
(* for any sources, any bounds and any snapshots; and about the queue of   *)
(* the traps of the main CPU.                                              *)
(***************************************************************************)
EXTENDS Interrupt, TrapQueue, FiniteSetTheorems, SequenceTheorems, TLAPS

StealType == [left : 0 .. MAX_LEFT, age : Age]
Op == {"brk", "plain", "delays", "enables", "disables"}
Snapshot == [saved : {TRUE}, cs : Status, flag_i : BOOLEAN, last_op : Op, pc_jam : BOOLEAN]
LineFlags == {"IRQ", "IRQPEND"}

-----------------------------------------------------------------------------
(* Parts of the inductive invariant, for one interrupt status.             *)

Counts(c) == c.nirq = Cardinality(c.irqs) /\ c.nnmi = Cardinality(c.nmis)

\* IK_IRQ is never set without an active source, and while a source is active
\* IK_IRQPEND is only set together with IK_IRQ.
Flags(c) ==
  /\ "IRQ" \in c.global => c.nirq > 0
  /\ "IRQPEND" \in c.global /\ c.nirq > 0 => "IRQ" \in c.global

Agrees(c) == "IRQ" \in c.global <=> c.nirq > 0

SameLines(c, d) ==
  /\ d.irqs = c.irqs /\ d.nmis = c.nmis /\ d.nirq = c.nirq /\ d.nnmi = c.nnmi
  /\ d.global = c.global

NmiOldEnough(c) == "NMI" \in c.global /\ c.nmi_age >= INTERRUPT_DELAY

-----------------------------------------------------------------------------
(* Operators.                                                              *)

LEMMA Bounds == 
  /\ MAX_BACK \in Nat /\ MAX_LEFT \in Nat /\ MAX_SUB \in Nat /\ MAX_STOLEN \in Nat
  /\ MAX_CYCLES \in Nat /\ MAX_DMA \in Nat /\ AGE_MAX \in Nat
  /\ AGE_MAX > MAX_LEFT /\ AGE_MAX > MAX_BACK /\ AGE_MAX > 2
  /\ Requests \subseteq {"RESET", "TRAP", "MONITOR", "DMA"}
  /\ IsFiniteSet(IrqSources) /\ IsFiniteSet(NmiSources)
  BY InterruptAssumption DEF InterruptAssumption, INTERRUPT_DELAY

LEMMA CappedAge ==
  ASSUME NEW n \in Int, n >= -1
  PROVE  /\ Capped(n) \in Age
         /\ Capped(n) <= n
         /\ n >= 2 => Capped(n) >= 2
  BY Bounds DEF Capped, Age

\* Steals grow older in place.
LEMMA LaterDma ==
  ASSUME NEW dma \in Seq(StealType), NEW n \in Nat
  PROVE  [i \in DOMAIN dma |-> [left |-> dma[i].left, age |-> Capped(dma[i].age + n)]]
           \in Seq(StealType)
<1>1. ASSUME NEW i \in 1 .. Len(dma)
      PROVE  [left |-> dma[i].left, age |-> Capped(dma[i].age + n)] \in StealType
  <2>1. dma[i] \in StealType
    BY ElementOfSeq
  <2>2. dma[i].age + n \in Int /\ dma[i].age + n >= -1
    BY <2>1, Bounds DEF StealType, Age
  <2> QED
    BY <2>1, <2>2, CappedAge DEF StealType
<1> QED
  BY <1>1, LenProperties, IsASeq

LEMMA LaterStatus ==
  ASSUME NEW c \in Status, NEW n \in Nat
  PROVE  /\ Later(c, n) \in Status
         /\ SameLines(c, Later(c, n))
         /\ c.nmi_age >= 2 => Later(c, n).nmi_age >= 2
<1> DEFINE dma == [i \in DOMAIN c.dma |-> [left |-> c.dma[i].left, age |-> Capped(c.dma[i].age + n)]]
<1>1. dma \in Seq(StealType)
  BY LaterDma DEF Status, StealType
<1>2. /\ c.irq_age + n >= -1 /\ c.nmi_age + n >= -1 /\ c.stolen_age + n >= -1
      /\ c.irq_age + n \in Int /\ c.nmi_age + n \in Int /\ c.stolen_age + n \in Int
      /\ c.nmi_age >= 2 => c.nmi_age + n >= 2
  BY Bounds DEF Status, Age
<1>3. /\ Capped(c.irq_age + n) \in Age /\ Capped(c.nmi_age + n) \in Age
      /\ Capped(c.stolen_age + n) \in Age
      /\ c.nmi_age >= 2 => Capped(c.nmi_age + n) >= 2
  BY <1>2, CappedAge
<1>4. (IF c.irq_pending = Never THEN Never ELSE IF c.irq_pending > n THEN c.irq_pending - n ELSE 0) \in 0 .. Never
  BY DEF Status, Never
<1> HIDE DEF dma
<1>5. Later(c, n) = [c EXCEPT !.irq_age = Capped(c.irq_age + n),
            !.nmi_age = Capped(c.nmi_age + n),
            !.stolen_age = Capped(c.stolen_age + n),
            !.dma = dma,
            !.irq_pending = IF c.irq_pending = Never THEN Never
                            ELSE IF c.irq_pending > n THEN c.irq_pending - n ELSE 0]
  BY DEF Later, dma, Status
<1> QED
  BY <1>1, <1>3, <1>4, <1>5 DEF Status, StealType, SameLines

LEMMA RequestAgeType ==
  ASSUME NEW c \in Status, NEW back \in -1 .. MAX_BACK
  PROVE  RequestAge(c, back) \in Age
<1>1. back \in Age
  BY Bounds DEF Age
<1>2. interrupt_fixup_int_clk(c, back) \in Age
  <2> DEFINE shift == IF c.dma # <<>> /\ c.dma[1].age < back THEN back - c.dma[1].age ELSE 0
  <2>1. shift \in Nat
    <3>1. CASE c.dma # <<>>
      <4>1. c.dma \in Seq(StealType)
        BY DEF Status, StealType
      <4>2. Len(c.dma) \in Nat /\ Len(c.dma) # 0
        BY <4>1, <3>1, EmptySeq, LenProperties
      <4>3. c.dma[1] \in StealType
        BY <4>1, <4>2, ElementOfSeq, SMT
      <4> QED
        BY <4>3, Bounds DEF StealType, Age
    <3> QED
      BY <3>1
  <2> HIDE DEF shift
  <2>2. \A x \in {0, CyclesLeftToTrigger + 1} :
          Capped(c.stolen_age + shift + x) \in Age
    <3> SUFFICES ASSUME NEW x \in {0, CyclesLeftToTrigger + 1}
                 PROVE  Capped(c.stolen_age + shift + x) \in Age
      OBVIOUS
    <3>1. c.stolen_age + shift + x \in Int /\ c.stolen_age + shift + x >= -1
      BY <2>1, Bounds DEF Status, Age, CyclesLeftToTrigger
    <3> QED
      BY <3>1, CappedAge
  <2>3. \E x \in {0, CyclesLeftToTrigger + 1} :
          interrupt_fixup_int_clk(c, back) = Capped(c.stolen_age + shift + x)
    BY DEF interrupt_fixup_int_clk, shift
  <2> QED
    BY <2>2, <2>3
<1> QED
  BY <1>1, <1>2 DEF RequestAge

-----------------------------------------------------------------------------
(* What a chip, the monitor or a trap function may do to the status: the   *)
(* lines, the flags and a pending NMI stay consistent, and IK_IRQ and      *)
(* IK_IRQPEND only appear while an IRQ source is active.                   *)

ChipStep(c, d) ==
  /\ d \in Status
  /\ Counts(d)
  /\ Flags(d)
  /\ Agrees(c) => Agrees(d)
  /\ NmiOldEnough(c) => NmiOldEnough(d)
  /\ d.global \cap LineFlags # {} => c.global \cap LineFlags # {} \/ d.nirq > 0

\* Counters change with the sets they count.
LEMMA CountUp ==
  ASSUME NEW S, IsFiniteSet(S), NEW T \in SUBSET S, NEW s \in S, s \notin T
  PROVE  /\ Cardinality(T \cup {s}) = Cardinality(T) + 1
         /\ Cardinality(T \cup {s}) \in 0 .. Cardinality(S)
         /\ T \cup {s} \in SUBSET S
<1>1. IsFiniteSet(T) /\ T \cup {s} \subseteq S
  BY FS_Subset
<1>2. Cardinality(T \cup {s}) = Cardinality(T) + 1
  BY <1>1, FS_AddElement
<1>3. IsFiniteSet(T \cup {s}) /\ Cardinality(T \cup {s}) <= Cardinality(S)
  BY <1>1, FS_Subset
<1> QED
  BY <1>1, <1>2, <1>3, FS_CardinalityType

LEMMA CountDown ==
  ASSUME NEW S, IsFiniteSet(S), NEW T \in SUBSET S, NEW s \in T
  PROVE  /\ Cardinality(T \ {s}) = Cardinality(T) - 1
         /\ Cardinality(T \ {s}) \in 0 .. Cardinality(S)
         /\ Cardinality(T) > 0
         /\ T \ {s} \in SUBSET S
<1>1. IsFiniteSet(T) /\ T \ {s} \subseteq S
  BY FS_Subset
<1>2. Cardinality(T \ {s}) = Cardinality(T) - 1
  BY <1>1, FS_RemoveElement
<1>3. IsFiniteSet(T \ {s}) /\ Cardinality(T \ {s}) <= Cardinality(S)
  BY <1>1, FS_Subset
<1> QED
  BY <1>1, <1>2, <1>3, FS_CardinalityType

LEMMA CountTypes ==
  ASSUME NEW c \in Status, Counts(c)
  PROVE  c.nirq \in Nat /\ c.nnmi \in Nat
  BY Bounds, FS_CardinalityType DEF Status

LEMMA SetIrqStep ==
  ASSUME NEW c \in Status, Counts(c), Flags(c),
         NEW s \in IrqSources, NEW value \in BOOLEAN, NEW back \in -1 .. MAX_BACK,
         value \/ back >= 0
  PROVE  ChipStep(c, interrupt_set_irq(c, s, value, back))
<1> USE DEF ChipStep, LineFlags
<1>1. CASE value /\ s \notin c.irqs
  <2> DEFINE d == RaiseIrq(c, s, back)
  <2>1. interrupt_set_irq(c, s, value, back) = d
    BY <1>1 DEF interrupt_set_irq
  <2>2. /\ d.irqs = c.irqs \cup {s} /\ d.nirq = c.nirq + 1
        /\ d.global = (IF c.nirq = 0 THEN c.global \cup {"IRQ", "IRQPEND"} ELSE c.global)
        /\ d.nmis = c.nmis /\ d.nnmi = c.nnmi /\ d.nmi_age = c.nmi_age
    BY DEF RaiseIrq, Status
  <2>3. d.nirq = Cardinality(d.irqs) /\ d.nirq \in 0 .. Cardinality(IrqSources)
        /\ d.irqs \in SUBSET IrqSources
    <3>1. c.irqs \in SUBSET IrqSources /\ s \notin c.irqs /\ IsFiniteSet(IrqSources)
          /\ c.nirq = Cardinality(c.irqs)
      BY <1>1, Bounds DEF Status, Counts
    <3>2. /\ Cardinality(c.irqs \cup {s}) = Cardinality(c.irqs) + 1
          /\ Cardinality(c.irqs \cup {s}) \in 0 .. Cardinality(IrqSources)
          /\ c.irqs \cup {s} \in SUBSET IrqSources
      BY <3>1, CountUp
    <3> QED
      BY <2>2, <3>1, <3>2
  <2>4. d \in Status
    <3>1. RequestAge(c, back) \in Age /\ Never \in 0 .. Never
      BY RequestAgeType DEF Never
    <3>2. c.global \cup {"IRQ", "IRQPEND"} \in SUBSET Kinds
      BY DEF Status, Kinds
    <3>3. c.nirq + 1 \in 0 .. Cardinality(IrqSources) /\ c.irqs \cup {s} \in SUBSET IrqSources
      BY <2>2, <2>3
    <3> QED
      BY <3>1, <3>2, <3>3 DEF Status, RaiseIrq
  <2>5. c.nirq \in Nat
    BY CountTypes
  <2> HIDE DEF d
  <2> QED
    BY <2>1, <2>2, <2>3, <2>4, <2>5 DEF Counts, Flags, Agrees, NmiOldEnough
<1>2. CASE ~value /\ s \in c.irqs
  <2> DEFINE d == LowerIrq(c, s, back)
  <2>1. c.irqs \in SUBSET IrqSources /\ c.nirq = Cardinality(c.irqs)
    BY DEF Status, Counts
  <2>2. c.nirq > 0 /\ Cardinality(c.irqs \ {s}) = c.nirq - 1
        /\ c.irqs \ {s} \in SUBSET IrqSources /\ c.nirq - 1 \in 0 .. Cardinality(IrqSources)
    <3>1. IsFiniteSet(IrqSources) /\ s \in c.irqs
      BY <1>2, Bounds
    <3>2. /\ Cardinality(c.irqs \ {s}) = Cardinality(c.irqs) - 1
          /\ Cardinality(c.irqs \ {s}) \in 0 .. Cardinality(IrqSources)
          /\ Cardinality(c.irqs) > 0
          /\ c.irqs \ {s} \in SUBSET IrqSources
      BY <2>1, <3>1, CountDown
    <3> QED
      BY <2>1, <3>2
  <2>3. interrupt_set_irq(c, s, value, back) = d
    BY <1>2, <2>2 DEF interrupt_set_irq
  <2>4. /\ d.irqs = c.irqs \ {s} /\ d.nirq = c.nirq - 1
        /\ d.global = (IF c.nirq = 1 THEN c.global \ {"IRQ"} ELSE c.global)
        /\ d.nmis = c.nmis /\ d.nnmi = c.nnmi /\ d.nmi_age = c.nmi_age
    BY DEF LowerIrq, Status
  <2>5. (IF back > 3 THEN 0 ELSE 3 - back) \in 0 .. Never
    BY <1>2, Bounds DEF Never
  <2>6. d \in Status
    BY <2>2, <2>4, <2>5 DEF Status, LowerIrq
  <2>7. c.nirq \in Nat
    BY CountTypes
  <2> HIDE DEF d
  <2> QED
    BY <2>2, <2>3, <2>4, <2>6, <2>7 DEF Counts, Flags, Agrees, NmiOldEnough
<1>3. CASE interrupt_set_irq(c, s, value, back) = c
  BY <1>3
<1> QED
  BY <1>1, <1>2, <1>3 DEF interrupt_set_irq

LEMMA SetNmiStep ==
  ASSUME NEW c \in Status, Counts(c), Flags(c),
         NEW s \in NmiSources, NEW value \in BOOLEAN, NEW back \in -1 .. MAX_BACK
  PROVE  LET d == interrupt_set_nmi(c, s, value, back)
         IN  ChipStep(c, d) /\ (~value => d.global = c.global)
<1> USE DEF ChipStep, LineFlags
<1>1. CASE value /\ s \notin c.nmis
  <2> DEFINE d == RaiseNmi(c, s, back)
             edge == c.nnmi = 0 /\ "NMI" \notin c.global
  <2>1. interrupt_set_nmi(c, s, value, back) = d
    BY <1>1 DEF interrupt_set_nmi
  <2>2. /\ d.nmis = c.nmis \cup {s} /\ d.nnmi = c.nnmi + 1
        /\ d.global = (IF edge THEN c.global \cup {"NMI"} ELSE c.global)
        /\ d.nmi_age = (IF edge THEN RequestAge(c, back) ELSE c.nmi_age)
        /\ d.irqs = c.irqs /\ d.nirq = c.nirq
    BY DEF RaiseNmi, Status
  <2>3. d.nnmi = Cardinality(d.nmis) /\ d.nnmi \in 0 .. Cardinality(NmiSources)
        /\ d.nmis \in SUBSET NmiSources
    <3>1. c.nmis \in SUBSET NmiSources /\ s \notin c.nmis /\ IsFiniteSet(NmiSources)
          /\ c.nnmi = Cardinality(c.nmis)
      BY <1>1, Bounds DEF Status, Counts
    <3>2. /\ Cardinality(c.nmis \cup {s}) = Cardinality(c.nmis) + 1
          /\ Cardinality(c.nmis \cup {s}) \in 0 .. Cardinality(NmiSources)
          /\ c.nmis \cup {s} \in SUBSET NmiSources
      BY <3>1, CountUp
    <3> QED
      BY <2>2, <3>1, <3>2
  <2>4. d \in Status
    BY <2>3, <2>2, RequestAgeType DEF Status, RaiseNmi, Never, Kinds
  <2>5. "IRQ" \in d.global <=> "IRQ" \in c.global
    BY <2>2
  <2>6. "IRQPEND" \in d.global <=> "IRQPEND" \in c.global
    BY <2>2
  <2>7. NmiOldEnough(c) => NmiOldEnough(d)
    BY <2>2 DEF NmiOldEnough
  <2> HIDE DEF d
  <2> QED
    BY <1>1, <2>1, <2>2, <2>3, <2>4, <2>5, <2>6, <2>7 DEF Counts, Flags, Agrees
<1>2. CASE ~value /\ s \in c.nmis
  <2> DEFINE d == [c EXCEPT !.nmis = @ \ {s}, !.nnmi = @ - 1]
  <2>1. c.nmis \in SUBSET NmiSources /\ c.nnmi = Cardinality(c.nmis)
    BY DEF Status, Counts
  <2>2. c.nnmi > 0 /\ Cardinality(c.nmis \ {s}) = c.nnmi - 1
        /\ c.nmis \ {s} \in SUBSET NmiSources /\ c.nnmi - 1 \in 0 .. Cardinality(NmiSources)
    <3>1. IsFiniteSet(NmiSources) /\ s \in c.nmis
      BY <1>2, Bounds
    <3>2. /\ Cardinality(c.nmis \ {s}) = Cardinality(c.nmis) - 1
          /\ Cardinality(c.nmis \ {s}) \in 0 .. Cardinality(NmiSources)
          /\ Cardinality(c.nmis) > 0
          /\ c.nmis \ {s} \in SUBSET NmiSources
      BY <2>1, <3>1, CountDown
    <3> QED
      BY <2>1, <3>2
  <2>3. interrupt_set_nmi(c, s, value, back) = d
    BY <1>2, <2>2 DEF interrupt_set_nmi
  <2>4. d \in Status
    BY <2>2 DEF Status
  <2> QED
    BY <2>2, <2>3, <2>4 DEF Status, Counts, Flags, Agrees, NmiOldEnough
<1>3. CASE interrupt_set_nmi(c, s, value, back) = c
  BY <1>3
<1> QED
  BY <1>1, <1>2, <1>3 DEF interrupt_set_nmi

LEMMA StealStep ==
  ASSUME NEW c \in Status, Counts(c), Flags(c),
         NEW left \in 0 .. MAX_LEFT, NEW sub \in 0 .. MAX_SUB, NEW num \in 1 .. MAX_STOLEN
  PROVE  ChipStep(c, Steal(c, left, sub, num))
<1> DEFINE b == [c EXCEPT !.dma = Append(c.dma, [left |-> left, age |-> left])]
           first == c.dma = <<>> /\ left = CyclesLeftToTrigger
           new(age) == (IF age < left THEN left ELSE age)
                       + (IF first /\ age <= left + sub THEN 1 ELSE 0)
           e == Later(b, num)
           d == Steal(c, left, sub, num)
<1>1. [left |-> left, age |-> left] \in StealType /\ left \in Age
  BY Bounds DEF StealType, Age
<1>2. b \in Status
  BY <1>1, AppendProperties DEF Status, StealType
<1>3. /\ b.irqs = c.irqs /\ b.nmis = c.nmis /\ b.nirq = c.nirq /\ b.nnmi = c.nnmi
      /\ b.global = c.global
  BY DEF Status
<1>4. \A a \in Age : /\ new(a) \in Int /\ new(a) >= a /\ new(a) >= -1
                     /\ Capped(new(a)) \in Age
                     /\ new(a) >= 2 => Capped(new(a)) >= 2
  <2> SUFFICES ASSUME NEW a \in Age
               PROVE  /\ new(a) \in Int /\ new(a) >= a /\ new(a) >= -1
                      /\ Capped(new(a)) \in Age
                      /\ new(a) >= 2 => Capped(new(a)) >= 2
    OBVIOUS
  <2>1. new(a) \in Int /\ new(a) >= a /\ new(a) >= -1
    BY Bounds DEF Age
  <2> QED
    BY <2>1, CappedAge
<1>5. c.irq_age \in Age /\ c.nmi_age \in Age
  BY DEF Status
<1> HIDE DEF b, new
<1>6. e \in Status /\ SameLines(b, e)
  BY <1>2, LaterStatus, Bounds
<1> HIDE DEF e
<1>7. d = [e EXCEPT !.irq_age = Capped(new(c.irq_age)), !.nmi_age = Capped(new(c.nmi_age)),
                    !.stolen_age = left]
  BY DEF Steal, e, b, new
<1> HIDE DEF d
<1>8. d \in Status /\ SameLines(c, d) /\ d.nmi_age = Capped(new(c.nmi_age))
  BY <1>1, <1>3, <1>4, <1>5, <1>6, <1>7 DEF Status, SameLines
<1>9. NmiOldEnough(c) => NmiOldEnough(d)
  <2>1. c.nmi_age >= 2 => new(c.nmi_age) >= 2
    BY <1>4, <1>5, Bounds DEF Age
  <2> QED
    BY <1>4, <1>5, <1>8, <2>1 DEF NmiOldEnough, INTERRUPT_DELAY, SameLines
<1> QED
  BY <1>8, <1>9 DEF ChipStep, SameLines, Counts, Flags, Agrees, d

-----------------------------------------------------------------------------
(* The inductive invariant.                                                *)

\* The parts that a loaded snapshot must bring with it.
Sound(c) == Counts(c) /\ Flags(c)

TypeInv == TypeOK /\ snapshot \in {NoSnapshot} \cup Snapshot

SoundInv == Sound(cs) /\ (snapshot.saved => Sound(snapshot.cs))

\* Where the loop stands: no vector has been chosen before the sequence ends,
\* a sequence started for an NMI still finds it pending and old enough, and
\* outside DO_INTERRUPT an IRQ flag has a line behind it that irq_seen knows.
SequenceInv ==
  /\ phase \in {"alarms", "entering"} => handler = "none"
  /\ phase = "entering" /\ entry = "nmi" => NmiOldEnough(cs)
  /\ phase # "service" /\ cs.global \cap LineFlags # {} => irq_seen
  /\ phase = "entering" /\ entry = "irq" => irq_seen
  /\ handler = "irq" => entry # "nmi"

\* The flag and the line agree outside a jam, also in the snapshot.  The jam
\* hack takes IK_IRQ away although the line stays active, so a CPU that stands on
\* a JAM is exempt; it has executed the JAM by the time it looks at interrupts
\* again, and takes none until a reset.
JamInv ==
  /\ ~jammed /\ ~pc_jam => Agrees(cs)
  /\ jammed /\ phase = "alarms" => pc_jam
  /\ jammed /\ phase = "service" /\ "TRAP" \in ik => pc_jam
  /\ phase \in {"alarms", "entering", "brkend"} /\ pc_jam => jammed
  /\ phase \in {"entering", "brkend"} => ~jammed
  /\ snapshot.saved /\ ~snapshot.pc_jam => Agrees(snapshot.cs)

IInv == TypeInv /\ SoundInv /\ SequenceInv /\ JamInv

LEMMA ChipStepSound ==
  ASSUME NEW c, NEW d, Sound(c), ChipStep(c, d)
  PROVE  Sound(d)
  BY DEF Sound, ChipStep

\* Later() and the loss of the steals leave everything but the clocks alone.
LEMMA LaterSound ==
  ASSUME NEW c \in Status, NEW n \in Nat, Sound(c)
  PROVE  /\ Sound(Later(c, n))
         /\ Agrees(c) => Agrees(Later(c, n))
         /\ NmiOldEnough(c) => NmiOldEnough(Later(c, n))
<1>1. SameLines(c, Later(c, n)) /\ (c.nmi_age >= 2 => Later(c, n).nmi_age >= 2)
  BY LaterStatus
<1> QED
  BY <1>1 DEF SameLines, Sound, Counts, Flags, Agrees, NmiOldEnough, INTERRUPT_DELAY

LEMMA ResetSound ==
  ASSUME NEW c, c.global \subseteq Kinds
  PROVE  /\ cpu_reset(c) \in Status /\ Sound(cpu_reset(c)) /\ Agrees(cpu_reset(c))
         /\ cpu_reset(c).global \subseteq {"MONITOR"}
<1>1. Capped(6) \in Age
  BY CappedAge
<1>2. Cardinality({}) = 0 /\ Cardinality(IrqSources) \in Nat /\ Cardinality(NmiSources) \in Nat
  BY FS_EmptySet, FS_CardinalityType, Bounds
<1>3. <<>> \in Seq(StealType) /\ c.global \cap {"MONITOR"} \in SUBSET Kinds
  BY DEF Kinds
<1>4. cpu_reset(c) \in Status
  BY <1>1, <1>2, <1>3 DEF cpu_reset, Status, StealType, Never
<1> QED
  BY <1>2, <1>4 DEF cpu_reset, Sound, Counts, Flags, Agrees

\* Acknowledging only takes flags away.
LEMMA AckIrq ==
  ASSUME NEW c \in Status, Sound(c)
  PROVE  LET d == interrupt_ack_irq(c)
         IN  /\ d \in Status /\ Sound(d) /\ (Agrees(c) => Agrees(d))
             /\ d.global = c.global \ {"IRQPEND"}
             /\ d.nirq = c.nirq /\ d.nmi_age = c.nmi_age
<1> DEFINE d == interrupt_ack_irq(c)
<1>1. d \in Status
  <2>1. c.global \ {"IRQPEND"} \in SUBSET Kinds /\ Never \in 0 .. Never
    BY DEF Status, Never
  <2> QED
    BY <2>1 DEF interrupt_ack_irq, Status
<1>2. /\ d.global = c.global \ {"IRQPEND"} /\ d.irqs = c.irqs /\ d.nirq = c.nirq
      /\ d.nmis = c.nmis /\ d.nnmi = c.nnmi /\ d.nmi_age = c.nmi_age
  BY DEF interrupt_ack_irq, Status
<1> HIDE DEF d
<1>3. Sound(d) /\ (Agrees(c) => Agrees(d))
  BY <1>2 DEF Sound, Counts, Flags, Agrees
<1> QED
  BY <1>1, <1>2, <1>3 DEF d

LEMMA AckNmi ==
  ASSUME NEW c \in Status, Sound(c)
  PROVE  LET d == interrupt_ack_nmi(c)
         IN  /\ d \in Status /\ Sound(d) /\ (Agrees(c) => Agrees(d))
             /\ d.global = c.global \ {"NMI"}
             /\ d.nirq = c.nirq
<1> DEFINE d == interrupt_ack_nmi(c)
<1>1. d \in Status
  BY DEF interrupt_ack_nmi, Status
<1>2. /\ d.global = c.global \ {"NMI"} /\ d.irqs = c.irqs /\ d.nirq = c.nirq
      /\ d.nmis = c.nmis /\ d.nnmi = c.nnmi
  BY DEF interrupt_ack_nmi, Status
<1> HIDE DEF d
<1>3. Sound(d) /\ (Agrees(c) => Agrees(d))
  BY <1>2 DEF Sound, Counts, Flags, Agrees
<1> QED
  BY <1>1, <1>2, <1>3 DEF d

\* What the CPU looks at before it decides.
LEMMA CheckedStatus ==
  ASSUME TypeOK, Sound(cs)
  PROVE  LET c == ExpireIrqPend(JamHack(cs))
         IN  /\ c \in Status /\ Sound(c)
             /\ c.global \subseteq cs.global /\ c.nirq = cs.nirq /\ c.nmi_age = cs.nmi_age
             /\ ~jammed /\ Agrees(cs) => Agrees(c)
             /\ jammed => c.global \cap {"NMI", "IRQ", "IRQPEND"} = {}
<1> DEFINE j == JamHack(cs)
           c == ExpireIrqPend(j)
<1>1. cs \in Status
  BY DEF TypeOK
<1>2. /\ j \in Status /\ Sound(j)
      /\ j.global \subseteq cs.global /\ j.nirq = cs.nirq /\ j.nmi_age = cs.nmi_age
      /\ ~jammed /\ Agrees(cs) => Agrees(j)
      /\ jammed => j.global \cap {"NMI", "IRQ", "IRQPEND"} = {}
  <2>1. CASE jammed
    <3> DEFINE a == interrupt_ack_irq(cs)
    <3>1. /\ a \in Status /\ Sound(a) /\ a.global = cs.global \ {"IRQPEND"}
          /\ a.nirq = cs.nirq /\ a.nmi_age = cs.nmi_age
      BY <1>1, AckIrq
    <3> HIDE DEF a
    <3>2. j = [a EXCEPT !.global = a.global \ {"IRQ", "NMI"}]
      BY <2>1 DEF JamHack, a
    <3>3. /\ j \in Status /\ j.irqs = a.irqs /\ j.nirq = a.nirq /\ j.nmis = a.nmis
          /\ j.nnmi = a.nnmi /\ j.nmi_age = a.nmi_age
          /\ j.global = a.global \ {"IRQ", "NMI"}
      BY <3>1, <3>2 DEF Status
    <3> HIDE DEF j
    <3>4. Sound(j)
      BY <3>1, <3>3 DEF Sound, Counts, Flags
    <3> QED
      BY <2>1, <3>1, <3>3, <3>4
  <2>2. CASE ~jammed
    BY <1>1, <2>2 DEF JamHack
  <2> QED
    BY <2>1, <2>2
<1> HIDE DEF j
<1>3. c = j \/ c = interrupt_ack_irq(j)
  BY DEF ExpireIrqPend
<1>4. LET d == interrupt_ack_irq(j)
      IN  /\ d \in Status /\ Sound(d) /\ (Agrees(j) => Agrees(d))
          /\ d.global = j.global \ {"IRQPEND"}
          /\ d.nirq = j.nirq /\ d.nmi_age = j.nmi_age
  BY <1>2, AckIrq
<1> HIDE DEF c
<1>5. /\ c \in Status /\ Sound(c)
      /\ c.global \subseteq cs.global /\ c.nirq = cs.nirq /\ c.nmi_age = cs.nmi_age
      /\ ~jammed /\ Agrees(cs) => Agrees(c)
      /\ jammed => c.global \cap {"NMI", "IRQ", "IRQPEND"} = {}
  BY <1>2, <1>3, <1>4
<1> QED
  BY <1>5 DEF c, j

LEMMA Initially ==
  ASSUME Init
  PROVE  IInv
<1> DEFINE c == cpu_reset([global |-> {}])
<1>1. c \in Status /\ Sound(c) /\ Agrees(c) /\ c.global \subseteq {"MONITOR"}
  <2>1. [global |-> {}].global \subseteq Kinds
    OBVIOUS
  <2> QED
    BY <2>1, ResetSound
<1> HIDE DEF c
<1>2. cs = [c EXCEPT !.global = {"RESET"}]
  BY DEF Init, c
<1>3. /\ cs \in Status /\ cs.global = {"RESET"} /\ cs.irqs = c.irqs /\ cs.nmis = c.nmis
      /\ cs.nirq = c.nirq /\ cs.nnmi = c.nnmi
  BY <1>1, <1>2 DEF Status, Kinds
<1>4. c.nirq = 0
  BY DEF c, cpu_reset
<1>5. Sound(cs) /\ Agrees(cs)
  BY <1>1, <1>3, <1>4 DEF Sound, Counts, Flags, Agrees
<1>6. ~snapshot.saved /\ snapshot = NoSnapshot
  BY DEF Init, NoSnapshot
<1> QED
  BY <1>3, <1>5, <1>6 DEF Init, IInv, TypeInv, TypeOK, SoundInv, SequenceInv, JamInv, LineFlags

\* A step of a chip or of the monitor.
LEMMA ChipsStep ==
  ASSUME IInv, NEW c, ChipStep(cs, c), Chips(c)
  PROVE  IInv'
<1> USE DEF IInv, Chips
<1>1. TypeInv'
  <2>1. cs' \in Status /\ irq_seen' \in BOOLEAN
    BY DEF ChipStep, TypeInv, TypeOK
  <2> QED
    BY <2>1 DEF TypeInv, TypeOK, cpu
<1>2. SoundInv'
  BY ChipStepSound DEF SoundInv, cpu
<1>3. SequenceInv'
  BY DEF SequenceInv, ChipStep, cpu, LineFlags
<1>4. JamInv'
  BY DEF JamInv, ChipStep, cpu
<1> QED
  BY <1>1, <1>2, <1>3, <1>4

LEMMA RequestStep ==
  ASSUME NEW c \in Status, Sound(c), NEW r \in Requests
  PROVE  ChipStep(c, [c EXCEPT !.global = @ \cup {r}])
<1> USE DEF ChipStep, Sound, Counts, Flags, Agrees, NmiOldEnough, LineFlags
<1>1. r \in {"RESET", "TRAP", "MONITOR", "DMA"}
  BY Bounds
<1> DEFINE d == [c EXCEPT !.global = @ \cup {r}]
<1>2. d \in Status
  BY <1>1 DEF Status, Kinds
<1>3. /\ d.global = c.global \cup {r} /\ d.irqs = c.irqs /\ d.nmis = c.nmis
      /\ d.nirq = c.nirq /\ d.nnmi = c.nnmi /\ d.nmi_age = c.nmi_age
  BY DEF Status
<1> HIDE DEF d
<1>4. ChipStep(c, d)
  BY <1>1, <1>2, <1>3
<1> QED
  BY <1>4 DEF d

LEMMA MonitorOffStep ==
  ASSUME NEW c \in Status, Sound(c)
  PROVE  ChipStep(c, [c EXCEPT !.global = @ \ {"MONITOR"}])
<1> USE DEF ChipStep, Sound, Counts, Flags, Agrees, NmiOldEnough, LineFlags
<1> DEFINE d == [c EXCEPT !.global = @ \ {"MONITOR"}]
<1>1. d \in Status
  BY DEF Status
<1>2. /\ d.global = c.global \ {"MONITOR"} /\ d.irqs = c.irqs /\ d.nmis = c.nmis
      /\ d.nirq = c.nirq /\ d.nnmi = c.nnmi /\ d.nmi_age = c.nmi_age
  BY DEF Status
<1> HIDE DEF d
<1>3. ChipStep(c, d)
  BY <1>1, <1>2
<1> QED
  BY <1>3 DEF d

LEMMA CheckPendingStep ==
  ASSUME IInv, CheckPending
  PROVE  IInv'
<1> USE DEF IInv
<1> DEFINE c == ExpireIrqPend(JamHack(cs))
           g == c.global
           nmi == "NMI" \in g /\ interrupt_check_nmi_delay
           open == g \cap {"IRQ", "IRQPEND"} # {} /\ (~flag_i \/ last_op = "disables")
           irq == ~nmi /\ open /\ interrupt_check_irq_delay
           defer == ~nmi /\ open /\ IrqOldEnough /\ last_op = "enables"
<1>1. /\ c \in Status /\ Sound(c)
      /\ c.global \subseteq cs.global /\ c.nirq = cs.nirq /\ c.nmi_age = cs.nmi_age
      /\ ~jammed /\ Agrees(cs) => Agrees(c)
      /\ jammed => c.global \cap {"NMI", "IRQ", "IRQPEND"} = {}
  BY CheckedStatus DEF TypeInv, SoundInv
<1>2. /\ phase = "alarms"
      /\ jammed' = (jammed /\ "RESET" \notin g)
      /\ ik' = g
      /\ UNCHANGED <<last_op, pc_jam, handler, snapshot>>
  BY DEF CheckPending
<1>3. nmi => c.nmi_age >= INTERRUPT_DELAY
  BY <1>1 DEF interrupt_check_nmi_delay, TypeInv, TypeOK, Status, Age, INTERRUPT_DELAY
<1>4. c.nirq \in Nat /\ g \in SUBSET Kinds /\ Counts(c) /\ Flags(c)
  BY <1>1, CountTypes DEF Sound, Status
<1>5. CASE /\ nmi \/ irq
           /\ cs' = Later(c, 5)
           /\ entry' = IF nmi THEN "nmi" ELSE "irq"
           /\ flag_i' = TRUE
           /\ phase' = "entering"
           /\ UNCHANGED irq_seen
  <2>1. cs' \in Status /\ SameLines(c, cs') /\ Sound(cs') /\ (Agrees(c) => Agrees(cs'))
        /\ (NmiOldEnough(c) => NmiOldEnough(cs'))
    BY <1>1, <1>5, LaterStatus, LaterSound
  <2>2. irq => g \cap LineFlags # {} /\ Agrees(c)
    BY <1>4 DEF Flags, Agrees, LineFlags
  <2>3. nmi => NmiOldEnough(c)
    BY <1>3 DEF NmiOldEnough
  <2>4. ~jammed
    BY <1>1, <1>5
  <2> HIDE DEF c, nmi, irq, open
  <2>5. TypeInv'
    BY <1>2, <1>4, <1>5, <2>1 DEF TypeInv, TypeOK
  <2>6. SoundInv'
    BY <1>2, <2>1 DEF SoundInv
  <2>7. SequenceInv'
    BY <1>1, <1>2, <1>5, <2>1, <2>2, <2>3 DEF SequenceInv, SameLines, LineFlags
  <2>8. JamInv'
    BY <1>1, <1>2, <1>5, <2>1, <2>2, <2>4 DEF JamInv
  <2> QED
    BY <2>5, <2>6, <2>7, <2>8
<1>6. CASE /\ ~nmi /\ ~irq
           /\ cs' = [c EXCEPT !.global = IF defer THEN @ \cup {"IRQPEND"} ELSE @]
           /\ phase' = IF g = {} THEN "opcode" ELSE "service"
           /\ irq_seen' = IF g = {} THEN c.nirq > 0 ELSE irq_seen
           /\ UNCHANGED <<entry, flag_i>>
  <2>1. defer => g \cap LineFlags # {} /\ g # {}
    BY DEF LineFlags
  <2>2. cs' \in Status /\ cs'.irqs = c.irqs /\ cs'.nmis = c.nmis /\ cs'.nirq = c.nirq
        /\ cs'.nnmi = c.nnmi /\ cs'.global = IF defer THEN g \cup {"IRQPEND"} ELSE g
    <3>1. (IF defer THEN g \cup {"IRQPEND"} ELSE g) \in SUBSET Kinds
      BY <1>4 DEF Kinds
    <3> HIDE DEF c, defer, g
    <3> QED
      BY <1>1, <1>6, <3>1 DEF Status, g
  <2> HIDE DEF c, nmi, irq, open, defer
  <2>3. Sound(cs') /\ (Agrees(c) => Agrees(cs'))
    BY <1>1, <1>4, <2>1, <2>2 DEF Sound, Counts, Flags, Agrees, LineFlags
  <2>4. TypeInv'
    <3>1. jammed' \in BOOLEAN /\ irq_seen' \in BOOLEAN /\ phase' \in {"opcode", "service"}
      <4>1. jammed \in BOOLEAN /\ irq_seen \in BOOLEAN
        BY DEF TypeInv, TypeOK
      <4>2. jammed' \in BOOLEAN
        BY <1>2, <4>1
      <4>3. irq_seen' \in BOOLEAN
        <5> HIDE DEF g
        <5>1. CASE g = {}
          BY <1>6, <5>1
        <5>2. CASE g # {}
          BY <1>6, <5>2, <4>1
        <5> QED
          BY <5>1, <5>2
      <4> HIDE DEF g
      <4> QED
        BY <1>6, <4>2, <4>3
    <3>2. ik' \in SUBSET Kinds
      BY <1>2, <1>4
    <3> HIDE DEF g
    <3> QED
      BY <1>2, <1>6, <2>2, <3>1, <3>2 DEF TypeInv, TypeOK
  <2>5. SoundInv'
    BY <1>2, <2>3 DEF SoundInv
  <2>6. SequenceInv'
    BY <1>1, <1>2, <1>6, <2>1, <2>2 DEF SequenceInv, LineFlags
  <2>7. JamInv'
    BY <1>1, <1>2, <1>6, <2>3 DEF JamInv
  <2> QED
    BY <2>4, <2>5, <2>6, <2>7
<1> QED
  BY <1>5, <1>6 DEF CheckPending

\* The choice of a vector: the status stays consistent and only loses flags,
\* and the IRQ vector is never taken while an NMI is old enough.
LEMMA VectorStatus ==
  ASSUME IInv, NEW ack \in BOOLEAN, VectorNmi \/ VectorOther(ack)
  PROVE  /\ cs' \in Status /\ Sound(cs') /\ (Agrees(cs) => Agrees(cs'))
         /\ cs'.global \subseteq cs.global
         /\ handler' \in {"nmi", "irq", "brk"}
         /\ handler' = "irq" => ack /\ ~NmiOldEnough(cs)
<1>1. cs \in Status /\ Sound(cs)
  BY DEF IInv, TypeInv, TypeOK, SoundInv
<1>2. CASE VectorNmi
  <2> DEFINE a == interrupt_ack_nmi(cs)
  <2>1. /\ a \in Status /\ Sound(a) /\ (Agrees(cs) => Agrees(a))
        /\ a.global = cs.global \ {"NMI"} /\ a.nirq = cs.nirq
    BY <1>1, AckNmi
  <2>2. PICK c \in NmiTrapFunc(a) : cs' = Later(c, 2)
    BY <1>2 DEF VectorNmi
  <2> HIDE DEF a
  <2>3. c \in Status /\ Sound(c) /\ (Agrees(a) => Agrees(c)) /\ c.global = a.global
    <3>1. CASE c = a
      BY <2>1, <3>1
    <3>2. CASE \E s \in NmiSources : c = interrupt_set_nmi(a, s, FALSE, 0)
      <4>1. PICK s \in NmiSources : c = interrupt_set_nmi(a, s, FALSE, 0)
        BY <3>2
      <4>2. Counts(a) /\ Flags(a) /\ 0 \in -1 .. MAX_BACK
        BY <2>1, Bounds DEF Sound
      <4>3. ChipStep(a, c) /\ c.global = a.global
        BY <2>1, <4>1, <4>2, SetNmiStep
      <4> QED
        BY <2>1, <4>3, ChipStepSound DEF ChipStep
    <3> QED
      BY <2>2, <3>1, <3>2 DEF NmiTrapFunc
  <2>4. cs' \in Status /\ SameLines(c, cs') /\ Sound(cs') /\ (Agrees(c) => Agrees(cs'))
    BY <2>2, <2>3, LaterStatus, LaterSound
  <2> QED
    BY <1>2, <2>1, <2>3, <2>4 DEF VectorNmi, SameLines
<1>3. CASE VectorOther(ack)
  <2> DEFINE c == IF ack THEN interrupt_ack_irq(cs) ELSE cs
  <2>1. /\ c \in Status /\ Sound(c) /\ (Agrees(cs) => Agrees(c))
        /\ c.global \subseteq cs.global
    BY <1>1, AckIrq
  <2>2. cs' = Later(c, 2)
    BY <1>3 DEF VectorOther
  <2> HIDE DEF c
  <2>3. cs' \in Status /\ SameLines(c, cs') /\ Sound(cs') /\ (Agrees(c) => Agrees(cs'))
    BY <2>1, <2>2, LaterStatus, LaterSound
  <2> QED
    BY <1>3, <2>1, <2>3 DEF VectorOther, SameLines, NmiOldEnough
<1> QED
  BY <1>2, <1>3

LEMMA VectorStep ==
  ASSUME IInv, Vector
  PROVE  IInv'
<1> USE DEF IInv, Vector
<1>1. /\ cs' \in Status /\ Sound(cs') /\ (Agrees(cs) => Agrees(cs'))
      /\ handler' \in {"nmi", "irq", "brk"}
      /\ handler' = "irq" => ~NmiOldEnough(cs)
  BY VectorStatus
<1>2. TypeInv'
  BY <1>1 DEF TypeInv, TypeOK
<1>3. SoundInv'
  BY <1>1 DEF SoundInv
<1>4. SequenceInv'
  BY <1>1 DEF SequenceInv
<1>5. JamInv'
  BY <1>1 DEF JamInv
<1> QED
  BY <1>2, <1>3, <1>4, <1>5

LEMMA BrkVectorStep ==
  ASSUME IInv, BrkVector
  PROVE  IInv'
<1> USE DEF IInv, BrkVector
<1>1. BrkTakesIrq \in BOOLEAN
  BY DEF BrkTakesIrq
<1>2. /\ cs' \in Status /\ Sound(cs') /\ (Agrees(cs) => Agrees(cs'))
      /\ cs'.global \subseteq cs.global
      /\ handler' \in {"nmi", "irq", "brk"}
  BY <1>1, VectorStatus
<1>3. TypeInv'
  BY <1>2 DEF TypeInv, TypeOK
<1>4. SoundInv'
  BY <1>2 DEF SoundInv
<1>5. SequenceInv'
  BY <1>2 DEF SequenceInv, LineFlags
<1>6. JamInv'
  BY <1>2 DEF JamInv
<1> QED
  BY <1>3, <1>4, <1>5, <1>6

LEMMA BrkBeginStep ==
  ASSUME IInv, BrkBegin
  PROVE  IInv'
<1> USE DEF IInv, BrkBegin
<1>1. cs' \in Status /\ SameLines(cs, cs') /\ Sound(cs') /\ (Agrees(cs) => Agrees(cs'))
  BY LaterStatus, LaterSound DEF TypeInv, TypeOK, SoundInv
<1>2. TypeInv'
  BY <1>1 DEF TypeInv, TypeOK
<1>3. SoundInv'
  BY <1>1 DEF SoundInv
<1>4. SequenceInv'
  BY <1>1 DEF SequenceInv, LineFlags, SameLines
<1>5. JamInv'
  BY <1>1 DEF JamInv
<1> QED
  BY <1>2, <1>3, <1>4, <1>5

\* The end of an opcode that leaves the status c.
LEMMA OpcodeEndsStatus ==
  ASSUME NEW c \in Status, Sound(c), OpcodeEnds(c)
  PROVE  cs' \in Status /\ SameLines(c, cs') /\ Sound(cs') /\ (Agrees(c) => Agrees(cs'))
<1>1. <<>> \in Seq(StealType)
  OBVIOUS
<1>2. cs' \in Status /\ SameLines(c, cs')
  BY <1>1 DEF OpcodeEnds, Status, SameLines, StealType
<1> QED
  BY <1>2 DEF SameLines, Sound, Counts, Flags, Agrees

LEMMA BrkEndStep ==
  ASSUME IInv, BrkEnd
  PROVE  IInv'
<1> USE DEF IInv, BrkEnd
<1>1. cs' \in Status /\ SameLines(cs, cs') /\ Sound(cs') /\ (Agrees(cs) => Agrees(cs'))
  BY OpcodeEndsStatus DEF TypeInv, TypeOK, SoundInv
<1>2. TypeInv'
  BY <1>1 DEF TypeInv, TypeOK, OpcodeEnds
<1>3. SoundInv'
  BY <1>1 DEF SoundInv, OpcodeEnds
<1>4. SequenceInv'
  BY <1>1 DEF SequenceInv, LineFlags, SameLines, OpcodeEnds
<1>5. JamInv'
  BY <1>1 DEF JamInv, OpcodeEnds
<1> QED
  BY <1>2, <1>3, <1>4, <1>5

LEMMA OpcodeStep ==
  ASSUME IInv, NEW n \in 2 .. MAX_CYCLES, NEW i \in BOOLEAN,
         NEW op \in {"plain", "delays", "enables", "disables"}, Opcode(n, op, i)
  PROVE  IInv'
<1> USE DEF IInv, Opcode
<1> DEFINE c == Later(cs, n)
<1>1. c \in Status /\ SameLines(cs, c) /\ Sound(c) /\ (Agrees(cs) => Agrees(c))
  BY LaterStatus, LaterSound, Bounds DEF TypeInv, TypeOK, SoundInv
<1>2. OpcodeEnds(c)
  OBVIOUS
<1> HIDE DEF c
<1>3. cs' \in Status /\ SameLines(c, cs') /\ Sound(cs') /\ (Agrees(c) => Agrees(cs'))
  BY <1>1, <1>2, OpcodeEndsStatus
<1>4. TypeInv'
  BY <1>2, <1>3 DEF TypeInv, TypeOK, OpcodeEnds
<1>5. SoundInv'
  BY <1>2, <1>3 DEF SoundInv, OpcodeEnds
<1>6. SequenceInv'
  BY <1>1, <1>2, <1>3 DEF SequenceInv, LineFlags, SameLines, OpcodeEnds
<1>7. JamInv'
  BY <1>1, <1>2, <1>3 DEF JamInv, OpcodeEnds
<1> QED
  BY <1>4, <1>5, <1>6, <1>7

LEMMA JamActionStep ==
  ASSUME IInv, Jam
  PROVE  IInv'
<1> USE DEF IInv
<1>1. phase = "opcode" /\ last_op' = "plain"
  BY DEF Jam
<1>2. CASE /\ jammed' = TRUE
           /\ pc_jam' = TRUE
           /\ \E n \in {0, 1} : OpcodeEnds(Later(cs, n))
           /\ UNCHANGED flag_i
  <2>1. PICK n \in {0, 1} : OpcodeEnds(Later(cs, n))
    BY <1>2
  <2> DEFINE c == Later(cs, n)
  <2>2. c \in Status /\ SameLines(cs, c) /\ Sound(c)
    BY LaterStatus, LaterSound DEF TypeInv, TypeOK, SoundInv
  <2>3. OpcodeEnds(c)
    BY <2>1
  <2> HIDE DEF c
  <2>4. cs' \in Status /\ SameLines(c, cs') /\ Sound(cs')
    BY <2>2, <2>3, OpcodeEndsStatus
  <2>5. TypeInv'
    BY <1>1, <1>2, <2>3, <2>4 DEF TypeInv, TypeOK, OpcodeEnds
  <2>6. SoundInv'
    BY <2>3, <2>4 DEF SoundInv, OpcodeEnds
  <2>7. SequenceInv'
    BY <1>1, <2>2, <2>3, <2>4 DEF SequenceInv, LineFlags, SameLines, OpcodeEnds
  <2>8. JamInv'
    BY <1>2, <2>3 DEF JamInv, OpcodeEnds
  <2> QED
    BY <2>5, <2>6, <2>7, <2>8
<1>3. CASE /\ "RESET" \in Requests
           /\ jammed' = FALSE
           /\ pc_jam' = FALSE
           /\ flag_i' = TRUE
           /\ OpcodeEnds(cpu_reset(cs))
  <2> DEFINE c == cpu_reset(cs)
  <2>1. c \in Status /\ Sound(c) /\ Agrees(c) /\ c.global \subseteq {"MONITOR"}
    BY ResetSound DEF TypeInv, TypeOK, Status
  <2>2. OpcodeEnds(c)
    BY <1>3
  <2> HIDE DEF c
  <2>3. cs' \in Status /\ SameLines(c, cs') /\ Sound(cs') /\ Agrees(cs')
    BY <2>1, <2>2, OpcodeEndsStatus
  <2>4. TypeInv'
    BY <1>1, <1>3, <2>2, <2>3 DEF TypeInv, TypeOK, OpcodeEnds
  <2>5. SoundInv'
    BY <2>2, <2>3 DEF SoundInv, OpcodeEnds
  <2>6. SequenceInv'
    BY <1>1, <2>1, <2>2, <2>3 DEF SequenceInv, LineFlags, SameLines, OpcodeEnds
  <2>7. JamInv'
    BY <1>3, <2>2, <2>3 DEF JamInv, OpcodeEnds
  <2> QED
    BY <2>4, <2>5, <2>6, <2>7
<1> QED
  BY <1>2, <1>3 DEF Jam

LEMMA ResetStep ==
  ASSUME IInv, Reset
  PROVE  IInv'
<1> USE DEF IInv, Reset
<1>1. cs' \in Status /\ Sound(cs') /\ Agrees(cs')
  BY ResetSound DEF TypeInv, TypeOK, Status
<1>2. TypeInv'
  BY <1>1 DEF TypeInv, TypeOK
<1>3. SoundInv'
  BY <1>1 DEF SoundInv
<1>4. SequenceInv'
  BY <1>1 DEF SequenceInv
<1>5. JamInv'
  BY <1>1 DEF JamInv
<1> QED
  BY <1>2, <1>3, <1>4, <1>5

LEMMA EndInterruptStep ==
  ASSUME IInv, EndInterrupt
  PROVE  IInv'
<1> USE DEF IInv
<1> DEFINE g == cs.global \ (IF "DMA" \in ik THEN {"DMA"} ELSE {})
           h == IF "IRQ" \in g THEN g ELSE g \ {"IRQPEND"}
<1>1. /\ phase = "service" /\ phase' = "opcode"
      /\ cs' = [cs EXCEPT !.global = h]
      /\ ik' = {}
      /\ irq_seen' = (cs.nirq > 0)
      /\ UNCHANGED <<flag_i, last_op, jammed, pc_jam, entry, handler, snapshot>>
  BY DEF EndInterrupt
<1>2. cs \in Status /\ Sound(cs)
  BY DEF TypeInv, TypeOK, SoundInv
<1>3. h \in SUBSET Kinds /\ ("IRQ" \in h <=> "IRQ" \in cs.global)
      /\ ("IRQPEND" \in h => "IRQ" \in h) /\ ("NMI" \in h => "NMI" \in cs.global)
  BY <1>2 DEF Status
<1> HIDE DEF h
<1>4. /\ cs' \in Status /\ cs'.global = h /\ cs'.irqs = cs.irqs /\ cs'.nmis = cs.nmis
      /\ cs'.nirq = cs.nirq /\ cs'.nnmi = cs.nnmi
  BY <1>1, <1>2, <1>3 DEF Status
<1>5. Sound(cs') /\ (Agrees(cs) => Agrees(cs'))
  BY <1>2, <1>3, <1>4 DEF Sound, Counts, Flags, Agrees
<1>6. TypeInv'
  <2>1. irq_seen' \in BOOLEAN
    BY <1>1
  <2> QED
    BY <1>1, <1>4, <2>1 DEF TypeInv, TypeOK
<1>7. SoundInv'
  BY <1>1, <1>5 DEF SoundInv
<1>8. SequenceInv'
  BY <1>1, <1>2, <1>3, <1>4 DEF SequenceInv, LineFlags, Sound, Flags
<1>9. JamInv'
  BY <1>1, <1>5 DEF JamInv
<1> QED
  BY <1>6, <1>7, <1>8, <1>9

\* The functions of one interrupt_do_trap(): a snapshot is saved or loaded, and
\* resets and further traps are requested.
LEMMA TrapStep ==
  ASSUME IInv, Trap
  PROVE  IInv'
<1> USE DEF IInv
<1>1. PICK R \in SUBSET (Requests \ {"TRAP"}), keep \in BOOLEAN :
        \/ Load /\ \E c \in Loaded : cs' = AfterTraps(c, R, keep)
        \/ Save /\ cs' = AfterTraps(cs, R, keep)
        \/ /\ cs' = AfterTraps(cs, R, keep)
           /\ UNCHANGED <<flag_i, last_op, pc_jam, snapshot>>
  BY DEF Trap
<1>2. /\ phase = "service" /\ "TRAP" \in ik
      /\ ik' = (ik \ {"TRAP"}) \cup (cs'.global \cap {"RESET"})
      /\ irq_seen' = (irq_seen \/ cs'.nirq > 0)
      /\ UNCHANGED <<jammed, phase, entry, handler>>
  BY DEF Trap
<1>3. R \subseteq {"RESET", "MONITOR", "DMA"}
  BY Bounds
<1>4. cs \in Status /\ Sound(cs)
  BY DEF TypeInv, TypeOK, SoundInv
<1>5. ASSUME NEW c \in Status, Sound(c), cs' = AfterTraps(c, R, keep)
      PROVE  cs' \in Status /\ Sound(cs') /\ (Agrees(c) => Agrees(cs'))
  <2> DEFINE h == ((c.global \cup R) \ {"TRAP"}) \cup (IF keep THEN {"TRAP"} ELSE {})
  <2>1. h \in SUBSET Kinds
    BY <1>3 DEF Status, Kinds
  <2>2. \A f \in {"IRQ", "IRQPEND", "NMI"} : f \in h <=> f \in c.global
    BY <1>3
  <2>3. cs' = [c EXCEPT !.global = h]
    BY <1>5 DEF AfterTraps
  <2> HIDE DEF h
  <2>4. /\ cs' \in Status /\ cs'.global = h /\ cs'.irqs = c.irqs /\ cs'.nmis = c.nmis
        /\ cs'.nirq = c.nirq /\ cs'.nnmi = c.nnmi
    BY <2>1, <2>3 DEF Status
  <2> QED
    BY <1>5, <2>2, <2>4 DEF Sound, Counts, Flags, Agrees
<1>6. ASSUME cs' \in Status, Sound(cs'), snapshot' \in {NoSnapshot} \cup Snapshot,
             flag_i' \in BOOLEAN, last_op' \in Op, pc_jam' \in BOOLEAN,
             snapshot'.saved => Sound(snapshot'.cs)
      PROVE  TypeInv' /\ SoundInv' /\ SequenceInv'
  <2>1. ik' \in SUBSET Kinds /\ irq_seen' \in BOOLEAN
    BY <1>2, <1>6 DEF TypeInv, TypeOK, Kinds
  <2>2. TypeInv'
    BY <1>2, <1>6, <2>1 DEF TypeInv, TypeOK, Op
  <2>3. SoundInv'
    BY <1>6 DEF SoundInv
  <2>4. SequenceInv'
    BY <1>2 DEF SequenceInv
  <2> QED
    BY <2>2, <2>3, <2>4
<1>7. CASE Load /\ \E c \in Loaded : cs' = AfterTraps(c, R, keep)
  <2>1. PICK c \in Loaded : cs' = AfterTraps(c, R, keep)
    BY <1>7
  <2>2. /\ snapshot.saved /\ flag_i' = snapshot.flag_i /\ last_op' = snapshot.last_op
        /\ pc_jam' = snapshot.pc_jam /\ snapshot' = snapshot
    BY <1>7 DEF Load
  <2>3. snapshot \in Snapshot /\ Sound(snapshot.cs)
    BY <2>2 DEF TypeInv, SoundInv, NoSnapshot
  <2>4. c \in Status /\ SameLines(snapshot.cs, c)
    <3>1. PICK ages \in [DOMAIN cs.dma -> Age] :
            c = [snapshot.cs EXCEPT !.dma = [i \in DOMAIN cs.dma |->
                    [left |-> cs.dma[i].left, age |-> ages[i]]]]
      BY DEF Loaded
    <3> DEFINE dma == [i \in DOMAIN cs.dma |-> [left |-> cs.dma[i].left, age |-> ages[i]]]
    <3>2. cs.dma \in Seq(StealType)
      BY <1>4 DEF Status, StealType
    <3>3. \A i \in 1 .. Len(cs.dma) : [left |-> cs.dma[i].left, age |-> ages[i]] \in StealType
      <4>1. ASSUME NEW i \in 1 .. Len(cs.dma)
            PROVE  [left |-> cs.dma[i].left, age |-> ages[i]] \in StealType
        <5>1. cs.dma[i] \in StealType /\ i \in DOMAIN cs.dma
          BY <3>2, ElementOfSeq, LenProperties
        <5> QED
          BY <5>1 DEF StealType
      <4> QED
        BY <4>1
    <3>4. dma \in Seq(StealType)
      BY <3>2, <3>3, LenProperties, IsASeq
    <3>5. snapshot.cs \in Status
      BY <2>3 DEF Snapshot
    <3> HIDE DEF dma
    <3>6. c = [snapshot.cs EXCEPT !.dma = dma]
      BY <3>1 DEF dma
    <3> QED
      BY <3>4, <3>5, <3>6 DEF Status, SameLines, StealType
  <2>5. Sound(c) /\ (Agrees(snapshot.cs) => Agrees(c))
    BY <2>3, <2>4 DEF SameLines, Sound, Counts, Flags, Agrees
  <2>6. cs' \in Status /\ Sound(cs') /\ (Agrees(c) => Agrees(cs'))
    BY <1>5, <2>1, <2>4, <2>5
  <2>7. TypeInv' /\ SoundInv' /\ SequenceInv'
    BY <1>6, <2>2, <2>3, <2>6 DEF Snapshot
  <2>8. JamInv'
    BY <1>2, <2>2, <2>5, <2>6 DEF JamInv
  <2> QED
    BY <2>7, <2>8
<1>8. CASE Save /\ cs' = AfterTraps(cs, R, keep)
  <2> DEFINE d == [cs EXCEPT !.dma = <<>>]
  <2>1. d \in Status /\ SameLines(cs, d)
    <3>1. <<>> \in Seq(StealType)
      OBVIOUS
    <3> QED
      BY <1>4, <3>1 DEF Status, SameLines, StealType
  <2>2. Sound(d) /\ (Agrees(cs) => Agrees(d))
    BY <1>4, <2>1 DEF SameLines, Sound, Counts, Flags, Agrees
  <2>3. /\ snapshot' = [saved |-> TRUE, cs |-> d, flag_i |-> flag_i, last_op |-> last_op,
                        pc_jam |-> pc_jam]
        /\ UNCHANGED <<flag_i, last_op, pc_jam>>
    BY <1>8 DEF Save, SnapshotOf
  <2> HIDE DEF d
  <2>4. flag_i \in BOOLEAN /\ last_op \in Op /\ pc_jam \in BOOLEAN
    BY DEF TypeInv, TypeOK, Op
  <2>5. /\ snapshot' \in Snapshot /\ snapshot'.saved /\ snapshot'.cs = d
        /\ snapshot'.pc_jam = pc_jam
    BY <2>1, <2>3, <2>4 DEF Snapshot
  <2>6. cs' \in Status /\ Sound(cs') /\ (Agrees(cs) => Agrees(cs'))
    BY <1>4, <1>5, <1>8
  <2>7. TypeInv' /\ SoundInv' /\ SequenceInv'
    BY <1>6, <2>2, <2>3, <2>4, <2>5, <2>6
  <2>8. JamInv'
    BY <1>2, <2>2, <2>3, <2>5, <2>6 DEF JamInv
  <2> QED
    BY <2>7, <2>8
<1>9. CASE /\ cs' = AfterTraps(cs, R, keep)
           /\ UNCHANGED <<flag_i, last_op, pc_jam, snapshot>>
  <2>1. cs' \in Status /\ Sound(cs') /\ (Agrees(cs) => Agrees(cs'))
    BY <1>4, <1>5, <1>9
  <2>2. flag_i \in BOOLEAN /\ last_op \in Op /\ pc_jam \in BOOLEAN
        /\ snapshot \in {NoSnapshot} \cup Snapshot /\ (snapshot.saved => Sound(snapshot.cs))
    BY DEF TypeInv, TypeOK, Op, SoundInv
  <2>3. TypeInv' /\ SoundInv' /\ SequenceInv'
    BY <1>6, <1>9, <2>1, <2>2
  <2>4. JamInv'
    BY <1>2, <1>9, <2>1 DEF JamInv
  <2> QED
    BY <2>3, <2>4
<1> QED
  BY <1>1, <1>7, <1>8, <1>9

-----------------------------------------------------------------------------
(* Every step.                                                             *)

LEMMA Step ==
  ASSUME IInv, [Next]_vars
  PROVE  IInv'
<1>1. cs \in Status /\ Sound(cs) /\ Counts(cs) /\ Flags(cs)
  BY DEF IInv, TypeInv, TypeOK, SoundInv, Sound
<1>2. CASE Loop
  BY <1>2, CheckPendingStep, VectorStep, TrapStep, ResetStep, EndInterruptStep, BrkBeginStep,
     BrkVectorStep, BrkEndStep, JamActionStep, OpcodeStep DEF Loop
<1>3. CASE \E v \in BOOLEAN, back \in -1 .. MAX_BACK, s \in IrqSources : SetIrq(s, v, back)
  <2>1. PICK v \in BOOLEAN, back \in -1 .. MAX_BACK, s \in IrqSources : SetIrq(s, v, back)
    BY <1>3
  <2>2. ChipStep(cs, interrupt_set_irq(cs, s, v, back))
    BY <1>1, <2>1, SetIrqStep DEF SetIrq
  <2> QED
    BY <2>1, <2>2, ChipsStep DEF SetIrq
<1>4. CASE \E v \in BOOLEAN, back \in -1 .. MAX_BACK, s \in NmiSources : SetNmi(s, v, back)
  <2>1. PICK v \in BOOLEAN, back \in -1 .. MAX_BACK, s \in NmiSources : SetNmi(s, v, back)
    BY <1>4
  <2>2. ChipStep(cs, interrupt_set_nmi(cs, s, v, back))
    BY <1>1, <2>1, SetNmiStep
  <2> QED
    BY <2>1, <2>2, ChipsStep DEF SetNmi
<1>5. CASE \E left \in 0 .. MAX_LEFT, sub \in 0 .. MAX_SUB, num \in 1 .. MAX_STOLEN :
             StealCycles(left, sub, num)
  <2>1. PICK left \in 0 .. MAX_LEFT, sub \in 0 .. MAX_SUB, num \in 1 .. MAX_STOLEN :
          StealCycles(left, sub, num)
    BY <1>5
  <2>2. ChipStep(cs, Steal(cs, left, sub, num))
    BY <1>1, StealStep
  <2> QED
    BY <2>1, <2>2, ChipsStep DEF StealCycles
<1>6. CASE \E r \in Requests : Request(r)
  <2>1. PICK r \in Requests : Request(r)
    BY <1>6
  <2>2. ChipStep(cs, [cs EXCEPT !.global = @ \cup {r}])
    BY <1>1, RequestStep
  <2> QED
    BY <2>1, <2>2, ChipsStep DEF Request
<1>7. CASE interrupt_monitor_trap_off
  <2>1. ChipStep(cs, [cs EXCEPT !.global = @ \ {"MONITOR"}])
    BY <1>1, MonitorOffStep
  <2> QED
    BY <1>7, <2>1, ChipsStep DEF interrupt_monitor_trap_off
<1>8. CASE UNCHANGED vars
  <2>1. TypeInv' /\ SoundInv'
    BY <1>8 DEF vars, IInv, TypeInv, TypeOK, SoundInv
  <2>2. SequenceInv' /\ JamInv'
    BY <1>8 DEF vars, IInv, SequenceInv, JamInv
  <2> QED
    BY <2>1, <2>2 DEF IInv
<1> QED
  BY <1>2, <1>3, <1>4, <1>5, <1>6, <1>7, <1>8 DEF Next

LEMMA Invariant == Spec => []IInv
<1>1. Init => IInv
  BY Initially
<1>2. IInv /\ [Next]_vars => IInv'
  BY Step
<1> QED
  BY <1>1, <1>2, PTL DEF Spec

-----------------------------------------------------------------------------
(* The theorems.                                                           *)

\* Every variable keeps its type: counters never leave the number of sources,
\* and the clocks a steal or a late report computes stay on the scale of ages.
THEOREM InterruptTypes == Spec => []TypeOK
<1>1. IInv => TypeOK
  BY DEF IInv, TypeInv
<1> QED
  BY <1>1, Invariant, PTL

\* nirq and nnmi count the sources that pull the wired-or lines, whatever order
\* chips, jams, resets and saved and loaded snapshots come in.
THEOREM InterruptCounts == Spec => []CountsMatchLines
<1>1. IInv => CountsMatchLines
  BY DEF IInv, SoundInv, Sound, Counts, CountsMatchLines
<1> QED
  BY <1>1, Invariant, PTL

\* DO_INTERRUPT entered for an NMI jumps through the NMI vector: alarms and
\* steals between the decision and the vector never make the NMI too young.
THEOREM InterruptNmi == Spec => []NmiEntryReachesNmi
<1>1. IInv => NmiEntryReachesNmi
  BY DEF IInv, SequenceInv, NmiEntryReachesNmi
<1> QED
  BY <1>1, Invariant, PTL

\* An IRQ is only taken if its line was active since the check before the last
\* opcode, although IK_IRQPEND outlives the line and snapshots bring back flags.
THEOREM InterruptNoStaleIrq == Spec => []NoStaleIrq
<1>1. IInv => NoStaleIrq
  BY DEF IInv, SequenceInv, NoStaleIrq
<1> QED
  BY <1>1, Invariant, PTL

\* IK_IRQ agrees with the IRQ line whenever an opcode starts outside a jam: over
\* shared lines, NMIs, resets out of a jam, and snapshots, of which those of a
\* jammed CPU hold a flag that does not describe the line.
THEOREM InterruptFlag == Spec => []IrqFlagMatchesLine
<1>1. IInv => IrqFlagMatchesLine
  BY DEF IInv, JamInv, IrqFlagMatchesLine, Agrees
<1> QED
  BY <1>1, Invariant, PTL

-----------------------------------------------------------------------------
(* The trap queue of the same file (TrapQueue): for                        *)
(* any traps and any bounds, as long as only the first trap of a cycle     *)
(* schedules further traps (the run MCTrapQueueNested shows that the       *)
(* restriction is needed).                                                 *)

QInv == TrapTypeOK /\ TrapInv

\* The array without slots has the type of an array of size 0.
LEMMA NoTrapsType == NoTraps \in [0 .. 0 - 1 -> Slot]
<1>1. 0 .. 0 - 1 = {} OBVIOUS
<1> QED BY <1>1 DEF NoTraps

\* Init establishes the inductive invariant: nothing is queued.
LEMMA InitInv == TrapInit => QInv
<1> SUFFICES ASSUME TrapInit PROVE QInv
  OBVIOUS
<1>1. TrapTypeOK
  <2>1. trap_func \in [0 .. traps_size - 1 -> Slot] BY NoTrapsType DEF TrapInit
  <2>2. fifo \in Seq(Traps) BY DEF TrapInit
  <2> QED BY <2>1, <2>2 DEF TrapInit, TrapTypeOK, Slot
<1>2. Done = 0 /\ Ahead = 0 /\ Len(fifo) = 0 BY DEF TrapInit, Done, Ahead
<1> QED BY <1>1, <1>2 DEF TrapInit, QInv, TrapInv, TrapsRunInOrder

\* interrupt_maincpu_trigger_trap() keeps the types and puts the trap in the
\* slot behind the last one that waits, when called between opcodes or from
\* the first trap of a cycle.
LEMMA TriggerInv ==
  ASSUME NestingAt \subseteq {0}, QInv, NEW t \in Traps, Trigger(t)
  PROVE  QInv'
<1> USE DEF QInv, TrapTypeOK, Slot
<1> DEFINE index == traps_next + traps_count
           size  == IF index + 1 > traps_size THEN index + 1 ELSE traps_size
<1>1. /\ traps_count' = traps_count + 1
      /\ traps_size' = size
      /\ trap_func' = [n \in 0 .. size - 1 |->
                         IF n = index THEN t
                         ELSE IF n < traps_size THEN trap_func[n] ELSE Garbage]
      /\ ik_trap' = TRUE
      /\ traps_next' = traps_next
      /\ fifo' = Append(fifo, t)
      /\ UNCHANGED <<trap_phase, trap_i, traps_this_cycle, running, due>>
  BY DEF Trigger, interrupt_maincpu_trigger_trap
<1>2. size \in Nat /\ index \in Nat /\ size >= index + 1 /\ size >= traps_size
  OBVIOUS
<1>3. TrapTypeOK'
  <2>1. trap_func' \in [0 .. traps_size' - 1 -> Slot]
    BY <1>1, <1>2
  <2>2. fifo' \in Seq(Traps)
    BY <1>1
  <2> QED BY <1>1, <1>2, <2>1, <2>2
<1>4. /\ Done' = Done
      /\ Ahead' = Ahead
      /\ index = traps_next + Ahead + Len(fifo)
      /\ trap_phase \in {"cpu", "trap"}
      /\ Ahead \in Nat /\ Done \in Nat
  <2>1. CASE trap_phase = "cpu"
    BY <1>1, <2>1 DEF Done, Ahead, TrapInv
  <2>2. CASE trap_phase = "trap" /\ trap_i = 0
    BY <1>1, <2>2 DEF Done, Ahead, TrapInv
  <2> QED BY <2>1, <2>2 DEF Trigger
<1>5. Len(fifo') = Len(fifo) + 1 /\ fifo' # <<>> /\ Len(fifo) \in Nat
  BY <1>1
<1>6. ASSUME NEW k \in 1 .. Len(fifo')
      PROVE  trap_func'[traps_next' + Ahead' + k - 1] = fifo'[k]
  <2> DEFINE slot == traps_next + Ahead + k - 1
  <2>1. slot \in 0 .. size - 1
    BY <1>2, <1>4, <1>5
  <2>2. CASE k = Len(fifo) + 1
    <3>1. slot = index BY <1>4, <2>2
    <3>2. trap_func'[slot] = t BY <1>1, <2>1, <3>1
    <3> QED BY <1>1, <1>4, <2>2, <3>2
  <2>3. CASE k \in 1 .. Len(fifo)
    <3>1. slot # index /\ slot < traps_size BY <1>4, <1>5, <2>3 DEF TrapInv
    <3>2. trap_func'[slot] = trap_func[slot] BY <1>1, <2>1, <3>1
    <3>3. fifo'[k] = fifo[k] BY <1>1, <2>3
    <3> QED BY <1>1, <1>4, <2>3, <3>2, <3>3 DEF TrapInv
  <2> QED BY <1>5, <2>2, <2>3
<1>7. traps_count' = Done' + Len(fifo') /\ traps_next' + Ahead' + Len(fifo') <= traps_size'
  BY <1>1, <1>2, <1>4, <1>5 DEF TrapInv
<1>8. trap_phase' \in {"loop", "trap"} =>
        ik_trap' /\ Done' <= traps_this_cycle' /\ traps_this_cycle' <= traps_count'
  BY <1>1, <1>4, <1>5 DEF TrapInv
<1> QED BY <1>1, <1>3, <1>5, <1>6, <1>7, <1>8 DEF TrapInv, TrapsRunInOrder

\* The beginning of interrupt_do_trap(): the traps to run are the ones queued.
LEMMA BeginInv == QInv /\ DoTrapBegin => QInv'
BY DEF QInv, TrapTypeOK, TrapInv, TrapsRunInOrder, Done, Ahead, DoTrapBegin, queue

\* A trap function is called: the slot traps_next holds the oldest trap.
LEMMA CallInv == QInv /\ CallTrap => QInv'
<1> SUFFICES ASSUME QInv, CallTrap PROVE QInv'
  OBVIOUS
<1> USE DEF QInv, TrapTypeOK, Slot
<1>1. /\ Done = trap_i /\ Done' = trap_i + 1 /\ Ahead = 0 /\ Ahead' = 1
      /\ trap_phase = "loop" /\ trap_phase' = "trap"
  BY DEF CallTrap, Done, Ahead
<1>2. Len(fifo) \in Nat /\ Len(fifo) > 0 /\ fifo # <<>>
  BY <1>1 DEF CallTrap, TrapInv
<1>3. /\ fifo' = Tail(fifo) /\ due' = Head(fifo)
      /\ running' = IF traps_next < traps_size THEN trap_func[traps_next] ELSE Garbage
      /\ UNCHANGED <<trap_func, traps_size, traps_next, traps_count, ik_trap, trap_i, traps_this_cycle>>
  BY <1>2 DEF CallTrap, queue
<1>4. /\ Len(fifo') = Len(fifo) - 1 /\ Head(fifo) = fifo[1] /\ fifo' \in Seq(Traps)
      /\ Head(fifo) \in Traps
      /\ \A k \in 1 .. Len(fifo') : fifo'[k] = fifo[k + 1]
  BY <1>2, <1>3
<1>5. running' = due'
  <2>1. 1 \in 1 .. Len(fifo) /\ traps_next < traps_size BY <1>1, <1>2 DEF TrapInv
  <2>2. trap_func[traps_next + 0 + 1 - 1] = fifo[1] BY <1>1, <2>1 DEF TrapInv
  <2> QED BY <1>3, <1>4, <2>1, <2>2
<1>6. ASSUME NEW k \in 1 .. Len(fifo')
      PROVE  trap_func'[traps_next' + Ahead' + k - 1] = fifo'[k]
  <2>1. k + 1 \in 1 .. Len(fifo) BY <1>2, <1>4
  <2>2. trap_func[traps_next + 0 + (k + 1) - 1] = fifo[k + 1] BY <1>1, <2>1 DEF TrapInv
  <2> QED BY <1>1, <1>3, <1>4, <2>2
<1>7. TrapTypeOK'
  BY <1>1, <1>3, <1>4, <1>5
<1>8. /\ traps_count' = Done' + Len(fifo')
      /\ traps_next' + Ahead' + Len(fifo') <= traps_size'
      /\ Done' <= traps_this_cycle' /\ traps_this_cycle' <= traps_count' /\ ik_trap'
  BY <1>1, <1>2, <1>3, <1>4 DEF TrapInv, CallTrap
<1> QED BY <1>1, <1>5, <1>6, <1>7, <1>8 DEF TrapInv, TrapsRunInOrder

\* A trap function returns.
LEMMA ReturnInv == QInv /\ TrapReturns => QInv'
<1> SUFFICES ASSUME QInv, TrapReturns PROVE QInv'
  OBVIOUS
<1> USE DEF QInv, TrapTypeOK
<1>1. /\ Done = trap_i + 1 /\ Done' = trap_i' /\ trap_i' = trap_i + 1 /\ Ahead = 1 /\ Ahead' = 0
      /\ trap_phase = "trap" /\ trap_phase' = "loop" /\ traps_next' = traps_next + 1
      /\ UNCHANGED <<trap_func, traps_size, traps_count, ik_trap,
                     traps_this_cycle, running, due, fifo>>
  BY DEF TrapReturns, Done, Ahead
<1>2. TrapTypeOK'
  BY <1>1
<1>3. ASSUME NEW k \in 1 .. Len(fifo')
      PROVE  trap_func'[traps_next' + Ahead' + k - 1] = fifo'[k]
  <2>1. traps_next' + Ahead' + k - 1 = traps_next + Ahead + k - 1 BY <1>1
  <2> QED BY <1>1, <2>1 DEF TrapInv
<1>4. Len(fifo) \in Nat OBVIOUS
<1> QED BY <1>1, <1>2, <1>3, <1>4 DEF TrapInv, TrapsRunInOrder

\* The end of interrupt_do_trap(): what is left was scheduled by the traps.
LEMMA EndInv == QInv /\ DoTrapEnd => QInv'
<1> SUFFICES ASSUME QInv, DoTrapEnd PROVE QInv'
  OBVIOUS
<1> USE DEF QInv, TrapTypeOK
<1>1. /\ Done = trap_i /\ Done' = 0 /\ Ahead = 0 /\ Ahead' = 0 /\ trap_i = traps_this_cycle
      /\ trap_phase = "loop" /\ trap_phase' = "done" /\ traps_count = trap_i + Len(fifo)
      /\ UNCHANGED <<trap_func, traps_size, trap_i, traps_this_cycle, running, due, fifo>>
  BY DEF DoTrapEnd, Done, Ahead, TrapInv
<1>2. Len(fifo) \in Nat /\ (Len(fifo) = 0 <=> fifo = <<>>) OBVIOUS
<1>3. CASE traps_count > traps_this_cycle
  <2>1. traps_count' = Len(fifo) /\ traps_next' = traps_next /\ ik_trap' = ik_trap
    BY <1>1, <1>2, <1>3 DEF DoTrapEnd
  <2> QED BY <1>1, <1>2, <1>3, <2>1 DEF TrapInv, TrapsRunInOrder
<1>4. CASE ~(traps_count > traps_this_cycle)
  <2>1. Len(fifo) = 0 /\ traps_count' = 0 /\ traps_next' = 0 /\ ik_trap' = FALSE
    BY <1>1, <1>2, <1>4 DEF DoTrapEnd
  <2>2. TrapTypeOK' BY <1>1, <2>1
  <2>3. fifo' = <<>> /\ Len(fifo') = 0 /\ 1 .. Len(fifo') = {} BY <1>1, <1>2, <2>1
  <2>4. traps_next' + Ahead' + Len(fifo') <= traps_size' BY <1>1, <2>1, <2>3
  <2>5. traps_count' = Done' + Len(fifo') BY <1>1, <2>1, <2>3
  <2> QED BY <1>1, <2>1, <2>2, <2>3, <2>4, <2>5 DEF TrapInv, TrapsRunInOrder
<1> QED BY <1>3, <1>4

\* An opcode without interrupt work, and cpu_reset(), which empties the queue.
LEMMA ResumeInv == QInv /\ (Resume \/ DropTraps) => QInv'
<1>1. QInv /\ Resume => QInv'
  BY DEF QInv, TrapTypeOK, TrapInv, TrapsRunInOrder, Done, Ahead, Resume, queue
<1>2. QInv /\ DropTraps => QInv'
  <2> SUFFICES ASSUME QInv, DropTraps PROVE QInv'
    OBVIOUS
  <2>1. trap_func' \in [0 .. traps_size' - 1 -> Slot] BY NoTrapsType DEF DropTraps
  <2>2. Done' = 0 /\ Ahead' = 0 /\ Len(fifo') = 0 /\ fifo' \in Seq(Traps)
    BY DEF DropTraps, Done, Ahead
  <2>3. TrapTypeOK' BY <2>1, <2>2 DEF DropTraps, QInv, TrapTypeOK
  <2>4. 1 .. Len(fifo') = {} BY <2>2
  <2>5. /\ traps_next' + Ahead' + Len(fifo') <= traps_size'
        /\ traps_count' = Done' + Len(fifo')
    BY <2>2 DEF DropTraps
  <2> QED BY <2>2, <2>3, <2>4, <2>5 DEF DropTraps, QInv, TrapInv, TrapsRunInOrder
<1> QED BY <1>1, <1>2

\* The invariant is inductive when only the first trap of a cycle nests.
THEOREM TrapInductive ==
  ASSUME NestingAt \subseteq {0}
  PROVE  TrapSpec => []QInv
<1>1. QInv /\ [TrapNext]_trap_vars => QInv'
  <2> SUFFICES ASSUME QInv, [TrapNext]_trap_vars PROVE QInv'
    OBVIOUS
  <2>1. CASE \E t \in Traps : Trigger(t)
    BY <2>1, TriggerInv
  <2>2. CASE Cpu \/ DropTraps
    BY <2>2, BeginInv, CallInv, ReturnInv, EndInv, ResumeInv DEF Cpu
  <2>3. CASE UNCHANGED trap_vars
    BY <2>3 DEF QInv, TrapTypeOK, TrapInv, TrapsRunInOrder, Done, Ahead, trap_vars, queue
  <2> QED BY <2>1, <2>2, <2>3 DEF TrapNext
<1> QED BY <1>1, InitInv, PTL DEF TrapSpec

\* Traps run in the order in which they were scheduled, and no uninitialised
\* slot is ever called, when only the first trap of a cycle schedules traps.
THEOREM TrapOrder ==
  ASSUME NestingAt \subseteq {0}
  PROVE  TrapSpec => []TrapsRunInOrder
<1>1. QInv => TrapsRunInOrder
  BY DEF QInv, TrapInv
<1> QED BY <1>1, TrapInductive, PTL

\* Between opcodes IK_TRAP and the slots agree with the traps that wait, when
\* only the first trap of a cycle schedules traps.
THEOREM TrapNotForgotten ==
  ASSUME NestingAt \subseteq {0}
  PROVE  TrapSpec => []NoTrapForgotten
<1>1. QInv => NoTrapForgotten
  <2> SUFFICES ASSUME QInv, trap_phase = "cpu" PROVE NoTrapForgotten
    BY DEF NoTrapForgotten
  <2>1. Done = 0 /\ Ahead = 0 BY DEF Done, Ahead
  <2> QED BY <2>1 DEF QInv, TrapInv, TrapTypeOK, NoTrapForgotten
<1> QED BY <1>1, TrapInductive, PTL
=============================================================================
