-------------------------------- MODULE Cia --------------------------------
(***************************************************************************)
(* The timers and the interrupt logic of the CIA (core/ciatimer.h,         *)
(* core/ciacore.c).  The code does not run the chip in every cycle: a      *)
(* timer stays behind until a register is accessed or an alarm is due, and *)
(* is then brought up to date in leaps; an alarm is set for an underflow   *)
(* only if somebody could notice it; and the delay line between an         *)
(* underflow and the interrupt line runs only while something is in it.    *)
(*                                                                         *)
(* The module runs a second chip beside it, cycle by cycle and without any *)
(* of these short cuts, and asks that nobody can tell the two apart.       *)
(*                                                                         *)
(* Clocks are kept relative to clk: a lag is how far a clock is behind it, *)
(* an alarm how far it is ahead; an operator's argument at is how far rclk *)
(* is behind clk.  In a cycle the CPU may access a register; alarms of the *)
(* cycle run after that, or up to MAX_LATE cycles later.  The shift        *)
(* register, the TOD clock, the ports and the pins are left out.           *)
(***************************************************************************)
EXTENDS Integers, FiniteSets

CONSTANTS
  Models,          \* chips: "6526" is the old one, any other the new one
  BYTE,            \* values of half a timer register (256)
  CIA_MAX_IDLE_CYCLES,
  MAX_LATE,        \* bound: cycles by which alarms are dispatched late
  Written,         \* the latches the program writes
  Masks, Cra, Crb, \* what it writes to ICR, CRA and CRB
  Latches, Enabled,\* the latches and the interrupt mask at first
  StopInStep,      \* CRB may be written in the cycle of a step of timer B
  MaxAccesses      \* bound: accesses of the program

ASSUME CiaAssumption ==
  /\ BYTE \in Nat \ {0}
  /\ CIA_MAX_IDLE_CYCLES \in Nat \ {0}
  /\ MAX_LATE \in Nat
  /\ Written \subseteq {"TAL", "TAH", "TBL", "TBH"}
  /\ Masks \subseteq SUBSET {"TA", "TB", "SET"}
  /\ Enabled \subseteq SUBSET {"TA", "TB"}
  /\ Cra \subseteq SUBSET {"START", "CR_ONESHOT", "FLOAD", "INMODE"}
  /\ Crb \subseteq
       SUBSET {"START", "CR_ONESHOT", "FLOAD", "INMODE", "INMODE_TA"}
  /\ Latches \subseteq 0 .. BYTE * BYTE - 1
  /\ StopInStep \in BOOLEAN

WORD == BYTE * BYTE              \* values of a counter (65536)
NEVER == 2 * WORD + 20           \* an alarm that is not set (CLOCK_MAX)
NONE == -9                       \* the interrupt line is inactive
OLD == CIA_MAX_IDLE_CYCLES + MAX_LATE + 3   \* bound: ages from here on are one

VARIABLES
  model,
  ctrl,        \* c_cia[CIA_CRA] and c_cia[CIA_CRB] as last written
  icr,         \* c_cia[CIA_ICR]: the interrupt mask
  cia,         \* the chip of the code
  chip,        \* the chip that runs cycle by cycle
  accessed,    \* the CPU has used this cycle
  accesses

vars == <<model, ctrl, icr, cia, chip, accessed, accesses>>

-----------------------------------------------------------------------------
(* ciatimer.h, ciatimer.c                                                  *)

\* ciat_init_table(): a bit of the next cycle and the bits it comes from.
ciat_table == {
  <<{"START"}, "START">>, <<{"CR_ONESHOT"}, "CR_ONESHOT">>,
  <<{"PHI2IN"}, "PHI2IN">>, <<{"START", "PHI2IN"}, "COUNT2">>,
  <<{"COUNT2"}, "COUNT3">>, <<{"STEP", "START"}, "COUNT3">>,
  <<{"COUNT3"}, "COUNT">>, <<{"FLOAD"}, "LOAD1">>, <<{"LOAD1"}, "LOAD">>,
  <<{"CR_ONESHOT"}, "ONESHOT0">>, <<{"ONESHOT0"}, "ONESHOT">>}

NextState(t) == {r[2] : r \in {q \in ciat_table : q[1] \subseteq t}}

\* A cycle of the counter.
Inc(s) ==
  [s EXCEPT !.cnt = IF "COUNT3" \in s.state /\ @ > 0 THEN @ - 1 ELSE @,
            !.state = NextState(s.state)]

\* The end of every turn of the loops: an underflow reloads the counter and
\* stops a timer in one-shot mode.
Settle(s) ==
  LET under == s.cnt = 0 /\ "COUNT3" \in s.state
      out == s.state \cup (IF under THEN {"LOAD", "OUT"} ELSE {})
      loaded == IF "LOAD" \in out THEN out \ {"COUNT3"} ELSE out
      once == "OUT" \in loaded /\ loaded \cap {"ONESHOT", "ONESHOT0"} # {}
  IN  [s EXCEPT !.cnt = IF "LOAD" \in out THEN s.latch ELSE s.cnt,
                !.state = IF once THEN loaded \ {"START", "COUNT2"} ELSE loaded,
                !.n = IF under THEN s.n + 1 ELSE s.n]

\* The mode has passed through the pipeline of the one-shot bits.
ModeSettled(t) ==
  Cardinality(t \cap {"CR_ONESHOT", "ONESHOT0", "ONESHOT"}) \in {0, 3}

\* Mutant: the one-shot bits are not looked at.
CountingUnsettled(t) ==
  t \cap {"START", "FLOAD", "LOAD1", "PHI2IN", "COUNT2", "COUNT3", "COUNT",
          "LOAD"} = {"START", "PHI2IN", "COUNT2", "COUNT3", "COUNT"}

\* The counter can be moved on in one leap; it stands still.
Counting(t) ==
  /\ t \cap {"START", "FLOAD", "LOAD1", "PHI2IN", "COUNT2", "COUNT3", "COUNT",
             "LOAD"} = {"START", "PHI2IN", "COUNT2", "COUNT3", "COUNT"}
  /\ ModeSettled(t)

Stopped(t) ==
  /\ t \cap {"COUNT2", "COUNT3", "COUNT"} = {}
  /\ "START" \notin t \/ t \cap {"PHI2IN", "STEP"} = {}
  /\ ModeSettled(t)

\* One turn of the loop of ciat_update() for a timer that is k cycles behind.
Warp(s, k) ==
  LET left == k - s.cnt
      m == left \div (s.latch + 1)
  IN  CASE Counting(s.state) /\ s.cnt > k ->
             [s EXCEPT !.cnt = s.cnt - k, !.lag = s.lag - k]
        [] Counting(s.state) /\ s.cnt <= k
           /\ (\/ s.state \cap {"CR_ONESHOT", "ONESHOT0"} # {}
               \/ left % WORD < s.latch + 1) ->
             [s EXCEPT !.cnt = 0, !.lag = s.lag - s.cnt]
        [] Counting(s.state) /\ s.cnt <= k
           /\ s.state \cap {"CR_ONESHOT", "ONESHOT0"} = {}
           /\ left % WORD >= s.latch + 1 ->
             [s EXCEPT !.cnt = 0, !.n = s.n + m,
                       !.lag = s.lag - s.cnt - m * (s.latch + 1)]
        [] Stopped(s.state) /\ s.state \cap {"FLOAD", "LOAD1", "LOAD"} = {} ->
             [s EXCEPT !.lag = s.lag - k]
        [] /\ s.state = {"COUNT", "OUT", "LOAD", "PHI2IN", "COUNT2", "START"}
           /\ s.cnt = 1 /\ s.latch = 1 ->
             IF k > 1
             THEN [s EXCEPT !.lag = @ - (k - (k % 2)), !.n = @ + k \div 2]
             ELSE [s EXCEPT !.state = NextState(s.state), !.lag = s.lag - 1]
        [] OTHER -> [Inc(s) EXCEPT !.lag = s.lag - 1]

\* ciat_update() up to the clock that is at behind clk; n counts underflows.
ciat_update(s, at) ==
  LET turn[i \in Nat] ==
        IF i = 0 THEN s
        ELSE LET u == turn[i - 1]
             IN  IF u.lag > at THEN Settle(Warp(u, u.lag - at)) ELSE u
  IN  turn[2 * (s.lag - at)]

\* The clock of the next underflow, when i cycles from now the timer is u:
\* it has just underflown, counts on evenly or stands still.  A timer that
\* stands still has none, also while a load is under way.
AlarmSet(s, u, i) ==
  [s EXCEPT !.alarm = CASE u.n > s.n -> i - s.lag
                        [] u.n = s.n /\ Counting(u.state) -> i + u.cnt - s.lag
                        [] u.n = s.n /\ ~Counting(u.state) -> NEVER]

\* ciat_set_alarm().
ciat_set_alarm(s) ==
  LET sim[i \in Nat] == IF i = 0 THEN s ELSE Settle(Inc(sim[i - 1]))
      decided(u) == u.n > s.n \/ Counting(u.state) \/ Stopped(u.state)
      i == CHOOSE k \in 0 .. NEVER :
             decided(sim[k]) /\ \A j \in 0 .. k - 1 : ~decided(sim[j])
  IN  AlarmSet(s, sim[i], i)

\* ciat_set_latchlo(), ciat_set_latchhi() but for the alarm.
SetLatch(s, hi, byte) ==
  LET merge(w) == IF hi THEN (w % BYTE) + BYTE * byte ELSE w - (w % BYTE) + byte
      latch == merge(s.latch)
  IN  [s EXCEPT
         !.latch = latch,
         !.cnt = CASE hi /\ ("LOAD" \in s.state \/ "START" \notin s.state) ->
                          latch
                   [] ~hi /\ "LOAD" \in s.state -> merge(s.cnt)
                   [] OTHER -> s.cnt]

\* ciat_set_ctrl() but for the alarm; "INMODE" is CIAT_PHI2IN, inverted.
SetCtrl(s, byte) ==
  [s EXCEPT !.state = (s.state \ {"START", "CR_ONESHOT", "FLOAD", "PHI2IN"})
                      \cup (byte \cap {"START", "CR_ONESHOT", "FLOAD"})
                      \cup (IF "INMODE" \in byte THEN {} ELSE {"PHI2IN"})]

ciat_ack_alarm(s) == [s EXCEPT !.alarm = NEVER]

\* ciat_single_step() but for the alarm.
Step(s) == [s EXCEPT !.state = @ \cup (IF "START" \in @ THEN {"STEP"} ELSE {})]

-----------------------------------------------------------------------------
(* The interrupt flags and their delay line (ciacore.c).                   *)

\* my_set_int(TRUE) for the clock that is at behind clk.
Raise(int, at) == IF int = NONE THEN at ELSE int

\* delay <<= 1 and CIA_IRQ_CLEAR.
Shift(delay) ==
  LET after == [ACK1 |-> "ACK0", ACK0 |-> "ACK_1", D7SET1 |-> "D7SET0",
                RAISE1 |-> "RAISE0", READ0 |-> "READ1"]
  IN  {after[d] : d \in delay \cap DOMAIN after}

cia_run_ifr_cycle(c) ==
  LET acks == "ACK0" \in c.delay
      old == IF model = "6526" THEN {"SET"} ELSE {}
      hit == c.new \cap icr # {}
      slow == model = "6526" \/ c.rdi = c.ifr_lag + 1
      delay == c.delay \cup (CASE ~hit -> {}
                               [] hit /\ slow -> {"RAISE1", "D7SET1"}
                               [] hit /\ ~slow -> {"RAISE0", "D7SET0"})
  IN  [c EXCEPT
         !.flags = (@ \ (IF acks THEN c.ack \cup old ELSE {}))
                   \cup (IF "D7SET0" \in delay THEN {"SET"} ELSE {}),
         !.ack = IF acks THEN {} ELSE @,
         !.new = {},
         !.int = IF "RAISE0" \in delay THEN Raise(@, c.ifr_lag) ELSE @,
         !.delay = Shift(delay),
         !.ifr_lag = @ - 1]

cia_ifr_catchup(c, at) ==
  LET cycle[i \in Nat] ==
        IF i = 0 THEN c
        ELSE LET d == cycle[i - 1]
             IN  IF d.delay \cup d.new \cup d.ack = {} THEN d
                 ELSE cia_run_ifr_cycle(d)
  IN  IF c.ifr_lag > at THEN [cycle[c.ifr_lag - at] EXCEPT !.ifr_lag = at]
      ELSE c

\* cia_ifr_current(CIA_IFR_CURRENT).  twice notes a second call in a cycle
\* and an alarm of a timer that has not been run before.
IfrCurrent(c, at) ==
  IF -at \in {c.ta.alarm, c.tb.alarm} THEN c
  ELSE [cia_run_ifr_cycle(c) EXCEPT !.twice = @ \/ c.ifr_lag # at]

\* Mutant: no look two cycles ahead.
IfrNextOnly(c, at) ==
  IF -at \notin {c.ta.alarm, c.tb.alarm} /\ "RAISE0" \in c.delay
  THEN [c EXCEPT !.int = Raise(@, at - 1)] ELSE c

\* cia_ifr_current(CIA_IFR_NEXT): an interrupt of the next cycle is raised
\* ahead of time, one of the cycle after that makes the idle alarm run then.
IfrNext(c, at) ==
  CASE -at \in {c.ta.alarm, c.tb.alarm} -> c
    [] -at \notin {c.ta.alarm, c.tb.alarm} /\ "RAISE0" \in c.delay ->
         [c EXCEPT !.int = Raise(@, at - 1)]
    [] /\ -at \notin {c.ta.alarm, c.tb.alarm}
       /\ c.delay \cap {"RAISE0", "RAISE1"} = {"RAISE1"} ->
         [c EXCEPT !.idle = 1 - at]
    [] OTHER -> c

\* cia_ifr_catchup() and cia_ifr_current(CIA_IFR_CUR_NXT).
Ifr(c, at) == IfrNext(IfrCurrent(cia_ifr_catchup(c, at), at), at)

cia_set_irq_flag(c, at, bit) ==
  [cia_ifr_catchup(c, at) EXCEPT !.flags = @ \cup {bit}, !.new = @ \cup {bit},
                                 !.ack = @ \ {bit}]

-----------------------------------------------------------------------------
(* Bringing the timers up to date.                                         *)

TaUnderflows(c, t, at) ==
  IF t.n = 0 THEN [c EXCEPT !.ta = t]
  ELSE [cia_set_irq_flag(c, at, "TA") EXCEPT !.ta = [t EXCEPT !.n = 0],
                                             !.tat = (@ + t.n) % 2]

cia_do_update_ta(c, at) == TaUnderflows(c, ciat_update(c.ta, at), at)

\* The timer B bug of the old chip: an underflow in the cycle after ICR was
\* read.
TimerBBug(flags, age) ==
  IF model = "6526" /\ age = 1 THEN flags \cup {"TBB"} ELSE flags \ {"TBB"}

TbUnderflows(c, t, at) ==
  IF t.n = 0 THEN [c EXCEPT !.tb = t]
  ELSE [cia_set_irq_flag(c, at, "TB") EXCEPT
          !.tb = [t EXCEPT !.n = 0],
          !.flags = TimerBBug(@, c.rdi - at),
          !.tbt = (@ + t.n) % 2]

cia_do_update_tb(c, at) == TbUnderflows(c, ciat_update(c.tb, at), at)

\* Timer B has another alarm only if it may interrupt.
TbNeedsAlarm ==
  /\ ctrl.tb \cap {"START", "CR_ONESHOT", "INMODE", "INMODE_TA"} = {"START"}
  /\ "TB" \in icr

ciacore_inttb(c, at) ==
  [cia_do_update_tb(c, at) EXCEPT
     !.tb = IF TbNeedsAlarm THEN ciat_set_alarm(@) ELSE ciat_ack_alarm(@)]

\* cia_update_tb() without its cia_update_ta().  Alarms before the clock have
\* been run, so that the while loop has at most one turn.
UpdateTb(c, at) ==
  IF c.tb.alarm <= -at THEN ciacore_inttb(c, at) ELSE cia_do_update_tb(c, at)

CountsTa == {"START", "INMODE_TA"} \subseteq ctrl.tb

\* Timer A has another alarm only if it may interrupt or is counted.
TaNeedsAlarm(c) ==
  /\ ctrl.ta \cap {"START", "CR_ONESHOT", "INMODE"} = {"START"}
  /\ \/ "TA" \in icr /\ "SET" \notin c.flags
     \/ "INMODE_TA" \in ctrl.tb

NextTaAlarm(c) ==
  [c EXCEPT !.ta = IF TaNeedsAlarm(c) THEN ciat_set_alarm(@)
                   ELSE ciat_ack_alarm(@)]

cia_do_step_tb(c) ==
  [c EXCEPT !.tb = IF "START" \in @.state THEN ciat_set_alarm(Step(@)) ELSE @]

\* The end of ciacore_intta().  The cia_update_ta() in its cia_update_tb()
\* finds timer A up to date.
CountedByTb(c, at) ==
  IF CountsTa THEN cia_do_step_tb(UpdateTb(c, at)) ELSE c

ciacore_intta(c, at) ==
  CountedByTb(NextTaAlarm(cia_do_update_ta(c, at)), at)

cia_update_ta(c, at) ==
  IF c.ta.alarm <= -at THEN ciacore_intta(c, at) ELSE cia_do_update_ta(c, at)

AlsoTa(c, at) == IF CountsTa THEN cia_update_ta(c, at) ELSE c

cia_update_tb(c, at) == UpdateTb(AlsoTa(c, at), at)

UpdateBoth(c, at) == cia_update_tb(cia_update_ta(c, at), at)

\* Mutant: the delay line is run whether it has been or not.
IdleUnchecked(c, at) ==
  Ifr([UpdateBoth(c, at) EXCEPT !.idle = CIA_MAX_IDLE_CYCLES - at], at)

\* ciacore_idle(): brings everything up to date now and then.
IdleIfr(c, at) ==
  IF c.ifr_lag = at THEN IfrNext(IfrCurrent(c, at), at) ELSE c

ciacore_idle(c, at) ==
  IdleIfr(cia_ifr_catchup(
    [UpdateBoth(c, at) EXCEPT !.idle = CIA_MAX_IDLE_CYCLES - at], at), at)

-----------------------------------------------------------------------------
(* Accesses of the CPU.  Each gives the next state of the code's chip c    *)
(* and, as far as it changes anything, of the cycle-exact one.             *)

\* The tail of a store to ICR.
IcrStored(c, mask) ==
  LET pending == c.flags \cap mask # {}
  IN  [c EXCEPT !.delay =
         CASE pending /\ c.int = NONE /\ model = "6526" ->
                @ \cup {"RAISE1", "D7SET1"}
           [] pending /\ c.int = NONE /\ model # "6526" /\ "READ1" \notin @ ->
                @ \cup {"RAISE0", "D7SET0"}
           [] ~pending /\ model = "6526" /\ "ACK_1" \in @ ->
                @ \ {"RAISE0", "D7SET0"}
           [] OTHER -> @]

\* The value of ICR: the timer B bug hides TB, and a new chip shows an
\* interrupt that is about to be raised.
IcrValue(c) ==
  LET flags == IF "TBB" \in c.flags THEN c.flags \ {"TBB", "TB"} ELSE c.flags
      soon == /\ model # "6526" /\ "RAISE0" \in c.delay
              /\ flags \cap {"TA", "TB"} # {}
  IN  flags \cup (IF soon THEN {"SET"} ELSE {})

\* What reading it does to the flags.
IcrRead(c) ==
  LET flags == IcrValue(c)
      read == [c EXCEPT !.rdi = 0, !.int = NONE]
  IN  IF model = "6526"
      THEN [read EXCEPT !.flags = flags \cap {"SET"}, !.new = {},
                        !.delay = (@ \ {"RAISE0"}) \cup {"ACK1", "READ0"}]
      ELSE [read EXCEPT !.flags = flags,
                        !.ack = IF flags = {} THEN @
                                ELSE @ \cup flags \cup {"SET"},
                        !.delay = (@ \ {"RAISE0", "D7SET0"})
                                  \cup {"ACK1", "READ0"}]

TimerNames == {"ta", "tb"}
Alarms(c) == {c.ta.alarm, c.tb.alarm, c.idle}
Update(c, x) == IF x = "ta" THEN cia_update_ta(c, 0) ELSE cia_update_tb(c, 0)

\* run_pending_alarms() comes first: no alarm of an earlier cycle is left.
Access ==
  /\ ~accessed /\ accessed' = TRUE
  /\ \A a \in Alarms(cia) : a >= 0
  /\ accesses < MaxAccesses /\ accesses' = accesses + 1
  /\ UNCHANGED model

Read(x) ==
  /\ Access
  /\ cia' = Ifr(Update(cia, x), 0)
  /\ UNCHANGED <<ctrl, icr, chip>>

AlarmsSet(c) ==
  [c EXCEPT !.ta = ciat_set_alarm(@), !.tb = ciat_set_alarm(@)]

\* Both timers and the delay line up to and including this cycle.
UpToDate(c) == IfrCurrent(cia_ifr_catchup(UpdateBoth(c, 0), 0), 0)

ReadIcr ==
  /\ Access
  /\ cia' = IfrNext(IcrRead(AlarmsSet(UpToDate(cia))), 0)
  /\ chip' = IcrRead(chip)
  /\ UNCHANGED <<ctrl, icr>>

\* The timer of a latch register, and whether it is the high byte.
LatchRegisters == [TAL |-> <<"ta", FALSE>>, TAH |-> <<"ta", TRUE>>,
                   TBL |-> <<"tb", FALSE>>, TBH |-> <<"tb", TRUE>>]

StoreLatch(r, byte) ==
  LET x == LatchRegisters[r][1]
      written(s) == SetLatch(s, LatchRegisters[r][2], byte)
  IN  /\ Access
      /\ cia' = [Ifr(Update(cia, x), 0) EXCEPT
                    ![x] = ciat_set_alarm(written(@))]
      /\ chip' = [chip EXCEPT ![x] = written(@)]
      /\ UNCHANGED <<ctrl, icr>>

AlarmsOfMask(c, mask) ==
  [c EXCEPT !.ta = IF "TA" \in mask THEN ciat_set_alarm(@) ELSE @,
            !.tb = IF "TB" \in mask THEN ciat_set_alarm(@) ELSE @]

StoreIcr(byte) ==
  /\ Access
  /\ icr' = IF "SET" \in byte THEN icr \cup (byte \ {"SET"}) ELSE icr \ byte
  /\ cia' = IfrNext(AlarmsOfMask(IcrStored(UpToDate(cia), icr'), icr'), 0)
  /\ chip' = IcrStored(chip, icr')
  /\ UNCHANGED ctrl

StoreCra(byte) ==
  LET starts == "START" \in byte /\ "START" \notin ctrl.ta
      stored(c) == [c EXCEPT !.tat = IF starts THEN 1 ELSE @,
                             !.ta = SetCtrl(@, byte)]
      alarmed(c) == [c EXCEPT !.ta = ciat_set_alarm(@)]
  IN  /\ Access
      /\ cia' = Ifr(alarmed(stored(cia_update_ta(cia, 0))), 0)
      /\ chip' = stored(chip)
      /\ ctrl' = [ctrl EXCEPT !.ta = byte \ {"FLOAD"}]
      /\ UNCHANGED icr

\* tbt is set before timer B is brought up to date, so that an underflow in
\* this very cycle toggles it once more.  A step of timer B in this cycle that
\* it can no longer take stays for its next start (see StopInStep).
StoreCrb(byte) ==
  LET starts == "START" \in byte /\ "START" \notin ctrl.tb
      cascade == "INMODE_TA" \in byte
      mode == IF cascade THEN byte \cup {"INMODE"} ELSE byte
      started(c) == [c EXCEPT !.tbt = IF starts THEN 1 ELSE @]
      stored(c) == [c EXCEPT !.ta = IF cascade THEN ciat_set_alarm(@) ELSE @,
                             !.tb = ciat_set_alarm(SetCtrl(@, mode))]
  IN  /\ Access
      /\ StopInStep \/ "STEP" \notin chip.tb.state
      /\ cia' = Ifr(stored(UpdateBoth(started(cia), 0)), 0)
      /\ chip' = [chip EXCEPT !.tbt = IF starts THEN (1 + chip.tb.n) % 2 ELSE @,
                              !.tb = SetCtrl(@, mode)]
      /\ ctrl' = [ctrl EXCEPT !.tb = byte \ {"FLOAD"}]
      /\ UNCHANGED icr

-----------------------------------------------------------------------------
(* Alarms and time.                                                        *)

\* The alarm that is due first runs, after the CPU has used the cycle.
Dispatch ==
  /\ \E at \in 0 .. MAX_LATE :
       LET entry(c) == Ifr(c, at)
           due == Alarms(cia)
       IN  /\ -at \in due /\ \A a \in due : a >= -at
           /\ accessed \/ at > 0
           /\ \/ cia.ta.alarm = -at /\ cia' = entry(ciacore_intta(cia, at))
              \/ cia.tb.alarm = -at /\ cia' = entry(ciacore_inttb(cia, at))
              \/ cia.idle = -at /\ cia' = ciacore_idle(cia, at)
  /\ UNCHANGED <<model, ctrl, icr, chip, accessed, accesses>>

\* The CPU leaves the cycle alone.
NoAccess ==
  /\ ~accessed /\ accessed' = TRUE
  /\ UNCHANGED <<model, ctrl, icr, cia, chip, accesses>>

Older(age) == IF age = NONE \/ age = OLD THEN age ELSE age + 1
Nearer(a) == IF a = NEVER THEN a ELSE a - 1
Waited(s) == [s EXCEPT !.lag = @ + 1, !.alarm = Nearer(@)]

\* A cycle of the chip: both counters, the flags and the delay line.
Cycle(c) ==
  LET ta == Settle(Inc([c.ta EXCEPT !.n = 0]))
      tb == Settle(Inc([c.tb EXCEPT !.n = 0]))
      set == (IF ta.n > 0 THEN {"TA"} ELSE {})
             \cup (IF tb.n > 0 THEN {"TB"} ELSE {})
      age == Older(c.rdi)
  IN  cia_run_ifr_cycle(
        [c EXCEPT !.ta = ta,
                  !.tb = IF ta.n > 0 /\ CountsTa THEN Step(tb) ELSE tb,
                  !.tat = (@ + ta.n) % 2,
                  !.tbt = (@ + tb.n) % 2,
                  !.flags = IF tb.n > 0 THEN TimerBBug(@ \cup set, age)
                            ELSE @ \cup set,
                  !.new = set,
                  !.ack = @ \ set,
                  !.ifr_lag = 0,
                  !.int = Older(@),
                  !.rdi = age])

Tick ==
  /\ accessed /\ accessed' = FALSE
  /\ \A a \in Alarms(cia) : a > -MAX_LATE
  /\ cia' = [cia EXCEPT
       !.ta = Waited(@), !.tb = Waited(@),
       !.ifr_lag = @ + 1, !.idle = @ - 1, !.int = Older(@), !.rdi = Older(@)]
  /\ chip' = Cycle(chip)
  /\ UNCHANGED <<model, ctrl, icr, accesses>>

-----------------------------------------------------------------------------
\* ciacore_reset(), ciat_reset().
ResetTimer == [state |-> {}, cnt |-> WORD - 1, latch |-> WORD - 1, lag |-> 0,
               alarm |-> NEVER, n |-> 0]

ciacore_reset ==
  [ta |-> ResetTimer, tb |-> ResetTimer, tat |-> 0, tbt |-> 0, flags |-> {},
   new |-> {}, ack |-> {}, delay |-> {}, ifr_lag |-> 0, int |-> NONE,
   rdi |-> OLD, idle |-> CIA_MAX_IDLE_CYCLES, twice |-> FALSE]

\* Some time after the reset: the program has set the latches of the stopped
\* timers and the interrupt mask.
Init ==
  /\ model \in Models
  /\ ctrl = [x \in TimerNames |-> {}]
  /\ icr \in Enabled
  /\ LET latched(w) == [ResetTimer EXCEPT !.cnt = w, !.latch = w]
     IN  \E a, b \in Latches :
           cia = [ciacore_reset EXCEPT !.ta = latched(a), !.tb = latched(b)]
  /\ chip = cia
  /\ accessed = FALSE
  /\ accesses = 0

Next ==
  \/ Tick \/ NoAccess \/ Dispatch \/ ReadIcr
  \/ \E x \in TimerNames : Read(x)
  \/ \E r \in Written, byte \in 0 .. BYTE - 1 : StoreLatch(r, byte)
  \/ \E byte \in Masks : StoreIcr(byte)
  \/ \E byte \in Cra : StoreCra(byte)
  \/ \E byte \in Crb : StoreCrb(byte)

Spec == Init /\ [][Next]_vars

-----------------------------------------------------------------------------
\* A register that the program reads now has the value it has in a chip that
\* runs in every cycle: both counters, whether they run, what they show on
\* PB6 and PB7, and the interrupt flags; whatever was written when, and
\* however long nobody looked.
Looks == ~accessed /\ \A a \in Alarms(cia) : a >= 0
Shown(c, x) == <<c[x].cnt, c[x].state \cap {"START", "OUT"}>>

TimerAExact ==
  Looks => LET seen == UpToDate(cia)
           IN  Shown(seen, "ta") = Shown(chip, "ta") /\ seen.tat = chip.tat
TimerBExact ==
  Looks => LET seen == UpToDate(cia)
           IN  Shown(seen, "tb") = Shown(chip, "tb") /\ seen.tbt = chip.tbt
IcrExact == Looks => IcrValue(UpToDate(cia)) = IcrValue(chip)

RegistersExact == TimerAExact /\ TimerBExact /\ IcrExact

\* Once the alarms of the cycle have run, the interrupt line is what it is in
\* such a chip, and since the same cycle; only an interrupt of the next cycle
\* may have been raised ahead.
IrqExact ==
  accessed /\ (\A a \in Alarms(cia) : a > 0) =>
    (IF cia.int = -1 THEN NONE ELSE cia.int) = chip.int

\* "cia_ifr_current() must NOT be called more than once for a cycle!" (the
\* comment of cia_set_irq_flag()).
OncePerCycle == ~cia.twice
=============================================================================
