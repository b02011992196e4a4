------------------------------- MODULE KbdBuf -------------------------------
(***************************************************************************)
(* The keyboard buffer queue (src/kbdbuf.c).  Autostart, the monitors, the *)
(* "paste" action and the option -keybuf put text into a ring; once per    *)
(* frame (vsync_do_vsync()) as much as fits is injected into the Kernal's  *)
(* own keyboard buffer in emulated memory, if that is empty.  After        *)
(* kbdbuf_feed_runcmd() every RETURN is delayed: an alarm of the main CPU  *)
(* injects it one to two frames later, and nothing is flushed until then.  *)
(*                                                                         *)
(* Characters are their PETSCII codes.  The emulated Kernal is external:   *)
(* it takes characters in order and clears its buffer when it starts.      *)
(* A user who types at the same time is left out, and so is un-escaping    *)
(* (kbd_buf_parse_string()) but for the string it leaves behind.           *)
(***************************************************************************)
EXTENDS Integers, Sequences

CONSTANTS
  Strings,          \* the texts that may be fed
  QUEUE_SIZE,
  buffer_size,      \* the size of the Kernal's buffer
  MAX_FEEDS,        \* bound on the number of texts fed
  MAX_RESETS        \* bound on the number of resets and ROM changes

Chars == 0 .. 255
RETURN == 13
NULL == <<>>        \* no string given yet

ASSUME KbdBufAssumption ==
  /\ Strings \subseteq Seq(Chars) \ {NULL}
  /\ \A s \in Strings : Len(s) <= QUEUE_SIZE
  /\ QUEUE_SIZE \in Nat \ {0}
  /\ buffer_size \in Nat \ {0}
  /\ MAX_FEEDS \in Nat
  /\ MAX_RESETS \in Nat

VARIABLES
  queue,
  head_idx,
  num_pending,
  kbd_buf_enabled,
  kbd_buf_cmdline,
  kbd_buf_string,
  KbdbufDelay,               \* whether the resource is not 0
  isautoload,                \* there is something to autostart first
  use_kbdbuf_flush_alarm,
  kbdbuf_flush_alarm_time,   \* whether it is not 0
  alarms,                    \* which are set: "current" is kbdbuf_flush_alarm,
                             \* "old" one that an earlier kbdbuf_init() made
  kernal_up,                 \* maincpu_clk has reached kernal_init_cycles
  kernal,                    \* the characters in the Kernal's buffer
  feeds, resets              \* how many there were

ring == <<queue, head_idx, num_pending>>
delay == <<kbdbuf_flush_alarm_time, alarms>>
rest == <<kbd_buf_enabled, kbd_buf_string, KbdbufDelay, isautoload, kernal_up>>
vars == <<ring, delay, rest, kbd_buf_cmdline, use_kbdbuf_flush_alarm, kernal,
          feeds, resets>>

Slots == 0 .. QUEUE_SIZE - 1
Slot(i) == (head_idx + i) % QUEUE_SIZE
At(q, i) == q[Slot(i)]
First(q, k) == [i \in 1 .. k |-> At(q, i - 1)]

\* After kbdbuf_init(): a string from the command line was fed, unless there
\* is something to autostart first.
Init ==
  /\ \/ kbd_buf_string = NULL /\ kbd_buf_cmdline = FALSE
     \/ kbd_buf_string \in Strings /\ kbd_buf_cmdline = TRUE
  /\ KbdbufDelay \in BOOLEAN
  /\ isautoload \in BOOLEAN
  /\ head_idx = 0
  /\ num_pending = IF isautoload THEN 0 ELSE Len(kbd_buf_string)
  /\ queue = [i \in Slots |-> IF i < num_pending THEN kbd_buf_string[i + 1] ELSE 0]
  /\ use_kbdbuf_flush_alarm = (num_pending > 0 /\ KbdbufDelay)
  /\ kbd_buf_enabled = TRUE
  /\ kbdbuf_flush_alarm_time = FALSE
  /\ alarms = {}
  /\ kernal_up = FALSE
  /\ kernal = <<>>
  /\ feeds = 0
  /\ resets = 0

-----------------------------------------------------------------------------
(* The flush, with the ring, its fill and the delay flag as the caller     *)
(* leaves them.                                                            *)

kbdbuf_is_empty == kernal = <<>>

\* Mutant: the Kernal's buffer is not looked at.
CanFlushAlways(pending) ==
  /\ kbd_buf_enabled
  /\ pending # 0
  /\ kernal_up
  /\ ~kbdbuf_flush_alarm_time

CanFlush(pending) ==
  /\ kbd_buf_enabled
  /\ pending # 0
  /\ kbdbuf_is_empty
  /\ kernal_up
  /\ ~kbdbuf_flush_alarm_time

\* How many characters one flush may inject, and where among them there is
\* a RETURN that must be delayed.
Burst(pending) == IF pending > buffer_size THEN buffer_size ELSE pending
Delayed(q, pending, use) ==
  {i \in 0 .. Burst(pending) - 1 : use /\ At(q, i) = RETURN}

\* tokbdbuffer() and removefromqueue(), k times.
Inject(q, pending, k) ==
  /\ kernal' = kernal \o First(q, k)
  /\ num_pending' = pending - k
  /\ head_idx' = Slot(k)

\* Mutant: the RETURN that the alarm will inject is taken from the queue.
FlushTakesReturn(q, pending, use) ==
  \E k \in Delayed(q, pending, use) :
    /\ \A i \in Delayed(q, pending, use) : k <= i
    /\ kernal' = kernal \o First(q, k)
    /\ num_pending' = pending - k - 1
    /\ head_idx' = Slot(k + 1)
    /\ kbdbuf_flush_alarm_time' = TRUE
    /\ alarms' = alarms \cup {"current"}
    /\ UNCHANGED kbd_buf_cmdline

\* The characters in front of the first delayed RETURN are injected, and the
\* alarm is set for that one;
FlushDelayed(q, pending, use) ==
  \E k \in Delayed(q, pending, use) :
    /\ \A i \in Delayed(q, pending, use) : k <= i
    /\ Inject(q, pending, k)
    /\ kbdbuf_flush_alarm_time' = TRUE
    /\ alarms' = alarms \cup {"current"}
    /\ UNCHANGED kbd_buf_cmdline

\* or there is none, and the whole burst is injected.
FlushAll(q, pending, use) ==
  /\ Delayed(q, pending, use) = {}
  /\ Inject(q, pending, Burst(pending))
  /\ kbd_buf_cmdline' = FALSE
  /\ UNCHANGED delay

kbdbuf_flush(q, pending, use) ==
  /\ queue' = q
  /\ use_kbdbuf_flush_alarm' = use
  /\ \/ /\ CanFlush(pending)
        /\ FlushDelayed(q, pending, use) \/ FlushAll(q, pending, use)
     \/ /\ ~CanFlush(pending)
        /\ num_pending' = pending
        /\ UNCHANGED <<head_idx, kernal, kbd_buf_cmdline, delay>>

-----------------------------------------------------------------------------
(* The operations.                                                         *)

\* Mutant: a string is stored one slot too far.
StoredAfter(s) ==
  [p \in Slots |-> IF \E i \in 1 .. Len(s) : p = Slot(num_pending + i)
                   THEN s[CHOOSE i \in 1 .. Len(s) : p = Slot(num_pending + i)]
                   ELSE queue[p]]

\* The ring with a string stored behind what waits already.
Stored(s) ==
  [p \in Slots |-> IF \E i \in 1 .. Len(s) : p = Slot(num_pending + i - 1)
                   THEN s[CHOOSE i \in 1 .. Len(s) : p = Slot(num_pending + i - 1)]
                   ELSE queue[p]]

string_to_queue(s, use) ==
  \/ /\ num_pending + Len(s) <= QUEUE_SIZE /\ kbd_buf_enabled
     /\ kbdbuf_flush(Stored(s), num_pending + Len(s), use)
  \/ /\ num_pending + Len(s) > QUEUE_SIZE \/ ~kbd_buf_enabled
     /\ use_kbdbuf_flush_alarm' = use
     /\ UNCHANGED <<ring, delay, kbd_buf_cmdline, kernal>>

Fed ==
  /\ feeds < MAX_FEEDS
  /\ feeds' = feeds + 1
  /\ UNCHANGED <<kbd_buf_enabled, KbdbufDelay, isautoload, kernal_up, resets>>

\* kbdbuf_feed(), of "paste", of autostart and of the binary monitor;
\* kbdbuf_feed_runcmd(), of autostart,
kbdbuf_feed(s) ==
  Fed /\ string_to_queue(s, FALSE) /\ UNCHANGED kbd_buf_string
kbdbuf_feed_runcmd(s) ==
  Fed /\ string_to_queue(s, TRUE) /\ UNCHANGED kbd_buf_string

\* the monitor's, which leaves its text where that of -keybuf was,
kbdbuf_feed_string(s) ==
  Fed /\ string_to_queue(s, FALSE) /\ kbd_buf_string' = s

\* and that of -keybuf, when the autostart has finished.
kbdbuf_feed_cmdline ==
  /\ isautoload
  /\ kbd_buf_string # NULL
  /\ Fed
  /\ string_to_queue(kbd_buf_string, KbdbufDelay)
  /\ UNCHANGED kbd_buf_string

\* At the end of every frame.
VsyncFlush ==
  /\ CanFlush(num_pending)
  /\ kbdbuf_flush(queue, num_pending, use_kbdbuf_flush_alarm)
  /\ UNCHANGED <<rest, feeds, resets>>

\* Mutant: the time of the alarm is not reset.
TriggeredKeepsTime ==
  /\ alarms # {}
  /\ alarms' = alarms \ {"current"}
  /\ kernal' = Append(kernal, RETURN)
  /\ num_pending' = num_pending - 1
  /\ head_idx' = Slot(1)
  /\ UNCHANGED <<queue, kbdbuf_flush_alarm_time, kbd_buf_cmdline,
                 use_kbdbuf_flush_alarm, rest, feeds, resets>>

kbdbuf_flush_alarm_triggered ==
  /\ alarms # {}
  /\ alarms' = alarms \ {"current"}
  /\ kbdbuf_flush_alarm_time' = FALSE
  /\ kernal' = Append(kernal, RETURN)
  /\ num_pending' = num_pending - 1
  /\ head_idx' = Slot(1)
  /\ UNCHANGED <<queue, kbd_buf_cmdline, use_kbdbuf_flush_alarm, rest, feeds, resets>>

\* machine_reset(): kbdbuf_abort(), and the CPU's clock starts again.
machine_reset ==
  /\ resets < MAX_RESETS
  /\ resets' = resets + 1
  /\ num_pending' = IF kbd_buf_cmdline THEN num_pending ELSE 0
  /\ kernal_up' = FALSE
  /\ UNCHANGED <<queue, head_idx, delay, kbd_buf_enabled, kbd_buf_cmdline, kbd_buf_string,
                 KbdbufDelay, isautoload, use_kbdbuf_flush_alarm, kernal, feeds>>

\* Another Kernal ROM (petrom.c, petmemsnapshot.c): kbdbuf_init() runs again,
\* for a Kernal it may know or not, and makes another alarm.
kbdbuf_init ==
  /\ resets < MAX_RESETS
  /\ resets' = resets + 1
  /\ kbd_buf_enabled' \in BOOLEAN
  /\ alarms' = IF alarms = {} THEN {} ELSE {"old"}
  /\ UNCHANGED <<ring, kbdbuf_flush_alarm_time, kbd_buf_cmdline, kbd_buf_string,
                 KbdbufDelay, isautoload, use_kbdbuf_flush_alarm, kernal_up, kernal, feeds>>

\* The emulated Kernal starts, and takes a character from its buffer.
KernalStarts ==
  /\ ~kernal_up
  /\ kernal_up' = TRUE
  /\ kernal' = <<>>
  /\ UNCHANGED <<ring, delay, kbd_buf_enabled, kbd_buf_cmdline, kbd_buf_string,
                 KbdbufDelay, isautoload, use_kbdbuf_flush_alarm, feeds, resets>>

KernalTakes ==
  /\ kernal # <<>>
  /\ kernal' = Tail(kernal)
  /\ UNCHANGED <<ring, delay, rest, kbd_buf_cmdline, use_kbdbuf_flush_alarm, feeds, resets>>

-----------------------------------------------------------------------------

Runs == VsyncFlush \/ kbdbuf_flush_alarm_triggered \/ KernalStarts \/ KernalTakes
Feeds == \/ \E s \in Strings : kbdbuf_feed(s) \/ kbdbuf_feed_runcmd(s) \/ kbdbuf_feed_string(s)
         \/ kbdbuf_feed_cmdline

\* Resets and ROM changes come when no RETURN is delayed ...
Next == Runs \/ Feeds \/ (alarms = {} /\ (machine_reset \/ kbdbuf_init))

Spec == Init /\ [][Next]_vars

\* ... or at any time.
AnyTimeSpec == Init /\ [][Next \/ machine_reset \/ kbdbuf_init]_vars

\* Frames end, due alarms are dispatched, and the emulated program reads the
\* keyboard.
FairSpec ==
  /\ Spec
  /\ WF_vars(VsyncFlush) /\ WF_vars(kbdbuf_flush_alarm_triggered)
  /\ WF_vars(KernalStarts) /\ WF_vars(KernalTakes)

-----------------------------------------------------------------------------
(* Properties.                                                             *)

\* Every variable keeps its type; the queue never holds more than its size.
TypeOK ==
  /\ queue \in [Slots -> Chars]
  /\ head_idx \in Slots
  /\ num_pending \in 0 .. QUEUE_SIZE
  /\ kbd_buf_enabled \in BOOLEAN
  /\ kbd_buf_cmdline \in BOOLEAN
  /\ kbd_buf_string \in Strings \cup {NULL}
  /\ KbdbufDelay \in BOOLEAN
  /\ isautoload \in BOOLEAN
  /\ use_kbdbuf_flush_alarm \in BOOLEAN
  /\ kbdbuf_flush_alarm_time \in BOOLEAN
  /\ alarms \subseteq {"current", "old"}
  /\ kernal_up \in BOOLEAN
  /\ kernal \in Seq(Chars)
  /\ feeds \in 0 .. MAX_FEEDS
  /\ resets \in 0 .. MAX_RESETS

\* "Number of pending characters in the incoming queue" (the comment of
\* num_pending): there is never less than nothing in the queue.
PendingIsCount == num_pending >= 0

\* The alarm injects a RETURN and removes the head of the queue without
\* looking at it: whatever was fed since it was set, the head is that RETURN.
DelayedReturn ==
  alarms # {} => num_pending > 0 /\ queue[head_idx] = RETURN

\* "we actually need to wait _at least_ one frame to not overrun the buffer"
\* (kbdbuf_flush()): the Kernal's buffer is never filled past its end, not
\* even by a RETURN that comes later.
KernalFits == Len(kernal) + (IF alarms = {} THEN 0 ELSE 1) <= buffer_size

\* What waits, in order; text arrives as it was fed (KbdBufSpec), across
\* bursts, delayed RETURNs, the wrap-around of the ring and rejected feeds.
Waiting == First(queue, num_pending)
Fifo == INSTANCE KbdBufSpec WITH waiting <- Waiting, kernal <- kernal
RefinesFifo == Fifo!Spec

\* What is fed arrives, or is dropped by a reset, once feeds and resets have
\* come to an end, if the Kernal is one that can be fed.
FedArrives == num_pending > 0 /\ kbd_buf_enabled ~> num_pending = 0 \/ ~kbd_buf_enabled

=============================================================================
