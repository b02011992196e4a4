---------------------------- MODULE KbdBufProofs ----------------------------
(***************************************************************************)
(* Proofs about the keyboard buffer queue, for every size of the queue and *)
(* of the Kernal's buffer and every set of texts.                          *)
(***************************************************************************)
EXTENDS KbdBuf, SequenceTheorems, TLAPS

\* The variables that a flush changes.
FlushTypes ==
  /\ queue \in [Slots -> Chars]
  /\ head_idx \in Slots
  /\ num_pending \in 0 .. QUEUE_SIZE
  /\ kbd_buf_cmdline \in BOOLEAN
  /\ use_kbdbuf_flush_alarm \in BOOLEAN
  /\ kbdbuf_flush_alarm_time \in BOOLEAN
  /\ alarms \subseteq {"current", "old"}
  /\ kernal \in Seq(Chars)

\* The others.
RestTypes ==
  /\ kbd_buf_enabled \in BOOLEAN
  /\ kbd_buf_string \in Strings \cup {NULL}
  /\ KbdbufDelay \in BOOLEAN
  /\ isautoload \in BOOLEAN
  /\ kernal_up \in BOOLEAN
  /\ feeds \in 0 .. MAX_FEEDS
  /\ resets \in 0 .. MAX_RESETS

\* No flush starts while the alarm is set, and it is the alarm of the last
\* kbdbuf_init().
AlarmInv ==
  /\ alarms \subseteq {"current"}
  /\ kbdbuf_flush_alarm_time <=> alarms # {}

FlushInv == FlushTypes /\ DelayedReturn /\ KernalFits /\ AlarmInv
KbdInv == FlushInv /\ RestTypes

-----------------------------------------------------------------------------
(* The ring.                                                               *)

\* Both buffers have a size.
LEMMA Sizes == QUEUE_SIZE \in Nat \ {0} /\ buffer_size \in Nat \ {0}
BY KbdBufAssumption

\* What % does to an index that has run over the end of the ring once.
LEMMA ModLemma ==
  ASSUME NEW M \in Nat \ {0}, NEW x \in Nat, x < 2 * M
  PROVE  x % M = IF x < M THEN x ELSE x - M
<1>1. CASE x < M
  BY <1>1, SMT
<1>2. CASE x >= M
  BY <1>2, SMT
<1> QED BY <1>1, <1>2

\* The slot of the i-th character that waits.
LEMMA SlotLemma ==
  ASSUME head_idx \in Slots, NEW i \in 0 .. QUEUE_SIZE
  PROVE  /\ Slot(i) = IF head_idx + i < QUEUE_SIZE THEN head_idx + i
                      ELSE head_idx + i - QUEUE_SIZE
         /\ Slot(i) \in Slots
<1>1. PICK x \in Nat : x = head_idx + i /\ x < 2 * QUEUE_SIZE
  BY Sizes DEF Slots
<1>2. x % QUEUE_SIZE = IF x < QUEUE_SIZE THEN x ELSE x - QUEUE_SIZE
  BY <1>1, ModLemma, Sizes
<1>3. Slot(i) = x % QUEUE_SIZE
  BY <1>1 DEF Slot
<1> QED BY <1>1, <1>2, <1>3, Sizes DEF Slots

\* Different places in the queue are different slots.
LEMMA SlotsDiffer ==
  ASSUME head_idx \in Slots, NEW i \in Slots, NEW j \in Slots
  PROVE  Slot(i) = Slot(j) => i = j
<1>1. i \in 0 .. QUEUE_SIZE /\ j \in 0 .. QUEUE_SIZE
  BY Sizes DEF Slots
<1>2. Slot(i) = IF head_idx + i < QUEUE_SIZE THEN head_idx + i
                ELSE head_idx + i - QUEUE_SIZE
  BY <1>1, SlotLemma
<1>3. Slot(j) = IF head_idx + j < QUEUE_SIZE THEN head_idx + j
                ELSE head_idx + j - QUEUE_SIZE
  BY <1>1, SlotLemma
<1> QED BY <1>2, <1>3, Sizes DEF Slots

\* The first place is the head.
LEMMA SlotZero ==
  ASSUME head_idx \in Slots
  PROVE  Slot(0) = head_idx
<1>1. 0 \in 0 .. QUEUE_SIZE
  BY Sizes
<1> QED BY <1>1, SlotLemma, Sizes DEF Slots

\* Places count on from the new head when k characters have been removed.
LEMMA SlotShift ==
  ASSUME head_idx \in Slots, NEW k \in 0 .. QUEUE_SIZE, head_idx' = Slot(k),
         NEW i \in Nat, k + i <= QUEUE_SIZE
  PROVE  Slot(i)' = Slot(k + i)
<1>1. k + i \in 0 .. QUEUE_SIZE /\ i \in 0 .. QUEUE_SIZE
  BY Sizes
<1>2. Slot(k) = IF head_idx + k < QUEUE_SIZE THEN head_idx + k
                ELSE head_idx + k - QUEUE_SIZE
  BY SlotLemma
<1>3. Slot(k + i) = IF head_idx + (k + i) < QUEUE_SIZE THEN head_idx + (k + i)
                    ELSE head_idx + (k + i) - QUEUE_SIZE
  BY <1>1, SlotLemma
<1>4. head_idx' \in Slots
  BY SlotLemma
<1>5. PICK x \in Nat : x = head_idx' + i /\ x < 2 * QUEUE_SIZE
  BY <1>1, <1>4, Sizes DEF Slots
<1>6. x % QUEUE_SIZE = IF x < QUEUE_SIZE THEN x ELSE x - QUEUE_SIZE
  BY <1>5, ModLemma, Sizes
<1>7. Slot(i)' = x % QUEUE_SIZE
  BY <1>5 DEF Slot
<1> QED BY <1>1, <1>2, <1>3, <1>4, <1>5, <1>6, <1>7, Sizes DEF Slots

\* string_to_queue() stores a string that fits behind what waits, and leaves
\* that alone.
LEMMA StoredLemma ==
  ASSUME queue \in [Slots -> Chars], head_idx \in Slots, num_pending \in 0 .. QUEUE_SIZE,
         NEW s \in Strings, num_pending + Len(s) <= QUEUE_SIZE
  PROVE  /\ Stored(s) \in [Slots -> Chars]
         /\ \A i \in 0 .. num_pending - 1 : At(Stored(s), i) = At(queue, i)
         /\ \A i \in 1 .. Len(s) : At(Stored(s), num_pending + i - 1) = s[i]
<1>1. s \in Seq(Chars) /\ Len(s) \in Nat
  BY KbdBufAssumption
<1>2. \A i \in 1 .. Len(s) : num_pending + i - 1 \in Slots /\ s[i] \in Chars
  BY <1>1, Sizes DEF Slots
<1>3. ASSUME NEW i \in Slots PROVE Slot(i) \in Slots
  <2>1. i \in 0 .. QUEUE_SIZE
    BY Sizes DEF Slots
  <2> QED BY <2>1, SlotLemma
<1>4. ASSUME NEW p \in Slots, \E i \in 1 .. Len(s) : p = Slot(num_pending + i - 1)
      PROVE  Stored(s)[p] = s[CHOOSE i \in 1 .. Len(s) : p = Slot(num_pending + i - 1)]
  BY <1>4 DEF Stored
<1>5. ASSUME NEW p \in Slots, ~ \E i \in 1 .. Len(s) : p = Slot(num_pending + i - 1)
      PROVE  Stored(s)[p] = queue[p]
  BY <1>5 DEF Stored
<1>6. ASSUME NEW i \in 1 .. Len(s)
      PROVE  At(Stored(s), num_pending + i - 1) = s[i]
  <2> DEFINE p == Slot(num_pending + i - 1)
             j == CHOOSE j \in 1 .. Len(s) : p = Slot(num_pending + j - 1)
  <2>1. p \in Slots /\ \E m \in 1 .. Len(s) : p = Slot(num_pending + m - 1)
    BY <1>2, <1>3
  <2>2. j \in 1 .. Len(s) /\ p = Slot(num_pending + j - 1)
    BY <2>1
  <2>3. num_pending + i - 1 = num_pending + j - 1
    <3> HIDE DEF j
    <3> QED BY <2>2, <1>2, SlotsDiffer
  <2>4. i = j
    <3> HIDE DEF j
    <3> QED BY <2>2, <2>3, <1>1
  <2>5. Stored(s)[p] = s[j]
    BY <2>1, <1>4
  <2> QED BY <2>4, <2>5 DEF At
<1>7. ASSUME NEW i \in 0 .. num_pending - 1
      PROVE  At(Stored(s), i) = At(queue, i)
  <2>1. i \in Slots /\ \A m \in 1 .. Len(s) : i # num_pending + m - 1
    BY Sizes DEF Slots
  <2>2. \A m \in 1 .. Len(s) : Slot(i) # Slot(num_pending + m - 1)
    BY <2>1, <1>2, SlotsDiffer
  <2> QED BY <2>1, <2>2, <1>3, <1>5 DEF At
<1>8. Stored(s) \in [Slots -> Chars]
  <2>1. ASSUME NEW p \in Slots PROVE Stored(s)[p] \in Chars
    <3>1. CASE \E i \in 1 .. Len(s) : p = Slot(num_pending + i - 1)
      <4>1. (CHOOSE i \in 1 .. Len(s) : p = Slot(num_pending + i - 1)) \in 1 .. Len(s)
        BY <3>1
      <4> QED BY <4>1, <3>1, <1>2, <1>4
    <3>2. CASE ~ \E i \in 1 .. Len(s) : p = Slot(num_pending + i - 1)
      BY <3>2, <1>5
    <3> QED BY <3>1, <3>2
  <2>2. Stored(s) = [p \in Slots |-> Stored(s)[p]]
    BY DEF Stored
  <2> QED BY <2>1, <2>2
<1> QED BY <1>6, <1>7, <1>8

\* The first k characters, as a sequence.
LEMMA FirstLemma ==
  ASSUME head_idx \in Slots, NEW q \in [Slots -> Chars], NEW k \in 0 .. QUEUE_SIZE
  PROVE  /\ First(q, k) \in Seq(Chars)
         /\ Len(First(q, k)) = k
         /\ \A i \in 1 .. k : First(q, k)[i] = At(q, i - 1)
<1>1. k \in Nat
  BY Sizes
<1>2. ASSUME NEW i \in 1 .. k PROVE At(q, i - 1) \in Chars
  <2>1. i - 1 \in 0 .. QUEUE_SIZE
    BY Sizes
  <2>2. Slot(i - 1) \in Slots
    BY <2>1, SlotLemma
  <2> QED BY <2>2 DEF At
<1>3. First(q, k) \in [1 .. k -> Chars]
  BY <1>2 DEF First
<1>4. First(q, k) \in Seq(Chars)
  BY <1>1, <1>3, SeqDef
<1>5. Len(First(q, k)) = k
  BY <1>1, <1>3, <1>4, LenProperties
<1> QED BY <1>4, <1>5 DEF First

\* tokbdbuffer() and removefromqueue(), k times: the first k characters move.
LEMMA InjectLemma ==
  ASSUME head_idx \in Slots, kernal \in Seq(Chars),
         NEW q \in [Slots -> Chars], NEW pending \in 0 .. QUEUE_SIZE, NEW k \in 0 .. pending,
         queue' = q, Inject(q, pending, k)
  PROVE  /\ head_idx' \in Slots
         /\ num_pending' = pending - k
         /\ kernal' \in Seq(Chars)
         /\ Len(kernal') = Len(kernal) + k
         /\ \A i \in 0 .. pending - k - 1 : At(queue, i)' = At(q, k + i)
<1>1. k \in 0 .. QUEUE_SIZE
  BY Sizes
<1>2. head_idx' = Slot(k) /\ num_pending' = pending - k /\ kernal' = kernal \o First(q, k)
  BY DEF Inject
<1>3. head_idx' \in Slots
  BY <1>1, <1>2, SlotLemma
<1>4. First(q, k) \in Seq(Chars) /\ Len(First(q, k)) = k
  BY <1>1, FirstLemma
<1>5. kernal' \in Seq(Chars) /\ Len(kernal') = Len(kernal) + k
  BY <1>2, <1>4, ConcatProperties
<1>6. ASSUME NEW i \in 0 .. pending - k - 1 PROVE At(queue, i)' = At(q, k + i)
  <2>1. i \in Nat /\ k + i <= QUEUE_SIZE
    BY Sizes
  <2>2. Slot(i)' = Slot(k + i)
    BY <1>1, <1>2, <2>1, SlotShift
  <2> QED BY <2>2 DEF At
<1> QED BY <1>2, <1>3, <1>5, <1>6

-----------------------------------------------------------------------------
(* The invariant.                                                          *)

\* The burst is within the queue and within the Kernal's buffer.
LEMMA BurstLemma ==
  ASSUME NEW pending \in 0 .. QUEUE_SIZE
  PROVE  /\ Burst(pending) \in 0 .. pending
         /\ Burst(pending) <= buffer_size
BY Sizes DEF Burst

\* A flush keeps FlushInv, for any ring in which a delayed RETURN is still
\* the first character.
LEMMA FlushStep ==
  ASSUME FlushInv, NEW q \in [Slots -> Chars], NEW pending \in 0 .. QUEUE_SIZE,
         NEW use \in BOOLEAN,
         alarms # {} => pending > 0 /\ q[head_idx] = RETURN,
         kbdbuf_flush(q, pending, use)
  PROVE  FlushInv'
<1>0. /\ queue \in [Slots -> Chars] /\ head_idx \in Slots /\ num_pending \in 0 .. QUEUE_SIZE
      /\ kernal \in Seq(Chars) /\ alarms \subseteq {"current"}
      /\ kbd_buf_cmdline \in BOOLEAN
  BY DEF FlushInv, FlushTypes, AlarmInv
<1>1. queue' = q /\ use_kbdbuf_flush_alarm' = use
  BY DEF kbdbuf_flush
<1>2. CASE ~CanFlush(pending)
  <2>1. /\ num_pending' = pending
        /\ UNCHANGED <<head_idx, kernal, kbd_buf_cmdline, kbdbuf_flush_alarm_time, alarms>>
    BY <1>2 DEF kbdbuf_flush, delay
  <2>2. FlushTypes'
    <3>1. kbdbuf_flush_alarm_time' \in BOOLEAN
      BY <2>1 DEF FlushInv, FlushTypes
    <3>2. alarms' \subseteq {"current", "old"} /\ kbd_buf_cmdline' \in BOOLEAN
      BY <1>0, <2>1
    <3> QED BY <1>0, <1>1, <2>1, <3>1, <3>2, Zenon DEF FlushTypes
  <2>3. DelayedReturn'
    BY <1>1, <2>1 DEF DelayedReturn
  <2>4. KernalFits' /\ AlarmInv'
    BY <2>1, Zenon DEF FlushInv, KernalFits, AlarmInv
  <2> QED BY <2>2, <2>3, <2>4 DEF FlushInv
<1>3. CASE CanFlush(pending) /\ FlushAll(q, pending, use)
  <2>1. /\ Inject(q, pending, Burst(pending)) /\ kbd_buf_cmdline' = FALSE
        /\ UNCHANGED <<kbdbuf_flush_alarm_time, alarms>>
    BY <1>3 DEF FlushAll, delay
  <2>2. Burst(pending) \in 0 .. pending /\ Burst(pending) <= buffer_size
    BY BurstLemma
  <2>3. /\ head_idx' \in Slots /\ num_pending' = pending - Burst(pending)
        /\ kernal' \in Seq(Chars) /\ Len(kernal') = Len(kernal) + Burst(pending)
    BY <1>0, <1>1, <2>1, <2>2, InjectLemma
  <2>4. num_pending' \in 0 .. QUEUE_SIZE
    BY <2>2, <2>3, Sizes
  <2>5. FlushTypes'
    <3>1. kbdbuf_flush_alarm_time' \in BOOLEAN /\ kbd_buf_cmdline' \in BOOLEAN
      BY <2>1 DEF FlushInv, FlushTypes
    <3>2. alarms' \subseteq {"current", "old"}
      BY <1>0, <2>1
    <3> QED BY <1>1, <2>3, <2>4, <3>1, <3>2, Zenon DEF FlushTypes
  <2>6. alarms = {} /\ alarms' = {}
    BY <1>3, <2>1 DEF CanFlush, FlushInv, AlarmInv
  <2>7. Len(kernal) = 0
    BY <1>3 DEF CanFlush, kbdbuf_is_empty
  <2>8. KernalFits'
    BY <2>2, <2>3, <2>6, <2>7, Sizes DEF KernalFits
  <2>9. DelayedReturn' /\ AlarmInv'
    BY <2>1, <2>6 DEF DelayedReturn, AlarmInv, FlushInv
  <2> QED BY <2>5, <2>8, <2>9 DEF FlushInv
<1>4. CASE CanFlush(pending) /\ FlushDelayed(q, pending, use)
  <2>1. PICK k \in Delayed(q, pending, use) :
          /\ Inject(q, pending, k)
          /\ kbdbuf_flush_alarm_time' = TRUE
          /\ alarms' = alarms \cup {"current"}
          /\ UNCHANGED kbd_buf_cmdline
    BY <1>4 DEF FlushDelayed
  <2>2. k \in 0 .. Burst(pending) - 1 /\ At(q, k) = RETURN
    BY DEF Delayed
  <2>3. k \in 0 .. pending /\ k < pending /\ k + 1 <= buffer_size
    BY <2>2, BurstLemma, Sizes
  <2>4. /\ head_idx' \in Slots /\ num_pending' = pending - k
        /\ kernal' \in Seq(Chars) /\ Len(kernal') = Len(kernal) + k
        /\ \A i \in 0 .. pending - k - 1 : At(queue, i)' = At(q, k + i)
    BY <1>0, <1>1, <2>1, <2>3, InjectLemma
  <2>5. num_pending' \in 0 .. QUEUE_SIZE /\ num_pending' > 0
    BY <2>3, <2>4, Sizes
  <2>6. FlushTypes'
    <3>1. alarms' \subseteq {"current", "old"} /\ kbd_buf_cmdline' \in BOOLEAN
      BY <1>0, <2>1
    <3>2. kbdbuf_flush_alarm_time' \in BOOLEAN
      BY <2>1
    <3> QED BY <1>1, <2>4, <2>5, <3>1, <3>2, Zenon DEF FlushTypes
  <2>7. queue'[head_idx'] = RETURN
    <3>1. 0 \in 0 .. pending - k - 1 /\ k + 0 = k
      BY <2>3, Sizes
    <3>2. At(queue, 0)' = RETURN
      BY <2>2, <2>4, <3>1
    <3>3. Slot(0)' = head_idx'
      <4>1. PICK x \in Nat : x = head_idx' /\ x < QUEUE_SIZE /\ x < 2 * QUEUE_SIZE
        BY <2>4, Sizes DEF Slots
      <4>2. x % QUEUE_SIZE = x
        BY <4>1, ModLemma, Sizes
      <4>3. \A n \in Nat : n + 0 = n
        OBVIOUS
      <4> QED BY <4>1, <4>2, <4>3 DEF Slot
    <3> QED BY <3>2, <3>3 DEF At
  <2>8. DelayedReturn'
    BY <2>5, <2>7 DEF DelayedReturn
  <2>9. AlarmInv'
    BY <1>0, <2>1 DEF AlarmInv
  <2>10. KernalFits'
    <3>1. Len(kernal) = 0
      BY <1>4 DEF CanFlush, kbdbuf_is_empty
    <3>2. alarms' # {}
      BY <2>1
    <3> QED BY <2>3, <2>4, <3>1, <3>2, Sizes DEF KernalFits
  <2> QED BY <2>6, <2>8, <2>9, <2>10 DEF FlushInv
<1> QED BY <1>2, <1>3, <1>4 DEF kbdbuf_flush

\* Feeding a text keeps FlushInv, whether it is stored or rejected.
LEMMA StringStep ==
  ASSUME FlushInv, NEW s \in Strings, NEW use \in BOOLEAN, string_to_queue(s, use)
  PROVE  FlushInv'
<1>0. /\ queue \in [Slots -> Chars] /\ head_idx \in Slots /\ num_pending \in 0 .. QUEUE_SIZE
      /\ s \in Seq(Chars) /\ Len(s) \in Nat
  BY KbdBufAssumption DEF FlushInv, FlushTypes
<1>1. CASE /\ num_pending + Len(s) <= QUEUE_SIZE
           /\ kbdbuf_flush(Stored(s), num_pending + Len(s), use)
  <2>1. /\ Stored(s) \in [Slots -> Chars]
        /\ \A i \in 0 .. num_pending - 1 : At(Stored(s), i) = At(queue, i)
    BY <1>0, <1>1, StoredLemma
  <2>2. num_pending + Len(s) \in 0 .. QUEUE_SIZE
    BY <1>0, <1>1, Sizes
  <2>3. ASSUME alarms # {}
        PROVE  num_pending + Len(s) > 0 /\ Stored(s)[head_idx] = RETURN
    <3>1. num_pending > 0 /\ queue[head_idx] = RETURN
      BY <2>3 DEF FlushInv, DelayedReturn
    <3>2. 0 \in 0 .. num_pending - 1
      BY <1>0, <3>1
    <3>3. At(Stored(s), 0) = At(queue, 0)
      BY <2>1, <3>2
    <3>4. Slot(0) = head_idx
      BY <1>0, SlotZero
    <3> QED BY <1>0, <3>1, <3>3, <3>4 DEF At
  <2> QED BY <1>1, <2>1, <2>2, <2>3, FlushStep
<1>2. CASE /\ use_kbdbuf_flush_alarm' = use
           /\ UNCHANGED <<ring, delay, kbd_buf_cmdline, kernal>>
  <2>1. FlushTypes'
    BY <1>2, Zenon DEF FlushInv, FlushTypes, ring, delay
  <2>2. DelayedReturn' /\ KernalFits' /\ AlarmInv'
    BY <1>2, Zenon DEF FlushInv, DelayedReturn, KernalFits, AlarmInv, ring, delay
  <2> QED BY <2>1, <2>2 DEF FlushInv
<1> QED BY <1>1, <1>2 DEF string_to_queue

\* FlushInv only looks at the variables that a flush changes.
LEMMA FlushQuiet ==
  FlushInv /\ UNCHANGED <<ring, delay, kbd_buf_cmdline, use_kbdbuf_flush_alarm, kernal>>
    => FlushInv'
<1> SUFFICES ASSUME FlushInv, UNCHANGED <<ring, delay, kbd_buf_cmdline,
                                          use_kbdbuf_flush_alarm, kernal>>
             PROVE  FlushInv'
  OBVIOUS
<1>1. FlushTypes'
  BY Zenon DEF FlushInv, FlushTypes, ring, delay
<1>2. DelayedReturn' /\ KernalFits' /\ AlarmInv'
  BY Zenon DEF FlushInv, DelayedReturn, KernalFits, AlarmInv, ring, delay
<1> QED BY <1>1, <1>2 DEF FlushInv

\* The invariant holds when kbdbuf_init() has run.
LEMMA KbdInit == Init => KbdInv
<1> SUFFICES ASSUME Init PROVE KbdInv
  OBVIOUS
<1>1. /\ kbd_buf_string \in Seq(Chars) /\ Len(kbd_buf_string) \in 0 .. QUEUE_SIZE
      /\ kbd_buf_string \in Strings \cup {NULL}
  <2>1. CASE kbd_buf_string = NULL
    BY <2>1, Sizes, EmptySeq DEF NULL
  <2>2. CASE kbd_buf_string \in Strings
    BY <2>2, KbdBufAssumption
  <2> QED BY <2>1, <2>2 DEF Init
<1>2. num_pending \in 0 .. QUEUE_SIZE /\ num_pending <= Len(kbd_buf_string)
  BY <1>1, Sizes DEF Init
<1>3. queue \in [Slots -> Chars]
  <2>1. ASSUME NEW i \in Slots, i < num_pending PROVE kbd_buf_string[i + 1] \in Chars
    <3>1. i + 1 \in 1 .. Len(kbd_buf_string)
      BY <1>1, <1>2, <2>1, Sizes DEF Slots
    <3> QED BY <1>1, <3>1, ElementOfSeq
  <2>2. queue = [i \in Slots |-> IF i < num_pending THEN kbd_buf_string[i + 1] ELSE 0]
    BY DEF Init
  <2>3. 0 \in Chars
    BY DEF Chars
  <2> QED BY <2>1, <2>2, <2>3
<1>4. head_idx \in Slots
  BY Sizes DEF Init, Slots
<1>5. kernal \in Seq(Chars) /\ Len(kernal) = 0
  BY EmptySeq DEF Init
<1>6. kbd_buf_cmdline \in BOOLEAN
  BY DEF Init
<1>7. use_kbdbuf_flush_alarm \in BOOLEAN
  BY DEF Init
<1>8. FlushTypes
  BY <1>2, <1>3, <1>4, <1>5, <1>6, <1>7, Zenon DEF Init, FlushTypes
<1>9. DelayedReturn /\ AlarmInv
  BY DEF Init, DelayedReturn, AlarmInv
<1>10. KernalFits
  BY <1>5, Sizes DEF Init, KernalFits
<1>11. feeds \in 0 .. MAX_FEEDS /\ resets \in 0 .. MAX_RESETS
  BY KbdBufAssumption DEF Init
<1>12. RestTypes
  BY <1>1, <1>11, Zenon DEF Init, RestTypes
<1> QED BY <1>8, <1>9, <1>10, <1>12 DEF KbdInv, FlushInv

\* Every feed keeps the invariant.
LEMMA FeedStep == KbdInv /\ Feeds => KbdInv'
<1> SUFFICES ASSUME KbdInv, Feeds PROVE KbdInv'
  OBVIOUS
<1>0. FlushInv /\ RestTypes
  BY DEF KbdInv
<1>1. ASSUME NEW s \in Strings, NEW use \in BOOLEAN, Fed, string_to_queue(s, use),
             kbd_buf_string' \in Strings \cup {NULL}
      PROVE  KbdInv'
  <2>1. FlushInv'
    BY <1>0, <1>1, StringStep
  <2>2. feeds' \in 0 .. MAX_FEEDS
    BY <1>0, <1>1, KbdBufAssumption DEF Fed, RestTypes
  <2>3. RestTypes'
    BY <1>0, <1>1, <2>2, Zenon DEF Fed, RestTypes
  <2> QED BY <2>1, <2>3 DEF KbdInv
<1>2. kbd_buf_string \in Strings \cup {NULL} /\ KbdbufDelay \in BOOLEAN
  BY <1>0 DEF RestTypes
<1>3. ASSUME NEW s \in Strings, kbdbuf_feed(s) \/ kbdbuf_feed_runcmd(s)
      PROVE  KbdInv'
  <2>1. Fed /\ kbd_buf_string' \in Strings \cup {NULL}
    BY <1>2, <1>3 DEF kbdbuf_feed, kbdbuf_feed_runcmd
  <2>2. PICK use \in BOOLEAN : string_to_queue(s, use)
    BY <1>3, Zenon DEF kbdbuf_feed, kbdbuf_feed_runcmd
  <2> QED BY <1>1, <2>1, <2>2
<1>4. ASSUME NEW s \in Strings, kbdbuf_feed_string(s)
      PROVE  KbdInv'
  <2>1. Fed /\ kbd_buf_string' \in Strings \cup {NULL} /\ string_to_queue(s, FALSE)
    BY <1>4 DEF kbdbuf_feed_string
  <2> QED BY <1>1, <2>1
<1>5. ASSUME kbdbuf_feed_cmdline
      PROVE  KbdInv'
  <2>1. /\ Fed /\ kbd_buf_string' \in Strings \cup {NULL} /\ kbd_buf_string \in Strings
        /\ string_to_queue(kbd_buf_string, KbdbufDelay)
    BY <1>2, <1>5 DEF kbdbuf_feed_cmdline
  <2> QED BY <1>1, <1>2, <2>1
<1> QED BY <1>3, <1>4, <1>5 DEF Feeds

\* So do frames, the alarm and the Kernal.
LEMMA RunStep == KbdInv /\ Runs => KbdInv'
<1> SUFFICES ASSUME KbdInv, Runs PROVE KbdInv'
  OBVIOUS
<1>0. FlushInv /\ RestTypes
  BY DEF KbdInv
<1>1. /\ queue \in [Slots -> Chars] /\ head_idx \in Slots /\ num_pending \in 0 .. QUEUE_SIZE
      /\ kernal \in Seq(Chars) /\ use_kbdbuf_flush_alarm \in BOOLEAN
  BY <1>0 DEF FlushInv, FlushTypes
<1>2. CASE VsyncFlush
  <2>1. FlushInv'
    <3>1. kbdbuf_flush(queue, num_pending, use_kbdbuf_flush_alarm)
      BY <1>2 DEF VsyncFlush
    <3>2. alarms # {} => num_pending > 0 /\ queue[head_idx] = RETURN
      BY <1>0 DEF FlushInv, DelayedReturn
    <3> QED BY <1>0, <1>1, <3>1, <3>2, FlushStep
  <2>2. RestTypes'
    BY <1>0, <1>2, Zenon DEF VsyncFlush, RestTypes, rest
  <2> QED BY <2>1, <2>2 DEF KbdInv
<1>3. CASE kbdbuf_flush_alarm_triggered
  <2>1. num_pending > 0 /\ alarms # {} /\ alarms' = {}
    BY <1>0, <1>3 DEF kbdbuf_flush_alarm_triggered, FlushInv, DelayedReturn, AlarmInv
  <2>2. num_pending' \in 0 .. QUEUE_SIZE
    BY <1>1, <1>3, <2>1, Sizes DEF kbdbuf_flush_alarm_triggered
  <2>3. head_idx' \in Slots
    <3>1. 1 \in 0 .. QUEUE_SIZE
      BY Sizes
    <3> QED BY <1>1, <1>3, <3>1, SlotLemma DEF kbdbuf_flush_alarm_triggered
  <2>4. kernal' \in Seq(Chars) /\ Len(kernal') = Len(kernal) + 1
    <3>1. RETURN \in Chars
      BY DEF RETURN, Chars
    <3>2. kernal' = Append(kernal, RETURN)
      BY <1>3 DEF kbdbuf_flush_alarm_triggered
    <3> QED BY <1>1, <3>1, <3>2
  <2>5. /\ queue' = queue /\ kbd_buf_cmdline' = kbd_buf_cmdline
        /\ use_kbdbuf_flush_alarm' = use_kbdbuf_flush_alarm
        /\ kbdbuf_flush_alarm_time' = FALSE
    BY <1>3 DEF kbdbuf_flush_alarm_triggered
  <2>6. FlushTypes'
    <3>1. alarms' \subseteq {"current", "old"} /\ kbdbuf_flush_alarm_time' \in BOOLEAN
      BY <2>1, <2>5
    <3>2. kbd_buf_cmdline' \in BOOLEAN /\ use_kbdbuf_flush_alarm' \in BOOLEAN
      BY <1>0, <2>5, Zenon DEF FlushInv, FlushTypes
    <3>3. queue' \in [Slots -> Chars]
      BY <1>1, <2>5
    <3> QED BY <2>2, <2>3, <2>4, <3>1, <3>2, <3>3, Zenon DEF FlushTypes
  <2>7. DelayedReturn' /\ AlarmInv'
    BY <2>1, <2>5 DEF DelayedReturn, AlarmInv
  <2>8. KernalFits'
    <3>1. Len(kernal) + 1 <= buffer_size
      BY <1>0, <2>1 DEF FlushInv, KernalFits
    <3> QED BY <2>1, <2>4, <3>1, <1>1, Sizes DEF KernalFits
  <2>9. RestTypes'
    BY <1>0, <1>3, Zenon DEF kbdbuf_flush_alarm_triggered, RestTypes, rest
  <2> QED BY <2>6, <2>7, <2>8, <2>9 DEF KbdInv, FlushInv
<1>4. ASSUME KernalStarts \/ KernalTakes PROVE KbdInv'
  <2>1. kernal' \in Seq(Chars) /\ Len(kernal') <= Len(kernal) /\ Len(kernal') \in Nat
    <3>1. CASE KernalStarts
      BY <1>1, <3>1, EmptySeq DEF KernalStarts
    <3>2. CASE KernalTakes
      <4>1. kernal # <<>> /\ kernal' = Tail(kernal)
        BY <3>2 DEF KernalTakes
      <4> QED BY <1>1, <4>1, HeadTailProperties
    <3> QED BY <1>4, <3>1, <3>2
  <2>2. UNCHANGED <<ring, delay, kbd_buf_cmdline, use_kbdbuf_flush_alarm>>
    BY <1>4 DEF KernalStarts, KernalTakes
  <2>3. KernalFits'
    <3>1. CASE alarms = {}
      BY <1>0, <1>1, <2>1, <2>2, <3>1, Sizes DEF FlushInv, KernalFits, delay
    <3>2. CASE alarms # {}
      BY <1>0, <1>1, <2>1, <2>2, <3>2, Sizes DEF FlushInv, KernalFits, delay
    <3> QED BY <3>1, <3>2
  <2>4. FlushTypes' /\ DelayedReturn' /\ AlarmInv'
    BY <1>0, <2>1, <2>2, Zenon DEF FlushInv, FlushTypes, DelayedReturn, AlarmInv, ring, delay
  <2>5. RestTypes'
    BY <1>0, <1>4, Zenon DEF KernalStarts, KernalTakes, RestTypes, rest
  <2> QED BY <2>3, <2>4, <2>5 DEF KbdInv, FlushInv
<1> QED BY <1>2, <1>3, <1>4 DEF Runs

\* So do resets and ROM changes while no RETURN is delayed.
LEMMA ResetStep == KbdInv /\ alarms = {} /\ (machine_reset \/ kbdbuf_init) => KbdInv'
<1> SUFFICES ASSUME KbdInv, alarms = {}, machine_reset \/ kbdbuf_init PROVE KbdInv'
  OBVIOUS
<1>0. FlushInv /\ RestTypes
  BY DEF KbdInv
<1>1. resets' \in 0 .. MAX_RESETS
  BY <1>0, KbdBufAssumption DEF RestTypes, machine_reset, kbdbuf_init
<1>2. num_pending' \in 0 .. QUEUE_SIZE /\ alarms' = {}
  BY <1>0, Sizes DEF FlushInv, FlushTypes, machine_reset, kbdbuf_init, ring, delay
<1>3. UNCHANGED <<queue, head_idx, kbd_buf_cmdline, use_kbdbuf_flush_alarm,
                  kbdbuf_flush_alarm_time, kernal>>
  BY DEF machine_reset, kbdbuf_init, ring, delay
<1>4. FlushTypes'
  <2>1. alarms' \subseteq {"current", "old"}
    BY <1>2
  <2> QED BY <1>0, <1>2, <1>3, <2>1, Zenon DEF FlushInv, FlushTypes
<1>5. DelayedReturn' /\ AlarmInv' /\ KernalFits'
  BY <1>0, <1>2, <1>3 DEF FlushInv, DelayedReturn, AlarmInv, KernalFits
<1>6. RestTypes'
  <2>1. CASE machine_reset
    BY <1>0, <1>1, <2>1, Zenon DEF RestTypes, machine_reset
  <2>2. CASE kbdbuf_init
    BY <1>0, <1>1, <2>2, Zenon DEF RestTypes, kbdbuf_init
  <2> QED BY <2>1, <2>2
<1> QED BY <1>4, <1>5, <1>6 DEF KbdInv, FlushInv

\* The invariant of the queue and its alarm.
THEOREM KbdBufInductive == Spec => []KbdInv
<1>1. KbdInv /\ [Next]_vars => KbdInv'
  <2> SUFFICES ASSUME KbdInv, [Next]_vars PROVE KbdInv'
    OBVIOUS
  <2>1. CASE UNCHANGED vars
    <3>1. FlushInv'
      BY <2>1, FlushQuiet DEF KbdInv, vars
    <3>2. RestTypes'
      BY <2>1, Zenon DEF KbdInv, RestTypes, vars, rest
    <3> QED BY <3>1, <3>2 DEF KbdInv
  <2> QED BY <2>1, FeedStep, RunStep, ResetStep DEF Next
<1> QED BY <1>1, KbdInit, PTL DEF Spec

\* For queues and texts of any size: the count stays within the queue, the
\* alarm always finds the RETURN it stands for at the head, and the Kernal's
\* buffer is never overrun.
THEOREM KbdBufSafe == Spec => [](TypeOK /\ DelayedReturn /\ KernalFits)
<1>1. KbdInv => TypeOK /\ DelayedReturn /\ KernalFits
  BY Zenon DEF KbdInv, FlushInv, FlushTypes, RestTypes, TypeOK
<1> QED BY <1>1, KbdBufInductive, PTL

\* kbdbuf_flush() checks the Kernal's count once and then writes a burst: the
\* burst never goes beyond the Kernal's buffer.
THEOREM KernalBufferFits == Spec => []KernalFits
BY KbdBufSafe, PTL

-----------------------------------------------------------------------------
(* The queue implements KbdBufSpec.                                        *)

\* What Inject() does to the sequences: the first k characters move.
LEMMA InjectMoves ==
  ASSUME head_idx \in Slots, kernal \in Seq(Chars),
         NEW q \in [Slots -> Chars], NEW pending \in 0 .. QUEUE_SIZE, NEW k \in 0 .. pending,
         queue' = q, Inject(q, pending, k)
  PROVE  /\ kernal' = kernal \o SubSeq(First(q, pending), 1, k)
         /\ Waiting' = SubSeq(First(q, pending), k + 1, pending)
<1> DEFINE all == First(q, pending)
<1>1. k \in 0 .. QUEUE_SIZE /\ pending \in Int /\ k \in Int
  BY Sizes
<1>2. all \in Seq(Chars) /\ Len(all) = pending /\ \A i \in 1 .. pending : all[i] = At(q, i - 1)
  BY FirstLemma
<1>3. \A i \in 1 .. pending : all[i] \in Chars
  BY <1>2, ElementOfSeq
<1> HIDE DEF all
<1>4. First(q, k) = SubSeq(all, 1, k)
  <2>1. /\ First(q, k) \in Seq(Chars) /\ Len(First(q, k)) = k
        /\ \A i \in 1 .. k : First(q, k)[i] = At(q, i - 1)
    BY <1>1, FirstLemma
  <2>2. \A i \in 1 .. k : all[i] \in Chars
    BY <1>1, <1>3
  <2>3. /\ SubSeq(all, 1, k) \in Seq(Chars)
        /\ Len(SubSeq(all, 1, k)) = IF 1 <= k THEN k - 1 + 1 ELSE 0
        /\ \A i \in 1 .. k - 1 + 1 : SubSeq(all, 1, k)[i] = all[1 + i - 1]
    BY <1>1, <2>2, SubSeqProperties
  <2>4. Len(SubSeq(all, 1, k)) = k /\ \A i \in 1 .. k : SubSeq(all, 1, k)[i] = all[i]
    BY <1>1, <2>3
  <2>5. \A i \in 1 .. k : First(q, k)[i] = SubSeq(all, 1, k)[i]
    BY <1>1, <1>2, <2>1, <2>4
  <2> QED BY <2>1, <2>3, <2>4, <2>5, SeqEqual
<1>5. Waiting' = SubSeq(all, k + 1, pending)
  <2>1. /\ head_idx' \in Slots /\ num_pending' = pending - k
        /\ \A i \in 0 .. pending - k - 1 : At(queue, i)' = At(q, k + i)
    BY InjectLemma
  <2>2. pending - k \in Nat
    BY <1>1
  <2>3. Waiting' = [i \in 1 .. pending - k |-> At(queue, i - 1)']
    BY <2>1 DEF Waiting, First
  <2>4. ASSUME NEW i \in 1 .. pending - k
        PROVE  At(queue, i - 1)' = all[k + i] /\ k + i \in 1 .. pending
    <3>1. i - 1 \in 0 .. pending - k - 1 /\ k + i \in 1 .. pending /\ k + (i - 1) = (k + i) - 1
      BY <1>1
    <3>2. At(queue, i - 1)' = At(q, k + (i - 1))
      BY <2>1, <3>1
    <3>3. all[k + i] = At(q, (k + i) - 1)
      BY <1>2, <3>1
    <3> QED BY <3>1, <3>2, <3>3
  <2>5. Waiting' = [i \in 1 .. pending - k |-> all[k + i]]
    BY <2>3, <2>4
  <2>6. Waiting' \in [1 .. pending - k -> Chars]
    BY <1>3, <2>4, <2>5
  <2>7. Waiting' \in Seq(Chars) /\ Len(Waiting') = pending - k
    <3>1. Waiting' \in Seq(Chars)
      BY <2>2, <2>6, SeqDef
    <3> QED BY <2>2, <2>6, <3>1, LenProperties
  <2>8. \A i \in k + 1 .. pending : all[i] \in Chars
    BY <1>1, <1>3
  <2>9. /\ SubSeq(all, k + 1, pending) \in Seq(Chars)
        /\ Len(SubSeq(all, k + 1, pending)) =
             IF k + 1 <= pending THEN pending - (k + 1) + 1 ELSE 0
        /\ \A i \in 1 .. pending - (k + 1) + 1 :
             SubSeq(all, k + 1, pending)[i] = all[(k + 1) + i - 1]
    <3>1. k + 1 \in Int
      BY <1>1
    <3> QED BY <1>1, <2>8, <3>1, SubSeqProperties
  <2>10. /\ Len(SubSeq(all, k + 1, pending)) = pending - k
         /\ \A i \in 1 .. pending - k : SubSeq(all, k + 1, pending)[i] = all[k + i]
    BY <1>1, <2>9
  <2>11. \A i \in 1 .. pending - k : Waiting'[i] = SubSeq(all, k + 1, pending)[i]
    BY <2>5, <2>10
  <2> QED BY <2>7, <2>9, <2>10, <2>11, SeqEqual
<1>6. kernal' = kernal \o SubSeq(all, 1, k)
  BY <1>4 DEF Inject
<1> QED BY <1>5, <1>6 DEF all

\* A flush moves some of the characters that wait, in order.
LEMMA FlushMoves ==
  ASSUME head_idx \in Slots, kernal \in Seq(Chars),
         NEW q \in [Slots -> Chars], NEW pending \in 0 .. QUEUE_SIZE, NEW use,
         kbdbuf_flush(q, pending, use)
  PROVE  \E k \in 0 .. pending :
           /\ kernal' = kernal \o SubSeq(First(q, pending), 1, k)
           /\ Waiting' = SubSeq(First(q, pending), k + 1, pending)
<1>1. queue' = q
  BY DEF kbdbuf_flush
<1>2. Burst(pending) \in 0 .. pending
  BY BurstLemma
<1>3. ASSUME NEW k \in 0 .. pending, Inject(q, pending, k)
      PROVE  \E m \in 0 .. pending :
               /\ kernal' = kernal \o SubSeq(First(q, pending), 1, m)
               /\ Waiting' = SubSeq(First(q, pending), m + 1, pending)
  BY <1>1, <1>3, InjectMoves
<1>4. CASE FlushAll(q, pending, use)
  BY <1>2, <1>3, <1>4 DEF FlushAll
<1>5. CASE FlushDelayed(q, pending, use)
  <2>1. PICK k \in Delayed(q, pending, use) : Inject(q, pending, k)
    BY <1>5 DEF FlushDelayed
  <2>2. k \in 0 .. pending
    <3>1. k \in 0 .. Burst(pending) - 1
      BY DEF Delayed
    <3> QED BY <1>2, <3>1, Sizes
  <2> QED BY <1>3, <2>1, <2>2
<1>6. CASE num_pending' = pending /\ UNCHANGED <<head_idx, kernal>>
  <2> DEFINE all == First(q, pending)
  <2>1. all \in Seq(Chars) /\ Len(all) = pending /\ pending \in Nat
    BY FirstLemma, Sizes
  <2>2. Waiting' = all
    BY <1>1, <1>6 DEF Waiting, First, At, Slot
  <2> HIDE DEF all
  <2>3. SubSeq(all, 1, 0) = <<>>
    BY SubSeqEmpty
  <2>4. SubSeq(all, 0 + 1, pending) = all
    BY <2>1, SubSeqFull
  <2>5. kernal \o <<>> = kernal
    BY ConcatEmptySeq
  <2>6. 0 \in 0 .. pending
    BY <2>1
  <2> QED BY <1>6, <2>2, <2>3, <2>4, <2>5, <2>6 DEF all
<1> QED BY <1>4, <1>5, <1>6 DEF kbdbuf_flush

\* The ring after string_to_queue() has stored a text: what waited, followed
\* by the text.
LEMMA StoredMoves ==
  ASSUME queue \in [Slots -> Chars], head_idx \in Slots, num_pending \in 0 .. QUEUE_SIZE,
         NEW s \in Strings, num_pending + Len(s) <= QUEUE_SIZE
  PROVE  /\ First(Stored(s), num_pending + Len(s)) = Waiting \o s
         /\ Len(Waiting \o s) = num_pending + Len(s)
<1> DEFINE n == num_pending + Len(s)
<1>1. s \in Seq(Chars) /\ Len(s) \in Nat /\ num_pending \in Nat
  BY KbdBufAssumption, Sizes
<1>2. n \in 0 .. QUEUE_SIZE
  BY <1>1, Sizes
<1>3. /\ Stored(s) \in [Slots -> Chars]
      /\ \A i \in 0 .. num_pending - 1 : At(Stored(s), i) = At(queue, i)
      /\ \A i \in 1 .. Len(s) : At(Stored(s), num_pending + i - 1) = s[i]
  BY StoredLemma
<1>4. /\ First(Stored(s), n) \in Seq(Chars) /\ Len(First(Stored(s), n)) = n
      /\ \A i \in 1 .. n : First(Stored(s), n)[i] = At(Stored(s), i - 1)
  BY <1>2, <1>3, FirstLemma
<1>5. /\ Waiting \in Seq(Chars) /\ Len(Waiting) = num_pending
      /\ \A i \in 1 .. num_pending : Waiting[i] = At(queue, i - 1)
  BY FirstLemma DEF Waiting
<1>6. /\ Waiting \o s \in Seq(Chars) /\ Len(Waiting \o s) = Len(Waiting) + Len(s)
      /\ \A i \in 1 .. Len(Waiting) + Len(s) :
           (Waiting \o s)[i] = IF i <= Len(Waiting) THEN Waiting[i] ELSE s[i - Len(Waiting)]
  BY <1>1, <1>5, ConcatProperties
<1>7. ASSUME NEW i \in 1 .. n PROVE First(Stored(s), n)[i] = (Waiting \o s)[i]
  <2>1. CASE i <= num_pending
    <3>1. i - 1 \in 0 .. num_pending - 1 /\ i \in 1 .. num_pending
      BY <1>1, <2>1
    <3> QED BY <1>3, <1>4, <1>5, <1>6, <2>1, <3>1
  <2>2. CASE ~(i <= num_pending)
    <3> DEFINE j == i - num_pending
    <3>1. j \in 1 .. Len(s) /\ num_pending + j - 1 = i - 1
      BY <1>1, <2>2
    <3>2. At(Stored(s), i - 1) = s[j]
      BY <1>3, <3>1
    <3> QED BY <1>4, <1>5, <1>6, <2>2, <3>2
  <2> QED BY <2>1, <2>2
<1>8. Len(Waiting \o s) = n
  BY <1>5, <1>6
<1> HIDE DEF n
<1>9. First(Stored(s), n) = Waiting \o s
  BY <1>4, <1>6, <1>7, <1>8, SeqEqual
<1> QED BY <1>8, <1>9 DEF n

\* Feeding a text is a Move of KbdBufSpec, or nothing if it is rejected.
LEMMA StringMoves ==
  ASSUME KbdInv, NEW s \in Strings, NEW use, string_to_queue(s, use)
  PROVE  Fifo!Move \/ UNCHANGED <<Waiting, kernal>>
<1>0. /\ queue \in [Slots -> Chars] /\ head_idx \in Slots /\ num_pending \in 0 .. QUEUE_SIZE
      /\ kernal \in Seq(Chars) /\ Len(s) \in Nat
  BY KbdBufAssumption DEF KbdInv, FlushInv, FlushTypes
<1>1. CASE /\ num_pending + Len(s) <= QUEUE_SIZE
           /\ kbdbuf_flush(Stored(s), num_pending + Len(s), use)
  <2> DEFINE n == num_pending + Len(s)
  <2>1. n \in 0 .. QUEUE_SIZE /\ Stored(s) \in [Slots -> Chars]
    BY <1>0, <1>1, StoredLemma, Sizes
  <2>2. PICK k \in 0 .. n : /\ kernal' = kernal \o SubSeq(First(Stored(s), n), 1, k)
                            /\ Waiting' = SubSeq(First(Stored(s), n), k + 1, n)
    BY <1>0, <1>1, <2>1, FlushMoves
  <2>3. First(Stored(s), n) = Waiting \o s /\ Len(Waiting \o s) = n
    BY <1>0, <1>1, StoredMoves
  <2>4. Fifo!Move
    BY <2>2, <2>3 DEF Fifo!Move
  <2> QED BY <2>4
<1>2. CASE UNCHANGED <<ring, kernal>>
  BY <1>2 DEF ring, Waiting, First, At, Slot
<1> QED BY <1>1, <1>2 DEF string_to_queue

\* A flush at the end of a frame, and the alarm, are Moves without a text.
LEMMA RunMoves ==
  ASSUME KbdInv, VsyncFlush \/ kbdbuf_flush_alarm_triggered
  PROVE  Fifo!Move
<1>0. /\ queue \in [Slots -> Chars] /\ head_idx \in Slots /\ num_pending \in 0 .. QUEUE_SIZE
      /\ kernal \in Seq(Chars)
  BY DEF KbdInv, FlushInv, FlushTypes
<1>1. Waiting \in Seq(Chars) /\ Len(Waiting) = num_pending
  BY <1>0, FirstLemma DEF Waiting
<1>2. Waiting \o <<>> = Waiting
  BY <1>1, ConcatEmptySeq
<1>3. ASSUME NEW k \in 0 .. num_pending,
             kernal' = kernal \o SubSeq(Waiting, 1, k),
             Waiting' = SubSeq(Waiting, k + 1, num_pending)
      PROVE  Fifo!Move
  BY <1>1, <1>2, <1>3 DEF Fifo!Move
<1>4. CASE VsyncFlush
  <2>1. kbdbuf_flush(queue, num_pending, use_kbdbuf_flush_alarm)
    BY <1>4 DEF VsyncFlush
  <2>2. PICK k \in 0 .. num_pending :
          /\ kernal' = kernal \o SubSeq(First(queue, num_pending), 1, k)
          /\ Waiting' = SubSeq(First(queue, num_pending), k + 1, num_pending)
    BY <1>0, <2>1, FlushMoves
  <2> QED BY <1>3, <2>2 DEF Waiting
<1>5. CASE kbdbuf_flush_alarm_triggered
  <2>1. num_pending > 0 /\ queue[head_idx] = RETURN
    BY <1>5 DEF kbdbuf_flush_alarm_triggered, KbdInv, FlushInv, DelayedReturn
  <2>2. 1 \in 0 .. num_pending /\ 1 \in 0 .. QUEUE_SIZE /\ 1 \in 1 .. 1 /\ 1 - 1 = 0
    BY <1>0, <2>1, Sizes
  <2>3. First(queue, 1) = <<RETURN>>
    <3>1. /\ First(queue, 1) \in Seq(Chars) /\ Len(First(queue, 1)) = 1
          /\ First(queue, 1)[1] = At(queue, 1 - 1)
      BY <1>0, <2>2, FirstLemma
    <3>2. At(queue, 0) = RETURN
      BY <1>0, <2>1, SlotZero DEF At
    <3>3. First(queue, 1)[1] = RETURN
      BY <2>2, <3>1, <3>2
    <3>4. <<RETURN>> \in Seq(Chars) /\ Len(<<RETURN>>) = 1 /\ <<RETURN>>[1] = RETURN
      BY DEF RETURN, Chars
    <3>5. \A i \in 1 .. Len(First(queue, 1)) : First(queue, 1)[i] = <<RETURN>>[i]
      BY <3>1, <3>3, <3>4
    <3> QED BY <3>1, <3>4, <3>5, SeqEqual
  <2>4. Append(kernal, RETURN) = kernal \o <<RETURN>>
    BY <1>0 DEF RETURN
  <2>5. Inject(queue, num_pending, 1) /\ queue' = queue
    BY <1>5, <2>3, <2>4 DEF kbdbuf_flush_alarm_triggered, Inject
  <2>6. /\ kernal' = kernal \o SubSeq(First(queue, num_pending), 1, 1)
        /\ Waiting' = SubSeq(First(queue, num_pending), 1 + 1, num_pending)
    BY <1>0, <2>2, <2>5, InjectMoves
  <2> QED BY <1>3, <2>2, <2>6 DEF Waiting
<1> QED BY <1>4, <1>5

\* For queues and texts of any size, the ring with its bursts and its delayed
\* RETURN delivers what was fed as a queue should, if no reset comes while a
\* RETURN is delayed.
THEOREM KbdBufRefinement == Spec => RefinesFifo
<1>1. Init => Fifo!Init
  <2> SUFFICES ASSUME Init PROVE Fifo!Init
    OBVIOUS
  <2>1. /\ queue \in [Slots -> Chars] /\ head_idx = 0 /\ head_idx \in Slots
        /\ num_pending \in 0 .. QUEUE_SIZE /\ num_pending \in Nat
    BY KbdInit, Sizes DEF Init, KbdInv, FlushInv, FlushTypes
  <2>2. /\ Waiting \in Seq(Chars) /\ Len(Waiting) = num_pending
        /\ \A i \in 1 .. num_pending : Waiting[i] = At(queue, i - 1)
    BY <2>1, FirstLemma DEF Waiting
  <2>3. CASE num_pending = 0
    <3>1. Waiting = <<>>
      BY <2>2, <2>3, EmptySeq
    <3> QED BY <3>1 DEF Init, Fifo!Init
  <2>4. CASE num_pending # 0
    <3>1. num_pending = Len(kbd_buf_string) /\ kbd_buf_string \in Strings
      BY <2>4, EmptySeq DEF Init, NULL
    <3>2. kbd_buf_string \in Seq(Chars)
      BY <3>1, KbdBufAssumption
    <3>3. ASSUME NEW i \in 1 .. num_pending PROVE Waiting[i] = kbd_buf_string[i]
      <4>1. i - 1 \in 0 .. QUEUE_SIZE /\ i - 1 \in Slots /\ i - 1 < num_pending /\ (i - 1) + 1 = i
        BY <2>1, Sizes DEF Slots
      <4>2. Slot(i - 1) = i - 1
        <5>1. 0 + (i - 1) < QUEUE_SIZE /\ 0 + (i - 1) = i - 1
          BY <2>1, Sizes
        <5> QED BY <2>1, <4>1, <5>1, SlotLemma
      <4>3. queue[i - 1] = kbd_buf_string[(i - 1) + 1]
        BY <4>1 DEF Init
      <4> QED BY <2>2, <4>1, <4>2, <4>3 DEF At
    <3>4. Waiting = kbd_buf_string
      BY <2>2, <3>1, <3>2, <3>3, SeqEqual
    <3> QED BY <3>1, <3>4 DEF Init, Fifo!Init
  <2> QED BY <2>3, <2>4
<1>2. KbdInv /\ [Next]_vars => [Fifo!Next]_<<Waiting, kernal>>
  <2> SUFFICES ASSUME KbdInv, [Next]_vars
               PROVE  Fifo!Next \/ UNCHANGED <<Waiting, kernal>>
    OBVIOUS
  <2>1. CASE UNCHANGED vars
    BY <2>1 DEF vars, ring, Waiting, First, At, Slot
  <2>2. CASE Feeds
    <3>1. ASSUME NEW s \in Strings,
                 kbdbuf_feed(s) \/ kbdbuf_feed_runcmd(s) \/ kbdbuf_feed_string(s)
          PROVE  Fifo!Move \/ UNCHANGED <<Waiting, kernal>>
      BY <3>1, StringMoves DEF kbdbuf_feed, kbdbuf_feed_runcmd, kbdbuf_feed_string
    <3>2. ASSUME kbdbuf_feed_cmdline
          PROVE  Fifo!Move \/ UNCHANGED <<Waiting, kernal>>
      <4>1. kbd_buf_string \in Strings
        BY <3>2 DEF kbdbuf_feed_cmdline, KbdInv, RestTypes
      <4> QED BY <3>2, <4>1, StringMoves DEF kbdbuf_feed_cmdline
    <3> QED BY <2>2, <3>1, <3>2 DEF Feeds, Fifo!Next
  <2>3. CASE VsyncFlush \/ kbdbuf_flush_alarm_triggered
    BY <2>3, RunMoves DEF Fifo!Next
  <2>4. CASE KernalStarts
    BY <2>4 DEF KernalStarts, Fifo!Next, Fifo!KernalClears, ring, Waiting, First, At, Slot
  <2>5. CASE KernalTakes
    BY <2>5 DEF KernalTakes, Fifo!Next, Fifo!KernalTakes, ring, Waiting, First, At, Slot
  <2>6. CASE machine_reset
    <3>1. CASE kbd_buf_cmdline
      BY <2>6, <3>1 DEF machine_reset, Waiting, First, At, Slot
    <3>2. CASE ~kbd_buf_cmdline
      <4>1. num_pending' = 0 /\ kernal' = kernal /\ queue' = queue /\ head_idx' = head_idx
        BY <2>6, <3>2 DEF machine_reset
      <4>2. Waiting' = First(queue, 0)
        BY <4>1 DEF Waiting, First, At, Slot
      <4>3. First(queue, 0) = <<>>
        <5>1. /\ queue \in [Slots -> Chars] /\ head_idx \in Slots /\ 0 \in 0 .. QUEUE_SIZE
          BY Sizes DEF KbdInv, FlushInv, FlushTypes
        <5>2. First(queue, 0) \in Seq(Chars) /\ Len(First(queue, 0)) = 0
          BY <5>1, FirstLemma
        <5> QED BY <5>2, EmptySeq
      <4> QED BY <4>1, <4>2, <4>3 DEF Fifo!Next, Fifo!Drop
    <3> QED BY <3>1, <3>2
  <2>7. CASE kbdbuf_init
    BY <2>7 DEF kbdbuf_init, ring, Waiting, First, At, Slot
  <2> QED BY <2>1, <2>2, <2>3, <2>4, <2>5, <2>6, <2>7 DEF Next, Runs
<1> QED BY <1>1, <1>2, KbdBufInductive, PTL DEF Spec, RefinesFifo, Fifo!Spec
==============================================================================
