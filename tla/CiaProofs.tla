------------------------------ MODULE CiaProofs ------------------------------
(* TLAPS proofs about Cia.tla, for every word size, latch, mask, lateness   *)
(* and number of accesses: the invariant Sound is inductive, the delay line *)
(* of the interrupt flags runs once per cycle, timer A is exact, and, with  *)
(* the invariant SoundB, so is timer B, also when it counts timer A.        *)
(*                                                                          *)
(* The loops of the code are recursive functions.  What they compute is     *)
(* proved by induction over the natural numbers (NatInd), from the          *)
(* unfolding of the function (Recursion).  The parts follow the code from   *)
(* inside out: a cycle of a timer, the alarm that ciat_set_alarm() finds,   *)
(* the leaps of ciat_update(), the delay line, the handlers of ciacore.c,   *)
(* the accesses and alarms, and the invariant; then the run of both timers  *)
(* and what the handlers, accesses and alarms do to it.                     *)
EXTENDS Cia, TLAPS, FiniteSetTheorems

\* Induction over the natural numbers, from the well-foundedness of the
\* finite sets ordered by inclusion: the library's theorem takes an operator.
LEMMA NatInd ==
  ASSUME NEW S, 0 \in S, \A n \in Nat : n \in S => n + 1 \in S
  PROVE  Nat \subseteq S
<1> DEFINE Below(n) == 0 .. n - 1
           T == {Below(n) : n \in Nat \ S}
           R == StrictSubsetOrdering(Nat)
           F == FiniteSubsetsOf(Nat)
<1> SUFFICES ASSUME NEW n \in Nat, n \notin S PROVE FALSE
  OBVIOUS
<1>1. T \subseteq F /\ T # {}
  <2>1. \A k \in Nat : Below(k) \in F
    BY FS_Interval DEF FiniteSubsetsOf
  <2> HIDE DEF F
  <2> QED BY <2>1
<1>2. PICK x \in T : \A y \in T : ~ (<<y, x>> \in R)
  <2>1. IsWellFoundedOn(R, F)
    BY FS_StrictSubsetOrderingWellFounded
  <2> HIDE DEF T, R, F
  <2> QED BY <1>1, <2>1, WFMin
<1>3. PICK k \in Nat \ S : x = Below(k)
  BY <1>2
<1>4. k # 0 /\ k - 1 \in Nat
  BY <1>3
<1>5. k - 1 \notin S
  BY <1>3, <1>4
<1>6. <<Below(k - 1), Below(k)>> \in R
  <2>1. Below(k - 1) \subseteq Below(k)
    BY <1>3, <1>4
  <2>2. k - 1 \in Below(k) /\ k - 1 \notin Below(k - 1)
    BY <1>3, <1>4
  <2>3. Below(k) \subseteq Nat
    BY <1>3
  <2> HIDE DEF Below
  <2> QED BY <2>1, <2>2, <2>3 DEF StrictSubsetOrdering
<1> QED BY <1>2, <1>3, <1>4, <1>5, <1>6

\* f iterates the function F from s.
IsRun(f, F, s) == f[0] = s /\ \A n \in Nat : f[n + 1] = F[f[n]]

\* A function can be iterated.
LEMMA Recursion ==
  ASSUME NEW S, NEW F \in [S -> S], NEW s \in S
  PROVE  \E f \in [Nat -> S] : IsRun(f, F, s)
<1> DEFINE OK(g, n) == /\ g \in [0 .. n -> S] /\ g[0] = s
                       /\ \A i \in 0 .. n - 1 : g[i + 1] = F[g[i]]
           P == {n \in Nat : \E g \in [0 .. n -> S] : OK(g, n)}
<1>1. 0 \in P
  <2>1. OK([i \in 0 .. 0 |-> s], 0)
    OBVIOUS
  <2> QED BY <2>1
<1>2. ASSUME NEW n \in Nat, n \in P PROVE n + 1 \in P
  <2>1. PICK g \in [0 .. n -> S] : OK(g, n)
    BY <1>2
  <2> DEFINE h == [i \in 0 .. n + 1 |-> IF i = n + 1 THEN F[g[n]] ELSE g[i]]
  <2>2. h \in [0 .. n + 1 -> S]
    BY <2>1
  <2>3. h[0] = s /\ \A i \in 0 .. n : h[i + 1] = F[h[i]]
    BY <2>1
  <2>4. OK(h, n + 1)
    BY <2>2, <2>3
  <2> HIDE DEF h, OK
  <2> QED BY <2>2, <2>4
<1>3. Nat \subseteq P
  <2> HIDE DEF P
  <2> QED BY <1>1, <1>2, NatInd

\* approximations agree
<1>4. ASSUME NEW m \in Nat, NEW n \in Nat, m <= n, NEW g, NEW h, OK(g, m), OK(h, n)
      PROVE  \A i \in 0 .. m : g[i] = h[i]
  <2> DEFINE Q == {i \in Nat : i <= m => g[i] = h[i]}
  <2>1. 0 \in Q
    BY <1>4
  <2>2. ASSUME NEW i \in Nat, i \in Q PROVE i + 1 \in Q
    BY <1>4, <2>2
  <2>3. Nat \subseteq Q
    <3> HIDE DEF Q
    <3> QED BY <2>1, <2>2, NatInd
  <2> QED BY <2>3
<1> DEFINE app == [n \in Nat |-> CHOOSE g \in [0 .. n -> S] : OK(g, n)]
           f == [n \in Nat |-> app[n][n]]
<1>5. \A n \in Nat : OK(app[n], n)
  <2> SUFFICES ASSUME NEW n \in Nat PROVE OK(app[n], n)
    OBVIOUS
  <2>1. \E g \in [0 .. n -> S] : OK(g, n)
    BY <1>3
  <2> HIDE DEF OK
  <2> QED BY <2>1
<1>6. f \in [Nat -> S] /\ f[0] = s
  <2> HIDE DEF app
  <2> QED BY <1>5
<1>7. ASSUME NEW n \in Nat PROVE f[n + 1] = F[f[n]]
  <2> HIDE DEF app
  <2>1. OK(app[n], n) /\ OK(app[n + 1], n + 1) /\ n + 1 \in Nat /\ n <= n + 1
    <3> HIDE DEF OK
    <3> QED BY <1>5
  <2>2. app[n][n] = app[n + 1][n]
    <3> HIDE DEF OK
    <3>1. \A i \in 0 .. n : app[n][i] = app[n + 1][i]
      BY <2>1, <1>4
    <3> QED BY <3>1
  <2>3. app[n + 1][n + 1] = F[app[n + 1][n]]
    <3>1. n \in 0 .. (n + 1) - 1
      OBVIOUS
    <3> QED BY <2>1, <3>1
  <2> QED BY <2>2, <2>3
<1> HIDE DEF f
<1>8. IsRun(f, F, s)
  BY <1>6, <1>7 DEF IsRun
<1> QED BY <1>6, <1>8

\* The bits of a timer's state, the values of its counter, and a timer.
Bits == {"START", "CR_ONESHOT", "PHI2IN", "COUNT2", "COUNT3", "COUNT", "FLOAD",
         "LOAD1", "LOAD", "ONESHOT0", "ONESHOT", "STEP", "OUT"}

Words == 0 .. WORD - 1

Timers == [state : SUBSET Bits, cnt : Words, latch : Words, lag : Int,
           alarm : Int, n : Nat]

\* A cycle of a timer, the timer after k cycles, and the loops that run it.
Turn(s) == Settle(Inc(s))

Runs(s) == LET run[i \in Nat] == IF i = 0 THEN s ELSE Turn(run[i - 1]) IN run

After(s, k) == Runs(s)[k]

\* ciat_init_table(), bit by bit.
LEMMA NextBits ==
  ASSUME NEW t
  PROVE  /\ NextState(t) \subseteq Bits
         /\ "START" \in NextState(t) <=> "START" \in t
         /\ "CR_ONESHOT" \in NextState(t) <=> "CR_ONESHOT" \in t
         /\ "PHI2IN" \in NextState(t) <=> "PHI2IN" \in t
         /\ "COUNT2" \in NextState(t) <=> "START" \in t /\ "PHI2IN" \in t
         /\ "COUNT3" \in NextState(t) <=>
              "COUNT2" \in t \/ ("STEP" \in t /\ "START" \in t)
         /\ "COUNT" \in NextState(t) <=> "COUNT3" \in t
         /\ "LOAD1" \in NextState(t) <=> "FLOAD" \in t
         /\ "LOAD" \in NextState(t) <=> "LOAD1" \in t
         /\ "ONESHOT0" \in NextState(t) <=> "CR_ONESHOT" \in t
         /\ "ONESHOT" \in NextState(t) <=> "ONESHOT0" \in t
         /\ NextState(t) \cap {"FLOAD", "STEP", "OUT"} = {}
<1>1. \A b : b \in NextState(t) <=> \E r \in ciat_table : r[1] \subseteq t /\ r[2] = b
  BY DEF NextState
<1>2. NextState(t) \subseteq Bits
  BY <1>1 DEF ciat_table, Bits
<1>3. "START" \in NextState(t) <=> "START" \in t
  BY <1>1 DEF ciat_table
<1>4. "CR_ONESHOT" \in NextState(t) <=> "CR_ONESHOT" \in t
  BY <1>1 DEF ciat_table
<1>5. "PHI2IN" \in NextState(t) <=> "PHI2IN" \in t
  BY <1>1 DEF ciat_table
<1>6. "COUNT2" \in NextState(t) <=> "START" \in t /\ "PHI2IN" \in t
  BY <1>1 DEF ciat_table
<1>7. "COUNT3" \in NextState(t) <=>
              "COUNT2" \in t \/ ("STEP" \in t /\ "START" \in t)
  BY <1>1 DEF ciat_table
<1>8. "COUNT" \in NextState(t) <=> "COUNT3" \in t
  BY <1>1 DEF ciat_table
<1>9. "LOAD1" \in NextState(t) <=> "FLOAD" \in t
  BY <1>1 DEF ciat_table
<1>10. "LOAD" \in NextState(t) <=> "LOAD1" \in t
  BY <1>1 DEF ciat_table
<1>11. "ONESHOT0" \in NextState(t) <=> "CR_ONESHOT" \in t
  BY <1>1 DEF ciat_table
<1>12. "ONESHOT" \in NextState(t) <=> "ONESHOT0" \in t
  BY <1>1 DEF ciat_table
<1>13. NextState(t) \cap {"FLOAD", "STEP", "OUT"} = {}
  BY <1>1 DEF ciat_table
<1> QED BY <1>2, <1>3, <1>4, <1>5, <1>6, <1>7, <1>8, <1>9, <1>10, <1>11, <1>12, <1>13

\* The unfolding of Runs(s), as a fact about a function.
LEMMA RunsUnfold ==
  ASSUME NEW s, NEW f, f = [i \in Nat |-> IF i = 0 THEN s ELSE Turn(f[i - 1])]
  PROVE  Runs(s) = [i \in Nat |-> IF i = 0 THEN s ELSE Turn(Runs(s)[i - 1])]
BY DEF Runs

\* What a cycle of a timer does, as predicates on the timer before it: it
\* counts, what is left of the counter, it underflows, stops, or loads.
Counts(t) == "COUNT2" \in t \/ ("STEP" \in t /\ "START" \in t)

Left(s) == IF "COUNT3" \in s.state /\ s.cnt > 0 THEN s.cnt - 1 ELSE s.cnt

Underflows(s) == Left(s) = 0 /\ Counts(s.state)

Ends(s) == Underflows(s) /\ ("CR_ONESHOT" \in s.state \/ "ONESHOT0" \in s.state)

Loads(s) == "LOAD1" \in s.state \/ Underflows(s)

\* The sizes of a word and of the latest alarm.
LEMMA WordFacts == WORD \in Nat /\ WORD >= 1 /\ NEVER \in Nat /\ NEVER >= 22
                   /\ NEVER = 2 * WORD + 20
<1>1. BYTE \in Nat /\ BYTE >= 1
  BY CiaAssumption
<1>2. BYTE * BYTE \in Nat
  BY <1>1
<1>3. BYTE * BYTE >= 1
  <2>1. \A b \in Nat : b >= 1 => b * b >= 1
    OBVIOUS
  <2> QED BY <1>1, <2>1
<1>4. WORD \in Nat /\ WORD >= 1
  BY <1>2, <1>3 DEF WORD
<1> QED BY <1>4 DEF NEVER

\* A timer is the sum of its fields.
LEMMA TimerEqual ==
  ASSUME NEW s \in Timers, NEW t \in Timers, s.state = t.state, s.cnt = t.cnt,
         s.latch = t.latch, s.lag = t.lag, s.alarm = t.alarm, s.n = t.n
  PROVE  s = t
BY DEF Timers

\* A cycle, field by field.
LEMMA TurnFacts ==
  ASSUME NEW s \in Timers
  PROVE  /\ Turn(s) \in Timers
         /\ Turn(s).lag = s.lag /\ Turn(s).alarm = s.alarm /\ Turn(s).latch = s.latch
         /\ Turn(s).n = IF Underflows(s) THEN s.n + 1 ELSE s.n
         /\ Turn(s).cnt = IF Loads(s) THEN s.latch ELSE Left(s)
<1> DEFINE i == Inc(s)
           t == NextState(s.state)
           under == i.cnt = 0 /\ "COUNT3" \in i.state
           out == i.state \cup (IF under THEN {"LOAD", "OUT"} ELSE {})
           loaded == IF "LOAD" \in out THEN out \ {"COUNT3"} ELSE out
           once == "OUT" \in loaded /\ loaded \cap {"ONESHOT", "ONESHOT0"} # {}
<1>1. /\ i.state = t /\ i.cnt = Left(s) /\ i.latch = s.latch /\ i.lag = s.lag
      /\ i.alarm = s.alarm /\ i.n = s.n
      /\ i = [state |-> t, cnt |-> Left(s), latch |-> s.latch, lag |-> s.lag,
              alarm |-> s.alarm, n |-> s.n]
  <2>1. i = [s EXCEPT !.cnt = Left(s), !.state = t]
    BY DEF Inc, Left
  <2> HIDE DEF i, t
  <2>2. s = [state |-> s.state, cnt |-> s.cnt, latch |-> s.latch, lag |-> s.lag,
             alarm |-> s.alarm, n |-> s.n]
    BY DEF Timers
  <2> QED BY <2>1, <2>2
<1>2. t \subseteq Bits /\ ("COUNT3" \in t <=> Counts(s.state)) /\ ("LOAD" \in t <=> "LOAD1" \in s.state)
  BY NextBits DEF Counts
<1>3. Left(s) \in Words
  BY WordFacts DEF Left, Timers, Words
<1>4. under <=> Underflows(s)
  BY <1>1, <1>2 DEF Underflows
<1>5. "LOAD" \in out <=> Loads(s)
  BY <1>1, <1>2, <1>4 DEF Loads
<1>6. Settle(i) = [i EXCEPT !.cnt = IF "LOAD" \in out THEN i.latch ELSE i.cnt,
                !.state = IF once THEN loaded \ {"START", "COUNT2"} ELSE loaded,
                !.n = IF under THEN i.n + 1 ELSE i.n]
  BY DEF Settle
<1>7. out \subseteq Bits
  BY <1>1, <1>2 DEF Bits
<1>8. (IF once THEN loaded \ {"START", "COUNT2"} ELSE loaded) \in SUBSET Bits
  <2> HIDE DEF out, once
  <2> QED BY <1>7
<1> DEFINE st == IF once THEN loaded \ {"START", "COUNT2"} ELSE loaded
<1>9. Settle(i) = [state |-> st, cnt |-> IF Loads(s) THEN s.latch ELSE Left(s),
         latch |-> s.latch, lag |-> s.lag, alarm |-> s.alarm,
         n |-> IF Underflows(s) THEN s.n + 1 ELSE s.n]
  <2> HIDE DEF st, i, under, out, loaded, once
  <2>1. Settle(i) = [i EXCEPT !.cnt = IF Loads(s) THEN i.latch ELSE i.cnt,
                !.state = st,
                !.n = IF Underflows(s) THEN i.n + 1 ELSE i.n]
    BY <1>4, <1>5, <1>6 DEF st
  <2> QED BY <2>1, <1>1
<1>10. st \in SUBSET Bits
  BY <1>8
<1> HIDE DEF st
<1> QED BY <1>3, <1>9, <1>10 DEF Turn, Timers

\* A cycle, bit by bit.
LEMMA TurnBits ==
  ASSUME NEW s \in Timers
  PROVE  /\ "START" \in Turn(s).state <=> "START" \in s.state /\ ~Ends(s)
         /\ "CR_ONESHOT" \in Turn(s).state <=> "CR_ONESHOT" \in s.state
         /\ "ONESHOT0" \in Turn(s).state <=> "CR_ONESHOT" \in s.state
         /\ "ONESHOT" \in Turn(s).state <=> "ONESHOT0" \in s.state
         /\ "PHI2IN" \in Turn(s).state <=> "PHI2IN" \in s.state
         /\ "COUNT2" \in Turn(s).state <=>
              "START" \in s.state /\ "PHI2IN" \in s.state /\ ~Ends(s)
         /\ "COUNT3" \in Turn(s).state <=> Counts(s.state) /\ ~Loads(s)
         /\ "COUNT" \in Turn(s).state <=> "COUNT3" \in s.state
         /\ "LOAD1" \in Turn(s).state <=> "FLOAD" \in s.state
         /\ "LOAD" \in Turn(s).state <=> Loads(s)
         /\ "OUT" \in Turn(s).state <=> Underflows(s)
         /\ "FLOAD" \notin Turn(s).state
         /\ "STEP" \notin Turn(s).state
<1> DEFINE i == Inc(s)
           t == NextState(s.state)
           under == i.cnt = 0 /\ "COUNT3" \in i.state
           out == i.state \cup (IF under THEN {"LOAD", "OUT"} ELSE {})
           loaded == IF "LOAD" \in out THEN out \ {"COUNT3"} ELSE out
           once == "OUT" \in loaded /\ loaded \cap {"ONESHOT", "ONESHOT0"} # {}
           st == IF once THEN loaded \ {"START", "COUNT2"} ELSE loaded
<1>1. i.state = t /\ i.cnt = Left(s) /\ i = [s EXCEPT !.cnt = Left(s), !.state = t]
  BY DEF Inc, Left, Timers
<1>2. under <=> Underflows(s)
  BY <1>1, NextBits DEF Underflows, Counts
<1>3. Turn(s).state = st
  <2>1. "state" \in DOMAIN i
    BY <1>1 DEF Timers
  <2> QED BY <2>1 DEF Settle, Turn
<1>4. out = t \cup (IF Underflows(s) THEN {"LOAD", "OUT"} ELSE {})
  BY <1>1, <1>2
<1>5. "LOAD" \in out <=> Loads(s)
  BY <1>4, NextBits DEF Loads
<1>6. loaded = IF Loads(s) THEN out \ {"COUNT3"} ELSE out
  BY <1>5
<1>7. once <=> Ends(s)
  <2>1. "OUT" \in loaded <=> Underflows(s)
    BY <1>4, <1>6, NextBits
  <2>2. loaded \cap {"ONESHOT", "ONESHOT0"} # {} <=>
          ("CR_ONESHOT" \in s.state \/ "ONESHOT0" \in s.state)
    BY <1>4, <1>6, NextBits
  <2> QED BY <2>1, <2>2 DEF Ends
<1> HIDE DEF i, under, once, st
<1>8. st = IF Ends(s) THEN loaded \ {"START", "COUNT2"} ELSE loaded
  BY <1>7 DEF st
<1> HIDE DEF loaded, out
<1>9. ASSUME NEW b
      PROVE  b \in st <=> /\ (b \in t \/ (Underflows(s) /\ b \in {"LOAD", "OUT"}))
                         /\ (Loads(s) => b # "COUNT3")
                         /\ (Ends(s) => b \notin {"START", "COUNT2"})
  BY <1>4, <1>6, <1>8
<1> HIDE DEF t, st
<1>10. /\ "START" \in st <=> "START" \in t /\ ~Ends(s)
       /\ "COUNT2" \in st <=> "COUNT2" \in t /\ ~Ends(s)
       /\ "COUNT3" \in st <=> "COUNT3" \in t /\ ~Loads(s)
       /\ "LOAD" \in st <=> "LOAD" \in t \/ Underflows(s)
       /\ "OUT" \in st <=> "OUT" \in t \/ Underflows(s)
  BY <1>9
<1>11. \A b \in {"CR_ONESHOT", "ONESHOT0", "ONESHOT", "PHI2IN", "COUNT", "LOAD1",
                 "FLOAD", "STEP"} : b \in st <=> b \in t
  BY <1>9
<1>12. /\ "START" \in t <=> "START" \in s.state
       /\ "CR_ONESHOT" \in t <=> "CR_ONESHOT" \in s.state
       /\ "PHI2IN" \in t <=> "PHI2IN" \in s.state
       /\ "COUNT2" \in t <=> "START" \in s.state /\ "PHI2IN" \in s.state
       /\ "COUNT3" \in t <=> Counts(s.state)
       /\ "COUNT" \in t <=> "COUNT3" \in s.state
       /\ "LOAD1" \in t <=> "FLOAD" \in s.state
       /\ "LOAD" \in t <=> "LOAD1" \in s.state
       /\ "ONESHOT0" \in t <=> "CR_ONESHOT" \in s.state
       /\ "ONESHOT" \in t <=> "ONESHOT0" \in s.state
       /\ "FLOAD" \notin t /\ "STEP" \notin t /\ "OUT" \notin t
  BY NextBits DEF t, Counts
<1> QED BY <1>3, <1>10, <1>11, <1>12 DEF Loads

\* After(s, k) is the iteration of Turn.
LEMMA RunFacts ==
  ASSUME NEW s \in Timers
  PROVE  /\ After(s, 0) = s
         /\ \A k \in Nat : After(s, k) \in Timers
         /\ \A k \in Nat : After(s, k + 1) = Turn(After(s, k))
<1> DEFINE F == [t \in Timers |-> Turn(t)]
<1>1. F \in [Timers -> Timers]
  BY TurnFacts
<1>2. PICK f \in [Nat -> Timers] : f[0] = s /\ \A k \in Nat : f[k + 1] = F[f[k]]
  <2> HIDE DEF F
  <2>1. \E f \in [Nat -> Timers] : IsRun(f, F, s)
    BY <1>1, Recursion
  <2> QED BY <2>1 DEF IsRun
<1>3. ASSUME NEW i \in Nat PROVE f[i] = IF i = 0 THEN s ELSE Turn(f[i - 1])
  <2>1. CASE i = 0
    BY <1>2, <2>1
  <2>2. CASE i # 0
    <3>1. i - 1 \in Nat /\ (i - 1) + 1 = i
      BY <2>2
    <3>2. f[i] = F[f[i - 1]] /\ f[i - 1] \in Timers
      BY <1>2, <3>1
    <3> QED BY <2>2, <3>2
  <2> QED BY <2>1, <2>2
<1>4. f = [i \in Nat |-> IF i = 0 THEN s ELSE Turn(f[i - 1])]
  <2>1. f = [i \in Nat |-> f[i]]
    BY <1>2
  <2> QED BY <1>3, <2>1
<1>5. Runs(s) = [i \in Nat |-> IF i = 0 THEN s ELSE Turn(Runs(s)[i - 1])]
  BY <1>4, RunsUnfold
<1>6. Runs(s)[0] = s
  BY <1>5
<1>7. \A k \in Nat : Runs(s)[k + 1] = Turn(Runs(s)[k])
  <2> SUFFICES ASSUME NEW k \in Nat PROVE Runs(s)[k + 1] = Turn(Runs(s)[k])
    OBVIOUS
  <2>1. k + 1 \in Nat /\ k + 1 # 0 /\ (k + 1) - 1 = k
    OBVIOUS
  <2> QED BY <1>5, <2>1
<1> DEFINE P == {k \in Nat : Runs(s)[k] \in Timers}
<1>8. 0 \in P /\ \A k \in Nat : k \in P => k + 1 \in P
  BY <1>6, <1>7, TurnFacts
<1>9. Nat \subseteq P
  <2> HIDE DEF P
  <2> QED BY <1>8, NatInd
<1> QED BY <1>6, <1>7, <1>9 DEF After

\* Cycles leave the latch, the clock and the alarm, and count underflows.
LEMMA AfterKeeps ==
  ASSUME NEW s \in Timers, NEW k \in Nat
  PROVE  /\ After(s, k) \in Timers
         /\ After(s, k).lag = s.lag
         /\ After(s, k).alarm = s.alarm
         /\ After(s, k).latch = s.latch
         /\ After(s, k).n >= s.n
<1> DEFINE P == {j \in Nat : /\ After(s, j).lag = s.lag
                             /\ After(s, j).alarm = s.alarm
                             /\ After(s, j).latch = s.latch
                             /\ After(s, j).n >= s.n}
<1>1. 0 \in P
  BY RunFacts DEF Timers
<1>2. ASSUME NEW j \in Nat, j \in P PROVE j + 1 \in P
  <2>1. After(s, j) \in Timers /\ After(s, j + 1) = Turn(After(s, j))
    BY RunFacts
  <2>2. After(s, j).n \in Nat /\ s.n \in Nat
    BY <2>1 DEF Timers
  <2> QED BY <1>2, <2>1, <2>2, TurnFacts
<1>3. Nat \subseteq P
  <2> HIDE DEF P
  <2> QED BY <1>1, <1>2, NatInd
<1> QED BY <1>3, RunFacts

\* j cycles, then k.
LEMMA AfterAdd ==
  ASSUME NEW s \in Timers, NEW j \in Nat, NEW k \in Nat
  PROVE  After(s, j + k) = After(After(s, j), k)
<1> DEFINE u == After(s, j)
           P == {i \in Nat : After(s, j + i) = After(u, i)}
<1>1. u \in Timers
  BY RunFacts
<1> HIDE DEF u
<1>2. 0 \in P
  BY <1>1, RunFacts DEF u
<1>3. ASSUME NEW i \in Nat, i \in P PROVE i + 1 \in P
  <2>1. j + i \in Nat /\ j + (i + 1) = (j + i) + 1
    OBVIOUS
  <2>2. After(s, j + (i + 1)) = Turn(After(s, j + i))
    BY <2>1, RunFacts
  <2>3. After(u, i + 1) = Turn(After(u, i))
    BY <1>1, RunFacts
  <2> QED BY <1>3, <2>2, <2>3
<1>4. Nat \subseteq P
  <2> HIDE DEF P
  <2> QED BY <1>2, <1>3, NatInd
<1> QED BY <1>4 DEF u

\* Two timers that behave alike: COUNT shows the past only.
Same(s, t) == /\ s.state \ {"COUNT"} = t.state \ {"COUNT"}
              /\ s.cnt = t.cnt /\ s.latch = t.latch

\* The same, bit by bit.
LEMMA SameBits ==
  ASSUME NEW s \in Timers, NEW t \in Timers
  PROVE  s.state \ {"COUNT"} = t.state \ {"COUNT"}
           <=> /\ "START" \in s.state <=> "START" \in t.state
               /\ "CR_ONESHOT" \in s.state <=> "CR_ONESHOT" \in t.state
               /\ "ONESHOT0" \in s.state <=> "ONESHOT0" \in t.state
               /\ "ONESHOT" \in s.state <=> "ONESHOT" \in t.state
               /\ "PHI2IN" \in s.state <=> "PHI2IN" \in t.state
               /\ "COUNT2" \in s.state <=> "COUNT2" \in t.state
               /\ "COUNT3" \in s.state <=> "COUNT3" \in t.state
               /\ "FLOAD" \in s.state <=> "FLOAD" \in t.state
               /\ "LOAD1" \in s.state <=> "LOAD1" \in t.state
               /\ "LOAD" \in s.state <=> "LOAD" \in t.state
               /\ "STEP" \in s.state <=> "STEP" \in t.state
               /\ "OUT" \in s.state <=> "OUT" \in t.state
<1>1. s.state \subseteq Bits /\ t.state \subseteq Bits
  BY DEF Timers
<1> DEFINE a == s.state
           b == t.state
<1>2. a \ {"COUNT"} = b \ {"COUNT"} <=> \A x \in Bits \ {"COUNT"} : x \in a <=> x \in b
  <2> HIDE DEF a, b
  <2>1. a \subseteq Bits /\ b \subseteq Bits
    BY <1>1 DEF a, b
  <2> QED BY <2>1
<1> HIDE DEF a, b
<1>3. (\A x \in Bits \ {"COUNT"} : x \in a <=> x \in b)
          <=> /\ "START" \in a <=> "START" \in b
              /\ "CR_ONESHOT" \in a <=> "CR_ONESHOT" \in b
              /\ "ONESHOT0" \in a <=> "ONESHOT0" \in b
              /\ "ONESHOT" \in a <=> "ONESHOT" \in b
              /\ "PHI2IN" \in a <=> "PHI2IN" \in b
              /\ "COUNT2" \in a <=> "COUNT2" \in b
              /\ "COUNT3" \in a <=> "COUNT3" \in b
              /\ "FLOAD" \in a <=> "FLOAD" \in b
              /\ "LOAD1" \in a <=> "LOAD1" \in b
              /\ "LOAD" \in a <=> "LOAD" \in b
              /\ "STEP" \in a <=> "STEP" \in b
              /\ "OUT" \in a <=> "OUT" \in b
  BY DEF Bits
<1> QED BY <1>2, <1>3 DEF a, b

\* Timers that behave alike do so for a cycle.
LEMMA SameTurn ==
  ASSUME NEW s \in Timers, NEW t \in Timers, Same(s, t)
  PROVE  Same(Turn(s), Turn(t)) /\ (Underflows(s) <=> Underflows(t))
<1>1. /\ s.cnt = t.cnt /\ s.latch = t.latch
      /\ "START" \in s.state <=> "START" \in t.state
      /\ "CR_ONESHOT" \in s.state <=> "CR_ONESHOT" \in t.state
      /\ "ONESHOT0" \in s.state <=> "ONESHOT0" \in t.state
      /\ "ONESHOT" \in s.state <=> "ONESHOT" \in t.state
      /\ "PHI2IN" \in s.state <=> "PHI2IN" \in t.state
      /\ "COUNT2" \in s.state <=> "COUNT2" \in t.state
      /\ "COUNT3" \in s.state <=> "COUNT3" \in t.state
      /\ "FLOAD" \in s.state <=> "FLOAD" \in t.state
      /\ "LOAD1" \in s.state <=> "LOAD1" \in t.state
      /\ "STEP" \in s.state <=> "STEP" \in t.state
  BY SameBits DEF Same
<1>2. (Underflows(s) <=> Underflows(t)) /\ (Ends(s) <=> Ends(t)) /\ (Loads(s) <=> Loads(t))
      /\ Left(s) = Left(t) /\ (Counts(s.state) <=> Counts(t.state))
  BY <1>1 DEF Underflows, Ends, Loads, Left, Counts
<1>3. Turn(s) \in Timers /\ Turn(t) \in Timers
  BY TurnFacts
<1>4. Turn(s).cnt = Turn(t).cnt /\ Turn(s).latch = Turn(t).latch
  BY <1>1, <1>2, TurnFacts
<1>5. Turn(s).state \ {"COUNT"} = Turn(t).state \ {"COUNT"}
  BY <1>1, <1>2, <1>3, SameBits, TurnBits
<1> QED BY <1>2, <1>4, <1>5 DEF Same

\* ... and for ever, and they underflow together.
LEMMA SameAfter ==
  ASSUME NEW s \in Timers, NEW t \in Timers, Same(s, t), NEW k \in Nat
  PROVE  Same(After(s, k), After(t, k)) /\ After(s, k).n - s.n = After(t, k).n - t.n
<1> DEFINE P == {j \in Nat : /\ Same(After(s, j), After(t, j))
                             /\ After(s, j).n - s.n = After(t, j).n - t.n}
<1>1. 0 \in P
  <2>1. After(s, 0) = s /\ After(t, 0) = t /\ s.n - s.n = 0 /\ t.n - t.n = 0
    BY RunFacts DEF Timers
  <2> QED BY <2>1
<1>2. ASSUME NEW j \in Nat, j \in P PROVE j + 1 \in P
  <2> DEFINE u == After(s, j)
             v == After(t, j)
  <2>1. u \in Timers /\ v \in Timers /\ After(s, j + 1) = Turn(u) /\ After(t, j + 1) = Turn(v)
    BY RunFacts
  <2>2. Same(u, v) /\ u.n - s.n = v.n - t.n
    BY <1>2
  <2> HIDE DEF u, v
  <2>3. Same(Turn(u), Turn(v)) /\ (Underflows(u) <=> Underflows(v))
    BY <2>1, <2>2, SameTurn
  <2>4. u.n \in Nat /\ v.n \in Nat /\ s.n \in Nat /\ t.n \in Nat
    BY <2>1 DEF Timers
  <2>5. Turn(u).n - s.n = Turn(v).n - t.n
    BY <2>1, <2>2, <2>3, <2>4, TurnFacts
  <2> QED BY <2>1, <2>3, <2>5
<1>3. Nat \subseteq P
  <2> HIDE DEF P
  <2> QED BY <1>1, <1>2, NatInd
<1> QED BY <1>3

\* ModeSettled, Counting and Stopped, bit by bit.
LEMMA ModeBits ==
  ASSUME NEW t
  PROVE  ModeSettled(t) <=> /\ "CR_ONESHOT" \in t <=> "ONESHOT0" \in t
                            /\ "ONESHOT0" \in t <=> "ONESHOT" \in t
<1> DEFINE M == {"CR_ONESHOT", "ONESHOT0", "ONESHOT"}
           m == t \cap M
<1>1. IsFiniteSet(M) /\ Cardinality(M) = 3
  <2>1. IsFiniteSet({"CR_ONESHOT"}) /\ Cardinality({"CR_ONESHOT"}) = 1
    BY FS_Singleton
  <2>2. /\ IsFiniteSet({"CR_ONESHOT"} \cup {"ONESHOT0"})
        /\ Cardinality({"CR_ONESHOT"} \cup {"ONESHOT0"}) = 2
    BY <2>1, FS_AddElement
  <2>3. /\ IsFiniteSet(({"CR_ONESHOT"} \cup {"ONESHOT0"}) \cup {"ONESHOT"})
        /\ Cardinality(({"CR_ONESHOT"} \cup {"ONESHOT0"}) \cup {"ONESHOT"}) = 3
    BY <2>2, FS_AddElement
  <2>4. M = ({"CR_ONESHOT"} \cup {"ONESHOT0"}) \cup {"ONESHOT"}
    OBVIOUS
  <2> QED BY <2>3, <2>4
<1>2. m \subseteq M /\ IsFiniteSet(m) /\ Cardinality(m) \in Nat
  BY <1>1, FS_Subset, FS_CardinalityType
<1>3. Cardinality(m) = 0 <=> m = {}
  BY <1>2, FS_EmptySet
<1>4. Cardinality(m) = 3 <=> m = M
  <2> HIDE DEF M, m
  <2>1. m # M => Cardinality(m) < Cardinality(M)
    BY <1>1, <1>2, FS_Subset
  <2> QED BY <1>1, <1>2, <2>1
<1>5. ModeSettled(t) <=> m = {} \/ m = M
  <2> HIDE DEF m, M
  <2>1. ModeSettled(t) <=> Cardinality(m) = 0 \/ Cardinality(m) = 3
    BY DEF ModeSettled, m, M
  <2> QED BY <1>3, <1>4, <2>1
<1>6. m = {} <=> "CR_ONESHOT" \notin t /\ "ONESHOT0" \notin t /\ "ONESHOT" \notin t
  OBVIOUS
<1>7. m = M <=> "CR_ONESHOT" \in t /\ "ONESHOT0" \in t /\ "ONESHOT" \in t
  OBVIOUS
<1> QED BY <1>5, <1>6, <1>7

\* Counting, bit by bit.
LEMMA CountingBits ==
  ASSUME NEW t
  PROVE  Counting(t) <=>
           /\ "START" \in t /\ "PHI2IN" \in t /\ "COUNT2" \in t
           /\ "COUNT3" \in t /\ "COUNT" \in t
           /\ "FLOAD" \notin t /\ "LOAD1" \notin t /\ "LOAD" \notin t
           /\ "CR_ONESHOT" \in t <=> "ONESHOT0" \in t
           /\ "ONESHOT0" \in t <=> "ONESHOT" \in t
<1>1. t \cap {"START", "FLOAD", "LOAD1", "PHI2IN", "COUNT2", "COUNT3", "COUNT",
             "LOAD"} = {"START", "PHI2IN", "COUNT2", "COUNT3", "COUNT"}
      <=> /\ "START" \in t /\ "PHI2IN" \in t /\ "COUNT2" \in t
          /\ "COUNT3" \in t /\ "COUNT" \in t
          /\ "FLOAD" \notin t /\ "LOAD1" \notin t /\ "LOAD" \notin t
  OBVIOUS
<1> QED BY <1>1, ModeBits DEF Counting

\* Stopped, bit by bit.
LEMMA StoppedBits ==
  ASSUME NEW t
  PROVE  Stopped(t) <=>
           /\ "COUNT2" \notin t /\ "COUNT3" \notin t /\ "COUNT" \notin t
           /\ "START" \notin t \/ ("PHI2IN" \notin t /\ "STEP" \notin t)
           /\ "CR_ONESHOT" \in t <=> "ONESHOT0" \in t
           /\ "ONESHOT0" \in t <=> "ONESHOT" \in t
<1>1. t \cap {"COUNT2", "COUNT3", "COUNT"} = {}
      <=> "COUNT2" \notin t /\ "COUNT3" \notin t /\ "COUNT" \notin t
  OBVIOUS
<1>2. t \cap {"PHI2IN", "STEP"} = {} <=> ("PHI2IN" \notin t /\ "STEP" \notin t)
  OBVIOUS
<1> QED BY <1>1, <1>2, ModeBits DEF Stopped

\* A stopped timer never underflows.
Silent(s) == \A k \in Nat : After(s, k).n = s.n

\* The first underflow of s is in the k-th cycle.
First(s, k) == /\ k \in Nat \ {0}
               /\ After(s, k - 1).n = s.n /\ After(s, k).n = s.n + 1

\* A timer that cannot count, whatever its one-shot bits.
Resting(t) == /\ "COUNT2" \notin t /\ "COUNT3" \notin t
              /\ "START" \notin t \/ ("PHI2IN" \notin t /\ "STEP" \notin t)

\* Such a timer never underflows.
LEMMA StoppedSilent ==
  ASSUME NEW s \in Timers, Resting(s.state)
  PROVE  Silent(s)
<1> DEFINE P == {k \in Nat : Resting(After(s, k).state) /\ After(s, k).n = s.n}
<1>1. 0 \in P
  BY RunFacts
<1>2. ASSUME NEW k \in Nat, k \in P PROVE k + 1 \in P
  <2> DEFINE u == After(s, k)
  <2>1. u \in Timers /\ After(s, k + 1) = Turn(u)
    BY RunFacts
  <2>2. Resting(u.state) /\ u.n = s.n
    BY <1>2
  <2> HIDE DEF u
  <2>3. ~Underflows(u) /\ ~Counts(u.state)
    BY <2>2 DEF Underflows, Counts, Resting
  <2>4. Resting(Turn(u).state) /\ Turn(u).n = s.n
    BY <2>1, <2>2, <2>3, TurnFacts, TurnBits DEF Resting
  <2> QED BY <2>1, <2>4
<1>3. Nat \subseteq P
  <2> HIDE DEF P
  <2> QED BY <1>1, <1>2, NatInd
<1> QED BY <1>3 DEF Silent

\* A timer that counts evenly.
LEMMA CountingTurn ==
  ASSUME NEW s \in Timers, Counting(s.state), s.cnt > 0
  PROVE  /\ s.cnt > 1 => /\ Counting(Turn(s).state) /\ Turn(s).cnt = s.cnt - 1
                         /\ Turn(s).n = s.n
         /\ s.cnt = 1 => Underflows(s)
<1>1. s.cnt \in Nat
  BY WordFacts DEF Timers, Words
<1>2. Left(s) = s.cnt - 1 /\ Counts(s.state)
  BY CountingBits DEF Left, Counts
<1>3. Underflows(s) <=> s.cnt = 1
  BY <1>1, <1>2 DEF Underflows
<1>4. s.cnt > 1 => ~Loads(s) /\ ~Ends(s)
  BY <1>1, <1>3, CountingBits DEF Loads, Ends
<1>5. s.cnt > 1 => Counting(Turn(s).state)
  <2> SUFFICES ASSUME s.cnt > 1 PROVE Counting(Turn(s).state)
    OBVIOUS
  <2> QED BY <1>2, <1>3, <1>4, <1>1, TurnBits, CountingBits
<1> QED BY <1>1, <1>2, <1>3, <1>4, <1>5, TurnFacts

\* The count of underflows never falls.
LEMMA AfterGrows ==
  ASSUME NEW s \in Timers, NEW j \in Nat, NEW k \in Nat, j <= k
  PROVE  After(s, j).n <= After(s, k).n
<1>1. After(s, j) \in Timers /\ k - j \in Nat /\ j + (k - j) = k
  BY RunFacts
<1>2. After(s, k) = After(After(s, j), k - j)
  BY <1>1, AfterAdd
<1> QED BY <1>1, <1>2, AfterKeeps

\* The first underflow, seen from i cycles before.
LEMMA FirstAdd ==
  ASSUME NEW s \in Timers, NEW i \in Nat, After(s, i).n = s.n, NEW k
  PROVE  First(After(s, i), k) => First(s, i + k)
<1> SUFFICES ASSUME First(After(s, i), k) PROVE First(s, i + k)
  OBVIOUS
<1> DEFINE u == After(s, i)
<1>1. k \in Nat /\ k # 0 /\ k - 1 \in Nat /\ After(u, k - 1).n = u.n /\ After(u, k).n = u.n + 1
  BY DEF First
<1>2. i + (k - 1) = (i + k) - 1 /\ i + k \in Nat \ {0}
  BY <1>1
<1>3. After(s, i + (k - 1)) = After(u, k - 1) /\ After(s, i + k) = After(u, k)
  BY <1>1, AfterAdd
<1> HIDE DEF u
<1>4. u.n = s.n
  BY DEF u
<1> QED BY <1>1, <1>2, <1>3, <1>4 DEF First

\* No underflow, seen from i cycles before.
LEMMA SilentAdd ==
  ASSUME NEW s \in Timers, NEW i \in Nat, After(s, i).n = s.n, Silent(After(s, i))
  PROVE  Silent(s)
<1> SUFFICES ASSUME NEW k \in Nat PROVE After(s, k).n = s.n
  BY DEF Silent
<1>1. After(s, k) \in Timers /\ After(s, k).n >= s.n /\ After(s, k).n \in Nat /\ s.n \in Nat
  BY AfterKeeps DEF Timers
<1>2. CASE k <= i
  <2>1. After(s, k).n <= After(s, i).n
    BY <1>2, AfterGrows
  <2> QED BY <1>1, <2>1
<1>3. CASE k > i
  <2>1. k - i \in Nat /\ i + (k - i) = k
    BY <1>3
  <2>2. After(s, k) = After(After(s, i), k - i)
    BY <2>1, AfterAdd
  <2> QED BY <2>1, <2>2 DEF Silent
<1> QED BY <1>2, <1>3

\* A timer that counts evenly underflows when its counter runs out.
LEMMA CountingAfter ==
  ASSUME NEW s \in Timers, Counting(s.state), s.cnt > 0
  PROVE  /\ \A j \in 0 .. s.cnt - 1 :
              /\ Counting(After(s, j).state) /\ After(s, j).cnt = s.cnt - j
              /\ After(s, j).n = s.n
         /\ First(s, s.cnt)
         /\ Underflows(After(s, s.cnt - 1))
<1> DEFINE P == {j \in Nat : j < s.cnt => /\ Counting(After(s, j).state)
                                          /\ After(s, j).cnt = s.cnt - j
                                          /\ After(s, j).n = s.n}
<1>1. s.cnt \in Nat /\ s.n \in Nat
  BY WordFacts DEF Timers, Words
<1>2. 0 \in P
  BY <1>1, RunFacts
<1>3. ASSUME NEW j \in Nat, j \in P PROVE j + 1 \in P
  <2> SUFFICES ASSUME j + 1 < s.cnt PROVE j + 1 \in P
    BY <1>1
  <2> DEFINE u == After(s, j)
  <2>1. u \in Timers /\ After(s, j + 1) = Turn(u)
    BY RunFacts
  <2>2. Counting(u.state) /\ u.cnt = s.cnt - j /\ u.n = s.n
    BY <1>1, <1>3
  <2> HIDE DEF u
  <2>3. u.cnt > 1 /\ u.cnt > 0
    BY <1>1, <2>2
  <2>4. Counting(Turn(u).state) /\ Turn(u).cnt = u.cnt - 1 /\ Turn(u).n = u.n
    BY <2>1, <2>2, <2>3, CountingTurn
  <2> QED BY <1>1, <2>1, <2>2, <2>4
<1>4. Nat \subseteq P
  <2> HIDE DEF P
  <2> QED BY <1>2, <1>3, NatInd
<1>5. \A j \in 0 .. s.cnt - 1 : /\ Counting(After(s, j).state)
                                /\ After(s, j).cnt = s.cnt - j /\ After(s, j).n = s.n
  BY <1>1, <1>4
<1> DEFINE v == After(s, s.cnt - 1)
<1>6. s.cnt - 1 \in Nat /\ (s.cnt - 1) + 1 = s.cnt /\ s.cnt - 1 \in 0 .. s.cnt - 1
      /\ s.cnt - (s.cnt - 1) = 1
  BY <1>1
<1>7. v \in Timers /\ Counting(v.state) /\ v.cnt = 1 /\ v.n = s.n
  BY <1>5, <1>6, RunFacts
<1>8. Underflows(v)
  <2> HIDE DEF v
  <2> QED BY <1>7, CountingTurn
<1>9. After(s, s.cnt) = Turn(v)
  BY <1>6, RunFacts
<1>10. First(s, s.cnt)
  <2> HIDE DEF v
  <2>1. Turn(v).n = s.n + 1
    BY <1>7, <1>8, TurnFacts
  <2>2. After(s, s.cnt - 1).n = s.n
    BY <1>7 DEF v
  <2> QED BY <1>1, <1>9, <2>1, <2>2 DEF First
<1> QED BY <1>5, <1>8, <1>10

\* A timer that may be at zero only before a cycle in which it underflows.
Clean(s) == "COUNT3" \in s.state => s.cnt > 0

\* Running and not at zero before a cycle that counts: what ciat_set_alarm()
\* relies on.
Weak(s) == "COUNT3" \in s.state /\ "START" \in s.state => s.cnt > 0

\* A cycle does not end at zero.
LEMMA TurnClean ==
  ASSUME NEW s \in Timers
  PROVE  Clean(Turn(s)) /\ ("OUT" \in Turn(s).state => "LOAD" \in Turn(s).state)
<1>1. Left(s) \in Nat
  BY WordFacts DEF Left, Timers, Words
<1>2. "COUNT3" \in Turn(s).state => Turn(s).cnt = Left(s) /\ Left(s) # 0
  BY TurnBits, TurnFacts DEF Underflows, Loads
<1> QED BY <1>1, <1>2, TurnBits DEF Clean, Loads

\* ciat_set_alarm() knows the alarm: it underflowed, counts or stands still.
Decided(s, u) == u.n > s.n \/ Counting(u.state) \/ Stopped(u.state)

\* The loop of ciat_set_alarm() ends: after four cycles a timer has underflown,
\* counts evenly or stands still.
LEMMA DecidedSoon ==
  ASSUME NEW s \in Timers
  PROVE  \E i \in 0 .. 4 : Decided(s, After(s, i))
<1> SUFFICES ASSUME \A i \in 0 .. 4 : ~Decided(s, After(s, i)) PROVE FALSE
  OBVIOUS
<1> DEFINE a == After(s, 0)
           b == After(s, 1)
           c == After(s, 2)
           d == After(s, 3)
           e == After(s, 4)
<1>1. /\ a \in Timers /\ b \in Timers /\ c \in Timers /\ d \in Timers /\ e \in Timers
      /\ b = Turn(a) /\ c = Turn(b) /\ d = Turn(c) /\ e = Turn(d)
  <2>1. 0 + 1 = 1 /\ 1 + 1 = 2 /\ 2 + 1 = 3 /\ 3 + 1 = 4
    OBVIOUS
  <2> QED BY <2>1, RunFacts
<1>2. /\ ~Decided(s, a) /\ ~Decided(s, b) /\ ~Decided(s, c) /\ ~Decided(s, d)
      /\ ~Decided(s, e)
  OBVIOUS
<1>3. a.n >= s.n /\ b.n >= s.n /\ c.n >= s.n /\ d.n >= s.n /\ e.n >= s.n
  BY AfterKeeps
<1> HIDE DEF a, b, c, d, e
<1>4. a.n = s.n /\ b.n = s.n /\ c.n = s.n /\ d.n = s.n /\ e.n = s.n
  <2>1. \A u \in Timers : u.n \in Nat
    BY DEF Timers
  <2> QED BY <1>1, <1>2, <1>3, <2>1 DEF Decided
<1>5. ~Underflows(a) /\ ~Underflows(b) /\ ~Underflows(c) /\ ~Underflows(d)
  <2>1. \A u \in Timers : u.n \in Nat
    BY DEF Timers
  <2> QED BY <1>1, <1>4, <2>1, TurnFacts
<1>6. ~Ends(a) /\ ~Ends(b) /\ ~Ends(c) /\ ~Ends(d)
  BY <1>5 DEF Ends
<1>7. /\ "LOAD1" \in b.state <=> "FLOAD" \in a.state
      /\ "FLOAD" \notin b.state /\ "STEP" \notin b.state
      /\ "CR_ONESHOT" \in b.state <=> "CR_ONESHOT" \in a.state
      /\ "ONESHOT0" \in b.state <=> "CR_ONESHOT" \in a.state
      /\ "START" \in b.state <=> "START" \in a.state
      /\ "PHI2IN" \in b.state <=> "PHI2IN" \in a.state
      /\ "COUNT2" \in b.state <=> "START" \in a.state /\ "PHI2IN" \in a.state
  BY <1>1, <1>6, TurnBits
<1>8. /\ "LOAD1" \notin c.state
      /\ "FLOAD" \notin c.state /\ "STEP" \notin c.state
      /\ "CR_ONESHOT" \in c.state <=> "CR_ONESHOT" \in a.state
      /\ "ONESHOT0" \in c.state <=> "CR_ONESHOT" \in a.state
      /\ "ONESHOT" \in c.state <=> "CR_ONESHOT" \in a.state
      /\ "START" \in c.state <=> "START" \in a.state
      /\ "PHI2IN" \in c.state <=> "PHI2IN" \in a.state
      /\ "COUNT2" \in c.state <=> "START" \in a.state /\ "PHI2IN" \in a.state
  BY <1>1, <1>6, <1>7, TurnBits
<1>9. ~Loads(c) /\ ("COUNT2" \in c.state <=> Counts(c.state))
  BY <1>5, <1>8 DEF Loads, Counts
<1>10.
      /\ "LOAD1" \notin d.state /\ "LOAD" \notin d.state
      /\ "FLOAD" \notin d.state /\ "STEP" \notin d.state
      /\ "CR_ONESHOT" \in d.state <=> "CR_ONESHOT" \in a.state
      /\ "ONESHOT0" \in d.state <=> "CR_ONESHOT" \in a.state
      /\ "ONESHOT" \in d.state <=> "CR_ONESHOT" \in a.state
      /\ "START" \in d.state <=> "START" \in a.state
      /\ "PHI2IN" \in d.state <=> "PHI2IN" \in a.state
      /\ "COUNT2" \in d.state <=> "START" \in a.state /\ "PHI2IN" \in a.state
      /\ "COUNT3" \in d.state <=> "START" \in a.state /\ "PHI2IN" \in a.state
  BY <1>1, <1>6, <1>8, <1>9, TurnBits
<1>11. ~Loads(d) /\ ("COUNT2" \in d.state <=> Counts(d.state))
  BY <1>5, <1>10 DEF Loads, Counts
<1>12.
      /\ "LOAD1" \notin e.state /\ "LOAD" \notin e.state
      /\ "FLOAD" \notin e.state /\ "STEP" \notin e.state
      /\ "CR_ONESHOT" \in e.state <=> "CR_ONESHOT" \in a.state
      /\ "ONESHOT0" \in e.state <=> "CR_ONESHOT" \in a.state
      /\ "ONESHOT" \in e.state <=> "CR_ONESHOT" \in a.state
      /\ "START" \in e.state <=> "START" \in a.state
      /\ "PHI2IN" \in e.state <=> "PHI2IN" \in a.state
      /\ "COUNT2" \in e.state <=> "START" \in a.state /\ "PHI2IN" \in a.state
      /\ "COUNT3" \in e.state <=> "START" \in a.state /\ "PHI2IN" \in a.state
      /\ "COUNT" \in e.state <=> "START" \in a.state /\ "PHI2IN" \in a.state
  BY <1>1, <1>6, <1>10, <1>11, TurnBits
<1>13. Counting(e.state) \/ Stopped(e.state)
  BY <1>12, CountingBits, StoppedBits
<1> QED BY <1>2, <1>13 DEF Decided

\* a is the clock of the next underflow of s, or NEVER if there is none.
AlarmOf(s, a) == \/ a = NEVER /\ Silent(s)
                 \/ \E k \in Nat : First(s, k) /\ a = k - s.lag /\ k <= WORD + 4

\* ciat_set_alarm() finds the clock of the next underflow, if there is one,
\* whatever the state of the pipeline.
LEMMA SetAlarm ==
  ASSUME NEW s \in Timers, Weak(s)
  PROVE  \E a \in Int : ciat_set_alarm(s) = [s EXCEPT !.alarm = a] /\ AlarmOf(s, a)
<1> DEFINE sim == Runs(s)
           decided(u) == u.n > s.n \/ Counting(u.state) \/ Stopped(u.state)
           Q(k) == decided(sim[k]) /\ \A j \in 0 .. k - 1 : ~decided(sim[j])
           i == CHOOSE k \in 0 .. NEVER : Q(k)
<1>1. ciat_set_alarm(s) = AlarmSet(s, sim[i], i)
  BY DEF ciat_set_alarm, Runs, Turn
<1>2. \A k : sim[k] = After(s, k)
  BY DEF After
<1> HIDE DEF sim
<1>3. \A k \in Nat : decided(sim[k]) <=> Decided(s, After(s, k))
  BY <1>2 DEF Decided
<1> HIDE DEF decided
<1>4. \E k \in 0 .. 4 : Q(k)
  <2>1. PICK m \in 0 .. 4 : decided(sim[m])
    BY <1>3, DecidedSoon
  <2> USE DEF Q
  <2>2. CASE decided(sim[0])
    BY <2>2
  <2>3. CASE ~decided(sim[0]) /\ decided(sim[1])
    BY <2>3
  <2>4. CASE ~decided(sim[0]) /\ ~decided(sim[1]) /\ decided(sim[2])
    BY <2>4
  <2>5. CASE ~decided(sim[0]) /\ ~decided(sim[1]) /\ ~decided(sim[2]) /\ decided(sim[3])
    BY <2>5
  <2>6. CASE ~decided(sim[0]) /\ ~decided(sim[1]) /\ ~decided(sim[2]) /\ ~decided(sim[3])
             /\ decided(sim[4])
    BY <2>6
  <2>7. m = 0 \/ m = 1 \/ m = 2 \/ m = 3 \/ m = 4
    OBVIOUS
  <2> QED BY <2>1, <2>2, <2>3, <2>4, <2>5, <2>6, <2>7
<1>5. i \in 0 .. NEVER /\ Q(i)
  <2>1. \E k \in 0 .. NEVER : Q(k)
    BY <1>4, WordFacts
  <2> HIDE DEF Q
  <2> QED BY <2>1
<1>6. i <= 4
  <2>1. PICK k \in 0 .. 4 : Q(k)
    BY <1>4
  <2>2. i > k => FALSE
    BY <1>5, <2>1
  <2> QED BY <1>5, <2>1, <2>2
<1> HIDE DEF i
<1> DEFINE u == After(s, i)
<1>7. i \in Nat
  BY <1>5
<1>8. u \in Timers /\ u.n >= s.n /\ s.n \in Nat /\ u.n \in Nat /\ u.cnt \in Nat /\ u.cnt < WORD
      /\ s.lag \in Int
  BY <1>7, AfterKeeps, WordFacts DEF Timers, Words
<1>9. Decided(s, u) /\ \A j \in 0 .. i - 1 : ~Decided(s, After(s, j))
  <2>1. \A j \in 0 .. i - 1 : j \in Nat
    BY <1>7
  <2> QED BY <1>3, <1>5, <1>7, <2>1
<1>10. ciat_set_alarm(s) = AlarmSet(s, u, i)
  BY <1>1, <1>2
<1> HIDE DEF u
<1>11. CASE u.n > s.n
  <2>1. i # 0
    BY <1>8, <1>11, RunFacts DEF u
  <2>2. i - 1 \in Nat /\ (i - 1) + 1 = i /\ i - 1 \in 0 .. i - 1
    BY <1>7, <2>1
  <2>3. After(s, i - 1).n = s.n
    <3>1. After(s, i - 1).n >= s.n /\ After(s, i - 1).n \in Nat
      BY <2>2, AfterKeeps DEF Timers
    <3>2. ~(After(s, i - 1).n > s.n)
      BY <1>9, <2>2 DEF Decided
    <3> QED BY <1>8, <3>1, <3>2
  <2>4. u.n = s.n + 1
    <3>1. After(s, i) = Turn(After(s, i - 1)) /\ After(s, i - 1) \in Timers
      BY <2>2, RunFacts
    <3> QED BY <1>8, <1>11, <2>3, <3>1, TurnFacts DEF u
  <2>5. First(s, i)
    BY <1>7, <2>1, <2>3, <2>4 DEF First, u
  <2>6. AlarmSet(s, u, i) = [s EXCEPT !.alarm = i - s.lag]
    <3>1. i \in Int /\ s.lag \in Int /\ ~(u.n = s.n)
      BY <1>7, <1>8, <1>11
    <3>2. (CASE u.n > s.n -> i - s.lag
             [] u.n = s.n /\ Counting(u.state) -> i + u.cnt - s.lag
             [] u.n = s.n /\ ~Counting(u.state) -> NEVER) = i - s.lag
      BY <1>11, <3>1
    <3> QED BY <3>2 DEF AlarmSet
  <2>7. i - s.lag \in Int /\ i <= WORD + 4
    BY <1>6, <1>7, <1>8, WordFacts
  <2> QED BY <1>7, <1>10, <2>5, <2>6, <2>7 DEF AlarmOf
<1>12. CASE u.n = s.n /\ Counting(u.state)
  <2>1. u.cnt > 0
    <3>1. CASE i = 0
      <4>1. u = s
        BY <3>1, RunFacts DEF u
      <4> QED BY <1>8, <1>12, <4>1, CountingBits DEF Weak
    <3>2. CASE i # 0
      <4>1. i - 1 \in Nat /\ (i - 1) + 1 = i
        BY <1>7, <3>2
      <4>2. u = Turn(After(s, i - 1)) /\ After(s, i - 1) \in Timers
        BY <4>1, RunFacts DEF u
      <4>3. Clean(u)
        BY <4>2, TurnClean
      <4> QED BY <1>12, <4>3, CountingBits DEF Clean
    <3> QED BY <3>1, <3>2
  <2>2. First(u, u.cnt)
    BY <1>8, <1>12, <2>1, CountingAfter
  <2>3. First(s, i + u.cnt)
    BY <1>7, <1>12, <2>2, FirstAdd DEF u
  <2>4. AlarmSet(s, u, i) = [s EXCEPT !.alarm = (i + u.cnt) - s.lag]
    <3>1. ~(u.n > s.n)
      BY <1>8, <1>12
    <3>2. (CASE u.n > s.n -> i - s.lag
             [] u.n = s.n /\ Counting(u.state) -> i + u.cnt - s.lag
             [] u.n = s.n /\ ~Counting(u.state) -> NEVER) = (i + u.cnt) - s.lag
      BY <1>7, <1>8, <1>12, <3>1
    <3> QED BY <3>2 DEF AlarmSet
  <2>5. i + u.cnt \in Nat /\ (i + u.cnt) - s.lag \in Int /\ i + u.cnt <= WORD + 4
    BY <1>6, <1>7, <1>8, WordFacts
  <2> QED BY <1>10, <2>3, <2>4, <2>5 DEF AlarmOf
<1>13. CASE u.n = s.n /\ ~Counting(u.state)
  <2>1. Stopped(u.state)
    BY <1>8, <1>9, <1>13 DEF Decided
  <2>2. Silent(u)
    BY <1>8, <2>1, StoppedBits, StoppedSilent DEF Resting
  <2>3. Silent(s)
    BY <1>7, <1>13, <2>2, SilentAdd DEF u
  <2>4. AlarmSet(s, u, i) = [s EXCEPT !.alarm = NEVER]
    <3>1. ~(u.n > s.n)
      BY <1>8, <1>13
    <3> QED BY <1>13, <3>1 DEF AlarmSet
  <2> QED BY <1>10, <2>3, <2>4, WordFacts DEF AlarmOf
<1> QED BY <1>8, <1>11, <1>12, <1>13

\* A timer at zero in a cycle in which it counts.
Zero(s) == s.cnt = 0 /\ "COUNT3" \in s.state

\* The counter is reloaded.
Loading(s) == "LOAD" \in s.state \/ Zero(s)

\* Settle(s) field by field.
SettledState(s) ==
  LET out == s.state \cup (IF Zero(s) THEN {"LOAD", "OUT"} ELSE {})
      loaded == IF "LOAD" \in out THEN out \ {"COUNT3"} ELSE out
      once == "OUT" \in loaded /\ loaded \cap {"ONESHOT", "ONESHOT0"} # {}
  IN  IF once THEN loaded \ {"START", "COUNT2"} ELSE loaded

\* The end of a turn of the loops, field by field.
LEMMA SettleFacts ==
  ASSUME NEW s \in Timers
  PROVE  /\ Settle(s) \in Timers
         /\ Settle(s).lag = s.lag /\ Settle(s).alarm = s.alarm
         /\ Settle(s).latch = s.latch
         /\ Settle(s).cnt = IF Loading(s) THEN s.latch ELSE s.cnt
         /\ Settle(s).n = IF Zero(s) THEN s.n + 1 ELSE s.n
         /\ Settle(s).state = SettledState(s)
<1> DEFINE out == s.state \cup (IF Zero(s) THEN {"LOAD", "OUT"} ELSE {})
           loaded == IF "LOAD" \in out THEN out \ {"COUNT3"} ELSE out
           once == "OUT" \in loaded /\ loaded \cap {"ONESHOT", "ONESHOT0"} # {}
           st == IF once THEN loaded \ {"START", "COUNT2"} ELSE loaded
<1>1. st = SettledState(s)
  BY DEF SettledState
<1>2. "LOAD" \in out <=> Loading(s)
  BY DEF Loading
<1>3. Settle(s) = [s EXCEPT !.cnt = IF "LOAD" \in out THEN s.latch ELSE s.cnt,
                            !.state = st, !.n = IF Zero(s) THEN s.n + 1 ELSE s.n]
  BY DEF Settle, Zero
<1>4. st \subseteq Bits
  <2>1. out \subseteq Bits
    BY DEF Timers, Bits
  <2> HIDE DEF out, once
  <2> QED BY <2>1
<1>5. Settle(s) = [state |-> st, cnt |-> IF Loading(s) THEN s.latch ELSE s.cnt,
                   latch |-> s.latch, lag |-> s.lag, alarm |-> s.alarm,
                   n |-> IF Zero(s) THEN s.n + 1 ELSE s.n]
  <2> HIDE DEF st, out
  <2>1. s = [state |-> s.state, cnt |-> s.cnt, latch |-> s.latch, lag |-> s.lag,
             alarm |-> s.alarm, n |-> s.n]
    BY DEF Timers
  <2> QED BY <1>2, <1>3, <2>1
<1> HIDE DEF st
<1> QED BY <1>1, <1>4, <1>5 DEF Timers

\* The end of a turn of the loops, bit by bit.
LEMMA SettleBits ==
  ASSUME NEW s \in Timers
  PROVE  /\ "LOAD" \in Settle(s).state <=> Loading(s)
         /\ "OUT" \in Settle(s).state <=> "OUT" \in s.state \/ Zero(s)
         /\ "COUNT3" \in Settle(s).state <=> "COUNT3" \in s.state /\ ~Loading(s)
         /\ "STEP" \in Settle(s).state <=> "STEP" \in s.state
         /\ "START" \in Settle(s).state => "START" \in s.state
         /\ Settle(s).state \ {"LOAD", "OUT"} \subseteq s.state
<1> DEFINE out == s.state \cup (IF Zero(s) THEN {"LOAD", "OUT"} ELSE {})
           loaded == IF "LOAD" \in out THEN out \ {"COUNT3"} ELSE out
           once == "OUT" \in loaded /\ loaded \cap {"ONESHOT", "ONESHOT0"} # {}
           st == IF once THEN loaded \ {"START", "COUNT2"} ELSE loaded
<1>1. st = Settle(s).state
  BY SettleFacts DEF SettledState
<1>2. /\ "LOAD" \in out <=> Loading(s)
      /\ "OUT" \in out <=> "OUT" \in s.state \/ Zero(s)
      /\ "COUNT3" \in out <=> "COUNT3" \in s.state
      /\ "STEP" \in out <=> "STEP" \in s.state
      /\ "START" \in out <=> "START" \in s.state
      /\ out \ {"LOAD", "OUT"} \subseteq s.state
  BY DEF Loading
<1> HIDE DEF out
<1>3. /\ "LOAD" \in loaded <=> "LOAD" \in out
      /\ "OUT" \in loaded <=> "OUT" \in out
      /\ "COUNT3" \in loaded <=> "COUNT3" \in out /\ "LOAD" \notin out
      /\ "STEP" \in loaded <=> "STEP" \in out
      /\ "START" \in loaded <=> "START" \in out
      /\ loaded \subseteq out
  OBVIOUS
<1> HIDE DEF loaded, once
<1>4. /\ "LOAD" \in st <=> "LOAD" \in loaded
      /\ "OUT" \in st <=> "OUT" \in loaded
      /\ "COUNT3" \in st <=> "COUNT3" \in loaded
      /\ "STEP" \in st <=> "STEP" \in loaded
      /\ "START" \in st => "START" \in loaded
      /\ st \subseteq loaded
  OBVIOUS
<1> HIDE DEF st
<1> QED BY <1>1, <1>2, <1>3, <1>4

\* Settle() looks at the state, the counter and the latch only.
LEMMA SettleParts ==
  ASSUME NEW s \in Timers, NEW t \in Timers,
         s.state = t.state, s.cnt = t.cnt, s.latch = t.latch
  PROVE  /\ Settle(s).state = Settle(t).state /\ Settle(s).cnt = Settle(t).cnt
         /\ Settle(s).latch = Settle(t).latch
         /\ Settle(s).n - s.n = Settle(t).n - t.n
<1>1. Zero(s) <=> Zero(t)
  BY DEF Zero
<1>2. Loading(s) <=> Loading(t)
  BY <1>1 DEF Loading
<1>3. SettledState(s) = SettledState(t)
  BY <1>1 DEF SettledState
<1>4. s.n \in Nat /\ t.n \in Nat
  BY DEF Timers
<1> QED BY <1>1, <1>2, <1>3, <1>4, SettleFacts

\* A timer that is neither at zero nor loading is left alone.
LEMMA SettleQuiet ==
  ASSUME NEW s \in Timers, ~Zero(s),
         "LOAD" \in s.state => s.cnt = s.latch /\ "COUNT3" \notin s.state,
         "OUT" \in s.state => "ONESHOT" \notin s.state /\ "ONESHOT0" \notin s.state
  PROVE  Settle(s) = s
<1>1. SettledState(s) = s.state
  <2> DEFINE out == s.state \cup (IF Zero(s) THEN {"LOAD", "OUT"} ELSE {})
             loaded == IF "LOAD" \in out THEN out \ {"COUNT3"} ELSE out
             once == "OUT" \in loaded /\ loaded \cap {"ONESHOT", "ONESHOT0"} # {}
  <2>1. out = s.state
    OBVIOUS
  <2>2. loaded = s.state
    BY <2>1
  <2>3. ~once
    BY <2>2
  <2> QED BY <2>2, <2>3 DEF SettledState
<1>2. Settle(s).cnt = s.cnt
  BY SettleFacts DEF Loading
<1> QED BY <1>1, <1>2, SettleFacts, TimerEqual

\* Division rounds down.
LEMMA DivFacts ==
  ASSUME NEW a \in Nat, NEW b \in Nat \ {0}
  PROVE  a \div b \in Nat /\ (a \div b) * b \in Nat /\ (a \div b) * b <= a
<1>1. a \div b \in Int /\ a % b \in 0 .. b - 1
  OBVIOUS
<1>2. a = b * (a \div b) + (a % b)
  OBVIOUS
<1>3. a \div b \in Nat
  OBVIOUS
<1> DEFINE q == a \div b
           r == a % b
<1>4. b * q = q * b
  BY <1>3
<1>5. q * b \in Nat
  BY <1>3
<1> HIDE DEF q, r
<1> QED BY <1>1, <1>2, <1>3, <1>4, <1>5 DEF q, r

\* The state of a timer that counts evenly stays.
LEMMA EvenState ==
  ASSUME NEW s \in Timers, Counting(s.state), "OUT" \notin s.state,
         "STEP" \notin s.state
  PROVE  NextState(s.state) = s.state
<1> DEFINE a == s.state
           b == NextState(a)
<1>1. a \subseteq Bits /\ b \subseteq Bits
  BY NextBits DEF Timers
<1>2. a = b <=> \A x \in Bits : x \in a <=> x \in b
  <2> HIDE DEF a, b
  <2> QED BY <1>1
<1>3. \A x \in {"FLOAD", "STEP", "OUT"} : x \notin b
  BY NextBits
<1> HIDE DEF b
<1>4. \A x \in Bits : x \in a <=> x \in b
  BY <1>3, NextBits, CountingBits DEF Bits, b
<1> QED BY <1>2, <1>4 DEF b

\* The counting part of a cycle.
LEMMA IncFacts ==
  ASSUME NEW s \in Timers
  PROVE  /\ Inc(s) \in Timers /\ Inc(s).state = NextState(s.state)
         /\ Inc(s).cnt = Left(s) /\ Inc(s).latch = s.latch /\ Inc(s).lag = s.lag
         /\ Inc(s).alarm = s.alarm /\ Inc(s).n = s.n
<1>1. Inc(s) = [s EXCEPT !.cnt = Left(s), !.state = NextState(s.state)]
  BY DEF Inc, Left
<1>2. NextState(s.state) \in SUBSET Bits
  BY NextBits
<1>3. Left(s) \in Words
  BY WordFacts DEF Left, Timers, Words
<1> QED BY <1>1, <1>2, <1>3 DEF Timers

\* A timer that counts evenly: j cycles only move the counter on.
LEMMA EvenRun ==
  ASSUME NEW s \in Timers, Counting(s.state), "OUT" \notin s.state,
         "STEP" \notin s.state, s.cnt > 0
  PROVE  \A j \in 0 .. s.cnt - 1 : After(s, j) = [s EXCEPT !.cnt = s.cnt - j]
<1> DEFINE P == {j \in Nat : j < s.cnt => After(s, j) = [s EXCEPT !.cnt = s.cnt - j]}
<1>1. s.cnt \in Nat
  BY WordFacts DEF Timers, Words
<1>2. 0 \in P
  <2>1. s = [s EXCEPT !.cnt = s.cnt - 0]
    BY <1>1 DEF Timers
  <2> QED BY <2>1, RunFacts
<1>3. ASSUME NEW j \in Nat, j \in P PROVE j + 1 \in P
  <2> SUFFICES ASSUME j + 1 < s.cnt PROVE After(s, j + 1) = [s EXCEPT !.cnt = s.cnt - (j + 1)]
    BY <1>1
  <2> DEFINE u == [s EXCEPT !.cnt = s.cnt - j]
             v == [s EXCEPT !.cnt = s.cnt - (j + 1)]
  <2>1. After(s, j + 1) = Turn(u) /\ u \in Timers
    <3>1. After(s, j) = u
      BY <1>1, <1>3
    <3> QED BY <3>1, RunFacts
  <2>2. v \in Timers /\ v.cnt # 0 /\ v.state = s.state
    BY <1>1, WordFacts DEF Timers, Words
  <2>3. u.state = s.state /\ u.cnt = s.cnt - j
    BY DEF Timers
  <2>4. Left(u) = s.cnt - (j + 1)
    BY <1>1, <2>3, CountingBits DEF Left
  <2>5. Inc(u) = v
    <3>1. Inc(u) = [u EXCEPT !.cnt = Left(u), !.state = NextState(u.state)]
      BY DEF Inc, Left
    <3>2. NextState(u.state) = s.state
      BY <2>3, EvenState
    <3>3. Inc(u) \in Timers /\ Inc(u).state = s.state /\ Inc(u).cnt = v.cnt
          /\ Inc(u).latch = s.latch /\ Inc(u).lag = s.lag /\ Inc(u).alarm = s.alarm
          /\ Inc(u).n = s.n
      BY <2>1, <2>3, <2>4, <3>2, IncFacts DEF Timers
    <3>4. v.latch = s.latch /\ v.lag = s.lag /\ v.alarm = s.alarm /\ v.n = s.n
      BY DEF Timers
    <3> QED BY <2>2, <3>3, <3>4, TimerEqual
  <2>6. Settle(v) = v
    BY <2>2, SettleQuiet, CountingBits DEF Zero
  <2> QED BY <2>1, <2>5, <2>6 DEF Turn
<1>4. Nat \subseteq P
  <2> HIDE DEF P
  <2> QED BY <1>2, <1>3, NatInd
<1> QED BY <1>1, <1>4

\* It underflows when the counter runs out.
LEMMA EvenEnd ==
  ASSUME NEW s \in Timers, Counting(s.state), "OUT" \notin s.state,
         "STEP" \notin s.state, s.cnt > 0
  PROVE  After(s, s.cnt) = Settle([s EXCEPT !.cnt = 0])
<1> DEFINE u == After(s, s.cnt - 1)
           v == [s EXCEPT !.cnt = 0]
<1>1. s.cnt \in Nat /\ s.cnt - 1 \in Nat /\ s.cnt - 1 \in 0 .. s.cnt - 1
      /\ (s.cnt - 1) + 1 = s.cnt /\ s.cnt - (s.cnt - 1) = 1
  BY WordFacts DEF Timers, Words
<1>2. u = [s EXCEPT !.cnt = 1] /\ u \in Timers
  <2>1. u = [s EXCEPT !.cnt = s.cnt - (s.cnt - 1)]
    BY <1>1, EvenRun
  <2>2. u = [s EXCEPT !.cnt = 1]
    BY <1>1, <2>1
  <2> QED BY <1>1, <2>2, RunFacts
<1>3. After(s, s.cnt) = Turn(u)
  BY <1>1, RunFacts
<1>4. v \in Timers
  BY WordFacts DEF Timers, Words
<1>5. Inc(u) = v
  <2>1. u.state = s.state /\ u.cnt = 1 /\ u.latch = s.latch /\ u.lag = s.lag /\ u.alarm = s.alarm
        /\ u.n = s.n
    BY <1>2 DEF Timers
  <2>2. v.state = s.state /\ v.cnt = 0 /\ v.latch = s.latch /\ v.lag = s.lag /\ v.alarm = s.alarm
        /\ v.n = s.n
    BY DEF Timers
  <2> HIDE DEF u, v
  <2>3. Left(u) = 0
    BY <2>1, CountingBits DEF Left
  <2>4. NextState(u.state) = s.state
    BY <2>1, EvenState
  <2>5. u \in Timers
    BY <1>2
  <2>6. /\ Inc(u) \in Timers /\ Inc(u).state = v.state /\ Inc(u).cnt = v.cnt
        /\ Inc(u).latch = v.latch /\ Inc(u).lag = v.lag /\ Inc(u).alarm = v.alarm
        /\ Inc(u).n = v.n
    BY <2>1, <2>2, <2>3, <2>4, <2>5, IncFacts
  <2> QED BY <1>4, <2>6, TimerEqual
<1> QED BY <1>3, <1>5 DEF Turn

\* A timer that has just underflown and runs on.
Reloaded(s) == /\ s.state \ {"COUNT"} = {"START", "PHI2IN", "COUNT2", "LOAD", "OUT"}
               /\ s.cnt = s.latch

\* A timer that has just been reloaded is so again after a period.
LEMMA Period ==
  ASSUME NEW s \in Timers, Reloaded(s)
  PROVE  LET p == After(s, s.latch + 1) IN Same(p, s) /\ p.n = s.n + 1
<1>1. s.latch \in Nat /\ s.latch + 1 \in Nat /\ s.n \in Nat
  BY WordFacts DEF Timers, Words
<1> DEFINE u == Turn(s)
<1>2. u \in Timers /\ u.latch = s.latch /\ u = After(s, 1)
  BY RunFacts, TurnFacts
<1>3. /\ "START" \in s.state /\ "PHI2IN" \in s.state /\ "COUNT2" \in s.state
      /\ "LOAD" \in s.state /\ "OUT" \in s.state /\ "COUNT3" \notin s.state
      /\ "CR_ONESHOT" \notin s.state /\ "ONESHOT0" \notin s.state /\ "ONESHOT" \notin s.state
      /\ "FLOAD" \notin s.state /\ "LOAD1" \notin s.state /\ "STEP" \notin s.state
  BY DEF Reloaded
<1>4. Left(s) = s.latch /\ Counts(s.state)
  BY <1>3 DEF Left, Counts, Reloaded
<1>5. Underflows(s) <=> s.latch = 0
  BY <1>4 DEF Underflows
<1>6. ~Ends(s) /\ (Loads(s) <=> s.latch = 0)
  BY <1>3, <1>5 DEF Ends, Loads
<1>7. CASE s.latch = 0
  <2>1. s.latch + 1 = 1
    BY <1>7
  <2>2. u.n = s.n + 1 /\ u.cnt = s.latch
    BY <1>5, <1>6, <1>7, TurnFacts
  <2>3. u.state \ {"COUNT"} = s.state \ {"COUNT"}
    BY <1>2, <1>3, <1>4, <1>5, <1>6, <1>7, TurnBits, SameBits
  <2>4. s.cnt = s.latch
    BY DEF Reloaded
  <2> QED BY <1>2, <2>1, <2>2, <2>3, <2>4 DEF Same
<1>8. CASE s.latch # 0
  <2> DEFINE v == [s EXCEPT !.state = {"START", "PHI2IN", "COUNT2", "COUNT3", "COUNT"}]
  <2>1. /\ v \in Timers /\ v.cnt = s.latch /\ v.latch = s.latch /\ v.n = s.n
        /\ v.state = {"START", "PHI2IN", "COUNT2", "COUNT3", "COUNT"}
    BY DEF Timers, Bits, Reloaded
  <2> HIDE DEF v
  <2>2. u.n = s.n /\ u.cnt = s.latch
    BY <1>4, <1>5, <1>6, <1>8, TurnFacts
  <2>3. u.state \ {"COUNT"} = v.state \ {"COUNT"}
    BY <1>2, <1>3, <1>4, <1>5, <1>6, <1>8, <2>1, TurnBits, SameBits
  <2>4. Same(u, v)
    BY <1>2, <2>1, <2>2, <2>3 DEF Same
  <2>5. Counting(v.state) /\ "OUT" \notin v.state /\ "STEP" \notin v.state /\ v.cnt > 0
    BY <1>1, <1>8, <2>1, CountingBits
  <2> DEFINE w == [v EXCEPT !.cnt = 0]
  <2>6. After(v, s.latch) = Settle(w)
    BY <2>1, <2>5, EvenEnd
  <2>7. w \in Timers /\ w.state = v.state /\ w.cnt = 0 /\ w.latch = s.latch /\ w.n = s.n
    BY <2>1, WordFacts DEF Timers, Words
  <2> HIDE DEF w
  <2>8. Zero(w) /\ Loading(w)
    BY <2>1, <2>7 DEF Zero, Loading
  <2>9. Settle(w).cnt = s.latch /\ Settle(w).latch = s.latch /\ Settle(w).n = s.n + 1
    BY <2>7, <2>8, SettleFacts
  <2>10. Settle(w).state = {"START", "PHI2IN", "COUNT2", "COUNT", "LOAD", "OUT"}
    <3>1. Settle(w).state = SettledState(w)
      BY <2>7, SettleFacts
    <3> DEFINE out == w.state \cup {"LOAD", "OUT"}
    <3>2. out = {"START", "PHI2IN", "COUNT2", "COUNT3", "COUNT", "LOAD", "OUT"}
      BY <2>1, <2>7
    <3>3. SettledState(w) = out \ {"COUNT3"}
      BY <2>8, <3>2 DEF SettledState
    <3> QED BY <3>1, <3>2, <3>3
  <2>11. Settle(w).state \ {"COUNT"} = s.state \ {"COUNT"}
    BY <2>10 DEF Reloaded
  <2>12. Same(Settle(w), s)
    BY <2>9, <2>11 DEF Same, Reloaded
  <2>13. Same(After(u, s.latch), Settle(w)) /\ After(u, s.latch).n - u.n = Settle(w).n - v.n
    BY <1>1, <1>2, <2>1, <2>4, <2>6, SameAfter
  <2>14. After(s, s.latch + 1) = After(u, s.latch)
    BY <1>1, <1>2, AfterAdd
  <2>15. After(u, s.latch) \in Timers
    BY <1>1, <1>2, RunFacts
  <2>16. After(u, s.latch).n = s.n + 1
    <3>1. After(u, s.latch).n \in Nat
      BY <2>15 DEF Timers
    <3> QED BY <1>1, <2>1, <2>2, <2>9, <2>13, <3>1
  <2> QED BY <2>12, <2>13, <2>14, <2>16 DEF Same
<1> QED BY <1>7, <1>8

\* It underflows every latch + 1 cycles.
LEMMA Periods ==
  ASSUME NEW s \in Timers, Reloaded(s), NEW m \in Nat
  PROVE  LET p == After(s, m * (s.latch + 1)) IN Same(p, s) /\ p.n = s.n + m
<1> DEFINE L == s.latch + 1
           P == {i \in Nat : Same(After(s, i * L), s) /\ After(s, i * L).n = s.n + i}
<1>1. L \in Nat /\ s.n \in Nat
  BY WordFacts DEF Timers, Words
<1>2. 0 \in P
  <2>1. 0 * L = 0 /\ s.n + 0 = s.n
    BY <1>1
  <2> QED BY <2>1, RunFacts DEF Same
<1>3. ASSUME NEW i \in Nat, i \in P PROVE i + 1 \in P
  <2> DEFINE u == After(s, i * L)
  <2>1. i * L \in Nat /\ (i + 1) * L = i * L + L
    BY <1>1
  <2>2. u \in Timers /\ Same(u, s) /\ u.n = s.n + i
    BY <1>3, <2>1, RunFacts
  <2>3. After(s, (i + 1) * L) = After(u, L)
    <3> HIDE DEF L
    <3> QED BY <1>1, <2>1, AfterAdd
  <2> HIDE DEF u
  <2>4. Reloaded(u) /\ u.latch + 1 = L
    BY <2>2 DEF Reloaded, Same
  <2>5. Same(After(u, L), u) /\ After(u, L).n = u.n + 1
    BY <2>2, <2>4, Period
  <2>6. Same(After(u, L), s)
    BY <2>2, <2>5 DEF Same
  <2>7. u.n + 1 = s.n + (i + 1)
    BY <1>1, <2>2
  <2> QED BY <2>3, <2>5, <2>6, <2>7
<1>4. Nat \subseteq P
  <2> HIDE DEF P
  <2> QED BY <1>2, <1>3, NatInd
<1> QED BY <1>4

\* A turn of the loop of ciat_update().
Leap(s, k) == Settle(Warp(s, k))

\* The states of a timer that was left after a cycle.
Fit(s) == /\ Weak(s)
          /\ "OUT" \in s.state => "LOAD" \in s.state
          /\ "COUNT3" \in s.state => "LOAD" \notin s.state

\* The arms of Warp(): a timer with latch 1 in the middle of a period, one
\* in one-shot mode, one that counts beyond its period, one that stands still.
Special(s) == /\ s.state = {"COUNT", "OUT", "LOAD", "PHI2IN", "COUNT2", "START"}
              /\ s.cnt = 1 /\ s.latch = 1

Single(s) == s.state \cap {"CR_ONESHOT", "ONESHOT0"} # {}

\* The leap spans more than a period (the code compares 16 bits).
Beyond(s, k) == (k - s.cnt) % WORD >= s.latch + 1

\* A timer that stands still, with no load under way.
Idle(s) == Stopped(s.state) /\ s.state \cap {"FLOAD", "LOAD1", "LOAD"} = {}

\* The arms of Warp(), one by one.
LEMMA Warps ==
  ASSUME NEW s \in Timers, NEW k \in Nat \ {0}
  PROVE  \/ /\ Counting(s.state) /\ s.cnt > k
            /\ Warp(s, k) = [s EXCEPT !.cnt = s.cnt - k, !.lag = s.lag - k]
         \/ /\ Counting(s.state) /\ s.cnt <= k
            /\ Warp(s, k) = [s EXCEPT !.cnt = 0, !.lag = s.lag - s.cnt]
         \/ /\ Counting(s.state) /\ s.cnt <= k /\ ~Single(s)
            /\ LET m == (k - s.cnt) \div (s.latch + 1)
               IN  Warp(s, k) = [s EXCEPT !.cnt = 0, !.n = s.n + m,
                                   !.lag = s.lag - s.cnt - m * (s.latch + 1)]
         \/ /\ Idle(s)
            /\ Warp(s, k) = [s EXCEPT !.lag = s.lag - k]
         \/ /\ Special(s) /\ k > 1
            /\ Warp(s, k) = [s EXCEPT !.lag = s.lag - (k - (k % 2)), !.n = s.n + k \div 2]
         \/ /\ Special(s) /\ k = 1
            /\ Warp(s, k) = [s EXCEPT !.state = NextState(s.state), !.lag = s.lag - 1]
         \/ Warp(s, k) = [Inc(s) EXCEPT !.lag = s.lag - 1]
<1> DEFINE left == k - s.cnt
           m == left \div (s.latch + 1)
           w1 == [s EXCEPT !.cnt = s.cnt - k, !.lag = s.lag - k]
           w2 == [s EXCEPT !.cnt = 0, !.lag = s.lag - s.cnt]
           w3 == [s EXCEPT !.cnt = 0, !.n = s.n + m,
                       !.lag = s.lag - s.cnt - m * (s.latch + 1)]
           w4 == [s EXCEPT !.lag = s.lag - k]
           w5 == IF k > 1
             THEN [s EXCEPT !.lag = @ - (k - (k % 2)), !.n = @ + k \div 2]
             ELSE [s EXCEPT !.state = NextState(s.state), !.lag = s.lag - 1]
           w6 == [Inc(s) EXCEPT !.lag = s.lag - 1]
           short == left % WORD < s.latch + 1
           a == Counting(s.state)
           g == s.cnt > k
           h == s.cnt <= k
           b == Beyond(s, k)
           x == Idle(s)
           y == Special(s)
           z == Single(s)
<1>1. Warp(s, k) = CASE a /\ g -> w1
                     [] a /\ h /\ (z \/ short) -> w2
                     [] a /\ h /\ ~z /\ b -> w3
                     [] x -> w4
                     [] y -> w5
                     [] OTHER -> w6
  BY DEF Warp, Single, Beyond, Idle, Special
<1>2. ~(a /\ x) /\ ~(a /\ y) /\ ~(x /\ y)
  <2>1. a => "COUNT3" \in s.state
    BY CountingBits
  <2>2. x => "COUNT2" \notin s.state /\ "COUNT3" \notin s.state
    BY StoppedBits DEF Idle
  <2>3. y => "COUNT2" \in s.state /\ "COUNT3" \notin s.state
    BY DEF Special
  <2> QED BY <2>1, <2>2, <2>3
<1>3. s.cnt \in Nat /\ s.latch \in Nat /\ WORD \in Nat /\ WORD >= 1
  BY WordFacts DEF Timers, Words
<1>4. (g <=> ~h) /\ (b <=> ~short)
  <2>1. left % WORD \in Int
    BY <1>3
  <2> QED BY <1>3, <2>1 DEF Beyond
<1>5. k > 1 \/ k = 1
  OBVIOUS
<1>6. w5 = IF k > 1
           THEN [s EXCEPT !.lag = s.lag - (k - (k % 2)), !.n = s.n + k \div 2]
           ELSE [s EXCEPT !.state = NextState(s.state), !.lag = s.lag - 1]
  OBVIOUS
<1> HIDE DEF w1, w2, w3, w4, w5, w6, a, g, h, b, x, y, z, short
<1>7. CASE a /\ g
  <2>1. Warp(s, k) = w1
    BY <1>1, <1>2, <1>4, <1>7
  <2> QED BY <1>7, <2>1 DEF w1, a, g
<1>8. CASE a /\ h /\ (z \/ short)
  <2>1. Warp(s, k) = w2
    BY <1>1, <1>2, <1>4, <1>8
  <2> QED BY <1>8, <2>1 DEF w2, a, h
<1>9. CASE a /\ h /\ ~z /\ b
  <2>1. Warp(s, k) = w3
    BY <1>1, <1>2, <1>4, <1>9
  <2> QED BY <1>9, <2>1 DEF w3, a, h, z
<1>10. CASE x
  <2>1. Warp(s, k) = w4
    BY <1>1, <1>2, <1>4, <1>10
  <2> QED BY <1>10, <2>1 DEF w4, x
<1>11. CASE y
  <2>1. Warp(s, k) = w5
    BY <1>1, <1>2, <1>4, <1>11
  <2> QED BY <1>5, <1>6, <1>11, <2>1 DEF y
<1>12. CASE ~a /\ ~x /\ ~y
  <2>1. Warp(s, k) = w6
    BY <1>1, <1>12
  <2> QED BY <2>1 DEF w6
<1> QED BY <1>4, <1>7, <1>8, <1>9, <1>10, <1>11, <1>12

\* The end of a turn of the loop leaves a timer as after a cycle.
LEMMA SettleFit ==
  ASSUME NEW p \in Timers, "OUT" \in p.state => "LOAD" \in p.state
  PROVE  Fit(Settle(p)) /\ Clean(Settle(p))
<1>1. p.cnt \in Nat
  BY WordFacts DEF Timers, Words
<1>2. "COUNT3" \in Settle(p).state => Settle(p).cnt > 0
  BY <1>1, SettleBits, SettleFacts DEF Loading, Zero
<1>3. "OUT" \in Settle(p).state => "LOAD" \in Settle(p).state
  BY SettleBits DEF Loading
<1>4. "COUNT3" \in Settle(p).state => "LOAD" \notin Settle(p).state
  BY SettleBits
<1> QED BY <1>2, <1>3, <1>4 DEF Fit, Clean, Weak

\* A timer that counts evenly is not at zero.
LEMMA EvenFit ==
  ASSUME NEW s \in Timers, Fit(s), Counting(s.state)
  PROVE  s.cnt > 0 /\ s.cnt \in Nat /\ s.cnt < WORD /\ "OUT" \notin s.state /\ "LOAD" \notin s.state
BY CountingBits, WordFacts DEF Fit, Weak, Timers, Words

\* p is s, moved on by at least one and at most k cycles.
Moved(s, p, k) == /\ p \in Timers /\ p.alarm = s.alarm /\ p.latch = s.latch
                  /\ p.lag <= s.lag - 1 /\ p.lag >= s.lag - k
                  /\ p.n >= s.n
                  /\ "OUT" \in p.state => "LOAD" \in p.state

\* Every arm of Warp() moves the timer on.
LEMMA WarpMoves ==
  ASSUME NEW s \in Timers, Fit(s), NEW k \in Nat \ {0}
  PROVE  Moved(s, Warp(s, k), k) /\ ("STEP" \notin s.state => "STEP" \notin Warp(s, k).state)
<1> DEFINE p == Warp(s, k)
<1>1. /\ s.cnt \in Nat /\ s.latch \in Nat /\ s.lag \in Int /\ s.n \in Nat /\ s.cnt < WORD
      /\ s.alarm \in Int /\ s.state \in SUBSET Bits /\ s.cnt \in Words /\ s.latch \in Words
      /\ Words = 0 .. WORD - 1 /\ WORD \in Nat /\ WORD >= 1
  BY WordFacts DEF Timers, Words
<1>2. "OUT" \in s.state => "LOAD" \in s.state
  BY DEF Fit
<1>3. /\ NextState(s.state) \in SUBSET Bits /\ "OUT" \notin NextState(s.state)
      /\ "STEP" \notin NextState(s.state)
  BY NextBits
<1> HIDE DEF p
<1>4. CASE /\ Counting(s.state) /\ s.cnt > k
           /\ p = [s EXCEPT !.cnt = s.cnt - k, !.lag = s.lag - k]
  <2>1. s.cnt - k \in Words /\ s.lag - k \in Int /\ s.lag - k <= s.lag - 1
    BY <1>1, <1>4
  <2>2. /\ p \in Timers /\ p.state = s.state /\ p.latch = s.latch
        /\ p.alarm = s.alarm /\ p.n = s.n /\ p.lag = s.lag - k
    BY <1>4, <2>1 DEF Timers
  <2> QED BY <1>1, <1>2, <2>1, <2>2 DEF Moved, p
<1>5. CASE /\ Counting(s.state) /\ s.cnt <= k
           /\ p = [s EXCEPT !.cnt = 0, !.lag = s.lag - s.cnt]
  <2>1. s.cnt > 0 /\ 0 \in Words
    BY <1>1, <1>5, EvenFit
  <2>2. s.lag - s.cnt \in Int /\ s.lag - s.cnt <= s.lag - 1 /\ s.lag - s.cnt >= s.lag - k
    BY <1>1, <1>5, <2>1
  <2>3. /\ p \in Timers /\ p.state = s.state /\ p.latch = s.latch
        /\ p.alarm = s.alarm /\ p.n = s.n /\ p.lag = s.lag - s.cnt
    BY <1>5, <2>1, <2>2 DEF Timers
  <2> QED BY <1>1, <1>2, <2>2, <2>3 DEF Moved, p
<1>6. CASE /\ Counting(s.state) /\ s.cnt <= k /\ ~Single(s)
           /\ LET m == (k - s.cnt) \div (s.latch + 1)
               IN  p = [s EXCEPT !.cnt = 0, !.n = s.n + m,
                                   !.lag = s.lag - s.cnt - m * (s.latch + 1)]
  <2> DEFINE m == (k - s.cnt) \div (s.latch + 1)
             q == m * (s.latch + 1)
  <2>1. s.cnt > 0 /\ 0 \in Words
    BY <1>1, <1>6, EvenFit
  <2>2. m \in Nat /\ q \in Nat /\ q <= k - s.cnt
    <3>1. k - s.cnt \in Nat /\ s.latch + 1 \in Nat \ {0}
      BY <1>1, <1>6
    <3> QED BY <3>1, DivFacts
  <2>3. p = [s EXCEPT !.cnt = 0, !.n = s.n + m, !.lag = s.lag - s.cnt - q]
    BY <1>6
  <2> HIDE DEF m, q
  <2>4. s.lag - s.cnt - q \in Int /\ s.lag - s.cnt - q <= s.lag - 1
        /\ s.lag - s.cnt - q >= s.lag - k /\ s.n + m \in Nat /\ s.n + m >= s.n
    <3>1. s.cnt \in Nat /\ s.lag \in Int /\ s.n \in Nat
      BY <1>1
    <3> QED BY <2>1, <2>2, <3>1
  <2>5. /\ p \in Timers /\ p.state = s.state /\ p.latch = s.latch
        /\ p.alarm = s.alarm /\ p.n = s.n + m /\ p.lag = s.lag - s.cnt - q
    BY <2>1, <2>3, <2>4 DEF Timers
  <2> QED BY <1>1, <1>2, <2>4, <2>5 DEF Moved, p
<1>7. CASE Idle(s) /\ p = [s EXCEPT !.lag = s.lag - k]
  <2>1. s.lag - k \in Int /\ s.lag - k <= s.lag - 1
    BY <1>1
  <2> QED BY <1>1, <1>2, <1>7, <2>1 DEF Moved, p, Timers
<1>8. CASE /\ Special(s) /\ k > 1
           /\ p = [s EXCEPT !.lag = s.lag - (k - (k % 2)), !.n = s.n + k \div 2]
  <2>1. k % 2 \in 0 .. 1 /\ k \div 2 \in Nat
    OBVIOUS
  <2> DEFINE l == s.lag - (k - (k % 2))
             h == s.n + k \div 2
  <2>2. l \in Int /\ l <= s.lag - 1 /\ l >= s.lag - k /\ h \in Nat /\ h >= s.n
    <3>1. s.lag \in Int /\ s.n \in Nat
      BY <1>1
    <3> DEFINE e == k % 2
               f == k \div 2
    <3>2. e \in 0 .. 1 /\ f \in Nat
      BY <2>1
    <3> HIDE DEF e, f
    <3>3. s.lag - (k - e) \in Int /\ s.lag - (k - e) <= s.lag - 1
          /\ s.lag - (k - e) >= s.lag - k /\ s.n + f \in Nat /\ s.n + f >= s.n
      BY <1>8, <3>1, <3>2
    <3> QED BY <3>3 DEF e, f
  <2>3. p = [s EXCEPT !.lag = l, !.n = h]
    BY <1>8
  <2> HIDE DEF l, h
  <2> QED BY <1>1, <1>2, <2>2, <2>3 DEF Moved, p, Timers
<1>9. CASE /\ Special(s) /\ k = 1
           /\ p = [s EXCEPT !.state = NextState(s.state), !.lag = s.lag - 1]
  <2>1. s.lag - 1 \in Int /\ s.lag - 1 >= s.lag - k
    BY <1>1
  <2>2. /\ p \in Timers /\ p.state = NextState(s.state) /\ p.latch = s.latch
        /\ p.alarm = s.alarm /\ p.n = s.n /\ p.lag = s.lag - 1
    BY <1>3, <1>9, <2>1 DEF Timers
  <2> QED BY <1>1, <1>3, <2>1, <2>2 DEF Moved, p
<1>10. CASE p = [Inc(s) EXCEPT !.lag = s.lag - 1]
  <2>1. s.lag - 1 \in Int /\ s.lag - 1 >= s.lag - k /\ s.lag - 1 <= s.lag - 1
    BY <1>1
  <2>2. /\ Inc(s) \in Timers /\ Inc(s).state = NextState(s.state) /\ Inc(s).latch = s.latch
        /\ Inc(s).alarm = s.alarm /\ Inc(s).n = s.n
    BY IncFacts
  <2>3. /\ p \in Timers /\ p.state = NextState(s.state) /\ p.latch = s.latch
        /\ p.alarm = s.alarm /\ p.n = s.n /\ p.lag = s.lag - 1
    BY <1>10, <2>1, <2>2 DEF Timers
  <2> QED BY <1>1, <1>3, <2>1, <2>3 DEF Moved, p
<1> QED BY <1>4, <1>5, <1>6, <1>7, <1>8, <1>9, <1>10, Warps DEF p

\* A turn of the loop of ciat_update() moves the timer on, never too far.
LEMMA LeapMoves ==
  ASSUME NEW s \in Timers, Fit(s), NEW k \in Nat \ {0}
  PROVE  /\ Leap(s, k) \in Timers
         /\ Leap(s, k).alarm = s.alarm /\ Leap(s, k).latch = s.latch
         /\ Leap(s, k).lag <= s.lag - 1 /\ Leap(s, k).lag >= s.lag - k
         /\ Leap(s, k).n >= s.n
         /\ Fit(Leap(s, k)) /\ Clean(Leap(s, k))
         /\ "STEP" \notin s.state => "STEP" \notin Leap(s, k).state
<1> DEFINE p == Warp(s, k)
<1>1. Moved(s, p, k) /\ ("STEP" \notin s.state => "STEP" \notin p.state)
  BY WarpMoves
<1> HIDE DEF p
<1>2. p \in Timers /\ ("OUT" \in p.state => "LOAD" \in p.state)
  BY <1>1 DEF Moved
<1>3. Settle(p) \in Timers /\ Settle(p).lag = p.lag /\ Settle(p).alarm = p.alarm
      /\ Settle(p).latch = p.latch /\ Settle(p).n >= p.n
  <2>1. p.n \in Nat
    BY <1>2 DEF Timers
  <2> QED BY <1>2, <2>1, SettleFacts
<1>4. Fit(Settle(p)) /\ Clean(Settle(p))
  BY <1>2, SettleFit
<1>5. "STEP" \notin s.state => "STEP" \notin Settle(p).state
  BY <1>1, <1>2, SettleBits
<1>6. Settle(p).n >= s.n
  <2>1. p.n \in Nat /\ s.n \in Nat /\ Settle(p).n \in Nat
    BY <1>2, <1>3 DEF Timers
  <2> QED BY <1>1, <1>3, <2>1 DEF Moved
<1>7. Leap(s, k) = Settle(p)
  BY DEF Leap, p
<1> QED BY <1>1, <1>3, <1>4, <1>5, <1>6, <1>7 DEF Moved

\* A step that was counted lasts for a cycle, in a timer that counts steps.
Plain(s) == "STEP" \in s.state => "START" \in s.state /\ "PHI2IN" \notin s.state

\* w is s, j cycles later.
Later(s, w, j) == Same(w, After(s, j)) /\ w.n = After(s, j).n

\* Settle() with another clock and some underflows before it.
LEMMA SettleShift ==
  ASSUME NEW s \in Timers, NEW l \in Int, NEW m \in Nat, NEW p \in Timers,
         p.state = s.state, p.cnt = s.cnt, p.latch = s.latch, p.n = s.n + m
  PROVE  Same(Settle(p), Settle(s)) /\ Settle(p).n = Settle(s).n + m
<1>1. /\ Settle(p).state = Settle(s).state /\ Settle(p).cnt = Settle(s).cnt
      /\ Settle(p).latch = Settle(s).latch
      /\ Settle(p).n - p.n = Settle(s).n - s.n
  BY SettleParts
<1>2. Settle(p).n \in Nat /\ Settle(s).n \in Nat /\ p.n \in Nat /\ s.n \in Nat
  BY SettleFacts DEF Timers
<1>3. Settle(p).n = Settle(s).n + m
  BY <1>1, <1>2
<1> QED BY <1>1, <1>3 DEF Same

\* A timer that stands still stays as it is.
LEMMA IdleRun ==
  ASSUME NEW s \in Timers, Fit(s), Plain(s), Idle(s), NEW k \in Nat
  PROVE  Later(s, s, k)
<1>1. /\ "COUNT2" \notin s.state /\ "COUNT3" \notin s.state /\ "COUNT" \notin s.state
      /\ "START" \notin s.state \/ ("PHI2IN" \notin s.state /\ "STEP" \notin s.state)
      /\ "CR_ONESHOT" \in s.state <=> "ONESHOT0" \in s.state
      /\ "ONESHOT0" \in s.state <=> "ONESHOT" \in s.state
      /\ "FLOAD" \notin s.state /\ "LOAD1" \notin s.state /\ "LOAD" \notin s.state
      /\ "OUT" \notin s.state /\ "STEP" \notin s.state
  <2>1. "FLOAD" \notin s.state /\ "LOAD1" \notin s.state /\ "LOAD" \notin s.state
    BY DEF Idle
  <2> QED BY <2>1, StoppedBits DEF Idle, Fit, Plain
<1>2. ~Counts(s.state) /\ ~Underflows(s) /\ ~Ends(s) /\ ~Loads(s) /\ Left(s) = s.cnt
  BY <1>1 DEF Counts, Underflows, Ends, Loads, Left
<1>3. Turn(s).state \ {"COUNT"} = s.state \ {"COUNT"} /\ Turn(s) \in Timers
  BY <1>1, <1>2, TurnFacts, TurnBits, SameBits
<1>4. Turn(s).n = s.n /\ Same(Turn(s), s)
  BY <1>2, <1>3, TurnFacts DEF Same
<1> DEFINE P == {j \in Nat : Same(s, After(s, j)) /\ After(s, j).n = s.n}
<1>5. 0 \in P
  BY RunFacts DEF Same
<1>6. ASSUME NEW j \in Nat, j \in P PROVE j + 1 \in P
  <2> DEFINE u == After(s, j)
  <2>1. u \in Timers /\ After(s, j + 1) = Turn(u)
    BY RunFacts
  <2>2. Same(s, u) /\ u.n = s.n
    BY <1>6
  <2> HIDE DEF u
  <2>3. Same(Turn(s), Turn(u)) /\ ~Underflows(u)
    BY <1>2, <2>1, <2>2, SameTurn
  <2>4. Turn(u).n = s.n
    BY <2>1, <2>2, <2>3, TurnFacts
  <2>5. Same(s, Turn(u))
    BY <1>4, <2>3 DEF Same
  <2> QED BY <2>1, <2>4, <2>5
<1>7. Nat \subseteq P
  <2> HIDE DEF P
  <2> QED BY <1>5, <1>6, NatInd
<1> QED BY <1>7 DEF Later

\* A turn of the loop of ciat_update() is exact.
LEMMA LeapExact ==
  ASSUME NEW s \in Timers, Fit(s), Plain(s), NEW k \in Nat \ {0}
  PROVE  Later(s, Leap(s, k), s.lag - Leap(s, k).lag)
<1> DEFINE p == Warp(s, k)
           w == Settle(p)
<1>1. p \in Timers /\ s.n \in Nat /\ s.cnt \in Nat /\ s.latch \in Nat /\ s.lag \in Int
      /\ s.cnt < WORD
  BY WarpMoves, WordFacts DEF Moved, Timers, Words
<1>2. Leap(s, k) = w
  BY DEF Leap
<1>3. w \in Timers /\ w.lag = p.lag
  BY <1>1, SettleFacts
<1>4. SUFFICES Later(s, w, s.lag - p.lag)
  BY <1>2, <1>3
<1> HIDE DEF p
<1>5. Counting(s.state) => s.cnt > 0 /\ "OUT" \notin s.state /\ "LOAD" \notin s.state
                           /\ "STEP" \notin s.state
  BY EvenFit, CountingBits DEF Plain
<1> DEFINE z == [s EXCEPT !.cnt = 0]
<1>6. z \in Timers /\ z.state = s.state /\ z.cnt = 0 /\ z.latch = s.latch /\ z.n = s.n
  BY WordFacts DEF Timers, Words
<1> HIDE DEF w, z
<1>7. CASE /\ Counting(s.state) /\ s.cnt > k
           /\ p = [s EXCEPT !.cnt = s.cnt - k, !.lag = s.lag - k]
  <2> DEFINE v == [s EXCEPT !.cnt = s.cnt - k]
  <2>1. After(s, k) = v /\ v \in Timers
    <3>1. k \in 0 .. s.cnt - 1
      BY <1>1, <1>7
    <3> QED BY <1>5, <1>7, <3>1, EvenRun, RunFacts
  <2>2. p.state = s.state /\ p.cnt = s.cnt - k /\ p.latch = s.latch /\ p.n = s.n
        /\ p.lag = s.lag - k
    BY <1>7 DEF Timers
  <2>3. v.state = s.state /\ v.cnt = s.cnt - k /\ v.latch = s.latch /\ v.n = s.n
    BY DEF Timers
  <2> HIDE DEF v
  <2>4. w = p
    <3>1. ~Zero(p)
      BY <1>1, <1>7, <2>2 DEF Zero
    <3> QED BY <1>1, <1>5, <1>7, <2>2, <3>1, SettleQuiet DEF w
  <2>5. s.lag - p.lag = k
    BY <1>1, <2>2
  <2> QED BY <2>1, <2>2, <2>3, <2>4, <2>5 DEF Later, Same
<1>8. CASE /\ Counting(s.state) /\ s.cnt <= k
           /\ p = [s EXCEPT !.cnt = 0, !.lag = s.lag - s.cnt]
  <2>1. After(s, s.cnt) = Settle(z)
    BY <1>5, <1>8, EvenEnd DEF z
  <2>2. p.state = s.state /\ p.cnt = 0 /\ p.latch = s.latch /\ p.n = s.n
        /\ p.lag = s.lag - s.cnt
    BY <1>8 DEF Timers
  <2>3. Same(w, Settle(z)) /\ w.n = Settle(z).n
    <3>1. p.n = z.n + 0
      BY <1>1, <1>6, <2>2
    <3>2. Same(w, Settle(z)) /\ w.n = Settle(z).n + 0
      BY <1>1, <1>6, <2>2, <3>1, SettleShift DEF w
    <3>3. Settle(z).n \in Nat
      BY <1>6, SettleFacts DEF Timers
    <3> QED BY <3>2, <3>3
  <2>4. s.lag - p.lag = s.cnt
    BY <1>1, <2>2
  <2> QED BY <2>1, <2>3, <2>4 DEF Later
<1>9. CASE /\ Counting(s.state) /\ s.cnt <= k /\ ~Single(s)
           /\ LET m == (k - s.cnt) \div (s.latch + 1)
               IN  p = [s EXCEPT !.cnt = 0, !.n = s.n + m,
                                   !.lag = s.lag - s.cnt - m * (s.latch + 1)]
  <2> DEFINE m == (k - s.cnt) \div (s.latch + 1)
             q == m * (s.latch + 1)
             u == Settle(z)
  <2>1. m \in Nat /\ q \in Nat
    <3>1. k - s.cnt \in Nat /\ s.latch + 1 \in Nat \ {0}
      BY <1>1, <1>9
    <3> QED BY <3>1, DivFacts
  <2>2. p = [s EXCEPT !.cnt = 0, !.n = s.n + m, !.lag = s.lag - s.cnt - q]
    BY <1>9
  <2>3. u = After(s, s.cnt) /\ u \in Timers /\ u.latch = s.latch
    BY <1>5, <1>6, <1>9, EvenEnd, SettleFacts DEF z
  <2>4. Reloaded(u)
    <3>1. Zero(z) /\ Loading(z)
      BY <1>6, <1>9, CountingBits DEF Zero, Loading
    <3>2. u.cnt = u.latch
      BY <1>6, <3>1, SettleFacts
    <3> DEFINE out == z.state \cup {"LOAD", "OUT"}
    <3>3. "CR_ONESHOT" \notin s.state /\ "ONESHOT0" \notin s.state
      BY <1>9 DEF Single
    <3>4. "ONESHOT" \notin s.state
      BY <1>9, <3>3, CountingBits
    <3>5. SettledState(z) = out \ {"COUNT3"}
      BY <1>6, <3>1, <3>3, <3>4 DEF SettledState
    <3>6. u.state = out \ {"COUNT3"}
      BY <1>6, <3>5, SettleFacts
    <3>7. s.state = {"START", "PHI2IN", "COUNT2", "COUNT3", "COUNT"}
      <4>1. \A x \in s.state : x \in {"START", "PHI2IN", "COUNT2", "COUNT3", "COUNT"}
        BY <1>5, <1>9, <3>3, <3>4, CountingBits DEF Timers, Bits
      <4>2. {"START", "PHI2IN", "COUNT2", "COUNT3", "COUNT"} \subseteq s.state
        BY <1>9, CountingBits
      <4> QED BY <4>1, <4>2
    <3>8. u.state \ {"COUNT"} = {"START", "PHI2IN", "COUNT2", "LOAD", "OUT"}
      <4> HIDE DEF u
      <4> QED BY <1>6, <3>6, <3>7
    <3> HIDE DEF u
    <3> QED BY <3>2, <3>8 DEF Reloaded
  <2> HIDE DEF m, u
  <2>5. /\ Same(After(u, q), u) /\ After(u, q).n = u.n + m
    BY <2>1, <2>3, <2>4, Periods
  <2> HIDE DEF q
  <2>6. p.state = z.state /\ p.cnt = z.cnt /\ p.latch = z.latch /\ p.n = z.n + m
        /\ p.lag = s.lag - s.cnt - q
    BY <1>6, <2>2 DEF Timers
  <2>7. Same(w, u) /\ w.n = u.n + m
    BY <1>1, <1>6, <2>1, <2>6, SettleShift DEF w, u
  <2>8. s.lag - p.lag = s.cnt + q
    BY <1>1, <2>1, <2>6
  <2>9. After(s, s.cnt + q) = After(u, q)
    BY <1>1, <2>1, <2>3, AfterAdd
  <2> QED BY <2>5, <2>7, <2>8, <2>9 DEF Later, Same
<1>10. CASE Idle(s) /\ p = [s EXCEPT !.lag = s.lag - k]
  <2>1. p.state = s.state /\ p.cnt = s.cnt /\ p.latch = s.latch /\ p.n = s.n
        /\ p.lag = s.lag - k
    BY <1>10 DEF Timers
  <2>2. "COUNT3" \notin s.state /\ "LOAD" \notin s.state /\ "OUT" \notin s.state
    BY <1>10, StoppedBits DEF Idle, Fit
  <2>3. w = p
    BY <1>1, <2>1, <2>2, SettleQuiet DEF w, Zero
  <2>4. s.lag - p.lag = k
    BY <1>1, <2>1
  <2>5. Later(s, s, k)
    BY <1>10, IdleRun
  <2> QED BY <2>1, <2>3, <2>4, <2>5 DEF Later, Same
<1>11. CASE /\ Special(s) /\ k > 1
           /\ p = [s EXCEPT !.lag = s.lag - (k - (k % 2)), !.n = s.n + k \div 2]
  <2> DEFINE m == k \div 2
             l == s.lag - (k - (k % 2))
  <2>1. m \in Nat /\ k - (k % 2) = m * 2 /\ l \in Int
    BY <1>1
  <2>2. p = [s EXCEPT !.lag = l, !.n = s.n + m]
    BY <1>11
  <2>3. l = s.lag - m * 2 /\ m * 2 \in Nat
    BY <2>1
  <2> HIDE DEF m, l
  <2>4. p.state = s.state /\ p.cnt = s.cnt /\ p.latch = s.latch /\ p.n = s.n + m
        /\ p.lag = l
    BY <2>2 DEF Timers
  <2>5. Reloaded(s) /\ s.latch + 1 = 2
    BY <1>11 DEF Special, Reloaded
  <2>6. Same(After(s, m * 2), s) /\ After(s, m * 2).n = s.n + m
    BY <2>1, <2>5, Periods
  <2>7. w = p
    <3>1. ~Zero(p) /\ p.cnt = p.latch /\ "COUNT3" \notin p.state /\ "ONESHOT" \notin p.state
          /\ "ONESHOT0" \notin p.state
      BY <1>11, <2>4 DEF Zero, Special
    <3> QED BY <1>1, <3>1, SettleQuiet DEF w
  <2>8. s.lag - p.lag = m * 2
    BY <1>1, <2>1, <2>3, <2>4
  <2> QED BY <2>4, <2>6, <2>7, <2>8 DEF Later, Same
<1>12. ASSUME p.state = Inc(s).state, p.cnt = Inc(s).cnt, p.latch = s.latch, p.n = s.n,
              p.lag = s.lag - 1
       PROVE  Later(s, w, s.lag - p.lag)
  <2>1. /\ Inc(s) \in Timers /\ Inc(s).latch = s.latch /\ Inc(s).n = s.n
    BY IncFacts
  <2>2. p.n = Inc(s).n + 0
    BY <1>1, <1>12, <2>1
  <2>3. Same(w, Turn(s)) /\ w.n = Turn(s).n + 0
    BY <1>1, <1>12, <2>1, <2>2, SettleShift DEF w, Turn
  <2>4. After(s, 1) = Turn(s) /\ Turn(s).n \in Nat
    <3>1. Turn(s).n \in Nat
      BY TurnFacts DEF Timers
    <3>2. After(s, 0 + 1) = Turn(s)
      BY RunFacts
    <3> QED BY <3>1, <3>2
  <2>5. s.lag - p.lag = 1
    BY <1>1, <1>12
  <2> QED BY <2>3, <2>4, <2>5 DEF Later
<1>13. CASE /\ Special(s) /\ k = 1
           /\ p = [s EXCEPT !.state = NextState(s.state), !.lag = s.lag - 1]
  <2>1. "COUNT3" \notin s.state
    BY <1>13 DEF Special
  <2>2. Inc(s).state = NextState(s.state) /\ Inc(s).cnt = s.cnt
    BY <2>1, IncFacts DEF Left
  <2>3. p.state = NextState(s.state) /\ p.cnt = s.cnt /\ p.latch = s.latch /\ p.n = s.n
        /\ p.lag = s.lag - 1
    BY <1>13 DEF Timers
  <2> QED BY <1>12, <2>2, <2>3
<1>14. CASE p = [Inc(s) EXCEPT !.lag = s.lag - 1]
  <2>1. /\ Inc(s) \in Timers /\ Inc(s).latch = s.latch /\ Inc(s).n = s.n
    BY IncFacts
  <2>2. p.state = Inc(s).state /\ p.cnt = Inc(s).cnt /\ p.latch = Inc(s).latch
        /\ p.n = Inc(s).n /\ p.lag = s.lag - 1
    BY <1>14, <2>1 DEF Timers
  <2> QED BY <1>12, <2>1, <2>2
<1> QED BY <1>7, <1>8, <1>9, <1>10, <1>11, <1>13, <1>14, Warps DEF p

\* The turns of the loop of ciat_update().
Turns(s, at) ==
  LET turn[i \in Nat] ==
        IF i = 0 THEN s
        ELSE LET u == turn[i - 1]
             IN  IF u.lag > at THEN Settle(Warp(u, u.lag - at)) ELSE u
  IN  turn

\* The body of the loop of ciat_update(), as a function.
Forward(u, at) == IF u.lag > at THEN Leap(u, u.lag - at) ELSE u

\* The unfolding of Turns(s, at), as a fact about a function.
LEMMA TurnsUnfold ==
  ASSUME NEW s, NEW at, NEW f,
         f = [i \in Nat |-> IF i = 0 THEN s ELSE Forward(f[i - 1], at)]
  PROVE  Turns(s, at) = [i \in Nat |-> IF i = 0 THEN s
                                       ELSE Forward(Turns(s, at)[i - 1], at)]
BY DEF Turns, Forward, Leap

\* The domain of that function.
FitTimers == {s \in Timers : Fit(s)}

\* Turns(s, at) is the iteration of Forward.
LEMMA TurnsFacts ==
  ASSUME NEW s \in FitTimers, NEW at \in Int
  PROVE  /\ Turns(s, at)[0] = s
         /\ \A k \in Nat : Turns(s, at)[k] \in FitTimers
         /\ \A k \in Nat : Turns(s, at)[k + 1] = Forward(Turns(s, at)[k], at)
<1> DEFINE F == [t \in FitTimers |-> Forward(t, at)]
           T == Turns(s, at)
<1>1. \A t \in FitTimers : Forward(t, at) \in FitTimers
  <2> SUFFICES ASSUME NEW t \in FitTimers PROVE Forward(t, at) \in FitTimers
    OBVIOUS
  <2>1. t \in Timers /\ Fit(t) /\ t.lag \in Int
    BY DEF FitTimers, Timers
  <2>2. CASE t.lag > at
    <3>1. t.lag - at \in Nat \ {0}
      BY <2>1, <2>2
    <3> QED BY <2>1, <2>2, <3>1, LeapMoves DEF Forward, FitTimers
  <2>3. CASE ~(t.lag > at)
    BY <2>3 DEF Forward
  <2> QED BY <2>2, <2>3
<1>2. F \in [FitTimers -> FitTimers]
  BY <1>1
<1>3. PICK f \in [Nat -> FitTimers] : f[0] = s /\ \A k \in Nat : f[k + 1] = F[f[k]]
  <2> HIDE DEF F
  <2>1. \E f \in [Nat -> FitTimers] : IsRun(f, F, s)
    BY <1>2, Recursion
  <2> QED BY <2>1 DEF IsRun
<1>4. ASSUME NEW i \in Nat PROVE f[i] = IF i = 0 THEN s ELSE Forward(f[i - 1], at)
  <2>1. CASE i = 0
    BY <1>3, <2>1
  <2>2. CASE i # 0
    <3>1. i - 1 \in Nat /\ (i - 1) + 1 = i
      BY <2>2
    <3>2. f[i] = F[f[i - 1]] /\ f[i - 1] \in FitTimers
      BY <1>3, <3>1
    <3> QED BY <2>2, <3>2
  <2> QED BY <2>1, <2>2
<1>5. f = [i \in Nat |-> IF i = 0 THEN s ELSE Forward(f[i - 1], at)]
  <2>1. f = [i \in Nat |-> f[i]]
    BY <1>3
  <2> QED BY <1>4, <2>1
<1>6. T = [i \in Nat |-> IF i = 0 THEN s ELSE Forward(T[i - 1], at)]
  BY <1>5, TurnsUnfold
<1> HIDE DEF T
<1>7. T[0] = s
  BY <1>6
<1>8. \A k \in Nat : T[k + 1] = Forward(T[k], at)
  <2> SUFFICES ASSUME NEW k \in Nat PROVE T[k + 1] = Forward(T[k], at)
    OBVIOUS
  <2>1. k + 1 \in Nat /\ k + 1 # 0 /\ (k + 1) - 1 = k
    OBVIOUS
  <2> QED BY <1>6, <2>1
<1> DEFINE P == {k \in Nat : T[k] \in FitTimers}
<1>9. 0 \in P /\ \A k \in Nat : k \in P => k + 1 \in P
  BY <1>1, <1>7, <1>8
<1>10. Nat \subseteq P
  <2> HIDE DEF P
  <2> QED BY <1>9, NatInd
<1> QED BY <1>7, <1>8, <1>10 DEF T

\* What ciat_update() returns: the timer at the clock it is called for, and,
\* unless a counted step is pending in a timer that cannot take it, the timer
\* that a run cycle by cycle would give.
LEMMA Updated ==
  ASSUME NEW s \in Timers, Fit(s), NEW at \in Int, s.lag >= at
  PROVE  LET u == ciat_update(s, at)
         IN  /\ u \in Timers /\ Fit(u)
             /\ u.lag = at /\ u.alarm = s.alarm /\ u.latch = s.latch /\ u.n >= s.n
             /\ s.lag > at => Clean(u)
             /\ s.lag = at => u = s
             /\ Plain(s) => Plain(u) /\ Later(s, u, s.lag - at)
<1> DEFINE T == Turns(s, at)
           K == s.lag - at
           Q(u, i) == /\ u.alarm = s.alarm /\ u.latch = s.latch /\ u.n >= s.n
                      /\ u.lag >= at /\ u.lag <= s.lag
                      /\ u.lag = at \/ u.lag <= s.lag - i
                      /\ s.lag > u.lag => Clean(u)
                      /\ s.lag = u.lag => u = s
                      /\ Plain(s) => Plain(u) /\ Later(s, u, s.lag - u.lag)
           P == {i \in Nat : Q(T[i], i)}
<1>1. s \in FitTimers /\ s.lag \in Int /\ s.n \in Nat /\ K \in Nat
  BY DEF FitTimers, Timers
<1>2. T[0] = s /\ (\A k \in Nat : T[k] \in FitTimers)
      /\ \A k \in Nat : T[k + 1] = Forward(T[k], at)
  BY <1>1, TurnsFacts
<1> HIDE DEF T
<1>3. 0 \in P
  <2>1. Later(s, s, s.lag - s.lag)
    <3>1. s.lag - s.lag = 0
      BY <1>1
    <3> QED BY <3>1, RunFacts DEF Later, Same
  <2>2. s.lag <= s.lag - 0 /\ s.n >= s.n /\ s.lag <= s.lag /\ ~(s.lag > s.lag)
    BY <1>1
  <2> QED BY <1>2, <2>1, <2>2
<1>4. ASSUME NEW i \in Nat, i \in P PROVE i + 1 \in P
  <2> DEFINE u == T[i]
             v == T[i + 1]
             k == u.lag - at
  <2>1. u \in Timers /\ Fit(u) /\ v = Forward(u, at) /\ u.lag \in Int /\ u.n \in Nat
    BY <1>2 DEF FitTimers, Timers
  <2>2. Q(u, i)
    BY <1>4
  <2> HIDE DEF u, v, P
  <2>3. CASE u.lag = at
    <3>1. v = u
      BY <2>1, <2>3 DEF Forward
    <3>2. Q(v, i + 1)
      BY <2>2, <2>3, <3>1
    <3> QED BY <3>2 DEF P, v
  <2>4. CASE u.lag # at
    <3>1. u.lag > at /\ k \in Nat \ {0}
      BY <2>1, <2>2, <2>4
    <3>2. v = Leap(u, k)
      BY <2>1, <3>1 DEF Forward
    <3> HIDE DEF k
    <3>3. /\ v \in Timers /\ v.alarm = u.alarm /\ v.latch = u.latch
          /\ v.lag <= u.lag - 1 /\ v.lag >= u.lag - k /\ v.n >= u.n
          /\ Fit(v) /\ Clean(v)
      BY <2>1, <3>1, <3>2, LeapMoves
    <3>4. v.lag \in Int /\ v.n \in Nat
      BY <3>3 DEF Timers
    <3>5. v.lag >= at /\ v.lag <= s.lag - (i + 1) /\ v.n >= s.n /\ v.lag < s.lag
      BY <1>1, <2>1, <2>2, <2>4, <3>1, <3>3, <3>4 DEF k
    <3>6. ASSUME Plain(s) PROVE Plain(v) /\ Later(s, v, s.lag - v.lag)
      <4> DEFINE j == u.lag - v.lag
                 m == s.lag - u.lag
      <4>1. Plain(u) /\ Later(s, u, m)
        BY <2>2, <3>6
      <4>2. Later(u, v, j)
        BY <2>1, <3>1, <3>2, <4>1, LeapExact
      <4>3. j \in Nat /\ j - 1 \in Nat /\ m \in Nat /\ s.lag - v.lag = m + j /\ (j - 1) + 1 = j
        BY <1>1, <2>1, <2>2, <3>3, <3>4
      <4> HIDE DEF j, m
      <4> DEFINE a == After(s, m)
      <4>4. a \in Timers /\ After(s, m + j) = After(a, j)
        BY <4>3, RunFacts, AfterAdd
      <4>5. Same(u, a) /\ u.n = a.n
        BY <4>1 DEF Later
      <4> HIDE DEF a
      <4>6. Same(After(u, j), After(a, j)) /\ After(u, j).n - u.n = After(a, j).n - a.n
        BY <2>1, <4>3, <4>4, <4>5, SameAfter
      <4>7. After(u, j) \in Timers /\ After(a, j) \in Timers
        BY <2>1, <4>3, <4>4, RunFacts
      <4>8. After(u, j).n = After(a, j).n
        <5>1. After(u, j).n \in Nat /\ After(a, j).n \in Nat
          BY <4>7 DEF Timers
        <5> QED BY <2>1, <4>5, <4>6, <5>1
      <4>9. Later(s, v, m + j)
        BY <4>2, <4>4, <4>6, <4>8 DEF Later, Same
      <4>10. "STEP" \notin v.state
        <5>1. After(u, j) = Turn(After(u, j - 1)) /\ After(u, j - 1) \in Timers
          BY <2>1, <4>3, RunFacts
        <5>2. "STEP" \notin After(u, j).state
          BY <5>1, TurnBits
        <5>3. Same(v, After(u, j))
          BY <4>2 DEF Later
        <5> QED BY <3>3, <4>7, <5>2, <5>3, SameBits DEF Same
      <4> QED BY <4>3, <4>9, <4>10 DEF Plain
    <3>7. Q(v, i + 1)
      BY <1>1, <2>2, <3>3, <3>4, <3>5, <3>6
    <3> QED BY <3>7 DEF P, v
  <2> QED BY <2>3, <2>4
<1>5. Nat \subseteq P
  <2> HIDE DEF P
  <2> QED BY <1>3, <1>4, NatInd
<1> DEFINE e == T[2 * K]
<1>6. ciat_update(s, at) = e
  BY DEF ciat_update, Turns, T
<1>7. 2 * K \in Nat /\ 2 * K >= K
  BY <1>1
<1>8. Q(e, 2 * K) /\ e \in Timers /\ Fit(e) /\ e.lag \in Int
  <2>1. 2 * K \in P /\ T[2 * K] \in FitTimers
    BY <1>2, <1>5, <1>7
  <2> QED BY <2>1 DEF FitTimers, Timers
<1> HIDE DEF e
<1>9. e.lag = at
  BY <1>1, <1>7, <1>8
<1> QED BY <1>1, <1>6, <1>8, <1>9

\* The interrupt flags, the bits of the delay line, and the chip.
Flags == {"TA", "TB", "TBB", "SET"}

\* The bits of the delay line.
Delays == {"ACK1", "ACK0", "ACK_1", "D7SET1", "D7SET0", "RAISE1", "RAISE0",
           "READ0", "READ1"}

Chips == [ta : Timers, tb : Timers, tat : 0 .. 1, tbt : 0 .. 1,
          flags : SUBSET Flags, new : SUBSET Flags, ack : SUBSET Flags,
          delay : SUBSET Delays, ifr_lag : Int, int : Int, rdi : Int,
          idle : Int, twice : BOOLEAN]

\* What the interrupt logic leaves alone.
Rest(c, d) == /\ d \in Chips /\ d.ta = c.ta /\ d.tb = c.tb
              /\ d.tat = c.tat /\ d.tbt = c.tbt /\ d.rdi = c.rdi

\* A cycle of the delay line.
LEMMA CycleOfIfr ==
  ASSUME NEW c \in Chips
  PROVE  LET d == cia_run_ifr_cycle(c)
         IN  /\ Rest(c, d) /\ d.idle = c.idle /\ d.twice = c.twice
             /\ d.ifr_lag = c.ifr_lag - 1
<1> DEFINE acks == "ACK0" \in c.delay
           old == IF model = "6526" THEN {"SET"} ELSE {}
           hit == c.new \cap icr # {}
           slow == model = "6526" \/ c.rdi = c.ifr_lag + 1
           extra == CASE ~hit -> {}
                      [] hit /\ slow -> {"RAISE1", "D7SET1"}
                      [] hit /\ ~slow -> {"RAISE0", "D7SET0"}
           delay == c.delay \cup extra
           flags == (c.flags \ (IF acks THEN c.ack \cup old ELSE {}))
                    \cup (IF "D7SET0" \in delay THEN {"SET"} ELSE {})
           ack == IF acks THEN {} ELSE c.ack
           int == IF "RAISE0" \in delay THEN Raise(c.int, c.ifr_lag) ELSE c.int
<1>1. flags \in SUBSET Flags /\ ack \in SUBSET Flags /\ {} \in SUBSET Flags
  <2> HIDE DEF delay
  <2> QED BY DEF Chips, Flags
<1>2. Shift(delay) \in SUBSET Delays
  BY DEF Shift, Delays
<1>3. int \in Int /\ c.ifr_lag - 1 \in Int
  <2> HIDE DEF delay
  <2> QED BY DEF Chips, Raise, NONE
<1>4. cia_run_ifr_cycle(c) = [c EXCEPT !.flags = flags, !.ack = ack, !.new = {}, !.int = int,
                                !.delay = Shift(delay), !.ifr_lag = c.ifr_lag - 1]
  BY DEF cia_run_ifr_cycle
<1> DEFINE sh == Shift(delay)
           l == c.ifr_lag - 1
<1> HIDE DEF flags, ack, int, sh, l
<1>5. cia_run_ifr_cycle(c) = [c EXCEPT !.flags = flags, !.ack = ack, !.new = {}, !.int = int,
                                !.delay = sh, !.ifr_lag = l]
  BY <1>4 DEF sh, l
<1>6. sh \in SUBSET Delays /\ l \in Int
  BY <1>2, <1>3 DEF sh, l
<1> HIDE DEF delay
<1> DEFINE d == [c EXCEPT !.flags = flags, !.ack = ack, !.new = {}, !.int = int,
                          !.delay = sh, !.ifr_lag = l]
<1>7. d \in Chips
  BY <1>1, <1>3, <1>6 DEF Chips
<1>8. /\ d.ta = c.ta /\ d.tb = c.tb /\ d.tat = c.tat /\ d.tbt = c.tbt /\ d.rdi = c.rdi
      /\ d.idle = c.idle /\ d.twice = c.twice /\ d.ifr_lag = l
  BY DEF Chips
<1> HIDE DEF d
<1> QED BY <1>5, <1>7, <1>8 DEF Rest, l, d

\* The loop of cia_ifr_catchup() and its body.
IfrRuns(c) ==
  LET cycle[i \in Nat] ==
        IF i = 0 THEN c
        ELSE LET d == cycle[i - 1]
             IN  IF d.delay \cup d.new \cup d.ack = {} THEN d
                 ELSE cia_run_ifr_cycle(d)
  IN  cycle

\* The body of the loop of cia_ifr_catchup().
IfrStep(d) == IF d.delay \cup d.new \cup d.ack = {} THEN d ELSE cia_run_ifr_cycle(d)

\* The unfolding of IfrRuns(c), as a fact about a function.
LEMMA IfrRunsUnfold ==
  ASSUME NEW c, NEW f, f = [i \in Nat |-> IF i = 0 THEN c ELSE IfrStep(f[i - 1])]
  PROVE  IfrRuns(c) = [i \in Nat |-> IF i = 0 THEN c ELSE IfrStep(IfrRuns(c)[i - 1])]
BY DEF IfrRuns, IfrStep

\* IfrRuns(c) is the iteration of IfrStep.
LEMMA IfrRunsFacts ==
  ASSUME NEW c \in Chips
  PROVE  /\ IfrRuns(c)[0] = c
         /\ \A k \in Nat : IfrRuns(c)[k + 1] = IfrStep(IfrRuns(c)[k])
         /\ \A k \in Nat : LET d == IfrRuns(c)[k]
                           IN  Rest(c, d) /\ d.idle = c.idle /\ d.twice = c.twice
<1> DEFINE F == [t \in Chips |-> IfrStep(t)]
           T == IfrRuns(c)
<1>1. F \in [Chips -> Chips]
  <2>1. \A t \in Chips : IfrStep(t) \in Chips
    BY CycleOfIfr DEF IfrStep, Rest
  <2> QED BY <2>1
<1>2. PICK f \in [Nat -> Chips] : f[0] = c /\ \A k \in Nat : f[k + 1] = F[f[k]]
  <2> HIDE DEF F
  <2>1. \E f \in [Nat -> Chips] : IsRun(f, F, c)
    BY <1>1, Recursion
  <2> QED BY <2>1 DEF IsRun
<1>3. ASSUME NEW i \in Nat PROVE f[i] = IF i = 0 THEN c ELSE IfrStep(f[i - 1])
  <2>1. CASE i = 0
    BY <1>2, <2>1
  <2>2. CASE i # 0
    <3>1. i - 1 \in Nat /\ (i - 1) + 1 = i
      BY <2>2
    <3>2. f[i] = F[f[i - 1]] /\ f[i - 1] \in Chips
      BY <1>2, <3>1
    <3> QED BY <2>2, <3>2
  <2> QED BY <2>1, <2>2
<1>4. f = [i \in Nat |-> IF i = 0 THEN c ELSE IfrStep(f[i - 1])]
  <2>1. f = [i \in Nat |-> f[i]]
    BY <1>2
  <2> QED BY <1>3, <2>1
<1>5. T = [i \in Nat |-> IF i = 0 THEN c ELSE IfrStep(T[i - 1])]
  BY <1>4, IfrRunsUnfold
<1> HIDE DEF T
<1>6. T[0] = c
  BY <1>5
<1>7. \A k \in Nat : T[k + 1] = IfrStep(T[k])
  <2> SUFFICES ASSUME NEW k \in Nat PROVE T[k + 1] = IfrStep(T[k])
    OBVIOUS
  <2>1. k + 1 \in Nat /\ k + 1 # 0 /\ (k + 1) - 1 = k
    OBVIOUS
  <2> QED BY <1>5, <2>1
<1> DEFINE R(d) == Rest(c, d) /\ d.idle = c.idle /\ d.twice = c.twice
           P == {k \in Nat : R(T[k])}
<1>8. 0 \in P
  BY <1>6 DEF Rest
<1>9. ASSUME NEW k \in Nat, k \in P PROVE k + 1 \in P
  <2> DEFINE d == T[k]
  <2>1. R(d) /\ T[k + 1] = IfrStep(d)
    BY <1>7, <1>9
  <2> HIDE DEF d
  <2>2. d \in Chips
    BY <2>1 DEF Rest
  <2>3. R(cia_run_ifr_cycle(d))
    BY <2>1, <2>2, CycleOfIfr DEF Rest
  <2> QED BY <2>1, <2>3 DEF IfrStep
<1>10. Nat \subseteq P
  <2> HIDE DEF P
  <2> QED BY <1>8, <1>9, NatInd
<1> QED BY <1>6, <1>7, <1>10 DEF T

\* cia_ifr_catchup() brings the delay line up to the clock and changes nothing
\* else.
LEMMA CatchUp ==
  ASSUME NEW c \in Chips, NEW at \in Int
  PROVE  LET d == cia_ifr_catchup(c, at)
         IN  /\ Rest(c, d) /\ d.idle = c.idle /\ d.twice = c.twice
             /\ d.ifr_lag = IF c.ifr_lag > at THEN at ELSE c.ifr_lag
<1> DEFINE e == IfrRuns(c)[c.ifr_lag - at]
<1>1. cia_ifr_catchup(c, at) = IF c.ifr_lag > at THEN [e EXCEPT !.ifr_lag = at] ELSE c
  BY DEF cia_ifr_catchup, IfrRuns
<1>2. CASE c.ifr_lag > at
  <2>1. c.ifr_lag - at \in Nat
    BY <1>2 DEF Chips
  <2>2. Rest(c, e) /\ e.idle = c.idle /\ e.twice = c.twice
    BY <2>1, IfrRunsFacts
  <2> HIDE DEF e
  <2> DEFINE d == [e EXCEPT !.ifr_lag = at]
  <2>3. e \in Chips
    BY <2>2 DEF Rest
  <2>4. d \in Chips
    BY <2>3 DEF Chips
  <2>5. /\ d.ta = e.ta /\ d.tb = e.tb /\ d.tat = e.tat /\ d.tbt = e.tbt /\ d.rdi = e.rdi
        /\ d.idle = e.idle /\ d.twice = e.twice /\ d.ifr_lag = at
    BY <2>3 DEF Chips
  <2> HIDE DEF d
  <2> QED BY <1>1, <1>2, <2>2, <2>4, <2>5 DEF Rest, d
<1>3. CASE ~(c.ifr_lag > at)
  BY <1>1, <1>3 DEF Rest
<1> QED BY <1>2, <1>3

\* No alarm of a timer at this clock.
NoneAt(c, at) == -at # c.ta.alarm /\ -at # c.tb.alarm

\* cia_ifr_current(CIA_IFR_CURRENT): the line is run for this cycle, for the
\* second time only if it was not caught up.
LEMMA CurrentIfr ==
  ASSUME NEW c \in Chips, NEW at \in Int
  PROVE  LET d == IfrCurrent(c, at)
         IN  /\ Rest(c, d) /\ d.idle = c.idle
             /\ NoneAt(c, at) => /\ d.ifr_lag = c.ifr_lag - 1
                                 /\ d.twice <=> (c.twice \/ c.ifr_lag # at)
             /\ ~NoneAt(c, at) => d = c
<1> DEFINE e == cia_run_ifr_cycle(c)
           d == [e EXCEPT !.twice = @ \/ c.ifr_lag # at]
<1>1. IfrCurrent(c, at) = IF ~NoneAt(c, at) THEN c ELSE d
  BY DEF IfrCurrent, NoneAt
<1>2. Rest(c, e) /\ e.idle = c.idle /\ e.twice = c.twice /\ e.ifr_lag = c.ifr_lag - 1
  BY CycleOfIfr
<1> HIDE DEF e
<1>3. e \in Chips
  BY <1>2 DEF Rest
<1>4. /\ d \in Chips /\ d.ta = e.ta /\ d.tb = e.tb /\ d.tat = e.tat /\ d.tbt = e.tbt
      /\ d.rdi = e.rdi /\ d.idle = e.idle /\ d.ifr_lag = e.ifr_lag
  BY <1>3 DEF Chips
<1>5. d.twice <=> (e.twice \/ c.ifr_lag # at)
  BY <1>3 DEF Chips
<1> HIDE DEF d
<1>6. CASE NoneAt(c, at)
  <2>1. IfrCurrent(c, at) = d
    BY <1>1, <1>6
  <2> QED BY <1>2, <1>4, <1>5, <1>6, <2>1 DEF Rest
<1>7. CASE ~NoneAt(c, at)
  BY <1>1, <1>7 DEF Rest
<1> QED BY <1>6, <1>7

\* cia_ifr_current(CIA_IFR_NEXT): only the idle alarm may move.
LEMMA NextIfr ==
  ASSUME NEW c \in Chips, NEW at \in Int
  PROVE  LET d == IfrNext(c, at)
         IN  /\ Rest(c, d) /\ d.twice = c.twice /\ d.ifr_lag = c.ifr_lag
             /\ d.idle = c.idle \/ (NoneAt(c, at) /\ d.idle = 1 - at)
<1> DEFINE x == [c EXCEPT !.int = Raise(@, at - 1)]
           y == [c EXCEPT !.idle = 1 - at]
<1>1. IfrNext(c, at) = c \/ IfrNext(c, at) = x \/ (NoneAt(c, at) /\ IfrNext(c, at) = y)
  <2> DEFINE a == -at \in {c.ta.alarm, c.tb.alarm}
             b == "RAISE0" \in c.delay
             e == c.delay \cap {"RAISE0", "RAISE1"} = {"RAISE1"}
  <2>1. IfrNext(c, at) = CASE a -> c [] ~a /\ b -> x [] ~a /\ e -> y [] OTHER -> c
    BY DEF IfrNext
  <2>2. ~(b /\ e) /\ (a <=> ~NoneAt(c, at))
    BY DEF NoneAt
  <2> HIDE DEF a, b, e, x, y
  <2> QED BY <2>1, <2>2
<1>2. /\ x \in Chips /\ x.ta = c.ta /\ x.tb = c.tb /\ x.tat = c.tat /\ x.tbt = c.tbt
      /\ x.rdi = c.rdi /\ x.idle = c.idle /\ x.ifr_lag = c.ifr_lag /\ x.twice = c.twice
  <2>1. Raise(c.int, at - 1) \in Int
    BY DEF Raise, Chips
  <2> QED BY <2>1 DEF Chips
<1>3. /\ y \in Chips /\ y.ta = c.ta /\ y.tb = c.tb /\ y.tat = c.tat /\ y.tbt = c.tbt
      /\ y.rdi = c.rdi /\ y.idle = 1 - at /\ y.ifr_lag = c.ifr_lag /\ y.twice = c.twice
  BY DEF Chips
<1> HIDE DEF x, y
<1> QED BY <1>1, <1>2, <1>3 DEF Rest

\* The counted underflows have been taken note of.
Noted(s) == [s EXCEPT !.n = 0]

\* Noted(s), field by field.
LEMMA NotedFacts ==
  ASSUME NEW s \in Timers
  PROVE  /\ Noted(s) \in Timers /\ Noted(s).state = s.state /\ Noted(s).cnt = s.cnt
         /\ Noted(s).latch = s.latch /\ Noted(s).lag = s.lag /\ Noted(s).alarm = s.alarm
         /\ Noted(s).n = 0
         /\ s.n = 0 => Noted(s) = s
         /\ Fit(s) => Fit(Noted(s))
         /\ Clean(s) => Clean(Noted(s))
         /\ Plain(s) => Plain(Noted(s))
<1>1. /\ Noted(s) \in Timers /\ Noted(s).state = s.state /\ Noted(s).cnt = s.cnt
      /\ Noted(s).latch = s.latch /\ Noted(s).lag = s.lag /\ Noted(s).alarm = s.alarm
      /\ Noted(s).n = 0
  BY DEF Noted, Timers
<1>2. s.n = 0 => Noted(s) = s
  BY <1>1, TimerEqual
<1> QED BY <1>1, <1>2 DEF Fit, Weak, Clean, Plain

\* The delay line is left alone or caught up.
IfrLag(c, d, at) == \/ d.ifr_lag = c.ifr_lag
                    \/ c.ifr_lag > at /\ d.ifr_lag = at

\* cia_set_irq_flag() catches the delay line up and sets a flag.
LEMMA SetFlag ==
  ASSUME NEW c \in Chips, NEW at \in Int, NEW bit \in Flags
  PROVE  LET d == cia_set_irq_flag(c, at, bit)
         IN  /\ Rest(c, d) /\ d.idle = c.idle /\ d.twice = c.twice /\ IfrLag(c, d, at)
<1> DEFINE e == cia_ifr_catchup(c, at)
           d == [e EXCEPT !.flags = @ \cup {bit}, !.new = @ \cup {bit}, !.ack = @ \ {bit}]
<1>1. Rest(c, e) /\ e.idle = c.idle /\ e.twice = c.twice
      /\ e.ifr_lag = IF c.ifr_lag > at THEN at ELSE c.ifr_lag
  BY CatchUp
<1>2. cia_set_irq_flag(c, at, bit) = d
  BY DEF cia_set_irq_flag
<1> HIDE DEF e
<1>3. e \in Chips
  BY <1>1 DEF Rest
<1>4. /\ d \in Chips /\ d.ta = e.ta /\ d.tb = e.tb /\ d.tat = e.tat /\ d.tbt = e.tbt
      /\ d.rdi = e.rdi /\ d.idle = e.idle /\ d.ifr_lag = e.ifr_lag /\ d.twice = e.twice
  BY <1>3 DEF Chips
<1> HIDE DEF d
<1> QED BY <1>1, <1>2, <1>4 DEF Rest, IfrLag

\* Timer x of c has become t, which has counted its underflows.
NoteTa(c, d, t, at) ==
  /\ d \in Chips /\ d.ta = Noted(t) /\ d.tb = c.tb
  /\ d.tat = (c.tat + t.n) % 2 /\ d.tbt = c.tbt
  /\ d.rdi = c.rdi /\ d.idle = c.idle /\ d.twice = c.twice /\ IfrLag(c, d, at)

\* The same for timer B.
NoteTb(c, d, t, at) ==
  /\ d \in Chips /\ d.tb = Noted(t) /\ d.ta = c.ta
  /\ d.tbt = (c.tbt + t.n) % 2 /\ d.tat = c.tat
  /\ d.rdi = c.rdi /\ d.idle = c.idle /\ d.twice = c.twice /\ IfrLag(c, d, at)

\* A toggle stays a bit.
LEMMA Parity == \A b \in 0 .. 1, n \in Nat : (b + n) % 2 \in 0 .. 1 /\ (b + 0) % 2 = b
OBVIOUS

\* The underflows of timer A are noted.
LEMMA NoteTaFacts ==
  ASSUME NEW c \in Chips, NEW t \in Timers, NEW at \in Int
  PROVE  NoteTa(c, TaUnderflows(c, t, at), t, at)
<1>1. c.tat \in 0 .. 1 /\ t.n \in Nat
  BY DEF Chips, Timers
<1>2. (c.tat + t.n) % 2 \in 0 .. 1 /\ (c.tat + 0) % 2 = c.tat
  BY <1>1, Parity
<1>3. CASE t.n = 0
  <2> DEFINE d == [c EXCEPT !.ta = t]
  <2>1. TaUnderflows(c, t, at) = d
    BY <1>3 DEF TaUnderflows
  <2>2. /\ d \in Chips /\ d.ta = t /\ d.tb = c.tb /\ d.tat = c.tat /\ d.tbt = c.tbt
        /\ d.rdi = c.rdi /\ d.idle = c.idle /\ d.ifr_lag = c.ifr_lag /\ d.twice = c.twice
    BY DEF Chips
  <2> HIDE DEF d
  <2> QED BY <1>2, <1>3, <2>1, <2>2, NotedFacts DEF NoteTa, IfrLag
<1>4. CASE t.n # 0
  <2> DEFINE e == cia_set_irq_flag(c, at, "TA")
             f == (c.tat + t.n) % 2
             d == [e EXCEPT !.ta = Noted(t), !.tat = f]
  <2>1. Rest(c, e) /\ e.idle = c.idle /\ e.twice = c.twice /\ IfrLag(c, e, at)
    BY SetFlag DEF Flags
  <2>2. TaUnderflows(c, t, at) = [e EXCEPT !.ta = Noted(t), !.tat = (e.tat + t.n) % 2]
    BY <1>4 DEF TaUnderflows, Noted
  <2>3. TaUnderflows(c, t, at) = d
    BY <2>1, <2>2 DEF Rest
  <2> HIDE DEF e, f
  <2>4. e \in Chips /\ Noted(t) \in Timers /\ f \in 0 .. 1
    BY <1>2, <2>1, NotedFacts DEF Rest, f
  <2>5. /\ d \in Chips /\ d.ta = Noted(t) /\ d.tb = e.tb /\ d.tat = f /\ d.tbt = e.tbt
        /\ d.rdi = e.rdi /\ d.idle = e.idle /\ d.ifr_lag = e.ifr_lag /\ d.twice = e.twice
    BY <2>4 DEF Chips
  <2> HIDE DEF d
  <2> QED BY <2>1, <2>3, <2>5 DEF NoteTa, Rest, IfrLag, f
<1> QED BY <1>3, <1>4

\* The underflows of timer B are noted.
LEMMA NoteTbFacts ==
  ASSUME NEW c \in Chips, NEW t \in Timers, NEW at \in Int
  PROVE  NoteTb(c, TbUnderflows(c, t, at), t, at)
<1>1. c.tbt \in 0 .. 1 /\ t.n \in Nat
  BY DEF Chips, Timers
<1>2. (c.tbt + t.n) % 2 \in 0 .. 1 /\ (c.tbt + 0) % 2 = c.tbt
  BY <1>1, Parity
<1>3. CASE t.n = 0
  <2> DEFINE d == [c EXCEPT !.tb = t]
  <2>1. TbUnderflows(c, t, at) = d
    BY <1>3 DEF TbUnderflows
  <2>2. /\ d \in Chips /\ d.tb = t /\ d.ta = c.ta /\ d.tat = c.tat /\ d.tbt = c.tbt
        /\ d.rdi = c.rdi /\ d.idle = c.idle /\ d.ifr_lag = c.ifr_lag /\ d.twice = c.twice
    BY DEF Chips
  <2> HIDE DEF d
  <2> QED BY <1>2, <1>3, <2>1, <2>2, NotedFacts DEF NoteTb, IfrLag
<1>4. CASE t.n # 0
  <2> DEFINE e == cia_set_irq_flag(c, at, "TB")
             f == (c.tbt + t.n) % 2
             g == TimerBBug(e.flags, e.rdi - at)
             d == [e EXCEPT !.tb = Noted(t), !.flags = g, !.tbt = f]
  <2>1. Rest(c, e) /\ e.idle = c.idle /\ e.twice = c.twice /\ IfrLag(c, e, at)
    BY SetFlag DEF Flags
  <2>2. TbUnderflows(c, t, at) = [e EXCEPT !.tb = Noted(t),
                                    !.flags = TimerBBug(e.flags, c.rdi - at),
                                    !.tbt = (e.tbt + t.n) % 2]
    BY <1>4 DEF TbUnderflows, Noted
  <2>3. TbUnderflows(c, t, at) = d
    BY <2>1, <2>2 DEF Rest
  <2>4. g \in SUBSET Flags
    <3> HIDE DEF e
    <3>1. e.flags \in SUBSET Flags
      BY <2>1 DEF Rest, Chips
    <3> QED BY <3>1 DEF TimerBBug, Flags
  <2> HIDE DEF e, f, g
  <2>5. e \in Chips /\ Noted(t) \in Timers /\ f \in 0 .. 1
    BY <1>2, <2>1, NotedFacts DEF Rest, f
  <2>6. /\ d \in Chips /\ d.tb = Noted(t) /\ d.ta = e.ta /\ d.tbt = f /\ d.tat = e.tat
        /\ d.rdi = e.rdi /\ d.idle = e.idle /\ d.ifr_lag = e.ifr_lag /\ d.twice = e.twice
    BY <2>4, <2>5 DEF Chips
  <2> HIDE DEF d
  <2> QED BY <2>1, <2>3, <2>6 DEF NoteTb, Rest, IfrLag, f
<1> QED BY <1>3, <1>4

\* Only the alarm of timer A or B changes.
SetTa(c, d, s) == /\ d \in Chips /\ d.ta = s /\ d.tb = c.tb
                  /\ d.tat = c.tat /\ d.tbt = c.tbt /\ d.rdi = c.rdi
                  /\ d.idle = c.idle /\ d.twice = c.twice /\ d.ifr_lag = c.ifr_lag

\* The same for timer B.
SetTb(c, d, s) == /\ d \in Chips /\ d.tb = s /\ d.ta = c.ta
                  /\ d.tat = c.tat /\ d.tbt = c.tbt /\ d.rdi = c.rdi
                  /\ d.idle = c.idle /\ d.twice = c.twice /\ d.ifr_lag = c.ifr_lag

\* An assignment to one timer.
LEMMA SetFacts ==
  ASSUME NEW c \in Chips, NEW s \in Timers
  PROVE  SetTa(c, [c EXCEPT !.ta = s], s) /\ SetTb(c, [c EXCEPT !.tb = s], s)
<1>1. SetTa(c, [c EXCEPT !.ta = s], s)
  BY DEF SetTa, Chips
<1>2. SetTb(c, [c EXCEPT !.tb = s], s)
  BY DEF SetTb, Chips
<1> QED BY <1>1, <1>2

\* s with another alarm.
Alarmed(s, t) == /\ t \in Timers /\ t.state = s.state /\ t.cnt = s.cnt
                 /\ t.latch = s.latch /\ t.lag = s.lag /\ t.n = s.n

\* What another alarm leaves alone.
LEMMA AlarmedFacts ==
  ASSUME NEW s \in Timers, NEW t, Alarmed(s, t)
  PROVE  /\ t \in Timers /\ t.lag = s.lag /\ Same(t, s)
         /\ Fit(s) => Fit(t)
         /\ Clean(s) => Clean(t)
         /\ Plain(s) => Plain(t)
BY DEF Alarmed, Same, Fit, Weak, Clean, Plain

\* ciat_set_alarm() changes the alarm, to one that is not past.
LEMMA AlarmFacts ==
  ASSUME NEW s \in Timers, Weak(s)
  PROVE  /\ Alarmed(s, ciat_set_alarm(s)) /\ AlarmOf(s, ciat_set_alarm(s).alarm)
         /\ ciat_set_alarm(s).alarm > -s.lag \/ ciat_set_alarm(s).alarm = NEVER
<1>1. PICK a \in Int : ciat_set_alarm(s) = [s EXCEPT !.alarm = a] /\ AlarmOf(s, a)
  BY SetAlarm
<1> DEFINE t == [s EXCEPT !.alarm = a]
<1>2. Alarmed(s, t) /\ t.alarm = a
  BY DEF Alarmed, Timers
<1>3. a > -s.lag \/ a = NEVER
  <2>1. CASE a = NEVER
    BY <2>1
  <2>2. ASSUME NEW k \in Nat, First(s, k), a = k - s.lag PROVE a > -s.lag
    <3>1. k \in Nat \ {0} /\ s.lag \in Int
      BY <2>2 DEF First, Timers
    <3> QED BY <2>2, <3>1
  <2> QED BY <1>1, <2>1, <2>2 DEF AlarmOf
<1> HIDE DEF t
<1> QED BY <1>1, <1>2, <1>3 DEF t

\* ciat_ack_alarm() changes the alarm, to none.
LEMMA AckFacts ==
  ASSUME NEW s \in Timers
  PROVE  Alarmed(s, ciat_ack_alarm(s)) /\ ciat_ack_alarm(s).alarm = NEVER
<1>1. NEVER \in Int
  BY WordFacts
<1> QED BY <1>1 DEF ciat_ack_alarm, Alarmed, Timers

\* A step that timer B counts, field by field.
LEMMA StepFacts ==
  ASSUME NEW s \in Timers
  PROVE  /\ Step(s) \in Timers /\ Step(s).cnt = s.cnt /\ Step(s).latch = s.latch
         /\ Step(s).lag = s.lag /\ Step(s).alarm = s.alarm /\ Step(s).n = s.n
         /\ Step(s).state = IF "START" \in s.state THEN s.state \cup {"STEP"} ELSE s.state
         /\ Fit(s) => Fit(Step(s))
         /\ Clean(s) => Clean(Step(s))
<1>1. /\ Step(s) \in Timers /\ Step(s).cnt = s.cnt /\ Step(s).latch = s.latch
      /\ Step(s).lag = s.lag /\ Step(s).alarm = s.alarm /\ Step(s).n = s.n
      /\ Step(s).state = s.state \cup (IF "START" \in s.state THEN {"STEP"} ELSE {})
  BY DEF Step, Timers, Bits
<1>2. Step(s).state = IF "START" \in s.state THEN s.state \cup {"STEP"} ELSE s.state
  BY <1>1
<1>3. \A b \in {"START", "COUNT3", "OUT", "LOAD"} : b \in Step(s).state <=> b \in s.state
  BY <1>1
<1> QED BY <1>1, <1>2, <1>3 DEF Fit, Weak, Clean

\* Two states of a timer, each with its toggle, that show the same now.
Now(s) == After(s, s.lag)

\* s with the toggle g and t with the toggle h come to the same.
SameRun(s, g, t, h) == /\ Same(Now(s), Now(t))
                       /\ (g + Now(s).n) % 2 = (h + Now(t).n) % 2

\* Toggling m times and then n times.
LEMMA Mod2 ==
  \A g \in 0 .. 1, m, n \in Nat : (((g + m) % 2) + n) % 2 = (g + (m + n)) % 2
OBVIOUS

\* SameRun is transitive.
LEMMA SameRunTrans ==
  ASSUME NEW s, NEW t, NEW u, NEW g, NEW h, NEW i,
         SameRun(s, g, t, h), SameRun(t, h, u, i)
  PROVE  SameRun(s, g, u, i)
BY DEF SameRun, Same

\* Timers that behave alike at the same clock come to the same.
LEMMA SameRunNow ==
  ASSUME NEW s \in Timers, NEW t \in Timers, s.lag \in Nat, t.lag = s.lag, t.n = s.n,
         Same(s, t), NEW g
  PROVE  SameRun(s, g, t, g)
<1> DEFINE a == After(s, s.lag)
           b == After(t, s.lag)
<1>1. Same(a, b) /\ a.n - s.n = b.n - t.n /\ a \in Timers /\ b \in Timers
  BY SameAfter, RunFacts
<1>2. Now(s) = a /\ Now(t) = b
  BY DEF Now
<1> HIDE DEF a, b
<1>3. a.n \in Nat /\ b.n \in Nat /\ s.n \in Nat
  BY <1>1 DEF Timers
<1>4. a.n = b.n
  BY <1>1, <1>3
<1> QED BY <1>1, <1>2, <1>4 DEF SameRun

\* ciat_update() does not change what a timer comes to.
LEMMA SameRunUpdate ==
  ASSUME NEW s \in Timers, s.n = 0, Fit(s), Plain(s), NEW at \in Nat, s.lag >= at,
         NEW g \in 0 .. 1
  PROVE  LET u == ciat_update(s, at)
         IN  SameRun(s, g, Noted(u), (g + u.n) % 2)
<1> DEFINE u == ciat_update(s, at)
           v == Noted(u)
           k == s.lag - at
           a == After(s, k)
<1>1. /\ u \in Timers /\ u.lag = at /\ Later(s, u, k)
  BY Updated
<1>2. s.lag \in Nat /\ k \in Nat /\ k + at = s.lag
  BY DEF Timers
<1>4. Same(u, a) /\ u.n = a.n
  BY <1>1 DEF Later
<1> HIDE DEF k
<1>3. a \in Timers /\ After(s, s.lag) = After(a, at)
  <2>1. After(s, k + at) = After(After(s, k), at)
    BY <1>2, AfterAdd
  <2> QED BY <1>2, <2>1, RunFacts
<1> HIDE DEF u, a
<1>5. v \in Timers /\ Same(v, a) /\ v.lag = at /\ v.n = 0
  BY <1>1, <1>4, NotedFacts DEF Same
<1>6. u.n \in Nat
  BY <1>1 DEF Timers
<1> HIDE DEF v
<1> DEFINE x == After(a, at)
           y == After(v, at)
<1>7. Same(y, x) /\ y.n - v.n = x.n - a.n /\ x \in Timers /\ y \in Timers
  BY <1>3, <1>5, SameAfter, RunFacts
<1>8. Now(s) = x /\ Now(v) = y
  BY <1>3, <1>5 DEF Now
<1> HIDE DEF x, y
<1>9. x.n \in Nat /\ y.n \in Nat
  BY <1>7 DEF Timers
<1>10. x.n = u.n + y.n
  BY <1>4, <1>5, <1>6, <1>7, <1>9
<1>11. (((g + u.n) % 2) + y.n) % 2 = (g + x.n) % 2
  BY <1>6, <1>9, <1>10, Mod2
<1> QED BY <1>7, <1>8, <1>11 DEF SameRun, Same, u, v

\* t is s, brought up to the clock that is at behind, and its toggle counts the
\* underflows since.
Kept(s, g, t, h, at) ==
  LET b == After(s, s.lag - at)
  IN  t.lag = at /\ t.n = 0 /\ Same(t, b) /\ h = (g + b.n) % 2

\* ciat_update() brings a timer up to the clock.
LEMMA KeptUpdate ==
  ASSUME NEW s \in Timers, Fit(s), Plain(s), NEW at \in Nat, s.lag >= at, NEW g
  PROVE  LET u == ciat_update(s, at)
         IN  Kept(s, g, Noted(u), (g + u.n) % 2, at)
<1> DEFINE u == ciat_update(s, at)
<1>1. /\ u \in Timers /\ u.lag = at /\ Later(s, u, s.lag - at)
  BY Updated
<1> HIDE DEF u
<1>2. Same(Noted(u), u) /\ Noted(u).lag = at /\ Noted(u).n = 0
  BY <1>1, NotedFacts DEF Same
<1> QED BY <1>1, <1>2 DEF Kept, Later, Same, u

\* ... and so it is with another alarm.
LEMMA KeptAlarmed ==
  ASSUME NEW s, NEW t \in Timers, NEW u, NEW g, NEW h, NEW at, Kept(s, g, t, h, at), Alarmed(t, u)
  PROVE  Kept(s, g, u, h, at)
BY AlarmedFacts DEF Kept, Alarmed, Same

-----------------------------------------------------------------------------

\* Nothing of the chip is later than at behind the clock, and no alarm is
\* earlier.
Pre(c, at) ==
  /\ c \in Chips
  /\ Fit(c.ta) /\ Fit(c.tb)
  /\ c.ta.n = 0 /\ c.tb.n = 0
  /\ c.ta.lag >= at /\ c.tb.lag >= at
  /\ c.ta.alarm >= -at /\ c.tb.alarm >= -at
  /\ c.ta.alarm >= -c.ifr_lag /\ c.tb.alarm >= -c.ifr_lag
  /\ c.ifr_lag >= -1

\* The timer is behind, or stands after a cycle.
Ready(s, at) == s.lag > at \/ Clean(s)

\* What every way to bring the timers up to date has in common.
Upd(c, d, at) ==
  /\ Pre(d, at)
  /\ d.idle = c.idle /\ d.twice = c.twice /\ d.rdi = c.rdi /\ IfrLag(c, d, at)
  /\ Ready(c.ta, at) => Ready(d.ta, at)
  /\ Ready(c.tb, at) => Ready(d.tb, at)
  /\ Plain(c.ta) => Plain(d.ta) /\ SameRun(c.ta, c.tat, d.ta, d.tat)

\* Upd is transitive.
LEMMA UpdTrans ==
  ASSUME NEW c, NEW d, NEW e, NEW at \in Nat, Pre(c, at), Upd(c, d, at), Upd(d, e, at)
  PROVE  Upd(c, e, at)
<1>1. IfrLag(c, e, at)
  BY DEF Upd, IfrLag
<1>2. Plain(c.ta) => Plain(e.ta) /\ SameRun(c.ta, c.tat, e.ta, e.tat)
  BY SameRunTrans DEF Upd
<1> QED BY <1>1, <1>2 DEF Upd

\* cia_do_update_ta().
LEMMA UpdateTa ==
  ASSUME NEW c, NEW at \in Nat, Pre(c, at)
  PROVE  LET d == cia_do_update_ta(c, at)
         IN  /\ Upd(c, d, at)
             /\ d.ta.lag = at /\ d.ta.alarm = c.ta.alarm /\ d.tb = c.tb /\ d.tbt = c.tbt
             /\ Plain(c.ta) => Kept(c.ta, c.tat, d.ta, d.tat, at)
<1> DEFINE s == c.ta
           u == ciat_update(s, at)
           d == cia_do_update_ta(c, at)
<1>1. s \in Timers /\ Fit(s) /\ s.lag >= at /\ c \in Chips /\ s.lag \in Int
  BY DEF Pre, Chips, Timers
<1>2. /\ u \in Timers /\ Fit(u) /\ u.lag = at /\ u.alarm = s.alarm
      /\ s.lag > at => Clean(u)
      /\ s.lag = at => u = s
      /\ Plain(s) => Plain(u)
  BY <1>1, Updated
<1>3. NoteTa(c, d, u, at)
  BY <1>1, <1>2, NoteTaFacts DEF cia_do_update_ta
<1>4. Plain(s) => /\ SameRun(s, c.tat, Noted(u), (c.tat + u.n) % 2)
                 /\ Kept(s, c.tat, Noted(u), (c.tat + u.n) % 2, at)
  BY <1>1, SameRunUpdate, KeptUpdate DEF Pre, Chips
<1> HIDE DEF u, d
<1> DEFINE v == Noted(u)
<1>5. /\ v \in Timers /\ Fit(v) /\ v.lag = at /\ v.alarm = s.alarm /\ v.n = 0
      /\ s.lag > at => Clean(v)
      /\ s.lag = at /\ Clean(s) => Clean(v)
      /\ Plain(s) => Plain(v)
  BY <1>2, NotedFacts
<1>6. d.ta = v /\ d \in Chips /\ d.tb = c.tb
  BY <1>3 DEF NoteTa
<1> HIDE DEF v
<1>7. d.ifr_lag \in Int /\ c.ifr_lag \in Int /\ c.ta.alarm \in Int /\ c.tb.alarm \in Int
  BY <1>1, <1>6 DEF Chips, Timers
<1>8. Pre(d, at)
  <2>1. /\ d.ta.alarm >= -at /\ d.tb.alarm >= -at
        /\ d.ta.alarm >= -d.ifr_lag /\ d.tb.alarm >= -d.ifr_lag
        /\ d.ifr_lag >= -1
    BY <1>3, <1>5, <1>6, <1>7 DEF Pre, NoteTa, IfrLag
  <2> QED BY <1>5, <1>6, <2>1 DEF Pre
<1>9. Ready(s, at) => Ready(v, at)
  BY <1>1, <1>5 DEF Ready
<1>10. Plain(s) => SameRun(s, c.tat, d.ta, d.tat) /\ Kept(s, c.tat, d.ta, d.tat, at)
  BY <1>3, <1>4 DEF NoteTa
<1> QED BY <1>3, <1>5, <1>6, <1>8, <1>9, <1>10 DEF Upd, NoteTa, d, u

\* cia_do_update_tb().
LEMMA UpdateTbOnly ==
  ASSUME NEW c, NEW at \in Nat, Pre(c, at)
  PROVE  LET d == cia_do_update_tb(c, at)
         IN  /\ Upd(c, d, at)
             /\ d.tb.lag = at /\ d.tb.alarm = c.tb.alarm /\ d.ta = c.ta /\ d.tat = c.tat
             /\ Plain(c.tb) => /\ Plain(d.tb) /\ SameRun(c.tb, c.tbt, d.tb, d.tbt)
                               /\ Kept(c.tb, c.tbt, d.tb, d.tbt, at)
<1> DEFINE s == c.tb
           u == ciat_update(s, at)
           d == cia_do_update_tb(c, at)
<1>1. s \in Timers /\ Fit(s) /\ s.lag >= at /\ c \in Chips /\ s.lag \in Int
  BY DEF Pre, Chips, Timers
<1>2. /\ u \in Timers /\ Fit(u) /\ u.lag = at /\ u.alarm = s.alarm
      /\ s.lag > at => Clean(u)
      /\ s.lag = at => u = s
      /\ Plain(s) => Plain(u)
  BY <1>1, Updated
<1>3. NoteTb(c, d, u, at)
  BY <1>1, <1>2, NoteTbFacts DEF cia_do_update_tb
<1>4. Plain(s) => /\ SameRun(s, c.tbt, Noted(u), (c.tbt + u.n) % 2)
                 /\ Kept(s, c.tbt, Noted(u), (c.tbt + u.n) % 2, at)
  BY <1>1, SameRunUpdate, KeptUpdate DEF Pre, Chips
<1> HIDE DEF u, d
<1> DEFINE v == Noted(u)
<1>5. /\ v \in Timers /\ Fit(v) /\ v.lag = at /\ v.alarm = s.alarm /\ v.n = 0
      /\ s.lag > at => Clean(v)
      /\ s.lag = at /\ Clean(s) => Clean(v)
      /\ Plain(s) => Plain(v)
  BY <1>2, NotedFacts
<1>6. d.tb = v /\ d \in Chips /\ d.ta = c.ta /\ d.tat = c.tat
  BY <1>3 DEF NoteTb
<1> HIDE DEF v
<1>7. d.ifr_lag \in Int /\ c.ifr_lag \in Int /\ c.ta.alarm \in Int /\ c.tb.alarm \in Int
  BY <1>1, <1>6 DEF Chips, Timers
<1>8. Pre(d, at)
  <2>1. /\ d.ta.alarm >= -at /\ d.tb.alarm >= -at
        /\ d.ta.alarm >= -d.ifr_lag /\ d.tb.alarm >= -d.ifr_lag
        /\ d.ifr_lag >= -1
    BY <1>3, <1>5, <1>6, <1>7 DEF Pre, NoteTb, IfrLag
  <2> QED BY <1>5, <1>6, <2>1 DEF Pre
<1>9. Ready(s, at) => Ready(v, at)
  BY <1>1, <1>5 DEF Ready
<1>10. Plain(s) => SameRun(s, c.tbt, d.tb, d.tbt) /\ Kept(s, c.tbt, d.tb, d.tbt, at)
  BY <1>3, <1>4 DEF NoteTb
<1>11. SameRun(c.ta, c.tat, d.ta, d.tat)
  BY <1>6 DEF SameRun, Same
<1> QED BY <1>3, <1>5, <1>6, <1>8, <1>9, <1>10, <1>11 DEF Upd, NoteTb, d, u

\* A timer gets another alarm.
LEMMA ReAlarm ==
  ASSUME NEW c, NEW at \in Nat, Pre(c, at), NEW t, t.alarm >= -at, t.alarm >= -c.ifr_lag
  PROVE  /\ Alarmed(c.ta, t) =>
              LET d == [c EXCEPT !.ta = t]
              IN  Upd(c, d, at) /\ SetTa(c, d, t) /\ SameRun(c.ta, c.tat, d.ta, d.tat)
         /\ Alarmed(c.tb, t) =>
              LET d == [c EXCEPT !.tb = t]
              IN  Upd(c, d, at) /\ SetTb(c, d, t) /\ SameRun(c.tb, c.tbt, d.tb, d.tbt)
<1>1. /\ c \in Chips /\ c.ta \in Timers /\ c.tb \in Timers /\ Fit(c.ta) /\ Fit(c.tb)
      /\ c.ta.lag \in Nat /\ c.tb.lag \in Nat /\ c.tat \in 0 .. 1 /\ c.tbt \in 0 .. 1
  BY DEF Pre, Chips, Timers
<1>2. ASSUME Alarmed(c.ta, t), NEW d, d = [c EXCEPT !.ta = t]
      PROVE  Upd(c, d, at) /\ SetTa(c, d, t) /\ SameRun(c.ta, c.tat, d.ta, d.tat)
  <2>1. /\ t \in Timers /\ t.lag = c.ta.lag /\ t.n = c.ta.n /\ Same(t, c.ta) /\ Fit(t)
        /\ Clean(c.ta) => Clean(t)
        /\ Plain(c.ta) => Plain(t)
    BY <1>1, <1>2, AlarmedFacts DEF Alarmed
  <2>2. SetTa(c, d, t)
    BY <1>1, <1>2, <2>1, SetFacts
  <2>3. Pre(d, at)
    BY <2>1, <2>2 DEF Pre, SetTa
  <2>4. Same(c.ta, t)
    BY <2>1 DEF Same
  <2>5. SameRun(c.ta, c.tat, t, c.tat)
    BY <1>1, <2>1, <2>4, SameRunNow
  <2>6. SameRun(c.ta, c.tat, d.ta, d.tat)
    BY <2>2, <2>5 DEF SetTa
  <2>7. Ready(c.ta, at) => Ready(t, at)
    BY <2>1 DEF Ready
  <2> QED BY <2>1, <2>2, <2>3, <2>6, <2>7 DEF Upd, SetTa, IfrLag
<1>3. ASSUME Alarmed(c.tb, t), NEW d, d = [c EXCEPT !.tb = t]
      PROVE  Upd(c, d, at) /\ SetTb(c, d, t) /\ SameRun(c.tb, c.tbt, d.tb, d.tbt)
  <2>1. /\ t \in Timers /\ t.lag = c.tb.lag /\ t.n = c.tb.n /\ Same(t, c.tb) /\ Fit(t)
        /\ Clean(c.tb) => Clean(t)
        /\ Plain(c.tb) => Plain(t)
    BY <1>1, <1>3, AlarmedFacts DEF Alarmed
  <2>2. SetTb(c, d, t)
    BY <1>1, <1>3, <2>1, SetFacts
  <2>3. Pre(d, at)
    BY <2>1, <2>2 DEF Pre, SetTb
  <2>4. Same(c.tb, t)
    BY <2>1 DEF Same
  <2>5. SameRun(c.tb, c.tbt, t, c.tbt)
    BY <1>1, <2>1, <2>4, SameRunNow
  <2>6. SameRun(c.tb, c.tbt, d.tb, d.tbt)
    BY <2>2, <2>5 DEF SetTb
  <2>7. Ready(c.tb, at) => Ready(t, at)
    BY <2>1 DEF Ready
  <2>8. SameRun(c.ta, c.tat, d.ta, d.tat)
    BY <2>2 DEF SetTb, SameRun, Same
  <2> QED BY <2>1, <2>2, <2>3, <2>6, <2>7, <2>8 DEF Upd, SetTb, IfrLag
<1> QED BY <1>2, <1>3

\* An alarm that has been set comes after the clock.
Coming(s, at) == s.alarm > -at

\* A timer that was brought up to the clock gets an alarm, or none.
LEMMA SetOrAcked ==
  ASSUME NEW s \in Timers, Fit(s), NEW at \in Nat, s.lag = at, NEW l \in Int, l >= at,
         NEW t, t = ciat_set_alarm(s) \/ t = ciat_ack_alarm(s)
  PROVE  Alarmed(s, t) /\ t.alarm \in Int /\ t.alarm > -at /\ t.alarm >= -at /\ t.alarm >= -l
<1>1. Alarmed(s, t) /\ (t.alarm > -s.lag \/ t.alarm = NEVER)
  BY AlarmFacts, AckFacts DEF Fit
<1>2. t.alarm \in Int
  BY <1>1 DEF Alarmed, Timers
<1> QED BY <1>1, <1>2, WordFacts

\* The next alarm of timer A.
LEMMA NextTa ==
  ASSUME NEW c, NEW at \in Nat, Pre(c, at), c.ta.lag = at, c.ifr_lag >= at
  PROVE  LET d == NextTaAlarm(c)
         IN  /\ Upd(c, d, at) /\ SetTa(c, d, d.ta) /\ Alarmed(c.ta, d.ta)
             /\ Coming(d.ta, at)
             /\ TaNeedsAlarm(c) => AlarmOf(d.ta, d.ta.alarm)
             /\ ~TaNeedsAlarm(c) => d.ta.alarm = NEVER
<1> DEFINE t == IF TaNeedsAlarm(c) THEN ciat_set_alarm(c.ta) ELSE ciat_ack_alarm(c.ta)
           d == [c EXCEPT !.ta = t]
<1>1. NextTaAlarm(c) = d
  BY DEF NextTaAlarm
<1>2. c.ta \in Timers /\ Fit(c.ta) /\ c.ifr_lag \in Int
  BY DEF Pre, Chips
<1>3. t = ciat_set_alarm(c.ta) \/ t = ciat_ack_alarm(c.ta)
  OBVIOUS
<1>4. /\ TaNeedsAlarm(c) => AlarmOf(c.ta, t.alarm)
      /\ ~TaNeedsAlarm(c) => t.alarm = NEVER
  BY <1>2, AlarmFacts, AckFacts DEF Fit
<1> HIDE DEF t
<1>5. Alarmed(c.ta, t) /\ t.alarm \in Int /\ t.alarm > -at /\ t.alarm >= -at
      /\ t.alarm >= -c.ifr_lag
  BY <1>2, <1>3, SetOrAcked
<1>6. Upd(c, d, at) /\ SetTa(c, d, t)
  BY <1>5, ReAlarm
<1>7. d.ta = t
  BY <1>6 DEF SetTa
<1>8. AlarmOf(c.ta, t.alarm) => AlarmOf(t, t.alarm)
  <2>1. Same(t, c.ta) /\ t \in Timers /\ t.n = c.ta.n /\ t.lag = c.ta.lag
    BY <1>2, <1>5, AlarmedFacts DEF Alarmed
  <2>2. \A k \in Nat : After(t, k).n = After(c.ta, k).n
    <3> SUFFICES ASSUME NEW k \in Nat PROVE After(t, k).n = After(c.ta, k).n
      OBVIOUS
    <3>1. After(t, k).n - t.n = After(c.ta, k).n - c.ta.n
      BY <1>2, <2>1, SameAfter
    <3>2. After(t, k).n \in Nat /\ After(c.ta, k).n \in Nat /\ c.ta.n \in Nat
      BY <1>2, <2>1, RunFacts DEF Timers
    <3> QED BY <2>1, <3>1, <3>2
  <2>3. \A k \in Nat : k # 0 => k - 1 \in Nat
    OBVIOUS
  <2>4. Silent(c.ta) => Silent(t)
    BY <2>1, <2>2 DEF Silent
  <2>5. \A k \in Nat : First(c.ta, k) => First(t, k)
    BY <2>1, <2>2, <2>3 DEF First
  <2> QED BY <2>1, <2>4, <2>5 DEF AlarmOf
<1> HIDE DEF d
<1> QED BY <1>1, <1>4, <1>5, <1>6, <1>7, <1>8 DEF Coming

\* ciacore_inttb().
LEMMA IntTb ==
  ASSUME NEW c, NEW at \in Nat, Pre(c, at), c.ifr_lag >= at
  PROVE  LET d == ciacore_inttb(c, at)
         IN  /\ Upd(c, d, at) /\ d.ta = c.ta /\ d.tat = c.tat
             /\ d.tb.lag = at /\ Coming(d.tb, at)
             /\ Plain(c.tb) => /\ Plain(d.tb) /\ SameRun(c.tb, c.tbt, d.tb, d.tbt)
                               /\ Kept(c.tb, c.tbt, d.tb, d.tbt, at)
<1> DEFINE b == cia_do_update_tb(c, at)
           t == IF TbNeedsAlarm THEN ciat_set_alarm(b.tb) ELSE ciat_ack_alarm(b.tb)
           d == [b EXCEPT !.tb = t]
<1>1. ciacore_inttb(c, at) = d
  BY DEF ciacore_inttb
<1>2. /\ Upd(c, b, at) /\ b.ta = c.ta /\ b.tat = c.tat /\ b.tb.lag = at
      /\ Plain(c.tb) => /\ Plain(b.tb) /\ SameRun(c.tb, c.tbt, b.tb, b.tbt)
                        /\ Kept(c.tb, c.tbt, b.tb, b.tbt, at)
  BY UpdateTbOnly
<1> HIDE DEF b
<1>3. Pre(b, at) /\ b.tb \in Timers /\ Fit(b.tb) /\ b.ifr_lag \in Int
  BY <1>2 DEF Upd, Pre, Chips
<1>4. b.ifr_lag >= at
  BY <1>2 DEF Upd, IfrLag
<1>5. t = ciat_set_alarm(b.tb) \/ t = ciat_ack_alarm(b.tb)
  OBVIOUS
<1> HIDE DEF t
<1>6. Alarmed(b.tb, t) /\ t.alarm > -at /\ t.alarm >= -at /\ t.alarm >= -b.ifr_lag
  BY <1>2, <1>3, <1>4, <1>5, SetOrAcked
<1>7. Upd(b, d, at) /\ SetTb(b, d, t) /\ SameRun(b.tb, b.tbt, d.tb, d.tbt)
  BY <1>3, <1>6, ReAlarm
<1>8. /\ d.tb = t /\ d.ta = c.ta /\ d.tat = c.tat /\ t.lag = at
      /\ Plain(b.tb) => Plain(t)
  BY <1>2, <1>3, <1>6, <1>7, AlarmedFacts DEF SetTb
<1>11. Plain(c.tb) => Kept(c.tb, c.tbt, d.tb, d.tbt, at)
  BY <1>2, <1>3, <1>6, <1>7, KeptAlarmed DEF SetTb
<1> HIDE DEF d
<1>9. Upd(c, d, at)
  BY <1>2, <1>7, UpdTrans
<1>10. Plain(c.tb) => SameRun(c.tb, c.tbt, d.tb, d.tbt)
  BY <1>2, <1>7, SameRunTrans
<1> QED BY <1>1, <1>2, <1>6, <1>8, <1>9, <1>10, <1>11 DEF Coming

\* cia_update_tb() without its cia_update_ta().
LEMMA UpdTb ==
  ASSUME NEW c, NEW at \in Nat, Pre(c, at)
  PROVE  LET d == UpdateTb(c, at)
         IN  /\ Upd(c, d, at) /\ d.ta = c.ta /\ d.tat = c.tat
             /\ d.tb.lag = at /\ Coming(d.tb, at)
             /\ Plain(c.tb) => /\ Plain(d.tb) /\ SameRun(c.tb, c.tbt, d.tb, d.tbt)
                               /\ Kept(c.tb, c.tbt, d.tb, d.tbt, at)
<1>1. c.tb.alarm \in Int /\ c.ifr_lag \in Int
  BY DEF Pre, Chips, Timers
<1>2. CASE c.tb.alarm <= -at
  <2>1. c.ifr_lag >= at
    BY <1>1, <1>2 DEF Pre
  <2> QED BY <1>2, <2>1, IntTb DEF UpdateTb
<1>3. CASE ~(c.tb.alarm <= -at)
  <2>1. UpdateTb(c, at) = cia_do_update_tb(c, at)
    BY <1>3 DEF UpdateTb
  <2>2. c.tb.alarm > -at
    BY <1>1, <1>3
  <2> QED BY <2>1, <2>2, UpdateTbOnly DEF Coming
<1> QED BY <1>2, <1>3

\* cia_do_step_tb().
LEMMA StepTb ==
  ASSUME NEW c, NEW at \in Nat, Pre(c, at), c.tb.lag = at, Coming(c.tb, at), c.ifr_lag >= at
  PROVE  LET d == cia_do_step_tb(c)
         IN  /\ Upd(c, d, at) /\ SetTb(c, d, d.tb) /\ Coming(d.tb, at)
             /\ d.tb.lag = at /\ d.tb.n = 0 /\ Same(d.tb, Step(c.tb))
<1> DEFINE t == IF "START" \in c.tb.state THEN ciat_set_alarm(Step(c.tb)) ELSE c.tb
           d == [c EXCEPT !.tb = t]
<1>1. cia_do_step_tb(c) = d
  BY DEF cia_do_step_tb
<1>2. c \in Chips /\ c.tb \in Timers /\ Fit(c.tb) /\ c.ifr_lag \in Int /\ c.tb.n = 0
      /\ c.tb.alarm \in Int
  BY DEF Pre, Chips, Timers
<1> DEFINE s == Step(c.tb)
<1>3. /\ s \in Timers /\ s.lag = at /\ s.n = 0 /\ Fit(s) /\ (Clean(c.tb) => Clean(s))
      /\ "START" \notin c.tb.state => Same(c.tb, s)
  BY <1>2, StepFacts DEF Same
<1> HIDE DEF s
<1>4. /\ t \in Timers /\ t.lag = at /\ t.n = 0 /\ Fit(t) /\ (Clean(c.tb) => Clean(t))
      /\ Same(t, s) /\ t.alarm > -at /\ t.alarm >= -at /\ t.alarm >= -c.ifr_lag
  <2>1. CASE "START" \in c.tb.state
    <3>1. t = ciat_set_alarm(s)
      BY <2>1 DEF s
    <3> HIDE DEF t
    <3>2. Alarmed(s, t) /\ t.alarm > -at /\ t.alarm >= -at /\ t.alarm >= -c.ifr_lag
      BY <1>2, <1>3, <3>1, SetOrAcked
    <3> QED BY <1>3, <3>2, AlarmedFacts DEF Alarmed
  <2>2. CASE "START" \notin c.tb.state
    BY <1>2, <1>3, <2>2 DEF Coming, Pre
  <2> QED BY <2>1, <2>2
<1> HIDE DEF t
<1>5. SetTb(c, d, t)
  BY <1>2, <1>4, SetFacts
<1> HIDE DEF d
<1>6. Pre(d, at)
  BY <1>4, <1>5 DEF Pre, SetTb
<1>7. SameRun(c.ta, c.tat, d.ta, d.tat)
  BY <1>5 DEF SetTb, SameRun, Same
<1>8. Ready(c.tb, at) => Ready(t, at)
  BY <1>4 DEF Ready
<1> QED BY <1>1, <1>4, <1>5, <1>6, <1>7, <1>8 DEF Upd, SetTb, IfrLag, Coming, s, d

\* Timer A may have another alarm, as far as its own mode goes.
TaRuns == ctrl.ta \cap {"START", "CR_ONESHOT", "INMODE"} = {"START"}

\* Timer B was brought up to the clock and then took a step.
Stepped(s, g, t, h, at) ==
  LET b == After(s, s.lag - at)
  IN  t.lag = at /\ t.n = 0 /\ Same(t, Step(b)) /\ h = (g + b.n) % 2

\* The end of ciacore_intta(): timer B has counted, if it counts timer A.
LEMMA Counted ==
  ASSUME NEW c, NEW at \in Nat, Pre(c, at), c.ifr_lag >= at
  PROVE  LET d == CountedByTb(c, at)
         IN  /\ Upd(c, d, at) /\ d.ta = c.ta /\ d.tat = c.tat
             /\ ~CountsTa => d = c
             /\ CountsTa => d.tb.lag = at /\ Coming(d.tb, at)
             /\ CountsTa /\ Plain(c.tb) => Stepped(c.tb, c.tbt, d.tb, d.tbt, at)
<1>1. CASE ~CountsTa
  <2>1. CountedByTb(c, at) = c
    BY <1>1 DEF CountedByTb
  <2>2. Upd(c, c, at)
    BY DEF Upd, IfrLag, SameRun, Same
  <2> QED BY <1>1, <2>1, <2>2
<1>2. CASE CountsTa
  <2> DEFINE b == UpdateTb(c, at)
             d == cia_do_step_tb(b)
  <2>1. CountedByTb(c, at) = d
    BY <1>2 DEF CountedByTb
  <2>2. /\ Upd(c, b, at) /\ b.ta = c.ta /\ b.tat = c.tat /\ b.tb.lag = at /\ Coming(b.tb, at)
        /\ Plain(c.tb) => Kept(c.tb, c.tbt, b.tb, b.tbt, at)
    BY UpdTb
  <2> HIDE DEF b
  <2>3. Pre(b, at) /\ b.ifr_lag >= at /\ b.tb \in Timers /\ c.tb \in Timers
    BY <2>2 DEF Upd, IfrLag, Pre, Chips
  <2>4. /\ Upd(b, d, at) /\ SetTb(b, d, d.tb) /\ Coming(d.tb, at)
        /\ d.tb.lag = at /\ d.tb.n = 0 /\ Same(d.tb, Step(b.tb))
    BY <2>2, <2>3, StepTb
  <2> HIDE DEF d
  <2>5. Upd(c, d, at)
    BY <2>2, <2>4, UpdTrans
  <2>6. ASSUME Plain(c.tb) PROVE Stepped(c.tb, c.tbt, d.tb, d.tbt, at)
    <3> DEFINE a == After(c.tb, c.tb.lag - at)
    <3>1. Same(b.tb, a) /\ b.tbt = (c.tbt + a.n) % 2
      BY <2>2, <2>6 DEF Kept
    <3>2. a \in Timers
      <4>1. c.tb.lag - at \in Nat
        BY <2>3 DEF Pre, Timers
      <4> QED BY <2>3, <4>1, RunFacts
    <3> HIDE DEF a
    <3>3. Same(Step(b.tb), Step(a))
      <4>1. "START" \in b.tb.state <=> "START" \in a.state
        BY <2>3, <3>1, <3>2, SameBits DEF Same
      <4>2. b.tb.state \ {"COUNT"} = a.state \ {"COUNT"} /\ b.tb.cnt = a.cnt
            /\ b.tb.latch = a.latch
        BY <3>1 DEF Same
      <4> DEFINE x == Step(b.tb).state
                 y == Step(a).state
      <4>3. /\ x = IF "START" \in b.tb.state THEN b.tb.state \cup {"STEP"} ELSE b.tb.state
            /\ y = IF "START" \in a.state THEN a.state \cup {"STEP"} ELSE a.state
        BY <2>3, <3>2, StepFacts
      <4>4. x \ {"COUNT"} = y \ {"COUNT"}
        <5> HIDE DEF x, y
        <5>1. CASE "START" \in a.state
          <6>1. x \ {"COUNT"} = (b.tb.state \ {"COUNT"}) \cup {"STEP"}
            BY <4>1, <4>3, <5>1
          <6>2. y \ {"COUNT"} = (a.state \ {"COUNT"}) \cup {"STEP"}
            BY <4>3, <5>1
          <6> QED BY <4>2, <6>1, <6>2
        <5>2. CASE "START" \notin a.state
          BY <4>1, <4>2, <4>3, <5>2
        <5> QED BY <5>1, <5>2
      <4> QED BY <2>3, <3>2, <4>2, <4>4, StepFacts DEF Same
    <3>4. Same(d.tb, Step(a)) /\ d.tbt = (c.tbt + a.n) % 2
      BY <2>4, <3>1, <3>3 DEF Same, SetTb
    <3> QED BY <2>4, <3>4 DEF Stepped, a
  <2> QED BY <1>2, <2>1, <2>2, <2>4, <2>5, <2>6 DEF SetTb
<1> QED BY <1>1, <1>2

\* ciacore_intta(): what is left of timer A, and of timer B if it counts A.
LEMMA IntTa ==
  ASSUME NEW c, NEW at \in Nat, Pre(c, at), c.ifr_lag >= at
  PROVE  LET d == ciacore_intta(c, at)
         IN  /\ Upd(c, d, at)
             /\ d.ta.lag = at /\ Coming(d.ta, at)
             /\ Plain(c.ta) => Kept(c.ta, c.tat, d.ta, d.tat, at)
             /\ ~CountsTa => d.tb = c.tb /\ d.tbt = c.tbt
             /\ CountsTa => /\ d.tb.lag = at /\ Coming(d.tb, at)
                            /\ TaRuns => AlarmOf(d.ta, d.ta.alarm)
                            /\ ~TaRuns => d.ta.alarm = NEVER
                            /\ Plain(c.tb) => Stepped(c.tb, c.tbt, d.tb, d.tbt, at)
<1> DEFINE a == cia_do_update_ta(c, at)
           b == NextTaAlarm(a)
           d == CountedByTb(b, at)
<1>1. ciacore_intta(c, at) = d
  BY DEF ciacore_intta
<1>2. /\ Upd(c, a, at) /\ a.ta.lag = at /\ a.tb = c.tb /\ a.tbt = c.tbt
      /\ Plain(c.ta) => Kept(c.ta, c.tat, a.ta, a.tat, at)
  BY UpdateTa
<1> HIDE DEF a
<1>3. Pre(a, at) /\ a.ifr_lag >= at /\ a.ta \in Timers
  BY <1>2 DEF Upd, IfrLag, Pre, Chips
<1>4. /\ Upd(a, b, at) /\ SetTa(a, b, b.ta) /\ Alarmed(a.ta, b.ta)
      /\ Coming(b.ta, at)
      /\ TaNeedsAlarm(a) => AlarmOf(b.ta, b.ta.alarm)
      /\ ~TaNeedsAlarm(a) => b.ta.alarm = NEVER
  BY <1>2, <1>3, NextTa
<1> HIDE DEF b
<1>5. Pre(b, at) /\ b.ifr_lag >= at /\ b.tb = c.tb /\ b.tbt = c.tbt /\ b.ta.lag = at
  BY <1>2, <1>3, <1>4 DEF Upd, SetTa, Alarmed
<1>6. Plain(c.ta) => Kept(c.ta, c.tat, b.ta, b.tat, at)
  BY <1>2, <1>3, <1>4, KeptAlarmed DEF SetTa
<1>7. /\ Upd(b, d, at) /\ d.ta = b.ta /\ d.tat = b.tat
      /\ ~CountsTa => d = b
      /\ CountsTa => d.tb.lag = at /\ Coming(d.tb, at)
      /\ CountsTa /\ Plain(b.tb) => Stepped(b.tb, b.tbt, d.tb, d.tbt, at)
  BY <1>5, Counted
<1> HIDE DEF d
<1>8. CountsTa => (TaNeedsAlarm(a) <=> TaRuns)
  BY DEF CountsTa, TaNeedsAlarm, TaRuns
<1>9. Upd(c, b, at)
  BY <1>2, <1>4, UpdTrans
<1>10. Upd(c, d, at)
  BY <1>7, <1>9, UpdTrans
<1> QED BY <1>1, <1>4, <1>5, <1>6, <1>7, <1>8, <1>10

\* cia_update_ta(): like ciacore_intta() if the alarm is due, else timer B and
\* the alarm stay.
LEMMA UpdTa ==
  ASSUME NEW c, NEW at \in Nat, Pre(c, at)
  PROVE  LET d == cia_update_ta(c, at)
         IN  /\ Upd(c, d, at)
             /\ d.ta.lag = at /\ Coming(d.ta, at)
             /\ Plain(c.ta) => Kept(c.ta, c.tat, d.ta, d.tat, at)
             /\ ~CountsTa => d.tb = c.tb /\ d.tbt = c.tbt
             /\ Coming(c.ta, at) => /\ d.tb = c.tb /\ d.tbt = c.tbt
                                    /\ d.ta.alarm = c.ta.alarm
             /\ CountsTa /\ ~Coming(c.ta, at) =>
                  /\ d.tb.lag = at /\ Coming(d.tb, at)
                  /\ TaRuns => AlarmOf(d.ta, d.ta.alarm)
                  /\ ~TaRuns => d.ta.alarm = NEVER
                  /\ Plain(c.tb) => Stepped(c.tb, c.tbt, d.tb, d.tbt, at)
<1>1. c.ta.alarm \in Int /\ c.ifr_lag \in Int
  BY DEF Pre, Chips, Timers
<1>2. CASE c.ta.alarm <= -at
  <2>1. c.ifr_lag >= at
    BY <1>1, <1>2 DEF Pre
  <2>2. ~Coming(c.ta, at)
    BY <1>1, <1>2 DEF Coming
  <2>3. cia_update_ta(c, at) = ciacore_intta(c, at)
    BY <1>2 DEF cia_update_ta
  <2> QED BY <2>1, <2>2, <2>3, IntTa
<1>3. CASE ~(c.ta.alarm <= -at)
  <2>1. cia_update_ta(c, at) = cia_do_update_ta(c, at)
    BY <1>3 DEF cia_update_ta
  <2>2. Coming(c.ta, at)
    BY <1>1, <1>3 DEF Coming
  <2> QED BY <2>1, <2>2, UpdateTa DEF Coming
<1> QED BY <1>2, <1>3

\* cia_update_tb().
LEMMA UpdTbTa ==
  ASSUME NEW c, NEW at \in Nat, Pre(c, at)
  PROVE  LET d == cia_update_tb(c, at)
             e == AlsoTa(c, at)
         IN  /\ Upd(c, d, at) /\ Upd(c, e, at) /\ Upd(e, d, at)
             /\ d.ta = e.ta /\ d.tat = e.tat
             /\ c.ta.lag = at => d.ta.lag = at
             /\ Coming(c.ta, at) \/ CountsTa => Coming(d.ta, at)
             /\ d.tb.lag = at /\ Coming(d.tb, at)
             /\ Plain(e.tb) => /\ Plain(d.tb) /\ SameRun(e.tb, e.tbt, d.tb, d.tbt)
                               /\ Kept(e.tb, e.tbt, d.tb, d.tbt, at)
<1> DEFINE e == AlsoTa(c, at)
           d == UpdateTb(e, at)
<1>1. cia_update_tb(c, at) = d
  BY DEF cia_update_tb
<1>2. /\ Upd(c, e, at) /\ (c.ta.lag = at => e.ta.lag = at)
      /\ Coming(c.ta, at) \/ CountsTa => Coming(e.ta, at)
  <2>1. CASE CountsTa
    <3>1. e = cia_update_ta(c, at)
      BY <2>1 DEF AlsoTa
    <3> QED BY <3>1, UpdTa
  <2>2. CASE ~CountsTa
    <3>1. e = c
      BY <2>2 DEF AlsoTa
    <3>2. Upd(c, c, at)
      BY DEF Upd, IfrLag, SameRun, Same
    <3> QED BY <2>2, <3>1, <3>2
  <2> QED BY <2>1, <2>2
<1> HIDE DEF e
<1>3. Pre(e, at)
  BY <1>2 DEF Upd
<1>4. /\ Upd(e, d, at) /\ d.ta = e.ta /\ d.tat = e.tat
      /\ d.tb.lag = at /\ Coming(d.tb, at)
      /\ Plain(e.tb) => /\ Plain(d.tb) /\ SameRun(e.tb, e.tbt, d.tb, d.tbt)
                        /\ Kept(e.tb, e.tbt, d.tb, d.tbt, at)
  BY <1>3, UpdTb
<1> HIDE DEF d
<1>5. Upd(c, d, at)
  BY <1>2, <1>4, UpdTrans
<1> QED BY <1>1, <1>2, <1>4, <1>5 DEF e

\* Both timers are up to date, with their alarms ahead.
LEMMA UpdBoth ==
  ASSUME NEW c, NEW at \in Nat, Pre(c, at)
  PROVE  LET d == UpdateBoth(c, at)
         IN  /\ Upd(c, d, at)
             /\ d.ta.lag = at /\ d.tb.lag = at /\ Coming(d.ta, at) /\ Coming(d.tb, at)
<1> DEFINE e == cia_update_ta(c, at)
           d == cia_update_tb(e, at)
<1>1. UpdateBoth(c, at) = d
  BY DEF UpdateBoth
<1>2. Upd(c, e, at) /\ e.ta.lag = at /\ Coming(e.ta, at)
  BY UpdTa
<1> HIDE DEF e
<1>3. Pre(e, at)
  BY <1>2 DEF Upd
<1>4. Upd(e, d, at) /\ d.ta.lag = at /\ d.tb.lag = at /\ Coming(d.ta, at) /\ Coming(d.tb, at)
  BY <1>2, <1>3, UpdTbTa
<1> HIDE DEF d
<1>5. Upd(c, d, at)
  BY <1>2, <1>4, UpdTrans
<1> QED BY <1>1, <1>4, <1>5

\* One byte of a word is replaced.
Merged(w, hi, byte) ==
  IF hi THEN (w % BYTE) + BYTE * byte ELSE w - (w % BYTE) + byte

\* ... and it stays a word.
LEMMA MergedWord ==
  ASSUME NEW w \in Words, NEW hi, NEW byte \in 0 .. BYTE - 1
  PROVE  Merged(w, hi, byte) \in Words
<1>1. BYTE \in Nat /\ BYTE >= 1 /\ w \in Nat /\ w < BYTE * BYTE
  BY CiaAssumption, WordFacts DEF Words, WORD
<1> DEFINE q == w \div BYTE
           r == w % BYTE
<1>2. r \in 0 .. BYTE - 1 /\ q \in Nat
  BY <1>1
<1>3. w = BYTE * q + r
  BY <1>1
<1> HIDE DEF q, r
<1>4. \A x, y \in Nat : x <= y => BYTE * x \in Nat /\ BYTE * x <= BYTE * y
  <2> SUFFICES ASSUME NEW x \in Nat, NEW y \in Nat, x <= y
               PROVE  BYTE * x \in Nat /\ BYTE * x <= BYTE * y
    OBVIOUS
  <2>1. y - x \in Nat /\ BYTE * (y - x) \in Nat
    BY <1>1
  <2>2. BYTE * y = BYTE * x + BYTE * (y - x)
    BY <1>1
  <2> QED BY <1>1, <2>1, <2>2
<1>5. BYTE - 1 \in Nat /\ BYTE * (BYTE - 1) = BYTE * BYTE - BYTE
  BY <1>1
<1>6. q <= BYTE - 1
  <2>1. BYTE <= q => BYTE * BYTE <= BYTE * q
    BY <1>1, <1>2, <1>4
  <2>2. BYTE * q \in Nat /\ BYTE * BYTE \in Nat
    BY <1>1, <1>2, <1>4
  <2> QED BY <1>1, <1>2, <1>3, <2>1, <2>2
<1>7. BYTE * q <= BYTE * (BYTE - 1) /\ BYTE * q \in Nat
  BY <1>2, <1>4, <1>5, <1>6
<1>8. BYTE * byte <= BYTE * (BYTE - 1) /\ BYTE * byte \in Nat
  BY <1>1, <1>4, <1>5
<1>9. BYTE * BYTE \in Nat
  BY <1>1
<1>10. r + BYTE * byte \in 0 .. BYTE * BYTE - 1
  BY <1>1, <1>2, <1>5, <1>8, <1>9
<1>11. w - r + byte \in 0 .. BYTE * BYTE - 1
  BY <1>1, <1>2, <1>3, <1>5, <1>7, <1>9
<1> QED BY <1>10, <1>11 DEF Merged, Words, WORD, r

\* The counter after a latch register was written.
LatchCnt(s, hi, byte) ==
  CASE hi /\ ("LOAD" \in s.state \/ "START" \notin s.state) -> Merged(s.latch, hi, byte)
    [] ~hi /\ "LOAD" \in s.state -> Merged(s.cnt, hi, byte)
    [] OTHER -> s.cnt

\* Its cases, as implications.
LEMMA LatchCases ==
  ASSUME NEW s, NEW hi \in BOOLEAN, NEW byte
  PROVE  /\ hi /\ ("LOAD" \in s.state \/ "START" \notin s.state) =>
              LatchCnt(s, hi, byte) = Merged(s.latch, hi, byte)
         /\ ~hi /\ "LOAD" \in s.state => LatchCnt(s, hi, byte) = Merged(s.cnt, hi, byte)
         /\ "LOAD" \notin s.state /\ (~hi \/ "START" \in s.state) =>
              LatchCnt(s, hi, byte) = s.cnt
BY DEF LatchCnt

\* A latch register is written.
LEMMA LatchFacts ==
  ASSUME NEW s \in Timers, NEW hi \in BOOLEAN, NEW byte \in 0 .. BYTE - 1
  PROVE  LET t == SetLatch(s, hi, byte)
         IN  /\ t \in Timers /\ t.state = s.state /\ t.lag = s.lag /\ t.alarm = s.alarm
             /\ t.n = s.n /\ t.latch = Merged(s.latch, hi, byte)
             /\ t.cnt = LatchCnt(s, hi, byte)
             /\ Fit(s) /\ Clean(s) => Fit(t)
             /\ Plain(s) => Plain(t)
<1> DEFINE c == LatchCnt(s, hi, byte)
           l == Merged(s.latch, hi, byte)
           t == [s EXCEPT !.latch = l, !.cnt = c]
<1>1. s.cnt \in Words /\ s.latch \in Words
  BY DEF Timers
<1>2. l \in Words /\ c \in Words
  BY <1>1, MergedWord, LatchCases
<1>3. SetLatch(s, hi, byte) = t
  BY DEF SetLatch, Merged, LatchCnt
<1>4. Fit(s) /\ Clean(s) /\ "COUNT3" \in s.state /\ "START" \in s.state => c > 0
  BY LatchCases DEF Fit, Clean
<1> HIDE DEF c, l
<1>5. /\ t \in Timers /\ t.state = s.state /\ t.lag = s.lag /\ t.alarm = s.alarm
      /\ t.n = s.n /\ t.latch = l /\ t.cnt = c
  BY <1>2 DEF Timers
<1> HIDE DEF t
<1>6. Fit(s) /\ Clean(s) => Fit(t)
  BY <1>4, <1>5 DEF Fit, Weak
<1> QED BY <1>3, <1>5, <1>6 DEF Plain, c, l

\* Timers that behave alike do so after the write.
LEMMA LatchSame ==
  ASSUME NEW s \in Timers, NEW t \in Timers, Same(s, t), NEW hi \in BOOLEAN,
         NEW byte \in 0 .. BYTE - 1
  PROVE  Same(SetLatch(s, hi, byte), SetLatch(t, hi, byte))
<1>1. ("LOAD" \in s.state <=> "LOAD" \in t.state) /\ ("START" \in s.state <=> "START" \in t.state)
  BY SameBits DEF Same
<1>2. s.cnt = t.cnt /\ s.latch = t.latch
  BY DEF Same
<1>3. LatchCnt(s, hi, byte) = LatchCnt(t, hi, byte)
  BY <1>1, <1>2, LatchCases
<1> QED BY <1>2, <1>3, LatchFacts DEF Same

\* The state after a control register was written.
CtrlState(t, byte) ==
  (t \ {"START", "CR_ONESHOT", "FLOAD", "PHI2IN"})
  \cup (byte \cap {"START", "CR_ONESHOT", "FLOAD"})
  \cup (IF "INMODE" \in byte THEN {} ELSE {"PHI2IN"})

\* A control register is written.
LEMMA CtrlFacts ==
  ASSUME NEW s \in Timers, NEW byte
  PROVE  LET t == SetCtrl(s, byte)
         IN  /\ t \in Timers /\ t.state = CtrlState(s.state, byte) /\ t.lag = s.lag
             /\ t.cnt = s.cnt /\ t.latch = s.latch /\ t.n = s.n /\ t.alarm = s.alarm
             /\ "START" \in t.state <=> "START" \in byte
             /\ "CR_ONESHOT" \in t.state <=> "CR_ONESHOT" \in byte
             /\ "PHI2IN" \in t.state <=> "INMODE" \notin byte
             /\ "STEP" \in t.state <=> "STEP" \in s.state
             /\ Fit(s) /\ Clean(s) => Fit(t) /\ Clean(t)
<1> DEFINE e == CtrlState(s.state, byte)
           t == [s EXCEPT !.state = e]
<1>1. SetCtrl(s, byte) = t
  BY DEF SetCtrl, CtrlState
<1>2. s.state \subseteq Bits
  BY DEF Timers
<1>3. /\ e \subseteq Bits
      /\ "START" \in e <=> "START" \in byte
      /\ "CR_ONESHOT" \in e <=> "CR_ONESHOT" \in byte
      /\ "PHI2IN" \in e <=> "INMODE" \notin byte
      /\ \A b \in {"STEP", "COUNT3", "LOAD", "OUT"} : b \in e <=> b \in s.state
  BY <1>2 DEF CtrlState, Bits
<1> HIDE DEF e
<1>4. /\ t \in Timers /\ t.state = e /\ t.lag = s.lag /\ t.alarm = s.alarm
      /\ t.n = s.n /\ t.latch = s.latch /\ t.cnt = s.cnt
  BY <1>3 DEF Timers
<1> HIDE DEF t
<1>5. Fit(s) /\ Clean(s) => Fit(t) /\ Clean(t)
  BY <1>3, <1>4 DEF Fit, Clean, Weak
<1> QED BY <1>1, <1>3, <1>4, <1>5 DEF e

\* Timers that behave alike do so after the write.
LEMMA CtrlSame ==
  ASSUME NEW s \in Timers, NEW t \in Timers, Same(s, t), NEW byte
  PROVE  Same(SetCtrl(s, byte), SetCtrl(t, byte))
<1>1. s.state \ {"COUNT"} = t.state \ {"COUNT"} /\ s.cnt = t.cnt /\ s.latch = t.latch
  BY DEF Same
<1>2. \A u : CtrlState(u, byte) \ {"COUNT"} = CtrlState(u \ {"COUNT"}, byte)
  BY DEF CtrlState
<1>3. CtrlState(s.state, byte) \ {"COUNT"} = CtrlState(t.state, byte) \ {"COUNT"}
  BY <1>1, <1>2
<1> QED BY <1>1, <1>3, CtrlFacts DEF Same

\* The chip after a handler that ran for the clock that is at behind.
Post(d, at) == Pre(d, at) /\ d.idle >= -at /\ ~d.twice

\* The timers are the same, and so are their toggles.
SameTimers(c, d) == d.ta = c.ta /\ d.tb = c.tb /\ d.tat = c.tat /\ d.tbt = c.tbt

\* The delay line is run for this cycle, once.
LEMMA CurrentPost ==
  ASSUME NEW c, NEW at \in Nat, Post(c, at), c.ifr_lag >= at
  PROVE  LET d == IfrCurrent(cia_ifr_catchup(c, at), at)
         IN  /\ Post(d, at) /\ SameTimers(c, d) /\ d.ifr_lag >= at - 1 /\ d.idle = c.idle
<1> DEFINE b == cia_ifr_catchup(c, at)
           d == IfrCurrent(b, at)
<1>1. c \in Chips /\ c.ifr_lag \in Int /\ c.ta.alarm \in Int /\ c.tb.alarm \in Int
  BY DEF Post, Pre, Chips, Timers
<1>2. Rest(c, b) /\ b.idle = c.idle /\ b.twice = c.twice /\ b.ifr_lag = at
  <2>1. Rest(c, b) /\ b.idle = c.idle /\ b.twice = c.twice
        /\ b.ifr_lag = IF c.ifr_lag > at THEN at ELSE c.ifr_lag
    BY <1>1, CatchUp
  <2> QED BY <1>1, <2>1
<1> HIDE DEF b
<1>3. b \in Chips
  BY <1>2 DEF Rest
<1>4. /\ Rest(b, d) /\ d.idle = b.idle
      /\ NoneAt(b, at) => d.ifr_lag = b.ifr_lag - 1 /\ (d.twice <=> (b.twice \/ b.ifr_lag # at))
      /\ ~NoneAt(b, at) => d = b
  BY <1>3, CurrentIfr
<1> HIDE DEF d
<1>5. SameTimers(c, d) /\ d \in Chips
  BY <1>2, <1>4 DEF Rest, SameTimers
<1>6. ~d.twice
  BY <1>2, <1>4 DEF Post
<1>7. d.ifr_lag >= at - 1 /\ d.ifr_lag >= -1 /\ c.ta.alarm >= -d.ifr_lag /\ c.tb.alarm >= -d.ifr_lag
  <2>1. CASE NoneAt(b, at)
    <3>1. -at # c.ta.alarm /\ -at # c.tb.alarm
      BY <1>2, <2>1 DEF NoneAt, Rest
    <3>2. d.ifr_lag = at - 1
      BY <1>2, <1>4, <2>1
    <3> QED BY <1>1, <3>1, <3>2 DEF Post, Pre
  <2>2. CASE ~NoneAt(b, at)
    BY <1>1, <1>2, <1>4, <2>2 DEF Post, Pre
  <2> QED BY <2>1, <2>2
<1>8. Pre(d, at)
  BY <1>5, <1>7 DEF Post, Pre, SameTimers
<1> QED BY <1>2, <1>4, <1>5, <1>6, <1>7, <1>8 DEF Post, d, b

\* The look at the next cycles.
LEMMA NextPost ==
  ASSUME NEW c, NEW at \in Nat, Post(c, at)
  PROVE  LET d == IfrNext(c, at)
         IN  /\ Post(d, at) /\ SameTimers(c, d) /\ d.ifr_lag = c.ifr_lag
<1> DEFINE d == IfrNext(c, at)
<1>1. c \in Chips
  BY DEF Post, Pre
<1>2. /\ Rest(c, d) /\ d.twice = c.twice /\ d.ifr_lag = c.ifr_lag
      /\ d.idle = c.idle \/ (NoneAt(c, at) /\ d.idle = 1 - at)
  BY <1>1, NextIfr
<1> HIDE DEF d
<1>3. d.idle >= -at
  BY <1>2 DEF Post
<1>4. SameTimers(c, d) /\ d \in Chips
  BY <1>2 DEF Rest, SameTimers
<1>5. Pre(d, at)
  BY <1>2, <1>4 DEF Post, Pre, SameTimers
<1> QED BY <1>2, <1>3, <1>4, <1>5 DEF Post, d

\* Both, at the end of a handler.
LEMMA IfrPost ==
  ASSUME NEW c, NEW at \in Nat, Post(c, at), c.ifr_lag >= at
  PROVE  LET d == Ifr(c, at)
         IN  Post(d, at) /\ SameTimers(c, d) /\ d.ifr_lag >= at - 1
<1> DEFINE e == IfrCurrent(cia_ifr_catchup(c, at), at)
<1>1. Post(e, at) /\ SameTimers(c, e) /\ e.ifr_lag >= at - 1
  BY CurrentPost
<1> HIDE DEF e
<1>2. Post(IfrNext(e, at), at) /\ SameTimers(e, IfrNext(e, at)) /\ IfrNext(e, at).ifr_lag = e.ifr_lag
  BY <1>1, NextPost
<1>3. Ifr(c, at) = IfrNext(e, at)
  BY DEF Ifr, e
<1> QED BY <1>1, <1>2, <1>3 DEF SameTimers

\* Updating the timers leaves the rest as it was.
LEMMA UpdPost ==
  ASSUME NEW c, NEW d, NEW at \in Nat, Post(c, at), Upd(c, d, at)
  PROVE  Post(d, at) /\ (c.ifr_lag >= at => d.ifr_lag >= at)
BY DEF Post, Upd, IfrLag

\* Timers at this clock get other alarms, or keep theirs.
LEMMA AlarmsPost ==
  ASSUME NEW c, NEW at \in Nat, Post(c, at), c.ta.lag = at, c.tb.lag = at,
         c.ifr_lag >= at - 1,
         NEW s, s = c.ta \/ s = ciat_set_alarm(c.ta),
         NEW t, t = c.tb \/ t = ciat_set_alarm(c.tb),
         NEW d, d = [c EXCEPT !.ta = s, !.tb = t]
  PROVE  /\ Post(d, at) /\ d.ta = s /\ d.tb = t /\ d.tat = c.tat /\ d.tbt = c.tbt
         /\ Alarmed(c.ta, s) /\ Alarmed(c.tb, t) /\ d.ifr_lag = c.ifr_lag
<1>1. /\ c \in Chips /\ c.ta \in Timers /\ c.tb \in Timers /\ Fit(c.ta) /\ Fit(c.tb)
      /\ c.ifr_lag \in Int
  BY DEF Post, Pre, Chips
<1>2. \A u \in Timers : Alarmed(u, u)
  BY DEF Alarmed
<1>3. \A u \in Timers : Fit(u) /\ u.lag = at =>
         LET v == ciat_set_alarm(u)
         IN  Alarmed(u, v) /\ v.alarm >= -at /\ v.alarm >= -c.ifr_lag
  <2> SUFFICES ASSUME NEW u \in Timers, Fit(u), u.lag = at, NEW v, v = ciat_set_alarm(u)
               PROVE  Alarmed(u, v) /\ v.alarm >= -at /\ v.alarm >= -c.ifr_lag
    OBVIOUS
  <2>1. Alarmed(u, v) /\ (v.alarm > -at \/ v.alarm = NEVER)
    BY AlarmFacts DEF Fit
  <2>2. v.alarm \in Int
    BY <2>1 DEF Alarmed, Timers
  <2> QED BY <1>1, <2>1, <2>2, WordFacts
<1>4. Alarmed(c.ta, s) /\ s.alarm >= -at /\ s.alarm >= -c.ifr_lag
  BY <1>1, <1>2, <1>3 DEF Post, Pre
<1>5. Alarmed(c.tb, t) /\ t.alarm >= -at /\ t.alarm >= -c.ifr_lag
  BY <1>1, <1>2, <1>3 DEF Post, Pre
<1>6. s \in Timers /\ t \in Timers
  BY <1>4, <1>5 DEF Alarmed
<1>7. /\ d \in Chips /\ d.ta = s /\ d.tb = t /\ d.tat = c.tat /\ d.tbt = c.tbt
      /\ d.ifr_lag = c.ifr_lag /\ d.idle = c.idle /\ d.twice = c.twice
  BY <1>1, <1>6 DEF Chips
<1>8. Fit(s) /\ Fit(t) /\ s.n = c.ta.n /\ t.n = c.tb.n /\ s.lag = at /\ t.lag = at
  BY <1>1, <1>4, <1>5, AlarmedFacts DEF Alarmed
<1>9. Post(d, at)
  BY <1>4, <1>5, <1>7, <1>8 DEF Post, Pre
<1> QED BY <1>4, <1>5, <1>7, <1>9

\* Nothing but the interrupt logic changes.
LEMMA QuietPost ==
  ASSUME NEW c, NEW at \in Nat, Post(c, at), NEW d \in Chips, SameTimers(c, d),
         d.idle = c.idle, d.twice = c.twice, d.ifr_lag = c.ifr_lag
  PROVE  Post(d, at)
BY DEF Post, Pre, SameTimers

\* The tail of a store to ICR leaves the timers alone.
LEMMA IcrStoredFacts ==
  ASSUME NEW c \in Chips, NEW mask
  PROVE  LET d == IcrStored(c, mask)
         IN  /\ d \in Chips /\ SameTimers(c, d)
             /\ d.idle = c.idle /\ d.twice = c.twice /\ d.ifr_lag = c.ifr_lag
<1> DEFINE pending == c.flags \cap mask # {}
           e == CASE pending /\ c.int = NONE /\ model = "6526" ->
                       c.delay \cup {"RAISE1", "D7SET1"}
                  [] pending /\ c.int = NONE /\ model # "6526" /\ "READ1" \notin c.delay ->
                       c.delay \cup {"RAISE0", "D7SET0"}
                  [] ~pending /\ model = "6526" /\ "ACK_1" \in c.delay ->
                       c.delay \ {"RAISE0", "D7SET0"}
                  [] OTHER -> c.delay
           d == [c EXCEPT !.delay = e]
<1>1. IcrStored(c, mask) = d
  BY DEF IcrStored
<1>2. e \in SUBSET Delays
  <2>1. c.delay \in SUBSET Delays
    BY DEF Chips
  <2> DEFINE p == pending /\ c.int = NONE /\ model = "6526"
             q == pending /\ c.int = NONE /\ model # "6526" /\ "READ1" \notin c.delay
             r == ~pending /\ model = "6526" /\ "ACK_1" \in c.delay
  <2>2. ~(p /\ q) /\ ~(p /\ r) /\ ~(q /\ r)
    OBVIOUS
  <2>3. e = CASE p -> c.delay \cup {"RAISE1", "D7SET1"}
              [] q -> c.delay \cup {"RAISE0", "D7SET0"}
              [] r -> c.delay \ {"RAISE0", "D7SET0"}
              [] OTHER -> c.delay
    OBVIOUS
  <2> HIDE DEF p, q, r, e
  <2>4. \/ e = c.delay \cup {"RAISE1", "D7SET1"} \/ e = c.delay \cup {"RAISE0", "D7SET0"}
        \/ e = c.delay \ {"RAISE0", "D7SET0"} \/ e = c.delay
    BY <2>2, <2>3
  <2> QED BY <2>1, <2>4 DEF Delays
<1> HIDE DEF e
<1>3. /\ d \in Chips /\ SameTimers(c, d)
      /\ d.idle = c.idle /\ d.twice = c.twice /\ d.ifr_lag = c.ifr_lag
  BY <1>2 DEF Chips, SameTimers
<1> QED BY <1>1, <1>3

\* Reading ICR leaves the timers alone.
LEMMA IcrReadFacts ==
  ASSUME NEW c \in Chips
  PROVE  LET d == IcrRead(c)
         IN  /\ d \in Chips /\ SameTimers(c, d)
             /\ d.idle = c.idle /\ d.twice = c.twice /\ d.ifr_lag = c.ifr_lag
<1> DEFINE flags == IcrValue(c)
           read == [c EXCEPT !.rdi = 0, !.int = NONE]
           x == [read EXCEPT !.flags = flags \cap {"SET"}, !.new = {},
                        !.delay = (@ \ {"RAISE0"}) \cup {"ACK1", "READ0"}]
           y == [read EXCEPT !.flags = flags,
                        !.ack = IF flags = {} THEN @
                                ELSE @ \cup flags \cup {"SET"},
                        !.delay = (@ \ {"RAISE0", "D7SET0"})
                                  \cup {"ACK1", "READ0"}]
<1>1. IcrRead(c) = x \/ IcrRead(c) = y
  BY DEF IcrRead
<1>2. flags \in SUBSET Flags
  BY DEF IcrValue, Chips, Flags
<1>3. /\ c.delay \in SUBSET Delays /\ c.ack \in SUBSET Flags
  BY DEF Chips
<1> HIDE DEF flags
<1>4. /\ read \in Chips /\ SameTimers(c, read) /\ read.delay = c.delay /\ read.ack = c.ack
      /\ read.idle = c.idle /\ read.twice = c.twice /\ read.ifr_lag = c.ifr_lag
  <2>1. NONE \in Int
    BY DEF NONE
  <2>2. /\ read \in Chips /\ read.ta = c.ta /\ read.tb = c.tb /\ read.tat = c.tat
        /\ read.tbt = c.tbt
    <3> DEFINE m == NONE
               z == 0
               u == [c EXCEPT !.rdi = z, !.int = m]
    <3>1. m \in Int /\ z \in Int /\ read = u
      BY <2>1
    <3> HIDE DEF m, z, read
    <3>2. u \in Chips
      BY <3>1 DEF Chips
    <3>3. u.ta = c.ta /\ u.tb = c.tb /\ u.tat = c.tat /\ u.tbt = c.tbt
      BY DEF Chips
    <3> HIDE DEF u
    <3> QED BY <3>1, <3>2, <3>3
  <2>3. /\ read.delay = c.delay /\ read.ack = c.ack
        /\ read.idle = c.idle /\ read.twice = c.twice /\ read.ifr_lag = c.ifr_lag
    BY DEF Chips
  <2> QED BY <2>2, <2>3 DEF SameTimers
<1> HIDE DEF read
<1> DEFINE e == (read.delay \ {"RAISE0"}) \cup {"ACK1", "READ0"}
           f == (read.delay \ {"RAISE0", "D7SET0"}) \cup {"ACK1", "READ0"}
           g == IF flags = {} THEN read.ack ELSE read.ack \cup flags \cup {"SET"}
           h == flags \cap {"SET"}
<1>5. e \in SUBSET Delays /\ f \in SUBSET Delays /\ g \in SUBSET Flags /\ h \in SUBSET Flags
  BY <1>2, <1>3, <1>4 DEF Delays, Flags
<1>6. /\ x = [read EXCEPT !.flags = h, !.new = {}, !.delay = e]
      /\ y = [read EXCEPT !.flags = flags, !.ack = g, !.delay = f]
  OBVIOUS
<1> HIDE DEF x, y, e, f, g, h
<1>7. /\ x \in Chips /\ SameTimers(read, x)
      /\ x.idle = read.idle /\ x.twice = read.twice /\ x.ifr_lag = read.ifr_lag
  BY <1>4, <1>5, <1>6 DEF Chips, SameTimers
<1>8. /\ y \in Chips /\ SameTimers(read, y)
      /\ y.idle = read.idle /\ y.twice = read.twice /\ y.ifr_lag = read.ifr_lag
  BY <1>2, <1>4, <1>5, <1>6 DEF Chips, SameTimers
<1> QED BY <1>1, <1>4, <1>7, <1>8 DEF SameTimers

\* d shows of timer A what c shows.
RunA(c, d) == Plain(c.ta) => Plain(d.ta) /\ SameRun(c.ta, c.tat, d.ta, d.tat)

\* c is the chip in a cycle in which its alarms have been run.
Here(c) == Post(c, 0) /\ c.ifr_lag >= 0 /\ Ready(c.ta, 0) /\ Ready(c.tb, 0)

\* Bringing the timers up to date does not change what is shown.
LEMMA RunAUpd ==
  ASSUME NEW c, NEW d, NEW at, Upd(c, d, at)
  PROVE  RunA(c, d)
BY DEF Upd, RunA

\* Neither does anything that leaves the timers alone.
LEMMA RunASame ==
  ASSUME NEW c, NEW d, SameTimers(c, d)
  PROVE  RunA(c, d)
BY DEF SameTimers, RunA, SameRun, Same

\* RunA is transitive.
LEMMA RunATrans ==
  ASSUME NEW c, NEW d, NEW e, RunA(c, d), RunA(d, e)
  PROVE  RunA(c, e)
BY SameRunTrans DEF RunA

\* Another alarm does not change what is shown.
LEMMA RunAAlarm ==
  ASSUME NEW c, NEW d, Alarmed(c.ta, d.ta), d.tat = c.tat, c.ta \in Timers, c.ta.lag \in Nat
  PROVE  RunA(c, d)
<1>1. /\ d.ta \in Timers /\ d.ta.lag = c.ta.lag /\ d.ta.n = c.ta.n /\ Same(c.ta, d.ta)
      /\ Plain(c.ta) => Plain(d.ta)
  BY AlarmedFacts DEF Alarmed, Same
<1>2. SameRun(c.ta, c.tat, d.ta, c.tat)
  BY <1>1, SameRunNow
<1> QED BY <1>1, <1>2 DEF RunA

\* Reading a timer.
LEMMA UpdateHere ==
  ASSUME NEW c, Here(c), NEW x \in TimerNames
  PROVE  LET d == Update(c, x)
         IN  /\ Here(d) /\ RunA(c, d)
             /\ d[x].lag = 0 /\ Clean(d[x])
             /\ x = "ta" => Coming(d.ta, 0)
             /\ x = "tb" => Coming(d.tb, 0)
<1>1. Pre(c, 0)
  BY DEF Here, Post
<1>2. CASE x = "ta"
  <2> DEFINE d == cia_update_ta(c, 0)
  <2>1. Update(c, x) = d
    BY <1>2 DEF Update
  <2>2. Upd(c, d, 0) /\ d.ta.lag = 0 /\ Coming(d.ta, 0)
    BY <1>1, UpdTa
  <2> HIDE DEF d
  <2>3. Here(d)
    BY <2>2, UpdPost DEF Here, Upd
  <2>4. Clean(d.ta)
    BY <2>2, <2>3 DEF Here, Ready
  <2> QED BY <1>2, <2>1, <2>2, <2>3, <2>4, RunAUpd
<1>3. CASE x = "tb"
  <2> DEFINE d == cia_update_tb(c, 0)
  <2>1. Update(c, x) = d
    BY <1>3 DEF Update
  <2>2. Upd(c, d, 0) /\ d.tb.lag = 0 /\ Coming(d.tb, 0)
    BY <1>1, UpdTbTa
  <2> HIDE DEF d
  <2>3. Here(d)
    BY <2>2, UpdPost DEF Here, Upd
  <2>4. Clean(d.tb)
    BY <2>2, <2>3 DEF Here, Ready
  <2> QED BY <1>3, <2>1, <2>2, <2>3, <2>4, RunAUpd
<1> QED BY <1>2, <1>3 DEF TimerNames

\* Both timers are brought up to date by an access.
LEMMA BothHere ==
  ASSUME NEW c, Here(c)
  PROVE  LET d == UpdateBoth(c, 0)
         IN  /\ Here(d) /\ RunA(c, d)
             /\ d.ta.lag = 0 /\ d.tb.lag = 0 /\ Clean(d.ta) /\ Clean(d.tb)
             /\ Coming(d.ta, 0) /\ Coming(d.tb, 0)
<1> DEFINE d == UpdateBoth(c, 0)
<1>1. /\ Upd(c, d, 0) /\ d.ta.lag = 0 /\ d.tb.lag = 0 /\ Coming(d.ta, 0) /\ Coming(d.tb, 0)
  BY UpdBoth DEF Here, Post
<1> HIDE DEF d
<1>2. Here(d)
  BY <1>1, UpdPost DEF Here, Upd
<1>3. Clean(d.ta) /\ Clean(d.tb)
  BY <1>1, <1>2 DEF Here, Ready
<1> QED BY <1>1, <1>2, <1>3, RunAUpd DEF d

\* Reading a timer, to its end.
LEMMA ReadPost ==
  ASSUME NEW c, Here(c), NEW x \in TimerNames
  PROVE  LET d == Ifr(Update(c, x), 0) IN Post(d, 0) /\ RunA(c, d)
<1> DEFINE b == Update(c, x)
           d == Ifr(b, 0)
<1>1. Here(b) /\ RunA(c, b)
  BY UpdateHere
<1> HIDE DEF b
<1>2. Post(d, 0) /\ SameTimers(b, d)
  BY <1>1, IfrPost DEF Here
<1> HIDE DEF d
<1> QED BY <1>1, <1>2, RunASame, RunATrans DEF b, d

\* Both timers and the delay line are brought up to this cycle.
LEMMA UpToDatePost ==
  ASSUME NEW c, Here(c)
  PROVE  LET d == UpToDate(c)
         IN  /\ Post(d, 0) /\ RunA(c, d) /\ d.ifr_lag >= -1
             /\ SameTimers(UpdateBoth(c, 0), d)
             /\ d.ta.lag = 0 /\ d.tb.lag = 0
<1> DEFINE b == UpdateBoth(c, 0)
           d == IfrCurrent(cia_ifr_catchup(b, 0), 0)
<1>1. Here(b) /\ RunA(c, b) /\ b.ta.lag = 0 /\ b.tb.lag = 0
  BY BothHere
<1>2. UpToDate(c) = d
  BY DEF UpToDate
<1> HIDE DEF b
<1>3. Post(d, 0) /\ SameTimers(b, d) /\ d.ifr_lag >= 0 - 1
  BY <1>1, CurrentPost DEF Here
<1> HIDE DEF d
<1>4. 0 - 1 = -1
  OBVIOUS
<1>5. RunA(c, d)
  BY <1>1, <1>3, RunASame, RunATrans
<1>6. d.ta.lag = 0 /\ d.tb.lag = 0
  BY <1>1, <1>3 DEF SameTimers
<1> QED BY <1>2, <1>3, <1>4, <1>5, <1>6 DEF b

\* Both timers get alarms, or keep theirs.
LEMMA AlarmsNow ==
  ASSUME NEW c, Post(c, 0), c.ta.lag = 0, c.tb.lag = 0, c.ifr_lag >= -1,
         NEW s, s = c.ta \/ s = ciat_set_alarm(c.ta),
         NEW t, t = c.tb \/ t = ciat_set_alarm(c.tb),
         NEW d, d = [c EXCEPT !.ta = s, !.tb = t]
  PROVE  /\ Post(d, 0) /\ d.ta = s /\ d.tb = t /\ d.tat = c.tat /\ d.tbt = c.tbt
         /\ Alarmed(c.ta, s) /\ Alarmed(c.tb, t) /\ d.ifr_lag = c.ifr_lag
         /\ RunA(c, d)
<1> DEFINE z == 0
<1>0. c.ifr_lag \in Int
  BY DEF Post, Pre, Chips
<1>1. /\ z \in Nat /\ Post(c, z) /\ c.ta.lag = z /\ c.tb.lag = z /\ c.ifr_lag >= z - 1
  BY <1>0
<1> HIDE DEF z
<1>2. Post(d, z) /\ Alarmed(c.ta, s) /\ Alarmed(c.tb, t)
  BY <1>0, <1>1, AlarmsPost
<1>5. /\ d.ta = s /\ d.tb = t /\ d.tat = c.tat /\ d.tbt = c.tbt /\ d.ifr_lag = c.ifr_lag
  <2>1. c \in Chips
    BY <1>1 DEF Post, Pre
  <2> QED BY <2>1 DEF Chips
<1>3. c.ta \in Timers /\ c.ta.lag \in Nat
  BY DEF Post, Pre, Chips
<1>4. RunA(c, d)
  BY <1>2, <1>3, <1>5, RunAAlarm
<1> QED BY <1>2, <1>4, <1>5 DEF z

\* Reading ICR.
LEMMA ReadIcrPost ==
  ASSUME NEW c, Here(c)
  PROVE  LET d == IfrNext(IcrRead(AlarmsSet(UpToDate(c))), 0)
         IN  /\ Post(d, 0) /\ RunA(c, d)
             /\ Alarmed(UpToDate(c).ta, d.ta) /\ Alarmed(UpToDate(c).tb, d.tb)
             /\ d.ta = ciat_set_alarm(UpToDate(c).ta) /\ d.tb = ciat_set_alarm(UpToDate(c).tb)
             /\ d.tat = UpToDate(c).tat /\ d.tbt = UpToDate(c).tbt
<1> DEFINE a == UpToDate(c)
           s == ciat_set_alarm(a.ta)
           t == ciat_set_alarm(a.tb)
           b == [a EXCEPT !.ta = s, !.tb = t]
           e == IcrRead(b)
           d == IfrNext(e, 0)
<1>1. Post(a, 0) /\ RunA(c, a) /\ a.ifr_lag >= -1 /\ a.ta.lag = 0 /\ a.tb.lag = 0
  BY UpToDatePost
<1>2. AlarmsSet(a) = b
  BY DEF AlarmsSet
<1> HIDE DEF a
<1>4. (s = a.ta \/ s = ciat_set_alarm(a.ta)) /\ (t = a.tb \/ t = ciat_set_alarm(a.tb))
  OBVIOUS
<1>14. a.ifr_lag \in Int
  BY <1>1 DEF Post, Pre, Chips
<1>13. b = [a EXCEPT !.ta = s, !.tb = t]
  OBVIOUS
<1> HIDE DEF s, t, b
<1>3. /\ Post(b, 0) /\ b.ta = s /\ b.tb = t /\ b.tat = a.tat /\ b.tbt = a.tbt
      /\ Alarmed(a.ta, s) /\ Alarmed(a.tb, t)
  <2>1. Post(b, 0) /\ Alarmed(a.ta, s) /\ Alarmed(a.tb, t)
    BY <1>1, <1>4, <1>13, <1>14, AlarmsNow
  <2>2. a \in Chips
    BY <1>1, <1>4 DEF Post, Pre
  <2>3. b.ta = s /\ b.tb = t /\ b.tat = a.tat /\ b.tbt = a.tbt
    BY <2>2, <1>13 DEF Chips
  <2> QED BY <2>1, <2>3
<1>5. RunA(a, b)
  BY <1>1, <1>4, <1>13, <1>14, AlarmsNow
<1>6. /\ e \in Chips /\ SameTimers(b, e)
      /\ e.idle = b.idle /\ e.twice = b.twice /\ e.ifr_lag = b.ifr_lag
  BY <1>3, IcrReadFacts DEF Post, Pre
<1> HIDE DEF e
<1>7. Post(e, 0)
  BY <1>3, <1>6, QuietPost
<1>8. Post(d, 0) /\ SameTimers(e, d)
  BY <1>7, NextPost
<1>9. IfrNext(IcrRead(AlarmsSet(UpToDate(c))), 0) = d
  BY <1>2 DEF a, e
<1> HIDE DEF d
<1>10. SameTimers(b, d)
  BY <1>6, <1>8 DEF SameTimers
<1>11. RunA(c, d)
  BY <1>1, <1>5, <1>10, RunASame, RunATrans
<1>12. d.ta = s /\ d.tb = t /\ d.tat = a.tat /\ d.tbt = a.tbt
  BY <1>3, <1>10 DEF SameTimers
<1> QED BY <1>3, <1>8, <1>9, <1>11, <1>12 DEF a, s, t

\* Writing ICR.
LEMMA StoreIcrPost ==
  ASSUME NEW c, Here(c), NEW mask
  PROVE  LET a == UpToDate(c)
             d == IfrNext(AlarmsOfMask(IcrStored(a, mask), mask), 0)
         IN  /\ Post(d, 0) /\ RunA(c, d)
             /\ Alarmed(a.ta, d.ta) /\ Alarmed(a.tb, d.tb)
             /\ d.ta = a.ta \/ d.ta = ciat_set_alarm(a.ta)
             /\ d.tb = a.tb \/ d.tb = ciat_set_alarm(a.tb)
             /\ d.tat = a.tat /\ d.tbt = a.tbt
<1> DEFINE a == UpToDate(c)
           b == IcrStored(a, mask)
           s == IF "TA" \in mask THEN ciat_set_alarm(b.ta) ELSE b.ta
           t == IF "TB" \in mask THEN ciat_set_alarm(b.tb) ELSE b.tb
           e == [b EXCEPT !.ta = s, !.tb = t]
           d == IfrNext(e, 0)
<1>1. Post(a, 0) /\ RunA(c, a) /\ a.ifr_lag >= -1 /\ a.ta.lag = 0 /\ a.tb.lag = 0
  BY UpToDatePost
<1> HIDE DEF a
<1>2. /\ b \in Chips /\ SameTimers(a, b)
      /\ b.idle = a.idle /\ b.twice = a.twice /\ b.ifr_lag = a.ifr_lag
  BY <1>1, IcrStoredFacts DEF Post, Pre
<1>3. AlarmsOfMask(b, mask) = e
  <2>1. e = [b EXCEPT !.ta = IF "TA" \in mask THEN ciat_set_alarm(b.ta) ELSE b.ta,
                     !.tb = IF "TB" \in mask THEN ciat_set_alarm(b.tb) ELSE b.tb]
    OBVIOUS
  <2> HIDE DEF b, e, s, t
  <2> QED BY <2>1 DEF AlarmsOfMask
<1> HIDE DEF b
<1>4. Post(b, 0) /\ b.ifr_lag >= -1 /\ b.ta.lag = 0 /\ b.tb.lag = 0
  BY <1>1, <1>2, QuietPost DEF SameTimers
<1>5. (s = b.ta \/ s = ciat_set_alarm(b.ta)) /\ (t = b.tb \/ t = ciat_set_alarm(b.tb))
  OBVIOUS
<1>14. b.ifr_lag \in Int
  BY <1>4 DEF Post, Pre, Chips
<1>13. e = [b EXCEPT !.ta = s, !.tb = t]
  OBVIOUS
<1> HIDE DEF s, t, e
<1>6. /\ Post(e, 0) /\ e.ta = s /\ e.tb = t /\ e.tat = b.tat /\ e.tbt = b.tbt
      /\ Alarmed(b.ta, s) /\ Alarmed(b.tb, t)
  <2>1. Post(e, 0) /\ Alarmed(b.ta, s) /\ Alarmed(b.tb, t)
    BY <1>4, <1>5, <1>13, <1>14, AlarmsNow
  <2>2. b \in Chips
    BY <1>1, <1>4 DEF Post, Pre
  <2>3. e.ta = s /\ e.tb = t /\ e.tat = b.tat /\ e.tbt = b.tbt
    BY <2>2, <1>13 DEF Chips
  <2> QED BY <2>1, <2>3
<1>8. RunA(b, e)
  BY <1>4, <1>5, <1>13, <1>14, AlarmsNow
<1>9. Post(d, 0) /\ SameTimers(e, d)
  BY <1>6, NextPost
<1>10. IfrNext(AlarmsOfMask(IcrStored(UpToDate(c), mask), mask), 0) = d
  BY <1>3 DEF a, b
<1> HIDE DEF d
<1>11. RunA(c, d)
  BY <1>1, <1>2, <1>8, <1>9, RunASame, RunATrans
<1>12. d.ta = s /\ d.tb = t /\ d.tat = a.tat /\ d.tbt = a.tbt /\ b.ta = a.ta /\ b.tb = a.tb
  BY <1>2, <1>6, <1>9 DEF SameTimers
<1> QED BY <1>5, <1>6, <1>9, <1>10, <1>11, <1>12 DEF a

\* A timer that was brought up to this clock and got an alarm.
Fresh(t) == t \in Timers /\ Fit(t) /\ t.n = 0 /\ t.lag = 0 /\ t.alarm > 0

\* ciat_set_alarm() at this clock.
LEMMA FreshAlarm ==
  ASSUME NEW u \in Timers, Fit(u), u.n = 0, u.lag = 0
  PROVE  Fresh(ciat_set_alarm(u)) /\ Alarmed(u, ciat_set_alarm(u))
<1> DEFINE v == ciat_set_alarm(u)
<1>1. Alarmed(u, v) /\ (v.alarm > -u.lag \/ v.alarm = NEVER)
  BY AlarmFacts DEF Fit
<1> HIDE DEF v
<1>2. v \in Timers /\ v.lag = 0 /\ v.n = 0 /\ Fit(v)
  BY <1>1, AlarmedFacts DEF Alarmed
<1>3. v.alarm \in Int /\ v.alarm > 0
  BY <1>1, <1>2, WordFacts DEF Timers
<1> QED BY <1>1, <1>2, <1>3 DEF Fresh, v

\* A register of the chip was written.
LEMMA FreshPost ==
  ASSUME NEW c, Post(c, 0), NEW d \in Chips,
         d.idle = c.idle, d.twice = c.twice, d.ifr_lag = c.ifr_lag,
         d.ta = c.ta \/ Fresh(d.ta), d.tb = c.tb \/ Fresh(d.tb)
  PROVE  Post(d, 0)
<1>1. c \in Chips /\ c.ifr_lag \in Int /\ c.ifr_lag >= -1 /\ d.idle >= 0 /\ ~d.twice
  BY DEF Post, Pre, Chips
<1>2. Fit(d.ta) /\ d.ta.n = 0 /\ d.ta.lag >= 0 /\ d.ta.alarm >= 0 /\ d.ta.alarm >= -c.ifr_lag
  <2>1. CASE d.ta = c.ta
    BY <2>1 DEF Post, Pre
  <2>2. CASE Fresh(d.ta)
    <3>1. d.ta.alarm \in Int /\ d.ta.alarm > 0 /\ d.ta.lag = 0
      BY <2>2 DEF Fresh, Timers
    <3> QED BY <1>1, <2>2, <3>1 DEF Fresh
  <2> QED BY <2>1, <2>2
<1>3. Fit(d.tb) /\ d.tb.n = 0 /\ d.tb.lag >= 0 /\ d.tb.alarm >= 0 /\ d.tb.alarm >= -c.ifr_lag
  <2>1. CASE d.tb = c.tb
    BY <2>1 DEF Post, Pre
  <2>2. CASE Fresh(d.tb)
    <3>1. d.tb.alarm \in Int /\ d.tb.alarm > 0 /\ d.tb.lag = 0
      BY <2>2 DEF Fresh, Timers
    <3> QED BY <1>1, <2>2, <3>1 DEF Fresh
  <2> QED BY <2>1, <2>2
<1> QED BY <1>1, <1>2, <1>3 DEF Post, Pre

\* Writing a latch register.
LEMMA LatchPost ==
  ASSUME NEW c, Here(c), NEW x \in TimerNames, NEW hi \in BOOLEAN,
         NEW byte \in 0 .. BYTE - 1
  PROVE  LET b == Ifr(Update(c, x), 0)
             d == [b EXCEPT ![x] = ciat_set_alarm(SetLatch(@, hi, byte))]
             y == IF x = "ta" THEN "tb" ELSE "ta"
         IN  /\ Post(d, 0) /\ RunA(c, b) /\ d.tat = b.tat /\ d.tbt = b.tbt
             /\ b \in Chips /\ b[x].lag = 0 /\ b[x].n = 0
             /\ Alarmed(SetLatch(b[x], hi, byte), d[x])
             /\ d[x] = ciat_set_alarm(SetLatch(b[x], hi, byte)) /\ d[y] = b[y]
<1> DEFINE a == Update(c, x)
           b == Ifr(a, 0)
           s == SetLatch(b[x], hi, byte)
           t == ciat_set_alarm(s)
           d == [b EXCEPT ![x] = t]
           y == IF x = "ta" THEN "tb" ELSE "ta"
<1>0. [b EXCEPT ![x] = ciat_set_alarm(SetLatch(@, hi, byte))] = d
  OBVIOUS
<1>1. Here(a) /\ RunA(c, a) /\ a[x].lag = 0 /\ Clean(a[x])
  BY UpdateHere
<1> HIDE DEF a
<1>2. Post(b, 0) /\ SameTimers(a, b)
  BY <1>1, IfrPost DEF Here
<1> HIDE DEF b
<1>3. RunA(c, b)
  BY <1>1, <1>2, RunASame, RunATrans
<1>4. b \in Chips /\ b[x] \in Timers /\ b[x].lag = 0 /\ Clean(b[x]) /\ Fit(b[x]) /\ b[x].n = 0
  BY <1>1, <1>2 DEF SameTimers, TimerNames, Post, Pre, Chips
<1>5. s \in Timers /\ s.lag = 0 /\ s.n = 0 /\ Fit(s)
  BY <1>4, LatchFacts
<1> HIDE DEF s
<1>6. Fresh(t) /\ Alarmed(s, t) /\ t \in Timers
  BY <1>5, FreshAlarm DEF Fresh
<1>7. t = ciat_set_alarm(s)
  OBVIOUS
<1> HIDE DEF t
<1>8. CASE x = "ta"
  <2>1. d = [b EXCEPT !.ta = t]
    BY <1>8
  <2>2. SetTa(b, d, t)
    BY <1>4, <1>6, <2>1, SetFacts
  <2>3. Post(d, 0)
    BY <1>2, <1>6, <2>2, FreshPost DEF SetTa
  <2>4. d.ta = t /\ d.tb = b.tb /\ d.tat = b.tat /\ d.tbt = b.tbt
    BY <2>2 DEF SetTa
  <2> HIDE DEF d
  <2>5. d[x] = t /\ d[y] = b[y]
    BY <1>8, <2>4
  <2> QED BY <1>0, <1>3, <1>4, <1>6, <1>7, <2>3, <2>4, <2>5 DEF s, b, a
<1>9. CASE x = "tb"
  <2>1. d = [b EXCEPT !.tb = t]
    BY <1>9
  <2>2. SetTb(b, d, t)
    BY <1>4, <1>6, <2>1, SetFacts
  <2>3. Post(d, 0)
    BY <1>2, <1>6, <2>2, FreshPost DEF SetTb
  <2>4. d.tb = t /\ d.ta = b.ta /\ d.tat = b.tat /\ d.tbt = b.tbt
    BY <2>2 DEF SetTb
  <2> HIDE DEF d
  <2>5. d[x] = t /\ d[y] = b[y]
    BY <1>9, <2>4
  <2> QED BY <1>0, <1>3, <1>4, <1>6, <1>7, <2>3, <2>4, <2>5 DEF s, b, a
<1> QED BY <1>8, <1>9 DEF TimerNames

\* Writing CRA.
LEMMA CraPost ==
  ASSUME NEW c, Here(c), NEW byte, NEW g \in BOOLEAN
  PROVE  LET b == cia_update_ta(c, 0)
             e == [b EXCEPT !.tat = IF g THEN 1 ELSE @, !.ta = SetCtrl(@, byte)]
             f == [e EXCEPT !.ta = ciat_set_alarm(@)]
             d == Ifr(f, 0)
         IN  /\ Post(d, 0) /\ Upd(c, b, 0) /\ RunA(c, b) /\ b.ta.lag = 0 /\ b.ta.n = 0
             /\ d.tat = IF g THEN 1 ELSE b.tat
             /\ d.ta = ciat_set_alarm(SetCtrl(b.ta, byte))
             /\ Alarmed(SetCtrl(b.ta, byte), d.ta) /\ d.tb = b.tb /\ d.tbt = b.tbt
<1> DEFINE b == cia_update_ta(c, 0)
           h == IF g THEN 1 ELSE b.tat
           s == SetCtrl(b.ta, byte)
           t == ciat_set_alarm(s)
           e == [b EXCEPT !.tat = h, !.ta = s]
           f == [b EXCEPT !.tat = h, !.ta = t]
           d == Ifr(f, 0)
<1>1. Upd(c, b, 0) /\ RunA(c, b) /\ b.ta.lag = 0
  BY UpdTa, RunAUpd DEF Here, Post
<1> HIDE DEF b
<1>2. Post(b, 0) /\ b.ifr_lag >= 0 /\ Ready(b.ta, 0)
  BY <1>1, UpdPost DEF Here, Upd
<1>3. b \in Chips /\ b.ta \in Timers /\ Fit(b.ta) /\ b.ta.n = 0 /\ Clean(b.ta)
  BY <1>1, <1>2 DEF Post, Pre, Chips, Ready
<1>4. s \in Timers /\ s.lag = 0 /\ s.n = 0 /\ Fit(s)
  BY <1>1, <1>3, CtrlFacts
<1>5. Fresh(t) /\ Alarmed(s, t) /\ t \in Timers
  BY <1>4, FreshAlarm DEF Fresh
<1>6. h \in 0 .. 1
  BY <1>3 DEF Chips
<1>7. /\ [b EXCEPT !.tat = IF g THEN 1 ELSE @, !.ta = SetCtrl(@, byte)] = e
  OBVIOUS
<1> HIDE DEF h, s
<1>8. [e EXCEPT !.ta = ciat_set_alarm(@)] = f
  BY <1>3 DEF Chips
<1> HIDE DEF t
<1>9. /\ f \in Chips /\ f.ta = t /\ f.tb = b.tb /\ f.tat = h /\ f.tbt = b.tbt
      /\ f.idle = b.idle /\ f.twice = b.twice /\ f.ifr_lag = b.ifr_lag
  BY <1>3, <1>5, <1>6 DEF Chips
<1> HIDE DEF f
<1>10. Post(f, 0)
  BY <1>2, <1>5, <1>9, FreshPost
<1>11. Post(d, 0) /\ SameTimers(f, d)
  BY <1>2, <1>9, <1>10, IfrPost
<1>12. Ifr([e EXCEPT !.ta = ciat_set_alarm(@)], 0) = d
  BY <1>8
<1> HIDE DEF d, e
<1>13. d.ta = t /\ d.tb = b.tb /\ d.tat = h /\ d.tbt = b.tbt
  BY <1>9, <1>11 DEF SameTimers
<1> QED BY <1>1, <1>3, <1>5, <1>7, <1>11, <1>12, <1>13 DEF b, s, t, h

\* The chip with another toggle of timer B, and with other timers.
Toggled(c, h) == [c EXCEPT !.tbt = h]

Stored(c, r, t) == [c EXCEPT !.ta = r, !.tb = t]

\* Writing CRB.
LEMMA CrbPost ==
  ASSUME NEW c, Here(c), NEW mode, NEW h \in 0 .. 1,
         NEW a, a = Toggled(c, h),
         NEW b, b = UpdateBoth(a, 0),
         NEW r, r = b.ta \/ r = ciat_set_alarm(b.ta),
         NEW t, t = ciat_set_alarm(SetCtrl(b.tb, mode)),
         NEW d, d = Ifr(Stored(b, r, t), 0)
  PROVE  /\ Post(d, 0) /\ Here(a) /\ RunA(c, d) /\ b.tb.lag = 0 /\ b.tb.n = 0
         /\ d.ta = r /\ Alarmed(b.ta, r)
         /\ d.tb = t /\ Alarmed(SetCtrl(b.tb, mode), t)
         /\ d.tat = b.tat /\ d.tbt = b.tbt
<1> DEFINE s == SetCtrl(b.tb, mode)
           e == Stored(b, r, t)
<1>1. c \in Chips
  BY DEF Here, Post, Pre, Chips
<1>2. /\ a \in Chips /\ a.ta = c.ta /\ a.tb = c.tb /\ a.tat = c.tat
      /\ a.idle = c.idle /\ a.twice = c.twice /\ a.ifr_lag = c.ifr_lag
  BY <1>1 DEF Chips, Toggled
<1>3. Here(a) /\ RunA(c, a)
  BY <1>2 DEF Here, Post, Pre, RunA, SameRun, Same
<1>4. Here(b) /\ RunA(a, b) /\ b.ta.lag = 0 /\ b.tb.lag = 0 /\ Clean(b.tb)
  BY <1>3, BothHere
<1>5. /\ b \in Chips /\ b.ta \in Timers /\ b.tb \in Timers /\ Fit(b.ta) /\ Fit(b.tb)
      /\ b.ta.n = 0 /\ b.tb.n = 0 /\ Post(b, 0) /\ b.ifr_lag >= 0
  BY <1>4 DEF Here, Post, Pre, Chips
<1>6. s \in Timers /\ s.lag = 0 /\ s.n = 0 /\ Fit(s)
  BY <1>4, <1>5, CtrlFacts
<1> HIDE DEF s
<1>7. t = ciat_set_alarm(s)
  BY DEF s
<1>8. Fresh(t) /\ Alarmed(s, t) /\ t \in Timers
  BY <1>6, <1>7, FreshAlarm DEF Fresh
<1>9. (r = b.ta \/ Fresh(r)) /\ Alarmed(b.ta, r) /\ r \in Timers
  <2>1. CASE r = ciat_set_alarm(b.ta)
    BY <1>4, <1>5, <2>1, FreshAlarm DEF Fresh
  <2>2. CASE r = b.ta
    BY <1>5, <2>2 DEF Alarmed
  <2> QED BY <2>1, <2>2
<1>10. /\ e \in Chips /\ e.ta = r /\ e.tb = t /\ e.tat = b.tat /\ e.tbt = b.tbt
       /\ e.idle = b.idle /\ e.twice = b.twice /\ e.ifr_lag = b.ifr_lag
  BY <1>5, <1>8, <1>9 DEF Chips, Stored
<1>11. d = Ifr(e, 0)
  OBVIOUS
<1> HIDE DEF e
<1>12. Post(e, 0)
  BY <1>5, <1>8, <1>9, <1>10, FreshPost
<1>13. Post(d, 0) /\ SameTimers(e, d)
  BY <1>5, <1>10, <1>11, <1>12, IfrPost
<1>14. RunA(b, e)
  BY <1>4, <1>5, <1>9, <1>10, RunAAlarm
<1>15. RunA(c, d)
  BY <1>3, <1>4, <1>13, <1>14, RunASame, RunATrans
<1>16. d.ta = r /\ d.tb = t /\ d.tat = b.tat /\ d.tbt = b.tbt
  BY <1>10, <1>13 DEF SameTimers
<1> QED BY <1>3, <1>4, <1>5, <1>8, <1>9, <1>13, <1>15, <1>16 DEF s

\* The alarm of timer A.
LEMMA IntTaPost ==
  ASSUME NEW c, NEW at \in Nat, Post(c, at), c.ifr_lag >= at
  PROVE  LET b == ciacore_intta(c, at)
             d == Ifr(b, at)
         IN  /\ Post(d, at) /\ SameTimers(b, d) /\ RunA(c, d) /\ d.ifr_lag >= at - 1
             /\ Pre(c, at) /\ d.ta.lag = at
<1> DEFINE b == ciacore_intta(c, at)
           d == Ifr(b, at)
<1>1. Upd(c, b, at) /\ b.ta.lag = at /\ Pre(c, at)
  BY IntTa DEF Post
<1> HIDE DEF b
<1>2. Post(b, at) /\ b.ifr_lag >= at /\ RunA(c, b)
  BY <1>1, UpdPost, RunAUpd
<1>3. Post(d, at) /\ SameTimers(b, d) /\ d.ifr_lag >= at - 1
  BY <1>2, IfrPost
<1> HIDE DEF d
<1>4. RunA(c, d) /\ d.ta.lag = at
  BY <1>1, <1>2, <1>3, RunASame, RunATrans DEF SameTimers
<1> QED BY <1>1, <1>3, <1>4 DEF d, b

\* The alarm of timer B.
LEMMA IntTbPost ==
  ASSUME NEW c, NEW at \in Nat, Post(c, at), c.ifr_lag >= at
  PROVE  LET b == ciacore_inttb(c, at)
             d == Ifr(b, at)
         IN  /\ Post(d, at) /\ SameTimers(b, d) /\ RunA(c, d) /\ d.ifr_lag >= at - 1
             /\ Pre(c, at)
<1> DEFINE b == ciacore_inttb(c, at)
           d == Ifr(b, at)
<1>1. Upd(c, b, at) /\ Pre(c, at)
  BY IntTb DEF Post
<1> HIDE DEF b
<1>2. Post(b, at) /\ b.ifr_lag >= at /\ RunA(c, b)
  BY <1>1, UpdPost, RunAUpd
<1>3. Post(d, at) /\ SameTimers(b, d) /\ d.ifr_lag >= at - 1
  BY <1>2, IfrPost
<1> HIDE DEF d
<1>4. RunA(c, d)
  BY <1>2, <1>3, RunASame, RunATrans
<1> QED BY <1>1, <1>3, <1>4 DEF d, b

\* The idle alarm.
LEMMA IdlePost ==
  ASSUME NEW c, NEW at \in Nat, Post(c, at), c.ifr_lag >= at - 1
  PROVE  LET b == UpdateBoth(c, at)
             d == ciacore_idle(c, at)
         IN  /\ Post(d, at) /\ SameTimers(b, d) /\ RunA(c, d) /\ d.ifr_lag >= at - 1
             /\ Pre(c, at)
<1> DEFINE b == UpdateBoth(c, at)
           m == CIA_MAX_IDLE_CYCLES - at
           a == [b EXCEPT !.idle = m]
           e == cia_ifr_catchup(a, at)
           d == IdleIfr(e, at)
<1>0. ciacore_idle(c, at) = d
  BY DEF ciacore_idle
<1>1. Upd(c, b, at) /\ Pre(c, at)
  BY UpdBoth DEF Post
<1> HIDE DEF b
<1>2. Post(b, at) /\ RunA(c, b) /\ b \in Chips
  BY <1>1, UpdPost, RunAUpd DEF Post, Pre
<1>3. b.ifr_lag \in Int /\ c.ifr_lag \in Int /\ b.ifr_lag >= at - 1
  <2>1. b.ifr_lag \in Int /\ c.ifr_lag \in Int
    BY <1>1, <1>2 DEF Pre, Chips
  <2>2. IfrLag(c, b, at)
    BY <1>1 DEF Upd
  <2> QED BY <2>1, <2>2 DEF IfrLag
<1>4. m \in Int /\ m >= -at
  BY CiaAssumption
<1> HIDE DEF m
<1>5. a \in Chips /\ SameTimers(b, a) /\ a.idle = m /\ a.twice = b.twice /\ a.ifr_lag = b.ifr_lag
  BY <1>2, <1>4 DEF Chips, SameTimers
<1> HIDE DEF a
<1>6. Post(a, at)
  BY <1>2, <1>4, <1>5 DEF Post, Pre, SameTimers
<1>7. CASE a.ifr_lag >= at
  <2> DEFINE x == IfrCurrent(e, at)
  <2>1. Post(x, at) /\ SameTimers(a, x) /\ x.ifr_lag >= at - 1
    BY <1>6, <1>7, CurrentPost
  <2>2. e.ifr_lag = at
    <3>1. e.ifr_lag = IF a.ifr_lag > at THEN at ELSE a.ifr_lag
      BY <1>5, CatchUp
    <3> HIDE DEF e
    <3>2. a.ifr_lag \in Int
      BY <1>3, <1>5
    <3> QED BY <1>7, <3>1, <3>2
  <2>3. d = IfrNext(x, at)
    BY <2>2 DEF IdleIfr
  <2> HIDE DEF x, e, d
  <2>4. Post(d, at) /\ SameTimers(x, d) /\ d.ifr_lag = x.ifr_lag
    BY <2>1, <2>3, NextPost
  <2>5. SameTimers(b, d)
    BY <1>5, <2>1, <2>4 DEF SameTimers
  <2>6. RunA(c, d)
    BY <1>2, <2>5, RunASame, RunATrans
  <2> QED BY <1>0, <1>1, <2>1, <2>4, <2>5, <2>6 DEF b
<1>8. CASE ~(a.ifr_lag >= at)
  <2>1. e = a
    BY <1>3, <1>5, <1>8 DEF cia_ifr_catchup
  <2>2. d = a
    BY <1>3, <1>5, <1>8, <2>1 DEF IdleIfr
  <2> HIDE DEF d, e
  <2>3. RunA(c, d)
    BY <1>2, <1>5, <2>2, RunASame, RunATrans
  <2> QED BY <1>0, <1>1, <1>3, <1>5, <1>6, <2>2, <2>3 DEF b
<1> QED BY <1>7, <1>8

-----------------------------------------------------------------------------

\* How far the chip and its alarms may be apart from the clock.
Behind(c) ==
  /\ c \in Chips
  /\ Fit(c.ta) /\ Fit(c.tb) /\ c.ta.n = 0 /\ c.tb.n = 0
  /\ c.ta.lag >= 0 /\ c.tb.lag >= 0 /\ c.ifr_lag >= -1
  /\ \A a \in Alarms(c) : c.ta.lag >= -a /\ c.tb.lag >= -a
  /\ c.ta.alarm >= -c.ifr_lag /\ c.tb.alarm >= -c.ifr_lag /\ c.idle >= -c.ifr_lag - 1
  /\ ~c.twice

\* What an access in this cycle starts from.
AtRest(c) == c.ifr_lag >= 0 /\ Ready(c.ta, 0) /\ Ready(c.tb, 0)

\* After a handler the chip is as far behind as it may be.
LEMMA PostBehind ==
  ASSUME NEW d, NEW at \in Nat, Post(d, at), d.ifr_lag >= at - 1
  PROVE  Behind(d) /\ (at > 0 => AtRest(d))
<1>1. /\ d \in Chips /\ d.ta.lag \in Int /\ d.tb.lag \in Int /\ d.ta.alarm \in Int
      /\ d.tb.alarm \in Int /\ d.idle \in Int /\ d.ifr_lag \in Int
  BY DEF Post, Pre, Chips, Timers
<1>2. /\ Fit(d.ta) /\ Fit(d.tb) /\ d.ta.n = 0 /\ d.tb.n = 0
      /\ d.ta.lag >= at /\ d.tb.lag >= at /\ d.ta.alarm >= -at /\ d.tb.alarm >= -at
      /\ d.ta.alarm >= -d.ifr_lag /\ d.tb.alarm >= -d.ifr_lag
      /\ d.ifr_lag >= -1 /\ d.idle >= -at /\ ~d.twice
  BY DEF Post, Pre
<1>3. d.idle >= -d.ifr_lag - 1 /\ d.ta.lag >= 0 /\ d.tb.lag >= 0
  BY <1>1, <1>2
<1>4. \A a \in Alarms(d) : a \in Int /\ a >= -at
  BY <1>1, <1>2 DEF Alarms
<1>5. \A a \in Alarms(d) : d.ta.lag >= -a /\ d.tb.lag >= -a
  BY <1>1, <1>2, <1>4
<1>6. ASSUME at > 0 PROVE AtRest(d)
  BY <1>1, <1>2, <1>6 DEF AtRest, Ready
<1> QED BY <1>1, <1>2, <1>3, <1>5, <1>6 DEF Behind

\* The alarm that is due first finds the chip as its handler needs it.
LEMMA BehindPost ==
  ASSUME NEW c, Behind(c), NEW at \in Nat, \A a \in Alarms(c) : a >= -at, -at \in Alarms(c)
  PROVE  Post(c, at) /\ c.ifr_lag >= at - 1
         /\ (-at = c.ta.alarm \/ -at = c.tb.alarm => c.ifr_lag >= at)
<1>1. /\ c \in Chips /\ c.ta.lag \in Int /\ c.tb.lag \in Int /\ c.ta.alarm \in Int
      /\ c.tb.alarm \in Int /\ c.idle \in Int /\ c.ifr_lag \in Int
  BY DEF Behind, Chips, Timers
<1>2. c.ta.lag >= at /\ c.tb.lag >= at
  <2>1. c.ta.lag >= -(-at) /\ c.tb.lag >= -(-at)
    BY DEF Behind
  <2> QED BY <1>1, <2>1
<1>3. c.ta.alarm >= -at /\ c.tb.alarm >= -at /\ c.idle >= -at
  BY DEF Alarms
<1>4. c.ifr_lag >= at - 1 /\ (-at = c.ta.alarm \/ -at = c.tb.alarm => c.ifr_lag >= at)
  <2>1. /\ c.ta.alarm >= -c.ifr_lag /\ c.tb.alarm >= -c.ifr_lag /\ c.idle >= -c.ifr_lag - 1
    BY DEF Behind
  <2>2. -at = c.ta.alarm \/ -at = c.tb.alarm \/ -at = c.idle
    BY DEF Alarms
  <2> QED BY <1>1, <2>1, <2>2
<1>5. Pre(c, at)
  BY <1>1, <1>2, <1>3 DEF Behind, Pre
<1> QED BY <1>3, <1>4, <1>5 DEF Behind, Post

\* So does an access, when the alarms of the cycle have run.
LEMMA BehindHere ==
  ASSUME NEW c, Behind(c), AtRest(c), \A a \in Alarms(c) : a >= 0
  PROVE  Here(c)
<1>1. c.ta.alarm >= 0 /\ c.tb.alarm >= 0 /\ c.idle >= 0
  BY DEF Alarms
<1>2. c.ta.lag >= 0 /\ c.tb.lag >= 0
  BY DEF Behind
<1>3. Pre(c, 0)
  BY <1>1, <1>2 DEF Behind, Pre
<1> QED BY <1>1, <1>3 DEF Here, Post, Behind, AtRest

\* A clock that goes by.
LEMMA OlderInt ==
  ASSUME NEW age \in Int
  PROVE  Older(age) \in Int /\ Nearer(age) \in Int
         /\ Nearer(age) = IF age = NEVER THEN age ELSE age - 1
<1>1. NONE \in Int
  BY DEF NONE
<1>2. OLD \in Int
  BY CiaAssumption DEF OLD
<1> QED BY <1>1, <1>2 DEF Older, Nearer

\* The timer B bug changes flags only.
LEMMA BugFlags ==
  ASSUME NEW f \in SUBSET Flags, NEW age
  PROVE  TimerBBug(f, age) \in SUBSET Flags
BY DEF TimerBBug, Flags

\* A cycle of the chip that runs in every cycle.
LEMMA CycleFacts ==
  ASSUME NEW c \in Chips
  PROVE  LET d == Cycle(c)
             ta == Turn(Noted(c.ta))
             tb == Turn(Noted(c.tb))
         IN  /\ d \in Chips /\ d.ta = ta
             /\ d.tb = IF ta.n > 0 /\ CountsTa THEN Step(tb) ELSE tb
             /\ d.tat = (c.tat + ta.n) % 2 /\ d.tbt = (c.tbt + tb.n) % 2
<1> DEFINE ta == Turn(Noted(c.ta))
           tb == Turn(Noted(c.tb))
           set == (IF ta.n > 0 THEN {"TA"} ELSE {}) \cup (IF tb.n > 0 THEN {"TB"} ELSE {})
           age == Older(c.rdi)
           u == IF ta.n > 0 /\ CountsTa THEN Step(tb) ELSE tb
           g == (c.tat + ta.n) % 2
           h == (c.tbt + tb.n) % 2
           f == IF tb.n > 0 THEN TimerBBug(c.flags \cup set, age) ELSE c.flags \cup set
           k == c.ack \ set
           i == Older(c.int)
           z == 0
           e == [c EXCEPT !.ta = ta, !.tb = u, !.tat = g, !.tbt = h, !.flags = f,
                          !.new = set, !.ack = k, !.ifr_lag = z, !.int = i, !.rdi = age]
<1>1. Cycle(c) = cia_run_ifr_cycle(e)
  BY DEF Cycle, Turn, Noted
<1>2. /\ c.ta \in Timers /\ c.tb \in Timers /\ c.tat \in 0 .. 1 /\ c.tbt \in 0 .. 1
      /\ c.flags \in SUBSET Flags /\ c.ack \in SUBSET Flags /\ c.int \in Int /\ c.rdi \in Int
  BY DEF Chips
<1>3. ta \in Timers /\ tb \in Timers
  BY <1>2, NotedFacts, TurnFacts
<1>4. ta.n \in Nat /\ tb.n \in Nat
  BY <1>3 DEF Timers
<1> HIDE DEF ta, tb
<1>5. u \in Timers
  BY <1>3, StepFacts
<1>6. g \in 0 .. 1 /\ h \in 0 .. 1
  BY <1>2, <1>4, Parity
<1>7. set \in SUBSET Flags
  BY DEF Flags
<1>8. k \in SUBSET Flags /\ f \in SUBSET Flags
  BY <1>2, <1>7, BugFlags
<1>9. i \in Int /\ age \in Int /\ z \in Int
  BY <1>2, OlderInt
<1> HIDE DEF set, age, u, g, h, f, k, i, z
<1>10. e \in Chips /\ e.ta = ta /\ e.tb = u /\ e.tat = g /\ e.tbt = h
  BY <1>3, <1>5, <1>6, <1>7, <1>8, <1>9 DEF Chips
<1> HIDE DEF e
<1>11. Rest(e, Cycle(c))
  BY <1>1, <1>10, CycleOfIfr
<1> QED BY <1>10, <1>11 DEF Rest, ta, tb, u, g, h

\* The chip of the code when a cycle ends.
Ticked(c) ==
  [c EXCEPT !.ta = Waited(@), !.tb = Waited(@),
            !.ifr_lag = @ + 1, !.idle = @ - 1, !.int = Older(@), !.rdi = Older(@)]

\* A cycle goes by for a timer that is not run.
LEMMA WaitedFacts ==
  ASSUME NEW s \in Timers
  PROVE  LET t == Waited(s)
         IN  /\ t \in Timers /\ t.state = s.state /\ t.cnt = s.cnt /\ t.latch = s.latch
             /\ t.n = s.n /\ t.lag = s.lag + 1 /\ t.alarm = Nearer(s.alarm)
             /\ t.alarm = IF s.alarm = NEVER THEN NEVER ELSE s.alarm - 1
             /\ Fit(s) => Fit(t)
             /\ Plain(s) => Plain(t)
<1> DEFINE a == Nearer(s.alarm)
           l == s.lag + 1
           t == [s EXCEPT !.lag = l, !.alarm = a]
<1>1. Waited(s) = t
  BY DEF Waited
<1>2. a \in Int /\ l \in Int /\ a = (IF s.alarm = NEVER THEN NEVER ELSE s.alarm - 1)
  BY OlderInt DEF Timers
<1>3. a = Nearer(s.alarm) /\ l = s.lag + 1
  OBVIOUS
<1> HIDE DEF a, l
<1>4. /\ t \in Timers /\ t.state = s.state /\ t.cnt = s.cnt /\ t.latch = s.latch
      /\ t.n = s.n /\ t.lag = l /\ t.alarm = a
  BY <1>2 DEF Timers
<1> HIDE DEF t
<1>5. (Fit(s) => Fit(t)) /\ (Plain(s) => Plain(t))
  BY <1>4 DEF Fit, Weak, Plain
<1> QED BY <1>1, <1>2, <1>3, <1>4, <1>5

\* A cycle goes by for the chip of the code.
LEMMA TickedFacts ==
  ASSUME NEW c \in Chips
  PROVE  LET d == Ticked(c)
         IN  /\ d \in Chips /\ d.ta = Waited(c.ta) /\ d.tb = Waited(c.tb)
             /\ d.tat = c.tat /\ d.tbt = c.tbt
             /\ d.ifr_lag = c.ifr_lag + 1 /\ d.idle = c.idle - 1 /\ d.twice = c.twice
<1> DEFINE ta == Waited(c.ta)
           tb == Waited(c.tb)
           l == c.ifr_lag + 1
           a == c.idle - 1
           i == Older(c.int)
           r == Older(c.rdi)
           d == [c EXCEPT !.ta = ta, !.tb = tb, !.ifr_lag = l, !.idle = a, !.int = i,
                          !.rdi = r]
<1>1. Ticked(c) = d
  BY DEF Ticked
<1>2. ta \in Timers /\ tb \in Timers
  BY WaitedFacts DEF Chips
<1>3. l \in Int /\ a \in Int /\ i \in Int /\ r \in Int
  BY OlderInt DEF Chips
<1>4. l = c.ifr_lag + 1 /\ a = c.idle - 1
  OBVIOUS
<1> HIDE DEF ta, tb, l, a, i, r
<1>5. /\ d \in Chips /\ d.ta = ta /\ d.tb = tb /\ d.tat = c.tat /\ d.tbt = c.tbt
      /\ d.ifr_lag = l /\ d.idle = a /\ d.twice = c.twice
  BY <1>2, <1>3 DEF Chips
<1> HIDE DEF d
<1> QED BY <1>1, <1>4, <1>5 DEF ta, tb

\* ... which is then behind by one more.
LEMMA TickBehind ==
  ASSUME NEW c, Behind(c)
  PROVE  Behind(Ticked(c)) /\ AtRest(Ticked(c))
<1> DEFINE d == Ticked(c)
           ta == Waited(c.ta)
           tb == Waited(c.tb)
<1>1. /\ d \in Chips /\ d.ta = ta /\ d.tb = tb
      /\ d.ifr_lag = c.ifr_lag + 1 /\ d.idle = c.idle - 1 /\ d.twice = c.twice
  BY TickedFacts DEF Behind
<1> HIDE DEF d
<1>2. /\ c.ta \in Timers /\ c.tb \in Timers /\ c.ifr_lag \in Int /\ c.idle \in Int
      /\ c.ta.lag \in Int /\ c.tb.lag \in Int /\ c.ta.alarm \in Int /\ c.tb.alarm \in Int
  BY DEF Behind, Chips, Timers
<1>3. /\ ta.lag = c.ta.lag + 1 /\ tb.lag = c.tb.lag + 1 /\ ta.n = c.ta.n /\ tb.n = c.tb.n
      /\ ta.alarm = (IF c.ta.alarm = NEVER THEN NEVER ELSE c.ta.alarm - 1)
      /\ tb.alarm = (IF c.tb.alarm = NEVER THEN NEVER ELSE c.tb.alarm - 1)
      /\ Fit(ta) /\ Fit(tb)
  BY <1>2, WaitedFacts DEF Behind
<1> HIDE DEF ta, tb
<1>4. /\ c.ta.lag >= 0 /\ c.tb.lag >= 0 /\ c.ifr_lag >= -1
      /\ c.ta.lag >= -c.ta.alarm /\ c.tb.lag >= -c.ta.alarm
      /\ c.ta.lag >= -c.tb.alarm /\ c.tb.lag >= -c.tb.alarm
      /\ c.ta.lag >= -c.idle /\ c.tb.lag >= -c.idle
      /\ c.ta.alarm >= -c.ifr_lag /\ c.tb.alarm >= -c.ifr_lag /\ c.idle >= -c.ifr_lag - 1
  BY DEF Behind, Alarms
<1>5. /\ ta.lag >= -ta.alarm /\ tb.lag >= -ta.alarm
      /\ ta.alarm >= -(c.ifr_lag + 1)
  BY <1>2, <1>3, <1>4, WordFacts
<1>6. /\ ta.lag >= -tb.alarm /\ tb.lag >= -tb.alarm
      /\ tb.alarm >= -(c.ifr_lag + 1)
  BY <1>2, <1>3, <1>4, WordFacts
<1>7. ta.lag >= -(c.idle - 1) /\ tb.lag >= -(c.idle - 1) /\ c.idle - 1 >= -(c.ifr_lag + 1) - 1
  BY <1>2, <1>3, <1>4
<1>8. ta.lag > 0 /\ tb.lag > 0 /\ c.ifr_lag + 1 >= 0
  BY <1>2, <1>3, <1>4
<1>9. \A a \in Alarms(d) : d.ta.lag >= -a /\ d.tb.lag >= -a
  BY <1>1, <1>5, <1>6, <1>7 DEF Alarms
<1>10. AtRest(d)
  BY <1>1, <1>8 DEF AtRest, Ready
<1>11. d.ta.lag >= 0 /\ d.tb.lag >= 0 /\ d.ifr_lag >= -1
  BY <1>1, <1>2, <1>3, <1>4
<1>12. Behind(d)
  BY <1>1, <1>3, <1>5, <1>6, <1>7, <1>9, <1>11 DEF Behind
<1> QED BY <1>10, <1>12 DEF d

\* The state t and the toggle h are what s, not run yet, and g come to.
Shows(s, g, t, h) == Same(Now(s), t) /\ (g + Now(s).n) % 2 = h

\* What is shown stays, when the timer comes to the same.
LEMMA ShowsRun ==
  ASSUME NEW s, NEW g, NEW u, NEW i, NEW t, NEW h, SameRun(s, g, u, i), Shows(s, g, t, h)
  PROVE  Shows(u, i, t, h)
BY DEF SameRun, Shows, Same

\* A timer that is up to date shows its own state.
LEMMA NowNow ==
  ASSUME NEW s \in Timers, s.lag = 0
  PROVE  Now(s) = s
BY RunFacts DEF Now

\* Taking note of underflows does not change how a timer behaves.
LEMMA NotedSame ==
  ASSUME NEW s \in Timers
  PROVE  Same(s, Noted(s)) /\ Noted(s) \in Timers /\ Noted(s).n = 0
BY NotedFacts DEF Same

\* A cycle of the timer of the code and of the one that runs in every cycle.
LEMMA TurnAgrees ==
  ASSUME NEW s \in Timers, NEW t \in Timers, Same(s, t), t.n = 0
  PROVE  /\ Same(Turn(s), Turn(t)) /\ Turn(s).n = s.n + Turn(t).n
         /\ Turn(t).n = (IF Underflows(t) THEN 1 ELSE 0)
<1>1. Same(Turn(s), Turn(t)) /\ (Underflows(s) <=> Underflows(t))
  BY SameTurn
<1>2. s.n \in Nat /\ t.n \in Nat
  BY DEF Timers
<1> QED BY <1>1, <1>2, TurnFacts

\* Both timers count a cycle.
LEMMA ShowsTurn ==
  ASSUME NEW s \in Timers, s.lag \in Nat, NEW g \in 0 .. 1, NEW t \in Timers, NEW h,
         Shows(s, g, t, h)
  PROVE  LET u == Turn(Noted(t))
         IN  /\ Shows(Waited(s), g, u, (h + u.n) % 2)
             /\ Same(After(s, s.lag + 1), u) /\ After(s, s.lag + 1).n = Now(s).n + u.n
<1> DEFINE a == Now(s)
           u == Turn(Noted(t))
           w == Waited(s)
<1>1. a \in Timers /\ After(s, s.lag + 1) = Turn(a)
  BY RunFacts DEF Now
<1>2. w \in Timers /\ Same(w, s) /\ w.n = s.n /\ w.lag = s.lag + 1
  BY WaitedFacts DEF Same
<1>3. Same(Now(w), Turn(a)) /\ Now(w).n = Turn(a).n
  <2>1. s.lag + 1 \in Nat
    OBVIOUS
  <2>2. Same(After(w, s.lag + 1), After(s, s.lag + 1))
        /\ After(w, s.lag + 1).n - w.n = After(s, s.lag + 1).n - s.n
    BY <1>2, <2>1, SameAfter
  <2>3. After(w, s.lag + 1) \in Timers /\ After(s, s.lag + 1) \in Timers
    BY <1>2, <2>1, RunFacts
  <2>4. /\ After(w, s.lag + 1).n \in Int /\ After(s, s.lag + 1).n \in Int
        /\ w.n \in Int /\ s.n \in Int
    BY <1>2, <2>3 DEF Timers
  <2> QED BY <1>1, <1>2, <2>2, <2>4 DEF Now
<1>4. Same(a, Noted(t)) /\ Noted(t) \in Timers /\ Noted(t).n = 0
  BY NotedSame DEF Shows, Same
<1> HIDE DEF a, w
<1>5. Same(Turn(a), u) /\ Turn(a).n = a.n + u.n /\ u \in Timers
  BY <1>1, <1>4, TurnAgrees, TurnFacts
<1>6. a.n \in Nat /\ u.n \in Nat
  BY <1>1, <1>5 DEF Timers
<1> HIDE DEF u
<1>7. (g + a.n) % 2 = h
  BY DEF Shows, a
<1>8. (((g + a.n) % 2) + u.n) % 2 = (g + (a.n + u.n)) % 2
  BY <1>6, Mod2
<1>9. Shows(w, g, u, (h + u.n) % 2)
  BY <1>3, <1>5, <1>7, <1>8 DEF Shows, Same
<1> QED BY <1>1, <1>5, <1>9 DEF a, u, w

\* No counted step is pending.
NoStep(s) == "STEP" \notin s.state

\* The inductive invariant.
Sound ==
  /\ accessed \in BOOLEAN
  /\ Behind(cia)
  /\ accessed \/ AtRest(cia)
  /\ chip \in Chips
  /\ Plain(cia.ta) /\ NoStep(chip.ta)
  /\ Shows(cia.ta, cia.tat, chip.ta, chip.tat)

\* A timer that is up to date shows its own state and toggle.
LEMMA ZeroLag ==
  ASSUME NEW s \in Timers, s.lag = 0, s.n = 0, NEW g \in 0 .. 1
  PROVE  \A t, h : Shows(s, g, t, h) <=> Same(s, t) /\ g = h
<1>1. Now(s) = s
  BY NowNow
<1>2. (g + s.n) % 2 = g
  OBVIOUS
<1> QED BY <1>1, <1>2 DEF Shows

\* The invariant holds at the start.
LEMMA InitSound ==
  ASSUME Init
  PROVE  Sound
<1> DEFINE T(w) == [ResetTimer EXCEPT !.cnt = w, !.latch = w]
           m == CIA_MAX_IDLE_CYCLES
<1>1. PICK a \in Latches, b \in Latches :
         cia = [ciacore_reset EXCEPT !.ta = T(a), !.tb = T(b)]
  BY DEF Init
<1>2. a \in Words /\ b \in Words
  BY CiaAssumption DEF Words, WORD
<1>3. ResetTimer \in Timers
  <2>1. WORD - 1 \in Words /\ {} \in SUBSET Bits /\ NEVER \in Int
    BY WordFacts DEF Words
  <2> QED BY <2>1 DEF ResetTimer, Timers
<1>4. /\ ResetTimer.state = {} /\ ResetTimer.lag = 0 /\ ResetTimer.n = 0
      /\ ResetTimer.alarm = NEVER
  BY DEF ResetTimer
<1>5. NONE \in Int /\ OLD \in Int /\ m \in Int /\ m > 0
  BY CiaAssumption DEF NONE, OLD
<1>6. \A w \in Words : /\ T(w) \in Timers /\ T(w).state = {} /\ T(w).lag = 0
                       /\ T(w).n = 0 /\ T(w).alarm = NEVER
  BY <1>3, <1>4 DEF Timers
<1>14. /\ ciacore_reset \in Chips /\ ciacore_reset.ifr_lag = 0 /\ ciacore_reset.idle = m
       /\ ciacore_reset.twice = FALSE /\ ciacore_reset.tat = 0 /\ ciacore_reset.tbt = 0
  BY <1>3, <1>5 DEF ciacore_reset, Chips
<1> HIDE DEF T, m
<1>15. T(a) \in Timers /\ T(b) \in Timers
  BY <1>2, <1>6
<1>7. /\ cia \in Chips /\ cia.ta = T(a) /\ cia.tb = T(b) /\ cia.ifr_lag = 0
      /\ cia.idle = m /\ cia.twice = FALSE /\ cia.tat = 0 /\ cia.tbt = 0
  BY <1>1, <1>14, <1>15 DEF Chips
<1>8. /\ cia.ta \in Timers /\ cia.ta.state = {} /\ cia.ta.lag = 0 /\ cia.ta.n = 0
      /\ cia.ta.alarm = NEVER
      /\ cia.tb \in Timers /\ cia.tb.state = {} /\ cia.tb.lag = 0 /\ cia.tb.n = 0
      /\ cia.tb.alarm = NEVER
  BY <1>2, <1>6, <1>7
<1>9. /\ Fit(cia.ta) /\ Fit(cia.tb) /\ Clean(cia.ta) /\ Clean(cia.tb)
      /\ Plain(cia.ta) /\ NoStep(cia.ta)
  BY <1>8 DEF Fit, Weak, Clean, Plain, NoStep
<1>10. Behind(cia)
  BY <1>5, <1>7, <1>8, <1>9, WordFacts DEF Behind, Alarms
<1>11. AtRest(cia)
  BY <1>7, <1>9 DEF AtRest, Ready
<1>12. chip = cia /\ accessed = FALSE
  BY DEF Init
<1>13. Shows(cia.ta, cia.tat, cia.ta, cia.tat)
  BY <1>7, <1>8, ZeroLag DEF Same
<1> QED BY <1>7, <1>9, <1>10, <1>11, <1>12, <1>13 DEF Sound

\* The CPU has used the cycle.
LEMMA AccessSound ==
  ASSUME accessed' = TRUE, Post(cia', 0), chip' \in Chips,
         Plain(cia'.ta), NoStep(chip'.ta), Shows(cia'.ta, cia'.tat, chip'.ta, chip'.tat)
  PROVE  Sound'
<1>1. cia'.ifr_lag >= 0 - 1
  BY DEF Post, Pre
<1>2. Behind(cia')
  BY <1>1, PostBehind
<1> QED BY <1>2 DEF Sound

\* The invariant gives an access what it starts from.
LEMMA SoundHere ==
  ASSUME Sound, Access
  PROVE  Here(cia) /\ cia \in Chips /\ accessed' = TRUE
BY BehindHere DEF Sound, Access, Behind

\* What a handler leaves alone is still shown.
LEMMA RunShows ==
  ASSUME NEW c, NEW d, RunA(c, d), Plain(c.ta), NEW t, NEW h, Shows(c.ta, c.tat, t, h)
  PROVE  Plain(d.ta) /\ Shows(d.ta, d.tat, t, h)
BY ShowsRun DEF RunA

\* An access of a timer keeps the invariant.
LEMMA ReadSound ==
  ASSUME Sound, NEW x \in TimerNames, Read(x)
  PROVE  Sound'
<1>1. Here(cia) /\ accessed' = TRUE
  BY SoundHere DEF Read
<1>2. Post(cia', 0) /\ RunA(cia, cia')
  BY <1>1, ReadPost DEF Read
<1>3. chip' = chip
  BY DEF Read
<1> QED BY <1>1, <1>2, <1>3, AccessSound, RunShows DEF Sound

\* Reading ICR keeps it: the flags change in both chips.
LEMMA ReadIcrSound ==
  ASSUME Sound, ReadIcr
  PROVE  Sound'
<1>1. Here(cia) /\ accessed' = TRUE
  BY SoundHere DEF ReadIcr
<1>2. Post(cia', 0) /\ RunA(cia, cia')
  BY <1>1, ReadIcrPost DEF ReadIcr
<1>3. chip' \in Chips /\ SameTimers(chip, chip')
  BY IcrReadFacts DEF ReadIcr, Sound
<1> QED BY <1>1, <1>2, <1>3, AccessSound, RunShows DEF Sound, SameTimers

\* So does writing ICR.
LEMMA StoreIcrSound ==
  ASSUME Sound, NEW byte, StoreIcr(byte)
  PROVE  Sound'
<1>1. Here(cia) /\ accessed' = TRUE
  BY SoundHere DEF StoreIcr
<1>2. Post(cia', 0) /\ RunA(cia, cia')
  BY <1>1, StoreIcrPost DEF StoreIcr
<1>3. chip' \in Chips /\ SameTimers(chip, chip')
  BY IcrStoredFacts DEF StoreIcr, Sound
<1> QED BY <1>1, <1>2, <1>3, AccessSound, RunShows DEF Sound, SameTimers

\* The registers of the latches.
LEMMA RegisterFacts ==
  ASSUME NEW r \in Written
  PROVE  LatchRegisters[r][1] \in TimerNames /\ LatchRegisters[r][2] \in BOOLEAN
<1>1. r \in {"TAL", "TAH", "TBL", "TBH"}
  BY CiaAssumption
<1>2. /\ LatchRegisters["TAL"][1] = "ta" /\ LatchRegisters["TAL"][2] = FALSE
      /\ LatchRegisters["TAH"][1] = "ta" /\ LatchRegisters["TAH"][2] = TRUE
      /\ LatchRegisters["TBL"][1] = "tb" /\ LatchRegisters["TBL"][2] = FALSE
      /\ LatchRegisters["TBH"][1] = "tb" /\ LatchRegisters["TBH"][2] = TRUE
  BY DEF LatchRegisters
<1>3. CASE r = "TAL"
  BY <1>2, <1>3 DEF TimerNames
<1>4. CASE r = "TAH"
  BY <1>2, <1>4 DEF TimerNames
<1>5. CASE r = "TBL"
  BY <1>2, <1>5 DEF TimerNames
<1>6. CASE r = "TBH"
  BY <1>2, <1>6 DEF TimerNames
<1> QED BY <1>1, <1>3, <1>4, <1>5, <1>6

\* So does writing a latch register: both chips have the same timer then.
LEMMA StoreLatchSound ==
  ASSUME Sound, NEW r \in Written, NEW byte \in 0 .. BYTE - 1, StoreLatch(r, byte)
  PROVE  Sound'
<1> DEFINE x == LatchRegisters[r][1]
           hi == LatchRegisters[r][2]
           b == Ifr(Update(cia, x), 0)
           y == IF x = "ta" THEN "tb" ELSE "ta"
<1>1. Here(cia) /\ accessed' = TRUE
  BY SoundHere DEF StoreLatch
<1>2. x \in TimerNames /\ hi \in BOOLEAN
  BY RegisterFacts
<1>3. /\ cia' = [b EXCEPT ![x] = ciat_set_alarm(SetLatch(@, hi, byte))]
      /\ chip' = [chip EXCEPT ![x] = SetLatch(@, hi, byte)]
  BY DEF StoreLatch
<1> HIDE DEF x, hi
<1>4. /\ Post(cia', 0) /\ RunA(cia, b) /\ cia'.tat = b.tat
      /\ b \in Chips /\ b[x].lag = 0 /\ b[x].n = 0
      /\ Alarmed(SetLatch(b[x], hi, byte), cia'[x]) /\ cia'[y] = b[y]
  BY <1>1, <1>2, <1>3, LatchPost
<1> HIDE DEF b
<1>5. Plain(b.ta) /\ Shows(b.ta, b.tat, chip.ta, chip.tat)
  BY <1>4, RunShows DEF Sound
<1>6. CASE x = "ta"
  <2>1. /\ chip.ta \in Timers /\ b.ta \in Timers /\ b.tat \in 0 .. 1
        /\ Same(b.ta, chip.ta) /\ b.tat = chip.tat
    BY <1>4, <1>5, <1>6, ZeroLag DEF Sound, Chips
  <2> DEFINE s == SetLatch(b.ta, hi, byte)
             t == SetLatch(chip.ta, hi, byte)
  <2>2. Same(s, t)
    BY <1>2, <2>1, LatchSame
  <2>3. /\ s \in Timers /\ s.lag = 0 /\ s.n = 0 /\ Plain(s)
        /\ t \in Timers /\ t.state = chip.ta.state
    BY <1>2, <1>4, <1>5, <1>6, <2>1, LatchFacts
  <2>4. Alarmed(s, cia'.ta)
    BY <1>4, <1>6
  <2> HIDE DEF s, t
  <2>5. /\ cia'.ta \in Timers /\ cia'.ta.lag = 0 /\ cia'.ta.n = 0 /\ Same(cia'.ta, t)
        /\ Plain(cia'.ta)
    BY <2>2, <2>3, <2>4, AlarmedFacts DEF Alarmed, Same
  <2>6. SetTa(chip, chip', t)
    <3>1. chip' = [chip EXCEPT !.ta = t]
      BY <1>3, <1>6 DEF t
    <3> QED BY <2>3, <3>1, SetFacts DEF Sound
  <2>7. Shows(cia'.ta, cia'.tat, chip'.ta, chip'.tat)
    BY <1>4, <2>1, <2>5, <2>6, ZeroLag DEF SetTa
  <2>8. NoStep(chip'.ta)
    BY <2>3, <2>6 DEF Sound, NoStep, SetTa
  <2> QED BY <1>1, <1>4, <2>5, <2>6, <2>7, <2>8, AccessSound DEF SetTa
<1>7. CASE x = "tb"
  <2> DEFINE t == SetLatch(chip.tb, hi, byte)
  <2>1. t \in Timers
    BY <1>2, LatchFacts DEF Sound, Chips
  <2>2. SetTb(chip, chip', t)
    <3>1. chip' = [chip EXCEPT !.tb = t]
      BY <1>3, <1>7
    <3> HIDE DEF t
    <3> QED BY <2>1, <3>1, SetFacts DEF Sound
  <2>3. cia'.ta = b.ta
    BY <1>4, <1>7
  <2> QED BY <1>1, <1>4, <1>5, <2>2, <2>3, AccessSound DEF Sound, SetTb
<1> QED BY <1>2, <1>6, <1>7 DEF TimerNames

\* So does writing CRA.
LEMMA StoreCraSound ==
  ASSUME Sound, NEW byte, StoreCra(byte)
  PROVE  Sound'
<1> DEFINE g == "START" \in byte /\ "START" \notin ctrl.ta
           b == cia_update_ta(cia, 0)
           s == SetCtrl(b.ta, byte)
           t == SetCtrl(chip.ta, byte)
           h == IF g THEN 1 ELSE chip.tat
<1>1. Here(cia) /\ accessed' = TRUE
  BY SoundHere DEF StoreCra
<1>2. /\ cia' = Ifr([[b EXCEPT !.tat = IF g THEN 1 ELSE @, !.ta = SetCtrl(@, byte)]
                       EXCEPT !.ta = ciat_set_alarm(@)], 0)
      /\ chip' = [chip EXCEPT !.tat = h, !.ta = t]
  BY DEF StoreCra
<1>3. g \in BOOLEAN
  OBVIOUS
<1> HIDE DEF g
<1>4. /\ Post(cia', 0) /\ Upd(cia, b, 0) /\ RunA(cia, b) /\ b.ta.lag = 0 /\ b.ta.n = 0
      /\ cia'.tat = IF g THEN 1 ELSE b.tat
      /\ Alarmed(s, cia'.ta)
  BY <1>1, <1>2, <1>3, CraPost
<1> HIDE DEF b
<1>5. Plain(b.ta) /\ Shows(b.ta, b.tat, chip.ta, chip.tat)
  BY <1>4, RunShows DEF Sound
<1>6. chip.ta \in Timers /\ b.ta \in Timers /\ b.tat \in 0 .. 1 /\ chip.tat \in 0 .. 1
  BY <1>4 DEF Sound, Chips, Upd, Pre
<1>7. Same(b.ta, chip.ta) /\ b.tat = chip.tat
  BY <1>4, <1>5, <1>6, ZeroLag
<1>8. /\ s \in Timers /\ s.lag = 0 /\ s.n = 0 /\ ("STEP" \in s.state <=> "STEP" \in b.ta.state)
      /\ t \in Timers /\ ("STEP" \in t.state <=> "STEP" \in chip.ta.state)
  BY <1>4, <1>6, CtrlFacts
<1>9. Same(s, t)
  BY <1>6, <1>7, CtrlSame
<1>10. "STEP" \in b.ta.state <=> "STEP" \in chip.ta.state
  BY <1>6, <1>7, SameBits DEF Same
<1>11. h \in 0 .. 1
  BY <1>6
<1> HIDE DEF s, t
<1>12. /\ chip' \in Chips /\ chip'.ta = t /\ chip'.tat = h
  <2> HIDE DEF h
  <2> QED BY <1>2, <1>8, <1>11 DEF Sound, Chips
<1>13. cia'.tat = h
  BY <1>4, <1>7
<1> HIDE DEF h
<1>14. /\ cia'.ta \in Timers /\ cia'.ta.lag = 0 /\ cia'.ta.n = 0 /\ Same(cia'.ta, t)
       /\ cia'.ta.state = s.state
  BY <1>8, <1>9, <1>4, AlarmedFacts DEF Alarmed, Same
<1>15. Shows(cia'.ta, cia'.tat, chip'.ta, chip'.tat)
  BY <1>11, <1>12, <1>13, <1>14, ZeroLag
<1>16. Plain(cia'.ta) /\ NoStep(chip'.ta)
  BY <1>8, <1>10, <1>12, <1>14 DEF Plain, NoStep, Sound
<1> QED BY <1>1, <1>4, <1>12, <1>15, <1>16, AccessSound

\* So does writing CRB, which does not touch timer A's state.
LEMMA StoreCrbSound ==
  ASSUME Sound, NEW byte, StoreCrb(byte)
  PROVE  Sound'
<1> DEFINE g == "START" \in byte /\ "START" \notin ctrl.tb
           q == "INMODE_TA" \in byte
           mode == IF q THEN byte \cup {"INMODE"} ELSE byte
           f == IF g THEN 1 ELSE cia.tbt
           a == Toggled(cia, f)
           b == UpdateBoth(a, 0)
           r == IF q THEN ciat_set_alarm(b.ta) ELSE b.ta
           u == ciat_set_alarm(SetCtrl(b.tb, mode))
           t == SetCtrl(chip.tb, mode)
           h == IF g THEN (1 + chip.tb.n) % 2 ELSE chip.tbt
<1>1. Here(cia) /\ cia \in Chips /\ accessed' = TRUE
  BY SoundHere DEF StoreCrb
<1>2. cia' = Ifr(Stored(b, r, u), 0) /\ chip' = [chip EXCEPT !.tbt = h, !.tb = t]
  BY DEF StoreCrb, Toggled, Stored
<1>3. f \in 0 .. 1 /\ (r = b.ta \/ r = ciat_set_alarm(b.ta))
  BY <1>1 DEF Chips
<1>4. Post(cia', 0) /\ RunA(cia, cia')
  <2> HIDE DEF f, mode, r
  <2>1. a = Toggled(cia, f) /\ b = UpdateBoth(a, 0)
        /\ u = ciat_set_alarm(SetCtrl(b.tb, mode))
    OBVIOUS
  <2> HIDE DEF a, b, u
  <2> QED BY <1>1, <1>2, <1>3, <2>1, CrbPost
<1> HIDE DEF g, q, mode
<1>5. /\ chip.tb \in Timers /\ chip.tb.n \in Nat /\ chip.tbt \in 0 .. 1
  BY DEF Sound, Chips, Timers
<1>6. t \in Timers
  BY <1>5, CtrlFacts
<1>7. h \in 0 .. 1
  BY <1>5, Parity
<1> HIDE DEF t, h, a, b, r, u
<1>8. chip' \in Chips /\ chip'.ta = chip.ta /\ chip'.tat = chip.tat
  BY <1>2, <1>6, <1>7 DEF Sound, Chips
<1> QED BY <1>1, <1>4, <1>8, AccessSound, RunShows DEF Sound

\* So does every alarm, however late it runs.
LEMMA DispatchSound ==
  ASSUME Sound, Dispatch
  PROVE  Sound'
<1>1. PICK at \in 0 .. MAX_LATE :
        /\ -at \in Alarms(cia) /\ \A a \in Alarms(cia) : a >= -at
        /\ accessed \/ at > 0
        /\ \/ cia.ta.alarm = -at /\ cia' = Ifr(ciacore_intta(cia, at), at)
           \/ cia.tb.alarm = -at /\ cia' = Ifr(ciacore_inttb(cia, at), at)
           \/ cia.idle = -at /\ cia' = ciacore_idle(cia, at)
  BY DEF Dispatch
<1>2. at \in Nat
  BY CiaAssumption
<1>3. /\ Post(cia, at) /\ cia.ifr_lag >= at - 1
      /\ -at = cia.ta.alarm \/ -at = cia.tb.alarm => cia.ifr_lag >= at
  BY <1>1, <1>2, BehindPost DEF Sound
<1>4. Post(cia', at) /\ RunA(cia, cia') /\ cia'.ifr_lag >= at - 1
  <2>1. CASE cia.ta.alarm = -at /\ cia' = Ifr(ciacore_intta(cia, at), at)
    BY <1>2, <1>3, <2>1, IntTaPost
  <2>2. CASE cia.tb.alarm = -at /\ cia' = Ifr(ciacore_inttb(cia, at), at)
    BY <1>2, <1>3, <2>2, IntTbPost
  <2>3. CASE cia.idle = -at /\ cia' = ciacore_idle(cia, at)
    BY <1>2, <1>3, <2>3, IdlePost
  <2> QED BY <1>1, <2>1, <2>2, <2>3
<1>5. Behind(cia') /\ (at > 0 => AtRest(cia'))
  BY <1>2, <1>4, PostBehind
<1>6. chip' = chip /\ accessed' = accessed
  BY DEF Dispatch
<1> QED BY <1>1, <1>4, <1>5, <1>6, RunShows DEF Sound

\* So does a cycle: what is shown is one cycle further, as in the chip that
\* runs in every cycle.
LEMMA TickSound ==
  ASSUME Sound, Tick
  PROVE  Sound'
<1>1. cia' = Ticked(cia) /\ chip' = Cycle(chip) /\ accessed' = FALSE
  BY DEF Tick, Ticked
<1>2. Behind(cia') /\ AtRest(cia')
  BY <1>1, TickBehind DEF Sound
<1>3. /\ cia \in Chips /\ cia.ta \in Timers /\ cia.tat \in 0 .. 1 /\ chip \in Chips
      /\ chip.ta \in Timers /\ cia.ta.lag \in Nat
  BY DEF Sound, Behind, Chips, Timers
<1>4. cia'.ta = Waited(cia.ta) /\ cia'.tat = cia.tat
  BY <1>1, <1>3, TickedFacts
<1> DEFINE u == Turn(Noted(chip.ta))
<1>5. chip' \in Chips /\ chip'.ta = u /\ chip'.tat = (chip.tat + u.n) % 2
  BY <1>1, <1>3, CycleFacts
<1>6. Shows(Waited(cia.ta), cia.tat, u, (chip.tat + u.n) % 2)
  BY <1>3, ShowsTurn DEF Sound
<1>7. Plain(Waited(cia.ta))
  BY <1>3, WaitedFacts DEF Sound
<1>8. NoStep(u)
  BY <1>3, NotedFacts, TurnBits DEF NoStep
<1> HIDE DEF u
<1> QED BY <1>1, <1>2, <1>4, <1>5, <1>6, <1>7, <1>8 DEF Sound

\* Every step keeps the invariant.
LEMMA NextSound ==
  ASSUME Sound, [Next]_vars
  PROVE  Sound'
<1>1. CASE Tick
  BY <1>1, TickSound
<1>2. CASE NoAccess
  BY <1>2 DEF NoAccess, Sound
<1>3. CASE Dispatch
  BY <1>3, DispatchSound
<1>4. CASE ReadIcr
  BY <1>4, ReadIcrSound
<1>5. CASE \E x \in TimerNames : Read(x)
  BY <1>5, ReadSound
<1>6. CASE \E r \in Written, byte \in 0 .. BYTE - 1 : StoreLatch(r, byte)
  BY <1>6, StoreLatchSound
<1>7. CASE \E byte \in Masks : StoreIcr(byte)
  BY <1>7, StoreIcrSound
<1>8. CASE \E byte \in Cra : StoreCra(byte)
  BY <1>8, StoreCraSound
<1>9. CASE \E byte \in Crb : StoreCrb(byte)
  BY <1>9, StoreCrbSound
<1>10. CASE UNCHANGED vars
  BY <1>10 DEF vars, Sound
<1> QED BY <1>1, <1>2, <1>3, <1>4, <1>5, <1>6, <1>7, <1>8, <1>9, <1>10 DEF Next

\* The inductive invariant holds for every word size, mask and number of late
\* cycles: the timers of ciatimer.c and the toggles of ciacore.c are never
\* further than the alarms let them be, the delay line is run once per cycle,
\* and timer A shows what a chip that runs in every cycle has.
THEOREM CiaSound == Spec => []Sound
<1>1. Init => Sound
  BY InitSound
<1>2. Sound /\ [Next]_vars => Sound'
  BY NextSound
<1> QED BY <1>1, <1>2, PTL DEF Spec

\* "cia_ifr_current() must NOT be called more than once for a cycle!" (the
\* comment of cia_set_irq_flag(), ciacore.c): the delay line is never run twice
\* for a cycle, and never for a cycle before the alarm of a timer.
THEOREM CiaOncePerCycle == Spec => []OncePerCycle
<1>1. Sound => OncePerCycle
  BY DEF Sound, Behind, OncePerCycle
<1> QED BY <1>1, CiaSound, PTL

\* Timer A is exact: the leaps of ciat_update() and the late alarms of
\* ciacore.c show the program what a chip that runs in every cycle has, whatever
\* was written when, and however long nobody looked.
THEOREM CiaTimerA == Spec => []TimerAExact
<1>1. Sound => TimerAExact
  <2> SUFFICES ASSUME Sound, ~accessed, \A a \in Alarms(cia) : a >= 0,
                      NEW seen, seen = UpToDate(cia)
               PROVE  /\ seen.ta.cnt = chip.ta.cnt
                      /\ seen.ta.state \cap {"START", "OUT"} = chip.ta.state \cap {"START", "OUT"}
                      /\ seen.tat = chip.tat
    BY DEF TimerAExact, Looks, Shown
  <2>1. Here(cia)
    BY BehindHere DEF Sound
  <2>2. Post(seen, 0) /\ RunA(cia, seen) /\ seen.ta.lag = 0
    BY <2>1, UpToDatePost
  <2>3. Shows(seen.ta, seen.tat, chip.ta, chip.tat)
    BY <2>2, RunShows DEF Sound
  <2>4. seen.ta \in Timers /\ seen.ta.n = 0 /\ seen.tat \in 0 .. 1
    BY <2>2 DEF Post, Pre, Chips
  <2>5. Same(seen.ta, chip.ta) /\ seen.tat = chip.tat
    BY <2>2, <2>3, <2>4, ZeroLag
  <2> QED BY <2>5 DEF Same
<1> QED BY <1>1, CiaSound, PTL

\* What a cycle leaves of timer B when timer A is a before it.
Driven(a, b) == IF Underflows(a) THEN Step(Turn(b)) ELSE Turn(b)

\* The two timers, and a cycle of both.
Pairs == Timers \X Timers

Beat == [p \in Pairs |-> <<Turn(p[1]), Driven(p[1], p[2])>>]

PairRun(a, b) == CHOOSE f \in [Nat -> Pairs] : IsRun(f, Beat, <<a, b>>)

\* Timer B, k cycles later, when it counts timer A.
Beside(a, b, k) == PairRun(a, b)[k][2]

\* A step taken is no underflow.
LEMMA CountedTimer ==
  ASSUME NEW a \in Timers, NEW b \in Timers
  PROVE  Driven(a, b) \in Timers /\ Driven(a, b).n = Turn(b).n
BY TurnFacts, StepFacts DEF Driven

\* The run of both timers, cycle by cycle.
LEMMA BesideFacts ==
  ASSUME NEW a \in Timers, NEW b \in Timers
  PROVE  /\ Beside(a, b, 0) = b
         /\ \A k \in Nat : Beside(a, b, k) \in Timers
         /\ \A k \in Nat : Beside(a, b, k + 1) = Driven(After(a, k), Beside(a, b, k))
<1>1. <<a, b>> \in Pairs
  BY DEF Pairs
<1>2. Beat \in [Pairs -> Pairs]
  <2>1. ASSUME NEW p \in Pairs
        PROVE  <<Turn(p[1]), Driven(p[1], p[2])>> \in Pairs
    BY CountedTimer, TurnFacts DEF Pairs
  <2> QED BY <2>1 DEF Beat
<1>3. \E f \in [Nat -> Pairs] : IsRun(f, Beat, <<a, b>>)
  BY <1>1, <1>2, Recursion
<1> DEFINE f == PairRun(a, b)
<1>4. f \in [Nat -> Pairs] /\ IsRun(f, Beat, <<a, b>>)
  BY <1>3 DEF PairRun
<1> HIDE DEF f
<1>5. /\ f[0] = <<a, b>> /\ \A k \in Nat : f[k] \in Pairs
      /\ \A k \in Nat : f[k + 1] = Beat[f[k]]
  BY <1>4 DEF IsRun
<1>6. \A k \in Nat : /\ f[k][1] \in Timers /\ f[k][2] \in Timers
                     /\ f[k + 1][1] = Turn(f[k][1])
                     /\ f[k + 1][2] = Driven(f[k][1], f[k][2])
  <2> SUFFICES ASSUME NEW k \in Nat
               PROVE  /\ f[k][1] \in Timers /\ f[k][2] \in Timers
                      /\ f[k + 1][1] = Turn(f[k][1])
                      /\ f[k + 1][2] = Driven(f[k][1], f[k][2])
    OBVIOUS
  <2> DEFINE p == f[k]
  <2>1. p \in Pairs /\ f[k + 1] = Beat[p]
    BY <1>5
  <2> HIDE DEF p
  <2>2. f[k + 1] = <<Turn(p[1]), Driven(p[1], p[2])>>
    BY <2>1 DEF Beat
  <2> QED BY <2>1, <2>2 DEF Pairs, p
<1> DEFINE P == {k \in Nat : f[k][1] = After(a, k)}
<1>7. 0 \in P
  BY <1>5, RunFacts
<1>8. \A k \in Nat : k \in P => k + 1 \in P
  <2> SUFFICES ASSUME NEW k \in Nat, f[k][1] = After(a, k)
               PROVE  f[k + 1][1] = After(a, k + 1)
    OBVIOUS
  <2>1. f[k + 1][1] = Turn(f[k][1])
    BY <1>6
  <2>2. After(a, k + 1) = Turn(After(a, k))
    BY RunFacts
  <2> QED BY <2>1, <2>2
<1>9. Nat \subseteq P
  <2> HIDE DEF P
  <2> QED BY <1>7, <1>8, NatInd
<1>10. \A k \in Nat : f[k][1] = After(a, k)
  BY <1>9
<1>11. \A k : Beside(a, b, k) = f[k][2]
  BY DEF Beside, f
<1>12. Beside(a, b, 0) = b
  BY <1>5, <1>11
<1>13. \A k \in Nat : Beside(a, b, k) \in Timers
  BY <1>6, <1>11
<1>14. \A k \in Nat : Beside(a, b, k + 1) = Driven(After(a, k), Beside(a, b, k))
  BY <1>6, <1>10, <1>11
<1> QED BY <1>12, <1>13, <1>14

\* j + k cycles are j cycles and then k cycles.
LEMMA BesideAdd ==
  ASSUME NEW a \in Timers, NEW b \in Timers, NEW j \in Nat, NEW k \in Nat
  PROVE  Beside(a, b, j + k) = Beside(After(a, j), Beside(a, b, j), k)
<1> DEFINE x == After(a, j)
           y == Beside(a, b, j)
           P == {i \in Nat : Beside(a, b, j + i) = Beside(x, y, i)}
<1>1. x \in Timers /\ y \in Timers
  BY RunFacts, BesideFacts
<1>2. \A i \in Nat : After(a, j + i) = After(x, i)
  BY AfterAdd
<1> HIDE DEF x, y
<1>3. 0 \in P
  <2>1. j + 0 = j
    OBVIOUS
  <2>2. Beside(x, y, 0) = y
    BY <1>1, BesideFacts
  <2>3. Beside(a, b, j) = y
    BY DEF y
  <2> QED BY <2>1, <2>2, <2>3
<1>4. \A i \in Nat : i \in P => i + 1 \in P
  <2> SUFFICES ASSUME NEW i \in Nat, Beside(a, b, j + i) = Beside(x, y, i)
               PROVE  Beside(a, b, j + (i + 1)) = Beside(x, y, i + 1)
    OBVIOUS
  <2>1. Beside(x, y, i + 1) = Driven(After(x, i), Beside(x, y, i))
    BY <1>1, BesideFacts
  <2>2. j + i \in Nat /\ j + (i + 1) = (j + i) + 1
    OBVIOUS
  <2>3. Beside(a, b, (j + i) + 1) = Driven(After(a, j + i), Beside(a, b, j + i))
    BY <2>2, BesideFacts
  <2> QED BY <1>2, <2>1, <2>2, <2>3
<1>5. Nat \subseteq P
  <2> HIDE DEF P
  <2> QED BY <1>3, <1>4, NatInd
<1> QED BY <1>5 DEF x, y

\* As long as timer A does not underflow, timer B goes its own way.
LEMMA BesideQuiet ==
  ASSUME NEW a \in Timers, NEW b \in Timers, NEW k \in Nat, After(a, k).n = a.n
  PROVE  Beside(a, b, k) = After(b, k)
<1> DEFINE P == {i \in Nat : i <= k => Beside(a, b, i) = After(b, i)}
<1>1. 0 \in P
  BY BesideFacts, RunFacts
<1>2. \A i \in Nat : i \in P => i + 1 \in P
  <2> SUFFICES ASSUME NEW i \in Nat, i + 1 <= k, Beside(a, b, i) = After(b, i)
               PROVE  Beside(a, b, i + 1) = After(b, i + 1)
    OBVIOUS
  <2>1. Beside(a, b, i + 1) = Driven(After(a, i), After(b, i))
    BY BesideFacts
  <2>2. /\ After(a, i) \in Timers /\ After(a, i + 1) = Turn(After(a, i))
        /\ After(b, i + 1) = Turn(After(b, i))
    BY RunFacts
  <2>3. ~Underflows(After(a, i))
    <3>1. After(a, i).n <= After(a, i + 1).n /\ After(a, i + 1).n <= After(a, k).n
          /\ After(a, 0).n <= After(a, i).n
      BY AfterGrows
    <3>2. After(a, 0) = a
      BY RunFacts
    <3>6. After(a, i) \in Timers /\ After(a, i + 1) \in Timers /\ a \in Timers
      BY <2>2, TurnFacts
    <3>3. After(a, i).n \in Nat /\ After(a, i + 1).n \in Nat /\ a.n \in Nat
      BY <3>6 DEF Timers
    <3>4. After(a, i + 1).n = After(a, i).n
      BY <3>1, <3>2, <3>3
    <3>5. Turn(After(a, i)).n = IF Underflows(After(a, i)) THEN After(a, i).n + 1 ELSE After(a, i).n
      BY <2>2, TurnFacts
    <3> QED BY <2>2, <3>3, <3>4, <3>5
  <2> QED BY <2>1, <2>2, <2>3 DEF Driven
<1>3. Nat \subseteq P
  <2> HIDE DEF P
  <2> QED BY <1>1, <1>2, NatInd
<1> QED BY <1>3

\* The cycle of the first underflow.
LEMMA FirstUnderflow ==
  ASSUME NEW a \in Timers, NEW k, First(a, k)
  PROVE  k - 1 \in Nat /\ k \in Nat /\ Underflows(After(a, k - 1)) /\ After(a, k - 1) \in Timers
         /\ After(a, k) = Turn(After(a, k - 1)) /\ After(a, k - 1).n = a.n
<1>1. k - 1 \in Nat /\ (k - 1) + 1 = k /\ k \in Nat
  BY DEF First
<1>2. After(a, k - 1) \in Timers /\ After(a, (k - 1) + 1) = Turn(After(a, k - 1))
  BY <1>1, RunFacts
<1>3. After(a, k).n = After(a, k - 1).n + 1
  BY DEF First
<1>4. After(a, k - 1).n \in Nat
  BY <1>2 DEF Timers
<1>5. Turn(After(a, k - 1)).n = IF Underflows(After(a, k - 1)) THEN After(a, k - 1).n + 1
                               ELSE After(a, k - 1).n
  BY <1>2, TurnFacts
<1>6. Underflows(After(a, k - 1))
  BY <1>1, <1>2, <1>3, <1>4, <1>5
<1> QED BY <1>1, <1>2, <1>6 DEF First

\* An underflow of timer A is a step of timer B.
LEMMA BesideFirst ==
  ASSUME NEW a \in Timers, NEW b \in Timers, NEW k, First(a, k)
  PROVE  Beside(a, b, k) = Step(After(b, k))
<1>1. k - 1 \in Nat /\ k \in Nat /\ Underflows(After(a, k - 1)) /\ After(a, k - 1).n = a.n
  BY FirstUnderflow
<1>2. (k - 1) + 1 = k
  BY <1>1
<1>3. Beside(a, b, k - 1) = After(b, k - 1)
  BY <1>1, BesideQuiet
<1>4. Beside(a, b, (k - 1) + 1) = Driven(After(a, k - 1), Beside(a, b, k - 1))
  BY <1>1, BesideFacts
<1>5. After(b, (k - 1) + 1) = Turn(After(b, k - 1))
  BY <1>1, RunFacts
<1> QED BY <1>1, <1>2, <1>3, <1>4, <1>5 DEF Driven

\* Timers that behave alike take a step alike.
LEMMA SameStep ==
  ASSUME NEW s \in Timers, NEW t \in Timers, Same(s, t)
  PROVE  Same(Step(s), Step(t))
<1>1. s.state \ {"COUNT"} = t.state \ {"COUNT"} /\ s.cnt = t.cnt /\ s.latch = t.latch
  BY DEF Same
<1>2. "START" \in s.state <=> "START" \in t.state
  BY <1>1
<1> DEFINE x == Step(s).state
           y == Step(t).state
<1>3. /\ x = IF "START" \in s.state THEN s.state \cup {"STEP"} ELSE s.state
      /\ y = IF "START" \in t.state THEN t.state \cup {"STEP"} ELSE t.state
  BY StepFacts
<1> HIDE DEF x, y
<1>4. x \ {"COUNT"} = y \ {"COUNT"}
  BY <1>1, <1>2, <1>3
<1> QED BY <1>1, <1>4, StepFacts DEF Same, x, y

\* Pairs of timers that behave alike do so a cycle later.
LEMMA SameCounted ==
  ASSUME NEW a \in Timers, NEW c \in Timers, Same(a, c),
         NEW b \in Timers, NEW d \in Timers, Same(b, d)
  PROVE  Same(Driven(a, b), Driven(c, d))
         /\ Driven(a, b).n - b.n = Driven(c, d).n - d.n
<1>1. Underflows(a) <=> Underflows(c)
  BY SameTurn
<1>2. Same(Turn(b), Turn(d)) /\ (Underflows(b) <=> Underflows(d))
  BY SameTurn
<1>3. Turn(b) \in Timers /\ Turn(d) \in Timers
  BY TurnFacts
<1>4. Same(Step(Turn(b)), Step(Turn(d)))
  BY <1>2, <1>3, SameStep
<1>5. Driven(a, b).n = Turn(b).n /\ Driven(c, d).n = Turn(d).n
  BY CountedTimer
<1>6. b.n \in Nat /\ d.n \in Nat
  BY DEF Timers
<1>7. Turn(b).n - b.n = Turn(d).n - d.n
  BY <1>2, <1>6, TurnFacts
<1> QED BY <1>1, <1>2, <1>4, <1>5, <1>7 DEF Driven

\* ... and any number of cycles later.
LEMMA SameBeside ==
  ASSUME NEW a \in Timers, NEW c \in Timers, Same(a, c),
         NEW b \in Timers, NEW d \in Timers, Same(b, d), NEW k \in Nat
  PROVE  Same(Beside(a, b, k), Beside(c, d, k))
         /\ Beside(a, b, k).n - b.n = Beside(c, d, k).n - d.n
<1> DEFINE P == {i \in Nat : /\ Same(Beside(a, b, i), Beside(c, d, i))
                             /\ Beside(a, b, i).n - b.n = Beside(c, d, i).n - d.n}
<1>1. b.n \in Nat /\ d.n \in Nat
  BY DEF Timers
<1>2. 0 \in P
  <2>1. Beside(a, b, 0) = b /\ Beside(c, d, 0) = d
    BY BesideFacts
  <2> QED BY <1>1, <2>1
<1>3. \A i \in Nat : i \in P => i + 1 \in P
  <2> SUFFICES ASSUME NEW i \in Nat, Same(Beside(a, b, i), Beside(c, d, i)),
                      Beside(a, b, i).n - b.n = Beside(c, d, i).n - d.n
               PROVE  /\ Same(Beside(a, b, i + 1), Beside(c, d, i + 1))
                      /\ Beside(a, b, i + 1).n - b.n = Beside(c, d, i + 1).n - d.n
    OBVIOUS
  <2> DEFINE x == Beside(a, b, i)
             y == Beside(c, d, i)
             p == After(a, i)
             q == After(c, i)
  <2>1. /\ x \in Timers /\ y \in Timers
        /\ Beside(a, b, i + 1) = Driven(p, x) /\ Beside(c, d, i + 1) = Driven(q, y)
    BY BesideFacts
  <2>2. p \in Timers /\ q \in Timers /\ Same(p, q)
    BY RunFacts, SameAfter
  <2>3. Same(x, y) /\ x.n - b.n = y.n - d.n
    OBVIOUS
  <2> HIDE DEF x, y, p, q
  <2>4. Same(Driven(p, x), Driven(q, y))
        /\ Driven(p, x).n - x.n = Driven(q, y).n - y.n
    BY <2>1, <2>2, <2>3, SameCounted
  <2>5. x.n \in Nat /\ y.n \in Nat /\ Driven(p, x).n \in Nat /\ Driven(q, y).n \in Nat
    BY <2>1, <2>2, CountedTimer DEF Timers
  <2>6. Driven(p, x).n - b.n = Driven(q, y).n - d.n
    BY <1>1, <2>3, <2>4, <2>5
  <2> QED BY <2>1, <2>4, <2>6
<1>4. Nat \subseteq P
  <2> HIDE DEF P
  <2> QED BY <1>2, <1>3, NatInd
<1> QED BY <1>4

\* What timer B comes to by now, with timer A in state a and its own state b.
\* An alarm of timer A that is due and has not run is a step that timer B has
\* not taken yet.
TbOf(a, b, counts) ==
  IF counts /\ a.alarm <= 0
  THEN Beside(After(a, a.lag + a.alarm), Step(After(b, b.lag + a.alarm)), -a.alarm)
  ELSE Now(b)

\* Timer B, with the toggle g beside a or with the toggle h beside c, comes to
\* the same.
SameTb(a, b, g, c, d, h, counts) ==
  /\ Same(TbOf(a, b, counts), TbOf(c, d, counts))
  /\ (g + TbOf(a, b, counts).n) % 2 = (h + TbOf(c, d, counts).n) % 2

\* What a timer that was brought up to the clock does from there on.
LEMMA KeptAfter ==
  ASSUME NEW s \in Timers, NEW t \in Timers, NEW at \in Nat, s.lag >= at,
         NEW g, NEW h, Kept(s, g, t, h, at), NEW m \in Nat, NEW i, i = s.lag - at + m
  PROVE  /\ i \in Nat /\ Same(After(t, m), After(s, i))
         /\ After(s, i).n = After(s, s.lag - at).n + After(t, m).n
<1> DEFINE j == s.lag - at
<1>1. s.lag \in Int /\ j \in Nat /\ i = j + m /\ i \in Nat
  BY DEF Timers
<1>2. t.n = 0 /\ Same(t, After(s, j))
  BY DEF Kept
<1> HIDE DEF j
<1> DEFINE x == After(s, j)
<1>3. x \in Timers /\ After(s, i) = After(x, m)
  <2>1. x \in Timers
    BY <1>1, RunFacts
  <2>2. After(s, j + m) = After(x, m)
    BY <1>1, AfterAdd
  <2> QED BY <1>1, <2>1, <2>2
<1>4. Same(t, x)
  BY <1>2
<1> HIDE DEF x
<1> DEFINE p == After(t, m)
           q == After(x, m)
<1>5. Same(p, q) /\ p.n - t.n = q.n - x.n
  BY <1>3, <1>4, SameAfter
<1>6. p \in Timers /\ q \in Timers
  BY <1>3, RunFacts
<1> HIDE DEF p, q
<1>7. p.n \in Nat /\ q.n \in Nat /\ x.n \in Nat
  BY <1>3, <1>6 DEF Timers
<1>8. q.n = x.n + p.n
  BY <1>2, <1>5, <1>7
<1> QED BY <1>1, <1>3, <1>5, <1>8 DEF p, q, x, j

\* Timer B is brought up to the clock.
LEMMA TbMoves ==
  ASSUME NEW a \in Timers, NEW b \in Timers, NEW d \in Timers, NEW g \in 0 .. 1, NEW h,
         NEW at \in Nat, a.lag >= at, b.lag >= at, a.alarm >= -at,
         Kept(b, g, d, h, at), NEW counts \in BOOLEAN
  PROVE  SameTb(a, b, g, a, d, h, counts)
<1> DEFINE al == a.alarm
           x == After(b, b.lag - at)
<1>1. a.lag \in Int /\ b.lag \in Int /\ al \in Int /\ d.lag = at /\ b.lag - at \in Nat
  BY DEF Timers, Kept
<1>2. x \in Timers /\ h = (g + x.n) % 2 /\ x.n \in Nat
  <2>1. x \in Timers
    BY <1>1, RunFacts
  <2> QED BY <2>1 DEF Kept, Timers
<1>3. CASE counts /\ al <= 0
  <2> DEFINE m == at + al
             i == b.lag + al
             p == After(b, i)
             q == After(d, m)
             y == After(a, a.lag + al)
  <2>1. m \in Nat /\ i = b.lag - at + m /\ a.lag + al \in Nat /\ -al \in Nat
        /\ d.lag + al = m
    BY <1>1, <1>3
  <2>2. i \in Nat /\ Same(q, p) /\ p.n = x.n + q.n
    BY <2>1, KeptAfter
  <2>3. p \in Timers /\ q \in Timers /\ y \in Timers
    BY <2>1, <2>2, RunFacts
  <2> DEFINE r == Beside(y, Step(p), -al)
             s == Beside(y, Step(q), -al)
  <2>4. TbOf(a, b, counts) = r /\ TbOf(a, d, counts) = s
    BY <1>3, <2>1 DEF TbOf
  <2> HIDE DEF p, q, y, x, m, i
  <2>5. Step(p) \in Timers /\ Step(q) \in Timers /\ Same(Step(q), Step(p))
        /\ Step(p).n = p.n /\ Step(q).n = q.n
    BY <2>2, <2>3, StepFacts, SameStep
  <2>6. Same(y, y)
    BY DEF Same
  <2>7. Same(s, r) /\ s.n - Step(q).n = r.n - Step(p).n /\ s \in Timers /\ r \in Timers
    <3> DEFINE u == Step(p)
               v == Step(q)
               k == -al
    <3>1. u \in Timers /\ v \in Timers /\ Same(v, u) /\ k \in Nat
      BY <2>1, <2>5
    <3> HIDE DEF u, v, k, al
    <3>2. Same(Beside(y, v, k), Beside(y, u, k))
          /\ Beside(y, v, k).n - v.n = Beside(y, u, k).n - u.n
      BY <2>3, <2>6, <3>1, SameBeside
    <3>3. Beside(y, v, k) \in Timers /\ Beside(y, u, k) \in Timers
      BY <2>3, <3>1, BesideFacts
    <3> QED BY <3>2, <3>3 DEF u, v, k
  <2> HIDE DEF r, s
  <2>8. r.n \in Nat /\ s.n \in Nat /\ p.n \in Nat /\ q.n \in Nat
    BY <2>3, <2>7 DEF Timers
  <2>9. r.n = x.n + s.n
    BY <1>2, <2>2, <2>5, <2>7, <2>8
  <2>10. (h + s.n) % 2 = (g + r.n) % 2
    BY <1>2, <2>8, <2>9, Mod2
  <2> QED BY <2>4, <2>7, <2>10 DEF SameTb, Same
<1>4. CASE ~(counts /\ al <= 0)
  <2> DEFINE p == After(b, b.lag)
             q == After(d, at)
  <2>1. b.lag = b.lag - at + at
    BY <1>1
  <2>2. b.lag \in Nat /\ Same(q, p) /\ p.n = x.n + q.n
    BY <2>1, KeptAfter
  <2>3. TbOf(a, b, counts) = p /\ TbOf(a, d, counts) = q
    BY <1>1, <1>4 DEF TbOf, Now
  <2>4. q \in Timers
    BY RunFacts
  <2> HIDE DEF p, q, x
  <2>5. q.n \in Nat
    BY <2>4 DEF Timers
  <2>6. (h + q.n) % 2 = (g + p.n) % 2
    BY <1>2, <2>2, <2>5, Mod2
  <2> QED BY <2>2, <2>3, <2>6 DEF SameTb, Same
<1> QED BY <1>3, <1>4

\* Timer A is brought up to the clock before its alarm.
LEMMA TaMoves ==
  ASSUME NEW a \in Timers, NEW b \in Timers, NEW c \in Timers, NEW g, NEW h, NEW tat,
         NEW at \in Nat, a.lag >= at, b.lag >= at, a.alarm > -at, c.alarm = a.alarm,
         Kept(a, tat, c, h, at), NEW counts \in BOOLEAN
  PROVE  SameTb(a, b, g, c, b, g, counts)
<1> DEFINE al == a.alarm
<1>1. a.lag \in Int /\ b.lag \in Int /\ al \in Int /\ c.lag = at
  BY DEF Timers, Kept
<1>2. CASE counts /\ al <= 0
  <2> DEFINE m == at + al
             p == After(a, a.lag + al)
             q == After(c, m)
             z == Step(After(b, b.lag + al))
  <2>1. m \in Nat /\ a.lag + al = a.lag - at + m /\ -al \in Nat /\ b.lag + al \in Nat
        /\ c.lag + al = m
    BY <1>1, <1>2
  <2>2. a.lag + al \in Nat /\ Same(q, p)
    BY <2>1, KeptAfter
  <2>3. p \in Timers /\ q \in Timers /\ z \in Timers
    BY <2>1, <2>2, RunFacts, StepFacts
  <2> DEFINE r == Beside(p, z, -al)
             s == Beside(q, z, -al)
  <2>4. TbOf(a, b, counts) = r /\ TbOf(c, b, counts) = s
    BY <1>2, <2>1 DEF TbOf
  <2> HIDE DEF p, q, z, m
  <2>5. Same(z, z)
    BY DEF Same
  <2>6. Same(s, r) /\ s.n - z.n = r.n - z.n /\ s \in Timers /\ r \in Timers
    <3> DEFINE k == -al
    <3>1. k \in Nat
      BY <2>1
    <3> HIDE DEF k, al
    <3>2. Same(Beside(q, z, k), Beside(p, z, k))
          /\ Beside(q, z, k).n - z.n = Beside(p, z, k).n - z.n
      BY <2>2, <2>3, <2>5, <3>1, SameBeside
    <3>3. Beside(q, z, k) \in Timers /\ Beside(p, z, k) \in Timers
      BY <2>3, <3>1, BesideFacts
    <3> QED BY <3>2, <3>3 DEF k
  <2> HIDE DEF r, s
  <2>7. r.n \in Nat /\ s.n \in Nat /\ z.n \in Nat
    BY <2>3, <2>6 DEF Timers
  <2>8. r.n = s.n
    BY <2>6, <2>7
  <2> QED BY <2>4, <2>6, <2>8 DEF SameTb, Same
<1>3. CASE ~(counts /\ al <= 0)
  <2>1. TbOf(a, b, counts) = Now(b) /\ TbOf(c, b, counts) = Now(b)
    BY <1>1, <1>3 DEF TbOf
  <2> QED BY <2>1 DEF SameTb, Same
<1> QED BY <1>2, <1>3

\* An alarm that is still to come stays the clock of the next underflow.
LEMMA AlarmMove ==
  ASSUME NEW s \in Timers, NEW t \in Timers, NEW at \in Nat, s.lag >= at,
         NEW g, NEW h, Kept(s, g, t, h, at), NEW al \in Int, AlarmOf(s, al), al > -at
  PROVE  AlarmOf(t, al)
<1> DEFINE j == s.lag - at
           x == After(s, j)
<1>1. s.lag \in Int /\ j \in Nat /\ t.lag = at /\ t.n = 0 /\ x \in Timers
  <2>1. s.lag \in Int /\ j \in Nat /\ t.lag = at /\ t.n = 0
    BY DEF Timers, Kept
  <2> QED BY <2>1, RunFacts
<1>2. \A m \in Nat : /\ j + m \in Nat /\ After(t, m) \in Timers
                     /\ After(s, j + m).n = x.n + After(t, m).n
  <2> SUFFICES ASSUME NEW m \in Nat
               PROVE  /\ j + m \in Nat /\ After(t, m) \in Timers
                      /\ After(s, j + m).n = x.n + After(t, m).n
    OBVIOUS
  <2> DEFINE i == j + m
  <2>1. i = s.lag - at + m
    BY <1>1
  <2> HIDE DEF i, j
  <2>2. /\ i \in Nat
        /\ After(s, i).n = After(s, s.lag - at).n + After(t, m).n
    BY <2>1, KeptAfter
  <2> QED BY <2>2, RunFacts DEF i, j
<1>3. x.n \in Nat /\ s.n \in Nat /\ x.n >= s.n
  BY <1>1, AfterKeeps DEF Timers
<1>4. CASE al = NEVER /\ Silent(s)
  <2>1. ASSUME NEW m \in Nat PROVE After(t, m).n = t.n
    <3> DEFINE y == After(t, m)
    <3>1. After(s, j + m).n = x.n + y.n /\ y \in Timers /\ j + m \in Nat
      BY <1>2
    <3>2. After(s, j + m).n = s.n /\ x.n = s.n
      BY <1>1, <1>4, <3>1 DEF Silent
    <3> HIDE DEF y, x, j
    <3>3. y.n \in Nat
      BY <3>1 DEF Timers
    <3>4. y.n = 0
      BY <1>3, <3>1, <3>2, <3>3
    <3> QED BY <1>1, <3>4 DEF y
  <2> QED BY <1>4, <2>1 DEF AlarmOf, Silent
<1>5. ASSUME NEW k \in Nat, First(s, k), al = k - s.lag, k <= WORD + 4
      PROVE  AlarmOf(t, al)
  <2> DEFINE m == k - j
  <2>1. m \in Nat /\ m - 1 \in Nat /\ m # 0 /\ j + m = k /\ j + (m - 1) = k - 1 /\ al = m - at
        /\ m <= WORD + 4
    BY <1>1, <1>5, WordFacts
  <2>2. After(s, k - 1).n = s.n /\ After(s, k).n = s.n + 1
    BY <1>5 DEF First
  <2>3. x.n <= After(s, k - 1).n
    <3>1. j <= k - 1 /\ k - 1 \in Nat
      BY <1>1, <2>1
    <3> QED BY <1>1, <3>1, AfterGrows
  <2> DEFINE y == After(t, m)
             z == After(t, m - 1)
  <2> HIDE DEF m
  <2>4. /\ After(s, j + m).n = x.n + y.n /\ y \in Timers
        /\ After(s, j + (m - 1)).n = x.n + z.n /\ z \in Timers
    BY <1>2, <2>1
  <2> HIDE DEF x, y, z, j
  <2>5. y.n \in Nat /\ z.n \in Nat
    BY <2>4 DEF Timers
  <2>6. z.n = 0 /\ y.n = 1
    BY <1>3, <2>1, <2>2, <2>3, <2>4, <2>5
  <2>7. First(t, m)
    BY <1>1, <2>1, <2>6 DEF First, y, z
  <2> QED BY <1>1, <2>1, <2>7 DEF AlarmOf
<1> QED BY <1>4, <1>5 DEF AlarmOf

\* Both timers are at the clock, and timer A has its alarm ahead.
LEMMA Onward ==
  ASSUME NEW a \in Timers, NEW b \in Timers, NEW at \in Nat, a.lag = at, b.lag = at,
         AlarmOf(a, a.alarm), a.alarm > -at
  PROVE  TbOf(a, b, TRUE) = Beside(a, b, at)
<1> DEFINE al == a.alarm
<1>1. al \in Int /\ a.n \in Nat
  BY DEF Timers
<1>2. CASE al <= 0
  <2>1. al # NEVER
    BY <1>1, <1>2, WordFacts
  <2>2. PICK k \in Nat : First(a, k) /\ al = k - at
    BY <2>1 DEF AlarmOf
  <2>3. at + al = k /\ -al \in Nat /\ k + (-al) = at
    BY <1>1, <1>2, <2>2
  <2>4. TbOf(a, b, TRUE) = Beside(After(a, k), Step(After(b, k)), -al)
    BY <1>2, <2>3 DEF TbOf
  <2>5. Beside(a, b, k) = Step(After(b, k))
    BY <2>2, BesideFirst
  <2> HIDE DEF al
  <2> DEFINE j == -al
  <2>6. j \in Nat /\ k + j = at
    BY <2>3
  <2>7. TbOf(a, b, TRUE) = Beside(After(a, k), Beside(a, b, k), j)
    BY <2>4, <2>5
  <2> HIDE DEF j
  <2>8. Beside(a, b, k + j) = Beside(After(a, k), Beside(a, b, k), j)
    BY <2>6, BesideAdd
  <2>9. TbOf(a, b, TRUE) = Beside(a, b, k + j)
    BY <2>7, <2>8
  <2> DEFINE i == k + j
  <2>10. i = at /\ TbOf(a, b, TRUE) = Beside(a, b, i)
    BY <2>6, <2>9
  <2> HIDE DEF i
  <2> QED BY <2>10
<1>3. CASE ~(al <= 0)
  <2>0. al > 0
    BY <1>1, <1>3
  <2>1. TbOf(a, b, TRUE) = After(b, at)
    BY <1>1, <1>3 DEF TbOf, Now
  <2>2. After(a, at).n = a.n
    <3>1. CASE Silent(a)
      BY <3>1 DEF Silent
    <3>2. ASSUME NEW k \in Nat, First(a, k), al = k - at PROVE After(a, at).n = a.n
      <4>1. at <= k - 1 /\ k - 1 \in Nat
        BY <1>1, <2>0, <3>2
      <4>2. After(a, at).n <= After(a, k - 1).n
        BY <4>1, AfterGrows
      <4>3. After(a, k - 1).n = a.n
        BY <3>2 DEF First
      <4>4. After(a, at) \in Timers /\ After(a, at).n >= a.n
        BY AfterKeeps
      <4>5. After(a, at).n \in Nat
        BY <4>4 DEF Timers
      <4> QED BY <1>1, <4>2, <4>3, <4>4, <4>5
    <3> QED BY <3>1, <3>2 DEF AlarmOf
  <2> QED BY <2>1, <2>2, BesideQuiet
<1> QED BY <1>2, <1>3

\* The alarm of timer A runs: timer B takes its step.
LEMMA TaUnderflown ==
  ASSUME NEW a \in Timers, NEW b \in Timers, NEW c \in Timers, NEW d \in Timers,
         NEW g \in 0 .. 1, NEW h, NEW f, NEW e,
         NEW at \in Nat, a.lag >= at, b.lag >= at, a.alarm = -at,
         Kept(a, f, c, e, at), Stepped(b, g, d, h, at),
         AlarmOf(c, c.alarm), c.alarm > -at
  PROVE  SameTb(a, b, g, c, d, h, TRUE)
<1> DEFINE y == After(a, a.lag - at)
           x == After(b, b.lag - at)
<1>1. /\ a.lag \in Int /\ b.lag \in Int /\ a.lag - at \in Nat /\ b.lag - at \in Nat
      /\ c.lag = at /\ d.lag = at /\ d.n = 0
  BY DEF Timers, Kept, Stepped
<1>2. x \in Timers /\ y \in Timers
  BY <1>1, RunFacts
<1>3. Same(c, y) /\ Same(d, Step(x)) /\ h = (g + x.n) % 2
  BY DEF Kept, Stepped
<1>4. TbOf(c, d, TRUE) = Beside(c, d, at)
  BY <1>1, Onward
<1>5. a.alarm <= 0 /\ a.lag + a.alarm = a.lag - at /\ b.lag + a.alarm = b.lag - at
      /\ -a.alarm = at
  BY <1>1
<1>6. TbOf(a, b, TRUE) = Beside(y, Step(x), at)
  BY <1>5 DEF TbOf
<1> HIDE DEF x, y
<1>7. Step(x) \in Timers /\ Step(x).n = x.n
  BY <1>2, StepFacts
<1> DEFINE z == Step(x)
<1>8. z \in Timers /\ z.n = x.n /\ Same(d, z)
  BY <1>3, <1>7
<1> HIDE DEF z
<1> DEFINE r == Beside(y, z, at)
           s == Beside(c, d, at)
<1>9. Same(s, r) /\ s.n - d.n = r.n - z.n /\ s \in Timers /\ r \in Timers
  <2>1. Same(Beside(c, d, at), Beside(y, z, at))
        /\ Beside(c, d, at).n - d.n = Beside(y, z, at).n - z.n
    BY <1>2, <1>3, <1>8, SameBeside
  <2>2. Beside(c, d, at) \in Timers /\ Beside(y, z, at) \in Timers
    BY <1>2, <1>8, BesideFacts
  <2> QED BY <2>1, <2>2
<1>10. TbOf(a, b, TRUE) = r /\ TbOf(c, d, TRUE) = s
  BY <1>4, <1>6 DEF z
<1> HIDE DEF r, s
<1>11. r.n \in Nat /\ s.n \in Nat /\ x.n \in Nat
  BY <1>2, <1>9 DEF Timers
<1>12. r.n = x.n + s.n
  BY <1>1, <1>8, <1>9, <1>11
<1>13. (h + s.n) % 2 = (g + r.n) % 2
  BY <1>3, <1>11, <1>12, Mod2
<1> QED BY <1>9, <1>10, <1>13 DEF SameTb, Same

\* A timer that has just underflown underflows again only if it runs on.
LEMMA JustUnderflown ==
  ASSUME NEW s \in Timers, NEW t \in Timers, NEW at \in Nat, s.lag >= at,
         NEW g, NEW h, Kept(s, g, t, h, at), AlarmOf(s, -at)
  PROVE  \/ Silent(t)
         \/ "START" \in t.state /\ "PHI2IN" \in t.state /\ "CR_ONESHOT" \notin t.state
<1>1. PICK k \in Nat : First(s, k) /\ -at = k - s.lag
  BY WordFacts DEF AlarmOf
<1>2. s.lag \in Int /\ k = s.lag - at
  BY <1>1 DEF Timers
<1>3. Same(t, After(s, k))
  BY <1>2 DEF Kept
<1> DEFINE u == After(s, k - 1)
           v == Turn(u)
<1>4. u \in Timers /\ Underflows(u) /\ After(s, k) = v
  BY <1>1, FirstUnderflow
<1> HIDE DEF u
<1>5. v \in Timers
  BY <1>4, TurnFacts
<1>6. /\ "START" \in v.state <=> "START" \in u.state /\ ~Ends(u)
      /\ "CR_ONESHOT" \in v.state <=> "CR_ONESHOT" \in u.state
      /\ "PHI2IN" \in v.state <=> "PHI2IN" \in u.state
      /\ "COUNT2" \in v.state <=> "START" \in u.state /\ "PHI2IN" \in u.state /\ ~Ends(u)
      /\ "COUNT3" \in v.state <=> Counts(u.state) /\ ~Loads(u)
      /\ "STEP" \notin v.state
  BY <1>4, TurnBits
<1>7. Loads(u)
  BY <1>4 DEF Loads
<1>8. "CR_ONESHOT" \in u.state => Ends(u)
  BY <1>4 DEF Ends
<1> HIDE DEF v
<1>9. Same(t, v)
  BY <1>3, <1>4
<1>10. /\ "START" \in t.state <=> "START" \in v.state
       /\ "CR_ONESHOT" \in t.state <=> "CR_ONESHOT" \in v.state
       /\ "PHI2IN" \in t.state <=> "PHI2IN" \in v.state
       /\ "COUNT2" \in t.state <=> "COUNT2" \in v.state
       /\ "COUNT3" \in t.state <=> "COUNT3" \in v.state
       /\ "STEP" \in t.state <=> "STEP" \in v.state
  BY <1>5, <1>9, SameBits DEF Same
<1>11. CASE "START" \in t.state /\ "PHI2IN" \in t.state
  BY <1>6, <1>8, <1>10, <1>11
<1>12. CASE ~("START" \in t.state /\ "PHI2IN" \in t.state)
  <2>1. Resting(t.state)
    BY <1>6, <1>7, <1>10, <1>12 DEF Resting
  <2> QED BY <2>1, StoppedSilent
<1> QED BY <1>11, <1>12

\* t is s after some cycles: a timer can only have stopped.
Within(s, t) ==
  /\ "START" \in t.state => "START" \in s.state
  /\ "CR_ONESHOT" \in t.state <=> "CR_ONESHOT" \in s.state
  /\ "PHI2IN" \in t.state <=> "PHI2IN" \in s.state

\* A timer that runs keeps its mode, and does not start by itself.
LEMMA WithinAfter ==
  ASSUME NEW s \in Timers, NEW k \in Nat
  PROVE  Within(s, After(s, k))
<1> DEFINE P == {i \in Nat : Within(s, After(s, i))}
<1>1. 0 \in P
  BY RunFacts DEF Within
<1>2. \A i \in Nat : i \in P => i + 1 \in P
  <2> SUFFICES ASSUME NEW i \in Nat, Within(s, After(s, i))
               PROVE  Within(s, After(s, i + 1))
    OBVIOUS
  <2> DEFINE u == After(s, i)
  <2>1. u \in Timers /\ After(s, i + 1) = Turn(u) /\ Within(s, u)
    BY RunFacts
  <2> HIDE DEF u
  <2>2. /\ "START" \in Turn(u).state => "START" \in u.state
        /\ "CR_ONESHOT" \in Turn(u).state <=> "CR_ONESHOT" \in u.state
        /\ "PHI2IN" \in Turn(u).state <=> "PHI2IN" \in u.state
    BY <2>1, TurnBits
  <2> QED BY <2>1, <2>2 DEF Within
<1>3. Nat \subseteq P
  <2> HIDE DEF P
  <2> QED BY <1>1, <1>2, NatInd
<1> QED BY <1>3

\* A step that is pending does not outlast a cycle.
LEMMA PlainAfter ==
  ASSUME NEW s \in Timers, NEW k \in Nat, Plain(s)
  PROVE  Plain(After(s, k))
<1>1. CASE k = 0
  BY <1>1, RunFacts
<1>2. CASE k # 0
  <2>1. k - 1 \in Nat /\ (k - 1) + 1 = k
    BY <1>2
  <2>2. After(s, k - 1) \in Timers /\ After(s, (k - 1) + 1) = Turn(After(s, k - 1))
    BY <2>1, RunFacts
  <2>3. "STEP" \notin After(s, k).state
    BY <2>1, <2>2, TurnBits
  <2> QED BY <2>3 DEF Plain
<1> QED BY <1>1, <1>2

\* The same of a timer that was brought up to date ...
LEMMA KeptWithin ==
  ASSUME NEW s \in Timers, NEW t \in Timers, NEW at \in Nat, s.lag >= at,
         NEW g, NEW h, Kept(s, g, t, h, at)
  PROVE  Within(s, t)
<1>1. s.lag - at \in Nat
  BY DEF Timers
<1> DEFINE b == After(s, s.lag - at)
<1>2. Same(t, b) /\ b \in Timers /\ Within(s, b)
  BY <1>1, RunFacts, WithinAfter DEF Kept
<1> HIDE DEF b
<1> QED BY <1>2, SameBits DEF Same, Within

\* ... and of one that has taken a step.
LEMMA SteppedWithin ==
  ASSUME NEW s \in Timers, NEW t \in Timers, NEW at \in Nat, s.lag >= at, Plain(s),
         NEW g, NEW h, Stepped(s, g, t, h, at), "PHI2IN" \notin s.state
  PROVE  Within(s, t) /\ Plain(t)
<1>1. s.lag - at \in Nat
  BY DEF Timers
<1> DEFINE b == After(s, s.lag - at)
           x == Step(b)
<1>2. Same(t, x) /\ b \in Timers /\ Within(s, b) /\ Plain(b)
  BY <1>1, RunFacts, WithinAfter, PlainAfter DEF Stepped
<1> HIDE DEF b
<1>3. x \in Timers /\ x.state = IF "START" \in b.state THEN b.state \cup {"STEP"} ELSE b.state
  BY <1>2, StepFacts
<1> HIDE DEF x
<1>4. /\ "START" \in x.state <=> "START" \in b.state
      /\ "CR_ONESHOT" \in x.state <=> "CR_ONESHOT" \in b.state
      /\ "PHI2IN" \in x.state <=> "PHI2IN" \in b.state
      /\ "STEP" \in x.state => "START" \in b.state
  BY <1>2, <1>3 DEF Plain
<1>5. /\ "START" \in t.state <=> "START" \in x.state
      /\ "CR_ONESHOT" \in t.state <=> "CR_ONESHOT" \in x.state
      /\ "PHI2IN" \in t.state <=> "PHI2IN" \in x.state
      /\ "STEP" \in t.state <=> "STEP" \in x.state
  BY <1>2, <1>3, SameBits DEF Same
<1> QED BY <1>2, <1>4, <1>5 DEF Within, Plain

\* Timer B is running and counts timer A.
CountsBy(k) == {"START", "INMODE_TA"} \subseteq k.tb

\* What the control register of timer A, and of timer B, says of the timer and
\* of its alarm.
RuledA(s, k) ==
  /\ Plain(s)
  /\ "START" \in s.state => "START" \in k.ta
  /\ "CR_ONESHOT" \in k.ta => "CR_ONESHOT" \in s.state
  /\ "INMODE" \in k.ta => "PHI2IN" \notin s.state
  /\ CountsBy(k) => AlarmOf(s, s.alarm)

RuledB(s, k) ==
  /\ Plain(s)
  /\ "START" \in s.state => "START" \in k.tb
  /\ "INMODE_TA" \in k.tb => "PHI2IN" \notin s.state
  /\ "START" \notin k.tb => AlarmOf(s, s.alarm)

Ruled(c, k) == RuledA(c.ta, k) /\ RuledB(c.tb, k)

RunB(c, d, k) == SameTb(c.ta, c.tb, c.tbt, d.ta, d.tb, d.tbt, CountsBy(k))

HoldsB(c, d) == Ruled(c, ctrl) => Ruled(d, ctrl) /\ RunB(c, d, ctrl)

\* HoldsB is transitive.
LEMMA HoldsBTrans ==
  ASSUME NEW c, NEW d, NEW e, HoldsB(c, d), HoldsB(d, e)
  PROVE  HoldsB(c, e)
BY DEF HoldsB, RunB, SameTb, Same

\* What leaves the timers alone leaves alone what timer B comes to.
LEMMA HoldsBSame ==
  ASSUME NEW c, NEW d, SameTimers(c, d)
  PROVE  HoldsB(c, d)
BY DEF HoldsB, RunB, SameTb, Same, SameTimers, Ruled

\* The control register stays true of timer A ...
LEMMA WithinA ==
  ASSUME NEW s, NEW t, NEW k, RuledA(s, k), Within(s, t), Plain(t),
         CountsBy(k) => AlarmOf(t, t.alarm)
  PROVE  RuledA(t, k)
BY DEF RuledA, Within

\* ... and of timer B.
LEMMA WithinB ==
  ASSUME NEW s, NEW t, NEW k, RuledB(s, k), Within(s, t), Plain(t),
         "START" \notin k.tb => AlarmOf(t, t.alarm)
  PROVE  RuledB(t, k)
BY DEF RuledB, Within

\* Timer B counts timer A.
LEMMA CountsCtrl == CountsTa <=> CountsBy(ctrl)
BY DEF CountsTa, CountsBy

\* What is known of the timers of a chip.
LEMMA PreTimers ==
  ASSUME NEW c, NEW at \in Nat, Pre(c, at)
  PROVE  /\ c.ta \in Timers /\ c.tb \in Timers /\ c.ta.lag \in Nat /\ c.tb.lag \in Nat
         /\ c.ta.alarm \in Int /\ c.tb.alarm \in Int /\ c.ta.lag >= at /\ c.tb.lag >= at
         /\ c.ta.n = 0 /\ c.tb.n = 0 /\ c.ta.alarm >= -at /\ c.tb.alarm >= -at
         /\ c.tat \in 0 .. 1 /\ c.tbt \in 0 .. 1
<1>1. c \in Chips
  BY DEF Pre
<1>2. c.ta \in Timers /\ c.tb \in Timers /\ c.tat \in 0 .. 1 /\ c.tbt \in 0 .. 1
  BY <1>1 DEF Chips
<1>3. c.ta.lag >= at /\ c.tb.lag >= at
  BY DEF Pre
<1> QED BY <1>2, <1>3 DEF Pre, Timers

\* The alarm of timer A runs.
LEMMA TaDue ==
  ASSUME NEW c, NEW at \in Nat, Pre(c, at), NEW d, Pre(d, at), Ruled(c, ctrl),
         c.ta.alarm = -at, Plain(d.ta), Kept(c.ta, c.tat, d.ta, d.tat, at),
         Coming(d.ta, at),
         ~CountsTa => d.tb = c.tb /\ d.tbt = c.tbt,
         CountsTa => /\ TaRuns => AlarmOf(d.ta, d.ta.alarm)
                     /\ ~TaRuns => d.ta.alarm = NEVER
                     /\ Plain(c.tb) => Stepped(c.tb, c.tbt, d.tb, d.tbt, at)
  PROVE  Ruled(d, ctrl) /\ RunB(c, d, ctrl)
<1> DEFINE a == c.ta
           b == c.tb
           p == d.ta
           q == d.tb
<1>1. /\ a \in Timers /\ b \in Timers /\ p \in Timers /\ q \in Timers
      /\ a.lag >= at /\ b.lag >= at /\ c.tbt \in 0 .. 1
      /\ a.alarm = -at /\ a.alarm \in Int /\ p.alarm \in Int
  BY PreTimers
<1>2. Kept(a, c.tat, p, d.tat, at) /\ Plain(p) /\ p.alarm > -at
  BY DEF Coming
<1>3. RuledA(a, ctrl) /\ RuledB(b, ctrl)
  BY DEF Ruled
<1>4. Within(a, p)
  BY <1>1, <1>2, KeptWithin
<1>5. CASE ~CountsTa
  <2>1. q = b /\ d.tbt = c.tbt /\ ~CountsBy(ctrl)
    BY <1>5, CountsCtrl
  <2>2. RuledA(p, ctrl)
    BY <1>2, <1>3, <1>4, <2>1, WithinA
  <2>3. TbOf(a, b, CountsBy(ctrl)) = Now(b) /\ TbOf(p, q, CountsBy(ctrl)) = Now(b)
    BY <2>1 DEF TbOf
  <2> QED BY <1>3, <2>1, <2>2, <2>3 DEF Ruled, RunB, SameTb, Same
<1>6. CASE CountsTa
  <2>1. CountsBy(ctrl) /\ (CountsBy(ctrl) = TRUE)
    BY <1>6, CountsCtrl DEF CountsBy
  <2>2. "START" \in ctrl.tb /\ "INMODE_TA" \in ctrl.tb
    BY <2>1 DEF CountsBy
  <2>3. Plain(b) /\ "PHI2IN" \notin b.state /\ AlarmOf(a, -at)
    BY <1>1, <1>3, <2>1, <2>2 DEF RuledA, RuledB
  <2>4. Stepped(b, c.tbt, q, d.tbt, at)
    BY <1>6, <2>3
  <2>5. Within(b, q) /\ Plain(q)
    BY <1>1, <2>3, <2>4, SteppedWithin
  <2>6. RuledB(q, ctrl)
    BY <1>3, <2>2, <2>5, WithinB
  <2>7. AlarmOf(p, p.alarm)
    <3>1. CASE TaRuns
      BY <1>6, <3>1
    <3>2. CASE ~TaRuns
      <4>1. p.alarm = NEVER
        BY <1>6, <3>2
      <4>2. Silent(p) \/ ("START" \in p.state /\ "PHI2IN" \in p.state /\ "CR_ONESHOT" \notin p.state)
        BY <1>1, <1>2, <2>3, JustUnderflown
      <4>3. "START" \in p.state => "START" \in ctrl.ta
        BY <1>3, <1>4 DEF RuledA, Within
      <4>4. "CR_ONESHOT" \in ctrl.ta => "CR_ONESHOT" \in p.state
        BY <1>3, <1>4 DEF RuledA, Within
      <4>5. "INMODE" \in ctrl.ta => "PHI2IN" \notin p.state
        BY <1>3, <1>4 DEF RuledA, Within
      <4>6. "START" \notin ctrl.ta \/ "CR_ONESHOT" \in ctrl.ta \/ "INMODE" \in ctrl.ta
        BY <3>2 DEF TaRuns
      <4> QED BY <4>1, <4>2, <4>3, <4>4, <4>5, <4>6 DEF AlarmOf
    <3> QED BY <3>1, <3>2
  <2>8. RuledA(p, ctrl)
    BY <1>2, <1>3, <1>4, <2>7, WithinA
  <2>9. SameTb(a, b, c.tbt, p, q, d.tbt, TRUE)
    BY <1>1, <1>2, <2>4, <2>7, TaUnderflown
  <2> QED BY <2>1, <2>6, <2>8, <2>9 DEF Ruled, RunB
<1> QED BY <1>5, <1>6

\* cia_update_ta() leaves alone what timer B comes to.
LEMMA UpdTaB ==
  ASSUME NEW c, NEW at \in Nat, Pre(c, at)
  PROVE  HoldsB(c, cia_update_ta(c, at))
<1> SUFFICES ASSUME Ruled(c, ctrl), NEW d, d = cia_update_ta(c, at)
             PROVE  Ruled(d, ctrl) /\ RunB(c, d, ctrl)
  BY DEF HoldsB
<1>1. Plain(c.ta) /\ Plain(c.tb) /\ RuledA(c.ta, ctrl) /\ RuledB(c.tb, ctrl)
  BY DEF Ruled, RuledA, RuledB
<1>2. /\ Upd(c, d, at) /\ d.ta.lag = at /\ Coming(d.ta, at)
      /\ Kept(c.ta, c.tat, d.ta, d.tat, at)
      /\ ~CountsTa => d.tb = c.tb /\ d.tbt = c.tbt
      /\ Coming(c.ta, at) => /\ d.tb = c.tb /\ d.tbt = c.tbt
                             /\ d.ta.alarm = c.ta.alarm
      /\ CountsTa /\ ~Coming(c.ta, at) =>
           /\ TaRuns => AlarmOf(d.ta, d.ta.alarm)
           /\ ~TaRuns => d.ta.alarm = NEVER
           /\ Plain(c.tb) => Stepped(c.tb, c.tbt, d.tb, d.tbt, at)
  BY <1>1, UpdTa
<1>3. Pre(d, at) /\ Plain(d.ta)
  BY <1>1, <1>2 DEF Upd
<1>4. CASE ~Coming(c.ta, at)
  <2>1. c.ta.alarm = -at
    BY <1>4, PreTimers DEF Coming
  <2> QED BY <1>2, <1>3, <1>4, <2>1, TaDue
<1>5. CASE Coming(c.ta, at)
  <2> DEFINE a == c.ta
             p == d.ta
             b == c.tb
  <2>1. /\ a \in Timers /\ b \in Timers /\ p \in Timers /\ a.lag >= at /\ b.lag >= at
        /\ a.alarm \in Int /\ a.alarm > -at /\ p.alarm = a.alarm
        /\ Kept(a, c.tat, p, d.tat, at) /\ d.tb = b /\ d.tbt = c.tbt
    BY <1>2, <1>3, <1>5, PreTimers DEF Coming
  <2>2. Within(a, p)
    BY <2>1, KeptWithin
  <2>3. CountsBy(ctrl) => AlarmOf(p, p.alarm)
    BY <1>1, <2>1, AlarmMove DEF RuledA
  <2>4. RuledA(p, ctrl)
    BY <1>1, <1>3, <2>2, <2>3, WithinA
  <2>5. CountsBy(ctrl) \in BOOLEAN
    BY DEF CountsBy
  <2>6. SameTb(a, b, c.tbt, p, b, c.tbt, CountsBy(ctrl))
    <3> DEFINE k == CountsBy(ctrl)
               al == p.alarm
    <3> HIDE DEF k, a, b, p
    <3> QED BY <2>1, <2>5, TaMoves DEF k
  <2> QED BY <1>1, <2>1, <2>4, <2>6 DEF Ruled, RunB
<1> QED BY <1>4, <1>5

\* So does the alarm of timer A.
LEMMA IntTaB ==
  ASSUME NEW c, NEW at \in Nat, Pre(c, at), c.ifr_lag >= at, c.ta.alarm = -at
  PROVE  HoldsB(c, ciacore_intta(c, at))
<1>1. c.ta.alarm <= -at
  OBVIOUS
<1>2. cia_update_ta(c, at) = ciacore_intta(c, at)
  BY <1>1 DEF cia_update_ta
<1> QED BY <1>2, UpdTaB

\* Timer B is brought up to the clock, and its alarm runs if it is due.
LEMMA TbSide ==
  ASSUME NEW c, NEW at \in Nat, Pre(c, at), NEW d, Pre(d, at), Ruled(c, ctrl),
         d.ta = c.ta, Plain(d.tb), Kept(c.tb, c.tbt, d.tb, d.tbt, at),
         "START" \notin ctrl.tb => \/ Coming(c.tb, at) /\ d.tb.alarm = c.tb.alarm
                                   \/ ~Coming(c.tb, at) /\ d.tb.alarm = NEVER
  PROVE  Ruled(d, ctrl) /\ RunB(c, d, ctrl)
<1> DEFINE a == c.ta
           b == c.tb
           q == d.tb
<1>1. /\ a \in Timers /\ b \in Timers /\ q \in Timers /\ a.lag >= at /\ b.lag >= at
      /\ a.alarm >= -at /\ b.alarm \in Int /\ b.alarm >= -at
      /\ c.tbt \in 0 .. 1
  BY PreTimers
<1>2. Kept(b, c.tbt, q, d.tbt, at)
  OBVIOUS
<1>3. RuledA(a, ctrl) /\ RuledB(b, ctrl)
  BY DEF Ruled
<1>4. Within(b, q)
  BY <1>1, <1>2, KeptWithin
<1>5. ASSUME "START" \notin ctrl.tb PROVE AlarmOf(q, q.alarm)
  <2>1. AlarmOf(b, b.alarm) /\ "START" \notin b.state
    BY <1>3, <1>5 DEF RuledB
  <2>2. CASE Coming(b, at) /\ q.alarm = b.alarm
    <3>1. b.alarm > -at
      BY <2>2 DEF Coming
    <3>2. AlarmOf(q, b.alarm)
      BY <1>1, <1>2, <2>1, <3>1, AlarmMove
    <3> QED BY <2>2, <3>2
  <2>3. CASE ~Coming(b, at) /\ q.alarm = NEVER
    <3>1. b.alarm = -at
      BY <1>1, <2>3 DEF Coming
    <3>2. AlarmOf(b, -at)
      BY <2>1, <3>1
    <3>3. Silent(q) \/ "START" \in q.state
      BY <1>1, <1>2, <3>2, JustUnderflown
    <3>4. Silent(q)
      BY <1>4, <2>1, <3>3 DEF Within
    <3> QED BY <2>3, <3>4 DEF AlarmOf
  <2> QED BY <1>5, <2>2, <2>3
<1>6. RuledB(q, ctrl)
  BY <1>3, <1>4, <1>5, WithinB
<1>7. CountsBy(ctrl) \in BOOLEAN
  BY DEF CountsBy
<1>8. SameTb(a, b, c.tbt, a, q, d.tbt, CountsBy(ctrl))
  <2> DEFINE k == CountsBy(ctrl)
  <2> HIDE DEF k, a, b, q
  <2> QED BY <1>1, <1>2, <1>7, TbMoves DEF k
<1> QED BY <1>3, <1>6, <1>8 DEF Ruled, RunB

\* The alarm of a stopped timer B sets no other.
LEMMA IntTbAlarm ==
  ASSUME NEW c, NEW at \in Nat, Pre(c, at), "START" \notin ctrl.tb
  PROVE  ciacore_inttb(c, at).tb.alarm = NEVER
<1> DEFINE b == cia_do_update_tb(c, at)
           t == ciat_ack_alarm(b.tb)
<1>1. ~TbNeedsAlarm
  BY DEF TbNeedsAlarm
<1>2. ciacore_inttb(c, at) = [b EXCEPT !.tb = t]
  BY <1>1 DEF ciacore_inttb
<1>3. Upd(c, b, at)
  BY UpdateTbOnly
<1> HIDE DEF b
<1>4. b \in Chips /\ b.tb \in Timers
  BY <1>3 DEF Upd, Pre, Chips
<1>5. t.alarm = NEVER /\ t \in Timers
  BY <1>4, AckFacts DEF Alarmed
<1> HIDE DEF t
<1> QED BY <1>2, <1>4, <1>5, SetFacts DEF SetTb

\* The alarm of timer B leaves alone what timer B comes to.
LEMMA IntTbB ==
  ASSUME NEW c, NEW at \in Nat, Pre(c, at), c.ifr_lag >= at, c.tb.alarm = -at
  PROVE  HoldsB(c, ciacore_inttb(c, at))
<1> SUFFICES ASSUME Ruled(c, ctrl), NEW d, d = ciacore_inttb(c, at)
             PROVE  Ruled(d, ctrl) /\ RunB(c, d, ctrl)
  BY DEF HoldsB
<1>1. Plain(c.tb)
  BY DEF Ruled, RuledB
<1>2. /\ Upd(c, d, at) /\ d.ta = c.ta /\ Plain(d.tb)
      /\ Kept(c.tb, c.tbt, d.tb, d.tbt, at)
  BY <1>1, IntTb
<1>3. Pre(d, at)
  BY <1>2 DEF Upd
<1>4. ~Coming(c.tb, at)
  BY PreTimers DEF Coming
<1>5. "START" \notin ctrl.tb => d.tb.alarm = NEVER
  BY IntTbAlarm
<1> QED BY <1>2, <1>3, <1>4, <1>5, TbSide

\* So does cia_update_tb() without its cia_update_ta(),
LEMMA UpdTbB ==
  ASSUME NEW c, NEW at \in Nat, Pre(c, at)
  PROVE  HoldsB(c, UpdateTb(c, at))
<1>1. c.tb.alarm \in Int /\ c.ifr_lag \in Int /\ c.tb.alarm >= -at
  BY DEF Pre, Chips, Timers
<1>2. CASE c.tb.alarm <= -at
  <2>1. c.ifr_lag >= at
    BY <1>1, <1>2 DEF Pre
  <2>2. c.tb.alarm = -at
    BY <1>1, <1>2
  <2> QED BY <1>2, <2>1, <2>2, IntTbB DEF UpdateTb
<1>3. CASE ~(c.tb.alarm <= -at)
  <2>1. UpdateTb(c, at) = cia_do_update_tb(c, at)
    BY <1>3 DEF UpdateTb
  <2>2. Coming(c.tb, at)
    BY <1>1, <1>3 DEF Coming
  <2> SUFFICES ASSUME Ruled(c, ctrl), NEW d, d = cia_do_update_tb(c, at)
               PROVE  Ruled(d, ctrl) /\ RunB(c, d, ctrl)
    BY <2>1 DEF HoldsB
  <2>3. Plain(c.tb)
    BY DEF Ruled, RuledB
  <2>4. /\ Upd(c, d, at) /\ d.tb.alarm = c.tb.alarm /\ d.ta = c.ta /\ Plain(d.tb)
        /\ Kept(c.tb, c.tbt, d.tb, d.tbt, at)
    BY <2>3, UpdateTbOnly
  <2>5. Pre(d, at)
    BY <2>4 DEF Upd
  <2> QED BY <2>2, <2>4, <2>5, TbSide
<1> QED BY <1>2, <1>3

\* ... and with it,
LEMMA UpdTbTaB ==
  ASSUME NEW c, NEW at \in Nat, Pre(c, at)
  PROVE  HoldsB(c, cia_update_tb(c, at))
<1> DEFINE e == AlsoTa(c, at)
           d == UpdateTb(e, at)
<1>1. cia_update_tb(c, at) = d
  BY DEF cia_update_tb
<1>2. Pre(e, at)
  BY UpdTbTa DEF Upd
<1>3. HoldsB(c, e)
  <2>1. CASE CountsTa
    <3>1. e = cia_update_ta(c, at)
      BY <2>1 DEF AlsoTa
    <3> QED BY <3>1, UpdTaB
  <2>2. CASE ~CountsTa
    <3>1. e = c
      BY <2>2 DEF AlsoTa
    <3> QED BY <3>1 DEF HoldsB, RunB, SameTb, Same
  <2> QED BY <2>1, <2>2
<1> HIDE DEF e
<1>4. HoldsB(e, d)
  BY <1>2, UpdTbB
<1> HIDE DEF d
<1> QED BY <1>1, <1>3, <1>4, HoldsBTrans

\* ... and the update of both timers.
LEMMA UpdBothB ==
  ASSUME NEW c, NEW at \in Nat, Pre(c, at)
  PROVE  HoldsB(c, UpdateBoth(c, at))
<1> DEFINE e == cia_update_ta(c, at)
           d == cia_update_tb(e, at)
<1>1. UpdateBoth(c, at) = d
  BY DEF UpdateBoth
<1>2. Upd(c, e, at) /\ HoldsB(c, e)
  BY UpdTa, UpdTaB
<1> HIDE DEF e
<1>3. Pre(e, at)
  BY <1>2 DEF Upd
<1>4. HoldsB(e, d)
  BY <1>3, UpdTbTaB
<1> HIDE DEF d
<1> QED BY <1>1, <1>2, <1>4, HoldsBTrans

\* Underflows do not depend on the clocks of a timer.
LEMMA SilentFirst ==
  ASSUME NEW s \in Timers, NEW t \in Timers, Same(s, t), s.n = t.n
  PROVE  /\ Silent(s) => Silent(t)
         /\ \A k \in Nat : First(s, k) => First(t, k)
<1>1. \A k \in Nat : After(t, k).n = After(s, k).n
  <2> SUFFICES ASSUME NEW k \in Nat PROVE After(t, k).n = After(s, k).n
    OBVIOUS
  <2>1. After(s, k).n - s.n = After(t, k).n - t.n
    BY SameAfter
  <2>2. After(s, k) \in Timers /\ After(t, k) \in Timers
    BY RunFacts
  <2> QED BY <2>1, <2>2 DEF Timers
<1>2. \A k \in Nat : k # 0 => k - 1 \in Nat
  OBVIOUS
<1> QED BY <1>1, <1>2 DEF Silent, First

\* The next underflow of a timer does not depend on its alarm.
LEMMA AlarmedAlarm ==
  ASSUME NEW s \in Timers, NEW t, Alarmed(s, t), NEW a, AlarmOf(s, a)
  PROVE  AlarmOf(t, a)
<1>1. t \in Timers /\ Same(s, t) /\ s.n = t.n /\ t.lag = s.lag
  BY DEF Alarmed, Same
<1> QED BY <1>1, SilentFirst DEF AlarmOf

\* Before the alarm of timer A, timer B goes its own way.
LEMMA TbAhead ==
  ASSUME NEW a \in Timers, a.alarm > 0, NEW b, NEW counts
  PROVE  TbOf(a, b, counts) = Now(b)
<1>1. ~(a.alarm <= 0)
  BY DEF Timers
<1> QED BY <1>1 DEF TbOf

\* Reading a timer.
LEMMA UpdateHereB ==
  ASSUME NEW c, Here(c), NEW x \in TimerNames
  PROVE  LET d == Ifr(Update(c, x), 0)
         IN  /\ HoldsB(c, d) /\ Post(d, 0)
             /\ x = "ta" \/ CountsTa => d.ta.alarm > 0
             /\ x = "tb" => d.tb.lag = 0
<1> DEFINE b == Update(c, x)
           d == Ifr(b, 0)
<1>1. Here(b) /\ b[x].lag = 0 /\ Pre(c, 0)
  BY UpdateHere DEF Here, Post
<1>2. HoldsB(c, b) /\ (x = "ta" \/ CountsTa => b.ta.alarm > 0)
  <2>1. CASE x = "ta"
    <3>1. b = cia_update_ta(c, 0)
      BY <2>1 DEF Update
    <3>2. Coming(b.ta, 0)
      BY <1>1, <3>1, UpdTa
    <3> HIDE DEF b
    <3> QED BY <1>1, <3>1, <3>2, UpdTaB DEF Coming
  <2>2. CASE x = "tb"
    <3>1. b = cia_update_tb(c, 0)
      BY <2>2 DEF Update
    <3>2. CountsTa => Coming(b.ta, 0)
      BY <1>1, <3>1, UpdTbTa
    <3> HIDE DEF b
    <3> QED BY <1>1, <2>2, <3>1, <3>2, UpdTbTaB DEF Coming
  <2> QED BY <2>1, <2>2 DEF TimerNames
<1> HIDE DEF b
<1>3. Post(d, 0) /\ SameTimers(b, d)
  BY <1>1, IfrPost DEF Here
<1> HIDE DEF d
<1>4. HoldsB(c, d)
  BY <1>2, <1>3, HoldsBSame, HoldsBTrans
<1>5. x = "tb" => d.tb.lag = 0
  BY <1>1, <1>3 DEF SameTimers
<1> QED BY <1>2, <1>3, <1>4, <1>5 DEF b, d, SameTimers

\* Both timers and the delay line are brought up to this cycle.
LEMMA UpToDateB ==
  ASSUME NEW c, Here(c)
  PROVE  LET d == UpToDate(c)
         IN  HoldsB(c, d) /\ Post(d, 0) /\ d.ta.lag = 0 /\ d.tb.lag = 0 /\ d.ta.alarm > 0
<1> DEFINE b == UpdateBoth(c, 0)
           d == UpToDate(c)
<1>1. Pre(c, 0)
  BY DEF Here, Post
<1>2. HoldsB(c, b) /\ Coming(b.ta, 0)
  BY <1>1, UpdBothB, BothHere
<1>3. SameTimers(b, d) /\ Post(d, 0) /\ d.ta.lag = 0 /\ d.tb.lag = 0
  BY UpToDatePost
<1> HIDE DEF b, d
<1>4. HoldsB(c, d)
  BY <1>2, <1>3, HoldsBSame, HoldsBTrans
<1> QED BY <1>2, <1>3, <1>4 DEF d, Coming, SameTimers

\* Both timers are at the clock, and alarms are set anew.
LEMMA SetAlarmsB ==
  ASSUME NEW c, Post(c, 0), c.ta.lag = 0, c.tb.lag = 0, c.ta.alarm > 0,
         NEW d, d.tbt = c.tbt,
         d.ta = c.ta \/ d.ta = ciat_set_alarm(c.ta),
         d.tb = c.tb \/ d.tb = ciat_set_alarm(c.tb)
  PROVE  HoldsB(c, d)
<1> DEFINE a == c.ta
           b == c.tb
           p == d.ta
           q == d.tb
           k == CountsBy(ctrl)
<1> SUFFICES ASSUME Ruled(c, ctrl)
             PROVE  Ruled(d, ctrl) /\ RunB(c, d, ctrl)
  BY DEF HoldsB
<1>1. /\ a \in Timers /\ b \in Timers /\ Fit(a) /\ Fit(b) /\ a.n = 0 /\ b.n = 0
      /\ a.lag = 0 /\ b.lag = 0 /\ a.alarm > 0
  BY DEF Post, Pre, Chips
<1>2. RuledA(a, ctrl) /\ RuledB(b, ctrl)
  BY DEF Ruled
<1>3. p \in Timers /\ p.alarm > 0 /\ RuledA(p, ctrl)
  <2>1. CASE p = a
    BY <1>1, <1>2, <2>1
  <2>2. CASE p = ciat_set_alarm(a)
    <3>1. Fresh(p) /\ Alarmed(a, p)
      BY <1>1, <2>2, FreshAlarm
    <3>2. AlarmOf(a, p.alarm)
      BY <1>1, <2>2, AlarmFacts DEF Fit
    <3>3. AlarmOf(p, p.alarm)
      BY <1>1, <3>1, <3>2, AlarmedAlarm
    <3>4. Within(a, p) /\ (Plain(a) => Plain(p))
      BY <3>1 DEF Alarmed, Within, Plain
    <3> QED BY <1>2, <3>1, <3>3, <3>4, WithinA DEF Fresh, RuledA
  <2> QED BY <2>1, <2>2
<1>4. q \in Timers /\ q.lag = 0 /\ q.n = 0 /\ Same(b, q) /\ RuledB(q, ctrl)
  <2>1. CASE q = b
    BY <1>1, <1>2, <2>1 DEF Same
  <2>2. CASE q = ciat_set_alarm(b)
    <3>1. Fresh(q) /\ Alarmed(b, q)
      BY <1>1, <2>2, FreshAlarm
    <3>2. AlarmOf(b, q.alarm)
      BY <1>1, <2>2, AlarmFacts DEF Fit
    <3>3. AlarmOf(q, q.alarm)
      BY <1>1, <3>1, <3>2, AlarmedAlarm
    <3>4. Within(b, q) /\ (Plain(b) => Plain(q)) /\ Same(b, q)
      BY <3>1 DEF Alarmed, Within, Plain, Same
    <3> QED BY <1>2, <3>1, <3>3, <3>4, WithinB DEF Fresh, RuledB
  <2> QED BY <2>1, <2>2
<1>5. TbOf(a, b, k) = b /\ TbOf(p, q, k) = q
  <2> HIDE DEF k, a, b, p, q
  <2> QED BY <1>1, <1>3, <1>4, TbAhead, NowNow
<1> QED BY <1>1, <1>3, <1>4, <1>5 DEF Ruled, RunB, SameTb

\* Reading ICR.
LEMMA ReadIcrB ==
  ASSUME NEW c, Here(c)
  PROVE  HoldsB(c, IfrNext(IcrRead(AlarmsSet(UpToDate(c))), 0))
<1> DEFINE a == UpToDate(c)
           d == IfrNext(IcrRead(AlarmsSet(UpToDate(c))), 0)
<1>1. HoldsB(c, a) /\ Post(a, 0) /\ a.ta.lag = 0 /\ a.tb.lag = 0 /\ a.ta.alarm > 0
  BY UpToDateB
<1>2. /\ d.ta = ciat_set_alarm(a.ta) /\ d.tb = ciat_set_alarm(a.tb) /\ d.tbt = a.tbt
  BY ReadIcrPost
<1> HIDE DEF a, d
<1>3. HoldsB(a, d)
  BY <1>1, <1>2, SetAlarmsB
<1> QED BY <1>1, <1>3, HoldsBTrans DEF d

\* Writing ICR.
LEMMA StoreIcrB ==
  ASSUME NEW c, Here(c), NEW mask
  PROVE  HoldsB(c, IfrNext(AlarmsOfMask(IcrStored(UpToDate(c), mask), mask), 0))
<1> DEFINE a == UpToDate(c)
           d == IfrNext(AlarmsOfMask(IcrStored(UpToDate(c), mask), mask), 0)
<1>1. HoldsB(c, a) /\ Post(a, 0) /\ a.ta.lag = 0 /\ a.tb.lag = 0 /\ a.ta.alarm > 0
  BY UpToDateB
<1>2. /\ d.ta = a.ta \/ d.ta = ciat_set_alarm(a.ta)
      /\ d.tb = a.tb \/ d.tb = ciat_set_alarm(a.tb)
      /\ d.tbt = a.tbt
  BY StoreIcrPost
<1> HIDE DEF a, d
<1>3. HoldsB(a, d)
  BY <1>1, <1>2, SetAlarmsB
<1> QED BY <1>1, <1>3, HoldsBTrans DEF d

\* An alarm runs.
LEMMA IntB ==
  ASSUME NEW c, NEW at \in Nat, Post(c, at), c.ifr_lag >= at
  PROVE  /\ c.ta.alarm = -at => HoldsB(c, Ifr(ciacore_intta(c, at), at))
         /\ c.tb.alarm = -at => HoldsB(c, Ifr(ciacore_inttb(c, at), at))
<1>1. Pre(c, at)
  BY DEF Post
<1>2. ASSUME c.ta.alarm = -at PROVE HoldsB(c, Ifr(ciacore_intta(c, at), at))
  <2>1. HoldsB(c, ciacore_intta(c, at))
    BY <1>1, <1>2, IntTaB
  <2>2. SameTimers(ciacore_intta(c, at), Ifr(ciacore_intta(c, at), at))
    BY IntTaPost
  <2> QED BY <2>1, <2>2, HoldsBSame, HoldsBTrans
<1>3. ASSUME c.tb.alarm = -at PROVE HoldsB(c, Ifr(ciacore_inttb(c, at), at))
  <2>1. HoldsB(c, ciacore_inttb(c, at))
    BY <1>1, <1>3, IntTbB
  <2>2. SameTimers(ciacore_inttb(c, at), Ifr(ciacore_inttb(c, at), at))
    BY IntTbPost
  <2> QED BY <2>1, <2>2, HoldsBSame, HoldsBTrans
<1> QED BY <1>2, <1>3

\* The idle alarm.
LEMMA IdleB ==
  ASSUME NEW c, NEW at \in Nat, Post(c, at), c.ifr_lag >= at - 1
  PROVE  HoldsB(c, ciacore_idle(c, at))
<1>1. SameTimers(UpdateBoth(c, at), ciacore_idle(c, at)) /\ Pre(c, at)
  BY IdlePost
<1>2. HoldsB(c, UpdateBoth(c, at))
  BY <1>1, UpdBothB
<1> QED BY <1>1, <1>2, HoldsBSame, HoldsBTrans

\* The next cycle of timer B t, with timer A in state s.
OneMore(s, t, counts) == IF counts /\ Underflows(s) THEN Step(Turn(t)) ELSE Turn(t)

\* Timers that behave alike underflow alike.
LEMMA AfterAlike ==
  ASSUME NEW s \in Timers, NEW t \in Timers, Same(s, t), s.n = t.n, NEW k \in Nat
  PROVE  Same(After(s, k), After(t, k)) /\ After(s, k).n = After(t, k).n
         /\ After(s, k) \in Timers /\ After(t, k) \in Timers
<1>1. After(s, k) \in Timers /\ After(t, k) \in Timers
  BY RunFacts
<1>2. Same(After(s, k), After(t, k)) /\ After(s, k).n - s.n = After(t, k).n - t.n
  BY SameAfter
<1> QED BY <1>1, <1>2 DEF Timers

\* ... and take steps alike.
LEMMA StepAlike ==
  ASSUME NEW s \in Timers, NEW t \in Timers, Same(s, t), s.n = t.n
  PROVE  Same(Step(s), Step(t)) /\ Step(s).n = Step(t).n
         /\ Step(s) \in Timers /\ Step(t) \in Timers
BY StepFacts, SameStep

\* A timer that does not underflow in this cycle.
LEMMA NotNow ==
  ASSUME NEW s \in Timers, s.lag \in Nat, After(s, s.lag + 1).n = After(s, s.lag).n
  PROVE  ~Underflows(Now(s))
<1> DEFINE u == Now(s)
<1>1. u \in Timers /\ u = After(s, s.lag) /\ After(s, s.lag + 1) = Turn(u)
  BY RunFacts DEF Now
<1> HIDE DEF u
<1>2. u.n \in Nat /\ Turn(u).n = IF Underflows(u) THEN u.n + 1 ELSE u.n
  BY <1>1, TurnFacts DEF Timers
<1> QED BY <1>1, <1>2 DEF u

\* A cycle goes by.
LEMMA TbTick ==
  ASSUME NEW a \in Timers, NEW b \in Timers, a.lag \in Nat, b.lag \in Nat, a.n = 0,
         NEW counts \in BOOLEAN, counts => AlarmOf(a, a.alarm),
         a.alarm <= 0 => b.lag + a.alarm >= 0
  PROVE  LET t == TbOf(a, b, counts)
             r == TbOf(Waited(a), Waited(b), counts)
             u == OneMore(Now(a), t, counts)
         IN  t \in Timers /\ Same(r, u) /\ r.n = u.n
<1> DEFINE w == Waited(a)
           v == Waited(b)
           l == a.lag
           m == b.lag
           al == a.alarm
<1>1. /\ w \in Timers /\ v \in Timers /\ Same(w, a) /\ Same(v, b) /\ w.n = a.n /\ v.n = b.n
      /\ w.lag = l + 1 /\ v.lag = m + 1
      /\ w.alarm = (IF al = NEVER THEN NEVER ELSE al - 1)
  BY WaitedFacts DEF Same
<1>2. l \in Nat /\ m \in Nat /\ al \in Int /\ w.alarm \in Int
  BY <1>1 DEF Timers
<1> HIDE DEF w, v
<1>3. /\ Now(b) \in Timers /\ Now(b) = After(b, m) /\ After(b, m + 1) = Turn(Now(b))
      /\ Now(a) \in Timers /\ Now(a) = After(a, l) /\ After(a, l + 1) = Turn(Now(a))
  BY RunFacts DEF Now
<1>4. Now(v) = After(v, m + 1) /\ Now(w) = After(w, l + 1)
  BY <1>1 DEF Now
<1>5. Same(Now(v), Turn(Now(b))) /\ Now(v).n = Turn(Now(b)).n
  <2> DEFINE i == m + 1
  <2>1. i \in Nat /\ Now(v) = After(v, i) /\ Turn(Now(b)) = After(b, i)
    BY <1>2, <1>3, <1>4
  <2> HIDE DEF i
  <2>2. Same(After(v, i), After(b, i)) /\ After(v, i).n = After(b, i).n
    BY <1>1, <2>1, AfterAlike
  <2> QED BY <2>1, <2>2
<1>6. CASE ~counts
  <2>1. TbOf(a, b, counts) = Now(b) /\ TbOf(w, v, counts) = Now(v)
    BY <1>6 DEF TbOf
  <2>2. OneMore(Now(a), Now(b), counts) = Turn(Now(b))
    BY <1>6 DEF OneMore
  <2> QED BY <1>3, <1>5, <2>1, <2>2 DEF w, v
<1>7. ASSUME al > 0, w.alarm > 0, ~Underflows(Now(a))
      PROVE  LET t == TbOf(a, b, counts)
                 r == TbOf(w, v, counts)
                 u == OneMore(Now(a), t, counts)
             IN  t \in Timers /\ Same(r, u) /\ r.n = u.n
  <2>1. TbOf(a, b, counts) = Now(b) /\ TbOf(w, v, counts) = Now(v)
    BY <1>1, <1>7, TbAhead
  <2>2. OneMore(Now(a), Now(b), counts) = Turn(Now(b))
    BY <1>7 DEF OneMore
  <2> QED BY <1>3, <1>5, <2>1, <2>2
<1>8. CASE counts /\ al = NEVER /\ Silent(a)
  <2>1. al > 0 /\ w.alarm > 0
    BY <1>1, <1>8, WordFacts
  <2>2. l + 1 \in Nat
    BY <1>2
  <2>3. After(a, l + 1).n = a.n /\ After(a, l).n = a.n
    BY <1>2, <1>8, <2>2 DEF Silent
  <2>4. ~Underflows(Now(a))
    BY <1>2, <2>3, NotNow
  <2> QED BY <1>7, <2>1, <2>4 DEF w, v
<1>9. ASSUME counts, NEW k \in Nat, First(a, k), al = k - l, k <= WORD + 4
      PROVE  LET t == TbOf(a, b, counts)
                 r == TbOf(w, v, counts)
                 u == OneMore(Now(a), t, counts)
             IN  t \in Timers /\ Same(r, u) /\ r.n = u.n
  <2>1. al # NEVER /\ w.alarm = al - 1
    <3>1. al # NEVER
      BY <1>2, <1>9, WordFacts
    <3> QED BY <1>1, <3>1
  <2>2. CASE al > 1
    <3>1. w.alarm > 0 /\ l + 1 <= k - 1 /\ k - 1 \in Nat /\ l + 1 \in Nat
      BY <1>2, <1>9, <2>1, <2>2
    <3>2. After(a, k - 1).n = a.n
      BY <1>9 DEF First
    <3>3. After(a, l).n <= After(a, l + 1).n /\ After(a, l + 1).n <= After(a, k - 1).n
          /\ After(a, l).n >= a.n /\ After(a, l) \in Timers /\ After(a, l + 1) \in Timers
      <4> DEFINE i == l + 1
      <4>1. i \in Nat /\ i <= k - 1 /\ l <= i
        BY <1>2, <3>1
      <4>2. After(a, l).n >= a.n /\ After(a, l) \in Timers
        BY <1>2, AfterKeeps
      <4> HIDE DEF i
      <4>3. After(a, l).n <= After(a, i).n
        BY <1>2, <4>1, AfterGrows
      <4>4. After(a, i).n <= After(a, k - 1).n
        BY <3>1, <4>1, AfterGrows
      <4>5. After(a, i) \in Timers
        BY <4>1, RunFacts
      <4> QED BY <4>2, <4>3, <4>4, <4>5 DEF i
    <3>4. After(a, l).n \in Nat /\ After(a, l + 1).n \in Nat
      BY <3>3 DEF Timers
    <3>5. After(a, l + 1).n = After(a, l).n
      BY <3>2, <3>3, <3>4
    <3>6. ~Underflows(Now(a))
      BY <1>2, <3>5, NotNow
    <3> QED BY <1>2, <1>7, <2>2, <3>1, <3>6
  <2>3. CASE al = 1
    <3>1. k - 1 = l /\ w.alarm = 0 /\ w.lag + w.alarm = l + 1 /\ v.lag + w.alarm = m + 1
          /\ -w.alarm = 0
      <4>1. w.alarm = 0
        BY <2>1, <2>3
      <4>2. k - 1 = l
        BY <1>2, <1>9, <2>3
      <4> QED BY <1>1, <1>2, <4>1, <4>2
    <3>2. Underflows(Now(a))
      BY <1>3, <1>9, <3>1, FirstUnderflow
    <3>3. TbOf(a, b, counts) = Now(b)
      BY <2>3, TbAhead
    <3>4. OneMore(Now(a), Now(b), counts) = Step(Turn(Now(b)))
      BY <1>9, <3>2 DEF OneMore
    <3>5. /\ After(w, l + 1) \in Timers /\ Now(v) \in Timers /\ Step(Now(v)) \in Timers
          /\ Turn(Now(b)) \in Timers
      <4>1. Now(v) \in Timers
        <5> DEFINE i == m + 1
        <5>1. i \in Nat /\ Now(v) = After(v, i)
          BY <1>2, <1>4
        <5> HIDE DEF i
        <5> QED BY <1>1, <5>1, RunFacts
      <4>2. After(w, l + 1) \in Timers
        <5> DEFINE i == l + 1
        <5>1. i \in Nat
          BY <1>2
        <5> HIDE DEF i
        <5>2. After(w, i) \in Timers
          BY <1>1, <5>1, RunFacts
        <5> QED BY <5>2 DEF i
      <4>3. Step(Now(v)) \in Timers
        BY <4>1, StepFacts
      <4>4. Turn(Now(b)) \in Timers
        BY <1>3, TurnFacts
      <4> QED BY <4>1, <4>2, <4>3, <4>4
    <3>6. TbOf(w, v, counts) = Beside(After(w, l + 1), Step(Now(v)), 0)
      BY <1>4, <1>9, <3>1 DEF TbOf
    <3>7. TbOf(w, v, counts) = Step(Now(v))
      BY <3>5, <3>6, BesideFacts
    <3>8. Same(Step(Now(v)), Step(Turn(Now(b)))) /\ Step(Now(v)).n = Step(Turn(Now(b))).n
      BY <1>5, <3>5, StepAlike
    <3> QED BY <1>3, <3>3, <3>4, <3>7, <3>8
  <2>4. CASE al <= 0
    <3> DEFINE i == l + al
               j == m + al
               x == -al
               p == After(a, i)
               q == Step(After(b, j))
               f == After(w, i)
               g == Step(After(v, j))
               y == x + 1
    <3>1. /\ i \in Nat /\ i = k /\ j \in Nat /\ x \in Nat /\ y \in Nat /\ i + x = l
          /\ w.lag + w.alarm = i /\ v.lag + w.alarm = j /\ -w.alarm = y /\ w.alarm <= 0
      BY <1>1, <1>2, <1>9, <2>1, <2>4
    <3>2. TbOf(a, b, counts) = Beside(p, q, x)
      BY <1>9, <2>4 DEF TbOf
    <3>3. TbOf(w, v, counts) = Beside(f, g, y)
      BY <1>9, <3>1 DEF TbOf
    <3>4. Same(f, p) /\ f.n = p.n /\ f \in Timers /\ p \in Timers
      <4> HIDE DEF i
      <4> QED BY <1>1, <3>1, AfterAlike
    <3>5. Same(g, q) /\ g.n = q.n /\ g \in Timers /\ q \in Timers
      <4> HIDE DEF j
      <4>1. /\ Same(After(v, j), After(b, j)) /\ After(v, j).n = After(b, j).n
            /\ After(v, j) \in Timers /\ After(b, j) \in Timers
        BY <1>1, <3>1, AfterAlike
      <4> QED BY <4>1, StepAlike
    <3>6. After(p, x) = Now(a)
      <4> HIDE DEF x, i
      <4>1. After(a, i + x) = After(p, x)
        BY <3>1, AfterAdd
      <4> QED BY <1>3, <3>1, <4>1
    <3> HIDE DEF p, q, f, g, x
    <3> DEFINE t == Beside(p, q, x)
    <3>7. t \in Timers /\ Beside(p, q, x + 1) = Driven(Now(a), t)
      BY <3>1, <3>4, <3>5, <3>6, BesideFacts
    <3>8. /\ Same(Beside(f, g, y), Beside(p, q, y))
          /\ Beside(f, g, y).n - g.n = Beside(p, q, y).n - q.n
          /\ Beside(f, g, y) \in Timers /\ Beside(p, q, y) \in Timers
      <4> HIDE DEF y
      <4>1. y \in Nat
        BY <3>1
      <4>2. /\ Same(Beside(f, g, y), Beside(p, q, y))
            /\ Beside(f, g, y).n - g.n = Beside(p, q, y).n - q.n
        BY <3>4, <3>5, <4>1, SameBeside
      <4>3. Beside(f, g, y) \in Timers /\ Beside(p, q, y) \in Timers
        BY <3>4, <3>5, <4>1, BesideFacts
      <4> QED BY <4>2, <4>3
    <3>9. Beside(f, g, y).n = Beside(p, q, y).n
      BY <3>5, <3>8 DEF Timers
    <3>10. Beside(p, q, y) = Driven(Now(a), t)
      BY <3>7
    <3>11. OneMore(Now(a), t, counts) = Driven(Now(a), t)
      BY <1>9 DEF OneMore, Driven
    <3> QED BY <3>2, <3>3, <3>7, <3>8, <3>9, <3>10, <3>11
  <2> QED BY <1>2, <2>2, <2>3, <2>4
<1>10. CASE counts
  <2>1. (al = NEVER /\ Silent(a)) \/ \E k \in Nat : First(a, k) /\ al = k - l /\ k <= WORD + 4
    BY <1>10 DEF AlarmOf
  <2> QED BY <1>8, <1>9, <1>10, <2>1 DEF w, v
<1> QED BY <1>6, <1>10

\* A cycle goes by: the alarms stay those of the next underflows.
LEMMA WaitedAlarm ==
  ASSUME NEW s \in Timers, s.lag \in Nat, AlarmOf(s, s.alarm)
  PROVE  AlarmOf(Waited(s), Waited(s).alarm)
<1> DEFINE w == Waited(s)
<1>1. /\ w \in Timers /\ Same(s, w) /\ s.n = w.n /\ w.lag = s.lag + 1
      /\ w.alarm = (IF s.alarm = NEVER THEN NEVER ELSE s.alarm - 1)
  BY WaitedFacts DEF Same
<1> HIDE DEF w
<1>2. CASE s.alarm = NEVER /\ Silent(s)
  BY <1>1, <1>2, SilentFirst DEF AlarmOf, w
<1>3. ASSUME NEW k \in Nat, First(s, k), s.alarm = k - s.lag, k <= WORD + 4
      PROVE  AlarmOf(w, w.alarm)
  <2>1. First(w, k)
    BY <1>1, <1>3, SilentFirst
  <2>2. w.alarm = k - w.lag
    BY <1>1, <1>3, WordFacts
  <2> QED BY <1>3, <2>1, <2>2 DEF AlarmOf
<1> QED BY <1>2, <1>3 DEF AlarmOf, w

\* Timer B of c comes to what timer B of e is.
ShowsB(c, e, k) ==
  LET t == TbOf(c.ta, c.tb, CountsBy(k))
  IN  Same(t, e.tb) /\ (c.tbt + t.n) % 2 = e.tbt

\* A chip that runs every cycle notes an underflow for one cycle.
OneCycle(s) == s.n = IF "OUT" \in s.state THEN 1 ELSE 0

\* The inductive invariant for timer B.
SoundB ==
  /\ Sound
  /\ ctrl = [x \in TimerNames |-> ctrl[x]]
  /\ Ruled(cia, ctrl)
  /\ ShowsB(cia, chip, ctrl)
  /\ OneCycle(chip.tb)
  /\ accessed \/ cia.tb.lag > 0 \/ "OUT" \notin cia.tb.state

\* What a handler leaves alone is still shown.
LEMMA RunShowsB ==
  ASSUME NEW c, NEW d, NEW e, HoldsB(c, d), Ruled(c, ctrl), ShowsB(c, e, ctrl)
  PROVE  Ruled(d, ctrl) /\ ShowsB(d, e, ctrl)
BY DEF HoldsB, RunB, SameTb, ShowsB, Same

\* What leaves the timers of the other chip alone, too.
LEMMA SameShowsB ==
  ASSUME NEW c, NEW d, NEW e, NEW k, SameTimers(d, e), ShowsB(c, d, k)
  PROVE  ShowsB(c, e, k)
BY DEF SameTimers, ShowsB

\* The invariant holds at the start.
LEMMA InitSoundB ==
  ASSUME Init
  PROVE  SoundB
<1> DEFINE T(w) == [ResetTimer EXCEPT !.cnt = w, !.latch = w]
<1>1. PICK a \in Latches, b \in Latches :
         cia = [ciacore_reset EXCEPT !.ta = T(a), !.tb = T(b)]
  BY DEF Init
<1>2. Sound
  BY InitSound
<1>3. \A w : /\ T(w).state = {} /\ T(w).lag = 0 /\ T(w).n = 0 /\ T(w).alarm = NEVER
  BY DEF ResetTimer
<1> HIDE DEF T
<1>4. cia.ta = T(a) /\ cia.tb = T(b) /\ cia.tbt = 0
  BY <1>1 DEF ciacore_reset
<1>5. /\ cia.ta \in Timers /\ cia.tb \in Timers
      /\ cia.ta.state = {} /\ cia.ta.alarm = NEVER
      /\ cia.tb.state = {} /\ cia.tb.alarm = NEVER /\ cia.tb.lag = 0 /\ cia.tb.n = 0
  BY <1>2, <1>3, <1>4 DEF Sound, Behind, Chips
<1>6. Resting(cia.ta.state) /\ Resting(cia.tb.state)
  BY <1>5 DEF Resting
<1>7. AlarmOf(cia.ta, cia.ta.alarm) /\ AlarmOf(cia.tb, cia.tb.alarm)
  BY <1>5, <1>6, StoppedSilent DEF AlarmOf
<1>8. ctrl = [x \in TimerNames |-> {}] /\ chip = cia
  BY DEF Init
<1>9. ctrl.ta = {} /\ ctrl.tb = {}
  BY <1>8 DEF TimerNames
<1>10. Ruled(cia, ctrl)
  BY <1>5, <1>7, <1>9 DEF Ruled, RuledA, RuledB, Plain
<1>11. ~CountsBy(ctrl)
  BY <1>9 DEF CountsBy
<1>12. TbOf(cia.ta, cia.tb, CountsBy(ctrl)) = cia.tb
  BY <1>5, <1>11, NowNow DEF TbOf
<1>13. ShowsB(cia, cia, ctrl)
  BY <1>4, <1>5, <1>12 DEF ShowsB, Same
<1>14. OneCycle(cia.tb) /\ "OUT" \notin cia.tb.state
  BY <1>5 DEF OneCycle
<1>15. ctrl = [x \in TimerNames |-> ctrl[x]]
  BY <1>8
<1> QED BY <1>2, <1>8, <1>10, <1>13, <1>14, <1>15 DEF SoundB

\* An access that leaves the control registers and timer B of the chip alone.
LEMMA LookSoundB ==
  ASSUME SoundB, Sound', accessed' = TRUE, ctrl' = ctrl,
         HoldsB(cia, cia'), SameTimers(chip, chip')
  PROVE  SoundB'
<1>1. Ruled(cia', ctrl) /\ ShowsB(cia', chip, ctrl)
  BY RunShowsB DEF SoundB
<1>2. ShowsB(cia', chip', ctrl)
  BY <1>1, SameShowsB
<1>3. OneCycle(chip'.tb)
  BY DEF SoundB, SameTimers
<1> QED BY <1>1, <1>2, <1>3 DEF SoundB

\* An access of a timer keeps the invariant.
LEMMA ReadSoundB ==
  ASSUME SoundB, NEW x \in TimerNames, Read(x)
  PROVE  SoundB'
<1>1. Sound /\ Sound'
  BY ReadSound DEF SoundB
<1>2. Here(cia) /\ accessed' = TRUE /\ ctrl' = ctrl /\ chip' = chip
  BY <1>1, SoundHere DEF Read
<1>3. HoldsB(cia, cia')
  BY <1>2, UpdateHereB DEF Read
<1> QED BY <1>1, <1>2, <1>3, LookSoundB DEF SameTimers

\* Reading ICR keeps it.
LEMMA ReadIcrSoundB ==
  ASSUME SoundB, ReadIcr
  PROVE  SoundB'
<1>1. Sound /\ Sound'
  BY ReadIcrSound DEF SoundB
<1>2. Here(cia) /\ accessed' = TRUE /\ ctrl' = ctrl
  BY <1>1, SoundHere DEF ReadIcr
<1>3. HoldsB(cia, cia')
  BY <1>2, ReadIcrB DEF ReadIcr
<1>4. SameTimers(chip, chip')
  BY <1>1, IcrReadFacts DEF ReadIcr, Sound
<1> QED BY <1>1, <1>2, <1>3, <1>4, LookSoundB

\* So does writing ICR.
LEMMA StoreIcrSoundB ==
  ASSUME SoundB, NEW byte, StoreIcr(byte)
  PROVE  SoundB'
<1>1. Sound /\ Sound'
  BY StoreIcrSound DEF SoundB
<1>2. Here(cia) /\ accessed' = TRUE /\ ctrl' = ctrl
  BY <1>1, SoundHere DEF StoreIcr
<1>3. HoldsB(cia, cia')
  BY <1>2, StoreIcrB DEF StoreIcr
<1>4. SameTimers(chip, chip')
  BY <1>1, IcrStoredFacts DEF StoreIcr, Sound
<1> QED BY <1>1, <1>2, <1>3, <1>4, LookSoundB

\* So does every alarm, however late it runs.
LEMMA DispatchSoundB ==
  ASSUME SoundB, Dispatch
  PROVE  SoundB'
<1>1. PICK at \in 0 .. MAX_LATE :
        /\ -at \in Alarms(cia) /\ \A a \in Alarms(cia) : a >= -at
        /\ accessed \/ at > 0
        /\ \/ cia.ta.alarm = -at /\ cia' = Ifr(ciacore_intta(cia, at), at)
           \/ cia.tb.alarm = -at /\ cia' = Ifr(ciacore_inttb(cia, at), at)
           \/ cia.idle = -at /\ cia' = ciacore_idle(cia, at)
  BY DEF Dispatch
<1>2. at \in Nat
  BY CiaAssumption
<1>3. /\ Post(cia, at) /\ cia.ifr_lag >= at - 1
      /\ -at = cia.ta.alarm \/ -at = cia.tb.alarm => cia.ifr_lag >= at
  BY <1>1, <1>2, BehindPost DEF SoundB, Sound
<1>4. HoldsB(cia, cia') /\ Post(cia', at)
  <2>1. CASE cia.ta.alarm = -at /\ cia' = Ifr(ciacore_intta(cia, at), at)
    BY <1>2, <1>3, <2>1, IntTaPost, IntB
  <2>2. CASE cia.tb.alarm = -at /\ cia' = Ifr(ciacore_inttb(cia, at), at)
    BY <1>2, <1>3, <2>2, IntTbPost, IntB
  <2>3. CASE cia.idle = -at /\ cia' = ciacore_idle(cia, at)
    BY <1>2, <1>3, <2>3, IdlePost, IdleB
  <2> QED BY <1>1, <2>1, <2>2, <2>3
<1>5. Sound'
  BY DispatchSound DEF SoundB
<1>6. chip' = chip /\ accessed' = accessed /\ ctrl' = ctrl
  BY DEF Dispatch
<1>7. Ruled(cia', ctrl) /\ ShowsB(cia', chip, ctrl)
  BY <1>4, RunShowsB DEF SoundB
<1>8. at > 0 => cia'.tb.lag > 0
  <2>1. cia'.tb.lag >= at /\ cia'.tb.lag \in Int
    BY <1>4 DEF Post, Pre, Chips, Timers
  <2> QED BY <1>2, <2>1
<1> QED BY <1>1, <1>5, <1>6, <1>7, <1>8 DEF SoundB

\* So does a cycle: timer B comes to what the other chip has, also when timer A
\* underflows in it and the step waits for an alarm that runs late.
LEMMA TickSoundB ==
  ASSUME SoundB, Tick
  PROVE  SoundB'
<1>1. cia' = Ticked(cia) /\ chip' = Cycle(chip) /\ accessed' = FALSE /\ ctrl' = ctrl
  BY DEF Tick, Ticked
<1>2. Sound /\ Sound'
  BY TickSound DEF SoundB
<1> DEFINE a == cia.ta
           b == cia.tb
           k == CountsBy(ctrl)
           t == TbOf(a, b, k)
           r == TbOf(Waited(a), Waited(b), k)
           e == Noted(chip.ta)
           f == Noted(chip.tb)
<1>3. /\ cia \in Chips /\ chip \in Chips /\ a \in Timers /\ b \in Timers
      /\ a.lag \in Nat /\ b.lag \in Nat /\ a.n = 0 /\ b.n = 0 /\ cia.tbt \in 0 .. 1
      /\ chip.ta \in Timers /\ chip.tb \in Timers
      /\ a.alarm \in Int /\ b.lag >= -a.alarm
  BY <1>2 DEF Sound, Behind, Chips, Timers, Alarms
<1>4. cia'.ta = Waited(a) /\ cia'.tb = Waited(b) /\ cia'.tbt = cia.tbt
  BY <1>1, <1>3, TickedFacts
<1>5. /\ chip'.tb = IF Turn(e).n > 0 /\ CountsTa THEN Step(Turn(f)) ELSE Turn(f)
      /\ chip'.tbt = (chip.tbt + Turn(f).n) % 2
  BY <1>1, <1>3, CycleFacts
<1>6. /\ e \in Timers /\ f \in Timers /\ e.n = 0 /\ f.n = 0
      /\ Same(chip.ta, e) /\ Same(chip.tb, f)
  BY <1>3, NotedSame
<1> HIDE DEF e, f
<1>7. Underflows(Now(a)) <=> Turn(e).n > 0
  <2>1. Now(a) \in Timers
    BY <1>3, RunFacts DEF Now
  <2>2. Same(Now(a), e)
    BY <1>2, <1>6 DEF Sound, Shows, Same
  <2>3. Underflows(Now(a)) <=> Underflows(e)
    BY <1>6, <2>1, <2>2, SameTurn
  <2>4. Turn(e).n = IF Underflows(e) THEN 1 ELSE 0
    BY <1>6, TurnFacts
  <2> QED BY <2>3, <2>4
<1>8. t \in Timers /\ Same(r, OneMore(Now(a), t, k)) /\ r.n = OneMore(Now(a), t, k).n
  <2>1. k \in BOOLEAN /\ (k => AlarmOf(a, a.alarm))
    BY DEF SoundB, Ruled, RuledA, CountsBy
  <2>2. b.lag + a.alarm >= 0
    BY <1>3
  <2> HIDE DEF a, b, k
  <2> QED BY <1>3, <2>1, <2>2, TbTick
<1>9. Same(t, chip.tb) /\ (cia.tbt + t.n) % 2 = chip.tbt
  BY DEF SoundB, ShowsB
<1> HIDE DEF t, r
<1>10. Same(t, f)
  BY <1>6, <1>9 DEF Same
<1>11. Same(Turn(t), Turn(f)) /\ Turn(t).n = t.n + Turn(f).n /\ Turn(t) \in Timers
       /\ Turn(f) \in Timers
  BY <1>6, <1>8, <1>10, TurnAgrees, TurnFacts
<1>12. Same(Step(Turn(t)), Step(Turn(f))) /\ Step(Turn(t)).n = Turn(t).n
  BY <1>11, SameStep, StepFacts
<1>13. Same(OneMore(Now(a), t, k), chip'.tb) /\ OneMore(Now(a), t, k).n = t.n + Turn(f).n
  <2>1. CountsTa <=> k
    BY CountsCtrl
  <2> HIDE DEF k
  <2> QED BY <1>5, <1>7, <1>11, <1>12, <2>1 DEF OneMore
<1>14. (cia.tbt + r.n) % 2 = chip'.tbt
  <2>1. t.n \in Nat /\ Turn(f).n \in Nat
    BY <1>8, <1>11 DEF Timers
  <2>2. (((cia.tbt + t.n) % 2) + Turn(f).n) % 2 = (cia.tbt + (t.n + Turn(f).n)) % 2
    BY <1>3, <2>1, Mod2
  <2>3. r.n = t.n + Turn(f).n
    BY <1>8, <1>13
  <2> QED BY <1>5, <1>9, <2>2, <2>3
<1>15. Same(r, chip'.tb)
  BY <1>8, <1>13 DEF Same
<1>16. ShowsB(cia', chip', ctrl)
  BY <1>4, <1>14, <1>15 DEF ShowsB, r
<1>17. Ruled(cia', ctrl)
  <2>1. /\ Waited(a).state = a.state /\ Waited(b).state = b.state
        /\ Plain(a) => Plain(Waited(a))
        /\ Plain(b) => Plain(Waited(b))
    BY <1>3, WaitedFacts
  <2>2. RuledA(a, ctrl) /\ RuledB(b, ctrl)
    BY DEF SoundB, Ruled
  <2>3. CountsBy(ctrl) => AlarmOf(Waited(a), Waited(a).alarm)
    BY <1>3, <2>2, WaitedAlarm DEF RuledA
  <2>4. "START" \notin ctrl.tb => AlarmOf(Waited(b), Waited(b).alarm)
    BY <1>3, <2>2, WaitedAlarm DEF RuledB
  <2>5. Within(a, Waited(a)) /\ Within(b, Waited(b))
    BY <2>1 DEF Within
  <2>6. RuledA(Waited(a), ctrl)
    BY <2>1, <2>2, <2>3, <2>5, WithinA DEF RuledA
  <2>7. RuledB(Waited(b), ctrl)
    BY <2>1, <2>2, <2>4, <2>5, WithinB DEF RuledB
  <2> QED BY <1>4, <2>6, <2>7 DEF Ruled
<1>18. OneCycle(chip'.tb)
  <2>1. OneCycle(Turn(f))
    BY <1>6, TurnFacts, TurnBits DEF OneCycle
  <2>2. OneCycle(Step(Turn(f)))
    <3> DEFINE u == Turn(f)
    <3>1. u \in Timers /\ OneCycle(u)
      BY <1>11, <2>1
    <3> HIDE DEF u
    <3>2. /\ Step(u).n = u.n
          /\ Step(u).state = IF "START" \in u.state THEN u.state \cup {"STEP"}
                             ELSE u.state
      BY <3>1, StepFacts
    <3>4. "OUT" \in Step(u).state <=> "OUT" \in u.state
      <4> DEFINE v == Step(u).state
      <4>1. v = IF "START" \in u.state THEN u.state \cup {"STEP"} ELSE u.state
        BY <3>2
      <4> HIDE DEF v
      <4>2. "OUT" \in v <=> "OUT" \in u.state
        BY <4>1
      <4> QED BY <4>2 DEF v
    <3>3. OneCycle(Step(u))
      BY <3>1, <3>2, <3>4 DEF OneCycle
    <3> QED BY <3>3 DEF u
  <2> QED BY <1>5, <2>1, <2>2
<1>19. cia'.tb.lag > 0
  <2>1. Waited(b).lag = b.lag + 1
    BY <1>3, WaitedFacts
  <2> QED BY <1>3, <1>4, <2>1
<1> QED BY <1>1, <1>2, <1>16, <1>17, <1>18, <1>19 DEF SoundB

\* ciat_set_alarm() at this clock finds the next underflow.
LEMMA AlarmOfFresh ==
  ASSUME NEW s \in Timers, s.lag = 0, NEW t, t = ciat_set_alarm(s), Alarmed(s, t), Fit(t)
  PROVE  AlarmOf(t, t.alarm) /\ t.alarm > 0 /\ Within(s, t)
<1>1. Weak(s)
  BY DEF Alarmed, Fit, Weak
<1>2. AlarmOf(s, t.alarm) /\ (t.alarm > -s.lag \/ t.alarm = NEVER)
  BY <1>1, AlarmFacts
<1>3. AlarmOf(t, t.alarm)
  BY <1>2, AlarmedAlarm
<1>4. t.alarm > 0
  <2>1. s.lag \in Int /\ t.alarm \in Int
    BY DEF Alarmed, Timers
  <2> DEFINE l == s.lag
             e == t.alarm
  <2>2. l = 0 /\ e \in Int /\ (e > -l \/ e = NEVER)
    BY <1>2, <2>1
  <2> HIDE DEF l, e
  <2>3. e > 0
    BY <2>2, WordFacts
  <2> QED BY <2>3 DEF e
<1> QED BY <1>3, <1>4 DEF Alarmed, Within

\* Timer B is up to date, and no step is owed to it.
LEMMA TbHere ==
  ASSUME NEW a \in Timers, NEW b \in Timers, NEW k \in BOOLEAN, b.lag = 0, k => a.alarm > 0
  PROVE  TbOf(a, b, k) = b
<1>1. Now(b) = b
  BY NowNow
<1>2. CASE k
  BY <1>1, <1>2, TbAhead
<1>3. CASE ~k
  BY <1>1, <1>3 DEF TbOf
<1> QED BY <1>2, <1>3

\* Writing a latch register keeps it: of timer A by its new alarm, of timer B as
\* both chips have the same timer then.
LEMMA StoreLatchSoundB ==
  ASSUME SoundB, NEW r \in Written, NEW byte \in 0 .. BYTE - 1, StoreLatch(r, byte)
  PROVE  SoundB'
<1> DEFINE x == LatchRegisters[r][1]
           hi == LatchRegisters[r][2]
           b == Ifr(Update(cia, x), 0)
           y == IF x = "ta" THEN "tb" ELSE "ta"
           k == CountsBy(ctrl)
<1>1. Sound /\ Sound'
  BY StoreLatchSound DEF SoundB
<1>2. Here(cia) /\ accessed' = TRUE /\ ctrl' = ctrl
  BY <1>1, SoundHere DEF StoreLatch
<1>3. x \in TimerNames /\ hi \in BOOLEAN
  BY RegisterFacts
<1>4. /\ cia' = [b EXCEPT ![x] = ciat_set_alarm(SetLatch(@, hi, byte))]
      /\ chip' = [chip EXCEPT ![x] = SetLatch(@, hi, byte)]
  BY DEF StoreLatch
<1> HIDE DEF x, hi
<1>5. /\ Post(cia', 0) /\ cia'.tbt = b.tbt
      /\ b \in Chips /\ b[x].lag = 0 /\ b[x].n = 0
      /\ Alarmed(SetLatch(b[x], hi, byte), cia'[x])
      /\ cia'[x] = ciat_set_alarm(SetLatch(b[x], hi, byte)) /\ cia'[y] = b[y]
  BY <1>2, <1>3, <1>4, LatchPost
<1>6. /\ HoldsB(cia, b)
      /\ x = "ta" \/ CountsTa => b.ta.alarm > 0
  BY <1>2, <1>3, UpdateHereB
<1> HIDE DEF b
<1>7. Ruled(b, ctrl) /\ ShowsB(b, chip, ctrl)
  BY <1>6, RunShowsB DEF SoundB
<1>8. /\ b.ta \in Timers /\ b.tb \in Timers /\ chip \in Chips /\ chip.ta \in Timers
      /\ chip.tb \in Timers /\ b.tbt \in 0 .. 1
      /\ Plain(b.ta) /\ Plain(b.tb) /\ k \in BOOLEAN
  BY <1>1, <1>5, <1>7 DEF Sound, Chips, Ruled, RuledA, RuledB, CountsBy
<1>9. CASE x = "ta"
  <2> DEFINE s == SetLatch(b.ta, hi, byte)
             t == SetLatch(chip.ta, hi, byte)
  <2>1. cia'.ta = ciat_set_alarm(s) /\ Alarmed(s, cia'.ta) /\ cia'.tb = b.tb
    BY <1>5, <1>9
  <2>2. /\ s \in Timers /\ s.lag = 0 /\ s.state = b.ta.state /\ Plain(s) /\ t \in Timers
    BY <1>3, <1>5, <1>8, <1>9, LatchFacts
  <2>3. chip' = [chip EXCEPT !.ta = t]
    BY <1>4, <1>9
  <2> HIDE DEF s, t
  <2>4. chip'.tb = chip.tb /\ chip'.tbt = chip.tbt
    BY <1>8, <2>2, <2>3, SetFacts DEF SetTa
  <2>5. Fit(cia'.ta)
    BY <1>5 DEF Post, Pre
  <2>6. AlarmOf(cia'.ta, cia'.ta.alarm) /\ cia'.ta.alarm > 0 /\ Within(s, cia'.ta)
    BY <2>1, <2>2, <2>5, AlarmOfFresh
  <2>7. Within(b.ta, cia'.ta) /\ Plain(cia'.ta)
    BY <1>1, <2>2, <2>6 DEF Within, Sound
  <2>8. Ruled(cia', ctrl)
    BY <1>7, <2>1, <2>6, <2>7, WithinA DEF Ruled
  <2>9. TbOf(cia'.ta, cia'.tb, k) = Now(b.tb)
    BY <2>1, <2>6, TbAhead DEF Alarmed
  <2>10. TbOf(b.ta, b.tb, k) = Now(b.tb)
    BY <1>6, <1>8, <1>9, TbAhead
  <2>11. ShowsB(cia', chip', ctrl)
    BY <1>5, <1>7, <2>4, <2>9, <2>10 DEF ShowsB
  <2> QED BY <1>1, <1>2, <2>4, <2>8, <2>11 DEF SoundB
<1>10. CASE x = "tb"
  <2> DEFINE s == SetLatch(b.tb, hi, byte)
             t == SetLatch(chip.tb, hi, byte)
  <2>1. cia'.tb = ciat_set_alarm(s) /\ Alarmed(s, cia'.tb) /\ cia'.ta = b.ta
    BY <1>5, <1>10
  <2>2. /\ s \in Timers /\ s.lag = 0 /\ s.n = 0 /\ s.state = b.tb.state /\ Plain(s)
        /\ t \in Timers /\ t.state = chip.tb.state /\ t.n = chip.tb.n
    BY <1>3, <1>5, <1>8, <1>10, LatchFacts
  <2>3. chip' = [chip EXCEPT !.tb = t]
    BY <1>4, <1>10
  <2>4. k => b.ta.alarm > 0
    BY <1>6, CountsCtrl
  <2>5. TbOf(b.ta, b.tb, k) = b.tb
    <3> HIDE DEF k
    <3> QED BY <1>5, <1>8, <1>10, <2>4, TbHere
  <2>6. Same(b.tb, chip.tb) /\ (b.tbt + b.tb.n) % 2 = chip.tbt
    BY <1>7, <2>5 DEF ShowsB
  <2>7. Same(s, t)
    BY <1>3, <1>8, <2>6, LatchSame
  <2> HIDE DEF s, t
  <2>8. chip'.tb = t /\ chip'.tbt = chip.tbt
    BY <1>8, <2>2, <2>3, SetFacts DEF SetTb
  <2>9. Fit(cia'.tb)
    BY <1>5 DEF Post, Pre
  <2>10. AlarmOf(cia'.tb, cia'.tb.alarm) /\ Within(s, cia'.tb)
    BY <2>1, <2>2, <2>9, AlarmOfFresh
  <2>11. /\ cia'.tb \in Timers /\ cia'.tb.lag = 0 /\ cia'.tb.n = 0 /\ Same(cia'.tb, t)
         /\ Plain(cia'.tb)
    BY <2>1, <2>2, <2>7, AlarmedFacts DEF Alarmed, Same
  <2>12. RuledB(cia'.tb, ctrl)
    <3>1. Within(b.tb, cia'.tb)
      BY <2>2, <2>10 DEF Within
    <3> QED BY <1>7, <2>10, <2>11, <3>1, WithinB DEF Ruled
  <2>13. Ruled(cia', ctrl)
    BY <1>7, <2>1, <2>12 DEF Ruled
  <2>14. TbOf(cia'.ta, cia'.tb, k) = cia'.tb
    <3> HIDE DEF k
    <3> QED BY <1>8, <2>1, <2>4, <2>11, TbHere
  <2>15. (cia'.tbt + cia'.tb.n) % 2 = chip'.tbt
    <3>1. b.tb.n = 0
      BY <1>5, <1>10
    <3> QED BY <1>5, <2>6, <2>8, <2>11, <3>1
  <2>16. ShowsB(cia', chip', ctrl)
    BY <2>8, <2>11, <2>14, <2>15 DEF ShowsB
  <2>17. OneCycle(chip'.tb)
    BY <2>2, <2>8 DEF SoundB, OneCycle
  <2> QED BY <1>1, <1>2, <2>13, <2>16, <2>17 DEF SoundB
<1> QED BY <1>3, <1>9, <1>10 DEF TimerNames

\* So does writing CRA.
LEMMA StoreCraSoundB ==
  ASSUME SoundB, NEW byte, StoreCra(byte)
  PROVE  SoundB'
<1> DEFINE g == "START" \in byte /\ "START" \notin ctrl.ta
           b == cia_update_ta(cia, 0)
           s == SetCtrl(b.ta, byte)
           t == SetCtrl(chip.ta, byte)
           h == IF g THEN 1 ELSE chip.tat
           k == CountsBy(ctrl)
           l == CountsBy(ctrl')
<1>1. Sound /\ Sound'
  BY StoreCraSound DEF SoundB
<1>2. Here(cia) /\ accessed' = TRUE
  BY <1>1, SoundHere DEF StoreCra
<1>3. /\ cia' = Ifr([[b EXCEPT !.tat = IF g THEN 1 ELSE @, !.ta = SetCtrl(@, byte)]
                       EXCEPT !.ta = ciat_set_alarm(@)], 0)
      /\ chip' = [chip EXCEPT !.tat = h, !.ta = t]
      /\ ctrl' = [ctrl EXCEPT !.ta = byte \ {"FLOAD"}]
  BY DEF StoreCra
<1>4. g \in BOOLEAN
  OBVIOUS
<1> HIDE DEF g
<1>5. /\ Post(cia', 0) /\ Upd(cia, b, 0) /\ b.ta.lag = 0 /\ b.ta.n = 0
      /\ cia'.ta = ciat_set_alarm(s) /\ Alarmed(s, cia'.ta)
      /\ cia'.tb = b.tb /\ cia'.tbt = b.tbt
  <2> DEFINE d == Ifr([[b EXCEPT !.tat = IF g THEN 1 ELSE @, !.ta = SetCtrl(@, byte)]
                        EXCEPT !.ta = ciat_set_alarm(@)], 0)
  <2>1. /\ Post(d, 0) /\ Upd(cia, b, 0) /\ b.ta.lag = 0 /\ b.ta.n = 0
        /\ d.ta = ciat_set_alarm(s) /\ Alarmed(s, d.ta) /\ d.tb = b.tb /\ d.tbt = b.tbt
    BY <1>2, <1>4, CraPost
  <2>2. cia' = d
    BY <1>3
  <2> HIDE DEF d, b, s
  <2> QED BY <2>1, <2>2
<1>6. Pre(cia, 0)
  BY <1>2 DEF Here, Post
<1>7. HoldsB(cia, b) /\ Coming(b.ta, 0)
  BY <1>6, UpdTa, UpdTaB
<1> HIDE DEF b
<1>8. Ruled(b, ctrl) /\ ShowsB(b, chip, ctrl)
  BY <1>7, RunShowsB DEF SoundB
<1>9. b.ta \in Timers /\ b.tb \in Timers /\ chip \in Chips
  BY <1>1, <1>5 DEF Upd, Pre, Sound, Chips
<1>10. b.ta.alarm > 0
  BY <1>7 DEF Coming
<1>11. chip'.tb = chip.tb /\ chip'.tbt = chip.tbt
  <2> HIDE DEF h, t
  <2> QED BY <1>3, <1>9 DEF Chips
<1>12. ctrl' = [x \in TimerNames |-> ctrl'[x]] /\ ctrl'.ta = byte \ {"FLOAD"} /\ ctrl'.tb = ctrl.tb
  BY <1>3 DEF SoundB, TimerNames
<1>13. /\ s \in Timers /\ s.lag = 0
       /\ "START" \in s.state <=> "START" \in byte
       /\ "CR_ONESHOT" \in s.state <=> "CR_ONESHOT" \in byte
       /\ "PHI2IN" \in s.state <=> "INMODE" \notin byte
  BY <1>5, <1>9, CtrlFacts
<1> HIDE DEF s
<1>14. Fit(cia'.ta)
  BY <1>5 DEF Post, Pre
<1>15. AlarmOf(cia'.ta, cia'.ta.alarm) /\ cia'.ta.alarm > 0 /\ Within(s, cia'.ta)
  BY <1>5, <1>13, <1>14, AlarmOfFresh
<1>16. cia'.ta \in Timers /\ cia'.ta.state = s.state
  BY <1>5 DEF Alarmed
<1>17. RuledA(cia'.ta, ctrl')
  BY <1>1, <1>12, <1>13, <1>15, <1>16 DEF RuledA, Sound
<1>18. RuledB(cia'.tb, ctrl')
  BY <1>5, <1>8, <1>12 DEF Ruled, RuledB
<1>19. TbOf(b.ta, b.tb, k) = Now(b.tb)
  BY <1>9, <1>10, TbAhead
<1>20. TbOf(cia'.ta, cia'.tb, l) = Now(b.tb)
  BY <1>5, <1>15, <1>16, TbAhead
<1>21. ShowsB(cia', chip', ctrl')
  BY <1>5, <1>8, <1>11, <1>19, <1>20 DEF ShowsB
<1> QED BY <1>1, <1>2, <1>11, <1>12, <1>17, <1>18, <1>21 DEF SoundB, Ruled

\* The underflow of a timer in this cycle shows as its output.
LEMMA UnderflowShows ==
  ASSUME NEW s \in Timers, s.lag \in Nat, s.n = 0, AlarmOf(s, s.alarm), s.alarm >= 0,
         s.lag > 0 \/ "OUT" \notin s.state
  PROVE  Now(s).n = IF "OUT" \in Now(s).state THEN 1 ELSE 0
<1>1. CASE s.lag = 0
  <2>1. Now(s) = s
    BY <1>1, NowNow
  <2> QED BY <1>1, <2>1
<1>2. CASE s.lag # 0
  <2> DEFINE j == s.lag - 1
             u == After(s, j)
  <2>1. j \in Nat /\ j + 1 = s.lag
    BY <1>2
  <2>2. u \in Timers /\ Now(s) = Turn(u)
    <3> HIDE DEF j
    <3>1. After(s, j) \in Timers /\ After(s, j + 1) = Turn(After(s, j))
      BY <2>1, RunFacts
    <3> QED BY <2>1, <3>1 DEF Now
  <2>3. u.n = 0
    <3> HIDE DEF j
    <3>1. CASE Silent(s)
      BY <2>1, <3>1 DEF Silent
    <3>2. CASE ~Silent(s)
      <4>1. PICK k \in Nat : First(s, k) /\ s.alarm = k - s.lag
        BY <3>2 DEF AlarmOf
      <4> DEFINE m == k - 1
      <4>2. m \in Nat /\ j <= m /\ After(s, m).n = 0
        <5>1. k \in Nat \ {0} /\ After(s, k - 1).n = 0
          BY <4>1 DEF First
        <5> QED BY <2>1, <4>1, <5>1
      <4> HIDE DEF m
      <4>3. u.n <= 0
        BY <2>1, <4>2, AfterGrows
      <4>4. u.n >= 0 /\ u.n \in Nat
        BY <2>2 DEF Timers
      <4> QED BY <4>3, <4>4
    <3> QED BY <3>1, <3>2
  <2> HIDE DEF u
  <2>4. "OUT" \in Turn(u).state <=> Underflows(u)
    BY <2>2, TurnBits
  <2>5. Turn(u).n = IF Underflows(u) THEN 1 ELSE 0
    BY <2>2, <2>3, TurnFacts
  <2> QED BY <2>2, <2>4, <2>5
<1> QED BY <1>1, <1>2

\* So does writing CRB: an underflow in this very cycle toggles once more, in
\* both chips.
LEMMA StoreCrbSoundB ==
  ASSUME SoundB, ~StopInStep, NEW byte, StoreCrb(byte)
  PROVE  SoundB'
<1> DEFINE g == "START" \in byte /\ "START" \notin ctrl.tb
           q == "INMODE_TA" \in byte
           mode == IF q THEN byte \cup {"INMODE"} ELSE byte
           f == IF g THEN 1 ELSE cia.tbt
           a == Toggled(cia, f)
           b == UpdateBoth(a, 0)
           d == IF q THEN ciat_set_alarm(b.ta) ELSE b.ta
           u == ciat_set_alarm(SetCtrl(b.tb, mode))
           s == SetCtrl(b.tb, mode)
           t == SetCtrl(chip.tb, mode)
           h == IF g THEN (1 + chip.tb.n) % 2 ELSE chip.tbt
           k == CountsBy(ctrl)
           l == CountsBy(ctrl')
<1>1. Sound /\ Sound'
  BY StoreCrbSound DEF SoundB
<1>2. /\ Here(cia) /\ accessed' = TRUE /\ ~accessed /\ "STEP" \notin chip.tb.state
      /\ \A e \in Alarms(cia) : e >= 0
  BY <1>1, SoundHere DEF StoreCrb, Access
<1>3. /\ cia' = Ifr(Stored(b, d, u), 0)
      /\ chip' = [chip EXCEPT !.tbt = h, !.tb = t]
      /\ ctrl' = [ctrl EXCEPT !.tb = byte \ {"FLOAD"}]
  BY DEF StoreCrb, Toggled, Stored
<1>4. /\ g \in BOOLEAN /\ q \in BOOLEAN
      /\ "START" \in mode <=> "START" \in byte
      /\ q => "INMODE" \in mode
      /\ q <=> "INMODE_TA" \in byte \ {"FLOAD"}
      /\ "START" \in byte <=> "START" \in byte \ {"FLOAD"}
      /\ g => "START" \notin ctrl.tb
  OBVIOUS
<1> HIDE DEF g, q, mode
<1>5. /\ Post(cia', 0) /\ Here(a) /\ b.tb.lag = 0 /\ b.tb.n = 0
      /\ cia'.ta = d /\ Alarmed(b.ta, cia'.ta)
      /\ cia'.tb = ciat_set_alarm(s) /\ Alarmed(s, cia'.tb) /\ cia'.tbt = b.tbt
  <2>1. f \in 0 .. 1 /\ (d = b.ta \/ d = ciat_set_alarm(b.ta))
    BY <1>1 DEF Sound, Behind, Chips
  <2> HIDE DEF f, d
  <2>2. a = Toggled(cia, f) /\ b = UpdateBoth(a, 0)
        /\ u = ciat_set_alarm(SetCtrl(b.tb, mode))
    OBVIOUS
  <2> HIDE DEF a, b, u
  <2> QED BY <1>2, <1>3, <2>1, <2>2, CrbPost DEF s
<1>6. /\ cia \in Chips /\ chip \in Chips /\ chip.tb \in Timers /\ cia.ta \in Timers
      /\ cia.tb \in Timers /\ cia.tb.lag \in Nat /\ cia.tb.n = 0 /\ cia.tb.alarm >= 0
      /\ chip.tbt \in 0 .. 1
  BY <1>1, <1>2 DEF Sound, Behind, Chips, Timers, Alarms
<1>7. a.ta = cia.ta /\ a.tb = cia.tb /\ a.tbt = (IF g THEN 1 ELSE cia.tbt)
  BY <1>6 DEF Chips, Toggled
<1> HIDE DEF a
<1>8. Pre(a, 0)
  BY <1>5 DEF Here, Post
<1>9. HoldsB(a, b)
  BY <1>8, UpdBothB
<1>10. Ruled(a, ctrl)
  BY <1>7 DEF SoundB, Ruled
<1>11. Here(b) /\ b.ta.lag = 0 /\ b.ta.alarm > 0
  BY <1>5, BothHere DEF Coming
<1> HIDE DEF b
<1>12. Ruled(b, ctrl) /\ RunB(a, b, ctrl)
  BY <1>9, <1>10 DEF HoldsB
<1>13. b \in Chips /\ b.ta \in Timers /\ b.tb \in Timers /\ b.tbt \in 0 .. 1
  BY <1>11 DEF Here, Post, Pre, Chips
<1>14. k \in BOOLEAN /\ l \in BOOLEAN
  BY DEF CountsBy
<1>15. TbOf(b.ta, b.tb, k) = b.tb
  <2> HIDE DEF k
  <2> QED BY <1>5, <1>11, <1>13, <1>14, TbHere
<1> DEFINE r == TbOf(cia.ta, cia.tb, k)
<1>16. Same(r, b.tb) /\ (a.tbt + r.n) % 2 = b.tbt
  <2>1. (b.tbt + b.tb.n) % 2 = b.tbt
    BY <1>5, <1>13
  <2> QED BY <1>7, <1>12, <1>15, <2>1 DEF RunB, SameTb
<1>17. Same(r, chip.tb) /\ (cia.tbt + r.n) % 2 = chip.tbt
  BY DEF SoundB, ShowsB
<1> HIDE DEF r
<1>18. Same(b.tb, chip.tb)
  BY <1>16, <1>17 DEF Same
<1>19. b.tbt = h
  <2>1. CASE ~g
    BY <1>7, <1>16, <1>17, <2>1
  <2>2. CASE g
    <3>1. "START" \notin ctrl.tb
      BY <1>4, <2>2
    <3>2. r = Now(cia.tb)
      BY <3>1 DEF r, TbOf, CountsBy
    <3>3. AlarmOf(cia.tb, cia.tb.alarm)
      BY <3>1 DEF SoundB, Ruled, RuledB
    <3>4. cia.tb.lag > 0 \/ "OUT" \notin cia.tb.state
      BY <1>2 DEF SoundB
    <3>5. r.n = IF "OUT" \in r.state THEN 1 ELSE 0
      BY <1>6, <3>2, <3>3, <3>4, UnderflowShows
    <3>6. r \in Timers
      BY <1>6, <3>2, RunFacts DEF Now
    <3>7. "OUT" \in r.state <=> "OUT" \in chip.tb.state
      BY <1>6, <1>17, <3>6, SameBits DEF Same
    <3>8. chip.tb.n = r.n
      BY <3>5, <3>7 DEF SoundB, OneCycle
    <3> QED BY <1>7, <1>16, <2>2, <3>8
  <2> QED BY <2>1, <2>2
<1>20. /\ s \in Timers /\ s.lag = 0 /\ s.n = 0
       /\ "START" \in s.state <=> "START" \in mode
       /\ "PHI2IN" \in s.state <=> "INMODE" \notin mode
       /\ "STEP" \in s.state <=> "STEP" \in b.tb.state
  BY <1>5, <1>13, CtrlFacts
<1>21. t \in Timers /\ t.n = chip.tb.n /\ ("OUT" \in t.state <=> "OUT" \in chip.tb.state)
  <2>1. t \in Timers /\ t.state = CtrlState(chip.tb.state, mode) /\ t.n = chip.tb.n
    BY <1>6, CtrlFacts
  <2>2. "OUT" \in CtrlState(chip.tb.state, mode) <=> "OUT" \in chip.tb.state
    BY DEF CtrlState
  <2> HIDE DEF t
  <2> QED BY <2>1, <2>2
<1>22. Same(s, t)
  BY <1>6, <1>13, <1>18, CtrlSame
<1> HIDE DEF s, t
<1>23. h \in 0 .. 1
  BY <1>13, <1>19
<1> HIDE DEF h
<1>24. chip'.tb = t /\ chip'.tbt = h
  BY <1>3, <1>6, <1>21, <1>23 DEF Chips
<1>25. /\ ctrl' = [x \in TimerNames |-> ctrl'[x]] /\ ctrl'.tb = byte \ {"FLOAD"}
       /\ ctrl'.ta = ctrl.ta
  BY <1>3 DEF SoundB, TimerNames
<1>26. Fit(cia'.ta) /\ Fit(cia'.tb)
  BY <1>5 DEF Post, Pre
<1>27. AlarmOf(cia'.tb, cia'.tb.alarm)
  BY <1>5, <1>20, <1>26, AlarmOfFresh
<1>28. q => AlarmOf(cia'.ta, cia'.ta.alarm) /\ cia'.ta.alarm > 0
  BY <1>5, <1>11, <1>13, <1>26, AlarmOfFresh
<1>29. cia'.ta \in Timers /\ cia'.ta.alarm > 0 /\ Within(b.ta, cia'.ta)
  BY <1>5, <1>11, <1>28 DEF Alarmed, Within
<1>30. /\ cia'.tb \in Timers /\ cia'.tb.state = s.state /\ cia'.tb.lag = 0 /\ cia'.tb.n = 0
       /\ Same(cia'.tb, t)
  BY <1>5, <1>20, <1>22, AlarmedFacts DEF Alarmed, Same
<1>31. RuledA(cia'.ta, ctrl')
  <2>1. RuledA(b.ta, ctrl)
    BY <1>12 DEF Ruled
  <2>2. l => q
    BY <1>4, <1>25 DEF CountsBy
  <2>3. CountsBy(ctrl') => AlarmOf(cia'.ta, cia'.ta.alarm)
    BY <1>28, <2>2
  <2>4. Plain(cia'.ta)
    BY <1>1 DEF Sound
  <2> QED BY <1>25, <1>29, <2>1, <2>3, <2>4 DEF RuledA, Within
<1>32. RuledB(cia'.tb, ctrl')
  <2>1. "STEP" \notin b.tb.state
    BY <1>2, <1>6, <1>13, <1>18, SameBits DEF Same
  <2>2. Plain(cia'.tb)
    BY <1>20, <1>30, <2>1 DEF Plain
  <2>3. "START" \in cia'.tb.state => "START" \in ctrl'.tb
    BY <1>4, <1>20, <1>25, <1>30
  <2>4. "INMODE_TA" \in ctrl'.tb => "PHI2IN" \notin cia'.tb.state
    BY <1>4, <1>20, <1>25, <1>30
  <2> QED BY <1>27, <2>2, <2>3, <2>4 DEF RuledB
<1>33. TbOf(cia'.ta, cia'.tb, l) = cia'.tb
  <2> HIDE DEF l
  <2> QED BY <1>14, <1>29, <1>30, TbHere
<1>34. (cia'.tbt + cia'.tb.n) % 2 = chip'.tbt
  BY <1>5, <1>13, <1>19, <1>24, <1>30
<1>35. ShowsB(cia', chip', ctrl')
  BY <1>24, <1>30, <1>33, <1>34 DEF ShowsB
<1>36. OneCycle(chip'.tb)
  BY <1>21, <1>24 DEF SoundB, OneCycle
<1> QED BY <1>1, <1>2, <1>25, <1>31, <1>32, <1>35, <1>36 DEF SoundB, Ruled

\* Every step keeps the invariant.
LEMMA NextSoundB ==
  ASSUME ~StopInStep, SoundB, [Next]_vars
  PROVE  SoundB'
<1>1. CASE Tick
  BY <1>1, TickSoundB
<1>2. CASE NoAccess
  <2>1. Sound'
    BY NextSound DEF SoundB
  <2> QED BY <1>2, <2>1 DEF NoAccess, SoundB
<1>3. CASE Dispatch
  BY <1>3, DispatchSoundB
<1>4. CASE ReadIcr
  BY <1>4, ReadIcrSoundB
<1>5. CASE \E x \in TimerNames : Read(x)
  BY <1>5, ReadSoundB
<1>6. CASE \E r \in Written, byte \in 0 .. BYTE - 1 : StoreLatch(r, byte)
  BY <1>6, StoreLatchSoundB
<1>7. CASE \E byte \in Masks : StoreIcr(byte)
  BY <1>7, StoreIcrSoundB
<1>8. CASE \E byte \in Cra : StoreCra(byte)
  BY <1>8, StoreCraSoundB
<1>9. CASE \E byte \in Crb : StoreCrb(byte)
  BY <1>9, StoreCrbSoundB
<1>10. CASE UNCHANGED vars
  <2>1. Sound'
    BY NextSound DEF SoundB
  <2> QED BY <1>10, <2>1 DEF vars, SoundB
<1> QED BY <1>1, <1>2, <1>3, <1>4, <1>5, <1>6, <1>7, <1>8, <1>9, <1>10 DEF Next

\* The inductive invariant for timer B holds, also when timer B counts the
\* underflows of timer A, unless CRB is written in the cycle of a step of timer B
\* (StopInStep, see the finding on ciatimer.h).
THEOREM CiaSoundB ==
  ASSUME ~StopInStep
  PROVE  Spec => []SoundB
<1>1. Init => SoundB
  BY InitSoundB
<1>2. SoundB /\ [Next]_vars => SoundB'
  BY NextSoundB
<1> QED BY <1>1, <1>2, PTL DEF Spec

\* Timer B is exact, on its own and when it counts the underflows of timer A:
\* the program sees its counter, whether it runs, and what it shows on PB7 as in
\* a chip that runs in every cycle, whatever was written when, and however late
\* the alarms that step it ran.
THEOREM CiaTimerB ==
  ASSUME ~StopInStep
  PROVE  Spec => []TimerBExact
<1>1. SoundB => TimerBExact
  <2> SUFFICES ASSUME SoundB, ~accessed, \A a \in Alarms(cia) : a >= 0,
                      NEW seen, seen = UpToDate(cia)
               PROVE  /\ seen.tb.cnt = chip.tb.cnt
                      /\ seen.tb.state \cap {"START", "OUT"} = chip.tb.state \cap {"START", "OUT"}
                      /\ seen.tbt = chip.tbt
    BY DEF TimerBExact, Looks, Shown
  <2> DEFINE k == CountsBy(ctrl)
  <2>1. Here(cia)
    BY BehindHere DEF SoundB, Sound
  <2>2. HoldsB(cia, seen) /\ Post(seen, 0) /\ seen.tb.lag = 0 /\ seen.ta.alarm > 0
    BY <2>1, UpToDateB
  <2>3. ShowsB(seen, chip, ctrl)
    BY <2>2, RunShowsB DEF SoundB
  <2>4. /\ seen.ta \in Timers /\ seen.tb \in Timers /\ seen.tb.n = 0 /\ seen.tbt \in 0 .. 1
        /\ k \in BOOLEAN
    BY <2>2 DEF Post, Pre, Chips, CountsBy
  <2>5. TbOf(seen.ta, seen.tb, k) = seen.tb
    <3> HIDE DEF k
    <3> QED BY <2>2, <2>4, TbHere
  <2>6. Same(seen.tb, chip.tb) /\ (seen.tbt + seen.tb.n) % 2 = chip.tbt
    BY <2>3, <2>5 DEF ShowsB
  <2>7. seen.tbt = chip.tbt
    BY <2>4, <2>6
  <2> QED BY <2>6, <2>7 DEF Same
<1> QED BY <1>1, CiaSoundB, PTL
=============================================================================
