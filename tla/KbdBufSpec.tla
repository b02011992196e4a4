----------------------------- MODULE KbdBufSpec -----------------------------
(***************************************************************************)
(* What src/kbdbuf.c promises: text that is fed to the emulated machine    *)
(* arrives in the keyboard buffer of its Kernal as it was fed, every       *)
(* character once and in order, except that a reset may drop all of what   *)
(* still waits.                                                            *)
(***************************************************************************)
EXTENDS Naturals, Sequences

CONSTANT Strings      \* the texts that may be fed

VARIABLES
  waiting,            \* fed, but not in the Kernal's buffer yet
  kernal              \* the Kernal's buffer

Init == waiting \in Strings \cup {<<>>} /\ kernal = <<>>

\* A text is fed (the empty one: nothing is), and the first k of the
\* characters that wait move to the Kernal.
Move ==
  \E s \in Strings \cup {<<>>} :
    LET all == waiting \o s
    IN  \E k \in 0 .. Len(all) :
          /\ kernal' = kernal \o SubSeq(all, 1, k)
          /\ waiting' = SubSeq(all, k + 1, Len(all))

Drop == waiting' = <<>> /\ UNCHANGED kernal

\* The Kernal takes a character, or clears its buffer.
KernalTakes == kernal # <<>> /\ kernal' = Tail(kernal) /\ UNCHANGED waiting
KernalClears == kernal' = <<>> /\ UNCHANGED waiting

Next == Move \/ Drop \/ KernalTakes \/ KernalClears

Spec == Init /\ [][Next]_<<waiting, kernal>>

=============================================================================
