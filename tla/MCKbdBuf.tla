------------------------------ MODULE MCKbdBuf ------------------------------
\* A small instance of the keyboard buffer queue for TLC.
EXTENDS KbdBuf

\* Texts without a RETURN, with one at either end, and as long as the queue.
Texts == {<<65>>, <<13>>, <<66, 13>>, <<65, 13, 66>>}
==============================================================================
