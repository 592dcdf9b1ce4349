---------------------------- MODULE MCUartFrame ----------------------------
(***************************************************************************)
(* Instance of UartFrame for TLC: the real sync bytes, a few packets.      *)
(***************************************************************************)
EXTENDS UartFrame, TLC, Bitwise

CONSTANTS t1, t2

Nibbles == [a \in 0..15, b \in 0..15 |-> a ^^ b]
MCByteXor(a, b) == 16 * Nibbles[a \div 16, b \div 16] + Nibbles[a % 16, b % 16]

\* The threads run the same code.
Swap == Permutations(Threads)

\* A PKT_CALL_STOP, a PKT_MIC_DATA, and one whose payload looks like the start of a frame.
SomePackets == {[type |-> 8, payload |-> <<>>], [type |-> 5, payload |-> <<0, 3>>],
                [type |-> 2, payload |-> <<SYNC_0, SYNC_1, 1, 0>>]}

\* Zeroes and small numbers make lengths, sync bytes make false starts.
SomeNoise == {0, 1, 4, SYNC_0, SYNC_1}

=============================================================================
