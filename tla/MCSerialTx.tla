----------------------------- MODULE MCSerialTx -----------------------------
EXTENDS SerialTx

CONSTANTS proto, tick

\* Frames shorter and longer than the ring, and one of 2 * TxSize bytes, the
\* shortest that is polled, before, between or after them.
MCFrames == proto :> <<5, 8>> @@ tick :> <<3, 8, 1>>
=============================================================================
