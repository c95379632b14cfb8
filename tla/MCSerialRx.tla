----------------------------- MODULE MCSerialRx -----------------------------
EXTENDS SerialRx
=============================================================================
