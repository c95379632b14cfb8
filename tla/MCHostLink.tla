----------------------------- MODULE MCHostLink -----------------------------
EXTENDS HostLink

Call(id, empty_ok, retries) ==
  [id |-> id, empty_ok |-> empty_ok, retries |-> retries]

\* SdClient's calls with their retries.  The first format may still be under
\* way when the second one comes.
MCAlternating ==
  <<Call("format", TRUE, 2), Call("mkdir", TRUE, 1), Call("format", TRUE, 2),
    Call("stat", FALSE, 2)>>

\* test_sdcard_basic: a file written in two chunks, then its size.
MCTwoWrites ==
  <<Call("write", TRUE, 1), Call("write", TRUE, 1), Call("stat", FALSE, 2)>>
=============================================================================
