---------------------------- MODULE MCCommands ------------------------------
EXTENDS Commands

R(op, args) == [op |-> op, args |-> args, data |-> <<>>]
W(i) == <<"w", i>>
Write(addr, len, n) == [R("mem_write", <<addr, len>>) EXCEPT !.data = [i \in 1 .. n |-> W(i)]]

MCPanelId == <<"panel">>
MCHash == <<"hash">>

MCRequest ==
  {R(op, <<>>) : op \in Op \ {"echo", "mem_write", "disp_read"}} \cup
  {[R("echo", <<>>) EXCEPT !.data = <<W(1), W(2)>>],
   \* flash, the end of a RAM, past it, too long, nothing
   R("mem_read", <<1, 2>>), R("mem_read", <<11, 2>>), R("mem_read", <<6, 2>>),
   R("mem_read", <<9, 4>>), R("mem_read", <<0, 0>>),
   \* the end of a RAM, past it, flash, fewer bytes than announced
   Write(11, 2, 2), Write(6, 2, 2), Write(2, 1, 1), Write(9, 2, 1),
   R("disp_fill", <<200, 100, 50>>), R("disp_read", <<2, 0, 1, 2>>), R("disp_read", <<0, 1, 3, 1>>),
   \* the whole panel, beyond its right side, a size of more than a word
   R("disp_read", <<0, 0, 3, 2>>), R("disp_read", <<2, 1, 2, 1>>), R("disp_read", <<0, 0, 10, 13>>)}
=============================================================================
