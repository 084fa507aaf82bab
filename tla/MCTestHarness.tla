---------------------------- MODULE MCTestHarness -----------------------------
(* Two commands, any of the thirteen each, on a disk that starts empty.      *)
EXTENDS TestHarness

\* Logs of a run: the milestones and the ways they may be short, repeated, out of
\* order, cut or followed by a panic, with and without other output.
MCLogs(expected) ==
  LET whole == Printed(expected)
      n == Len(expected)
      noise == Line("noise", FALSE)
  IN {<<>>, <<noise>>, whole, <<noise>> \o whole, SubSeq(whole, 1, n - 1),
      Append(whole, whole[n]), [whole EXCEPT ![1] = whole[2], ![2] = whole[1]],
      [whole EXCEPT ![n].crlf = FALSE], Append(whole, Line("P1C:PANIC", TRUE))}
=============================================================================
