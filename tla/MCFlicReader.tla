---------------------------- MODULE MCFlicReader ----------------------------
(***************************************************************************)
(* FlicReader with a few reports.                                          *)
(***************************************************************************)
EXTENDS FlicReader

Report(what, rest) == [what |-> what, conn |-> IF rest = <<>> THEN 1 ELSE 0, rest |-> rest]

Down == Report("DOWN", <<>>)
ChannelRemoved == Report("OTHER", <<3, 1>>)
\* A getInfo response as long as the list of its verified buttons makes it.
LongInfo == Report("INFO", [i \in 1..(Half - 1) |-> 0])

\* Without "UP", which begins a "CLICK", and "CONNECT", whose packet is as that of
\* "STATUS".
SomeReports ==
  {Report(what, <<>>) : what \in {"DOWN", "CLICK", "HOLD", "SINGLECLICK", "DOUBLECLICK", "STATUS"}}
    \union {ChannelRemoved, Report("INFO", <<0>>)}
TwoReports == {Down, ChannelRemoved}
LongReports == {LongInfo}

\* What malloc may leave: a length of nothing, one too long to come, and one that is
\* negative behind a byte that is no opcode, or the opcode of a press, of a click, of
\* an answer or of a notice nobody reads.
SomeGarbage ==
  {<<0, 0, 0>>, <<4, 0, 0>>, <<Half, 0, 0>>, <<4, Half, 0>>, <<6, Half, 0>>,
   <<9, Half, 0>>, <<3, Half, 0>>}
Zeros == {<<0, 0, 0>>}

\* The reports the events are kept for; the long one is not among them.
ASSUME SomeReportsAssumption == Reports # LongReports => FeedAssumption
=============================================================================
