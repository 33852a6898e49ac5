------------------------------ MODULE FlicFeed ------------------------------
(***************************************************************************)
(* What the main thread may believe of the packets it reads from the pipe: *)
(* every one of them, the pings of the reader aside, tells of an event     *)
(* flicd sent; the events come in the order sent, none twice, and none is  *)
(* skipped, until a failure of the link cuts the feed short.               *)
(***************************************************************************)
EXTENDS Sequences, Naturals

CONSTANT Tellings   \* the messages that tell of an event

VARIABLES
  due,   \* events sent and not yet read by the main thread, oldest first
  cut,   \* has the link or the reader failed
  act    \* the event sent or read in the last step: none or one

vars == <<due, cut, act>>

Init == due = <<>> /\ cut = FALSE /\ act = {}

EventSent ==
  /\ ~cut
  /\ \E t \in Tellings : due' = Append(due, t) /\ act' = {[sent |-> t]}
  /\ UNCHANGED cut

\* Nobody receives it any more.
EventSentInVain ==
  /\ cut
  /\ \E t \in Tellings : act' = {[sent |-> t]}
  /\ UNCHANGED <<due, cut>>

EventRead ==
  /\ due # <<>>
  /\ due' = Tail(due)
  /\ act' = {[read |-> Head(due)]}
  /\ UNCHANGED cut

\* The link or the reader fails: the events behind some point are lost.
CutShort ==
  /\ cut' = TRUE
  /\ \E n \in 0..Len(due) : due' = SubSeq(due, 1, n)
  /\ act' = {}

\* Anything else the threads do, a ping included.
Quiet ==
  /\ act' = {}
  /\ UNCHANGED <<due, cut>>

Next == EventSent \/ EventSentInVain \/ EventRead \/ CutShort \/ Quiet

Spec == Init /\ [][Next]_vars
=============================================================================
