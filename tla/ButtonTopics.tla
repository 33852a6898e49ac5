---------------------------- MODULE ButtonTopics ----------------------------
(***************************************************************************)
(* What the topics of a button promise to an MQTT subscriber, told with    *)
(* nothing but what the subscriber can see (README.md, "MQTT topics        *)
(* created/updated").  It does not know the counters of the program.       *)
(*                                                                         *)
(*   - "state" alternates between On and Off;                              *)
(*   - a hold is announced while the button is On, at most once, and is    *)
(*     closed after the button is Off and before it is On again;           *)
(*   - a hold of the first press is announced on hold, one of the second,  *)
(*     a click then hold, on clickhold;                                    *)
(*   - one press ends on click or holdup, two presses on clickclick or     *)
(*     clickholdup.                                                        *)
(***************************************************************************)
EXTENDS FlicPipe, Naturals

CONSTANT Buttons

VARIABLES
  light,    \* light[b]: the last state message of b
  presses,  \* presses[b]: On messages of b since its last closing event
  open,     \* open[b]: the hold announced for b and not closed, or "none"
  out       \* the set of messages the last step wrote: none or one

vars == <<light, presses, open, out>>

Init ==
  /\ light = [b \in Buttons |-> "Off"]
  /\ presses = [b \in Buttons |-> 0]
  /\ open = [b \in Buttons |-> "none"]
  /\ out = {}

Press(b) ==
  /\ light[b] = "Off"
  /\ open[b] = "none"
  /\ presses[b] < 2
  /\ light' = [light EXCEPT ![b] = "On"]
  /\ presses' = [presses EXCEPT ![b] = @ + 1]
  /\ out' = {ButtonWrite(b, "BUTT_STATE", "On")}
  /\ UNCHANGED open

Release(b) ==
  /\ light[b] = "On"
  /\ light' = [light EXCEPT ![b] = "Off"]
  /\ out' = {ButtonWrite(b, "BUTT_STATE", "Off")}
  /\ UNCHANGED <<presses, open>>

HoldKind(b) == IF presses[b] = 2 THEN "clickhold" ELSE "hold"

AnnounceAs(b, kind) ==
  /\ light[b] = "On"
  /\ open[b] = "none"
  /\ open' = [open EXCEPT ![b] = kind]
  /\ out' = {ButtonWrite(b, IF kind = "hold" THEN "BUTT_HOLD" ELSE "BUTT_CLICKHOLD", "time")}
  /\ UNCHANGED <<light, presses>>

Announce(b) == AnnounceAs(b, HoldKind(b))

\* The topic that closes a gesture of one or two presses.
ClosingMode(b) ==
  CASE open[b] = "none" /\ presses[b] = 1 -> "BUTT_CLICK"
    [] open[b] = "none" /\ presses[b] = 2 -> "BUTT_CLICKCLICK"
    [] open[b] # "none" /\ presses[b] = 1 -> "BUTT_HOLD_UP"
    [] open[b] # "none" /\ presses[b] = 2 -> "BUTT_CLICKHOLD_UP"

Close(b) ==
  /\ light[b] = "Off"
  /\ presses[b] \in 1..2
  /\ out' = {ButtonWrite(b, ClosingMode(b), "time")}
  /\ presses' = [presses EXCEPT ![b] = 0]
  /\ open' = [open EXCEPT ![b] = "none"]
  /\ UNCHANGED light

\* A packet that is not about a press: nothing is written, or availability.
Notice ==
  /\ out' \in {{}, {AvailWrite(TRUE)}}
  /\ UNCHANGED <<light, presses, open>>

Next ==
  \/ \E b \in Buttons : Press(b) \/ Release(b) \/ Announce(b) \/ Close(b)
  \/ Notice

Spec == Init /\ [][Next]_vars
=============================================================================
