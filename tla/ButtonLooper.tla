---------------------------- MODULE ButtonLooper ----------------------------
(***************************************************************************)
(* looper() of Flic2MQTT.cpp, the main thread's loop: it reads one packet  *)
(* of the pipe at a time, classifies presses into clicks and holds with    *)
(* three local variables, and hands messages to PahoWrapper.  main() calls *)
(* it once per epoch; every call starts with fresh locals.                 *)
(*                                                                         *)
(* The pipe is a FIFO with one writer, so the packets of one button are    *)
(* read in the order flicd sent them.  This module therefore takes each    *)
(* button's stream as it arrives at the read: at, presses and gone say     *)
(* where in a gesture the packets read so far have left the button.        *)
(***************************************************************************)
EXTENDS FlicPipe, Integers, FiniteSets

CONSTANT Buttons   \* the buttons with a FLIC_MAC_nn line (the code has room for 8)

ASSUME ButtonsAssumption == IsFiniteSet(Buttons)

VARIABLES
  held,     \* butt_held: is the button being held down
  downct,   \* butt_downct: down events since the last closing event
  holdCt,   \* how many buttons are being held down
  pc,       \* the main thread: "check" (top of the loop), "read" (in the
            \* blocking read), "epoch" (returned to main), "aborted"
  late,     \* the clock: GetTickCount() > gotill
  out,      \* what the last handled packet made looper write: none or one
  at,       \* external: where the button is in its gesture
  presses,  \* external: presses of the gesture so far
  gone      \* external: buttons whose connection channel was removed

locals == <<held, downct, holdCt>>
button == <<at, presses, gone>>
vars == <<held, downct, holdCt, pc, late, out, at, presses, gone>>

Places == {"rest", "down", "up", "held", "heldUp"}
HoldPlaces == {"held", "heldUp"}

FreshLocals ==
  /\ held' = [b \in Buttons |-> 0]
  /\ downct' = [b \in Buttons |-> 0]
  /\ holdCt' = 0

Init ==
  /\ held = [b \in Buttons |-> 0]
  /\ downct = [b \in Buttons |-> 0]
  /\ holdCt = 0
  /\ pc = "check"
  /\ late = FALSE
  /\ out = {}
  /\ at = [b \in Buttons |-> "rest"]
  /\ presses = [b \in Buttons |-> 0]
  /\ gone = {}

-----------------------------------------------------------------------------
(* The gestures looper is written for: one or two presses, the last of     *)
(* which may become a hold, then a closing single or double click.         *)

Gesture(b, status) ==
  /\ b \notin gone
  /\ \/ /\ status = "DOWN" /\ at[b] \in {"rest", "up"} /\ presses[b] < 2
        /\ at' = [at EXCEPT ![b] = "down"]
        /\ presses' = [presses EXCEPT ![b] = @ + 1]
     \/ /\ status = "HOLD" /\ at[b] = "down"
        /\ at' = [at EXCEPT ![b] = "held"]
        /\ UNCHANGED presses
     \/ /\ status = "UP" /\ at[b] \in {"down", "held"}
        /\ at' = [at EXCEPT ![b] = IF @ = "held" THEN "heldUp" ELSE "up"]
        /\ UNCHANGED presses
     \/ /\ \/ status = "SINGLECLICK" /\ presses[b] = 1
           \/ status = "DOUBLECLICK" /\ presses[b] = 2
        /\ at[b] \in {"up", "heldUp"}
        /\ at' = [at EXCEPT ![b] = "rest"]
        /\ presses' = [presses EXCEPT ![b] = 0]
  /\ UNCHANGED gone

\* flicd drops the channel (EVT_CONNECTION_CHANNEL_REMOVED).  The reader only
\* prints it, so the main thread does not learn of it; main never reconnects a
\* button, so no packet of it follows.
ChannelRemoved(b) ==
  /\ b \notin gone
  /\ gone' = gone \union {b}
  /\ UNCHANGED <<locals, pc, late, out, at, presses>>

\* The clock passes the deadline, or falls back below it (the tick count wraps).
Clock ==
  /\ late' = ~late
  /\ UNCHANGED <<locals, pc, out, button>>

-----------------------------------------------------------------------------
(* The branches of looper for a FLIC_UPDOWN packet. *)

\* A slip: the press is not counted.
DownUncounted(b) ==
  /\ out' = {ButtonWrite(b, "BUTT_STATE", "On")}
  /\ pc' = IF held[b] = 1 THEN "aborted" ELSE "check"
  /\ UNCHANGED <<held, downct, holdCt>>

\* The assertion comes last: the message is written and the press counted.
Down(b) ==
  /\ out' = {ButtonWrite(b, "BUTT_STATE", "On")}
  /\ downct' = [downct EXCEPT ![b] = @ + 1]
  /\ pc' = IF held[b] = 1 THEN "aborted" ELSE "check"
  /\ UNCHANGED <<held, holdCt>>

Up(b) ==
  /\ out' = {ButtonWrite(b, "BUTT_STATE", "Off")}
  /\ pc' = "check"
  /\ UNCHANGED <<held, downct, holdCt>>

\* A slip: any press before the hold makes it a click-then-hold.
HoldModeAnyPress(b) == IF downct[b] >= 1 THEN "BUTT_CLICKHOLD" ELSE "BUTT_HOLD"

HoldMode(b) == IF downct[b] > 1 THEN "BUTT_CLICKHOLD" ELSE "BUTT_HOLD"

Hold(b) ==
  /\ out' = {ButtonWrite(b, HoldMode(b), "time")}
  /\ held' = [held EXCEPT ![b] = 1]
  /\ holdCt' = holdCt + 1
  /\ pc' = "check"
  /\ UNCHANGED downct

\* A slip: butt_held is not cleared.
CloseKeepingHeld(b, heldMode, plainMode) ==
  /\ out' = {ButtonWrite(b, IF held[b] = 1 THEN heldMode ELSE plainMode, "time")}
  /\ holdCt' = IF held[b] = 1 THEN holdCt - 1 ELSE holdCt
  /\ downct' = [downct EXCEPT ![b] = 0]
  /\ pc' = "check"
  /\ UNCHANGED held

\* A slip: one press is taken off instead of the gesture's.
CloseOnePress(b, heldMode, plainMode) ==
  /\ out' = {ButtonWrite(b, IF held[b] = 1 THEN heldMode ELSE plainMode, "time")}
  /\ held' = [held EXCEPT ![b] = 0]
  /\ holdCt' = IF held[b] = 1 THEN holdCt - 1 ELSE holdCt
  /\ downct' = [downct EXCEPT ![b] = @ - 1]
  /\ pc' = "check"

\* A closing event ends the hold if there is one, and the gesture.
Close(b, heldMode, plainMode) ==
  /\ out' = {ButtonWrite(b, IF held[b] = 1 THEN heldMode ELSE plainMode, "time")}
  /\ held' = [held EXCEPT ![b] = 0]
  /\ holdCt' = IF held[b] = 1 THEN holdCt - 1 ELSE holdCt
  /\ downct' = [downct EXCEPT ![b] = 0]
  /\ pc' = "check"

UpDown(b, status) ==
  \/ status = "DOWN" /\ Down(b)
  \/ status = "UP" /\ Up(b)
  \/ status = "HOLD" /\ Hold(b)
  \/ status = "SINGLECLICK" /\ Close(b, "BUTT_HOLD_UP", "BUTT_CLICK")
  \/ status = "DOUBLECLICK" /\ Close(b, "BUTT_CLICKHOLD_UP", "BUTT_CLICKCLICK")

-----------------------------------------------------------------------------
(* The main thread. *)

ReadUpDown(b, status) ==
  /\ pc = "read"
  /\ Gesture(b, status)
  /\ UpDown(b, status)
  /\ UNCHANGED late

ReadNotice(op) ==
  /\ pc = "read"
  /\ out' = IF op = "FLIC_INFO_GENERAL" THEN {AvailWrite(TRUE)} ELSE {}
  /\ pc' = "check"
  /\ UNCHANGED <<locals, late, button>>

\* A slip: looper returns at the deadline whatever is held.
CheckIgnoringHolds ==
  /\ pc = "check"
  /\ pc' = IF late THEN "epoch" ELSE "read"
  /\ UNCHANGED <<locals, late, out, button>>

\* The top of the loop: return 1000, or block in the read.
Check ==
  /\ pc = "check"
  /\ pc' = IF late /\ holdCt = 0 THEN "epoch" ELSE "read"
  /\ UNCHANGED <<locals, late, out, button>>

\* A slip: the deadline is not moved.
NewEpochSameDeadline ==
  /\ pc = "epoch"
  /\ FreshLocals
  /\ pc' = "check"
  /\ UNCHANGED <<late, out, button>>

\* main sets a new deadline and calls looper again.
NewEpoch ==
  /\ pc = "epoch"
  /\ FreshLocals
  /\ late' = FALSE
  /\ pc' = "check"
  /\ UNCHANGED <<out, button>>

Main ==
  \/ Check
  \/ NewEpoch
  \/ \E op \in Notices : ReadNotice(op)
  \/ \E b \in Buttons, status \in ClickStatuses : ReadUpDown(b, status)

Next ==
  \/ Main
  \/ Clock
  \/ \E b \in Buttons : ChannelRemoved(b)

Spec == Init /\ [][Next]_vars

\* The reader thread sends a ping at least once a minute while it runs, so the
\* main thread's read always returns.
Fairness == WF_vars(Main)

FairSpec == Spec /\ Fairness

-----------------------------------------------------------------------------
(* Properties. *)

\* The types of the state: the locals of looper, the main thread's place, the
\* last write and the button streams.
TypeOK ==
  /\ held \in [Buttons -> 0..1]
  /\ downct \in [Buttons -> Nat]
  /\ holdCt \in Int
  /\ pc \in {"check", "read", "epoch", "aborted"}
  /\ late \in BOOLEAN
  /\ at \in [Buttons -> Places]
  /\ presses \in [Buttons -> 0..2]
  /\ gone \in SUBSET Buttons

\* holdCt is the number of buttons with butt_held set: the counter and the array
\* that looper updates in separate branches never part.
HoldsCounted == holdCt = Cardinality({b \in Buttons : held[b] = 1})

\* butt_held is set exactly from the hold to the closing event, across returns
\* to main and fresh calls of looper: no epoch change loses an open hold.
HoldsRemembered == \A b \in Buttons : held[b] = 1 <=> at[b] \in HoldPlaces

\* assert(!butt_held[flicButt]) in the "down" branch never fails.
NoAssertFails == pc # "aborted"

\* The subscriber's view: the last state message, and the hold announced and not
\* closed.
Light == [b \in Buttons |-> IF at[b] \in {"down", "held"} THEN "On" ELSE "Off"]
Open == [b \in Buttons |-> IF held[b] = 0 THEN "none"
                           ELSE IF downct[b] > 1 THEN "clickhold" ELSE "hold"]

Topics == INSTANCE ButtonTopics WITH light <- Light, open <- Open

\* The buttons of whose gesture a fresh call of looper has lost a press.
Forgot == {b \in Buttons : downct[b] < presses[b]}

\* A step of the topics the README describes, one that no subscriber sees, or the
\* one departure from them: a hold of a button with a lost press goes to hold.
TopicsStep ==
  \/ [Topics!Next]_Topics!vars
  \/ \E b \in Forgot : Topics!AnnounceAs(b, "hold")

\* Presses are lost between two calls of looper and nowhere else.
PressesStay == Forgot' \subseteq Forgot \/ pc = "epoch"

\* The order and kind of a button's messages is the README's, but for a hold
\* whose gesture had the end of an epoch in it; no other order of the packets of
\* several buttons, of lost channels and of epochs makes a message a wrong one.
TopicsKept == Topics!Init /\ [][TopicsStep /\ PressesStay]_vars

\* The counters follow the gesture: a button at rest has no press, and looper
\* never counts a press that was not made.
GestureShape ==
  \A b \in Buttons : (at[b] = "rest" <=> presses[b] = 0) /\ downct[b] <= presses[b]

\* looper returns to main only with no hold counted, so that the fresh locals of
\* the next call forget no hold.
ReturnsUnheld == pc = "epoch" => holdCt = 0

\* The inductive invariant.
LooperInv ==
  /\ TypeOK
  /\ HoldsCounted
  /\ HoldsRemembered
  /\ NoAssertFails
  /\ GestureShape
  /\ ReturnsUnheld

\* main's epochs go on: looper does not sit past its deadline for ever while no
\* hold is counted.
EpochsEnd == []<>(~late \/ holdCt # 0)

-----------------------------------------------------------------------------
(* What a comment says and the code does not do. *)

\* "Check for exit loop condition. the time is after the limit and we do not
\* have any active button holds": past the limit looper stays only while a
\* button that is still connected is held.
EpochsEndUnlessHeld ==
  []<>(~late \/ \E b \in Buttons \ gone : at[b] \in HoldPlaces)

\* README.md on the topic clickhold: "triggers when click then hold is detected".
\* Every message is then one of ButtonTopics, whenever an epoch ends.
TopicsPromised == Topics!Spec
=============================================================================
