------------------------- MODULE ButtonLooperProofs -------------------------
(***************************************************************************)
(* For any finite set of buttons: the inductive invariant of ButtonLooper, *)
(* the safety properties it implies, and that the looper implements        *)
(* ButtonTopics but for the gestures that an epoch ends in.                *)
(***************************************************************************)
EXTENDS ButtonLooper, FiniteSetTheorems, TLAPS

HeldSet == {b \in Buttons : held[b] = 1}

\* Fresh locals satisfy the count: no button is held.
LEMMA NoneHeldCount ==
  ASSUME held = [b \in Buttons |-> 0]
  PROVE  Cardinality(HeldSet) = 0
<1>1. HeldSet = {}
  BY DEF HeldSet
<1>2. QED
  BY <1>1, FS_EmptySet

\* With a count of zero no button is held.
LEMMA CountZero ==
  ASSUME held \in [Buttons -> 0..1], Cardinality(HeldSet) = 0
  PROVE  \A b \in Buttons : held[b] = 0
<1>1. IsFiniteSet(HeldSet)
  BY ButtonsAssumption, FS_Subset DEF HeldSet
<1>2. HeldSet = {}
  BY <1>1, FS_EmptySet
<1>3. QED
  BY <1>2 DEF HeldSet

\* Setting the flag of a button that is not held counts one more.
LEMMA CountSet ==
  ASSUME held \in [Buttons -> 0..1], NEW b \in Buttons, held[b] = 0,
         held' = [held EXCEPT ![b] = 1]
  PROVE  Cardinality(HeldSet') = Cardinality(HeldSet) + 1
<1>1. IsFiniteSet(HeldSet)
  BY ButtonsAssumption, FS_Subset DEF HeldSet
<1>2. HeldSet' = HeldSet \cup {b} /\ b \notin HeldSet
  BY DEF HeldSet
<1>3. QED
  BY <1>1, <1>2, FS_AddElement

\* Clearing the flag of a held button counts one less.
LEMMA CountClear ==
  ASSUME held \in [Buttons -> 0..1], NEW b \in Buttons, held[b] = 1,
         held' = [held EXCEPT ![b] = 0]
  PROVE  Cardinality(HeldSet') = Cardinality(HeldSet) - 1
<1>1. IsFiniteSet(HeldSet)
  BY ButtonsAssumption, FS_Subset DEF HeldSet
<1>2. HeldSet' = HeldSet \ {b} /\ b \in HeldSet
  BY DEF HeldSet
<1>3. QED
  BY <1>1, <1>2, FS_RemoveElement

-----------------------------------------------------------------------------

\* The program starts with no button held and no press counted.
LEMMA LooperInvInit == Init => LooperInv
<1> SUFFICES ASSUME Init PROVE LooperInv
  OBVIOUS
<1>1. TypeOK
  <2>1. held \in [Buttons -> 0..1] /\ downct \in [Buttons -> Nat]
    BY DEF Init
  <2>2. at \in [Buttons -> Places] /\ presses \in [Buttons -> 0..2]
    BY DEF Init, Places
  <2>3. holdCt \in Int /\ gone \in SUBSET Buttons
    BY DEF Init
  <2>4. pc \in {"check", "read", "epoch", "aborted"} /\ late \in BOOLEAN
    BY DEF Init
  <2>5. QED
    BY <2>1, <2>2, <2>3, <2>4 DEF TypeOK
<1>2. HoldsCounted
  BY NoneHeldCount DEF Init, HoldsCounted, HeldSet
<1>3. HoldsRemembered
  BY DEF Init, HoldsRemembered, HoldPlaces
<1>4. NoAssertFails /\ ReturnsUnheld
  BY DEF Init, NoAssertFails, ReturnsUnheld
<1>5. GestureShape
  BY DEF Init, GestureShape
<1>6. QED
  BY <1>1, <1>2, <1>3, <1>4, <1>5 DEF LooperInv

\* A packet of a button keeps the invariant: one step per branch of looper.
LEMMA ReadUpDownInv ==
  ASSUME LooperInv, NEW b \in Buttons, NEW status \in ClickStatuses,
         ReadUpDown(b, status)
  PROVE  LooperInv'
<1> USE DEF LooperInv, ReadUpDown, Gesture, TypeOK, Places, HoldPlaces
<1>1. CASE status = "DOWN"
  <2>1. /\ held[b] = 0 /\ pc' = "check" /\ UNCHANGED <<held, holdCt>>
        /\ downct' = [downct EXCEPT ![b] = @ + 1]
    BY <1>1 DEF UpDown, Down, HoldsRemembered
  <2>2. TypeOK'
    BY <1>1, <2>1
  <2>3. HoldsCounted'
    BY <2>1 DEF HoldsCounted
  <2>4. HoldsRemembered'
    BY <1>1, <2>1 DEF HoldsRemembered
  <2>5. GestureShape'
    BY <1>1, <2>1 DEF GestureShape
  <2>6. QED
    BY <2>1, <2>2, <2>3, <2>4, <2>5 DEF NoAssertFails, ReturnsUnheld
<1>2. CASE status = "UP"
  <2>1. pc' = "check" /\ UNCHANGED <<held, downct, holdCt>>
    BY <1>2 DEF UpDown, Up
  <2>2. TypeOK'
    BY <1>2, <2>1
  <2>3. HoldsCounted'
    BY <2>1 DEF HoldsCounted
  <2>4. HoldsRemembered'
    BY <1>2, <2>1 DEF HoldsRemembered
  <2>5. GestureShape'
    BY <1>2, <2>1 DEF GestureShape
  <2>6. QED
    BY <2>1, <2>2, <2>3, <2>4, <2>5 DEF NoAssertFails, ReturnsUnheld
<1>3. CASE status = "HOLD"
  <2>1. /\ held[b] = 0 /\ held' = [held EXCEPT ![b] = 1] /\ holdCt' = holdCt + 1
        /\ pc' = "check" /\ downct' = downct
    BY <1>3 DEF UpDown, Hold, HoldsRemembered
  <2>2. TypeOK'
    BY <1>3, <2>1
  <2>3. HoldsCounted'
    BY <2>1, CountSet DEF HoldsCounted, HeldSet
  <2>4. HoldsRemembered'
    BY <1>3, <2>1 DEF HoldsRemembered
  <2>5. GestureShape'
    BY <1>3, <2>1 DEF GestureShape
  <2>6. QED
    BY <2>1, <2>2, <2>3, <2>4, <2>5 DEF NoAssertFails, ReturnsUnheld
<1>4. CASE status \in {"SINGLECLICK", "DOUBLECLICK"}
  <2>1. /\ held' = [held EXCEPT ![b] = 0]
        /\ holdCt' = IF held[b] = 1 THEN holdCt - 1 ELSE holdCt
        /\ downct' = [downct EXCEPT ![b] = 0]
        /\ pc' = "check"
    BY <1>4 DEF UpDown, Close
  <2>2. TypeOK'
    BY <1>4, <2>1
  <2>3. HoldsCounted'
    <3>1. CASE held[b] = 1
      BY <2>1, <3>1, CountClear DEF HoldsCounted, HeldSet
    <3>2. CASE held[b] = 0
      <4>1. held' = held
        BY <2>1, <3>2
      <4>2. QED
        BY <2>1, <3>2, <4>1 DEF HoldsCounted
    <3>3. QED
      BY <3>1, <3>2
  <2>4. HoldsRemembered'
    BY <1>4, <2>1 DEF HoldsRemembered
  <2>5. GestureShape'
    BY <1>4, <2>1 DEF GestureShape
  <2>6. QED
    BY <2>1, <2>2, <2>3, <2>4, <2>5 DEF NoAssertFails, ReturnsUnheld
<1>5. QED
  BY <1>1, <1>2, <1>3, <1>4 DEF ClickStatuses

\* Every step of the main thread, of the clock and of flicd keeps the invariant.
LEMMA LooperInvStep == LooperInv /\ [Next]_vars => LooperInv'
<1> SUFFICES ASSUME LooperInv, [Next]_vars PROVE LooperInv'
  OBVIOUS
<1> USE DEF LooperInv, TypeOK, HoldsCounted, HoldsRemembered, NoAssertFails,
           GestureShape, ReturnsUnheld, Places, HoldPlaces, locals, button
<1>1. CASE Check
  BY <1>1 DEF Check
<1>2. CASE NewEpoch
  <2>1. Cardinality(HeldSet) = 0
    BY <1>2 DEF NewEpoch, HeldSet
  <2>2. \A b \in Buttons : held[b] = 0
    BY <2>1, CountZero
  <2>3. held' = held /\ holdCt' = holdCt
    BY <1>2, <2>2 DEF NewEpoch, FreshLocals
  <2>4. HoldsCounted' /\ HoldsRemembered'
    BY <1>2, <2>3 DEF NewEpoch
  <2>5. TypeOK' /\ NoAssertFails' /\ ReturnsUnheld'
    BY <1>2, <2>3 DEF NewEpoch, FreshLocals
  <2>6. GestureShape'
    BY <1>2 DEF NewEpoch, FreshLocals
  <2>7. QED
    BY <2>4, <2>5, <2>6
<1>3. ASSUME NEW op \in Notices, ReadNotice(op) PROVE LooperInv'
  BY <1>3 DEF ReadNotice
<1>4. ASSUME NEW b \in Buttons, NEW status \in ClickStatuses, ReadUpDown(b, status)
      PROVE  LooperInv'
  BY <1>4, ReadUpDownInv
<1>5. CASE Clock
  BY <1>5 DEF Clock
<1>6. ASSUME NEW b \in Buttons, ChannelRemoved(b) PROVE LooperInv'
  BY <1>6 DEF ChannelRemoved
<1>7. CASE UNCHANGED vars
  BY <1>7 DEF vars
<1>8. QED
  BY <1>1, <1>2, <1>3, <1>4, <1>5, <1>6, <1>7 DEF Next, Main

\* LooperInv is an inductive invariant of looper, for any finite set of buttons.
THEOREM LooperInvariant == Spec => []LooperInv
<1>1. QED
  BY LooperInvInit, LooperInvStep, PTL DEF Spec

\* The number of holds the program counts is the number of buttons it believes
\* held, for any finite set of buttons.
THEOREM CountIsRight == Spec => []HoldsCounted
<1>1. LooperInv => HoldsCounted
  BY DEF LooperInv
<1>2. QED
  BY <1>1, LooperInvariant, PTL

\* No epoch change, and no order of the packets of several buttons, makes the
\* program forget a hold or believe in one that is over.
THEOREM HoldsAreRemembered == Spec => []HoldsRemembered
<1>1. LooperInv => HoldsRemembered
  BY DEF LooperInv
<1>2. QED
  BY <1>1, LooperInvariant, PTL

\* The assertion of the "down" branch never fails.
THEOREM AssertionHolds == Spec => []NoAssertFails
<1>1. LooperInv => NoAssertFails
  BY DEF LooperInv
<1>2. QED
  BY <1>1, LooperInvariant, PTL

-----------------------------------------------------------------------------
(* looper implements ButtonTopics, but for the presses an epoch forgets. *)

\* The first state of looper is one of ButtonTopics: everything is off.
LEMMA TopicsInit == Init => Topics!Init
BY DEF Init, Topics!Init, Light, Open

\* Each branch of looper is the step of ButtonTopics it is written for, or the
\* hold of a button with a forgotten press; none forgets a press.
LEMMA UpDownTopics ==
  ASSUME LooperInv, NEW b \in Buttons, NEW status \in ClickStatuses,
         ReadUpDown(b, status)
  PROVE  /\ \/ Topics!Press(b) \/ Topics!Release(b) \/ Topics!Announce(b) \/ Topics!Close(b)
            \/ b \in Forgot /\ Topics!AnnounceAs(b, "hold")
         /\ Forgot' \subseteq Forgot
<1> USE DEF LooperInv, ReadUpDown, Gesture, TypeOK, Places, HoldPlaces,
           HoldsRemembered, GestureShape, ButtonWrite, Topics!ButtonWrite
<1>1. CASE status = "DOWN"
  <2>1. held' = held /\ downct' = [downct EXCEPT ![b] = @ + 1]
    BY <1>1 DEF UpDown, Down
  <2>2. Light[b] = "Off" /\ Open[b] = "none" /\ presses[b] < 2
    BY <1>1 DEF Light, Open, Forgot
  <2>3. Light' = [Light EXCEPT ![b] = "On"]
    BY <1>1 DEF Light, Open, Forgot
  <2>4. Open' = Open
    BY <1>1, <2>1 DEF Light, Open, Forgot
  <2>5. Forgot' = Forgot
    BY <1>1, <2>1 DEF Light, Open, Forgot
  <2>6. Topics!Press(b)
    BY <1>1, <2>2, <2>3, <2>4, <2>5 DEF Topics!Press, UpDown, Down
  <2>7. QED
    BY <2>5, <2>6
<1>2. CASE status = "UP"
  <2>1. Light' = [Light EXCEPT ![b] = "Off"] /\ Light[b] = "On"
    BY <1>2 DEF Light, Open, Forgot
  <2>2. Open' = Open /\ Forgot' = Forgot
    BY <1>2 DEF UpDown, Up, Open, Forgot
  <2>3. Topics!Release(b)
    BY <1>2, <2>1, <2>2 DEF Topics!Release, UpDown, Up
  <2>4. QED
    BY <2>2, <2>3
<1>3. CASE status = "HOLD"
  <2>1. held[b] = 0 /\ held' = [held EXCEPT ![b] = 1] /\ downct' = downct
    BY <1>3 DEF UpDown, Hold
  <2>2. Light[b] = "On" /\ Open[b] = "none"
    BY <1>3, <2>1 DEF Light, Open
  <2>3. Light' = Light /\ Forgot' = Forgot
    BY <1>3, <2>1 DEF Light, Forgot
  <2>4. CASE downct[b] > 1
    <3>1. Topics!HoldKind(b) = "clickhold"
      BY <1>3, <2>4 DEF Topics!HoldKind
    <3>2. Open' = [Open EXCEPT ![b] = "clickhold"]
      BY <1>3, <2>1, <2>4 DEF Open
    <3>3. Topics!Announce(b)
      BY <1>3, <2>2, <2>3, <2>4, <3>1, <3>2
         DEF Topics!Announce, Topics!AnnounceAs, UpDown, Hold, HoldMode
    <3>4. QED
      BY <2>3, <3>3
  <2>5. CASE ~(downct[b] > 1)
    <3>1. Open' = [Open EXCEPT ![b] = "hold"]
      BY <1>3, <2>1, <2>5 DEF Open
    <3>2. Topics!AnnounceAs(b, "hold")
      BY <1>3, <2>2, <2>3, <2>5, <3>1 DEF Topics!AnnounceAs, UpDown, Hold, HoldMode
    <3>3. b \in Forgot \/ Topics!HoldKind(b) = "hold"
      BY <2>5 DEF Forgot, Topics!HoldKind
    <3>4. QED
      BY <2>3, <3>2, <3>3 DEF Topics!Announce
  <2>6. QED
    BY <2>4, <2>5
<1>4. CASE status \in {"SINGLECLICK", "DOUBLECLICK"}
  <2>1. /\ held' = [held EXCEPT ![b] = 0]
        /\ downct' = [downct EXCEPT ![b] = 0]
    BY <1>4 DEF UpDown, Close
  <2>2. Light[b] = "Off" /\ presses[b] \in 1..2 /\ Light' = Light
    BY <1>4 DEF Light, Open, Forgot
  <2>3. Open' = [Open EXCEPT ![b] = "none"]
    BY <1>4, <2>1 DEF Open
  <2>4. Forgot' = Forgot \ {b}
    BY <1>4, <2>1 DEF Forgot
  <2>5. presses' = [presses EXCEPT ![b] = 0]
    BY <1>4
  <2>6. out' = {ButtonWrite(b, Topics!ClosingMode(b), "time")}
    <3>1. CASE status = "SINGLECLICK"
      BY <3>1 DEF UpDown, Close, Topics!ClosingMode, Open
    <3>2. CASE status = "DOUBLECLICK"
      BY <3>2 DEF UpDown, Close, Topics!ClosingMode, Open
    <3>3. QED
      BY <1>4, <3>1, <3>2
  <2>7. Topics!Close(b)
    BY <2>2, <2>3, <2>5, <2>6 DEF Topics!Close
  <2>8. QED
    BY <2>4, <2>7
<1>5. QED
  BY <1>1, <1>2, <1>3, <1>4 DEF ClickStatuses

\* Every step is one of ButtonTopics, nothing a subscriber can see, or the hold of
\* a forgotten press; and only the end of an epoch forgets one.
LEMMA TopicsStepTaken == LooperInv /\ [Next]_vars => [TopicsStep /\ PressesStay]_vars
<1> SUFFICES ASSUME LooperInv, Next PROVE TopicsStep /\ PressesStay
  OBVIOUS
<1> USE DEF Topics!vars, Light, Open, Forgot, locals, button, TopicsStep, PressesStay
<1>1. CASE Check
  BY <1>1 DEF Check
<1>2. CASE NewEpoch
  <2>1. holdCt = 0 /\ held \in [Buttons -> 0..1]
    BY <1>2 DEF NewEpoch, LooperInv, ReturnsUnheld, TypeOK
  <2>2. \A b \in Buttons : held[b] = 0
    BY <2>1, CountZero DEF LooperInv, HoldsCounted, HeldSet
  <2>3. Open' = Open
    BY <1>2, <2>2 DEF NewEpoch, FreshLocals
  <2>4. QED
    BY <1>2, <2>3 DEF NewEpoch
<1>3. ASSUME NEW op \in Notices, ReadNotice(op) PROVE TopicsStep /\ PressesStay
  <2>1. Topics!Notice
    BY <1>3 DEF ReadNotice, Topics!Notice, AvailWrite, Topics!AvailWrite
  <2>2. QED
    BY <1>3, <2>1 DEF ReadNotice, Topics!Next
<1>4. ASSUME NEW b \in Buttons, NEW status \in ClickStatuses, ReadUpDown(b, status)
      PROVE  TopicsStep /\ PressesStay
  BY <1>4, UpDownTopics DEF Topics!Next
<1>5. CASE Clock
  BY <1>5 DEF Clock
<1>6. ASSUME NEW b \in Buttons, ChannelRemoved(b) PROVE TopicsStep /\ PressesStay
  BY <1>6 DEF ChannelRemoved
<1>7. QED
  BY <1>1, <1>2, <1>3, <1>4, <1>5, <1>6 DEF Next, Main

\* For any finite set of buttons, whatever the order of their packets, of epochs
\* and of lost channels, looper departs from ButtonTopics only in the hold of a
\* button whose gesture an epoch ended in.
THEOREM LooperKeepsTopics == Spec => TopicsKept
<1>1. QED
  BY LooperInvariant, TopicsInit, TopicsStepTaken, PTL DEF Spec, TopicsKept

\* The locals of looper and the places of the gestures keep their types.
THEOREM LooperTypes == Spec => []TypeOK
<1>1. LooperInv => TypeOK
  BY DEF LooperInv
<1>2. QED
  BY <1>1, LooperInvariant, PTL
=============================================================================
