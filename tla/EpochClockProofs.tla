-------------------------- MODULE EpochClockProofs --------------------------
(***************************************************************************)
(* Theorems about EpochClock, for a tick of any width and any lengths of   *)
(* the hour, the reads and the pauses.                                     *)
(***************************************************************************)
EXTENDS EpochClock, TLAPS

\* The tick of a time is within its width, and is that time if it fits.
LEMMA Wrapped ==
  ASSUME NEW t \in Nat
  PROVE  /\ t % Wrap \in 0..(Wrap - 1)
         /\ t < Wrap => t % Wrap = t
  BY ClockAssumption

\* No epoch has begun when the program starts.
LEMMA ClockInit == Init => ClockInv
  BY ClockAssumption DEF Init, ClockInv, TypeOK, AsWithoutWrap, MaxAge

\* An epoch begins with its deadline an hour ahead, modulo the wrap.
LEMMA EpochInv == ClockInv /\ Epoch => ClockInv'
  <1> SUFFICES ASSUME ClockInv, Epoch PROVE ClockInv'
    OBVIOUS
  <1> USE ClockAssumption DEF ClockInv, TypeOK, MaxAge
  <1>1. PICK dt \in 0..Pause :
          /\ now' = (now + dt) % Wrap
          /\ deadline' = (now' + Hour) % Wrap
          /\ begin' = now'
    BY DEF Epoch
  <1>2. now' \in 0..(Wrap - 1)
    BY <1>1, Wrapped
  <1>3. /\ deadline' \in 0..(Wrap - 1)
        /\ now' + Hour < Wrap => deadline' = now' + Hour
    BY <1>1, <1>2, Wrapped
  <1>4. age' = 0 /\ pc' = "check"
    BY DEF Epoch
  <1> QED
    BY <1>1, <1>2, <1>3, <1>4 DEF AsWithoutWrap

\* A read adds at most a minute to an epoch whose hour was not over.
LEMMA ReadInv == ClockInv /\ Read => ClockInv'
  <1> SUFFICES ASSUME ClockInv, Read PROVE ClockInv'
    OBVIOUS
  <1> USE ClockAssumption DEF ClockInv, TypeOK, MaxAge
  <1>1. PICK dt \in 0..Minute :
          /\ now' = (now + dt) % Wrap
          /\ age' = IF age + dt < MaxAge THEN age + dt ELSE MaxAge
    BY DEF Read
  <1>2. pc = "read" /\ pc' = "check" /\ deadline' = deadline /\ begin' = begin
    BY DEF Read
  <1>3. /\ now' \in 0..(Wrap - 1)
        /\ now + dt < Wrap => now' = now + dt
    BY <1>1, Wrapped
  <1>4. TypeOK'
    BY <1>1, <1>2, <1>3
  <1>5. AsWithoutWrap'
    BY <1>1, <1>2, <1>3 DEF AsWithoutWrap
  <1> QED
    BY <1>4, <1>5

\* looper goes on exactly when the deadline is not passed.
LEMMA CheckInv == ClockInv /\ Check => ClockInv'
  BY ClockAssumption DEF ClockInv, TypeOK, AsWithoutWrap, Check, MaxAge

\* Every step keeps the invariant.
LEMMA ClockStep == ClockInv /\ [Next]_vars => ClockInv'
  <1>1. ClockInv /\ UNCHANGED vars => ClockInv'
    BY DEF ClockInv, TypeOK, AsWithoutWrap, vars, MaxAge
  <1> QED
    BY <1>1, EpochInv, ReadInv, CheckInv DEF Next

\* ClockInv is an inductive invariant, for every width of the tick.
THEOREM ClockInvariant == Spec => []ClockInv
  BY ClockInit, ClockStep, PTL DEF Spec

\* In an epoch that does not reach the wrap, looper returns after the hour and no
\* later than its last read.
LEMMA CheckIsRight ==
  ClockInv /\ [Next]_vars =>
    [Check /\ begin + Hour + Minute < Wrap =>
       IF pc' = "main" THEN ReturnsRightly ELSE GoesOnRightly]_vars
  BY ClockAssumption DEF ClockInv, TypeOK, AsWithoutWrap, Check, ReturnsRightly,
     GoesOnRightly, MaxAge

\* Only the epochs that reach the wrap can be at fault.
THEOREM EpochIsAnHour == Spec => HourAwayFromWrap
  BY ClockInvariant, CheckIsRight, PTL DEF Spec, HourAwayFromWrap

\* The clock and the deadline keep their widths.
THEOREM ClockTypes == Spec => []TypeOK
  <1>1. ClockInv => TypeOK
    BY DEF ClockInv
  <1> QED
    BY <1>1, ClockInvariant, PTL
=============================================================================
