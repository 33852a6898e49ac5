----------------------------- MODULE EpochClock -----------------------------
(***************************************************************************)
(* The clock behind the epochs of main: GetTickCount of Windows, which     *)
(* wraps after 49.7 days.  ButtonLooper lets the clock do anything; this   *)
(* module says what it does.  No button is held.                           *)
(***************************************************************************)
EXTENDS Integers

CONSTANTS
  Wrap,     \* the ticks a DWORD can hold: 2^32
  Hour,     \* 1000*60*60
  Minute,   \* the longest time a read of the pipe takes
  Pause     \* the longest time between two calls of looper: a few seconds

ASSUME ClockAssumption ==
  /\ Wrap \in Nat \ {0} /\ Hour \in Nat /\ Minute \in Nat /\ Pause \in Nat

VARIABLES
  now,       \* external: GetTickCount
  pc,        \* "main" (between epochs), "check" and "read" (in looper)
  deadline,  \* availabilityTick, and gotill of looper
  begin,     \* when the epoch began
  age        \* how long it has lasted, up to a minute more than a whole turn of the tick

vars == <<now, pc, deadline, begin, age>>

MaxAge == Wrap + Minute

Init ==
  /\ now \in 0..(Wrap - 1)
  /\ pc = "main"
  /\ deadline = 0
  /\ begin = 0
  /\ age = 0

\* A slip: the deadline is kept in a wider integer.
EpochWide ==
  /\ pc = "main"
  /\ \E dt \in 0..Pause :
       /\ now' = (now + dt) % Wrap
       /\ deadline' = now' + Hour
       /\ begin' = now'
  /\ age' = 0
  /\ pc' = "check"

\* A slip: the next hour is counted from the last deadline.
EpochFromDeadline ==
  /\ pc = "main"
  /\ \E dt \in 0..Pause :
       /\ now' = (now + dt) % Wrap
       /\ deadline' = (deadline + Hour) % Wrap
       /\ begin' = now'
  /\ age' = 0
  /\ pc' = "check"

\* A slip: the deadline stays as it was initialized.
EpochUnset ==
  /\ pc = "main"
  /\ \E dt \in 0..Pause :
       /\ now' = (now + dt) % Wrap
       /\ begin' = now'
  /\ age' = 0
  /\ pc' = "check"
  /\ UNCHANGED deadline

\* The getInfo, perhaps a reconnect, and the next call of looper.
Epoch ==
  /\ pc = "main"
  /\ \E dt \in 0..Pause :
       /\ now' = (now + dt) % Wrap
       /\ deadline' = (now' + Hour) % Wrap
       /\ begin' = now'
  /\ age' = 0
  /\ pc' = "check"

Check ==
  /\ pc = "check"
  /\ pc' = IF now > deadline THEN "main" ELSE "read"
  /\ UNCHANGED <<now, deadline, begin, age>>

\* The read returns within a minute: the reader pings.
Read ==
  /\ pc = "read"
  /\ \E dt \in 0..Minute :
       /\ now' = (now + dt) % Wrap
       /\ age' = IF age + dt < MaxAge THEN age + dt ELSE MaxAge
  /\ pc' = "check"
  /\ UNCHANGED <<deadline, begin>>

Next == Epoch \/ Check \/ Read

Spec == Init /\ [][Next]_vars

\* The thread runs, and time passes.
Fairness ==
  WF_vars(Next) /\ SF_vars(Epoch /\ now' # now) /\ SF_vars(Read /\ now' # now)

FairSpec == Spec /\ Fairness

-----------------------------------------------------------------------------
(* Properties. *)

\* The clock and the deadline are within their widths.
TypeOK ==
  /\ now \in 0..(Wrap - 1)
  /\ pc \in {"main", "check", "read"}
  /\ deadline \in 0..(Wrap - 1)
  /\ begin \in 0..(Wrap - 1)
  /\ age \in 0..MaxAge

\* The epoch is an hour when it is over by no more than the last read.
GoesOnRightly == age <= Hour
ReturnsRightly == age \in (Hour + 1)..(Hour + Minute)

\* "one hour": looper goes on to read while the hour lasts, and returns when it is
\* over, unless the tick wraps before its last read can return.  So only the epochs
\* begun in the last hour before the wrap are at fault.
HourAwayFromWrap ==
  [][Check /\ begin + Hour + Minute < Wrap =>
       IF pc' = "main" THEN ReturnsRightly ELSE GoesOnRightly]_vars

\* In an epoch that does not reach the wrap the tick and the deadline are what they
\* would be without one.
AsWithoutWrap ==
  pc # "main" /\ begin + Hour + Minute < Wrap =>
    /\ deadline = begin + Hour
    /\ now = begin + age
    /\ age <= IF pc = "read" THEN Hour ELSE Hour + Minute

\* The inductive invariant.
ClockInv == TypeOK /\ AsWithoutWrap

\* main does not go round without end: the pipe is read again and again, also
\* after deadlines that have wrapped.
ReadsGoOn == []<>(pc = "read")
=============================================================================
