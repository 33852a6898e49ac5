---------------------------- MODULE LogRotation ----------------------------
(***************************************************************************)
(* The log files of Config::readConfig: at every start the old logs move   *)
(* up by one number and a new one is opened.  The program may stop at any  *)
(* point, between two calls of the rotation too, and be started again.     *)
(*                                                                         *)
(* The file system is external, and is that of Windows: remove and rename  *)
(* are atomic, and a rename fails if the new name is taken.                *)
(***************************************************************************)
EXTENDS Integers

CONSTANTS
  Last,     \* the highest number of an old log: 9
  MaxRuns   \* bound on the starts of the program

ASSUME LastAssumption == Last \in Nat \ {0} /\ MaxRuns \in Nat

VARIABLES
  log,   \* log[n]: the run that wrote logfileName.n, logfileName itself for
         \* n = 0; 0 when there is no such file
  run,   \* how many times the program was started
  i,     \* the counter of the loop
  pc     \* "off", in the loop before "remove" or "rename", before "open", "up"

vars == <<log, run, i, pc>>

Files == 0..Last

Init ==
  /\ log = [n \in Files |-> 0]
  /\ run = 0
  /\ i = 0
  /\ pc = "off"

\* A slip: the loop starts a number too high.
StartTooHigh ==
  /\ pc = "off" /\ run < MaxRuns
  /\ run' = run + 1
  /\ i' = Last
  /\ pc' = "remove"
  /\ UNCHANGED log

Start ==
  /\ pc = "off" /\ run < MaxRuns
  /\ run' = run + 1
  /\ i' = Last - 1
  /\ pc' = "remove"
  /\ UNCHANGED log

\* A slip: the rename is left to overwrite what is there.
RemoveNothing ==
  /\ pc = "remove"
  /\ pc' = "rename"
  /\ UNCHANGED <<log, run, i>>

Remove ==
  /\ pc = "remove"
  /\ log' = [log EXCEPT ![i + 1] = 0]
  /\ pc' = "rename"
  /\ UNCHANGED <<run, i>>

\* The log may be moved from i to i + 1.
Movable == log[i] # 0 /\ log[i + 1] = 0

\* A slip: the log is copied.
RenameCopies ==
  /\ pc = "rename"
  /\ log' = IF Movable THEN [log EXCEPT ![i + 1] = log[i]] ELSE log
  /\ IF i = 0 THEN pc' = "open" /\ UNCHANGED i ELSE pc' = "remove" /\ i' = i - 1
  /\ UNCHANGED run

\* A slip: the loop ends before the log without a number.
RenameShort ==
  /\ pc = "rename"
  /\ log' = IF Movable THEN [log EXCEPT ![i + 1] = log[i], ![i] = 0] ELSE log
  /\ IF i <= 1 THEN pc' = "open" /\ UNCHANGED i ELSE pc' = "remove" /\ i' = i - 1
  /\ UNCHANGED run

Rename ==
  /\ pc = "rename"
  /\ log' = IF Movable THEN [log EXCEPT ![i + 1] = log[i], ![i] = 0] ELSE log
  /\ IF i = 0 THEN pc' = "open" /\ UNCHANGED i ELSE pc' = "remove" /\ i' = i - 1
  /\ UNCHANGED run

\* fopen(logfileName, "w") empties a file that is there.
Open ==
  /\ pc = "open"
  /\ log' = [log EXCEPT ![0] = run]
  /\ pc' = "up"
  /\ UNCHANGED <<run, i>>

\* The program ends, is killed, or the machine goes down.
Stop ==
  /\ pc # "off"
  /\ pc' = "off"
  /\ UNCHANGED <<log, run, i>>

Next == Start \/ Remove \/ Rename \/ Open \/ Stop

Spec == Init /\ [][Next]_vars

-----------------------------------------------------------------------------
(* Properties. *)

\* The files hold logs of runs that were started, and the loop stays in range.
TypeOK ==
  /\ log \in [Files -> 0..run]
  /\ run \in 0..MaxRuns
  /\ i \in 0..(Last - 1)
  /\ pc \in {"off", "remove", "rename", "open", "up"}

\* A lower number is a newer log, whatever starts were cut short in the rotation.
NewestFirst ==
  \A m, n \in Files : m < n /\ log[m] # 0 /\ log[n] # 0 => log[m] > log[n]

Kept == {log[n] : n \in Files} \ {0}

\* The only log a step can lose is the oldest: no start, and no start after one
\* that was cut short, overwrites or removes a log while it keeps an older one.
OnlyOldestLost == [][\A r \in Kept \ Kept' : \A s \in Kept' : s > r]_vars

\* In the loop the number above the one to be moved is free, but for the first
\* removal; when the new log is opened its name is free.
RoomAbove ==
  /\ pc = "remove" /\ i < Last - 1 => log[i + 1] = 0
  /\ pc = "rename" => log[i + 1] = 0
  /\ pc = "open" => log[0] = 0

\* The log of this run is not there before it is opened.
NotYetOpen == pc \in {"remove", "rename", "open"} => \A n \in Files : log[n] < run

\* The inductive invariant.
RotationInv == TypeOK /\ NewestFirst /\ RoomAbove /\ NotYetOpen
=============================================================================
