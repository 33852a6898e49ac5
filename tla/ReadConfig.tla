----------------------------- MODULE ReadConfig -----------------------------
(***************************************************************************)
(* Config::readConfig as a whole, start after start: the settings are read *)
(* (ConfigFile), and the setting LOGFILE sets off the rotation of the logs *)
(* (LogRotation) before the next key is looked up.  The program may stop   *)
(* at any point; before the next start its file may have been edited.      *)
(***************************************************************************)
EXTENDS LogRotation, Sequences

CONSTANTS
  Keys, Mandatory, Numbers, Cap,   \* of ConfigFile
  ConfigFiles                      \* files the program may be started with

VARIABLES opened, file, buf, at, cpc, setting

settings == <<opened, file, buf, at, cpc, setting>>

Settings == INSTANCE ConfigFile WITH Files <- ConfigFiles, pc <- cpc

ASSUME ReadConfigAssumption == Settings!ConfigAssumption

\* Values of LOGFILE that are no file.
Streams == {<<"stderr">>, <<"stdout">>}

ReadInit == Init /\ Settings!Init

\* A step of the settings.  One that finds a name for the log begins the rotation,
\* and the next waits for its end.
Settle ==
  /\ pc \in {"off", "up"}
  /\ Settings!Next
  /\ IF setting'["LOGFILE="] \subseteq setting["LOGFILE="] \union Streams
       THEN UNCHANGED vars
       ELSE Start

Rotate ==
  /\ Remove \/ Rename \/ Open
  /\ UNCHANGED settings

\* The program ends, where it is, or is killed.
End ==
  /\ run < MaxRuns
  /\ Settings!Quit
  /\ IF pc = "off" THEN UNCHANGED vars ELSE Stop

ReadNext == Settle \/ Rotate \/ End

ReadSpec == ReadInit /\ [][ReadNext]_<<vars, settings>>

-----------------------------------------------------------------------------
(* Properties of the parts, in the whole. *)

\* The settings are values of their keys, and the loops stay in range.
SettingsTypeOK == Settings!TypeOK

\* The program runs with the settings that are written in its file, whatever
\* earlier starts left.
SettingsAsWritten == Settings!SettingsAsWritten

\* It ends early only without a file, or if the file does not fit or a mandatory key is
\* not written.
EndsForAReason == Settings!EndsForAReason

\* The inductive invariant of the settings.
SettingsInv == Settings!ConfigInv
=============================================================================
