--------------------------- MODULE MCCommandLine ---------------------------
(***************************************************************************)
(* CommandLine with a few settings and typed lines.                        *)
(***************************************************************************)
EXTENDS CommandLine

\* Three buttons, each with no line, an address, or an address and a comment that
\* was hashed out.
SomeSettings == [1..3 -> {{}, {<<"m1">>}, {<<"m2">>}, {<<"m1", " ", "#">>}}]
  \union {<<{<<"m1", " ", "#", "#", "#", "#">>}>>}

\* Every command as it should be, then with spaces, tabs and a carriage return.
WellTyped == {
  <<"getInfo">>, <<"startScan">>, <<"stopScan">>, <<"startScanWizard">>,
  <<"cancelScanWizard">>, <<"connect", " ", "m1", " ", "1">>,
  <<"disconnect", " ", "1">>, <<"forceDisconnect", " ", "m2">>,
  <<"changeModeParameters", " ", "0", " ", "LowLatency", " ", "1">>,
  <<"changeModeParameters", "\t", "x", " ", "x", " ", "1">>,
  <<"changeModeParameters", " ", "0", " ", "x", " ", "1", " ">>,
  <<"getButtonInfo", " ", "m1">>, <<"delete", " ", "m1">>,
  <<"createBatteryStatusListener", " ", "x", " ", "1">>,
  <<"removeBatteryStatusListener", " ", "0">>,
  <<" ", "\t", "delete", " ", " ", "m2", " ", "\r">>, <<"\r">>, <<"help">>, <<"x", "getInfo">>}

\* Lines that end the program: too few words, five words, a long word, a long line,
\* quit.
Ending == {
  <<"connect", " ", "m1">>, <<"getInfo", " ", "x">>, <<"quit">>, <<"quit", " ", "x">>,
  <<"x", "x", "x", "x", "x">>, <<"delete", " ", "x", "x", "x">>,
  <<"x", " ", "x", " ", "x", " ", "x", " ", "x">>,
  <<" ", " ", " ", " ", " ", " ", " ", " ", " ", " ">>}

Typed(lines) == FlattenSeq([n \in DOMAIN lines |-> lines[n] \o <<"\n">>])

SomeInputs ==
  {Typed(<<a, b>>) : a \in WellTyped, b \in WellTyped \union Ending}
    \union {Typed(<<a, <<"getInfo">>>>) : a \in Ending}
    \union {Typed(<<a>>) \o <<"getInfo">> : a \in WellTyped}

SomeCharacters == {
  " ", "\t", "\r", "\n", "#", "x", "help", "quit", "LowLatency", "m1", "m2",
  "0", "1", "2", "3", "4", "5", "6", "7",
  "getInfo", "startScan", "stopScan", "connect", "disconnect", "forceDisconnect",
  "changeModeParameters", "getButtonInfo", "startScanWizard", "cancelScanWizard",
  "delete", "createBatteryStatusListener", "removeBatteryStatusListener"}
=============================================================================
