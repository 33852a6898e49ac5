---------------------------- MODULE MCReadConfig ----------------------------
(***************************************************************************)
(* ReadConfig with every file of up to three lines out of a few: keys      *)
(* alone, with a comment behind them, commented out, inside a word, given  *)
(* twice, and a last line that has no end.                                 *)
(***************************************************************************)
EXTENDS ReadConfig

SomeKeys == <<"LOGFILE=", "MQTT_SERVER=", "FLICD_SERVER=", "FLICD_PORT=", "FLIC_MAC_00=">>
SomeMandatory == {"MQTT_SERVER=", "FLICD_SERVER="}

Lines == {
  <<"LOGFILE=", "name", "\n">>,
  <<"LOGFILE=", "stdout", "\n">>,
  <<"MQTT_SERVER=", "host", "\n">>,
  <<"MQTT_SERVER=", "other", "#", "FLICD_SERVER=", "\r", "\n">>,
  <<"FLICD_SERVER=", "host", "\r", "\n">>,
  <<"word", "FLICD_SERVER=", "\n">>,
  <<"#", "FLICD_SERVER=", "old", "#", "\n">>,
  <<"#", "FLICD_PORT=", "80", "\n">>,
  <<"FLICD_PORT=", "80", "word", "\n">>,
  <<"FLICD_PORT=", "word", "\n">>,
  <<"FLIC_MAC_00=", "mac", "#", "\n">> }

SomeFiles ==
  LET two == {a \o b : a, b \in Lines}
      whole == {<<>>} \union Lines \union two \union {a \o b : a \in two, b \in Lines}
  IN  whole \union {SubSeq(f, 1, Len(f) - 1) : f \in whole \ {<<>>}}
=============================================================================
