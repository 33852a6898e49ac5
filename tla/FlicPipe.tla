------------------------------ MODULE FlicPipe ------------------------------
(***************************************************************************)
(* The vocabulary shared by the threads of flic2mqtt: the operations and   *)
(* the button statuses a packet of the pipe can carry, and the messages    *)
(* the main thread hands to PahoWrapper.  Payload text is abstracted: a    *)
(* state message says "On" or "Off", an event message is a time stamp.     *)
(***************************************************************************)

\* Operations of a pipe packet.  FLIC_UPDOWN is the only one whose button and
\* status the main thread looks at.
Notices == {"FLIC_PING", "FLIC_INFO_GENERAL", "FLIC_CONNECT", "FLIC_STATUS"}

\* Statuses of a FLIC_UPDOWN packet.  They are flicd's click types with
\* ButtonClick left out: the reader never forwards it.
ClickStatuses == {"DOWN", "UP", "SINGLECLICK", "DOUBLECLICK", "HOLD"}

\* Modes of writeState, one per topic of a button.
Modes == {"BUTT_STATE", "BUTT_CLICK", "BUTT_HOLD", "BUTT_HOLD_UP",
          "BUTT_CLICKCLICK", "BUTT_CLICKHOLD", "BUTT_CLICKHOLD_UP"}

\* writeState(butt, mode, msg): a message on one of the button's topics.
ButtonWrite(b, mode, msg) == [butt |-> b, mode |-> mode, msg |-> msg]

\* markAvailable(TRUE) and markAvailable(FALSE): the retained LWT topic.
AvailWrite(avail) ==
  [topic |-> "LWT", msg |-> IF avail THEN "Online" ELSE "Offline"]
=============================================================================
