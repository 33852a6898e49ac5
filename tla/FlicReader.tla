----------------------------- MODULE FlicReader -----------------------------
(***************************************************************************)
(* flicd_client_reader() of flicd_client.cpp, the reader thread: it takes  *)
(* flicd's packets out of the byte stream of the socket, and tells the     *)
(* main thread of some of them through the pipe.                           *)
(*                                                                         *)
(* A byte is a number below 2*Half; the code's Half is 128.  A packet's    *)
(* payload is its opcode, and for the events of a button the button and    *)
(* the click type; the other bytes of the structures are left out.         *)
(***************************************************************************)
EXTENDS Integers, Sequences, SequencesExt

CONSTANTS
  Half,       \* bytes from here on are negative as a char: 128
  Reports,    \* what flicd reports: a step of a gesture, a notice or an answer
  Garbage,    \* what malloc may leave in the buffer
  PipeCap,    \* packets the pipe holds: 1024/32
  MaxStream   \* bound on the bytes between flicd and the reader

ASSUME ReaderAssumption ==
  /\ Half \in Nat /\ Half > 9
  /\ PipeCap \in Nat \ {0}
  /\ MaxStream \in Nat
  /\ Garbage \subseteq [1..3 -> 0..(2 * Half - 1)]
  /\ Reports \subseteq
       [what : {"DOWN", "UP", "CLICK", "HOLD", "SINGLECLICK", "DOUBLECLICK",
                "CONNECT", "STATUS", "INFO", "OTHER"},
        conn : 0..(2 * Half - 1),
        rest : Seq(0..(2 * Half - 1))]
  /\ \A r \in Reports : Len(r.rest) + 1 < 4 * Half * Half

VARIABLES
  stream,   \* external: bytes flicd sent and recv has not returned
  link,     \* external: the socket, "open", "closed" by flicd or "broken"
  buf,      \* the first three bytes of readbuf
  pos,      \* read_pos
  left,     \* bytes_left
  rpc,      \* the reader: "header", "payload" (its loop and the switch), "ended"
  pipe,     \* packets in the pipe
  mpc,      \* the main thread: "top" of the loop, or in the "read"
  fresh,    \* history: nothing has been received into the buffer
  act       \* history: the event flicd sent, or the main thread read, in the last step

socket == <<stream, link>>
reader == <<buf, pos, left, rpc, fresh>>
vars == <<stream, link, buf, pos, left, rpc, pipe, mpc, fresh, act>>

Bytes == 0..(2 * Half - 1)

\* enum ClickType of the protocol, and the opcodes of a button's events.
ButtonDown == 0
ButtonUp == 1
ButtonClick == 2
ButtonSingleClick == 3
ButtonDoubleClick == 4
ButtonHold == 5

CreateConnectionChannelResponse == 1
ConnectionStatusChanged == 2
ButtonUpOrDown == 4
ButtonClickOrHold == 5
ButtonSingleOrDoubleClick == 6
ButtonSingleOrDoubleClickOrHold == 7
GetInfoResponse == 9

\* The status of a FLIC_UPDOWN packet, as the main thread reads it.
FLIC_STATUS_DOWN == 0
FLIC_STATUS_UP == 1
FLIC_STATUS_SINGLECLICK == 3
FLIC_STATUS_DOUBLECLICK == 4
FLIC_STATUS_HOLD == 5

Packet(op, status, butt) == [op |-> op, status |-> status, butt |-> butt]
Ping == Packet("FLIC_PING", "OK", "ALL")
Fatal == Packet("FLIC_PING", "FATAL", "ALL")

\* The buffer comes from malloc, with whatever bytes are there.
Init ==
  /\ stream = <<>>
  /\ link = "open"
  /\ buf \in Garbage
  /\ pos = 0
  /\ left = 0
  /\ rpc = "header"
  /\ pipe = <<>>
  /\ mpc = "top"
  /\ fresh = TRUE
  /\ act = {}

-----------------------------------------------------------------------------
(* Pure parts. *)

Char(byte) == IF byte < Half THEN byte ELSE byte - 2 * Half

UnsignedLength(lo, hi) == lo + 2 * Half * hi

\* readbuf[0] | (readbuf[1] << 8) on signed chars: the sign of a negative low
\* byte covers the high byte.
PacketLen(lo, hi) == IF Char(lo) < 0 THEN Char(lo) ELSE lo + 2 * Half * Char(hi)

\* A slip: every click or hold is told, on whichever of the three opcodes.
TellUnfiltered(p) ==
  CASE p[1] \in {ButtonUpOrDown, ButtonClickOrHold, ButtonSingleOrDoubleClick} ->
         <<Packet("FLIC_UPDOWN", p[3], p[2])>>
    [] p[1] = GetInfoResponse -> <<Packet("FLIC_INFO_GENERAL", "OK", "ALL")>>
    [] OTHER -> <<>>

\* The case of the switch for a payload: what goes into the pipe, none or one.
Tell(p) ==
  CASE p[1] = CreateConnectionChannelResponse -> <<Packet("FLIC_CONNECT", "OK", p[2])>>
    [] p[1] = ConnectionStatusChanged -> <<Packet("FLIC_STATUS", "OK", p[2])>>
    [] \/ p[1] = ButtonUpOrDown
       \/ p[1] = ButtonClickOrHold /\ p[3] = ButtonHold
       \/ p[1] = ButtonSingleOrDoubleClick /\ p[3] \in {ButtonSingleClick, ButtonDoubleClick} ->
         <<Packet("FLIC_UPDOWN", p[3], p[2])>>
    [] p[1] = GetInfoResponse -> <<Packet("FLIC_INFO_GENERAL", "OK", "ALL")>>
    [] OTHER -> <<>>

-----------------------------------------------------------------------------
(* The reader thread.  A write to the pipe blocks while the pipe is full. *)

\* A slip: a write that does not wait for room.
PipeSendNoWait(s) == pipe' = pipe \o s

PipeSend(s) == Len(pipe) + Len(s) <= PipeCap /\ pipe' = pipe \o s

End ==
  /\ PipeSend(<<Fatal>>)
  /\ rpc' = "ended"
  /\ act' = {}
  /\ UNCHANGED <<socket, buf, pos, left, mpc, fresh>>

ReadHeader ==
  /\ rpc = "header" /\ Len(stream) >= 2
  /\ buf' = <<stream[1], stream[2], buf[3]>>
  /\ stream' = SubSeq(stream, 3, Len(stream))
  /\ left' = PacketLen(stream[1], stream[2])
  /\ pos' = 0
  /\ rpc' = "payload"
  /\ fresh' = FALSE
  /\ act' = {}
  /\ UNCHANGED <<link, pipe, mpc>>

\* A slip: the timeout is only logged, as when there is no pipe.
HeaderTimeoutNoPing ==
  /\ rpc = "header" /\ stream = <<>> /\ link = "open"
  /\ act' = {}
  /\ UNCHANGED <<socket, reader, pipe, mpc>>

\* recv times out after a minute without a byte: a ping.
HeaderTimeout ==
  /\ rpc = "header" /\ stream = <<>> /\ link = "open"
  /\ PipeSend(<<Ping>>)
  /\ act' = {}
  /\ UNCHANGED <<socket, reader, mpc>>

\* recv fails, or returns one byte because the other has not come.
HeaderFails ==
  /\ rpc = "header"
  /\ link = "broken" \/ stream # <<>>
  /\ End

\* recv returns 0: no test catches it, and what the last packet, or malloc, left
\* in the buffer is taken for a header.
HeaderEof ==
  /\ rpc = "header" /\ stream = <<>> /\ link = "closed"
  /\ left' = PacketLen(buf[1], buf[2])
  /\ pos' = 0
  /\ rpc' = "payload"
  /\ act' = {}
  /\ UNCHANGED <<socket, buf, pipe, mpc, fresh>>

\* A slip: every part of a payload goes to the start of the buffer.
ReadPayloadAtStart ==
  /\ rpc = "payload" /\ left > 0 /\ stream # <<>>
  /\ \E n \in 1..left :
       /\ n <= Len(stream)
       /\ buf' = [i \in 1..3 |-> IF i \in 1..n THEN stream[i] ELSE buf[i]]
       /\ stream' = SubSeq(stream, n + 1, Len(stream))
       /\ pos' = pos + n
       /\ left' = left - n
  /\ act' = {}
  /\ UNCHANGED <<link, rpc, pipe, mpc, fresh>>

\* recv returns what has come of the payload, at least a byte.
ReadPayload ==
  /\ rpc = "payload" /\ left > 0 /\ stream # <<>>
  /\ \E n \in 1..left :
       /\ n <= Len(stream)
       /\ buf' = [i \in 1..3 |-> IF i - pos \in 1..n THEN stream[i - pos] ELSE buf[i]]
       /\ stream' = SubSeq(stream, n + 1, Len(stream))
       /\ pos' = pos + n
       /\ left' = left - n
  /\ act' = {}
  /\ UNCHANGED <<link, rpc, pipe, mpc, fresh>>

\* recv fails; inside a payload the timeout is a failure too (what is in stream
\* may still be on its way).
PayloadFails ==
  /\ rpc = "payload" /\ left > 0
  /\ link # "closed"
  /\ End

\* recv returns 0 and the loop goes round for ever.
PayloadEof ==
  /\ rpc = "payload" /\ left > 0 /\ stream = <<>> /\ link = "closed"
  /\ act' = {}
  /\ UNCHANGED <<socket, reader, pipe, mpc>>

Dispatch ==
  /\ rpc = "payload" /\ left <= 0
  /\ PipeSend(Tell(buf))
  /\ rpc' = "header"
  /\ act' = {}
  /\ UNCHANGED <<socket, buf, pos, left, mpc, fresh>>

Reader ==
  \/ ReadHeader \/ HeaderTimeout \/ HeaderFails \/ HeaderEof
  \/ ReadPayload \/ PayloadFails \/ PayloadEof
  \/ Dispatch

-----------------------------------------------------------------------------
(* The main thread, as far as the pipe goes. *)

\* The top of looper's loop, with or without a new epoch of main.
Top ==
  /\ mpc = "top"
  /\ mpc' = "read"
  /\ act' = {}
  /\ UNCHANGED <<socket, reader, pipe>>

\* The blocking read.  A ping is ignored, whatever its status.
Read ==
  /\ mpc = "read" /\ pipe # <<>>
  /\ pipe' = Tail(pipe)
  /\ act' = IF Head(pipe).op = "FLIC_PING" THEN {} ELSE {[read |-> Head(pipe)]}
  /\ mpc' = "top"
  /\ UNCHANGED <<socket, reader>>

Main == Top \/ Read

-----------------------------------------------------------------------------
(* flicd and the network. *)

\* The payloads of a report: a step of a gesture is reported on every opcode it
\* concerns, one packet each.  A "CLICK" is the end of a press that was no hold.
PayloadsOf(r) ==
  CASE r.what = "DOWN" -> <<<<ButtonUpOrDown, r.conn, ButtonDown>>>>
    [] r.what = "UP" -> <<<<ButtonUpOrDown, r.conn, ButtonUp>>>>
    [] r.what = "CLICK" ->
         <<<<ButtonUpOrDown, r.conn, ButtonUp>>, <<ButtonClickOrHold, r.conn, ButtonClick>>>>
    [] r.what = "HOLD" ->
         <<<<ButtonClickOrHold, r.conn, ButtonHold>>,
           <<ButtonSingleOrDoubleClickOrHold, r.conn, ButtonHold>>>>
    [] r.what = "SINGLECLICK" ->
         <<<<ButtonSingleOrDoubleClick, r.conn, ButtonSingleClick>>,
           <<ButtonSingleOrDoubleClickOrHold, r.conn, ButtonSingleClick>>>>
    [] r.what = "DOUBLECLICK" ->
         <<<<ButtonSingleOrDoubleClick, r.conn, ButtonDoubleClick>>,
           <<ButtonSingleOrDoubleClickOrHold, r.conn, ButtonDoubleClick>>>>
    [] r.what = "CONNECT" -> <<<<CreateConnectionChannelResponse, r.conn>>>>
    [] r.what = "STATUS" -> <<<<ConnectionStatusChanged, r.conn>>>>
    [] r.what = "INFO" -> <<<<GetInfoResponse>> \o r.rest>>
    [] r.what = "OTHER" -> <<r.rest>>

\* What the main thread is to read of a report, by the FLIC_STATUS_ values it
\* compares with: one event, or none.
EventsOf(r) ==
  CASE r.what = "DOWN" -> {Packet("FLIC_UPDOWN", FLIC_STATUS_DOWN, r.conn)}
    [] r.what \in {"UP", "CLICK"} -> {Packet("FLIC_UPDOWN", FLIC_STATUS_UP, r.conn)}
    [] r.what = "HOLD" -> {Packet("FLIC_UPDOWN", FLIC_STATUS_HOLD, r.conn)}
    [] r.what = "SINGLECLICK" -> {Packet("FLIC_UPDOWN", FLIC_STATUS_SINGLECLICK, r.conn)}
    [] r.what = "DOUBLECLICK" -> {Packet("FLIC_UPDOWN", FLIC_STATUS_DOUBLECLICK, r.conn)}
    [] r.what = "CONNECT" -> {Packet("FLIC_CONNECT", "OK", r.conn)}
    [] r.what = "STATUS" -> {Packet("FLIC_STATUS", "OK", r.conn)}
    [] r.what = "INFO" -> {Packet("FLIC_INFO_GENERAL", "OK", "ALL")}
    [] r.what = "OTHER" -> {}

\* A payload behind its length, and the bytes of a report.
Framed(p) == <<Len(p) % (2 * Half), Len(p) \div (2 * Half)>> \o p
Bytestream(ps) == FlattenSeq([n \in DOMAIN ps |-> Framed(ps[n])])

FlicdSends ==
  /\ link = "open"
  /\ \E r \in Reports :
       /\ stream' = stream \o Bytestream(PayloadsOf(r))
       /\ Len(stream') <= MaxStream
       /\ act' = {[sent |-> e] : e \in EventsOf(r)}
  /\ UNCHANGED <<link, reader, pipe, mpc>>

FlicdCloses ==
  /\ link = "open"
  /\ link' = "closed"
  /\ act' = {}
  /\ UNCHANGED <<stream, reader, pipe, mpc>>

LinkBreaks ==
  /\ link = "open"
  /\ link' = "broken"
  /\ stream' = <<>>
  /\ act' = {}
  /\ UNCHANGED <<reader, pipe, mpc>>

Flicd == FlicdSends \/ FlicdCloses \/ LinkBreaks

Next == Reader \/ Main \/ Flicd

Spec == Init /\ [][Next]_vars

\* The threads run: recv returns within its minute, and the main thread comes
\* back to the read.  If flicd is quiet again and again, it is for a minute.
FairSpec == Spec /\ WF_vars(Reader) /\ WF_vars(Main) /\ SF_vars(HeaderTimeout)

-----------------------------------------------------------------------------
(* Properties. *)

Messages ==
  [op : {"FLIC_UPDOWN"}, status : Bytes, butt : Bytes]
    \union [op : {"FLIC_CONNECT", "FLIC_STATUS"}, status : {"OK"}, butt : Bytes]
    \union {Packet("FLIC_INFO_GENERAL", "OK", "ALL"), Ping, Fatal}

\* The reader and the pipe keep their types; the pipe never holds more than it
\* has room for.
TypeOK ==
  /\ stream \in Seq(Bytes) /\ Len(stream) <= MaxStream
  /\ link \in {"open", "closed", "broken"}
  /\ buf \in [1..3 -> Bytes]
  /\ pos \in Nat
  /\ left \in Int
  /\ rpc \in {"header", "payload", "ended"}
  /\ pipe \in Seq(Messages) /\ Len(pipe) <= PipeCap
  /\ mpc \in {"top", "read"}
  /\ fresh \in BOOLEAN

\* As long as flicd is there, and quiet now and then, the blocking read of the
\* main thread returns again and again: the epochs of looper rest on it.
ReadReturns ==
  <>[](link = "open" /\ rpc # "ended") /\ []<>(rpc = "header" /\ stream = <<>>)
    => []<>(mpc = "top")

\* flicd_client_protocol_packets.h: "16-bit little endian length header is
\* prepended to each packet".
LengthDecoded ==
  [][ReadHeader => left' = UnsignedLength(stream[1], stream[2])]_vars

\* flicd_client.h: FLIC_PING is the "periodic message over pipe for sanity": the
\* main thread goes on reading for as long as the reader thread runs.
PingIsPeriodic == []<>(mpc = "top" \/ rpc = "ended")

\* Flic2MQTT.cpp: "Loop as long as the flicd returns a normal condition": once
\* the reader has reported a fatal condition and ended, the main thread does not
\* wait for it for ever.
FatalIsHeeded == ~<>[](rpc = "ended" /\ mpc = "read")

-----------------------------------------------------------------------------
(* What the main thread may believe of the packets it reads: the mapping   *)
(* to FlicFeed.  The events not yet read are those in the pipe, in the     *)
(* buffer and in the stream.                                               *)

\* The packet at the front of some bytes, and what comes behind it.
HasPacket(bytes) ==
  Len(bytes) >= 2 /\ Len(bytes) >= 2 + UnsignedLength(bytes[1], bytes[2])
FirstPayload(bytes) == SubSeq(bytes, 3, 2 + UnsignedLength(bytes[1], bytes[2]))
Behind(bytes) == SubSeq(bytes, 3 + UnsignedLength(bytes[1], bytes[2]), Len(bytes))

\* What the packets of a stream will make the reader tell, oldest first.
TellAll[bytes \in Seq(Bytes)] ==
  IF HasPacket(bytes) THEN Tell(FirstPayload(bytes)) \o TellAll[Behind(bytes)] ELSE <<>>

\* The messages of the pipe that are no pings.
Events(s) ==
  FlattenSeq([n \in DOMAIN s |-> IF s[n].op = "FLIC_PING" THEN <<>> ELSE <<s[n]>>])

\* The packet being received, completed with what is to come of it.
Completed == [i \in 1..3 |-> IF i - pos \in 1..left THEN stream[i - pos] ELSE buf[i]]

InReader ==
  IF rpc # "payload" \/ left > Len(stream) THEN <<>> ELSE Tell(Completed)

InStream ==
  CASE rpc = "header" -> TellAll[stream]
    [] rpc = "payload" /\ left <= Len(stream) ->
         TellAll[SubSeq(stream, 1 + (IF left > 0 THEN left ELSE 0), Len(stream))]
    [] OTHER -> <<>>

Due == Events(pipe) \o InReader \o InStream

Payloads == UNION {ToSet(PayloadsOf(r)) : r \in Reports}

Tellings == UNION {EventsOf(r) : r \in Reports}

Cut == link # "open" \/ rpc = "ended"

Feed == INSTANCE FlicFeed WITH due <- Due, cut <- Cut

\* The socket is closed before anything was received: what malloc left in the buffer
\* may be told of as if flicd had sent it.
FalseEvent ==
  /\ HeaderEof /\ fresh
  /\ Due' = Due \o Tell(buf)
  /\ Cut' = Cut
  /\ act' = {}

\* README.md: "As button events are received from flicd, it converts these events
\* into MQTT topic posts".  The main thread reads the events flicd sent, in order,
\* none twice, none skipped and none that was not sent, for every way the bytes may
\* be split, up to a failure of the link; but a false event may come of a socket that
\* is closed before its first packet, and of no other.  A step of a gesture is one
\* event, on however many opcodes flicd reports it.
FeedKept == Feed!Init /\ [][[Feed!Next]_(Feed!vars) \/ FalseEvent]_vars

\* The reports it is kept for: a packet is shorter than the length that is decoded
\* wrong; the second byte of one that is told of is not negative; and "OTHER" is not
\* the name of a report that is told of.
FeedAssumption ==
  \A r \in Reports :
    /\ r.what \notin {"INFO", "OTHER"} => r.conn < Half
    /\ r.what = "INFO" => Len(r.rest) + 1 < Half /\ (r.rest # <<>> => r.rest[1] < Half)
    /\ r.what = "OTHER" =>
         /\ Len(r.rest) \in 1..(Half - 1)
         /\ r.rest[1] \notin
              {CreateConnectionChannelResponse, ConnectionStatusChanged, ButtonUpOrDown,
               ButtonClickOrHold, ButtonSingleOrDoubleClick, GetInfoResponse}

\* The bytes are those of reported packets, all of each.
OnlyPackets[bytes \in Seq(Bytes)] ==
  \/ bytes = <<>>
  \/ HasPacket(bytes) /\ FirstPayload(bytes) \in Payloads /\ OnlyPackets[Behind(bytes)]

\* If three bytes are taken for a header and no payload is waited for, they are told
\* of as nothing.
Harmless(b) == PacketLen(b[1], b[2]) <= 0 => Tell(b) = <<>>

\* In a payload, its rest is at the front of the stream, and packets behind it.
Receiving ==
  /\ ~fresh
  /\ left >= 0
  /\ OnlyPackets[SubSeq(stream, left + 1, Len(stream))]
  /\ Harmless(Completed)
  /\ \E p \in Payloads :
       Len(p) = pos + left /\ \A i \in 1..3 : i <= Len(p) => Completed[i] = p[i]

\* flicd is gone, and what stands in the buffer is taken for a header.  It is none
\* that would be told of, unless it is malloc's.
AfterEof ==
  /\ left <= 0 /\ stream = <<>> /\ link = "closed"
  /\ ~fresh => Tell(buf) = <<>>

\* The inductive invariant: where the reader is in the stream.
FeedInv ==
  /\ TypeOK
  /\ rpc = "header" => OnlyPackets[stream] /\ (~fresh => Harmless(buf))
  /\ rpc = "payload" =>
       IF left > Len(stream) THEN stream = <<>> /\ link # "open" ELSE Receiving \/ AfterEof
=============================================================================
