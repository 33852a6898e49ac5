--------------------------- MODULE FlicReaderProofs ---------------------------
(***************************************************************************)
(* Theorems about the reader thread, for any byte, reports, pipe and bound *)
(* on the stream: its types, and that it implements FlicFeed.              *)
(***************************************************************************)
EXTENDS FlicReader, SequenceLemmas

-----------------------------------------------------------------------------
(* The operators. *)

\* A payload is told of in one message at most.
LEMMA TellShort ==
  ASSUME NEW p
  PROVE  Tell(p) = <<>> \/ Tell(p) = <<Tell(p)[1]>>
  BY DEF Tell

\* What is told of three bytes is a message.
LEMMA TellType ==
  ASSUME NEW b \in [1..3 -> Bytes]
  PROVE  Tell(b) \in Seq(Messages) /\ Len(Tell(b)) \in Nat
  <1>1. b[2] \in Bytes /\ b[3] \in Bytes
    OBVIOUS
  <1>2. /\ Packet("FLIC_UPDOWN", b[3], b[2]) \in Messages
        /\ Packet("FLIC_CONNECT", "OK", b[2]) \in Messages
        /\ Packet("FLIC_STATUS", "OK", b[2]) \in Messages
        /\ Packet("FLIC_INFO_GENERAL", "OK", "ALL") \in Messages
    BY <1>1 DEF Packet, Messages
  <1>3. \A m \in Messages : <<m>> \in Seq(Messages) /\ Len(<<m>>) \in Nat
    OBVIOUS
  <1> HIDE DEF Messages
  <1> QED
    BY <1>2, <1>3 DEF Tell

\* A framed payload is bytes.
LEMMA FramedType ==
  ASSUME NEW p \in Seq(Bytes), Len(p) < 4 * Half * Half
  PROVE  Framed(p) \in Seq(Bytes)
  <1> DEFINE len == Len(p)
  <1>1. len \in Nat /\ len < (2 * Half) * (2 * Half) /\ Half \in Nat /\ Half > 9
    BY ReaderAssumption
  <1> HIDE DEF len
  <1>2. len % (2 * Half) \in Bytes
    BY <1>1 DEF Bytes
  <1>3. len \div (2 * Half) \in Bytes
    BY <1>1, Z3 DEF Bytes
  <1>4. <<len % (2 * Half), len \div (2 * Half)>> \in Seq(Bytes)
    BY <1>2, <1>3
  <1> QED
    BY <1>4, ConcatProperties DEF Framed, len

\* One or two payloads are sent one behind the other.
LEMMA BytestreamIs ==
  ASSUME NEW p, NEW q, Framed(p) \in Seq(Bytes), Framed(q) \in Seq(Bytes)
  PROVE  Bytestream(<<p>>) = Framed(p) /\ Bytestream(<<p, q>>) = Framed(p) \o Framed(q)
  <1> DEFINE f == Framed(p)
             g == Framed(q)
  <1>1. Bytestream(<<p>>) = FlattenSeq(<<f>>) /\ Bytestream(<<p, q>>) = FlattenSeq(<<f, g>>)
    <2>1. [n \in DOMAIN <<p>> |-> Framed(<<p>>[n])] = <<f>>
      OBVIOUS
    <2>2. [n \in DOMAIN <<p, q>> |-> Framed(<<p, q>>[n])] = <<f, g>>
      OBVIOUS
    <2> QED
      BY <2>1, <2>2 DEF Bytestream
  <1>2. f \in Seq(Bytes) /\ g \in Seq(Bytes)
    OBVIOUS
  <1> HIDE DEF f, g
  <1>3. FlattenSeq(<<f>>) = f
    <2>1. <<>> \in Seq(Seq(Bytes)) /\ Append(<<>>, f) = <<f>> /\ <<>> \o f = f
      BY <1>2
    <2>2. FlattenSeq(<<>>) = <<>>
      BY FlattenType
    <2> QED
      BY <1>2, <2>1, <2>2, FlattenAppend
  <1>4. FlattenSeq(<<f, g>>) = f \o g
    <2> DEFINE S == Seq(Bytes)
    <2>a. f \in S /\ g \in S
      BY <1>2
    <2> HIDE DEF S
    <2>b. <<f>> \in Seq(S) /\ Append(<<f>>, g) \in Seq(S) /\ <<f, g>> \in Seq(S)
      BY <2>a
    <2>c. Append(<<f>>, g) = <<f, g>>
      <3>1. /\ Len(Append(<<f>>, g)) = 2 /\ Len(<<f, g>>) = 2
            /\ \A n \in 1..2 : Append(<<f>>, g)[n] = <<f, g>>[n]
        BY <2>a
      <3> QED
        BY <2>b, <3>1, SeqEqual
    <2>1. <<f>> \in Seq(Seq(Bytes)) /\ Append(<<f>>, g) = <<f, g>>
      BY <2>b, <2>c DEF S
    <2> QED
      BY <1>2, <1>3, <2>1, FlattenAppend
  <1> QED
    BY <1>1, <1>3, <1>4 DEF f, g

\* A payload the reader takes for what it is.
Proper(p) ==
  /\ Len(p) \in 1..(Half - 1)
  /\ p[1] \in {CreateConnectionChannelResponse, ConnectionStatusChanged} => Len(p) > 1
  /\ p[1] \in {ButtonUpOrDown, ButtonClickOrHold, ButtonSingleOrDoubleClick} => Len(p) > 2
  /\ Tell(p) # <<>> /\ Len(p) > 1 => p[2] < Half

\* What is told is the event of the report, or nothing if there is none.
IsTold(t, r) ==
  \/ t = <<>> /\ EventsOf(r) = {}
  \/ \E e \in EventsOf(r) : t = <<e>> /\ EventsOf(r) = {e}

\* A report is one payload, which tells of its event; or two, the first of which does.
LEMMA ReportIs ==
  ASSUME NEW r \in Reports
  PROVE  \E p, q \in Seq(Bytes) :
           /\ Len(p) < 4 * Half * Half /\ Len(q) < 4 * Half * Half
           /\ \/ PayloadsOf(r) = <<p>>
              \/ PayloadsOf(r) = <<p, q>> /\ Tell(q) = <<>> /\ (FeedAssumption => Proper(q))
           /\ FeedAssumption => Proper(p) /\ IsTold(Tell(p), r)
  <1>1. /\ r.what \in {"DOWN", "UP", "CLICK", "HOLD", "SINGLECLICK", "DOUBLECLICK",
                       "CONNECT", "STATUS", "INFO", "OTHER"}
        /\ r.conn \in Bytes /\ r.rest \in Seq(Bytes)
        /\ Len(r.rest) \in Nat /\ Len(r.rest) + 1 < 4 * Half * Half
        /\ Half \in Nat /\ Half > 9
    BY ReaderAssumption DEF Bytes
  <1> DEFINE w == r.what
             c == r.conn
             s == r.rest
             Goal == \E p, q \in Seq(Bytes) :
                       /\ Len(p) < 4 * Half * Half /\ Len(q) < 4 * Half * Half
                       /\ \/ PayloadsOf(r) = <<p>>
                          \/ PayloadsOf(r) = <<p, q>> /\ Tell(q) = <<>> /\ (FeedAssumption => Proper(q))
                       /\ FeedAssumption => Proper(p) /\ IsTold(Tell(p), r)
  <1> SUFFICES Goal
    OBVIOUS
  <1>2. 4 * Half * Half \in Nat /\ 4 * Half * Half > 3
    <2> DEFINE h == Half
    <2>1. h \in Nat /\ h > 9
      BY <1>1
    <2> HIDE DEF h
    <2>2. 4 * h * h \in Nat /\ 4 * h * h > 3
      BY <2>1, Z3
    <2> QED
      BY <2>2 DEF h
  <1> USE DEF ButtonDown, ButtonUp, ButtonClick, ButtonSingleClick, ButtonDoubleClick, ButtonHold,
              CreateConnectionChannelResponse, ConnectionStatusChanged, ButtonUpOrDown,
              ButtonClickOrHold, ButtonSingleOrDoubleClick, ButtonSingleOrDoubleClickOrHold,
              GetInfoResponse
  <1>3. FeedAssumption =>
          /\ w \notin {"INFO", "OTHER"} => c < Half
          /\ w = "INFO" => Len(s) + 1 < Half /\ (s # <<>> => s[1] < Half)
          /\ w = "OTHER" => Len(s) \in 1..(Half - 1) /\ s[1] \notin {1, 2, 4, 5, 6, 9}
    BY DEF FeedAssumption
  <1>4. ASSUME NEW op \in 0..9, NEW click \in 0..9
        PROVE  /\ <<op, c, click>> \in Seq(Bytes) /\ <<op, c>> \in Seq(Bytes)
               /\ Len(<<op, c, click>>) = 3 /\ Len(<<op, c>>) = 2
    BY <1>1 DEF Bytes
  <1>5. ASSUME NEW click \in 0..9
        PROVE  /\ Tell(<<4, c, click>>) = <<Packet("FLIC_UPDOWN", click, c)>>
               /\ Tell(<<7, c, click>>) = <<>>
               /\ click = 5 => Tell(<<5, c, click>>) = <<Packet("FLIC_UPDOWN", click, c)>>
               /\ click # 5 => Tell(<<5, c, click>>) = <<>>
               /\ click \in {3, 4} =>
                    Tell(<<6, c, click>>) = <<Packet("FLIC_UPDOWN", click, c)>>
    BY DEF Tell
  <1>6. Tell(<<1, c>>) = <<Packet("FLIC_CONNECT", "OK", c)>>
        /\ Tell(<<2, c>>) = <<Packet("FLIC_STATUS", "OK", c)>>
    BY DEF Tell
  <1>7. FeedAssumption /\ w \notin {"INFO", "OTHER"} =>
          /\ \A op \in {4, 5, 6, 7} : \A click \in 0..9 : Proper(<<op, c, click>>)
          /\ \A op \in {1, 2} : Proper(<<op, c>>)
    BY <1>1, <1>3 DEF Proper
  <1>a. ASSUME NEW p \in Seq(Bytes), Len(p) < 4 * Half * Half, PayloadsOf(r) = <<p>>,
               FeedAssumption => Proper(p) /\ IsTold(Tell(p), r)
        PROVE  Goal
    BY <1>a
  <1>b. ASSUME NEW p \in Seq(Bytes), NEW q \in Seq(Bytes),
               Len(p) < 4 * Half * Half, Len(q) < 4 * Half * Half, PayloadsOf(r) = <<p, q>>,
               Tell(q) = <<>>, FeedAssumption => Proper(q),
               FeedAssumption => Proper(p) /\ IsTold(Tell(p), r)
        PROVE  Goal
    BY <1>b
  <1>c. ASSUME NEW e, NEW t, EventsOf(r) = {e}, t = <<e>>
        PROVE  IsTold(t, r)
    BY <1>c DEF IsTold
  <1> HIDE DEF Goal
  <1>8. CASE w = "DOWN"
    <2> DEFINE p == <<4, c, 0>>
    <2>1. PayloadsOf(r) = <<p>>
      BY <1>8 DEF PayloadsOf
    <2>2. EventsOf(r) = {Packet("FLIC_UPDOWN", 0, c)}
      BY <1>8 DEF EventsOf, FLIC_STATUS_DOWN
    <2>3. p \in Seq(Bytes) /\ Len(p) = 3
      BY <1>4
    <2>4. IsTold(Tell(p), r)
      BY <1>5, <1>c, <2>2
    <2>5. FeedAssumption => Proper(p)
      BY <1>7, <1>8
    <2> HIDE DEF p
    <2> QED
      BY <1>2, <1>a, <2>1, <2>3, <2>4, <2>5
  <1>9. CASE w = "UP"
    <2> DEFINE p == <<4, c, 1>>
    <2>1. PayloadsOf(r) = <<p>>
      BY <1>9 DEF PayloadsOf
    <2>2. EventsOf(r) = {Packet("FLIC_UPDOWN", 1, c)}
      BY <1>9 DEF EventsOf, FLIC_STATUS_UP
    <2>3. p \in Seq(Bytes) /\ Len(p) = 3
      BY <1>4
    <2>4. IsTold(Tell(p), r)
      BY <1>5, <1>c, <2>2
    <2>5. FeedAssumption => Proper(p)
      BY <1>7, <1>9
    <2> HIDE DEF p
    <2> QED
      BY <1>2, <1>a, <2>1, <2>3, <2>4, <2>5
  <1>10. CASE w = "CLICK"
    <2> DEFINE p == <<4, c, 1>>
               q == <<5, c, 2>>
    <2>1. PayloadsOf(r) = <<p, q>>
      BY <1>10 DEF PayloadsOf
    <2>2. EventsOf(r) = {Packet("FLIC_UPDOWN", 1, c)}
      BY <1>10 DEF EventsOf, FLIC_STATUS_UP
    <2>3. p \in Seq(Bytes) /\ Len(p) = 3 /\ q \in Seq(Bytes) /\ Len(q) = 3
      BY <1>4
    <2>4. IsTold(Tell(p), r) /\ Tell(q) = <<>>
      BY <1>5, <1>c, <2>2
    <2>5. FeedAssumption => Proper(p) /\ Proper(q)
      BY <1>7, <1>10
    <2> HIDE DEF p, q
    <2> QED
      BY <1>2, <1>b, <2>1, <2>3, <2>4, <2>5
  <1>11. CASE w = "HOLD"
    <2> DEFINE p == <<5, c, 5>>
               q == <<7, c, 5>>
    <2>1. PayloadsOf(r) = <<p, q>>
      BY <1>11 DEF PayloadsOf
    <2>2. EventsOf(r) = {Packet("FLIC_UPDOWN", 5, c)}
      BY <1>11 DEF EventsOf, FLIC_STATUS_HOLD
    <2>3. p \in Seq(Bytes) /\ Len(p) = 3 /\ q \in Seq(Bytes) /\ Len(q) = 3
      BY <1>4
    <2>4. IsTold(Tell(p), r) /\ Tell(q) = <<>>
      BY <1>5, <1>c, <2>2
    <2>5. FeedAssumption => Proper(p) /\ Proper(q)
      BY <1>7, <1>11
    <2> HIDE DEF p, q
    <2> QED
      BY <1>2, <1>b, <2>1, <2>3, <2>4, <2>5
  <1>12. CASE w = "SINGLECLICK"
    <2> DEFINE p == <<6, c, 3>>
               q == <<7, c, 3>>
    <2>1. PayloadsOf(r) = <<p, q>>
      BY <1>12 DEF PayloadsOf
    <2>2. EventsOf(r) = {Packet("FLIC_UPDOWN", 3, c)}
      BY <1>12 DEF EventsOf, FLIC_STATUS_SINGLECLICK
    <2>3. p \in Seq(Bytes) /\ Len(p) = 3 /\ q \in Seq(Bytes) /\ Len(q) = 3
      BY <1>4
    <2>4. IsTold(Tell(p), r) /\ Tell(q) = <<>>
      BY <1>5, <1>c, <2>2
    <2>5. FeedAssumption => Proper(p) /\ Proper(q)
      BY <1>7, <1>12
    <2> HIDE DEF p, q
    <2> QED
      BY <1>2, <1>b, <2>1, <2>3, <2>4, <2>5
  <1>13. CASE w = "DOUBLECLICK"
    <2> DEFINE p == <<6, c, 4>>
               q == <<7, c, 4>>
    <2>1. PayloadsOf(r) = <<p, q>>
      BY <1>13 DEF PayloadsOf
    <2>2. EventsOf(r) = {Packet("FLIC_UPDOWN", 4, c)}
      BY <1>13 DEF EventsOf, FLIC_STATUS_DOUBLECLICK
    <2>3. p \in Seq(Bytes) /\ Len(p) = 3 /\ q \in Seq(Bytes) /\ Len(q) = 3
      BY <1>4
    <2>4. IsTold(Tell(p), r) /\ Tell(q) = <<>>
      BY <1>5, <1>c, <2>2
    <2>5. FeedAssumption => Proper(p) /\ Proper(q)
      BY <1>7, <1>13
    <2> HIDE DEF p, q
    <2> QED
      BY <1>2, <1>b, <2>1, <2>3, <2>4, <2>5
  <1>14. CASE w = "CONNECT"
    <2> DEFINE p == <<1, c>>
    <2>1. PayloadsOf(r) = <<p>>
      BY <1>14 DEF PayloadsOf
    <2>2. EventsOf(r) = {Packet("FLIC_CONNECT", "OK", c)}
      BY <1>14 DEF EventsOf
    <2>3. p \in Seq(Bytes) /\ Len(p) = 2
      BY <1>4
    <2>4. IsTold(Tell(p), r)
      BY <1>6, <1>c, <2>2
    <2>5. FeedAssumption => Proper(p)
      BY <1>7, <1>14
    <2>6. Len(p) < 4 * Half * Half
      BY <1>2, <2>3
    <2> HIDE DEF p
    <2> QED
      BY <1>a, <2>1, <2>3, <2>4, <2>5, <2>6
  <1>15. CASE w = "STATUS"
    <2> DEFINE p == <<2, c>>
    <2>1. PayloadsOf(r) = <<p>>
      BY <1>15 DEF PayloadsOf
    <2>2. EventsOf(r) = {Packet("FLIC_STATUS", "OK", c)}
      BY <1>15 DEF EventsOf
    <2>3. p \in Seq(Bytes) /\ Len(p) = 2
      BY <1>4
    <2>4. IsTold(Tell(p), r)
      BY <1>6, <1>c, <2>2
    <2>5. FeedAssumption => Proper(p)
      BY <1>7, <1>15
    <2>6. Len(p) < 4 * Half * Half
      BY <1>2, <2>3
    <2> HIDE DEF p
    <2> QED
      BY <1>a, <2>1, <2>3, <2>4, <2>5, <2>6
  <1>16. CASE w = "INFO"
    <2> DEFINE p == <<9>> \o s
    <2>1. PayloadsOf(r) = <<p>>
      BY <1>16 DEF PayloadsOf
    <2>2. /\ p \in Seq(Bytes) /\ Len(p) = Len(s) + 1 /\ p[1] = 9
          /\ Len(p) > 1 => s # <<>> /\ p[2] = s[1]
      BY <1>1 DEF Bytes
    <2>3. EventsOf(r) = {Packet("FLIC_INFO_GENERAL", "OK", "ALL")}
      BY <1>16 DEF EventsOf
    <2> HIDE DEF p
    <2>4. Tell(p) = <<Packet("FLIC_INFO_GENERAL", "OK", "ALL")>>
      BY <2>2 DEF Tell
    <2>5. FeedAssumption => Proper(p)
      BY <1>1, <1>3, <1>16, <2>2 DEF Proper
    <2>6. IsTold(Tell(p), r)
      BY <1>c, <2>3, <2>4
    <2> QED
      BY <1>1, <1>a, <2>1, <2>2, <2>5, <2>6
  <1>17. CASE w = "OTHER"
    <2>1. PayloadsOf(r) = <<s>> /\ EventsOf(r) = {}
      BY <1>17 DEF PayloadsOf, EventsOf
    <2>2. FeedAssumption => Tell(s) = <<>>
      BY <1>3, <1>17 DEF Tell
    <2>3. FeedAssumption => Proper(s)
      BY <1>3, <1>17, <2>2 DEF Proper
    <2>4. Tell(s) = <<>> => IsTold(Tell(s), r)
      BY <2>1 DEF IsTold
    <2>5. Len(s) < 4 * Half * Half
      <3> DEFINE top == 4 * Half * Half
      <3>1. top \in Nat /\ Len(s) + 1 < top
        BY <1>1
      <3> HIDE DEF top
      <3>2. Len(s) < top
        BY <1>1, <3>1
      <3> QED
        BY <3>2 DEF top
    <2> QED
      BY <1>1, <1>a, <2>1, <2>2, <2>3, <2>4, <2>5
  <1> QED
    BY <1>1, <1>8, <1>9, <1>10, <1>11, <1>12, <1>13, <1>14, <1>15, <1>16, <1>17

\* The payloads of the reports are bytes.
LEMMA PayloadType ==
  /\ \A p \in Payloads : p \in Seq(Bytes) /\ Framed(p) \in Seq(Bytes) /\ (FeedAssumption => Proper(p))
  /\ \A r \in Reports : Bytestream(PayloadsOf(r)) \in Seq(Bytes)
  <1>1. ASSUME NEW r \in Reports
        PROVE  /\ \A x \in ToSet(PayloadsOf(r)) :
                    x \in Seq(Bytes) /\ Framed(x) \in Seq(Bytes) /\ (FeedAssumption => Proper(x))
               /\ Bytestream(PayloadsOf(r)) \in Seq(Bytes)
    <2>1. PICK p, q \in Seq(Bytes) :
            /\ Len(p) < 4 * Half * Half /\ Len(q) < 4 * Half * Half
            /\ PayloadsOf(r) = <<p>> \/ (PayloadsOf(r) = <<p, q>> /\ (FeedAssumption => Proper(q)))
            /\ FeedAssumption => Proper(p)
      BY ReportIs
    <2>2. Framed(p) \in Seq(Bytes) /\ Framed(q) \in Seq(Bytes)
      BY <2>1, FramedType
    <2>3. /\ Bytestream(<<p>>) = Framed(p) /\ Bytestream(<<p, q>>) = Framed(p) \o Framed(q)
          /\ Framed(p) \o Framed(q) \in Seq(Bytes)
      BY <2>2, BytestreamIs, ConcatProperties
    <2>4. ToSet(<<p>>) = {p} /\ ToSet(<<p, q>>) = {p, q}
      BY DEF ToSet
    <2> QED
      BY <2>1, <2>2, <2>3, <2>4
  <1> QED
    BY <1>1 DEF Payloads

-----------------------------------------------------------------------------
(* The types. *)

LEMMA InitTypes == Init => TypeOK
  BY ReaderAssumption DEF Init, TypeOK, Bytes

LEMMA StepTypes ==
  ASSUME TypeOK, [Next]_vars
  PROVE  TypeOK'
  <1> USE DEF TypeOK, socket, reader
  <1>0. /\ Len(stream) \in Nat /\ Len(pipe) \in Nat /\ pos \in Nat /\ left \in Int
        /\ Half \in Nat /\ Half > 9 /\ PipeCap \in Nat \ {0} /\ MaxStream \in Nat
        /\ \A n \in 1..Len(stream) : stream[n] \in Bytes
    BY ReaderAssumption
  <1>1. \A s \in Seq(Messages) : PipeSend(s) => pipe' \in Seq(Messages) /\ Len(pipe') <= PipeCap
    BY <1>0, ConcatProperties DEF PipeSend
  <1>2. \A n \in 1..(Len(stream) + 1) :
          /\ SubSeq(stream, n, Len(stream)) \in Seq(Bytes)
          /\ Len(SubSeq(stream, n, Len(stream))) <= Len(stream)
    BY <1>0
  <1>3. \A lo, hi \in Bytes : PacketLen(lo, hi) \in Int
    BY <1>0 DEF PacketLen, Char, Bytes
  <1>4. <<Ping>> \in Seq(Messages) /\ <<Fatal>> \in Seq(Messages)
    BY DEF Messages
  <1>5. CASE ReadHeader
    <2>1. /\ Len(stream) >= 2 /\ buf' = <<stream[1], stream[2], buf[3]>>
          /\ stream' = SubSeq(stream, 3, Len(stream))
          /\ left' = PacketLen(stream[1], stream[2])
          /\ pos' = 0 /\ rpc' = "payload" /\ fresh' = FALSE
          /\ UNCHANGED <<link, pipe, mpc>>
      BY <1>5 DEF ReadHeader
    <2>2. stream[1] \in Bytes /\ stream[2] \in Bytes
      BY <1>0, <2>1
    <2>3. buf' \in [1..3 -> Bytes]
      BY <2>1, <2>2
    <2>4. stream' \in Seq(Bytes) /\ Len(stream') <= MaxStream
      BY <1>0, <1>2, <2>1
    <2> QED
      BY <1>3, <2>1, <2>2, <2>3, <2>4
  <1>6. CASE HeaderTimeout
    BY <1>1, <1>4, <1>6 DEF HeaderTimeout
  <1>7. CASE HeaderFails
    BY <1>1, <1>4, <1>7 DEF HeaderFails, End
  <1>8. CASE HeaderEof
    BY <1>0, <1>3, <1>8 DEF HeaderEof
  <1>9. CASE ReadPayload
    <2>1. PICK n \in 1..left :
            /\ n <= Len(stream)
            /\ buf' = [i \in 1..3 |-> IF i - pos \in 1..n THEN stream[i - pos] ELSE buf[i]]
            /\ stream' = SubSeq(stream, n + 1, Len(stream))
            /\ pos' = pos + n
            /\ left' = left - n
      BY <1>9 DEF ReadPayload
    <2>2. UNCHANGED <<link, rpc, pipe, mpc, fresh>>
      BY <1>9 DEF ReadPayload
    <2>3. buf' \in [1..3 -> Bytes]
      BY <1>0, <2>1
    <2> QED
      BY <1>0, <1>2, <2>1, <2>2, <2>3
  <1>10. CASE PayloadFails
    BY <1>1, <1>4, <1>10 DEF PayloadFails, End
  <1>11. CASE PayloadEof
    BY <1>11 DEF PayloadEof
  <1>12. CASE Dispatch
    BY <1>1, <1>12, TellType DEF Dispatch
  <1>13. CASE Top
    BY <1>13 DEF Top
  <1>14. CASE Read
    BY <1>0, <1>14 DEF Read
  <1>15. CASE FlicdSends
    <2>1. PICK r \in Reports :
            /\ stream' = stream \o Bytestream(PayloadsOf(r))
            /\ Len(stream') <= MaxStream
      BY <1>15 DEF FlicdSends
    <2>2. UNCHANGED <<link, buf, pos, left, rpc, pipe, mpc, fresh>>
      BY <1>15 DEF FlicdSends
    <2>3. stream' \in Seq(Bytes)
      BY <2>1, PayloadType, ConcatProperties
    <2> QED
      BY <2>1, <2>2, <2>3
  <1>16. CASE FlicdCloses
    BY <1>16 DEF FlicdCloses
  <1>17. CASE LinkBreaks
    BY <1>0, <1>17 DEF LinkBreaks
  <1>18. CASE UNCHANGED vars
    BY <1>18 DEF vars
  <1> QED
    BY <1>5, <1>6, <1>7, <1>8, <1>9, <1>10, <1>11, <1>12, <1>13, <1>14, <1>15, <1>16, <1>17,
       <1>18
    DEF Next, Reader, Main, Flicd

\* For any reports, the reader and the pipe keep their types, and the pipe never
\* holds more than it has room for.
THEOREM ReaderTypes == Spec => []TypeOK
  BY InitTypes, StepTypes, PTL DEF Spec

-----------------------------------------------------------------------------
(* The packets in some bytes. *)

\* The first payload, and what is behind it, are bytes; the latter are fewer.
LEMMA PacketType ==
  ASSUME NEW b \in Seq(Bytes), HasPacket(b)
  PROVE  /\ UnsignedLength(b[1], b[2]) \in Nat
         /\ Len(b) \in Nat /\ 2 + UnsignedLength(b[1], b[2]) <= Len(b)
         /\ FirstPayload(b) \in Seq(Bytes)
         /\ Len(FirstPayload(b)) = UnsignedLength(b[1], b[2])
         /\ \A n \in 1..Len(FirstPayload(b)) : FirstPayload(b)[n] = b[n + 2]
         /\ Behind(b) \in Seq(Bytes)
         /\ Len(Behind(b)) = Len(b) - 2 - UnsignedLength(b[1], b[2])
  <1>1. Len(b) \in Nat /\ Len(b) >= 2 /\ b[1] \in Bytes /\ b[2] \in Bytes
    BY DEF HasPacket
  <1>2. UnsignedLength(b[1], b[2]) \in Nat
    <2>1. 2 * Half * b[2] \in Nat
      BY <1>1, ReaderAssumption DEF Bytes
    <2> QED
      BY <1>1, <2>1 DEF UnsignedLength, Bytes
  <1>3. 2 + UnsignedLength(b[1], b[2]) <= Len(b)
    BY <1>1, <1>2 DEF HasPacket
  <1> DEFINE len == UnsignedLength(b[1], b[2])
  <1> HIDE DEF len
  <1>4. /\ SubSeq(b, 3, 2 + len) \in Seq(Bytes) /\ Len(SubSeq(b, 3, 2 + len)) = len
        /\ \A n \in 1..len : SubSeq(b, 3, 2 + len)[n] = b[n + 2]
    BY <1>1, <1>2, <1>3 DEF len
  <1>5. SubSeq(b, 3 + len, Len(b)) \in Seq(Bytes) /\ Len(SubSeq(b, 3 + len, Len(b))) = Len(b) - 2 - len
    BY <1>1, <1>2, <1>3 DEF len
  <1> QED
    BY <1>1, <1>2, <1>3, <1>4, <1>5 DEF FirstPayload, Behind, len

\* Bytes that come behind a packet leave it as it is.
LEMMA PacketFirst ==
  ASSUME NEW a \in Seq(Bytes), NEW b \in Seq(Bytes), HasPacket(a)
  PROVE  /\ a \o b \in Seq(Bytes)
         /\ HasPacket(a \o b)
         /\ FirstPayload(a \o b) = FirstPayload(a)
         /\ Behind(a \o b) = Behind(a) \o b
  <1> DEFINE c == a \o b
             len == UnsignedLength(a[1], a[2])
  <1>1. /\ Len(a) \in Nat /\ Len(a) >= 2 + len /\ Len(b) \in Nat /\ len \in Nat
        /\ c \in Seq(Bytes) /\ Len(c) = Len(a) + Len(b)
        /\ \A n \in 1..Len(a) : c[n] = a[n]
        /\ \A n \in 1..Len(b) : c[Len(a) + n] = b[n]
    BY PacketType, ConcatProperties DEF HasPacket
  <1>2. UnsignedLength(c[1], c[2]) = len
    <2>1. c[1] = a[1] /\ c[2] = a[2]
      BY <1>1
    <2> QED
      BY <2>1
  <1> HIDE DEF c, len
  <1>3. HasPacket(c)
    BY <1>1, <1>2 DEF HasPacket
  <1>4. SubSeq(c, 3, 2 + len) = SubSeq(a, 3, 2 + len)
    <2> DEFINE x == SubSeq(c, 3, 2 + len)
               y == SubSeq(a, 3, 2 + len)
    <2>1. x \in Seq(Bytes) /\ Len(x) = len /\ \A n \in 1..len : x[n] = c[n + 2]
      BY <1>1
    <2>2. y \in Seq(Bytes) /\ Len(y) = len /\ \A n \in 1..len : y[n] = a[n + 2]
      BY <1>1
    <2>3. \A n \in 1..len : c[n + 2] = a[n + 2]
      BY <1>1
    <2> HIDE DEF x, y
    <2>4. x = y
      BY <2>1, <2>2, <2>3, SeqEqual
    <2> QED
      BY <2>4 DEF x, y
  <1>5. SubSeq(c, 3 + len, Len(c)) = SubSeq(a, 3 + len, Len(a)) \o b
    <2>1. 3 + len \in 1..(Len(a) + 1)
      BY <1>1
    <2> QED
      BY <2>1, SubSeqConcat DEF c
  <1> QED
    BY <1>1, <1>2, <1>3, <1>4, <1>5 DEF FirstPayload, Behind, c, len

\* What may be told of some bytes.
Told == {Tell(FirstPayload(b))[1] : b \in Seq(Bytes)}

\* To go behind the first packet is to descend.
Next1 == [b \in Seq(Bytes) |-> IF HasPacket(b) THEN Behind(b) ELSE b]
None1 == {b \in Seq(Bytes) : ~HasPacket(b)}

LEMMA BehindDescends == Descends(Seq(Bytes), [b \in Seq(Bytes) |-> Len(b)], None1, Next1)
  <1>1. \A b \in Seq(Bytes) : Len(b) \in Nat /\ Next1[b] \in Seq(Bytes)
    BY PacketType DEF Next1
  <1>2. ASSUME NEW b \in Seq(Bytes) \ None1 PROVE Len(Next1[b]) < Len(b)
    <2>1. HasPacket(b)
      BY DEF None1
    <2> QED
      BY <2>1, PacketType DEF Next1
  <1>3. Next1 \in [Seq(Bytes) -> Seq(Bytes)] /\ None1 \in SUBSET Seq(Bytes)
    BY <1>1 DEF Next1, None1
  <1>4. [b \in Seq(Bytes) |-> Len(b)] \in [Seq(Bytes) -> Nat]
    BY <1>1
  <1> QED
    BY <1>1, <1>2, <1>3, <1>4 DEF Descends

\* What is told of a packet is some of it.
LEMMA ToldType ==
  \A b \in Seq(Bytes) : Tell(FirstPayload(b)) \in Seq(Told)
  <1> SUFFICES ASSUME NEW b \in Seq(Bytes) PROVE Tell(FirstPayload(b)) \in Seq(Told)
    OBVIOUS
  <1> DEFINE t == Tell(FirstPayload(b))[1]
  <1>1. t \in Told
    BY DEF Told
  <1>2. Tell(FirstPayload(b)) = <<>> \/ Tell(FirstPayload(b)) = <<t>>
    BY TellShort
  <1> HIDE DEF t
  <1>3. <<>> \in Seq(Told) /\ <<t>> \in Seq(Told)
    BY <1>1
  <1> QED
    BY <1>2, <1>3

\* TellAll is what its definition says.
LEMMA TellAllIs ==
  /\ \A b \in Seq(Bytes) :
       TellAll[b] = IF HasPacket(b) THEN Tell(FirstPayload(b)) \o TellAll[Behind(b)] ELSE <<>>
  /\ TellAll \in [Seq(Bytes) -> Seq(Told)]
  <1> DEFINE D == Seq(Bytes)
             base == [b \in D |-> <<>>]
             g == [p \in D \X Seq(Told) |-> Tell(FirstPayload(p[1])) \o p[2]]
             Is(h) == h = [b \in D |-> IF HasPacket(b) THEN Tell(FirstPayload(b)) \o h[Behind(b)]
                                         ELSE <<>>]
  <1>1. \A b \in D : Tell(FirstPayload(b)) \in Seq(Told)
    BY ToldType
  <1>2. base \in [D -> Seq(Told)]
    OBVIOUS
  <1>3. g \in [D \X Seq(Told) -> Seq(Told)]
    BY <1>1, ConcatProperties
  <1>4. PICK h \in [D -> Seq(Told)] : Recursive(h, D, None1, Next1, base, g)
    <2> HIDE DEF base, g
    <2> QED
      BY <1>2, <1>3, BehindDescends, RecursionExists
  <1>5. ASSUME NEW b \in D
        PROVE  h[b] = IF HasPacket(b) THEN Tell(FirstPayload(b)) \o h[Behind(b)] ELSE <<>>
    <2>1. h[b] = IF b \in None1 THEN base[b] ELSE g[<<b, h[Next1[b]]>>]
      BY <1>4 DEF Recursive
    <2>2. CASE HasPacket(b)
      <3>1. b \notin None1 /\ Next1[b] = Behind(b) /\ Behind(b) \in D
        BY <2>2, PacketType DEF None1, Next1
      <3>2. <<b, h[Behind(b)]>> \in D \X Seq(Told)
        BY <3>1
      <3> QED
        BY <2>1, <2>2, <3>1, <3>2
    <2>3. CASE ~HasPacket(b)
      BY <2>1, <2>3 DEF None1
    <2> QED
      BY <2>2, <2>3
  <1>6. Is(h)
    BY <1>5
  <1>7. Is(TellAll)
    <2>1. TellAll = CHOOSE f : Is(f)
      BY DEF TellAll
    <2> QED
      BY <1>6, <2>1
  <1> DEFINE S == {b \in D : TellAll[b] \in Seq(Told)}
  <1>8. None1 \subseteq S
    BY <1>7 DEF None1
  <1>9. ASSUME NEW b \in D \ None1, Next1[b] \in S PROVE b \in S
    <2>1. HasPacket(b) /\ Next1[b] = Behind(b)
      BY DEF None1, Next1
    <2>2. TellAll[b] = Tell(FirstPayload(b)) \o TellAll[Behind(b)]
      BY <1>7, <2>1
    <2>3. TellAll[Behind(b)] \in Seq(Told) /\ Tell(FirstPayload(b)) \in Seq(Told)
      BY <1>1, <1>9, <2>1
    <2>4. TellAll[b] \in Seq(Told)
      <3> HIDE DEF g, base, S
      <3> QED
        BY <2>2, <2>3, ConcatProperties
    <2> QED
      BY <2>4
  <1>10. S = D
    <2>1. Inherited(S, D, None1, Next1)
      BY <1>8, <1>9 DEF Inherited
    <2> HIDE DEF S, Is, base, g
    <2> QED
      BY <2>1, BehindDescends, DescendsInduction
  <1>11. TellAll = [b \in D |-> TellAll[b]]
    BY <1>7
  <1> QED
    BY <1>7, <1>10, <1>11

\* OnlyPackets is what its definition says.
LEMMA OnlyPacketsIs ==
  \A b \in Seq(Bytes) :
    OnlyPackets[b] <=>
      \/ b = <<>>
      \/ HasPacket(b) /\ FirstPayload(b) \in Payloads /\ OnlyPackets[Behind(b)]
  <1> DEFINE D == Seq(Bytes)
             base == [b \in D |-> b = <<>>]
             g == [p \in D \X BOOLEAN |-> FirstPayload(p[1]) \in Payloads /\ p[2]]
             Is(h) == h = [b \in D |->
                             \/ b = <<>>
                             \/ HasPacket(b) /\ FirstPayload(b) \in Payloads /\ h[Behind(b)]]
  <1>1. base \in [D -> BOOLEAN] /\ g \in [D \X BOOLEAN -> BOOLEAN]
    OBVIOUS
  <1>2. PICK h \in [D -> BOOLEAN] : Recursive(h, D, None1, Next1, base, g)
    <2> HIDE DEF base, g
    <2> QED
      BY <1>1, BehindDescends, RecursionExists
  <1>3. ASSUME NEW b \in D
        PROVE  h[b] = (\/ b = <<>>
                       \/ HasPacket(b) /\ FirstPayload(b) \in Payloads /\ h[Behind(b)])
    <2>1. h[b] = IF b \in None1 THEN base[b] ELSE g[<<b, h[Next1[b]]>>]
      BY <1>2 DEF Recursive
    <2>2. CASE HasPacket(b)
      <3>1. b \notin None1 /\ Next1[b] = Behind(b) /\ Behind(b) \in D
        BY <2>2, PacketType DEF None1, Next1
      <3>2. <<b, h[Behind(b)]>> \in D \X BOOLEAN
        BY <3>1
      <3>3. g[<<b, h[Behind(b)]>>] = (FirstPayload(b) \in Payloads /\ h[Behind(b)])
        BY <3>2
      <3>4. b # <<>>
        BY <2>2 DEF HasPacket
      <3> QED
        BY <2>1, <2>2, <3>1, <3>3, <3>4
    <2>3. CASE ~HasPacket(b)
      BY <2>1, <2>3 DEF None1
    <2> QED
      BY <2>2, <2>3
  <1>4. Is(h)
    BY <1>3
  <1>5. Is(OnlyPackets)
    <2>1. OnlyPackets = CHOOSE f : Is(f)
      BY DEF OnlyPackets
    <2> QED
      BY <1>4, <2>1
  <1> QED
    BY <1>5

\* Behind packets, what there is to tell is told next.
LEMMA PacketsThen ==
  ASSUME NEW b \in Seq(Bytes)
  PROVE  \A a \in Seq(Bytes) : OnlyPackets[a] =>
           /\ TellAll[a \o b] = TellAll[a] \o TellAll[b]
           /\ OnlyPackets[b] => OnlyPackets[a \o b]
  <1> DEFINE Then(a) == /\ TellAll[a \o b] = TellAll[a] \o TellAll[b]
                        /\ OnlyPackets[b] => OnlyPackets[a \o b]
             S == {a \in Seq(Bytes) : OnlyPackets[a] => Then(a)}
  <1>0. Associates(Told)
    BY ConcatAssoc
  <1>1. \A a \in Seq(Bytes) : TellAll[a] \in Seq(Told)
    BY TellAllIs
  <1>2. ASSUME NEW a \in None1, OnlyPackets[a] PROVE Then(a)
    <2>1. a \in Seq(Bytes) /\ ~HasPacket(a)
      BY DEF None1
    <2>2. a = <<>>
      BY <1>2, <2>1, OnlyPacketsIs
    <2>3. a \o b = b
      BY <2>2
    <2>4. TellAll[a] = <<>>
      BY <2>1, TellAllIs
    <2>5. <<>> \o TellAll[b] = TellAll[b]
      BY <1>1
    <2> QED
      BY <2>3, <2>4, <2>5
  <1>3. ASSUME NEW a \in Seq(Bytes) \ None1, OnlyPackets[a], Next1[a] \in S PROVE Then(a)
    <2>1. HasPacket(a) /\ Next1[a] = Behind(a) /\ a # <<>>
      BY DEF None1, Next1, HasPacket
    <2>2. FirstPayload(a) \in Payloads /\ OnlyPackets[Behind(a)] /\ Behind(a) \in Seq(Bytes)
      BY <1>3, <2>1, OnlyPacketsIs, PacketType
    <2>3. Then(Behind(a))
      BY <1>3, <2>1, <2>2
    <2>4. /\ a \o b \in Seq(Bytes) /\ HasPacket(a \o b)
          /\ FirstPayload(a \o b) = FirstPayload(a)
          /\ Behind(a \o b) = Behind(a) \o b
      BY <2>1, PacketFirst
    <2>5. TellAll[a \o b] = Tell(FirstPayload(a)) \o (TellAll[Behind(a)] \o TellAll[b])
      BY <2>3, <2>4, TellAllIs
    <2>6. TellAll[a] = Tell(FirstPayload(a)) \o TellAll[Behind(a)]
      BY <2>1, TellAllIs
    <2>7. Tell(FirstPayload(a)) \in Seq(Told)
      BY ToldType
    <2>8. TellAll[a \o b] = TellAll[a] \o TellAll[b]
      <3> DEFINE x == Tell(FirstPayload(a))
                 y == TellAll[Behind(a)]
                 z == TellAll[b]
      <3>1. x \in Seq(Told) /\ y \in Seq(Told) /\ z \in Seq(Told)
        BY <1>1, <2>2, <2>7
      <3> HIDE DEF x, y, z
      <3>2. (x \o y) \o z = x \o (y \o z)
        BY <1>0, <3>1 DEF Associates
      <3> QED
        BY <2>5, <2>6, <3>2 DEF x, y, z
    <2>9. OnlyPackets[b] => OnlyPackets[a \o b]
      BY <2>2, <2>3, <2>4, OnlyPacketsIs
    <2> QED
      BY <2>8, <2>9
  <1>4. S = Seq(Bytes)
    <2>1. Inherited(S, Seq(Bytes), None1, Next1)
      <3> HIDE DEF Then
      <3>1. None1 \in SUBSET Seq(Bytes)
        BY DEF None1
      <3> QED
        BY <1>2, <1>3, <3>1 DEF Inherited
    <2> HIDE DEF S
    <2> QED
      BY <2>1, BehindDescends, DescendsInduction
  <1> QED
    BY <1>4

-----------------------------------------------------------------------------
(* What flicd reports. *)

\* A payload is framed as one packet.
LEMMA FramedIs ==
  ASSUME FeedAssumption, NEW p \in Payloads
  PROVE  OnlyPackets[Framed(p)] /\ TellAll[Framed(p)] = Tell(p)
  <1> DEFINE b == Framed(p)
  <1>0. Framed(p) \in Seq(Bytes) /\ p \in Seq(Bytes)
    BY PayloadType
  <1>1. Len(p) \in 1..(Half - 1) /\ Half \in Nat /\ Half > 9
    BY PayloadType, ReaderAssumption DEF Proper
  <1>2. Len(p) % (2 * Half) = Len(p) /\ Len(p) \div (2 * Half) = 0
    <2> DEFINE m == Len(p)
               h == 2 * Half
    <2>1. m \in Nat /\ h \in Nat /\ m < h
      BY <1>1
    <2> HIDE DEF m, h
    <2>2. m % h = m /\ m \div h = 0
      BY <2>1
    <2> QED
      BY <2>2 DEF m, h
  <1>3. b = <<Len(p), 0>> \o p
    BY <1>2 DEF Framed
  <1>4. /\ Len(b) = 2 + Len(p) /\ b[1] = Len(p) /\ b[2] = 0
        /\ \A n \in 1..Len(p) : b[n + 2] = p[n]
    <2>1. <<Len(p), 0>> \in Seq(Bytes) /\ Len(<<Len(p), 0>>) = 2
      BY <1>1 DEF Bytes
    <2> DEFINE c == <<Len(p), 0>>
    <2>2. c[1] = Len(p) /\ c[2] = 0
      OBVIOUS
    <2> HIDE DEF c
    <2>3. /\ Len(c \o p) = Len(c) + Len(p)
          /\ \A n \in 1..Len(c) : (c \o p)[n] = c[n]
          /\ \A n \in 1..Len(p) : (c \o p)[Len(c) + n] = p[n]
      BY <1>0, <2>1, ConcatIs DEF c
    <2>4. Len(c) = 2 /\ b = c \o p
      BY <1>3, <2>1 DEF c
    <2> HIDE DEF b
    <2> QED
      BY <1>1, <2>2, <2>3, <2>4
  <1> HIDE DEF b
  <1>5. b \in Seq(Bytes)
    BY <1>0 DEF b
  <1>6. UnsignedLength(b[1], b[2]) = Len(p)
    BY <1>1, <1>4 DEF UnsignedLength
  <1>7. HasPacket(b)
    BY <1>1, <1>4, <1>6 DEF HasPacket
  <1>8. FirstPayload(b) = p
    <2>1. /\ FirstPayload(b) \in Seq(Bytes) /\ Len(FirstPayload(b)) = UnsignedLength(b[1], b[2])
          /\ \A n \in 1..Len(FirstPayload(b)) : FirstPayload(b)[n] = b[n + 2]
      BY <1>5, <1>7, PacketType
    <2> DEFINE q == FirstPayload(b)
    <2> HIDE DEF q
    <2>2. q \in Seq(Bytes) /\ Len(q) = Len(p) /\ \A n \in 1..Len(p) : q[n] = p[n]
      BY <1>4, <1>6, <2>1 DEF q
    <2>3. q = p
      BY <1>0, <2>2, SeqEqual
    <2> QED
      BY <2>3 DEF q
  <1>9. Behind(b) = <<>>
    <2>1. /\ Behind(b) \in Seq(Bytes)
          /\ Len(Behind(b)) = Len(b) - 2 - UnsignedLength(b[1], b[2])
      BY <1>5, <1>7, PacketType
    <2>2. Len(Behind(b)) = 0
      BY <1>1, <1>4, <1>6, <2>1
    <2> QED
      BY <2>1, <2>2
  <1>10. <<>> \in Seq(Bytes) /\ OnlyPackets[<<>>] /\ TellAll[<<>>] = <<>>
    <2>1. <<>> \in Seq(Bytes) /\ ~HasPacket(<<>>)
      BY DEF HasPacket
    <2> QED
      BY <2>1, OnlyPacketsIs, TellAllIs
  <1>11. OnlyPackets[b]
    BY <1>5, <1>7, <1>8, <1>9, <1>10, OnlyPacketsIs
  <1>12. TellAll[b] = Tell(p) \o <<>>
    BY <1>5, <1>7, <1>8, <1>9, <1>10, TellAllIs
  <1>13. Tell(p) \o <<>> = Tell(p)
    BY ToldType, <1>5, <1>8
  <1> QED
    BY <1>11, <1>12, <1>13 DEF b

\* A report is sent as whole packets, which tell of its event, if it has one.
LEMMA ReportTold ==
  ASSUME FeedAssumption, NEW r \in Reports
  PROVE  LET sent == Bytestream(PayloadsOf(r))
         IN  sent \in Seq(Bytes) /\ OnlyPackets[sent] /\ IsTold(TellAll[sent], r)
  <1>1. PICK p, q \in Seq(Bytes) :
          /\ \/ PayloadsOf(r) = <<p>>
             \/ PayloadsOf(r) = <<p, q>> /\ Tell(q) = <<>>
          /\ IsTold(Tell(p), r)
          /\ Len(p) < 4 * Half * Half /\ Len(q) < 4 * Half * Half
    BY ReportIs
  <1>2. /\ Framed(p) \in Seq(Bytes) /\ Framed(q) \in Seq(Bytes)
        /\ Bytestream(<<p>>) = Framed(p) /\ Bytestream(<<p, q>>) = Framed(p) \o Framed(q)
    BY <1>1, FramedType, BytestreamIs
  <1>3. /\ p \in Payloads
        /\ PayloadsOf(r) # <<p>> => q \in Payloads
    <2>1. ToSet(<<p>>) = {p} /\ ToSet(<<p, q>>) = {p, q}
      BY DEF ToSet
    <2> QED
      BY <1>1, <2>1 DEF Payloads
  <1>4. OnlyPackets[Framed(p)] /\ TellAll[Framed(p)] = Tell(p)
    BY <1>3, FramedIs
  <1>5. CASE PayloadsOf(r) = <<p>>
    BY <1>1, <1>2, <1>4, <1>5
  <1>6. CASE PayloadsOf(r) # <<p>>
    <2>1. OnlyPackets[Framed(q)] /\ TellAll[Framed(q)] = <<>>
      BY <1>1, <1>3, <1>6, FramedIs
    <2>2. TellAll[Framed(p)] \in Seq(Told)
      BY <1>2, TellAllIs
    <2> DEFINE f == Framed(p)
               g == Framed(q)
    <2>3. f \in Seq(Bytes) /\ g \in Seq(Bytes) /\ OnlyPackets[f] /\ OnlyPackets[g]
          /\ TellAll[f] = Tell(p) /\ TellAll[g] = <<>> /\ TellAll[f] \in Seq(Told)
      BY <1>2, <1>4, <2>1, <2>2
    <2>4. Bytestream(PayloadsOf(r)) = f \o g
      BY <1>1, <1>2, <1>6
    <2> HIDE DEF f, g
    <2>5. f \o g \in Seq(Bytes) /\ OnlyPackets[f \o g] /\ TellAll[f \o g] = TellAll[f] \o TellAll[g]
      BY <2>3, PacketsThen, ConcatProperties
    <2>6. TellAll[f \o g] = Tell(p)
      BY <2>3, <2>5
    <2> QED
      BY <1>1, <2>4, <2>5, <2>6
  <1> QED
    BY <1>5, <1>6

-----------------------------------------------------------------------------
(* The events in the pipe. *)

Shown(m) == IF m.op = "FLIC_PING" THEN <<>> ELSE <<m>>

\* Events goes over the pipe message by message.
LEMMA EventsIs ==
  /\ Events(<<>>) = <<>>
  /\ \A s \in Seq(Messages) :
       /\ Events(s) \in Seq(Messages)
       /\ \A m \in Messages : Events(s \o <<m>>) = Events(s) \o Shown(m)
       /\ s # <<>> => Events(s) = Shown(Head(s)) \o Events(Tail(s))
  <1> DEFINE lifted(s) == [n \in DOMAIN s |-> Shown(s[n])]
  <1>0. \A s : Events(s) = FlattenSeq(lifted(s))
    BY DEF Events, Shown
  <1>1. \A m \in Messages : Shown(m) \in Seq(Messages)
    BY DEF Shown
  <1>2. ASSUME NEW s \in Seq(Messages) PROVE lifted(s) \in Seq(Seq(Messages))
    <2>1. lifted(s) \in [1..Len(s) -> Seq(Messages)] /\ Len(s) \in Nat
      BY <1>1
    <2> QED
      BY <2>1, SeqDef
  <1>3. Events(<<>>) = <<>>
    <2>1. lifted(<<>>) = <<>>
      OBVIOUS
    <2> QED
      BY <1>0, <2>1, FlattenType
  <1>4. ASSUME NEW s \in Seq(Messages) PROVE Events(s) \in Seq(Messages)
    BY <1>0, <1>2, FlattenType
  <1>5. ASSUME NEW s \in Seq(Messages), NEW m \in Messages
        PROVE  Events(s \o <<m>>) = Events(s) \o Shown(m)
    <2>1. lifted(s \o <<m>>) = Append(lifted(s), Shown(m))
      <3> DEFINE t == s \o <<m>>
                 x == lifted(t)
                 y == Append(lifted(s), Shown(m))
      <3>1. /\ t \in Seq(Messages) /\ Len(t) = Len(s) + 1 /\ Len(s) \in Nat
            /\ \A n \in 1..Len(s) : t[n] = s[n]
            /\ t[Len(s) + 1] = m
        OBVIOUS
      <3> HIDE DEF t
      <3>2. x \in Seq(Seq(Messages)) /\ Len(x) = Len(s) + 1 /\ \A n \in 1..Len(x) : x[n] = Shown(t[n])
        <4>1. x \in Seq(Seq(Messages))
          BY <1>2, <3>1
        <4>2. DOMAIN t = 1..(Len(s) + 1)
          BY <3>1
        <4>3. x = [n \in 1..(Len(s) + 1) |-> Shown(t[n])]
          BY <4>2
        <4>4. Len(x) = Len(s) + 1
          BY <3>1, <4>3
        <4> QED
          BY <4>1, <4>3, <4>4
      <3>3. /\ y \in Seq(Seq(Messages)) /\ Len(y) = Len(s) + 1
            /\ \A n \in 1..Len(s) : y[n] = Shown(s[n])
            /\ y[Len(s) + 1] = Shown(m)
        <4> DEFINE z == lifted(s)
                   w == Shown(m)
        <4>1. z \in Seq(Seq(Messages)) /\ w \in Seq(Messages)
          BY <1>1, <1>2
        <4>2. Len(z) = Len(s) /\ \A n \in 1..Len(s) : z[n] = Shown(s[n])
          BY <3>1
        <4> HIDE DEF z, w
        <4>3. /\ Append(z, w) \in Seq(Seq(Messages)) /\ Len(Append(z, w)) = Len(z) + 1
              /\ \A n \in 1..Len(z) : Append(z, w)[n] = z[n]
              /\ Append(z, w)[Len(z) + 1] = w
          BY <4>1, AppendProperties
        <4> QED
          BY <4>2, <4>3 DEF z, w
      <3> HIDE DEF x, y
      <3>4. \A n \in 1..Len(x) : n \in 1..Len(s) \/ n = Len(s) + 1
        BY <3>1, <3>2
      <3>5. \A n \in 1..Len(x) : x[n] = y[n]
        BY <3>1, <3>2, <3>3, <3>4
      <3>6. x = y
        BY <3>2, <3>3, <3>5, SeqEqual
      <3> QED
        BY <3>6 DEF x, y, t
    <2> HIDE DEF lifted
    <2> QED
      BY <1>0, <1>1, <1>2, <2>1, FlattenAppend
  <1>6. ASSUME NEW s \in Seq(Messages), s # <<>>
        PROVE  Events(s) = Shown(Head(s)) \o Events(Tail(s))
    <2>1. lifted(s) # <<>> /\ Head(lifted(s)) = Shown(Head(s)) /\ Tail(lifted(s)) = lifted(Tail(s))
      BY <1>6
    <2> HIDE DEF lifted
    <2> QED
      BY <1>0, <1>2, <2>1, FlattenTail
  <1> QED
    BY <1>3, <1>4, <1>5, <1>6

-----------------------------------------------------------------------------
(* Where the reader is. *)

\* Messages that are due are of the pipe's kind or told of some packet.
Dues == Messages \union Told

\* Three bytes that agree with a payload are told of as it is.
LEMMA TellSame ==
  ASSUME FeedAssumption, NEW p \in Payloads, NEW b \in [1..3 -> Bytes],
         \A i \in 1..3 : i <= Len(p) => b[i] = p[i]
  PROVE  Tell(b) = Tell(p)
  <1>1. /\ Len(p) \in Nat /\ Len(p) >= 1
        /\ p[1] \in {CreateConnectionChannelResponse, ConnectionStatusChanged} => Len(p) > 1
        /\ p[1] \in {ButtonUpOrDown, ButtonClickOrHold, ButtonSingleOrDoubleClick} => Len(p) > 2
    BY PayloadType, ReaderAssumption DEF Proper
  <1>2. b[1] = p[1] /\ (Len(p) > 1 => b[2] = p[2]) /\ (Len(p) > 2 => b[3] = p[3])
    BY <1>1
  <1> QED
    BY <1>1, <1>2 DEF Tell

\* Such bytes are harmless, if the second is not negative where the payload has one.
LEMMA HarmlessIs ==
  ASSUME FeedAssumption, NEW p \in Payloads, NEW b \in [1..3 -> Bytes],
         \A i \in 1..3 : i <= Len(p) => b[i] = p[i],
         Len(p) = 1 => b[2] < Half
  PROVE  Harmless(b)
  <1> SUFFICES ASSUME Tell(b) # <<>>
               PROVE  PacketLen(b[1], b[2]) > 0
    <2>1. Half \in Nat /\ b[1] \in Nat /\ b[2] \in Nat
      BY ReaderAssumption DEF Bytes
    <2>2. PacketLen(b[1], b[2]) \in Int
      BY <2>1 DEF PacketLen, Char
    <2> QED
      BY <2>2 DEF Harmless
  <1>1. Tell(p) # <<>>
    BY TellSame
  <1>2. Len(p) \in Nat /\ Len(p) >= 1 /\ (Len(p) > 1 => p[2] < Half)
    BY <1>1, PayloadType, ReaderAssumption DEF Proper
  <1>3. b[2] < Half
    <2>1. 2 \in 1..3 /\ (2 <= Len(p) => b[2] = p[2])
      OBVIOUS
    <2>2. Len(p) = 1 \/ (Len(p) > 1 /\ 2 <= Len(p))
      <3> DEFINE l == Len(p)
      <3>1. l \in Nat /\ l >= 1
        BY <1>2
      <3> HIDE DEF l
      <3>2. l = 1 \/ (l > 1 /\ 2 <= l)
        BY <3>1
      <3> QED
        BY <3>2 DEF l
    <2> QED
      BY <1>2, <2>1, <2>2
  <1>4. b[1] \in 1..9
    BY DEF Tell, CreateConnectionChannelResponse, ConnectionStatusChanged, ButtonUpOrDown,
           ButtonClickOrHold, ButtonSingleOrDoubleClick, GetInfoResponse
  <1>5. Half \in Nat /\ Half > 9 /\ b[2] \in Nat
    BY ReaderAssumption DEF Bytes
  <1>6. PacketLen(b[1], b[2]) = b[1] + 2 * Half * b[2] /\ 2 * Half * b[2] \in Nat
    BY <1>3, <1>4, <1>5 DEF PacketLen, Char
  <1> QED
    BY <1>4, <1>6

\* The packet being received is three bytes; nothing is missing in a header.
LEMMA CompletedType ==
  ASSUME TypeOK, left <= Len(stream)
  PROVE  Completed \in [1..3 -> Bytes] /\ (left <= 0 => Completed = buf)
  BY DEF TypeOK, Completed

\* Where the events of the stream are.
LEMMA InStreamIs ==
  ASSUME TypeOK
  PROVE  /\ rpc = "header" => InStream = TellAll[stream]
         /\ rpc = "payload" /\ left > Len(stream) => InStream = <<>>
         /\ rpc = "payload" /\ left <= Len(stream) /\ left >= 0 =>
              InStream = TellAll[SubSeq(stream, left + 1, Len(stream))]
         /\ rpc = "payload" /\ left <= 0 => InStream = TellAll[stream]
         /\ rpc = "ended" => InStream = <<>>
  <1>1. stream \in Seq(Bytes) /\ Len(stream) \in Nat /\ left \in Int
    BY DEF TypeOK
  <1>2. SubSeq(stream, 1, Len(stream)) = stream
    BY <1>1
  <1> DEFINE at == 1 + (IF left > 0 THEN left ELSE 0)
  <1>3. (left >= 0 => at = left + 1) /\ (left <= 0 => at = 1)
    BY <1>1
  <1>4. rpc = "payload" => InStream = IF left <= Len(stream)
                                        THEN TellAll[SubSeq(stream, at, Len(stream))] ELSE <<>>
    BY DEF InStream
  <1>5. left > Len(stream) <=> ~(left <= Len(stream))
    BY <1>1
  <1>6. left <= 0 => left <= Len(stream)
    BY <1>1
  <1> HIDE DEF at
  <1>7. (rpc = "header" => InStream = TellAll[stream]) /\ (rpc = "ended" => InStream = <<>>)
    BY DEF InStream
  <1> QED
    BY <1>2, <1>3, <1>4, <1>5, <1>6, <1>7

\* What is due is a sequence, and so are its parts.
LEMMA DueType ==
  ASSUME TypeOK
  PROVE  /\ Events(pipe) \in Seq(Dues) /\ InReader \in Seq(Dues) /\ InStream \in Seq(Dues)
         /\ Due \in Seq(Dues) /\ Due = Events(pipe) \o (InReader \o InStream)
         /\ Events(pipe) \o InReader \in Seq(Dues)
  <1>1. Events(pipe) \in Seq(Dues)
    BY EventsIs, SeqMonotonic DEF TypeOK, Dues
  <1>2. InReader \in Seq(Dues)
    <2>1. left <= Len(stream) => Tell(Completed) \in Seq(Messages)
      BY CompletedType, TellType
    <2>2. left > Len(stream) \/ left <= Len(stream)
      BY DEF TypeOK
    <2>3. <<>> \in Seq(Dues) /\ \A s \in Seq(Messages) : s \in Seq(Dues)
      BY SeqMonotonic DEF Dues
    <2> QED
      BY <2>1, <2>2, <2>3 DEF InReader
  <1>3. InStream \in Seq(Dues)
    <2>1. \A b \in Seq(Bytes) : TellAll[b] \in Seq(Dues)
      BY TellAllIs, SeqMonotonic DEF Dues
    <2>2. \A n \in 1..(Len(stream) + 1) : SubSeq(stream, n, Len(stream)) \in Seq(Bytes)
      BY DEF TypeOK
    <2>3. stream \in Seq(Bytes) /\ Len(stream) \in Nat /\ left \in Int
          /\ rpc \in {"header", "payload", "ended"} /\ <<>> \in Seq(Dues)
      BY DEF TypeOK
    <2>4. CASE rpc = "header"
      BY <2>1, <2>3, <2>4, InStreamIs
    <2>5. CASE rpc = "ended"
      BY <2>3, <2>5, InStreamIs
    <2>6. CASE rpc = "payload"
      <3>1. CASE left > Len(stream)
        BY <2>3, <2>6, <3>1, InStreamIs
      <3>2. CASE left <= 0
        BY <2>1, <2>3, <2>6, <3>2, InStreamIs
      <3>3. CASE left <= Len(stream) /\ left >= 0
        <4>1. left + 1 \in 1..(Len(stream) + 1)
          BY <2>3, <3>3
        <4>2. InStream = TellAll[SubSeq(stream, left + 1, Len(stream))]
          BY <2>6, <3>3, InStreamIs
        <4> QED
          BY <2>1, <2>2, <4>1, <4>2
      <3> QED
        BY <2>3, <3>1, <3>2, <3>3
    <2> QED
      BY <2>3, <2>4, <2>5, <2>6
  <1>4. Events(pipe) \o InReader \in Seq(Dues)
    BY <1>1, <1>2, ConcatProperties
  <1>5. Due \in Seq(Dues)
    BY <1>3, <1>4, ConcatProperties DEF Due
  <1>6. Due = Events(pipe) \o (InReader \o InStream)
    <2>1. Associates(Dues)
      BY ConcatAssoc
    <2> QED
      BY <1>1, <1>2, <1>3, <2>1 DEF Due, Associates
  <1> QED
    BY <1>1, <1>2, <1>3, <1>4, <1>5, <1>6

\* Before anything is sent, the reader waits for a header.
LEMMA FeedInit == Init => FeedInv /\ Feed!Init
  <1> SUFFICES ASSUME Init PROVE FeedInv /\ Feed!Init
    OBVIOUS
  <1>1. <<>> \in Seq(Bytes) /\ ~HasPacket(<<>>)
    BY DEF HasPacket
  <1>2. OnlyPackets[<<>>] /\ TellAll[<<>>] = <<>>
    BY <1>1, OnlyPacketsIs, TellAllIs
  <1>5. FeedInv
    BY <1>2, InitTypes DEF FeedInv, Init
  <1>6. Due = <<>>
    <2>1. InStream = <<>> /\ InReader = <<>> /\ Events(pipe) = <<>>
      BY <1>2, <1>5, InStreamIs, EventsIs DEF FeedInv, Init, InReader
    <2> QED
      BY <2>1 DEF Due
  <1>7. Cut = FALSE /\ act = {}
    BY DEF Init, Cut
  <1> QED
    BY <1>5, <1>6, <1>7 DEF Feed!Init

-----------------------------------------------------------------------------
(* The steps, each of which is one of the feed. *)

Placed ==
  /\ rpc = "header" => InStream = TellAll[stream]
  /\ rpc = "payload" /\ left > Len(stream) => InStream = <<>>
  /\ rpc = "payload" /\ left <= Len(stream) /\ left >= 0 =>
       InStream = TellAll[SubSeq(stream, left + 1, Len(stream))]
  /\ rpc = "payload" /\ left <= 0 => InStream = TellAll[stream]
  /\ rpc = "ended" => InStream = <<>>

\* The same of the next state.
LEMMA InStreamNext ==
  TypeOK' =>
    /\ rpc' = "header" => InStream' = TellAll[stream']
    /\ rpc' = "payload" /\ left' > Len(stream') => InStream' = <<>>
    /\ rpc' = "payload" /\ left' <= Len(stream') /\ left' >= 0 =>
         InStream' = TellAll[SubSeq(stream', left' + 1, Len(stream'))]
    /\ rpc' = "payload" /\ left' <= 0 => InStream' = TellAll[stream']
    /\ rpc' = "ended" => InStream' = <<>>
  <1>1. TypeOK => Placed
    BY InStreamIs DEF Placed
  <1>2. TypeOK' => Placed'
    BY <1>1, PTL
  <1> QED
    BY <1>2 DEF Placed

\* A step that leaves the reader and the stream alone.
LEMMA SamePlace ==
  ASSUME FeedInv, TypeOK', UNCHANGED <<stream, link, buf, pos, left, rpc, fresh>>
  PROVE  FeedInv' /\ InReader' = InReader /\ InStream' = InStream /\ Cut' = Cut
  <1>1. /\ stream' = stream /\ link' = link /\ buf' = buf /\ pos' = pos /\ left' = left
        /\ rpc' = rpc /\ fresh' = fresh
    OBVIOUS
  <1>2. Completed' = Completed
    BY <1>1 DEF Completed
  <1>3. FeedInv'
    BY <1>1, <1>2 DEF FeedInv, Receiving, AfterEof, Harmless
  <1> QED
    BY <1>1, <1>2, <1>3 DEF InReader, InStream, Cut

\* A ping, whatever its status, is not due.
LEMMA PingsNotDue ==
  ASSUME TypeOK, NEW m \in {Ping, Fatal}, pipe' = pipe \o <<m>>
  PROVE  Events(pipe') = Events(pipe)
  <1>1. pipe \in Seq(Messages) /\ m \in Messages
    BY DEF TypeOK, Messages
  <1>2. Shown(m) = <<>>
    BY DEF Shown, Ping, Fatal, Packet
  <1>3. Events(pipe) \in Seq(Messages) /\ Events(pipe \o <<m>>) = Events(pipe) \o Shown(m)
    BY <1>1, EventsIs
  <1>4. Events(pipe) \o <<>> = Events(pipe)
    BY <1>3
  <1> QED
    BY <1>2, <1>3, <1>4

\* A step that changes nothing of what is due.
LEMMA QuietStep ==
  ASSUME FeedInv, TypeOK', \/ HeaderTimeout \/ PayloadEof \/ Top
  PROVE  FeedInv' /\ Feed!Quiet
  <1>1. UNCHANGED <<stream, link, buf, pos, left, rpc, fresh>> /\ act' = {}
    BY DEF HeaderTimeout, PayloadEof, Top, socket, reader
  <1>2. Events(pipe') = Events(pipe)
    <2>1. CASE HeaderTimeout
      <3>1. pipe' = pipe \o <<Ping>> /\ TypeOK
        BY <2>1 DEF HeaderTimeout, PipeSend, FeedInv
      <3> QED
        BY <3>1, PingsNotDue
    <2>2. CASE PayloadEof \/ Top
      <3>1. pipe' = pipe
        BY <2>2 DEF PayloadEof, Top
      <3> QED
        BY <3>1
    <2> QED
      BY <2>1, <2>2
  <1>3. FeedInv' /\ InReader' = InReader /\ InStream' = InStream /\ Cut' = Cut
    BY <1>1, SamePlace
  <1>4. Due' = Due
    BY <1>2, <1>3 DEF Due
  <1> QED
    BY <1>1, <1>3, <1>4 DEF Feed!Quiet

\* The main thread reads a ping, or the event due next.
LEMMA ReadStep ==
  ASSUME FeedInv, TypeOK', Read
  PROVE  FeedInv' /\ (Feed!Quiet \/ Feed!EventRead)
  <1> DEFINE h == Head(pipe)
             rest == Tail(pipe)
             x == InReader \o InStream
  <1>1. /\ UNCHANGED <<stream, link, buf, pos, left, rpc, fresh>> /\ pipe # <<>> /\ pipe' = rest
        /\ act' = IF h.op = "FLIC_PING" THEN {} ELSE {[read |-> h]}
    BY DEF Read, socket, reader
  <1>2. FeedInv' /\ InReader' = InReader /\ InStream' = InStream /\ Cut' = Cut
    BY <1>1, SamePlace
  <1>3. pipe \in Seq(Messages) /\ h \in Messages /\ rest \in Seq(Messages)
    BY <1>1 DEF FeedInv, TypeOK
  <1>4. /\ Events(pipe) = Shown(h) \o Events(rest)
        /\ Events(rest) \in Seq(Messages)
    BY <1>1, <1>3, EventsIs
  <1>5. /\ h \in Dues /\ Events(rest) \in Seq(Dues)
        /\ InReader \in Seq(Dues) /\ InStream \in Seq(Dues)
    <2>1. InReader \in Seq(Dues) /\ InStream \in Seq(Dues)
      BY DueType DEF FeedInv
    <2>2. Events(rest) \in Seq(Dues)
      BY <1>4, SeqMonotonic DEF Dues
    <2> QED
      BY <1>3, <2>1, <2>2 DEF Dues
  <1>6. Due = (Shown(h) \o Events(rest)) \o InReader \o InStream
    BY <1>4 DEF Due
  <1>7. Due' = Events(rest) \o InReader \o InStream
    BY <1>1, <1>2 DEF Due
  <1> HIDE DEF h, rest, x
  <1>8. CASE h.op = "FLIC_PING"
    <2>1. Shown(h) \o Events(rest) = Events(rest)
      BY <1>4, <1>8 DEF Shown
    <2> QED
      BY <1>1, <1>2, <1>6, <1>7, <1>8, <2>1 DEF Feed!Quiet
  <1>9. CASE h.op # "FLIC_PING"
    <2>1. Shown(h) = <<h>>
      BY <1>9 DEF Shown
    <2> DEFINE y == Events(rest)
               r == InReader
               s == InStream
    <2>2. \A a, b, c \in Seq(Dues) : (a \o b) \o c = a \o (b \o c) /\ a \o b \in Seq(Dues)
      <3>1. Associates(Dues)
        BY ConcatAssoc
      <3>2. \A a, b \in Seq(Dues) : a \o b \in Seq(Dues)
        BY ConcatProperties
      <3> QED
        BY <3>1, <3>2 DEF Associates
    <2>3. <<h>> \in Seq(Dues) /\ y \in Seq(Dues) /\ r \in Seq(Dues) /\ s \in Seq(Dues)
      BY <1>5
    <2> HIDE DEF y, r, s
    <2>4. (<<h>> \o y) \o r \o s = <<h>> \o (y \o r \o s)
      <3>1. (<<h>> \o y) \o r = <<h>> \o (y \o r) /\ y \o r \in Seq(Dues)
        BY <2>2, <2>3
      <3> QED
        BY <2>2, <2>3, <3>1
    <2>5. y \o r \o s \in Seq(Dues)
      BY <2>2, <2>3
    <2>6. Due = <<h>> \o (y \o r \o s) /\ Due' = y \o r \o s
      BY <1>6, <1>7, <2>1, <2>4 DEF y, r, s
    <2>7. Due # <<>> /\ Head(Due) = h /\ Tail(Due) = Due'
      BY <1>5, <2>5, <2>6, ConcatFirst
    <2> QED
      BY <1>1, <1>2, <1>9, <2>7 DEF Feed!EventRead
  <1> QED
    BY <1>8, <1>9

\* The reader ends: what it had not told of is lost.
LEMMA EndStep ==
  ASSUME FeedInv, TypeOK', HeaderFails \/ PayloadFails
  PROVE  FeedInv' /\ Feed!CutShort
  <1>1. rpc' = "ended" /\ act' = {} /\ pipe' = pipe \o <<Fatal>>
    BY DEF HeaderFails, PayloadFails, End, PipeSend
  <1>2. Events(pipe') = Events(pipe)
    BY <1>1, PingsNotDue DEF FeedInv
  <1>3. InReader' = <<>> /\ InStream' = <<>>
    BY <1>1 DEF InReader, InStream
  <1>4. /\ Events(pipe) \in Seq(Dues) /\ InReader \o InStream \in Seq(Dues)
        /\ Due = Events(pipe) \o (InReader \o InStream)
    BY DueType, ConcatProperties DEF FeedInv
  <1>5. Due' = Events(pipe)
    BY <1>2, <1>3, <1>4 DEF Due
  <1>6. \E n \in 0..Len(Due) : Due' = SubSeq(Due, 1, n)
    BY <1>4, <1>5, PrefixIs
  <1>7. FeedInv'
    BY <1>1 DEF FeedInv
  <1>8. Cut'
    BY <1>1 DEF Cut
  <1> QED
    BY <1>1, <1>6, <1>7, <1>8 DEF Feed!CutShort

\* Nothing is told of no bytes.
LEMMA NoBytes ==
  /\ <<>> \in Seq(Bytes) /\ TellAll[<<>>] = <<>> /\ OnlyPackets[<<>>]
  /\ \A n \in Nat : SubSeq(<<>>, n + 1, 0) = <<>>
  <1>1. <<>> \in Seq(Bytes) /\ ~HasPacket(<<>>)
    BY DEF HasPacket
  <1>2. \A n \in Nat : SubSeq(<<>>, n + 1, 0) = <<>>
    OBVIOUS
  <1> QED
    BY <1>1, <1>2, TellAllIs, OnlyPacketsIs

\* flicd closes the socket: what it sent before is still read.
LEMMA CloseStep ==
  ASSUME FeedInv, TypeOK', FlicdCloses
  PROVE  FeedInv' /\ Feed!CutShort
  <1>1. /\ UNCHANGED <<stream, buf, pos, left, rpc, pipe, fresh>> /\ act' = {}
        /\ link = "open" /\ link' = "closed"
    BY DEF FlicdCloses, reader
  <1>2. Completed' = Completed
    BY <1>1 DEF Completed
  <1>3. FeedInv'
    BY <1>1, <1>2 DEF FeedInv, Receiving, AfterEof, Harmless
  <1>4. Due' = Due /\ Cut'
    BY <1>1, <1>2 DEF Due, InReader, InStream, Cut
  <1>5. Due \in Seq(Dues) /\ Len(Due) \in 0..Len(Due) /\ SubSeq(Due, 1, Len(Due)) = Due
    <2>1. Due \in Seq(Dues)
      BY DueType DEF FeedInv
    <2> HIDE DEF Due
    <2> QED
      BY <2>1
  <1> QED
    BY <1>1, <1>3, <1>4, <1>5 DEF Feed!CutShort

\* The link breaks: what is in the stream, and what is not yet there of the
\* packet being received, is lost.
LEMMA BreakStep ==
  ASSUME FeedInv, TypeOK', LinkBreaks
  PROVE  FeedInv' /\ Feed!CutShort
  <1>1. /\ UNCHANGED <<buf, pos, left, rpc, pipe, fresh>> /\ act' = {}
        /\ link = "open" /\ link' = "broken" /\ stream' = <<>>
    BY DEF LinkBreaks, reader
  <1>2. Len(stream') = 0 /\ left \in Int /\ Len(stream) \in Nat
    BY <1>1 DEF FeedInv, TypeOK
  <1>3. rpc = "payload" => left <= Len(stream) /\ left >= 0 /\ Receiving
    BY <1>1, <1>2 DEF FeedInv, AfterEof, Receiving
  <1>4. rpc = "payload" /\ left = 0 => Completed' = Completed
    BY <1>1, <1>2 DEF Completed
  <1>5. FeedInv'
    <2>1. CASE rpc = "payload" /\ left = 0
      <3>1. SubSeq(stream', left' + 1, Len(stream')) = <<>>
        BY <1>1, <1>2, NoBytes
      <3>2. Receiving'
        BY <1>1, <1>3, <1>4, <2>1, <3>1, NoBytes DEF Receiving, Harmless
      <3>3. ~(left' > Len(stream'))
        BY <1>1, <1>2, <2>1
      <3> QED
        BY <1>1, <2>1, <3>2, <3>3 DEF FeedInv
    <2>2. CASE rpc = "payload" /\ left # 0
      <3>1. left > Len(stream')
        BY <1>2, <1>3, <2>2
      <3> QED
        BY <1>1, <2>2, <3>1 DEF FeedInv
    <2>3. CASE rpc # "payload"
      BY <1>1, <2>3, NoBytes DEF FeedInv, Harmless
    <2> QED
      BY <2>1, <2>2, <2>3
  <1>6. InStream' = <<>>
    <2>1. rpc' = "payload" /\ left' = 0 => InStream' = TellAll[stream']
      BY InStreamNext
    <2>2. rpc' = "payload" /\ left' # 0 => left' > Len(stream')
      BY <1>1, <1>2, <1>3
    <2>3. rpc' \in {"header", "payload", "ended"}
      BY DEF TypeOK
    <2> QED
      BY <1>1, <2>1, <2>2, <2>3, InStreamNext, NoBytes
  <1>7. InReader' = <<>> \/ InReader' = InReader
    <2>1. CASE rpc = "payload" /\ left = 0
      <3>1. ~(left' > Len(stream')) /\ ~(left > Len(stream))
        BY <1>1, <1>2, <2>1
      <3>2. InReader' = Tell(Completed') /\ InReader = Tell(Completed)
        BY <1>1, <2>1, <3>1 DEF InReader
      <3> QED
        BY <1>4, <2>1, <3>2
    <2>2. CASE ~(rpc = "payload" /\ left = 0)
      <3>1. rpc' # "payload" \/ left' > Len(stream')
        BY <1>1, <1>2, <1>3, <2>2
      <3> QED
        BY <3>1 DEF InReader
    <2> QED
      BY <2>1, <2>2
  <1> DEFINE e == Events(pipe)
  <1>8. /\ e \in Seq(Dues) /\ InReader \in Seq(Dues) /\ InStream \in Seq(Dues)
        /\ e \o InReader \in Seq(Dues) /\ InReader \o InStream \in Seq(Dues)
        /\ Due = e \o (InReader \o InStream) /\ Due = (e \o InReader) \o InStream
    BY DueType, ConcatProperties DEF FeedInv, Due
  <1>9. Due' = Events(pipe') \o InReader' \o <<>> /\ Events(pipe') = e
    BY <1>1, <1>6 DEF Due
  <1> HIDE DEF e
  <1>10. Due' = e \/ Due' = e \o InReader
    <2>1. e \o <<>> = e /\ (e \o InReader) \o <<>> = e \o InReader
      BY <1>8
    <2> QED
      BY <1>7, <1>9, <2>1
  <1>11. \E n \in 0..Len(Due) : Due' = SubSeq(Due, 1, n)
    <2>1. CASE Due' = e
      <3> DEFINE rest == InReader \o InStream
      <3>1. e \in Seq(Dues) /\ rest \in Seq(Dues) /\ Due = e \o rest
        BY <1>8
      <3> HIDE DEF rest
      <3>2. \E n \in 0..Len(e \o rest) : e = SubSeq(e \o rest, 1, n)
        BY <3>1, PrefixIs
      <3> QED
        BY <2>1, <3>1, <3>2
    <2>2. CASE Due' = e \o InReader
      <3> DEFINE told == e \o InReader
                 rest == InStream
      <3>1. told \in Seq(Dues) /\ rest \in Seq(Dues) /\ Due = told \o rest
        BY <1>8
      <3>2. Due' = told
        BY <2>2
      <3> HIDE DEF told, rest
      <3>3. \E n \in 0..Len(told \o rest) : told = SubSeq(told \o rest, 1, n)
        BY <3>1, PrefixIs
      <3> QED
        BY <3>1, <3>2, <3>3
    <2> QED
      BY <1>10, <2>1, <2>2
  <1>12. Cut'
    BY <1>1 DEF Cut
  <1> QED
    BY <1>1, <1>5, <1>11, <1>12 DEF Feed!CutShort

\* flicd reports: the event the report tells of, if any, is due last.
LEMMA SendStep ==
  ASSUME FeedAssumption, FeedInv, TypeOK', FlicdSends
  PROVE  FeedInv' /\ (Feed!Quiet \/ Feed!EventSent \/ Feed!EventSentInVain)
  <1>1. UNCHANGED <<link, buf, pos, left, rpc, pipe, fresh>> /\ link = "open"
    BY DEF FlicdSends, reader
  <1>2. PICK r \in Reports :
          /\ stream' = stream \o Bytestream(PayloadsOf(r))
          /\ act' = {[sent |-> e] : e \in EventsOf(r)}
    BY DEF FlicdSends
  <1> DEFINE sent == Bytestream(PayloadsOf(r))
  <1>3. sent \in Seq(Bytes) /\ OnlyPackets[sent] /\ IsTold(TellAll[sent], r)
    BY ReportTold
  <1>a. \A e \in EventsOf(r) : e \in Tellings
    BY DEF Tellings
  <1>4. stream' = stream \o sent
    BY <1>2
  <1> HIDE DEF sent
  <1>5. /\ stream \in Seq(Bytes) /\ stream' \in Seq(Bytes) /\ left \in Int
        /\ Len(stream) \in Nat /\ Len(sent) \in Nat /\ Len(stream') = Len(stream) + Len(sent)
        /\ \A n \in 1..Len(stream) : stream'[n] = stream[n]
    BY <1>3, <1>4, ConcatIs DEF FeedInv, TypeOK
  <1>6. \A a \in Seq(Bytes) : OnlyPackets[a] =>
          OnlyPackets[a \o sent] /\ TellAll[a \o sent] = TellAll[a] \o TellAll[sent]
    BY <1>3, PacketsThen
  <1>7. rpc = "payload" => left <= Len(stream) /\ left >= 0 /\ Receiving
    BY <1>1, <1>5 DEF FeedInv, AfterEof, Receiving
  <1>8. rpc = "payload" => Completed' = Completed
    BY <1>1, <1>5, <1>7 DEF Completed
  <1>9. rpc = "payload" =>
          /\ SubSeq(stream', left + 1, Len(stream')) = SubSeq(stream, left + 1, Len(stream)) \o sent
          /\ SubSeq(stream, left + 1, Len(stream)) \in Seq(Bytes)
    <2>1. rpc = "payload" => left + 1 \in 1..(Len(stream) + 1)
      BY <1>5, <1>7
    <2>2. \A k \in 1..(Len(stream) + 1) : SubSeq(stream, k, Len(stream)) \in Seq(Bytes)
      BY <1>5
    <2>3. \A k \in 1..(Len(stream) + 1) :
            SubSeq(stream', k, Len(stream')) = SubSeq(stream, k, Len(stream)) \o sent
      BY <1>3, <1>4, <1>5, SubSeqConcat
    <2> QED
      BY <2>1, <2>2, <2>3
  <1>10. FeedInv'
    <2>1. CASE rpc = "header"
      <3>1. OnlyPackets[stream']
        BY <1>4, <1>5, <1>6, <2>1 DEF FeedInv
      <3> QED
        BY <1>1, <2>1, <3>1 DEF FeedInv, Harmless
    <2>2. CASE rpc = "payload"
      <3>1. OnlyPackets[SubSeq(stream', left + 1, Len(stream'))]
        BY <1>6, <1>7, <1>9, <2>2 DEF Receiving
      <3>2. ~(left' > Len(stream'))
        BY <1>1, <1>5, <1>7, <2>2
      <3>3. Receiving'
        BY <1>1, <1>7, <1>8, <2>2, <3>1 DEF Receiving, Harmless
      <3> QED
        BY <1>1, <2>2, <3>2, <3>3 DEF FeedInv
    <2>3. CASE rpc = "ended"
      BY <1>1, <2>3 DEF FeedInv
    <2> QED
      BY <2>1, <2>2, <2>3 DEF FeedInv, TypeOK
  <1>11. InReader' = InReader
    <2>1. CASE rpc = "payload"
      <3>1. ~(left' > Len(stream')) /\ ~(left > Len(stream))
        BY <1>1, <1>5, <1>7, <2>1
      <3> QED
        BY <1>1, <1>8, <2>1, <3>1 DEF InReader
    <2>2. CASE rpc # "payload"
      BY <1>1, <2>2 DEF InReader
    <2> QED
      BY <2>1, <2>2
  <1>12. CASE rpc = "ended"
    <2>1. InStream' = InStream
      BY <1>1, <1>12 DEF InStream
    <2>2. Due' = Due /\ Cut' = Cut /\ Cut
      BY <1>1, <1>11, <1>12, <2>1 DEF Due, Cut
    <2>3. CASE EventsOf(r) = {}
      <3>1. act' = {}
        BY <1>2, <2>3
      <3> QED
        BY <1>10, <2>2, <3>1 DEF Feed!Quiet
    <2>4. CASE EventsOf(r) # {}
      <3>1. PICK e \in EventsOf(r) : EventsOf(r) = {e}
        BY <1>3, <2>4 DEF IsTold
      <3>2. act' = {[sent |-> e]} /\ e \in Tellings
        BY <1>2, <1>a, <3>1
      <3> QED
        BY <1>10, <2>2, <3>2 DEF Feed!EventSentInVain
    <2> QED
      BY <2>3, <2>4
  <1>13. CASE rpc # "ended"
    <2>1. InStream' = InStream \o TellAll[sent]
      <3>1. CASE rpc = "header"
        BY <1>1, <1>4, <1>5, <1>6, <3>1, InStreamIs, InStreamNext DEF FeedInv
      <3>2. CASE rpc = "payload"
        <4>1. InStream = TellAll[SubSeq(stream, left + 1, Len(stream))]
          BY <1>7, <3>2, InStreamIs DEF FeedInv
        <4>2. left' <= Len(stream') /\ left' >= 0
          BY <1>1, <1>5, <1>7, <3>2
        <4>3. InStream' = TellAll[SubSeq(stream', left' + 1, Len(stream'))]
          BY <1>1, <3>2, <4>2, InStreamNext
        <4>4. OnlyPackets[SubSeq(stream, left + 1, Len(stream))]
          BY <1>7, <3>2 DEF Receiving
        <4> QED
          BY <1>1, <1>6, <1>9, <3>2, <4>1, <4>3, <4>4
      <3> QED
        BY <1>13, <3>1, <3>2 DEF FeedInv, TypeOK
    <2> DEFINE a == Events(pipe) \o InReader
               b == InStream
               c == TellAll[sent]
    <2>2. a \in Seq(Dues) /\ b \in Seq(Dues) /\ c \in Seq(Dues) /\ Due = a \o b /\ Due \in Seq(Dues)
      <3>1. TellAll[sent] \in Seq(Dues)
        BY <1>3, TellAllIs, SeqMonotonic DEF Dues
      <3> QED
        BY <3>1, DueType DEF FeedInv, Due
    <2>3. Due' = a \o (b \o c)
      BY <1>1, <1>11, <2>1 DEF Due
    <2> HIDE DEF a, b, c
    <2>4. Due' = Due \o c
      <3>1. a \in Seq(Dues) /\ b \in Seq(Dues) /\ c \in Seq(Dues)
        BY <2>2
      <3>2. (a \o b) \o c = a \o (b \o c)
        <4>1. Associates(Dues)
          BY ConcatAssoc
        <4> QED
          BY <3>1, <4>1 DEF Associates
      <3>3. Due = a \o b
        BY <2>2
      <3> HIDE DEF Due
      <3> QED
        BY <2>3, <3>2, <3>3
    <2>5. Cut' = Cut /\ ~Cut
      BY <1>1, <1>13 DEF Cut
    <2>6. CASE c = <<>> /\ EventsOf(r) = {}
      <3>1. Due' = Due
        BY <2>2, <2>4, <2>6
      <3>2. act' = {}
        BY <1>2, <2>6
      <3> QED
        BY <1>10, <2>5, <3>1, <3>2 DEF Feed!Quiet
    <2>7. CASE \E e \in EventsOf(r) : c = <<e>> /\ EventsOf(r) = {e}
      <3>1. PICK e \in EventsOf(r) : c = <<e>> /\ EventsOf(r) = {e}
        BY <2>7
      <3>2. Due' = Append(Due, e)
        BY <2>2, <2>4, <3>1
      <3>3. act' = {[sent |-> e]} /\ e \in Tellings
        BY <1>2, <1>a, <3>1
      <3> QED
        BY <1>10, <2>5, <3>2, <3>3 DEF Feed!EventSent
    <2> QED
      BY <1>3, <2>6, <2>7 DEF IsTold, c
  <1> QED
    BY <1>12, <1>13

\* A length below Half is decoded as it is.
LEMMA ShortLength ==
  ASSUME NEW lo \in Bytes, NEW hi \in Bytes, UnsignedLength(lo, hi) < Half
  PROVE  hi = 0 /\ PacketLen(lo, hi) = UnsignedLength(lo, hi)
  <1>1. Half \in Nat /\ Half > 9 /\ lo \in Nat /\ hi \in Nat
    BY ReaderAssumption DEF Bytes
  <1>2. hi = 0
    <2>1. hi >= 1 => 2 * Half * hi >= 2 * Half
      BY <1>1, Z3
    <2>2. lo + 2 * Half * hi < Half
      BY DEF UnsignedLength
    <2>3. 2 * Half * hi \in Int
      BY <1>1
    <2> QED
      BY <1>1, <2>1, <2>2, <2>3
  <1>3. 2 * Half * 0 = 0
    BY <1>1
  <1> QED
    BY <1>1, <1>2, <1>3 DEF UnsignedLength, PacketLen, Char

\* A header is read: its packet is no more in the stream, but in the reader.
LEMMA HeaderStep ==
  ASSUME FeedAssumption, FeedInv, TypeOK', ReadHeader
  PROVE  FeedInv' /\ Feed!Quiet
  <1> DEFINE p == FirstPayload(stream)
             len == UnsignedLength(stream[1], stream[2])
  <1>1. /\ UNCHANGED <<link, pipe>> /\ act' = {} /\ ~fresh'
        /\ rpc = "header" /\ rpc' = "payload" /\ Len(stream) >= 2 /\ pos' = 0
        /\ buf' = <<stream[1], stream[2], buf[3]>>
        /\ stream' = SubSeq(stream, 3, Len(stream))
        /\ left' = PacketLen(stream[1], stream[2])
    BY DEF ReadHeader
  <1>2. /\ stream \in Seq(Bytes) /\ Len(stream) \in Nat /\ stream # <<>>
        /\ stream[1] \in Bytes /\ stream[2] \in Bytes
        /\ Half \in Nat /\ Half > 9
    BY <1>1, ReaderAssumption DEF FeedInv, TypeOK
  <1>3. HasPacket(stream) /\ p \in Payloads /\ OnlyPackets[Behind(stream)]
    BY <1>1, <1>2, OnlyPacketsIs DEF FeedInv
  <1>4. /\ len \in Nat /\ 2 + len <= Len(stream) /\ Len(p) = len
        /\ \A n \in 1..len : p[n] = stream[n + 2]
        /\ Behind(stream) \in Seq(Bytes)
    BY <1>2, <1>3, PacketType
  <1>5. len \in 1..(Half - 1)
    BY <1>3, <1>4, PayloadType DEF Proper
  <1>6. stream[2] = 0 /\ left' = len
    BY <1>1, <1>2, <1>5, ShortLength
  <1>7. /\ stream' \in Seq(Bytes) /\ Len(stream') = Len(stream) - 2
        /\ \A n \in 1..Len(stream') : stream'[n] = stream[n + 2]
    <2> DEFINE x == SubSeq(stream, 3, Len(stream))
    <2> HIDE DEF p, len
    <2>1. 3 \in 1..(Len(stream) + 1)
      BY <1>1, <1>2
    <2>2. x \in Seq(Bytes) /\ Len(x) = Len(stream) + 1 - 3 /\ \A n \in 1..Len(x) : x[n] = stream[n + 3 - 1]
      BY <1>2, <2>1, SuffixIs
    <2> HIDE DEF x
    <2>3. \A n \in Nat : n + 3 - 1 = n + 2
      OBVIOUS
    <2>4. stream' = x
      BY <1>1 DEF x
    <2> QED
      BY <1>2, <2>2, <2>3, <2>4
  <1>8. SubSeq(stream', left' + 1, Len(stream')) = Behind(stream)
    <2> HIDE DEF len
    <2>1. stream' = SubSeq(stream, 2 + 1, Len(stream))
      BY <1>1
    <2>2. SubSeq(stream', len + 1, Len(stream')) = SubSeq(stream, 2 + len + 1, Len(stream))
      BY <1>2, <1>4, <1>7, <2>1, SuffixOfSuffix
    <2>3. 2 + len + 1 = 3 + len
      BY <1>4
    <2> QED
      BY <1>6, <2>2, <2>3 DEF Behind, len
  <1>9. ASSUME NEW i \in 1..3 PROVE Completed'[i] = IF i <= len THEN p[i] ELSE buf'[i]
    <2> HIDE DEF p, len
    <2>1. Completed'[i] = IF i \in 1..len THEN stream'[i] ELSE buf'[i]
      <3>1. Completed'[i] = IF i - pos' \in 1..left' THEN stream'[i - pos'] ELSE buf'[i]
        BY DEF Completed
      <3>2. i - pos' = i
        BY <1>1
      <3> QED
        BY <1>6, <3>1, <3>2
    <2>2. i <= len => i \in 1..Len(stream')
      BY <1>4, <1>7
    <2>3. i <= len => stream'[i] = p[i]
      BY <1>4, <1>7, <2>2
    <2> QED
      BY <1>4, <2>1, <2>3
  <1> HIDE DEF p, len
  <1>10. Len(p) = 1 => Completed'[2] < Half
    BY <1>1, <1>2, <1>4, <1>6, <1>9
  <1>11. Completed' \in [1..3 -> Bytes]
    <2>1. \A i \in 1..3 : Completed'[i] \in Bytes
      <3>1. buf' \in [1..3 -> Bytes]
        BY DEF TypeOK
      <3>2. p \in Seq(Bytes)
        BY <1>3, PayloadType
      <3>3. \A i \in 1..3 : i <= len => p[i] \in Bytes
        BY <1>4, <3>2
      <3> QED
        BY <1>9, <3>1, <3>3
    <2>2. Completed' = [i \in 1..3 |-> Completed'[i]]
      BY DEF Completed
    <2> QED
      BY <2>1, <2>2
  <1>12. Len(p) = pos' + left' /\ \A i \in 1..3 : i <= Len(p) => Completed'[i] = p[i]
    BY <1>1, <1>4, <1>6, <1>9
  <1>13. left' >= 0 /\ left' <= Len(stream') /\ ~(left' > Len(stream'))
    BY <1>2, <1>4, <1>6, <1>7
  <1>14. Receiving'
    <2>1. Harmless(Completed')
      BY <1>3, <1>10, <1>11, <1>12, HarmlessIs
    <2>2. Harmless(Completed)'
      BY <2>1 DEF Harmless
    <2> QED
      BY <1>1, <1>3, <1>8, <1>12, <1>13, <2>2 DEF Receiving
  <1>15. FeedInv'
    BY <1>1, <1>13, <1>14 DEF FeedInv
  <1>16. InReader' = Tell(p)
    <2>1. Tell(Completed') = Tell(p)
      BY <1>3, <1>11, <1>12, TellSame
    <2> QED
      BY <1>1, <1>13, <2>1 DEF InReader
  <1>17. InStream' = TellAll[Behind(stream)]
    BY <1>1, <1>8, <1>13, InStreamNext
  <1>18. InReader = <<>> /\ InStream = Tell(p) \o TellAll[Behind(stream)]
    BY <1>1, <1>2, <1>3, InStreamIs, TellAllIs DEF FeedInv, InReader, p
  <1>19. Due' = Due
    <2> DEFINE a == Events(pipe)
               b == Tell(p)
               c == TellAll[Behind(stream)]
    <2>1. Due = a \o (b \o c) /\ a \in Seq(Dues)
      <3>1. Due = a \o (<<>> \o (b \o c)) /\ a \in Seq(Dues) /\ b \o c \in Seq(Dues)
        BY <1>18, DueType DEF FeedInv
      <3> HIDE DEF a, b, c
      <3> QED
        BY <3>1
    <2>2. b \in Seq(Dues) /\ c \in Seq(Dues)
      <3>1. b \in Seq(Told) /\ c \in Seq(Told)
        BY <1>2, <1>4, ToldType, TellAllIs DEF p
      <3> QED
        BY <3>1, SeqMonotonic DEF Dues
    <2>3. Due' = (a \o b) \o c
      BY <1>1, <1>16, <1>17 DEF Due
    <2> HIDE DEF a, b, c
    <2> QED
      <3>1. Associates(Dues)
        BY ConcatAssoc
      <3>2. (a \o b) \o c = a \o (b \o c)
        BY <2>1, <2>2, <3>1 DEF Associates
      <3> QED
        BY <2>1, <2>3, <3>2
  <1>20. Cut' = Cut
    BY <1>1 DEF Cut
  <1> QED
    BY <1>1, <1>15, <1>19, <1>20 DEF Feed!Quiet

\* The socket is closed: what is taken for a header is told of nothing, unless it is
\* what malloc left.
LEMMA EofStep ==
  ASSUME FeedInv, TypeOK', HeaderEof
  PROVE  FeedInv' /\ (Feed!Quiet \/ FalseEvent)
  <1>1. /\ UNCHANGED <<stream, link, buf, pipe, fresh>> /\ act' = {}
        /\ rpc = "header" /\ rpc' = "payload" /\ stream = <<>> /\ link = "closed"
        /\ left' = PacketLen(buf[1], buf[2])
    BY DEF HeaderEof, socket
  <1>2. left' \in Int /\ Len(stream') = 0
    BY <1>1 DEF TypeOK
  <1>3. ~fresh /\ left' <= 0 => Tell(buf') = <<>>
    BY <1>1 DEF FeedInv, Harmless
  <1>4. left' <= 0 => AfterEof'
    BY <1>1, <1>2, <1>3 DEF AfterEof
  <1>5. FeedInv'
    BY <1>1, <1>2, <1>4 DEF FeedInv
  <1>6. InStream = <<>> /\ InStream' = <<>>
    <2>1. InStream = <<>>
      BY <1>1, InStreamIs, NoBytes DEF FeedInv
    <2>2. CASE left' > 0
      BY <1>1, <1>2, <2>1, <2>2, InStreamNext
    <2>3. CASE left' <= 0
      BY <1>1, <2>1, <2>3, InStreamNext, NoBytes
    <2> QED
      BY <1>2, <2>1, <2>2, <2>3
  <1>7. InReader = <<>> /\ InReader' = IF left' > 0 THEN <<>> ELSE Tell(buf)
    <2>1. InReader = <<>>
      BY <1>1 DEF InReader
    <2>2. CASE left' > 0
      BY <1>1, <1>2, <2>1, <2>2 DEF InReader
    <2>3. CASE left' <= 0
      <3>1. Completed' = buf'
        <4>1. buf' \in [1..3 -> Bytes] /\ pos' \in Nat
          BY DEF TypeOK
        <4>2. \A i \in 1..3 : ~(i - pos' \in 1..left')
          <5> DEFINE k == left'
          <5>1. k \in Int /\ k <= 0
            BY <1>2, <2>3
          <5> HIDE DEF k
          <5>2. \A j : ~(j \in 1..k)
            BY <5>1
          <5> QED
            BY <5>2 DEF k
        <4>3. Completed' = [i \in 1..3 |-> buf'[i]]
          BY <4>2 DEF Completed
        <4> QED
          BY <4>1, <4>3
      <3> QED
        BY <1>1, <1>2, <2>1, <2>3, <3>1 DEF InReader
    <2> QED
      BY <1>2, <2>1, <2>2, <2>3
  <1>8. Cut' = Cut
    BY <1>1 DEF Cut
  <1>9. CASE InReader' = <<>>
    <2>1. Due' = Due
      BY <1>1, <1>6, <1>7, <1>9 DEF Due
    <2> QED
      BY <1>1, <1>5, <1>8, <2>1 DEF Feed!Quiet
  <1>10. CASE InReader' # <<>>
    <2>1. fresh /\ InReader' = Tell(buf)
      BY <1>1, <1>2, <1>3, <1>7, <1>10
    <2>2. Due' = Due \o Tell(buf)
      <3> DEFINE a == Events(pipe)
                 t == Tell(buf)
      <3>1. a \in Seq(Dues) /\ t \in Seq(Dues)
        <4>1. InReader' \in Seq(Dues)
          <5>1. t \in Seq(Messages)
            BY TellType DEF FeedInv, TypeOK
          <5> QED
            BY <2>1, <5>1, SeqMonotonic DEF Dues
        <4> QED
          BY <2>1, <4>1, DueType DEF FeedInv
      <3>2. Due = (a \o <<>>) \o <<>> /\ Due' = (a \o t) \o <<>>
        BY <1>1, <1>6, <1>7, <2>1 DEF Due
      <3> HIDE DEF a, t, Due
      <3>3. (a \o <<>>) \o <<>> = a /\ (a \o t) \o <<>> = a \o t
        BY <3>1, ConcatProperties
      <3> QED
        BY <3>2, <3>3 DEF t
    <2> QED
      BY <1>1, <1>5, <1>8, <2>1, <2>2 DEF FalseEvent
  <1> QED
    BY <1>9, <1>10

\* A part of the payload is received: it is the same packet that is completed.
LEMMA PayloadStep ==
  ASSUME FeedInv, TypeOK', ReadPayload
  PROVE  FeedInv' /\ Feed!Quiet
  <1>1. /\ rpc = "payload" /\ left > 0 /\ stream # <<>>
        /\ UNCHANGED <<link, rpc, pipe, fresh>> /\ act' = {}
    BY DEF ReadPayload
  <1>2. PICK n \in 1..left :
          /\ n <= Len(stream)
          /\ buf' = [i \in 1..3 |-> IF i - pos \in 1..n THEN stream[i - pos] ELSE buf[i]]
          /\ stream' = SubSeq(stream, n + 1, Len(stream))
          /\ pos' = pos + n
          /\ left' = left - n
    BY DEF ReadPayload
  <1>3. /\ stream \in Seq(Bytes) /\ Len(stream) \in Nat /\ left \in Int /\ pos \in Nat
        /\ n \in Nat /\ n >= 1
    BY <1>1, <1>2 DEF FeedInv, TypeOK
  <1>4. Receiving /\ left <= Len(stream)
    BY <1>1, <1>3 DEF FeedInv, AfterEof
  <1>5. /\ stream' \in Seq(Bytes) /\ Len(stream') = Len(stream) - n
        /\ \A m \in 1..Len(stream') : stream'[m] = stream[m + n]
    <2> DEFINE x == SubSeq(stream, n + 1, Len(stream))
    <2>1. /\ x \in Seq(Bytes) /\ Len(x) = Len(stream) - n
          /\ \A m \in 1..Len(x) : x[m] = stream[m + n]
      BY <1>2, <1>3
    <2> QED
      BY <1>2, <2>1
  <1>6. SubSeq(stream', left' + 1, Len(stream')) = SubSeq(stream, left + 1, Len(stream))
    <2> DEFINE m == left - n
    <2>1. m \in Nat /\ n + m = left /\ n + m <= Len(stream)
      BY <1>2, <1>3, <1>4
    <2> HIDE DEF m
    <2>2. SubSeq(stream', m + 1, Len(stream')) = SubSeq(stream, n + m + 1, Len(stream))
      BY <1>2, <1>3, <1>5, <2>1, SuffixOfSuffix
    <2> QED
      BY <1>2, <2>1, <2>2 DEF m
  <1>7. Completed' = Completed
    <2>1. ASSUME NEW i \in 1..3
          PROVE  (IF i - pos' \in 1..left' THEN stream'[i - pos'] ELSE buf'[i])
                   = IF i - pos \in 1..left THEN stream[i - pos] ELSE buf[i]
      <3> DEFINE k == i - pos
      <3>1. /\ i - pos' = k - n /\ k \in Int
            /\ buf'[i] = IF k \in 1..n THEN stream[k] ELSE buf[i]
        <4>1. i \in Int /\ i - pos' = (i - pos) - n /\ i - pos \in Int
          <5>1. i \in Int /\ pos \in Nat /\ n \in Nat /\ pos' = pos + n
            BY <1>2, <1>3
          <5> QED
            BY <5>1
        <4>2. buf'[i] = IF i - pos \in 1..n THEN stream[i - pos] ELSE buf[i]
          BY <1>2
        <4> QED
          BY <4>1, <4>2
      <3> HIDE DEF k
      <3>2. CASE k \in 1..n
        <4>1. ~(k - n \in 1..left') /\ k \in 1..left
          BY <1>2, <1>3, <3>1, <3>2
        <4> QED
          BY <3>1, <3>2, <4>1 DEF k
      <3>3. CASE k \in (n + 1)..left
        <4>1. /\ k - n \in 1..left' /\ k \in 1..left /\ k - n \in 1..Len(stream')
              /\ (k - n) + n = k
          BY <1>2, <1>3, <1>4, <1>5, <3>1, <3>3
        <4>2. stream'[k - n] = stream[k]
          BY <1>5, <4>1
        <4> QED
          BY <3>1, <4>1, <4>2 DEF k
      <3>4. CASE ~(k \in 1..left)
        <4>1. ~(k - n \in 1..left') /\ ~(k \in 1..n)
          BY <1>2, <1>3, <3>1, <3>4
        <4> QED
          BY <3>1, <3>4, <4>1 DEF k
      <3>5. k \in 1..n \/ k \in (n + 1)..left \/ ~(k \in 1..left)
        BY <1>2, <1>3, <3>1
      <3> QED
        BY <3>2, <3>3, <3>4, <3>5
    <2> QED
      BY <2>1 DEF Completed
  <1>8. left' >= 0 /\ left' <= Len(stream') /\ ~(left' > Len(stream')) /\ pos' + left' = pos + left
    BY <1>2, <1>3, <1>4, <1>5
  <1>9. Receiving'
    BY <1>1, <1>4, <1>6, <1>7, <1>8 DEF Receiving, Harmless
  <1>10. FeedInv'
    BY <1>1, <1>8, <1>9 DEF FeedInv
  <1>11. InReader' = InReader
    <2>1. ~(left > Len(stream))
      BY <1>3, <1>4
    <2> QED
      BY <1>1, <1>7, <1>8, <2>1 DEF InReader
  <1>12. InStream' = InStream
    <2>1. InStream = TellAll[SubSeq(stream, left + 1, Len(stream))]
      BY <1>1, <1>3, <1>4, InStreamIs DEF FeedInv
    <2>2. InStream' = TellAll[SubSeq(stream', left' + 1, Len(stream'))]
      BY <1>1, <1>8, InStreamNext
    <2> QED
      BY <1>6, <2>1, <2>2
  <1>13. Due' = Due /\ Cut' = Cut
    BY <1>1, <1>11, <1>12 DEF Due, Cut
  <1> QED
    BY <1>1, <1>10, <1>13 DEF Feed!Quiet

\* The packet is told of: its event is no more in the reader, but in the pipe.
LEMMA DispatchStep ==
  ASSUME FeedAssumption, FeedInv, TypeOK', Dispatch
  PROVE  FeedInv' /\ Feed!Quiet
  <1>1. /\ rpc = "payload" /\ left <= 0 /\ rpc' = "header" /\ pipe' = pipe \o Tell(buf)
        /\ UNCHANGED <<stream, link, buf, pos, left, fresh>> /\ act' = {}
    BY DEF Dispatch, PipeSend, socket
  <1>2. /\ stream \in Seq(Bytes) /\ Len(stream) \in Nat /\ left \in Int
        /\ pipe \in Seq(Messages) /\ buf \in [1..3 -> Bytes]
    BY DEF FeedInv, TypeOK
  <1>3. left <= Len(stream) /\ ~(left > Len(stream))
    BY <1>1, <1>2
  <1>4. Completed = buf
    BY <1>1, <1>3, CompletedType DEF FeedInv
  <1>5. Receiving \/ AfterEof
    BY <1>1, <1>3 DEF FeedInv
  <1>6. OnlyPackets[stream]
    <2>1. CASE Receiving
      <3>1. left = 0
        BY <1>1, <1>2, <2>1 DEF Receiving
      <3>2. SubSeq(stream, left + 1, Len(stream)) = stream
        BY <1>2, <3>1
      <3> QED
        BY <2>1, <3>2 DEF Receiving
    <2>2. CASE AfterEof
      BY <2>2, NoBytes DEF AfterEof
    <2> QED
      BY <1>5, <2>1, <2>2
  <1>7. ~fresh => Harmless(buf)
    BY <1>4, <1>5 DEF Receiving, AfterEof, Harmless
  <1>8. FeedInv'
    BY <1>1, <1>6, <1>7 DEF FeedInv, Harmless
  <1>9. Events(pipe') = Events(pipe) \o Tell(buf) /\ Tell(buf) \in Seq(Messages)
    <2> DEFINE t == Tell(buf)[1]
    <2>1. Tell(buf) \in Seq(Messages) /\ Events(pipe) \in Seq(Messages)
      BY <1>2, TellType, EventsIs
    <2>2. CASE Tell(buf) = <<>>
      BY <1>1, <1>2, <2>1, <2>2
    <2>3. CASE Tell(buf) # <<>>
      <3>1. Tell(buf) = <<t>>
        BY <2>3, TellShort
      <3>2. t.op # "FLIC_PING"
        BY <2>3 DEF Tell, Packet
      <3> HIDE DEF t
      <3>3. t \in Messages
        BY <2>1, <3>1
      <3>4. Events(pipe \o <<t>>) = Events(pipe) \o Shown(t)
        BY <1>2, <3>3, EventsIs
      <3> QED
        BY <1>1, <2>1, <3>1, <3>2, <3>4 DEF Shown
    <2> QED
      BY <2>2, <2>3
  <1>10. InReader = Tell(buf) /\ InReader' = <<>>
    BY <1>1, <1>3, <1>4 DEF InReader
  <1>11. InStream = TellAll[stream] /\ InStream' = TellAll[stream]
    BY <1>1, InStreamIs, InStreamNext DEF FeedInv
  <1>12. Due' = Due
    <2> DEFINE e == Events(pipe) \o Tell(buf)
    <2>1. Due = e \o InStream /\ e \in Seq(Dues)
      BY <1>10, DueType DEF FeedInv, Due
    <2>2. Due' = (e \o <<>>) \o InStream
      BY <1>9, <1>10, <1>11 DEF Due
    <2> HIDE DEF e
    <2>3. e \o <<>> = e
      BY <2>1
    <2> QED
      BY <2>1, <2>2, <2>3
  <1>13. Cut' = Cut
    BY <1>1 DEF Cut
  <1> QED
    BY <1>1, <1>8, <1>12, <1>13 DEF Feed!Quiet

\* Every step of the threads and of flicd is one of the feed.
LEMMA FeedStep ==
  ASSUME FeedAssumption, FeedInv, [Next]_vars
  PROVE  FeedInv' /\ ([Feed!Next]_(Feed!vars) \/ FalseEvent)
  <1>1. TypeOK'
    BY StepTypes DEF FeedInv
  <1>2. CASE ReadHeader
    BY <1>1, <1>2, HeaderStep DEF Feed!Next
  <1>3. CASE HeaderTimeout \/ PayloadEof \/ Top
    BY <1>1, <1>3, QuietStep DEF Feed!Next
  <1>4. CASE HeaderFails \/ PayloadFails
    BY <1>1, <1>4, EndStep DEF Feed!Next
  <1>5. CASE HeaderEof
    BY <1>1, <1>5, EofStep DEF Feed!Next
  <1>6. CASE ReadPayload
    BY <1>1, <1>6, PayloadStep DEF Feed!Next
  <1>7. CASE Dispatch
    BY <1>1, <1>7, DispatchStep DEF Feed!Next
  <1>8. CASE Read
    BY <1>1, <1>8, ReadStep DEF Feed!Next
  <1>9. CASE FlicdSends
    BY <1>1, <1>9, SendStep DEF Feed!Next
  <1>10. CASE FlicdCloses
    BY <1>1, <1>10, CloseStep DEF Feed!Next
  <1>11. CASE LinkBreaks
    BY <1>1, <1>11, BreakStep DEF Feed!Next
  <1>12. CASE UNCHANGED vars
    <2>1. UNCHANGED <<stream, link, buf, pos, left, rpc, pipe, fresh, act>>
      BY <1>12 DEF vars
    <2>2. FeedInv' /\ InReader' = InReader /\ InStream' = InStream /\ Cut' = Cut
      BY <1>1, <2>1, SamePlace
    <2>3. Due' = Due
      BY <2>1, <2>2 DEF Due
    <2> QED
      BY <2>1, <2>2, <2>3 DEF Feed!vars
  <1> QED
    BY <1>2, <1>3, <1>4, <1>5, <1>6, <1>7, <1>8, <1>9, <1>10, <1>11, <1>12
    DEF Next, Reader, Main, Flicd

\* For any reports FeedAssumption allows, and whatever malloc left in the buffer, the
\* reader is at a packet's start whenever it waits for a header, and has the payload of
\* one packet when it tells of it, until flicd closes the socket.
THEOREM ReaderInvariant == ASSUME FeedAssumption PROVE Spec => []FeedInv
  BY FeedInit, FeedStep, PTL DEF Spec

\* For any such reports, the main thread reads the events flicd sent, in their order,
\* none twice, none skipped and none that was not sent, however the bytes are split, up
\* to a failure of the link; but for what malloc left, if flicd closes the socket before
\* it has sent a byte.
THEOREM FeedIsKept == ASSUME FeedAssumption PROVE Spec => FeedKept
  <1>1. FeedInv /\ [Next]_vars => FeedInv' /\ [[Feed!Next]_(Feed!vars) \/ FalseEvent]_vars
    BY FeedStep
  <1> QED
    BY FeedInit, <1>1, PTL DEF Spec, FeedKept
=============================================================================
