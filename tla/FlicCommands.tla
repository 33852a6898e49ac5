---------------------------- MODULE FlicCommands ----------------------------
(***************************************************************************)
(* The commands of flicd_client_handle_line and the packets they become.   *)
(* A line is a sequence of characters, where the name of a command or of a *)
(* latency mode, an address and a number count as one; a word is such a    *)
(* sequence too.                                                           *)
(***************************************************************************)
EXTENDS Integers, SequencesExt

CONSTANTS
  Characters, \* what lines are made of
  Numbers,    \* characters that are a number
  Addresses   \* characters that are a bluetooth address

\* Fields of a packet: the bytes they take, the word they are read from, and how;
\* those of no word have a fixed value.
Id(n) == [width |-> 4, word |-> n, kind |-> "number"]
Address(n) == [width |-> 6, word |-> n, kind |-> "address"]
Latency(n) == [width |-> 1, word |-> n, kind |-> "latency"]
Time(n) == [width |-> 2, word |-> n, kind |-> "number"]
FirstId == [width |-> 4, word |-> 0, kind |-> "0"]
NormalLatency == [width |-> 1, word |-> 0, kind |-> "NormalLatency"]
LongTime == [width |-> 2, word |-> 0, kind |-> "511"]

Command(words, opcode, fields) == [words |-> words, opcode |-> opcode, fields |-> fields]

Commands == [
  getInfo                     |-> Command(1, 0, <<>>),
  startScan                   |-> Command(1, 1, <<FirstId>>),
  stopScan                    |-> Command(1, 2, <<FirstId>>),
  connect                     |-> Command(3, 3, <<Id(3), Address(2), NormalLatency, LongTime>>),
  disconnect                  |-> Command(2, 4, <<Id(2)>>),
  forceDisconnect             |-> Command(2, 5, <<Address(2)>>),
  changeModeParameters        |-> Command(4, 6, <<Id(2), Latency(3), Time(4)>>),
  getButtonInfo               |-> Command(2, 8, <<Address(2)>>),
  startScanWizard             |-> Command(1, 9, <<FirstId>>),
  cancelScanWizard            |-> Command(1, 10, <<FirstId>>),
  delete                      |-> Command(2, 11, <<Address(2)>>),
  createBatteryStatusListener |-> Command(3, 12, <<Id(3), Address(2)>>),
  removeBatteryStatusListener |-> Command(2, 13, <<Id(2)>>)]

Named(name) == {c \in DOMAIN Commands : name = <<c>>}

\* The fields that are read with "%s" into a local array of their own.
Copied(c) == {f \in ToSet(Commands[c].fields) : f.kind \in {"address", "latency"}}

-----------------------------------------------------------------------------

\* sscanf with "%u" leaves the variable uninitialized if there is no number.
NumberOf(word) == IF word[1] \in Numbers THEN {word[1]} ELSE Numbers

\* A word that is no address only draws a warning; the bytes are those that happen
\* to be there.
AddressOf(word) == IF word[1] \in Addresses THEN {word[1]} ELSE Addresses

LatencyOf(word) ==
  IF word \in {<<"LowLatency">>, <<"HighLatency">>} THEN {word[1]} ELSE {"NormalLatency"}

ValuesOf(field, words) ==
  CASE field.kind = "number" -> NumberOf(words[field.word])
    [] field.kind = "address" -> AddressOf(words[field.word])
    [] field.kind = "latency" -> LatencyOf(words[field.word])
    [] OTHER -> {field.kind}

\* The packets that command c may become.
Packets(c, words) ==
  LET fields == Commands[c].fields
      All == UNION {ValuesOf(f, words) : f \in ToSet(fields)}
  IN  {[command |-> c, values |-> v] :
         v \in {v \in [DOMAIN fields -> All] :
                  \A n \in DOMAIN fields : v[n] \in ValuesOf(fields[n], words)}}

\* sizeof the packet's structure, which is packed.
Size(packet) ==
  LET fields == Commands[packet.command].fields
      Upto[n \in 0..Len(fields)] == IF n = 0 THEN 1 ELSE Upto[n - 1] + fields[n].width
  IN  Upto[Len(fields)]

\* What write_packet puts on the wire: two bytes of length and the packet.
Frame(packet) == [n \in 1..(2 + Size(packet)) |-> [of |-> packet, byte |-> n]]

-----------------------------------------------------------------------------
(* What a line asks for, said without the tokeniser. *)

Blank == " "

\* How many elements stand before the first c.
Before(s, c) ==
  CHOOSE n \in 0..Len(s) :
    (\A m \in 1..n : s[m] # c) /\ (n < Len(s) => s[n + 1] = c)

\* The words of a line are what stands between its spaces, where that is something.
WordsOf[line \in Seq(Characters)] ==
  LET n == Before(line, Blank)
  IN  IF line = <<>> THEN <<>>
      ELSE (IF n = 0 THEN <<>> ELSE <<SubSeq(line, 1, n)>>)
             \o WordsOf[SubSeq(line, n + 2, Len(line))]

\* A command with the right number of words.
Proper(line) ==
  \E c \in DOMAIN Commands :
    /\ Len(WordsOf[line]) = Commands[c].words
    /\ WordsOf[line][1] = <<c>>

Asks(line) ==
  UNION {Packets(c, WordsOf[line]) : c \in Named(WordsOf[line][1])}
=============================================================================
