---------------------------- MODULE CommandLine ----------------------------
(***************************************************************************)
(* The commands flicd is given: by main, which asks for information, then  *)
(* for a connection to each button of the configuration, then for          *)
(* information after every epoch; or by the terminal (linein), in the      *)
(* interactive mode.  handle_line takes a line apart, character by         *)
(* character, and write_packet hands the packet to a socket that may take  *)
(* only a part of it.                                                      *)
(*                                                                         *)
(* A store outside of an array is undefined: the model stops there, at     *)
(* "overrun".  An interrupted send (EINTR) is tried again, a stutter here. *)
(***************************************************************************)
EXTENDS FlicCommands

CONSTANTS
  Modes,      \* how the program may be started: "mqtt", "interact"
  Inputs,     \* what may be typed
  Settings,   \* the buttons' FLIC_MAC_nn: sequences of sets of none or one text
  WordSize,   \* characters of a word the assertion lets pass: 62
  CopySize,   \* characters of a word that is copied once more: 31
  LineSize,   \* room for a line typed: 128
  CmdSize,    \* room for a line main puts together: 31
  MaxEpochs   \* bound on the epochs

ASSUME CommandLineAssumption ==
  /\ {"getInfo", "connect", Blank, "\n", "0", "1", "2", "3", "4", "5", "6", "7"}
       \subseteq Characters
  /\ Modes \subseteq {"mqtt", "interact"}
  /\ Inputs \subseteq Seq(Characters)
  /\ \A s \in Settings :
       /\ s \in Seq(SUBSET Seq(Characters)) /\ Len(s) <= 8
       /\ \A n \in DOMAIN s : \A a, b \in s[n] : a = b
  /\ WordSize \in Nat \ {0} /\ CopySize \in Nat /\ LineSize \in Nat
  /\ CmdSize \in Nat /\ MaxEpochs \in Nat

VARIABLES
  mode,     \* how it was started
  typed,    \* external: what is typed in all
  input,    \* external: what of it was not read yet
  macs,     \* the configuration
  step,     \* main: what it asks next: 0 for the first getInfo, then the buttons
            \* from 1, then the getInfo of the epochs
  pc,       \* "main", "linein", "split", "dispatch", "write", and the ends:
            \* "returned", "aborted" (assertion), "exited" (error), "overrun"
  line,     \* the line being read or taken apart
  at,       \* the position of the tokeniser in it
  words,    \* the words found
  word,     \* the word being found
  frame,    \* the bytes write_packet has still to send
  wire      \* the bytes flicd was sent

given == <<mode, typed, macs>>
splitter == <<line, at, words, word>>
vars == <<given, input, step, pc, splitter, frame, wire>>

Init ==
  /\ mode \in Modes
  /\ typed \in IF mode = "interact" THEN Inputs ELSE {<<>>}
  /\ macs \in IF mode = "mqtt" THEN Settings ELSE {<<>>}
  /\ input = typed
  /\ step = 0
  /\ pc = IF mode = "mqtt" THEN "main" ELSE "linein"
  /\ line = <<>> /\ at = 1 /\ words = <<>> /\ word = <<>>
  /\ frame = <<>>
  /\ wire = <<>>

\* Where flicd_client_handle_line returns to.
Caller == IF mode = "mqtt" THEN "main" ELSE "linein"

Handle(text) ==
  /\ line' = text
  /\ at' = 1 /\ words' = <<>> /\ word' = <<>>
  /\ pc' = "split"

-----------------------------------------------------------------------------
(* The callers. *)

Digit(n) == <<"0", "1", "2", "3", "4", "5", "6", "7">>[n]

GetInfo ==
  /\ pc = "main"
  /\ step = 0 \/ step \in (Len(macs) + 1)..(Len(macs) + MaxEpochs)
  /\ Handle(<<"getInfo">>)
  /\ step' = step + 1
  /\ UNCHANGED <<given, input, frame, wire>>

\* A slip: the buttons are numbered as they come.
ConnectNumbered ==
  /\ pc = "main" /\ step \in DOMAIN macs
  /\ \E mac \in macs[step] :
       LET number == Cardinality({n \in 1..step : macs[n] # {}})
       IN  Handle(<<"connect", Blank>> \o mac \o <<Blank, Digit(number)>>)
  /\ step' = step + 1
  /\ UNCHANGED <<given, input, frame, wire>>

Connect ==
  /\ pc = "main" /\ step \in DOMAIN macs
  /\ \E mac \in macs[step] :
       LET text == <<"connect", Blank>> \o mac \o <<Blank, Digit(step)>>
       IN  IF Len(text) <= CmdSize
             THEN Handle(text)
             ELSE pc' = "overrun" /\ UNCHANGED splitter
  /\ step' = step + 1
  /\ UNCHANGED <<given, input, frame, wire>>

\* A slip: the first button without a line ends the loop.
NoButtonEnds ==
  /\ pc = "main" /\ step \in DOMAIN macs /\ macs[step] = {}
  /\ step' = Len(macs) + 1
  /\ UNCHANGED <<given, input, pc, splitter, frame, wire>>

NoButton ==
  /\ pc = "main" /\ step \in DOMAIN macs /\ macs[step] = {}
  /\ step' = step + 1
  /\ UNCHANGED <<given, input, pc, splitter, frame, wire>>

\* One character of the terminal.  At the end of the input, and when the line has
\* no room left, the program returns and drops what it has of the line.
Linein ==
  /\ pc = "linein"
  /\ IF input = <<>> \/ Len(line) >= LineSize
       THEN pc' = "returned" /\ UNCHANGED <<input, splitter>>
       ELSE /\ input' = Tail(input)
            /\ IF Head(input) = "\n"
                 THEN Handle(line)
                 ELSE /\ line' = CASE Head(input) = "\r" -> line
                                   [] Head(input) = "\t" -> Append(line, Blank)
                                   [] OTHER -> Append(line, Head(input))
                      /\ UNCHANGED <<pc, at, words, word>>
  /\ UNCHANGED <<given, step, frame, wire>>

-----------------------------------------------------------------------------
(* flicd_client_handle_line. *)

\* The assertion that bounds the words comes after the store into the fifth.
Letter ==
  /\ pc = "split" /\ at <= Len(line) /\ line[at] # Blank
  /\ word' = Append(word, line[at])
  /\ at' = at + 1
  /\ pc' = IF Len(words) >= 4 THEN "overrun"
           ELSE IF Len(word) >= WordSize THEN "aborted" ELSE "split"
  /\ UNCHANGED <<given, input, step, line, words, frame, wire>>

\* A slip: every space ends a word.
SpaceAlways ==
  /\ pc = "split" /\ at <= Len(line) /\ line[at] = Blank
  /\ words' = Append(words, word) /\ word' = <<>>
  /\ at' = at + 1
  /\ UNCHANGED <<given, input, step, pc, line, frame, wire>>

\* Spaces in excess are passed over.
Space ==
  /\ pc = "split" /\ at <= Len(line) /\ line[at] = Blank
  /\ IF word = <<>>
       THEN UNCHANGED <<words, word>>
       ELSE words' = Append(words, word) /\ word' = <<>>
  /\ at' = at + 1
  /\ UNCHANGED <<given, input, step, pc, line, frame, wire>>

EndOfLine ==
  /\ pc = "split" /\ at > Len(line)
  /\ words' = IF word = <<>> THEN words ELSE Append(words, word)
  /\ word' = <<>>
  /\ pc' = "dispatch"
  /\ UNCHANGED <<given, input, step, line, at, frame, wire>>

\* No command, or one that is only answered here.
Return ==
  /\ pc' = Caller
  /\ line' = <<>>
  /\ UNCHANGED <<at, words, word, frame>>

Encode(c) ==
  /\ \E packet \in Packets(c, words) : frame' = Frame(packet)
  /\ pc' = "write"
  /\ UNCHANGED splitter

End(how) == pc' = how /\ UNCHANGED <<splitter, frame>>

Dispatch ==
  /\ pc = "dispatch"
  /\ LET name == IF words = <<>> THEN <<>> ELSE words[1]
     IN  IF name = <<"quit">>
           THEN End(IF Len(words) = 1 THEN "returned" ELSE "aborted")
           ELSE IF Named(name) = {}
             THEN Return
             ELSE \E c \in Named(name) :
               IF Len(words) # Commands[c].words
                 THEN End("aborted")
                 ELSE IF \E f \in Copied(c) : Len(words[f.word]) > CopySize
                   THEN End("overrun")
                   ELSE Encode(c)
  /\ UNCHANGED <<given, input, step, wire>>

-----------------------------------------------------------------------------
(* write_packet. *)

\* A slip: what the socket did not take is dropped.
SendOnce ==
  /\ pc = "write" /\ frame # <<>>
  /\ \E n \in 1..Len(frame) : wire' = wire \o SubSeq(frame, 1, n)
  /\ frame' = <<>>
  /\ UNCHANGED <<given, input, step, pc, splitter>>

\* The socket takes a part of what is left.
Send ==
  /\ pc = "write" /\ frame # <<>>
  /\ \E n \in 1..Len(frame) :
       /\ wire' = wire \o SubSeq(frame, 1, n)
       /\ frame' = SubSeq(frame, n + 1, Len(frame))
  /\ UNCHANGED <<given, input, step, pc, splitter>>

SendFails ==
  /\ pc = "write" /\ frame # <<>>
  /\ pc' = "exited"
  /\ UNCHANGED <<given, input, step, splitter, frame, wire>>

Written ==
  /\ pc = "write" /\ frame = <<>>
  /\ Return
  /\ UNCHANGED <<given, input, step, wire>>

Next ==
  \/ GetInfo \/ Connect \/ NoButton \/ Linein
  \/ Letter \/ Space \/ EndOfLine \/ Dispatch
  \/ Send \/ SendFails \/ Written

Spec == Init /\ [][Next]_vars

-----------------------------------------------------------------------------
(* Properties. *)

\* A byte of a packet.
IsByte(b) ==
  /\ DOMAIN b = {"of", "byte"} /\ b.of.command \in DOMAIN Commands
  /\ b.byte \in 1..(2 + Size(b.of))

\* Words stay within their array but where the model stops.
LineOK ==
  /\ input \in Seq(Characters)
  /\ pc \in {"main", "linein", "split", "dispatch", "write",
             "returned", "aborted", "exited", "overrun"}
  /\ pc \in {"main", "linein"} => pc = Caller
  /\ step \in 0..(Len(macs) + MaxEpochs + 1)
  /\ line \in Seq(Characters) /\ word \in Seq(Characters) /\ words \in Seq(Seq(Characters))
  /\ at \in Nat \ {0}
  /\ pc = "split" => /\ at <= Len(line) + 1 /\ Len(word) <= WordSize
                     /\ word # <<>> => Len(words) < 4
  /\ Len(words) <= 4
  /\ \A n \in DOMAIN words : Len(words[n]) \in 1..WordSize

\* The unsent bytes end a packet, and a packet is being sent only by write_packet.
BytesOK ==
  /\ wire \in Seq(ToSet(wire)) /\ frame \in Seq(ToSet(frame))
  /\ \A n \in DOMAIN wire : IsByte(wire[n])
  /\ frame # <<>> =>
       /\ pc \in {"write", "exited"}
       /\ IsByte(frame[1]) /\ frame[1].byte + Len(frame) = 3 + Size(frame[1].of)
       /\ \A n \in DOMAIN frame :
            frame[n] = [of |-> frame[1].of, byte |-> frame[1].byte + n - 1]

TypeOK ==
  /\ mode \in Modes
  /\ typed \in IF mode = "interact" THEN Inputs ELSE {<<>>}
  /\ macs \in IF mode = "mqtt" THEN Settings ELSE {<<>>}
  /\ LineOK
  /\ BytesOK

\* The lines the program is to handle, as the configuration or the terminal has
\* them: in the first case the one of button n says its own number.
Plain(text) ==
  FlattenSeq([n \in DOMAIN text |->
    CASE text[n] = "\r" -> <<>> [] text[n] = "\t" -> <<Blank>> [] OTHER -> <<text[n]>>])
LinesOf[text \in Seq(Characters)] ==
  LET n == Before(text, "\n")
  IN  IF n = Len(text) THEN <<>>
      ELSE <<SubSeq(text, 1, n)>> \o LinesOf[SubSeq(text, n + 2, Len(text))]
MainLines(n) ==
  IF n \in DOMAIN macs
    THEN IF macs[n] = {} THEN <<>>
         ELSE <<<<"connect", Blank>> \o (CHOOSE mac \in macs[n] : TRUE) \o <<Blank, Digit(n)>>>>
    ELSE <<<<"getInfo">>>>
LinesFrom(first) ==
  FlattenSeq([n \in 1..(Len(macs) + MaxEpochs + 1 - first) |-> MainLines(first + n - 1)])

LinesGiven == IF mode = "interact" THEN LinesOf[Plain(typed)] ELSE LinesFrom(0)

\* The packets flicd has the first byte of, and those it has the last of.
Begun == FlattenSeq([n \in DOMAIN wire |-> IF wire[n].byte = 1 THEN <<wire[n].of>> ELSE <<>>])
Whole ==
  FlattenSeq([n \in DOMAIN wire |->
    IF wire[n].byte = 2 + Size(wire[n].of) THEN <<wire[n].of>> ELSE <<>>])

\* The lines that ask for something, in order.
Asking(lines) ==
  FlattenSeq([n \in DOMAIN lines |-> IF Proper(lines[n]) THEN <<lines[n]>> ELSE <<>>])
Demands == Asking(LinesGiven)

\* flicd is asked for what the lines say, in their order, each once: the words are
\* taken apart right whatever spaces, tabs and carriage returns stand around them,
\* and no line asks twice or is passed over.  In the mqtt mode this is: information
\* first, then the buttons of the configuration, each under the number of its
\* FLIC_MAC_nn (by which the reader and the topics know it), then information.
AskedInOrder ==
  /\ Len(Begun) <= Len(Demands)
  /\ \A n \in DOMAIN Begun : Begun[n] \in Asks(Demands[n])

\* However the socket splits them, flicd receives whole packets: a packet begins
\* where another ends, and its bytes follow each other.
PacketsWhole ==
  \A n \in DOMAIN wire :
    IF wire[n].byte = 1
      THEN n > 1 => wire[n - 1].byte = 2 + Size(wire[n - 1].of)
      ELSE n > 1 /\ wire[n - 1] = [of |-> wire[n].of, byte |-> wire[n].byte - 1]

\* When all lines are handled flicd has been sent all they ask for.
AllAsked ==
  \/ pc = "returned" /\ input = <<>> /\ Len(line) < LineSize
  \/ pc = "main" /\ step = Len(macs) + MaxEpochs + 1
  => Len(Whole) = Len(Demands)

LongWord(size) == \E n \in DOMAIN WordsOf[line] : Len(WordsOf[line][n]) > size

\* The program aborts, or stores outside of an array, only for a line that asks for
\* it: the wrong number of words behind a command, more than four words, a word or
\* an address that is too long.  No way of spacing the words of another does.
StopsForAReason ==
  /\ pc = "aborted" => ~Proper(line) \/ LongWord(WordSize)
  /\ pc = "overrun" /\ line # <<>> => Len(WordsOf[line]) > 4 \/ LongWord(CopySize)
  /\ pc = "overrun" /\ line = <<>> =>
       \E mac \in macs[step - 1] : Len(mac) + 4 > CmdSize

-----------------------------------------------------------------------------
(* The inductive invariant. *)

\* The words found, and those in what is left of the line, are the line's.
Splitting ==
  /\ pc = "split" =>
       /\ \A n \in DOMAIN word : word[n] # Blank
       /\ WordsOf[line] = words \o WordsOf[word \o SubSeq(line, at, Len(line))]
  /\ pc = "dispatch" => words = WordsOf[line]
  /\ pc = "main" => line = <<>>
  /\ pc = "linein" => \A n \in DOMAIN line : line[n] # "\n"
  /\ mode = "mqtt" /\ pc \in {"split", "dispatch"} =>
       line # <<>> /\ line[1] \in {"getInfo", "connect"}

\* The bytes on the wire and the unsent ones follow each other.
Following ==
  /\ PacketsWhole
  /\ IF frame = <<>> \/ frame[1].byte = 1
       THEN wire # <<>> => wire[Len(wire)].byte = 2 + Size(wire[Len(wire)].of)
       ELSE /\ wire # <<>>
            /\ wire[Len(wire)] = [of |-> frame[1].of, byte |-> frame[1].byte - 1]

\* The lines not yet handled, the one in hand first.
LinesLeft ==
  (IF pc \in {"split", "dispatch"} THEN <<line>> ELSE <<>>)
    \o IF mode = "interact"
         THEN LinesOf[(IF pc = "linein" THEN line ELSE <<>>) \o Plain(input)]
         ELSE LinesFrom(step)

\* The packets flicd has been sent, or is about to be.
Asked == Begun \o IF frame # <<>> /\ frame[1].byte = 1 THEN <<frame[1].of>> ELSE <<>>

\* Each is what the demand in its place asks for, and the lines left hold the rest
\* of the demands.
Answering ==
  /\ Len(Asked) <= Len(Demands)
  /\ \A n \in DOMAIN Asked : Asked[n] \in Asks(Demands[n])
  /\ Len(Asked) = Len(Whole) + IF frame = <<>> THEN 0 ELSE 1
  /\ pc \in {"main", "linein", "split", "dispatch", "write"} =>
       Asking(LinesLeft) = SubSeq(Demands, Len(Asked) + 1, Len(Demands))

CommandInv ==
  /\ TypeOK
  /\ Splitting
  /\ Following
  /\ Answering
  /\ AllAsked
  /\ StopsForAReason
=============================================================================
