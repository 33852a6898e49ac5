# Flic2MQTT: verification development

Flic2MQTT listens to Flic buttons through a flicd daemon and publishes what they
do on MQTT topics. This directory holds TLA+ modules for it, their TLC runs, and
theorems about them checked by TLAPS.

## The system

| Part | State it keeps | Operations | Talks to |
|---|---|---|---|
| `looper` (Flic2MQTT.cpp:85) | `butt_held`, `butt_downct`, `holdCt`, all local | one branch per kind of packet; returns 1000 after the deadline | reads the pipe; calls PahoWrapper |
| `main` (Flic2MQTT.cpp:186) | `sockfd`, ticks, epoch counters | start-up; per epoch: reconnect if down, deadline, looper, getInfo | starts the reader; calls looper, PahoWrapper, command lines |
| PahoWrapper | `pahoClient`, `pahoUp`, `pahoOutstanding` (volatile, no lock) | `send`, `reconnect`, five callbacks on threads of the Paho library | broker |
| reader thread (flicd_client.cpp:282) | the receive buffer | header, payload, one case per event; pings, fatal errors | flicd socket; writes the pipe |
| the pipe | at most 32 packets of 32 bytes | blocking write, blocking read | reader to main |
| command lines (flicd_client.cpp:520) | none | tokenise, 14 commands, `write_packet` | flicd socket |
| Config | the settings; log files | `readConfig`: strip comments, keys, rotate logs | all, at start-up |
| broker, flicd, network (external) | sessions, wills, retained messages; events | deliver, drop, publish a will | wrapper, reader |

Two threads of the program (main and reader) and the threads of the Paho library
run concurrently. The hard behaviours are the callbacks that share two fields
with the main thread; gestures of several buttons interleaved in one stream and
cut by the hourly epochs; packets that never come (removed channels, a reader
that has ended); partial reads, timeouts and the end of the stream in the
reader; a full pipe; ticks that wrap.

What makes each part correct:

- looper: the hold counter agrees with the hold flags; a hold is open exactly
  from the hold event to the closing event; the assertion never fails; the
  messages on the topics of a button tell a consistent story; epochs end.
- PahoWrapper: it is not "up" on a dead connection; its counter counts no message
  that will never be settled; a lost connection is noticed and made again.
- reader: a packet is decoded from the bytes flicd sent, in order; a fatal error
  ends the program's loop; the pipe loses nothing.
- command lines: flicd receives what the lines ask for, whole, in order, once.
- Config: the settings in force are the ones written in the file; an interrupted
  log rotation loses at most the oldest log, and the logs stay in order.
- the whole: subscribers see the bridge Online again after every loss, and no will
  of an older session takes that back.

## Modules

| Module | Models |
|---|---|
| `FlicPipe` | vocabulary: packets of the pipe, messages to PahoWrapper |
| `ButtonTopics` | abstract: what the topics of a button promise to a subscriber |
| `ButtonLooper` | looper and the epochs of main; keeps `ButtonTopics` but for one departure |
| `ButtonLooperProofs` | theorems about `ButtonLooper` |
| `PahoWrapper` | send, reconnect, callbacks, the library as its environment |
| `PahoWrapperProofs` | theorems about `PahoWrapper` |
| `Bridge` | main and `PahoWrapper` composed with the broker and with crashes |
| `BridgeProofs` | theorems about `Bridge` |
| `FlicFeed` | abstract: what the main thread may believe of the packets it reads |
| `FlicReader` | the reader thread, byte by byte; the pipe; the main thread's read; refines `FlicFeed` but for one step |
| `FlicReaderProofs` | theorems about `FlicReader` |
| `MCFlicReader` | payloads for the runs |
| `FlicCommands` | the table of commands, their packets, what a line asks for |
| `CommandLine` | the callers, the tokeniser, `write_packet` |
| `MCCommandLine` | settings and typed lines for the run |
| `CommandLineProofs` | theorems about the two |
| `EpochClock` | the tick behind the epochs |
| `EpochClockProofs` | theorems about `EpochClock` |
| `LogRotation` | the rotation of the logs, with stops between any two calls |
| `ConfigFile` | the reading of the settings |
| `ReadConfig` | `readConfig` as a whole, start after start: `ConfigFile` and `LogRotation` composed |
| `ReadConfigProofs` | theorems about `LogRotation` and the settings; `readConfig` implements `LogRotation` |
| `MCReadConfig` | configuration files for the run |
| `SequenceLemmas` | induction and recursion over sequences, `FlattenSeq`, for the proofs |

### ButtonLooper

`held`, `downct` and `holdCt` are the three locals of `looper`, with the hold
flags as 0 and 1 as in the C arrays; `NewEpoch` sets them afresh, because every
call of `looper` does. `Check` is the test at the top of the loop, `ReadUpDown`
and `ReadNotice` are one iteration after the read returns: the read, the branch
taken, and the message written (`out`). The three branches that write are `Down`
(message, count, and last the assertion, which aborts), `Up`, `Hold`, and `Close`
for the single and double click, which differ only in the topics.

The clock is the flag `late`: `GetTickCount() > gotill`. It may flip either way
at any time, which covers every tick counter, a wrapping one included.

The pipe is a FIFO with one writer, so the packets of one button are read in the
order they were sent. The model takes each button's stream at the read: `at` and
`presses` say where in a gesture the packets read so far have left it. The
gestures are those the branches of `looper` are written for: one or two presses,
the last of which may become a hold, then the closing single or double click.
`ChannelRemoved` stops a button's stream at any point; the reader prints that
event and sends nothing to the main thread.

`ButtonTopics` says the same in the subscriber's words: On and Off alternate, a
hold is announced at most once while On, on hold or, after a click, on clickhold,
and closed after Off, one press ends on click or holdup and two on clickclick or
clickholdup. It knows nothing of epochs. looper does not keep all of it
(`TopicsPromised`, violated in `looper_topics`): a fresh call has lost the presses
of a gesture under way. `TopicsKept` says exactly that much and no more: every step
is one of `ButtonTopics`, or announces on hold a button whose gesture has lost a
press (`Forgot`), and presses are lost between two calls of looper only
(`PressesStay`). The mapping is `Light` and `Open`.

### PahoWrapper

`pc` is the main thread inside `send` (`sending`: counted, not handed over;
`refused`: before `pahoUp=false`) and inside `reconnect` (`destroy`, `create`,
`connect`, `wait`). `onConnect` and `onSend` touch the two fields twice, so each
is two steps, with `running` in between. `news`, `acks` and `fails` are the calls
of callbacks the library has still to make. `WaitOver` covers both ends of the
five-second wait.

The Paho library is external. What is assumed of it is stated at the head of the
module: `sendMessage` is refused exactly when the client is not connected;
callbacks run one at a time and that of the connection first; destroy waits for
the running callback and drops the rest; an accepted message is acknowledged,
fails, or is never heard of again.

### FlicReader

`stream` holds the bytes flicd has sent and `recv` has not returned; `buf` is the
first three bytes of `readbuf` (opcode, button, click type: all the reader's
decisions rest on them), `pos` and `left` are `read_pos` and `bytes_left`. One
action per outcome of each of the two `recv` calls: `ReadHeader`,
`HeaderTimeout` (a ping), `HeaderFails` (an error, or one byte), `HeaderEof`
(0: no test catches it), `ReadPayload` (any part of what has come),
`PayloadFails`, `PayloadEof`. `Dispatch` is the switch; `Tell` says what it
writes to the pipe, a packet or nothing. `End` is the fatal ping and the return.
A write waits for room in the pipe (`PipeSend`): the model waits with the whole
action, since the reader does nothing between the end of the payload and the
write.

A byte is a number below `2*Half`, `Half` being 128 in the code and 16 in the
runs, so that a packet whose length does not fit a signed char stays short.
`Char` and `PacketLen` are the signed arithmetic of flicd_client.cpp:332. The
buffer comes from `malloc`: it begins as any member of `Garbage`, a set of bytes of
the run's choosing and any set in the theorems. `fresh` remembers that nothing has
been received into it.

Of the main thread only `Top` and `Read` matter here: it drains the pipe one
packet at a time. A ping is dropped whatever its status, as in `looper`.

flicd is external. A report is a step of a gesture, a notice or an answer
(`Reports`); `PayloadsOf` are the packets flicd sends of it, one on every opcode it
concerns, and `EventsOf` what the main thread is to read of it, in the values
`looper` compares with: one event, or none. Neither mentions `Tell`, so that a
filter that told of a step twice, not at all or with another status would show.
`FlicFeed` is a FIFO of these events: each is sent and read with its value on record
(`act`), in order, none twice, none skipped and none that was not sent, until a
failure cuts it (`cut`). The mapping reads the events still due out of the pipe,
the packet being received and the stream (`Due`), which the recursive function
`TellAll` takes apart packet by packet.

The code does not keep it when the socket is closed before its first byte: what
`malloc` left is then taken for a header and, if its length is zero or negative, for a
packet as well. `FeedKept` allows that one step (`FalseEvent`: `HeaderEof` while
`fresh`) and nothing else; `SomeGarbage` has bytes with which it happens, so that
without it the run is violated.

### Bridge

`Bridge` takes the wrapper whole, by `INSTANCE PahoWrapper`, and puts `main` in
front of it and the broker behind. `place` is main outside of the wrapper:
`SayOffline` (the constructor is followed by `markAvailable(false)`), `Hello` (the
connect to flicd, the getInfo, the buttons), `Top` (`isUp`, the reconnect, the
call of looper), then looper with what it hands to the wrapper: Online for an
answer to getInfo (`ReadInfo`), a message for an event of a button (`ReadPress`; which
one makes no difference to what is retained as availability), until `EpochEnds` asks for information again. `Crash` ends the process at any point,
callbacks included, and starts it again.

The broker is external: it receives the messages of a session in order
(`Deliver`), drops a client it has not heard of (`Drop`), and publishes the will
of a session that ended without a farewell, at the latest when the same client id
connects again (`Connected`), which is what MQTT requires of it. `Lost` leaves it
open whether the broker has noticed. `retained` is the LWT topic.

### FlicCommands and CommandLine

`Commands` is the table that flicd_client.cpp:551-658 spells out command by
command: the number of words the assertion wants, the opcode, and the fields of
the packet with the word each is read from. A word that is no number leaves its
variable uninitialised (`NumberOf`: any number); one that is no address leaves
the bytes that happen to be there.

`GetInfo`, `Connect` and `NoButton` are main's calls, `Linein` the terminal's.
`Letter`, `Space` and `EndOfLine` are the tokeniser, character by character, with
the store before the assertion that should bound it; a store outside of an array
ends the model (`overrun`). `Send` takes any part of the packet. A character of
the model (`Characters`) is a letter, a space (`Blank`) or a whole name, address or
number.

`WordsOf`, `Proper` and `Asks` say what a line asks for without a tokeniser, and
the properties compare the bytes on the wire with it.

### EpochClock

`now` is the tick, modulo `Wrap`; `deadline` is `availabilityTick`; `begin` and
`age` are kept to state properties. `Check` is the comparison at the top of
looper's loop; `Read` takes up to a minute.

### LogRotation, ConfigFile, ReadConfig

`LogRotation` is the loop of Config.cpp:105-110, one action for each `remove` and
`rename`, then the `fopen` (a rename fails if the name is taken, as on Windows); `log[n]` is the run that wrote the file of that
number. `Stop` may come anywhere. `ConfigFile` reads the file into the buffer,
character by character, overwrites what is behind a hash mark, and looks each key
up. `NoFile` is the exit when the file cannot be opened, `TooLong` that when it does
not fit; `opened` tells the two apart. A key is looked up by `strstr`: the first place in the buffer, wherever it is in a line. The keys
that are dereferenced without a test are `Mandatory`; without one the program
crashes on a null pointer. A character is a letter, a line break, a hash mark, or
a whole key, number or word.

`ReadConfig` composes the two: the step that finds a file name for `LOGFILE`
begins the rotation, the next key waits for its end, and the program may be
stopped anywhere and started with another file. All files name the same log.

## Runs

| Run | Question | Result |
|---|---|---|
| `looper` | 2 buttons, every interleaving with epochs and lost channels: counter, flags and assertion; does looper keep `ButtonTopics` but for the hold of a gesture an epoch ended in; do epochs end unless a hold is counted? | holds |
| `looper_topics` | 1 button: does looper keep `ButtonTopics` whenever epochs end? | violated: a click-then-hold announced on hold |
| `looper_stuck` | 1 button: does looper stay late only for a button that is held and connected? | violated: channel removed during a hold |
| `paho` | flag and counter under every interleaving; is a loss noticed and repaired? | holds |
| `bridge` | is the bridge Online again for good once the network and the buttons are calm, and does nothing take that back in a session? | holds |
| `reader` | does the reader implement `FlicFeed`, however the bytes are split and on however many opcodes a step is reported and whatever `malloc` left, but for a socket closed before its first byte; does the main thread's read return while flicd is there? | holds |
| `reader_length` | is the length decoded as the protocol says? | violated: a low byte of 128 or more |
| `reader_eof` | does the main thread get its periodic pings while the reader runs? | violated: flicd closed the connection |
| `reader_fatal` | does the program notice that the reader has ended? | violated: it waits in its read |
| `config` | are the settings the ones written, start after start; does a start end early for one of its three reasons only; do the logs stay in order, and is only the oldest lost, wherever starts are cut short? | holds |
| `command` | does flicd receive what the lines ask for, whole, in order, once; does only a wrong line end the program? | holds |
| `clock` | is an epoch an hour away from the wrap, and is the pipe read again and again? | holds |

Bounds. The locals of different buttons meet only in `holdCt`, so that two
buttons show every way they can disturb each other; the theorems are for any
number. In `paho` `HighWater` is 2 (16 in the code), `MaxOutstanding` 5 and
`MaxUnsettled` 4: the mark is crossed, and messages of a connection can wait in
each of the three places (unsettled, acknowledged, failed) at once. In `bridge`
they are 1, 3 and 3, with one crash: three messages may be unsettled, so that an
acknowledgement finds the mark of 1 crossed on a healthy connection and takes it
down, and an Online may be behind an Offline and a state message at once; the crash
may fall into every state of the first life, and the second meets every session,
will and message it may leave.

In the reader's runs `Half` is 16 and the pipe holds 2 packets or 1 (32 in the
code), so that it is full while another packet is decoded. `MaxStream` is 10
bytes in `reader`: two whole packets and their headers, of lengths 1, 2 and
3, told and untold, so that a packet is cut at every byte and the next one
follows a complete, a partial and an untold one; the end of a press and a hold
fill it with the two opcodes each is reported on. Its eight reports are all kinds but
the bare release (the beginning of that of a click) and the answer to connect (a
packet of the shape of a status). `SomeGarbage` has the lengths the decoding tells
apart (nothing, too long to come, negative) in front of opcodes that are told of and
opcodes that are not. `MaxStream` is 5 (one packet) in `reader_eof` and
`reader_fatal` and 18 in `reader_length`: one packet of 16 bytes.

`config` has every file of up to three lines out of eleven (keys with and without
comments, commented out, inside a word, twice, no line end at the end), 5 of the
settings, a buffer of 10 characters (files end below, at and above it), three
files of logs (`Last` 2; 9 in the code) and 5 starts that rotate, so that every
file is taken, the oldest log is lost twice, and the gap one start leaves meets the next. `command` has
three buttons with and without a setting, every command well typed followed by
every well typed or wrong line; words of 4 characters (62), copied words of 2 (31),
lines of 10 (128): each limit is met and exceeded. `clock` has a tick of 48, an hour of
8, reads of up to 2 and any tick to start at, so that deadlines fall on every
distance from the wrap.

Deadlock is checked in the runs of `ButtonLooper`, `PahoWrapper`, `Bridge` and
`EpochClock`. It is not in those of `FlicReader`, where the system may stop (the
reader has ended, the link is down and the main thread waits; `reader_fatal` asks
whether it should), nor in `config` and `command`, where the program ends and
the starts, lines and epochs are bounded.

Fairness. `looper`: the main thread goes on (weakly fair), because its blocking
read returns at least once a minute while the reader lives (the socket timeout
makes a ping); that the reader lives is an assumption of `EpochsEnd`, and that
the read then returns is `ReadReturns` of `reader`.
`PahoWrapper`: the main thread finishes what it has begun (WF), and comes back to
the top of an epoch (SF, it may be in `send` in between); callbacks run (WF); of
the connects tried again and again one succeeds and its callback comes before
the next epoch has destroyed the client (SF: an assumption on the broker and the
library). `FlicReader`: both threads run (WF), and a socket that is silent again
and again is silent for a minute at a time (SF of `HeaderTimeout`); `ReadReturns`
supposes that the link stays open and the reader has not ended. `ComesBackUp`
supposes that connections do not go on being lost. `EpochClock`: the thread runs
(WF), and time passes in its reads and between epochs (SF): a clock that stood
still would show nothing.

`Bridge`: main's steps (WF; SF for those of looper, which `send` interrupts: the
answer to getInfo is read and epochs end, by `EpochsEnd` and `ReadReturns`), the
wrapper and the library as in `PahoWrapper`, and a broker that receives what it is
sent, acknowledges it, and whose dropped client learns of it. `OnlineAgain`
supposes that from some point on there is no more trouble (`Calm`): no loss, drop, failed
connect, failed message or crash, and none of three ways in which the program
undoes a connection itself: a burst (`Burst`: looper sends while `HighWater`
messages are unsettled, and `pahoOnSend` may take the connection for a dead one),
a refusal noted after `onConnect` has set the flag, and `onConnect` between the
reading of `isUp` and the destruction. Each costs an epoch when it
happens, and `OnlineAgain` says that the bridge comes back from all of them.

## Proofs

`ButtonLooperProofs`, for any finite set of buttons (`ButtonsAssumption`):

- `LooperInvariant`. `HoldsCounted` and `NoAssertFails` are not inductive: that a
  hold is not counted twice rests on the hold flag being set exactly while the
  gesture is in a hold (`HoldsRemembered`), that one survives a fresh call of
  looper only because looper returns with no hold counted (`ReturnsUnheld`) and
  the count is exact, so that a zero count means no flag is set. `GestureShape`
  ties the press counter to the gesture. The count is a cardinality; three lemmas
  say what setting and clearing one flag does to it.
- `CountIsRight`, `HoldsAreRemembered`, `AssertionHolds` and the types follow.
- `LooperKeepsTopics`: `TopicsKept`; each branch is a step of `ButtonTopics`, or the
  announcement of a hold whose click a fresh call has forgotten; everything else is
  a notice or a stutter, and a press is lost in `NewEpoch` only.

`PahoWrapperProofs`, for every message set, high-water mark and bound:

- `PahoInvariant`. `UpHasNoLeak` is not inductive: `onConnect` sets the flag one
  step after it resets the counter, so the invariant must say the same of that
  state whatever the main thread does in between (`ResetHasNoLeak`); a new client
  starts with nothing of the old (`FreshClient`) and the call of `onConnect` is
  not overtaken (`NewsInOrder`). The counter may be below zero, since `onConnect`
  resets it while messages wait; by how much, says `CounterHasFloor`, and `TypeOK`
  follows from that.
- `FlagIsRight`, `CounterHasNoLeak` and the types follow.

`ReadConfigProofs`, first about `LogRotation`, for any number of logs and starts:

- `RotationInvariant`. `NewestFirst` is not inductive: a rename keeps the order
  only if the number above is free, which the loop has seen to (`RoomAbove`), and
  the log that is opened is the newest only if no file has the number of this run
  yet (`NotYetOpen`). Both hold at every point at which a start may be cut short.
- `LogsInOrder` follows; `RotationKeepsNewer` is the action property: only the
  first `remove` of a start takes a log away, and that one is the oldest.

The same module, for any keys, files, buffer and number of logs
(`ReadConfigAssumption`: no key is a line break, the buffer has a positive size):

- `SettingsInvariant`. That the settings are the ones written speaks of the end
  only. `SettingsInv` says of each loop how far it has come: the buffer is the part
  of the file read (`ReadSoFar`); before `at` it is what `Blanked` leaves of the
  file, behind it the file, and `at` is not inside a comment (`HashedSoFar`: else a
  second hash mark would be missed); the keys looked up have their values, the
  others their defaults (`KeysSoFar`). Then `SettingsAreWritten`: the search of the
  buffer finds the place the format names, and the line ends where the file's does.
- `SettingsTyped` follows, and `SettingsEnd`: the three reasons of an early end.
- `ReadConfigRotates`: readConfig implements `LogRotation` (each of its steps rotates
  or leaves the logs alone), so that the theorems above hold of it with any
  settings (`ReadConfigKeepsLogs`).

`FlicReaderProofs`, for any `Half`, pipe, bound on the stream, payloads and reports:

- `ReaderTypes`: the types, the room in the pipe, the buffer's index included.
- `ReaderInvariant`. The refinement is not provable step by step from the types:
  what the reader takes for a header must be one. `FeedInv` says that between packets
  the stream begins with one (`OnlyPackets`), and that in one the buffer has the
  beginning of a reported payload whose rest is in front of the stream (`Receiving`),
  or that flicd is gone and the buffer, unless it is still that of `malloc`, tells of
  nothing (`AfterEof`). That a received payload is no header that would be told of
  once more at the end of the stream (`Harmless`) is a fact about the protocol's
  bytes: it is proved from `FeedAssumption`.
- `FeedIsKept`: the refinement of `FlicFeed` but for `FalseEvent`, for whatever is in
  the buffer at first. So the main thread reads the events in order, none twice, none
  skipped, none that was not sent. Bytes move from stream to buffer and packets
  from buffer to pipe; each such step leaves `Due` as it is.

Both suppose `FeedAssumption`: a payload is shorter than `Half` (else
`reader_length`: every event looper is told of has at most 13 bytes, so only
printed ones, such as a getInfo with many buttons, are longer); the number of a
button fits a signed char, as the numbers the program gives out do, and so does the
first byte of the answer to getInfo; and the reports called "OTHER" are of opcodes
that are none of those told of. It says nothing of what the reader makes of them.
Every run but `reader_length` satisfies it.

`SequenceLemmas` has what these need of data: induction over the naturals in the
form of sets (by least counterexample), recursive functions on sequences whose
argument gets shorter (`RecursionExists`, `DescendsInduction`), and the laws of
concatenation, `SubSeq` and `FlattenSeq`. The induction theorems of the
library take an operator, which the provers cannot instantiate; a set they can.

`BridgeProofs`, for every bound, the number of crashes included:

- `BridgeInvariant`. `OnlineStays` is not inductive. A message that is delivered
  may be an Offline unless no Offline stands behind an Online on the wire
  (`OfflineFirst`), and that rests on where main is: until the first epoch of a
  process it hands over no Online, from then on no Offline (`StartUp`). A will
  may be published unless there is none of an older session while one is open
  (`OneSession`): the fixed client id.
- `OnlineIsKept` follows.
- `WrapperInBridge`: the invariant of `PahoWrapper` holds in the composition, its library
  now a broker with opinions and the process one that crashes. Every step of
  `Bridge` is a step of the wrapper, a fresh start of it, or leaves it alone.
- `BridgeTypes` rests on it: the broker has received no more than was sent.

`CommandLineProofs`, for any settings, typed lines, epochs and limits of the arrays
(`CommandLineAssumption`: main knows at most eight buttons, none with two settings):

- `CommandTypes`: where the model goes on, words and lines fit their arrays.
- `CommandInvariant`. `AskedInOrder` speaks of the bytes sent and of the lines given,
  and nothing in it says what is between them. `CommandInv` does: the words found and
  those in the rest of the line are the line's (`Splitting`); the bytes sent and the
  unsent ones follow each other (`Following`); and what the lines left ask for is
  what of `Demands` has not been asked yet (`Answering`). The step from a line to
  its packet then adds one to both sides, and every other step adds nothing. It
  rests on what the operators of `FlicCommands` compute: `WordsOf` of a word, a
  space and the rest is the word and the words of the rest (`WordsFirst`), and so for the lines of a text
  (`LinesFirst`); the packets that bytes begin and end (`MarksOfBytes`).
- `AskedAsGiven`, `PacketsAreWhole`, `AllIsAsked` and `EndsAreAskedFor` follow. The last
  says that the store behind the array of words is reached only by lines of more than
  four words, and every assertion and overrun by lines and settings that ask for it.

`EpochClockProofs`, for a tick of any width and any lengths:

- `ClockInvariant`: in an epoch that does not reach the wrap, tick and deadline are
  sums without a modulus (`AsWithoutWrap`), and before a read the hour is not over.
- `EpochIsAnHour`: so the comparison of looper decides rightly.

Only model-checked: the liveness properties (`EpochsEnd`, `ComesBackUp`,
`LossIsNoticed`, `ReadReturns`, `OnlineAgain`, `ReadsGoOn`), which are beyond the
prover.

## What the code does that its documents do not say

- `looper_stuck`: the comment at Flic2MQTT.cpp:100 names active holds; a hold
  whose button has lost its channel stays counted for ever.
- `reader_length`: flicd_client_protocol_packets.h:16 prepends a 16-bit length;
  flicd_client.cpp:332 assembles it from signed chars, so a low byte of 128 or
  more gives a negative length and the payload is taken for headers.
- `reader_eof`: flicd_client.h:26 calls FLIC_PING periodic; when flicd closes the
  connection `recv` returns 0, which no test catches, and the reader goes round
  without a ping and without an end.
- `reader_fatal`: the comment at Flic2MQTT.cpp:268 makes the loop last while flicd
  returns a normal condition; the fatal ping is dropped by `looper` like any ping,
  and the main thread waits in its next read for ever, still announced Online.
- `looper_topics`: README.md:41 says that clickhold "triggers when click then hold is
  detected"; Flic2MQTT.cpp:96 forgets the click when the hour ends between the two
  presses, and the hold is announced on hold (its end on clickholdup).

Met while modelling, and not the subject of a run:

- Flic2MQTT.cpp:286 calls the deadline one hour; in the last hour before the tick
  wraps the sum wraps first, and main goes round without reading the pipe, a getInfo to
  flicd each time, until the tick itself has wrapped. `HourAwayFromWrap` says that only
  these epochs are at fault, `ReadsGoOn` that the pipe is read again.
- Flic2MQTT.cpp:272 reconnects "if Paho connection is down"; isUp is read at 274, once,
  and a connection that comes up before PahoWrapper.cpp:170 is destroyed.
- The buffer of flicd_client.cpp:292 is not initialised, and a socket closed before its
  first byte may make a press of what is in it (`FalseEvent`).
- A fifth word of a line is stored behind the array at flicd_client.cpp:532, before
  the assertion at 540 looks; `StopsForAReason` says that only such lines do.
- A message refused by the library is dropped (PahoWrapper.cpp:150-158): a state
  topic shows what the button was until its next press.
- The tick of the Linux build (Flic2MQTT.cpp:22) counts seconds plus microseconds
  of the second, so that an epoch of it lasts weeks. README.md:16 supports Windows only.

## What is left

Every safety property of the passing runs is proved. A larger composition would put
the reader and looper of `FlicReader` and `ButtonLooper` into `Bridge`, in place of
the messages they make.

Taken for granted: `remove` and the `fopen` of the log succeed; a send of getInfo
does not block, however many main makes (`ReadsGoOn`); a refusal that races with
`onConnect` costs an epoch and is only named in `Trouble`. `strstr` finds a key
inside a word as well: `Written` reads the format that way too, so that a setting
whose value happens to contain a key is not told from one that was meant.

Not modelled: printing and string tables; the argument checks of `main` and its
early return when flicd cannot be reached; `myprintf` and the log's contents; the
connect to flicd (`flicd_client_init` but for its socket timeout); topic names;
structures of events that are only printed; the Linux tick; the build.
