------------------------- MODULE CommandLineProofs -------------------------
(***************************************************************************)
(* Theorems about CommandLine: flicd is asked for what the lines say.      *)
(***************************************************************************)
EXTENDS CommandLine, SequenceLemmas

Names == DOMAIN Commands
Text == Seq(Characters)

-----------------------------------------------------------------------------
(* The table of commands. *)

\* The fields there are.
Fields == {FirstId, NormalLatency, LongTime} \union
          UNION {{Id(n), Address(n), Latency(n), Time(n)} : n \in 1..4}

LEMMA FieldIs == ASSUME NEW f \in Fields PROVE f.width \in Nat
  BY DEF Fields, FirstId, NormalLatency, LongTime, Id, Address, Latency, Time

\* A field of a packet has a width, and its word is one of the line's.
LEMMA TableIs ==
  ASSUME NEW c \in Names
  PROVE  /\ Commands[c].words \in 1..4 /\ c # "quit"
         /\ Commands[c].fields \in Seq(Fields)
         /\ \A f \in Copied(c) : f.word \in 1..Commands[c].words
  <1>1. c \in {"getInfo", "startScan", "stopScan", "connect", "disconnect",
               "forceDisconnect", "changeModeParameters", "getButtonInfo",
               "startScanWizard", "cancelScanWizard", "delete",
               "createBatteryStatusListener", "removeBatteryStatusListener"}
    BY DEF Names, Commands
  <1>2. Commands[c].words \in 1..4 /\ c # "quit"
    BY <1>1 DEF Commands, Command
  <1>3. Commands[c].fields \in
          {<<>>, <<FirstId>>, <<Id(3), Address(2), NormalLatency, LongTime>>, <<Id(2)>>,
           <<Address(2)>>, <<Id(2), Latency(3), Time(4)>>, <<Id(3), Address(2)>>}
    BY <1>1 DEF Commands, Command
  <1>4. Commands[c].fields \in Seq(Fields)
    <2>1. /\ FirstId \in Fields /\ NormalLatency \in Fields /\ LongTime \in Fields
          /\ \A n \in 1..4 : /\ Id(n) \in Fields /\ Address(n) \in Fields
                            /\ Latency(n) \in Fields /\ Time(n) \in Fields
      BY DEF Fields
    <2>2. /\ <<>> \in Seq(Fields) /\ <<FirstId>> \in Seq(Fields) /\ <<Id(2)>> \in Seq(Fields)
          /\ <<Address(2)>> \in Seq(Fields) /\ <<Id(3), Address(2)>> \in Seq(Fields)
      BY <2>1
    <2>3. <<Id(3), Address(2), NormalLatency, LongTime>> \in Seq(Fields)
      BY <2>1
    <2>4. <<Id(2), Latency(3), Time(4)>> \in Seq(Fields)
      BY <2>1
    <2> QED
      BY <1>3, <2>2, <2>3, <2>4
  <1>5. ASSUME NEW f \in Copied(c) PROVE f.word \in 1..Commands[c].words
    <2>1. f \in ToSet(Commands[c].fields) /\ f.kind \in {"address", "latency"}
      BY <1>5 DEF Copied
    <2>2. \/ Commands[c].fields \in {<<>>, <<FirstId>>, <<Id(2)>>}
          \/ Commands[c].fields = <<Address(2)>> /\ Commands[c].words = 2
          \/ /\ Commands[c].fields = <<Id(3), Address(2), NormalLatency, LongTime>>
             /\ Commands[c].words = 3
          \/ Commands[c].fields = <<Id(2), Latency(3), Time(4)>> /\ Commands[c].words = 4
          \/ Commands[c].fields = <<Id(3), Address(2)>> /\ Commands[c].words = 3
      BY <1>1 DEF Commands, Command
    <2>3. /\ FirstId.kind = "0" /\ NormalLatency.kind = "NormalLatency" /\ LongTime.kind = "511"
          /\ \A n : Id(n).kind = "number" /\ Time(n).kind = "number"
          /\ Address(2).word = 2 /\ Latency(3).word = 3
      BY DEF FirstId, Id, Address, NormalLatency, LongTime, Latency, Time
    <2>4. ToSet(<<>>) = {} /\ \A a : ToSet(<<a>>) = {a}
      BY DEF ToSet
    <2>5. ToSet(<<Id(3), Address(2), NormalLatency, LongTime>>)
            = {Id(3), Address(2), NormalLatency, LongTime}
      BY DEF ToSet
    <2>6. ToSet(<<Id(2), Latency(3), Time(4)>>) = {Id(2), Latency(3), Time(4)}
      BY DEF ToSet
    <2>7. ToSet(<<Id(3), Address(2)>>) = {Id(3), Address(2)}
      BY DEF ToSet
    <2>8. \/ f \in {FirstId, NormalLatency, LongTime, Id(2), Id(3), Time(4)}
          \/ f = Address(2) /\ Commands[c].words >= 2
          \/ f = Latency(3) /\ Commands[c].words >= 3
      <3>1. CASE Commands[c].fields \in {<<>>, <<FirstId>>, <<Id(2)>>}
        BY <2>1, <2>4, <3>1
      <3>2. CASE Commands[c].fields = <<Address(2)>> /\ Commands[c].words = 2
        BY <2>1, <2>4, <3>2
      <3>3. CASE /\ Commands[c].fields = <<Id(3), Address(2), NormalLatency, LongTime>>
                 /\ Commands[c].words = 3
        BY <2>1, <2>5, <3>3
      <3>4. CASE Commands[c].fields = <<Id(2), Latency(3), Time(4)>> /\ Commands[c].words = 4
        BY <2>1, <2>6, <3>4
      <3>5. CASE Commands[c].fields = <<Id(3), Address(2)>> /\ Commands[c].words = 3
        BY <2>1, <2>7, <3>5
      <3> QED
        BY <2>2, <3>1, <3>2, <3>3, <3>4, <3>5
    <2>9. f \notin {FirstId, NormalLatency, LongTime, Id(2), Id(3), Time(4)}
      BY <2>1, <2>3
    <2> QED
      BY <1>2, <2>3, <2>8, <2>9
  <1> QED
    BY <1>2, <1>4, <1>5

\* A name is that of one command.
LEMMA NamedIs ==
  /\ \A c \in Names : Named(<<c>>) = {c}
  /\ \A name : \A c \in Named(name) : c \in Names /\ name = <<c>>
  BY DEF Named, Names

\* A packet has a size: its opcode and its fields.
LEMMA SizeIs == ASSUME NEW p, p.command \in Names PROVE Size(p) \in Nat \ {0}
  <1> DEFINE fields == Commands[p.command].fields
             D == 0..Len(fields)
             Is(h) == h = [n \in D |-> IF n = 0 THEN 1 ELSE h[n - 1] + fields[n].width]
             size == CHOOSE h : Is(h)
  <1>1. fields \in Seq(Fields)
    BY TableIs
  <1>2. Len(fields) \in Nat /\ \A n \in 1..Len(fields) : fields[n].width \in Nat
    <2> HIDE DEF fields
    <2>1. Len(fields) \in Nat /\ \A n \in 1..Len(fields) : fields[n] \in Fields
      BY <1>1
    <2> QED
      BY <2>1, FieldIs
  <1>3. Size(p) = size[Len(fields)]
    BY DEF Size
  <1> HIDE DEF fields
  <1>4. \E h \in [D -> Nat \ {0}] : Is(h)
    <2> DEFINE stop == {0}
               next == [n \in D |-> IF n = 0 THEN 0 ELSE n - 1]
               base == [n \in D |-> 1]
               g == [q \in D \X (Nat \ {0}) |-> q[2] + IF q[1] = 0 THEN 0 ELSE fields[q[1]].width]
               same == [n \in D |-> n]
    <2>1. Descends(D, same, stop, next)
      BY <1>2 DEF Descends
    <2>2. base \in [D -> Nat \ {0}] /\ g \in [D \X (Nat \ {0}) -> Nat \ {0}]
      BY <1>2
    <2>3. PICK h \in [D -> Nat \ {0}] : Recursive(h, D, stop, next, base, g)
      <3> HIDE DEF D, stop, next, base, g, same
      <3> QED
        BY <2>1, <2>2, RecursionExists
    <2>4. ASSUME NEW n \in D
          PROVE  h[n] = IF n = 0 THEN 1 ELSE h[n - 1] + fields[n].width
      <3>1. h[n] = IF n \in stop THEN base[n] ELSE g[<<n, h[next[n]]>>]
        BY <2>3 DEF Recursive
      <3>2. n # 0 => next[n] = n - 1 /\ n - 1 \in D
        BY <1>2
      <3>3. n # 0 => g[<<n, h[n - 1]>>] = h[n - 1] + fields[n].width
        BY <3>2
      <3> QED
        BY <3>1, <3>2, <3>3
    <2> QED
      BY <2>4
  <1>5. Is(size)
    BY <1>4
  <1> HIDE DEF size
  <1> DEFINE S == {n \in Nat : n \in D => size[n] \in Nat \ {0}}
  <1>6. S = Nat
    <2>1. size[0] = 1
      BY <1>2, <1>5
    <2>2. ASSUME NEW n \in S PROVE n + 1 \in S
      <3>1. n + 1 \in D => n \in D /\ size[n + 1] = size[n] + fields[n + 1].width
        BY <1>2, <1>5
      <3> QED
        BY <1>2, <3>1
    <2>3. 0 \in S /\ \A n \in S : n + 1 \in S
      BY <2>1, <2>2
    <2> HIDE DEF S
    <2> QED
      BY <2>3, SetInduction DEF S
  <1> QED
    BY <1>2, <1>3, <1>6

\* The bytes of a packet: their numbers go from 1 to its size and two.
LEMMA FrameIs ==
  ASSUME NEW p, p.command \in Names
  PROVE  /\ Size(p) \in Nat \ {0}
         /\ Frame(p) # <<>> /\ Len(Frame(p)) = 2 + Size(p)
         /\ DOMAIN Frame(p) = 1..(2 + Size(p))
         /\ \A n \in DOMAIN Frame(p) : Frame(p)[n] = [of |-> p, byte |-> n]
  <1>1. Size(p) \in Nat \ {0}
    BY SizeIs
  <1>2. Frame(p) \in Seq({[of |-> p, byte |-> n] : n \in 1..(2 + Size(p))})
    BY <1>1 DEF Frame
  <1> QED
    BY <1>1, <1>2 DEF Frame

-----------------------------------------------------------------------------
(* Characters. *)

LEMMA CharactersAre ==
  /\ "getInfo" \in Characters /\ "connect" \in Characters
  /\ Blank \in Characters /\ "\n" \in Characters
  /\ \A n \in 1..8 : Digit(n) \in Characters
  <1>1. {"getInfo", "connect", Blank, "\n", "0", "1", "2", "3", "4", "5", "6", "7"}
          \subseteq Characters
    BY CommandLineAssumption DEF CommandLineAssumption
  <1>2. /\ "getInfo" \in Characters /\ "connect" \in Characters
        /\ Blank \in Characters /\ "\n" \in Characters
    BY <1>1
  <1>3. \A n \in 1..8 : Digit(n) \in {"0", "1", "2", "3", "4", "5", "6", "7"}
    <2>1. \A n \in 1..8 : \/ n = 1 \/ n = 2 \/ n = 3 \/ n = 4
                          \/ n = 5 \/ n = 6 \/ n = 7 \/ n = 8
      OBVIOUS
    <2> QED
      BY <2>1 DEF Digit
  <1> QED
    BY <1>1, <1>2, <1>3

\* A space is none of the others that matter.
LEMMA BlankIs == Blank \notin {"\n", "\t", "\r", "getInfo", "connect", "quit"}
  BY DEF Blank

LEMMA ShortSeqs ==
  ASSUME NEW X, NEW a \in X, NEW b \in X
  PROVE  <<a>> \in Seq(X) /\ <<a, b>> \in Seq(X) /\ <<>> \in Seq(X)
  OBVIOUS

\* A sequence has a length, is its own beginning, and is as it was with nothing at it.
LEMMA SeqIs ==
  ASSUME NEW X, NEW s \in Seq(X)
  PROVE  /\ Len(s) \in Nat /\ (s # <<>> <=> Len(s) > 0)
         /\ s \o <<>> = s /\ <<>> \o s = s
         /\ SubSeq(s, 1, Len(s)) = s
  <1>1. Len(s) \in Nat /\ (s # <<>> <=> Len(s) > 0)
    OBVIOUS
  <1>2. s \o <<>> = s /\ <<>> \o s = s
    BY ConcatEmptySeq
  <1> DEFINE x == SubSeq(s, 1, Len(s))
  <1>3. x \in Seq(X) /\ Len(x) = Len(s) /\ \A n \in 1..Len(x) : x[n] = s[n]
    BY <1>1, SuffixIs
  <1> HIDE DEF x
  <1>4. x = s
    BY <1>3, SeqEqual
  <1> QED
    BY <1>1, <1>2, <1>4 DEF x

-----------------------------------------------------------------------------
(* The words of a line, and the lines of a text. *)

\* What stands before the first c has no c, and c is behind it.
LEMMA BeforeIs ==
  ASSUME NEW X, NEW s \in Seq(X), NEW c
  PROVE  /\ Before(s, c) \in 0..Len(s)
         /\ \A m \in 1..Before(s, c) : s[m] # c
         /\ Before(s, c) < Len(s) => s[Before(s, c) + 1] = c
  <1> DEFINE Is(n) == (\A m \in 1..n : s[m] # c) /\ (n < Len(s) => s[n + 1] = c)
             Clear(n) == \A m \in 1..n : s[m] # c
             S == {n \in Nat : n <= Len(s) => Clear(n) \/ \E k \in 0..Len(s) : Is(k)}
  <1>1. Len(s) \in Nat
    OBVIOUS
  <1>2. 0 \in S
    OBVIOUS
  <1>3. ASSUME NEW n \in S PROVE n + 1 \in S
    <2>1. CASE n + 1 <= Len(s) /\ Clear(n)
      <3>1. n \in 0..Len(s) /\ n < Len(s)
        BY <1>1, <2>1
      <3>2. s[n + 1] = c => Is(n)
        BY <2>1
      <3>3. s[n + 1] # c => Clear(n + 1)
        BY <2>1
      <3> QED
        BY <3>1, <3>2, <3>3
    <2>2. CASE ~(n + 1 <= Len(s) /\ Clear(n))
      BY <1>1, <2>2
    <2> QED
      BY <2>1, <2>2
  <1>4. S = Nat
    <2> HIDE DEF S
    <2> QED
      BY <1>2, <1>3, SetInduction DEF S
  <1>5. \E k \in 0..Len(s) : Is(k)
    <2>1. Clear(Len(s)) \/ \E k \in 0..Len(s) : Is(k)
      BY <1>1, <1>4
    <2>2. Clear(Len(s)) => Is(Len(s))
      BY <1>1
    <2> QED
      BY <1>1, <2>1, <2>2
  <1> QED
    BY <1>5 DEF Before

\* There is only one such place.
LEMMA BeforeOne ==
  ASSUME NEW X, NEW s \in Seq(X), NEW c, NEW n \in 0..Len(s),
         \A m \in 1..n : s[m] # c, n < Len(s) => s[n + 1] = c
  PROVE  Before(s, c) = n
  <1>1. Len(s) \in Nat
    OBVIOUS
  <1> QED
    BY <1>1, BeforeIs

\* A text is what stands before the first c, or that, c, and the rest.
LEMMA BeforeAll ==
  ASSUME NEW X, NEW a \in Seq(X), NEW c, \A n \in 1..Len(a) : a[n] # c
  PROVE  Before(a, c) = Len(a)
  <1>1. Len(a) \in Nat
    OBVIOUS
  <1> QED
    BY <1>1, BeforeOne

\* t is a, then c, then r.
Parts(t, a, c, r) ==
  /\ Len(t) = Len(a) + 1 + Len(r) /\ t[Len(a) + 1] = c
  /\ \A n \in 1..Len(a) : t[n] = a[n]
  /\ \A n \in 1..Len(r) : t[Len(a) + 1 + n] = r[n]

LEMMA PartsOf ==
  ASSUME NEW X, NEW a \in Seq(X), NEW c \in X, NEW r \in Seq(X)
  PROVE  a \o <<c>> \o r \in Seq(X) /\ Parts(a \o <<c>> \o r, a, c, r)
  <1> DEFINE u == a \o <<c>>
  <1>1. /\ u \in Seq(X) /\ Len(a) \in Nat /\ Len(r) \in Nat
        /\ Len(u) = Len(a) + 1 /\ u[Len(a) + 1] = c /\ \A n \in 1..Len(a) : u[n] = a[n]
    OBVIOUS
  <1> HIDE DEF u
  <1>2. /\ u \o r \in Seq(X) /\ Len(u \o r) = Len(u) + Len(r)
        /\ \A n \in 1..Len(u) : (u \o r)[n] = u[n]
        /\ \A n \in 1..Len(r) : (u \o r)[Len(u) + n] = r[n]
    <2>1. u \in Seq(X)
      BY <1>1
    <2> QED
      BY <2>1, ConcatIs
  <1>3. Parts(u \o r, a, c, r)
    BY <1>1, <1>2 DEF Parts
  <1> QED
    BY <1>2, <1>3 DEF u

LEMMA BeforeRest ==
  ASSUME NEW X, NEW a \in Seq(X), NEW c \in X, NEW r \in Seq(X), NEW t \in Seq(X),
         Parts(t, a, c, r), \A n \in 1..Len(a) : a[n] # c
  PROVE  /\ t # <<>>
         /\ Before(t, c) = Len(a) /\ Len(a) < Len(t)
         /\ SubSeq(t, 1, Len(a)) = a
         /\ SubSeq(t, Len(a) + 2, Len(t)) = r
  <1> DEFINE la == Len(a)
             lb == Len(r)
             lt == Len(t)
  <1>1. la \in Nat /\ lb \in Nat
    OBVIOUS
  <1>4. t \in Seq(X)
    OBVIOUS
  <1>5. lt = la + 1 + lb
    BY DEF Parts
  <1>6. t[la + 1] = c
    BY DEF Parts
  <1>7. \A n \in 1..la : t[n] = a[n]
    BY DEF Parts
  <1>8. \A n \in 1..lb : t[la + 1 + n] = r[n]
    BY DEF Parts
  <1> HIDE DEF la, lb, lt
  <1>9. Before(t, c) = la
    <2>1. la \in 0..Len(t)
      BY <1>1, <1>5 DEF lt
    <2>2. \A n \in 1..la : t[n] # c
      BY <1>7 DEF la
    <2> QED
      BY <2>1, <2>2, <1>4, <1>6, BeforeOne
  <1>10. SubSeq(t, 1, la) = a
    <2> DEFINE x == SubSeq(t, 1, la)
    <2>1. x \in Seq(X) /\ Len(x) = la /\ \A n \in 1..la : x[n] = t[n]
      BY <1>1, <1>4, <1>5 DEF lt
    <2> HIDE DEF x
    <2>2. Len(x) = Len(a) /\ \A n \in 1..Len(x) : x[n] = a[n]
      BY <1>7, <2>1 DEF la
    <2> QED
      BY <2>1, <2>2, SeqEqual
  <1>11. SubSeq(t, la + 2, lt) = r
    <2> DEFINE x == SubSeq(t, la + 2, lt)
               k == la + 2
    <2>1. k \in 1..(lt + 1) /\ lt + 1 - k = lb
      BY <1>1, <1>5
    <2> HIDE DEF k
    <2>2. /\ SubSeq(t, k, lt) \in Seq(X) /\ Len(SubSeq(t, k, lt)) = lt + 1 - k
          /\ \A n \in 1..Len(SubSeq(t, k, lt)) : SubSeq(t, k, lt)[n] = t[n + k - 1]
      BY <1>4, <2>1, SuffixIs DEF lt
    <2>3. x \in Seq(X) /\ Len(x) = lb /\ \A n \in 1..lb : x[n] = t[n + k - 1]
      BY <2>1, <2>2 DEF k
    <2> HIDE DEF x
    <2>4. \A n \in 1..lb : x[n] = r[n]
      <3> SUFFICES ASSUME NEW n \in 1..lb PROVE x[n] = r[n]
        OBVIOUS
      <3>1. n + k - 1 = la + 1 + n
        BY <1>1 DEF k
      <3> QED
        BY <1>8, <2>3, <3>1
    <2>5. x = r
      <3>1. x \in Seq(X) /\ Len(x) = Len(r) /\ \A n \in 1..Len(x) : x[n] = r[n]
        BY <2>3, <2>4 DEF lb
      <3> QED
        BY <3>1, SeqEqual
    <2> QED
      BY <2>5 DEF x
  <1>12. la < lt /\ t # <<>>
    <2>1. la < lt
      BY <1>1, <1>5
    <2> QED
      BY <1>1, <2>1 DEF lt
  <1> QED
    BY <1>4, <1>9, <1>10, <1>11, <1>12 DEF la, lt

\* What is behind the first c.
AfterFirst(t, c) == SubSeq(t, Before(t, c) + 2, Len(t))

LEMMA AfterFirstIs ==
  ASSUME NEW c, NEW t \in Text
  PROVE  /\ AfterFirst(t, c) \in Text
         /\ t # <<>> => Len(AfterFirst(t, c)) < Len(t)
         /\ Before(t, c) = Len(t) => AfterFirst(t, c) = <<>>
  <1> DEFINE n == Before(t, c)
  <1>1. Len(t) \in Nat /\ n \in 0..Len(t) /\ (t # <<>> => Len(t) > 0)
    BY BeforeIs DEF Text
  <1> HIDE DEF n
  <1>2. CASE n < Len(t)
    <2> DEFINE k == n + 2
    <2>1. k \in 1..(Len(t) + 1) /\ k > 1 /\ k \in Nat
      BY <1>1, <1>2
    <2> HIDE DEF k
    <2>2. SubSeq(t, k, Len(t)) \in Text /\ Len(SubSeq(t, k, Len(t))) = Len(t) + 1 - k
      BY <2>1, SuffixIs DEF Text
    <2>3. Len(t) + 1 - k < Len(t) /\ n # Len(t)
      BY <1>1, <1>2, <2>1
    <2> QED
      BY <2>2, <2>3 DEF AfterFirst, n, k
  <1>3. CASE n = Len(t)
    <2>1. SubSeq(t, Len(t) + 2, Len(t)) = <<>>
      BY <1>1 DEF Text
    <2>2. AfterFirst(t, c) = <<>>
      BY <1>3, <2>1 DEF AfterFirst, n
    <2>3. <<>> \in Text /\ Len(<<>>) = 0
      BY DEF Text
    <2> QED
      BY <1>1, <2>2, <2>3
  <1> QED
    BY <1>1, <1>2, <1>3

LEMMA AfterDescends ==
  ASSUME NEW c, NEW stop \in SUBSET Text, <<>> \in stop
  PROVE  Descends(Text, [t \in Text |-> Len(t)], stop, [t \in Text |-> AfterFirst(t, c)])
  <1>1. \A t \in Text : Len(t) \in Nat
    BY DEF Text
  <1> QED
    BY <1>1, AfterFirstIs DEF Descends

\* WordsOf is what its definition says.
FirstWord(t) == IF Before(t, Blank) = 0 THEN <<>> ELSE <<SubSeq(t, 1, Before(t, Blank))>>

LEMMA FirstWordType == \A t \in Text : FirstWord(t) \in Seq(Text)
  <1> SUFFICES ASSUME NEW t \in Text PROVE FirstWord(t) \in Seq(Text)
    OBVIOUS
  <1> DEFINE n == Before(t, Blank)
  <1>1. n \in 0..Len(t) /\ Len(t) \in Nat
    <2>1. t \in Seq(Characters)
      BY DEF Text
    <2>2. Len(t) \in Nat
      BY <2>1
    <2>3. Before(t, Blank) \in 0..Len(t)
      BY <2>1, BeforeIs
    <2> QED
      BY <2>2, <2>3
  <1> HIDE DEF n
  <1>2. SubSeq(t, 1, n) \in Text
    BY <1>1 DEF Text
  <1>3. <<SubSeq(t, 1, n)>> \in Seq(Text) /\ <<>> \in Seq(Text)
    BY <1>2, ShortSeqs
  <1> QED
    BY <1>3 DEF FirstWord, n

LEMMA WordsOfIs ==
  /\ WordsOf \in [Text -> Seq(Text)]
  /\ WordsOf[<<>>] = <<>>
  /\ \A t \in Text : t # <<>> => WordsOf[t] = FirstWord(t) \o WordsOf[AfterFirst(t, Blank)]
  <1> DEFINE stop == {<<>>}
             next == [t \in Text |-> AfterFirst(t, Blank)]
             base == [t \in Text |-> <<>>]
             g == [p \in Text \X Seq(Text) |-> FirstWord(p[1]) \o p[2]]
             Is(h) == h = [t \in Text |->
                             IF t = <<>> THEN <<>> ELSE FirstWord(t) \o h[AfterFirst(t, Blank)]]
  <1>1. <<>> \in Text /\ <<>> \in Seq(Text)
    BY DEF Text
  <1>2. base \in [Text -> Seq(Text)]
    BY <1>1
  <1>3. g \in [Text \X Seq(Text) -> Seq(Text)]
    BY FirstWordType, ConcatProperties
  <1>4. Descends(Text, [t \in Text |-> Len(t)], stop, next)
    BY <1>1, AfterDescends
  <1>5. \A t \in Text : AfterFirst(t, Blank) \in Text
    BY AfterFirstIs
  <1>6. PICK h \in [Text -> Seq(Text)] : Recursive(h, Text, stop, next, base, g)
    <2> HIDE DEF base, g, next, stop
    <2> QED
      BY <1>2, <1>3, <1>4, RecursionExists
  <1>7. ASSUME NEW t \in Text
        PROVE  h[t] = IF t = <<>> THEN <<>> ELSE FirstWord(t) \o h[AfterFirst(t, Blank)]
    <2>1. h[t] = IF t \in stop THEN base[t] ELSE g[<<t, h[next[t]]>>]
      BY <1>6 DEF Recursive
    <2>2. next[t] = AfterFirst(t, Blank) /\ AfterFirst(t, Blank) \in Text
      BY <1>5
    <2>3. <<t, h[AfterFirst(t, Blank)]>> \in Text \X Seq(Text)
      BY <2>2
    <2> QED
      BY <2>1, <2>2, <2>3
  <1>8. Is(h)
    BY <1>7
  <1>9. Is(WordsOf)
    <2>1. WordsOf = CHOOSE f : Is(f)
      BY DEF WordsOf, AfterFirst, FirstWord, Text
    <2> HIDE DEF Is
    <2> QED
      BY <1>8, <2>1
  <1>10. WordsOf[<<>>] = <<>>
    BY <1>1, <1>9
  <1>11. \A t \in Text : t # <<>> => WordsOf[t] = FirstWord(t) \o WordsOf[AfterFirst(t, Blank)]
    BY <1>9
  <1> DEFINE S == {t \in Text : WordsOf[t] \in Seq(Text)}
  <1>12. ASSUME NEW t \in Text \ stop, AfterFirst(t, Blank) \in S PROVE t \in S
    <2>1. FirstWord(t) \in Seq(Text) /\ WordsOf[AfterFirst(t, Blank)] \in Seq(Text) /\ t # <<>>
      BY <1>12, FirstWordType
    <2>2. FirstWord(t) \o WordsOf[AfterFirst(t, Blank)] \in Seq(Text)
      BY <2>1, ConcatProperties
    <2> QED
      BY <1>11, <2>1, <2>2
  <1>13. Inherited(S, Text, stop, next)
    <2>1. stop \subseteq S
      BY <1>1, <1>10
    <2> QED
      BY <1>12, <2>1 DEF Inherited
  <1>14. S = Text
    <2> HIDE DEF S, stop, next
    <2> QED
      BY <1>4, <1>13, DescendsInduction
  <1>15. WordsOf = [t \in Text |-> WordsOf[t]]
    BY <1>9
  <1> QED
    BY <1>10, <1>11, <1>14, <1>15

\* A text with no space is a word, and one with a space behind it is followed by
\* the words of the rest.
WordOrNone(w) == IF w = <<>> THEN <<>> ELSE <<w>>

LEMMA WordsFirst ==
  ASSUME NEW w \in Text, \A n \in 1..Len(w) : w[n] # Blank
  PROVE  /\ WordsOf[w] = WordOrNone(w)
         /\ \A r \in Text : WordsOf[w \o <<Blank>> \o r] = WordOrNone(w) \o WordsOf[r]
  <1>0. w \in Seq(Characters)
    BY DEF Text
  <1>1. Len(w) \in Nat /\ (w # <<>> <=> Len(w) > 0) /\ SubSeq(w, 1, Len(w)) = w
    BY <1>0, SeqIs
  <1>2. WordsOf[w] = WordOrNone(w)
    <2>1. CASE w = <<>>
      BY <2>1, WordsOfIs DEF WordOrNone
    <2>2. CASE w # <<>>
      <3>1. Before(w, Blank) = Len(w)
        BY <1>0, BeforeAll
      <3>2. AfterFirst(w, Blank) = <<>>
        BY <3>1, AfterFirstIs
      <3>4. FirstWord(w) = <<w>>
        <4>1. Before(w, Blank) # 0
          BY <1>1, <2>2, <3>1
        <4> QED
          BY <1>1, <3>1, <4>1 DEF FirstWord
      <3>5. WordsOf[w] = <<w>> \o <<>>
        BY <2>2, <3>2, <3>4, WordsOfIs
      <3>6. <<w>> \o <<>> = <<w>>
        <4>1. <<w>> \in Seq(Text)
          BY ShortSeqs
        <4> QED
          BY <4>1, SeqIs
      <3> QED
        BY <2>2, <3>5, <3>6 DEF WordOrNone
    <2> QED
      BY <2>1, <2>2
  <1>3. ASSUME NEW r \in Text
        PROVE  WordsOf[w \o <<Blank>> \o r] = WordOrNone(w) \o WordsOf[r]
    <2> DEFINE t == w \o <<Blank>> \o r
    <2>1. r \in Seq(Characters) /\ Blank \in Characters
      BY CharactersAre DEF Text
    <2>2. t \in Seq(Characters) /\ Parts(t, w, Blank, r)
      BY <1>0, <2>1, PartsOf
    <2> HIDE DEF t
    <2>3. /\ t # <<>> /\ Before(t, Blank) = Len(w) /\ Len(w) < Len(t)
          /\ SubSeq(t, 1, Len(w)) = w /\ SubSeq(t, Len(w) + 2, Len(t)) = r
      <3> HIDE DEF Text
      <3> QED
        BY <1>0, <2>1, <2>2, BeforeRest
    <2>4. AfterFirst(t, Blank) = r
      BY <2>3 DEF AfterFirst
    <2>5. FirstWord(t) = WordOrNone(w)
      <3>1. w = <<>> <=> Before(t, Blank) = 0
        BY <1>1, <2>3
      <3>2. SubSeq(t, 1, Before(t, Blank)) = w
        BY <2>3
      <3> QED
        BY <3>1, <3>2 DEF FirstWord, WordOrNone
    <2>6. WordsOf[t] = WordOrNone(w) \o WordsOf[r]
      BY <2>2, <2>3, <2>4, <2>5, WordsOfIs DEF Text
    <2> QED
      BY <2>6 DEF t
  <1> QED
    BY <1>2, <1>3

\* A text that begins with no spaces begins with a word as long.
LEMMA WordsLong ==
  ASSUME NEW t \in Text, NEW k \in 1..Len(t), \A n \in 1..k : t[n] # Blank
  PROVE  Len(WordsOf[t]) >= 1 /\ Len(WordsOf[t][1]) >= k /\ WordsOf[t][1][1] = t[1]
  <1> DEFINE n == Before(t, Blank)
             rest == WordsOf[AfterFirst(t, Blank)]
             first == SubSeq(t, 1, n)
  <1>0. t \in Seq(Characters)
    BY DEF Text
  <1>1. Len(t) \in Nat /\ t # <<>> /\ k \in Nat /\ k >= 1 /\ k <= Len(t)
    BY <1>0, SeqIs
  <1>2. /\ n \in 0..Len(t)
        /\ n < Len(t) => t[n + 1] = Blank
    BY <1>0, BeforeIs
  <1> HIDE DEF n
  <1>3. n >= k
    <2>1. n < k => n < Len(t) /\ n + 1 \in 1..k
      BY <1>1, <1>2
    <2>2. n < k => FALSE
      BY <1>2, <2>1
    <2> QED
      BY <1>1, <1>2, <2>2
  <1>4. Len(first) = n /\ first \in Text /\ first[1] = t[1]
    <2>1. n \in 1..Len(t)
      BY <1>1, <1>2, <1>3
    <2> QED
      BY <1>0, <2>1 DEF Text
  <1>5. FirstWord(t) = <<first>>
    <2>1. n # 0
      BY <1>1, <1>2, <1>3
    <2> QED
      BY <2>1 DEF FirstWord, n
  <1>6. rest \in Seq(Text)
    BY <1>1, AfterFirstIs, WordsOfIs
  <1> HIDE DEF first, rest
  <1>7. WordsOf[t] = <<first>> \o rest
    BY <1>1, <1>5, WordsOfIs DEF rest
  <1>8. Len(<<first>> \o rest) >= 1 /\ (<<first>> \o rest)[1] = first
    <2>1. <<first>> \in Seq(Text) /\ Len(<<first>>) = 1 /\ <<first>>[1] = first
      BY <1>4, ShortSeqs
    <2> DEFINE f == <<first>>
    <2> HIDE DEF f
    <2>2. f \in Seq(Text) /\ Len(f) = 1 /\ f[1] = first
      BY <2>1 DEF f
    <2>3. Len(f \o rest) = 1 + Len(rest) /\ (f \o rest)[1] = first /\ Len(rest) \in Nat
      BY <1>6, <2>2, ConcatIs
    <2> QED
      BY <2>3 DEF f
  <1> QED
    BY <1>3, <1>4, <1>7, <1>8

\* LinesOf is what its definition says.
LEMMA LinesOfIs ==
  /\ LinesOf \in [Text -> Seq(Text)]
  /\ \A t \in Text : LinesOf[t] =
       IF Before(t, "\n") = Len(t) THEN <<>>
         ELSE <<SubSeq(t, 1, Before(t, "\n"))>> \o LinesOf[AfterFirst(t, "\n")]
  <1> DEFINE stop == {t \in Text : Before(t, "\n") = Len(t)}
             first(t) == <<SubSeq(t, 1, Before(t, "\n"))>>
             next == [t \in Text |-> AfterFirst(t, "\n")]
             base == [t \in Text |-> <<>>]
             g == [p \in Text \X Seq(Text) |-> first(p[1]) \o p[2]]
             Is(h) == h = [t \in Text |->
                             IF Before(t, "\n") = Len(t) THEN <<>>
                               ELSE first(t) \o h[AfterFirst(t, "\n")]]
  <1>1. <<>> \in Text /\ <<>> \in Seq(Text)
    BY DEF Text
  <1>2. base \in [Text -> Seq(Text)]
    BY <1>1
  <1>3. \A t \in Text : first(t) \in Seq(Text)
    <2> SUFFICES ASSUME NEW t \in Text PROVE first(t) \in Seq(Text)
      OBVIOUS
    <2>1. t \in Seq(Characters) /\ Len(t) \in Nat
      BY DEF Text
    <2>2. Before(t, "\n") \in 0..Len(t)
      BY <2>1, BeforeIs
    <2>3. SubSeq(t, 1, Before(t, "\n")) \in Text
      BY <2>1, <2>2 DEF Text
    <2> QED
      BY <2>3, ShortSeqs
  <1> HIDE DEF first
  <1>4. g \in [Text \X Seq(Text) -> Seq(Text)]
    BY <1>3, ConcatProperties
  <1>5. Descends(Text, [t \in Text |-> Len(t)], stop, next)
    <2>1. Before(<<>>, "\n") = Len(<<>>)
      <3>1. <<>> \in Seq(Characters) /\ Len(<<>>) = 0
        OBVIOUS
      <3> QED
        <4>1. Before(<<>>, "\n") \in 0..Len(<<>>)
          BY <3>1, BeforeIs
        <4> QED
          BY <3>1, <4>1
    <2> QED
      BY <1>1, <2>1, AfterDescends
  <1>6. \A t \in Text : AfterFirst(t, "\n") \in Text
    BY AfterFirstIs
  <1>7. PICK h \in [Text -> Seq(Text)] : Recursive(h, Text, stop, next, base, g)
    <2> HIDE DEF base, g, next, stop
    <2> QED
      BY <1>2, <1>4, <1>5, RecursionExists
  <1>8. ASSUME NEW t \in Text
        PROVE  h[t] = IF Before(t, "\n") = Len(t) THEN <<>>
                        ELSE first(t) \o h[AfterFirst(t, "\n")]
    <2>1. h[t] = IF t \in stop THEN base[t] ELSE g[<<t, h[next[t]]>>]
      BY <1>7 DEF Recursive
    <2>2. next[t] = AfterFirst(t, "\n") /\ AfterFirst(t, "\n") \in Text
      BY <1>6
    <2>3. <<t, h[AfterFirst(t, "\n")]>> \in Text \X Seq(Text)
      BY <2>2
    <2> QED
      BY <2>1, <2>2, <2>3
  <1>9. Is(h)
    BY <1>8
  <1>10. Is(LinesOf)
    <2>1. LinesOf = CHOOSE f : Is(f)
      BY DEF LinesOf, AfterFirst, first, Text
    <2> HIDE DEF Is
    <2> QED
      BY <1>9, <2>1
  <1>11. \A t \in Text : LinesOf[t] =
           IF Before(t, "\n") = Len(t) THEN <<>> ELSE first(t) \o LinesOf[AfterFirst(t, "\n")]
    BY <1>10
  <1> DEFINE S == {t \in Text : LinesOf[t] \in Seq(Text)}
  <1>12. ASSUME NEW t \in Text \ stop, AfterFirst(t, "\n") \in S PROVE t \in S
    <2>1. first(t) \in Seq(Text) /\ LinesOf[AfterFirst(t, "\n")] \in Seq(Text)
      BY <1>3, <1>12
    <2>2. first(t) \o LinesOf[AfterFirst(t, "\n")] \in Seq(Text)
      BY <2>1, ConcatProperties
    <2> QED
      BY <1>11, <2>2
  <1>13. Inherited(S, Text, stop, next)
    <2>1. stop \subseteq S
      BY <1>1, <1>11
    <2> QED
      BY <1>12, <2>1 DEF Inherited
  <1>14. S = Text
    <2> HIDE DEF S, stop, next
    <2> QED
      BY <1>5, <1>13, DescendsInduction
  <1>15. LinesOf = [t \in Text |-> LinesOf[t]]
    BY <1>10
  <1> QED
    BY <1>11, <1>14, <1>15 DEF first

\* A text with no line end is no line yet, and with one behind it it is the first.
LEMMA LinesFirst ==
  ASSUME NEW w \in Text, \A n \in 1..Len(w) : w[n] # "\n"
  PROVE  /\ LinesOf[w] = <<>>
         /\ \A r \in Text : LinesOf[w \o <<"\n">> \o r] = <<w>> \o LinesOf[r]
  <1>1. w \in Seq(Characters) /\ Len(w) \in Nat
    BY DEF Text
  <1>2. LinesOf[w] = <<>>
    <2>1. Before(w, "\n") = Len(w)
      BY <1>1, BeforeAll
    <2> QED
      BY <2>1, LinesOfIs
  <1>3. ASSUME NEW r \in Text
        PROVE  LinesOf[w \o <<"\n">> \o r] = <<w>> \o LinesOf[r]
    <2> DEFINE t == w \o <<"\n">> \o r
    <2>1. r \in Seq(Characters) /\ "\n" \in Characters
      BY CharactersAre DEF Text
    <2>2. t \in Seq(Characters) /\ Parts(t, w, "\n", r)
      BY <1>1, <2>1, PartsOf
    <2> HIDE DEF t
    <2>3. /\ Before(t, "\n") = Len(w) /\ Len(w) < Len(t)
          /\ SubSeq(t, 1, Len(w)) = w /\ SubSeq(t, Len(w) + 2, Len(t)) = r
      BY <1>1, <2>1, <2>2, BeforeRest
    <2>4. AfterFirst(t, "\n") = r /\ Before(t, "\n") # Len(t)
      BY <1>1, <2>3 DEF AfterFirst
    <2>5. LinesOf[t] = <<w>> \o LinesOf[r]
      BY <2>2, <2>3, <2>4, LinesOfIs DEF Text
    <2> QED
      BY <2>5 DEF t
  <1> QED
    BY <1>2, <1>3

-----------------------------------------------------------------------------
(* What is made of a text, of the settings, of lines and of bytes, element by element. *)

PlainOf ==
  [c \in Characters |->
     CASE c = "\r" -> <<>> [] c = "\t" -> <<Blank>> [] OTHER -> <<c>>]

LEMMA PlainIs ==
  /\ Plain(<<>>) = <<>>
  /\ \A t \in Text :
       /\ Plain(t) \in Text
       /\ t # <<>> => Plain(t) = PlainOf[Head(t)] \o Plain(Tail(t))
  <1>1. PlainOf \in [Characters -> Text]
    <2>1. ASSUME NEW c \in Characters
          PROVE  (CASE c = "\r" -> <<>> [] c = "\t" -> <<Blank>> [] OTHER -> <<c>>) \in Text
      <3>1. <<>> \in Text /\ <<Blank>> \in Text /\ <<c>> \in Text
        BY CharactersAre, ShortSeqs DEF Text
      <3> QED
        BY <3>1
    <2> QED
      BY <2>1 DEF PlainOf
  <1>2. \A t \in Text : Plain(t) = Through(PlainOf, t)
    <2> SUFFICES ASSUME NEW t \in Text PROVE Plain(t) = Through(PlainOf, t)
      OBVIOUS
    <2>1. \A n \in DOMAIN t : t[n] \in Characters
      BY DEF Text
    <2>2. \A n \in DOMAIN t : PlainOf[t[n]] =
            CASE t[n] = "\r" -> <<>> [] t[n] = "\t" -> <<Blank>> [] OTHER -> <<t[n]>>
      BY <2>1 DEF PlainOf
    <2> QED
      BY <2>2 DEF Plain, Through
  <1>3. /\ Through(PlainOf, <<>>) = <<>>
        /\ \A t \in Text : /\ Through(PlainOf, t) \in Text
                           /\ t # <<>> => Through(PlainOf, t) =
                                            PlainOf[Head(t)] \o Through(PlainOf, Tail(t))
    <2>1. Parted(Characters, Characters, PlainOf)
      BY <1>1, ThroughParts DEF Text
    <2> QED
      BY <2>1 DEF Parted, Text
  <1>4. <<>> \in Text /\ \A t \in Text : t # <<>> => Tail(t) \in Text
    BY DEF Text
  <1> QED
    BY <1>2, <1>3, <1>4

\* A line that asks is a demand.
AskingOf == [l \in Text |-> IF Proper(l) THEN <<l>> ELSE <<>>]

LEMMA AskingIs ==
  /\ Asking(<<>>) = <<>>
  /\ \A s \in Seq(Text) : Asking(s) \in Seq(Text)
  /\ \A l \in Text : \A s \in Seq(Text) :
       Asking(<<l>> \o s) = (IF Proper(l) THEN <<l>> ELSE <<>>) \o Asking(s)
  <1>1. AskingOf \in [Text -> Seq(Text)]
    <2>1. \A l \in Text : <<>> \in Seq(Text) /\ <<l>> \in Seq(Text)
      BY ShortSeqs
    <2> QED
      BY <2>1 DEF AskingOf
  <1>0. Parted(Text, Text, AskingOf)
    BY <1>1, ThroughParts
  <1>2. \A s \in Seq(Text) : Asking(s) = Through(AskingOf, s)
    <2> SUFFICES ASSUME NEW s \in Seq(Text) PROVE Asking(s) = Through(AskingOf, s)
      OBVIOUS
    <2>1. \A n \in DOMAIN s : s[n] \in Text
      OBVIOUS
    <2>2. \A n \in DOMAIN s : AskingOf[s[n]] = IF Proper(s[n]) THEN <<s[n]>> ELSE <<>>
      BY <2>1 DEF AskingOf
    <2> QED
      BY <2>2 DEF Asking, Through
  <1>3. Through(AskingOf, <<>>) = <<>> /\ \A s \in Seq(Text) : Through(AskingOf, s) \in Seq(Text)
    BY <1>0 DEF Parted
  <1>4. \A s \in Seq(Text) : s # <<>> =>
          Through(AskingOf, s) = AskingOf[Head(s)] \o Through(AskingOf, Tail(s))
    BY <1>0 DEF Parted
  <1>5. ASSUME NEW l \in Text, NEW s \in Seq(Text)
        PROVE  Asking(<<l>> \o s) = (IF Proper(l) THEN <<l>> ELSE <<>>) \o Asking(s)
    <2> DEFINE u == <<l>> \o s
    <2>1. u \in Seq(Text) /\ u # <<>> /\ Head(u) = l /\ Tail(u) = s
      <3>1. <<l>> \in Seq(Text)
        BY ShortSeqs
      <3>2. u \in Seq(Text)
        BY <3>1, ConcatProperties
      <3> QED
        BY <3>2, ConcatFirst
    <2> HIDE DEF u
    <2>2. Asking(u) = AskingOf[l] \o Asking(s)
      BY <1>2, <1>4, <2>1
    <2> QED
      BY <2>2 DEF AskingOf, u
  <1>6. <<>> \in Seq(Text)
    OBVIOUS
  <1> QED
    BY <1>2, <1>3, <1>5, <1>6

\* main's lines: what is asked at a step, then what is asked from the next one on.
LastStep == Len(macs) + MaxEpochs + 1

MacsOK == macs \in Seq(SUBSET Text) /\ Len(macs) <= 8 /\
          \A n \in DOMAIN macs : \A a, b \in macs[n] : a = b

LEMMA MainLinesIs ==
  ASSUME MacsOK, NEW n \in Nat
  PROVE  MainLines(n) \in Seq(Text)
  <1>1. <<"getInfo">> \in Text /\ <<>> \in Seq(Text) /\ \A l \in Text : <<l>> \in Seq(Text)
    <2>1. <<"getInfo">> \in Seq(Characters)
      BY CharactersAre, ShortSeqs
    <2> QED
      BY <2>1, ShortSeqs DEF Text
  <1>2. CASE n \in DOMAIN macs /\ macs[n] # {}
    <2> DEFINE mac == CHOOSE m \in macs[n] : TRUE
               l == <<"connect", Blank>> \o mac \o <<Blank, Digit(n)>>
    <2>1. mac \in Text /\ n \in 1..8
      <3>1. macs[n] \in SUBSET Text /\ n \in 1..8
        BY <1>2 DEF MacsOK
      <3>2. mac \in macs[n]
        BY <1>2
      <3> QED
        BY <3>1, <3>2
    <2> HIDE DEF mac
    <2>2. <<"connect", Blank>> \in Text /\ <<Blank, Digit(n)>> \in Text
      BY <2>1, CharactersAre, ShortSeqs DEF Text
    <2>3. <<"connect", Blank>> \o mac \in Text
      BY <2>1, <2>2, ConcatProperties DEF Text
    <2>4. l \in Text
      BY <2>2, <2>3, ConcatProperties DEF Text
    <2> HIDE DEF l
    <2>5. MainLines(n) = <<l>>
      BY <1>2 DEF MainLines, l, mac
    <2> QED
      BY <1>1, <2>4, <2>5
  <1> QED
    BY <1>1, <1>2 DEF MainLines

LEMMA LinesFromIs ==
  ASSUME MacsOK
  PROVE  /\ LastStep \in Nat \ {0}
         /\ LinesFrom(LastStep) = <<>>
         /\ \A n \in 0..LastStep : LinesFrom(n) \in Seq(Text)
         /\ \A n \in 0..(LastStep - 1) : LinesFrom(n) = MainLines(n) \o LinesFrom(n + 1)
  <1>1. LastStep \in Nat \ {0}
    <2>1. Len(macs) \in Nat
      BY DEF MacsOK
    <2>2. MaxEpochs \in Nat
      BY CommandLineAssumption DEF CommandLineAssumption
    <2> QED
      BY <2>1, <2>2 DEF LastStep
  <1> DEFINE part(n) == [i \in 1..(LastStep - n) |-> MainLines(n + i - 1)]
  <1>2. \A n \in 0..LastStep : LinesFrom(n) = FlattenSeq(part(n))
    <2> SUFFICES ASSUME NEW n \in 0..LastStep PROVE LinesFrom(n) = FlattenSeq(part(n))
      OBVIOUS
    <2>1. Len(macs) + MaxEpochs + 1 - n = LastStep - n
      <3>1. Len(macs) \in Nat /\ MaxEpochs \in Nat
        BY CommandLineAssumption DEF MacsOK, CommandLineAssumption
      <3>2. n \in Nat
        BY <1>1
      <3> QED
        BY <3>1, <3>2 DEF LastStep
    <2> QED
      BY <2>1 DEF LinesFrom
  <1>3. ASSUME NEW n \in 0..LastStep PROVE part(n) \in Seq(Seq(Text)) /\ Len(part(n)) = LastStep - n
    <2>1. \A i \in 1..(LastStep - n) : n + i - 1 \in Nat
      BY <1>1
    <2>2. \A i \in 1..(LastStep - n) : MainLines(n + i - 1) \in Seq(Text)
      BY <2>1, MainLinesIs
    <2>3. LastStep - n \in Nat
      BY <1>1
    <2> DEFINE k == LastStep - n
    <2> HIDE DEF k
    <2>4. [i \in 1..k |-> MainLines(n + i - 1)] \in Seq(Seq(Text))
          /\ Len([i \in 1..k |-> MainLines(n + i - 1)]) = k
      BY <2>2, <2>3 DEF k
    <2> QED
      BY <2>4 DEF k
  <1>4. \A n \in 0..LastStep : LinesFrom(n) \in Seq(Text)
    <2> HIDE DEF part
    <2> QED
      BY <1>2, <1>3, FlattenType
  <1>5. LinesFrom(LastStep) = <<>>
    <2>1. part(LastStep) = <<>>
      <3>1. LastStep \in 0..LastStep /\ LastStep - LastStep = 0
        BY <1>1
      <3>2. part(LastStep) \in Seq(Seq(Text)) /\ Len(part(LastStep)) = 0
        BY <1>3, <3>1
      <3> HIDE DEF part
      <3> QED
        BY <3>2
    <2> HIDE DEF part
    <2>2. LastStep \in 0..LastStep
      BY <1>1
    <2> QED
      BY <1>2, <2>1, <2>2, FlattenType
  <1>6. ASSUME NEW n \in 0..(LastStep - 1)
        PROVE  LinesFrom(n) = MainLines(n) \o LinesFrom(n + 1)
    <2> DEFINE s == part(n)
               t == part(n + 1)
    <2>1. n \in 0..LastStep /\ n + 1 \in 0..LastStep /\ n \in Nat /\ LastStep - (n + 1) = (LastStep - n) - 1
          /\ LastStep - n \in Nat \ {0}
      BY <1>1
    <2>2. s \in Seq(Seq(Text)) /\ Len(s) = LastStep - n /\ t \in Seq(Seq(Text)) /\ Len(t) = Len(s) - 1
      BY <1>3, <2>1
    <2>3. s[1] = MainLines(n)
      <3>1. n + 1 - 1 = n /\ 1 \in 1..(LastStep - n)
        BY <2>1
      <3> QED
        BY <3>1
    <2>4. \A i \in 1..Len(t) : t[i] = s[i + 1]
      <3> SUFFICES ASSUME NEW i \in 1..Len(t) PROVE t[i] = s[i + 1]
        OBVIOUS
      <3>1. /\ i \in 1..(LastStep - (n + 1)) /\ i + 1 \in 1..(LastStep - n)
            /\ (n + 1) + i - 1 = n + (i + 1) - 1
        BY <2>1, <2>2
      <3> QED
        BY <3>1
    <2> HIDE DEF s, t
    <2>5. s # <<>> /\ Head(s) = s[1] /\ Tail(s) \in Seq(Seq(Text)) /\ Len(Tail(s)) = Len(t)
          /\ \A i \in 1..Len(Tail(s)) : Tail(s)[i] = s[i + 1]
      BY <2>1, <2>2
    <2>6. Tail(s) = t
      <3>1. \A i \in 1..Len(Tail(s)) : Tail(s)[i] = t[i]
        BY <2>4, <2>5
      <3> QED
        BY <2>2, <2>5, <3>1, SeqEqual
    <2>7. FlattenSeq(s) = Head(s) \o FlattenSeq(Tail(s))
      BY <2>2, <2>5, FlattenTail
    <2>8. LinesFrom(n) = FlattenSeq(s) /\ LinesFrom(n + 1) = FlattenSeq(t)
      BY <1>2, <2>1 DEF s, t
    <2> QED
      BY <2>3, <2>5, <2>6, <2>7, <2>8
  <1> QED
    BY <1>1, <1>4, <1>5, <1>6

\* The packets that bytes begin, and those they end.
BegunIn(w) == FlattenSeq([n \in DOMAIN w |-> IF w[n].byte = 1 THEN <<w[n].of>> ELSE <<>>])
WholeIn(w) ==
  FlattenSeq([n \in DOMAIN w |-> IF w[n].byte = 2 + Size(w[n].of) THEN <<w[n].of>> ELSE <<>>])

BegunOf(X) == [b \in X |-> IF b.byte = 1 THEN <<b.of>> ELSE <<>>]
WholeOf(X) == [b \in X |-> IF b.byte = 2 + Size(b.of) THEN <<b.of>> ELSE <<>>]

LEMMA MarksAre ==
  ASSUME NEW X, NEW w \in Seq(X)
  PROVE  BegunIn(w) = Through(BegunOf(X), w) /\ WholeIn(w) = Through(WholeOf(X), w)
  <1>1. \A n \in DOMAIN w : w[n] \in X
    OBVIOUS
  <1>2. BegunIn(w) = Through(BegunOf(X), w)
    <2>1. \A n \in DOMAIN w :
            BegunOf(X)[w[n]] = IF w[n].byte = 1 THEN <<w[n].of>> ELSE <<>>
      BY <1>1 DEF BegunOf
    <2> QED
      BY <2>1 DEF BegunIn, Through
  <1>3. WholeIn(w) = Through(WholeOf(X), w)
    <2>1. \A n \in DOMAIN w :
            WholeOf(X)[w[n]] = IF w[n].byte = 2 + Size(w[n].of) THEN <<w[n].of>> ELSE <<>>
      BY <1>1 DEF WholeOf
    <2> QED
      BY <2>1 DEF WholeIn, Through
  <1> QED
    BY <1>2, <1>3

LEMMA MarkTypes ==
  ASSUME NEW X
  PROVE  /\ BegunOf(X) \in [X -> Seq({b.of : b \in X})]
         /\ WholeOf(X) \in [X -> Seq({b.of : b \in X})]
  <1>1. \A b \in X : <<b.of>> \in Seq({c.of : c \in X}) /\ <<>> \in Seq({c.of : c \in X})
    <2> SUFFICES ASSUME NEW b \in X
                 PROVE  <<b.of>> \in Seq({c.of : c \in X}) /\ <<>> \in Seq({c.of : c \in X})
      OBVIOUS
    <2>1. b.of \in {c.of : c \in X}
      OBVIOUS
    <2> QED
      BY <2>1, ShortSeqs
  <1> QED
    BY <1>1 DEF BegunOf, WholeOf

\* Bytes of p that follow each other, from the one of number k.
BytesOf(f, p, k) == \A i \in 1..Len(f) : f[i] = [of |-> p, byte |-> k + i - 1]

\* Such bytes begin p if the first of them is its first, and end it if the last of
\* them is its last.
LEMMA MarksOfBytes ==
  ASSUME NEW X, NEW f \in Seq(X), f # <<>>, NEW p, NEW k \in Nat \ {0},
         Size(p) \in Nat, BytesOf(f, p, k), k + Len(f) <= 3 + Size(p)
  PROVE  /\ Through(BegunOf(X), f) = IF k = 1 THEN <<p>> ELSE <<>>
         /\ Through(WholeOf(X), f) = IF k + Len(f) = 3 + Size(p) THEN <<p>> ELSE <<>>
  <1> DEFINE Y == {b.of : b \in X}
             len == Len(f)
             size == Size(p)
             begun == BegunOf(X)
             whole == WholeOf(X)
  <1>0. begun \in [X -> Seq(Y)] /\ whole \in [X -> Seq(Y)]
    BY MarkTypes
  <1>1. len \in Nat \ {0} /\ \A i \in 1..len : f[i] \in X
    OBVIOUS
  <1>2. \A i \in 1..len : f[i].of = p /\ f[i].byte = k + i - 1
    <2> SUFFICES ASSUME NEW i \in 1..len PROVE f[i].of = p /\ f[i].byte = k + i - 1
      OBVIOUS
    <2>1. f[i] = [of |-> p, byte |-> k + i - 1]
      BY DEF BytesOf
    <2> QED
      BY <2>1
  <1>3. \A i \in 1..len : begun[f[i]] = IF k + i - 1 = 1 THEN <<p>> ELSE <<>>
    BY <1>1, <1>2 DEF BegunOf
  <1>4. \A i \in 1..len : whole[f[i]] = IF k + i - 1 = 2 + size THEN <<p>> ELSE <<>>
    BY <1>1, <1>2 DEF WholeOf
  <1>5. p \in Y
    BY <1>1, <1>2
  <1> HIDE DEF Y, begun, whole
  <1>7. Parted(X, Y, begun) /\ Parted(X, Y, whole)
    BY <1>0, ThroughParts
  <1>8. Splits(X, whole) /\ Vanishes(X, begun) /\ Vanishes(X, whole)
    BY <1>0, ThroughSplits, ThroughNone
  <1>6. Through(begun, f) = IF k = 1 THEN <<p>> ELSE <<>>
    <2>1. /\ Tail(f) \in Seq(X) /\ Head(f) = f[1] /\ Len(Tail(f)) = len - 1
          /\ \A i \in 1..Len(Tail(f)) : Tail(f)[i] = f[i + 1]
      OBVIOUS
    <2>2. ASSUME NEW i \in 1..Len(Tail(f)) PROVE begun[Tail(f)[i]] = <<>>
      <3>1. i + 1 \in 1..len /\ k + (i + 1) - 1 # 1
        BY <1>1, <2>1
      <3> QED
        BY <1>3, <2>1, <3>1
    <2>3. Through(begun, Tail(f)) = <<>>
      BY <1>8, <2>1, <2>2 DEF Vanishes
    <2>4. begun[Head(f)] = IF k = 1 THEN <<p>> ELSE <<>>
      <3>1. 1 \in 1..len /\ k + 1 - 1 = k
        BY <1>1
      <3> QED
        BY <1>3, <2>1, <3>1
    <2>5. Through(begun, f) = begun[Head(f)] \o Through(begun, Tail(f))
      BY <1>7 DEF Parted
    <2>6. begun[Head(f)] \in Seq(Y)
      BY <1>0, <1>1, <2>1
    <2>7. begun[Head(f)] \o <<>> = begun[Head(f)]
      BY <2>6, ConcatEmptySeq
    <2> QED
      BY <2>3, <2>4, <2>5, <2>7
  <1>9. Through(whole, f) = IF k + len = 3 + size THEN <<p>> ELSE <<>>
    <2> DEFINE m == len - 1
               a == SubSeq(f, 1, m)
               last == <<f[len]>>
    <2>1. m \in Nat /\ m + 1 = len
      BY <1>1
    <2>2. a \in Seq(X) /\ Len(a) = m /\ \A i \in 1..m : a[i] = f[i]
      BY <1>1, <2>1
    <2>3. last \in Seq(X) /\ Len(last) = 1 /\ last[1] = f[len] /\ last # <<>>
          /\ Head(last) = f[len] /\ Tail(last) = <<>>
      BY <1>1
    <2> HIDE DEF m, a, last
    <2>4. f = a \o last
      <3>1. /\ a \o last \in Seq(X) /\ Len(a \o last) = m + 1
            /\ \A i \in 1..m : (a \o last)[i] = a[i]
            /\ \A i \in 1..1 : (a \o last)[m + i] = last[i]
        <4>1. /\ a \o last \in Seq(X) /\ Len(a \o last) = Len(a) + Len(last)
              /\ \A i \in 1..Len(a) : (a \o last)[i] = a[i]
              /\ \A i \in 1..Len(last) : (a \o last)[Len(a) + i] = last[i]
          <5>1. a \in Seq(X) /\ last \in Seq(X)
            BY <2>2, <2>3
          <5> QED
            BY <5>1, ConcatIs
        <4> QED
          BY <2>2, <2>3, <4>1
      <3> DEFINE c == a \o last
      <3> HIDE DEF c
      <3>2. c[len] = f[len]
        <4>1. 1 \in 1..1
          OBVIOUS
        <4> QED
          BY <2>1, <2>3, <3>1, <4>1 DEF c
      <3>3. ASSUME NEW i \in 1..len PROVE f[i] = c[i]
        <4>1. i \in 1..m \/ i = len
          BY <2>1
        <4>2. \A j \in 1..m : c[j] = f[j]
          BY <2>2, <3>1 DEF c
        <4> QED
          BY <3>2, <4>1, <4>2
      <3>4. c \in Seq(X) /\ Len(c) = Len(f)
        BY <2>1, <3>1 DEF c
      <3>5. f = c
        BY <3>3, <3>4, SeqEqual
      <3> QED
        BY <3>5 DEF c
    <2>5. Through(whole, a) = <<>>
      <3>1. ASSUME NEW i \in 1..Len(a) PROVE whole[a[i]] = <<>>
        <4>1. i \in 1..len /\ k + i - 1 # 2 + size
          BY <1>1, <2>1, <2>2
        <4> QED
          BY <1>4, <2>2, <4>1
      <3> QED
        BY <1>8, <2>2, <3>1 DEF Vanishes
    <2>6. whole[f[len]] = IF k + len = 3 + size THEN <<p>> ELSE <<>>
      <3>1. len \in 1..len /\ (k + len - 1 = 2 + size <=> k + len = 3 + size)
        BY <1>1
      <3> QED
        BY <1>4, <3>1
    <2>7. Through(whole, last) = whole[f[len]] \o Through(whole, <<>>)
      <3>1. Through(whole, last) = whole[Head(last)] \o Through(whole, Tail(last))
        BY <1>7, <2>3 DEF Parted
      <3> QED
        BY <2>3, <3>1
    <2>8. Through(whole, <<>>) = <<>>
      BY <1>7 DEF Parted
    <2>9. whole[f[len]] \in Seq(Y)
      BY <1>0, <1>1
    <2>10. whole[f[len]] \o <<>> = whole[f[len]] /\ <<>> \o whole[f[len]] = whole[f[len]]
      BY <2>9, ConcatEmptySeq
    <2>11. Through(whole, a \o last) = Through(whole, a) \o Through(whole, last)
      BY <1>8, <2>2, <2>3 DEF Splits
    <2> QED
      BY <2>4, <2>5, <2>6, <2>7, <2>8, <2>10, <2>11
  <1> QED
    BY <1>6, <1>9 DEF begun, whole

-----------------------------------------------------------------------------
(* Types. *)

\* The settings and what is typed are texts.
LEMMA GivenIs ==
  ASSUME mode \in Modes, typed \in IF mode = "interact" THEN Inputs ELSE {<<>>},
         macs \in IF mode = "mqtt" THEN Settings ELSE {<<>>}
  PROVE  MacsOK /\ typed \in Text
  <1>1. typed \in Text
    <2>1. Inputs \subseteq Text /\ <<>> \in Text
      BY CommandLineAssumption DEF CommandLineAssumption, Text
    <2> QED
      BY <2>1
  <1>2. CASE macs = <<>>
    <2>1. macs \in Seq(SUBSET Text)
      BY <1>2
    <2>2. Len(macs) <= 8
      BY <1>2
    <2>3. \A n \in DOMAIN macs : FALSE
      BY <1>2
    <2> QED
      BY <1>1, <2>1, <2>2, <2>3 DEF MacsOK
  <1>3. CASE macs \in Settings
    <2>1. \A s \in Settings : /\ s \in Seq(SUBSET Seq(Characters)) /\ Len(s) <= 8
                             /\ \A n \in DOMAIN s : \A a, b \in s[n] : a = b
      BY CommandLineAssumption DEF CommandLineAssumption
    <2> QED
      BY <1>1, <1>3, <2>1 DEF MacsOK, Text
  <1> QED
    BY <1>1, <1>2, <1>3

\* What a setting asks for.
LEMMA ConnectText ==
  ASSUME MacsOK, NEW n \in DOMAIN macs, NEW mac \in macs[n]
  PROVE  /\ <<"connect", Blank>> \o mac \o <<Blank, Digit(n)>> \in Text
         /\ (<<"connect", Blank>> \o mac \o <<Blank, Digit(n)>>)[1] = "connect"
         /\ Len(<<"connect", Blank>> \o mac \o <<Blank, Digit(n)>>) = Len(mac) + 4
         /\ MainLines(n) = <<<<"connect", Blank>> \o mac \o <<Blank, Digit(n)>>>>
  <1> DEFINE a == <<"connect", Blank>>
             c == <<Blank, Digit(n)>>
  <1>1. mac \in Text /\ n \in 1..8 /\ (CHOOSE m \in macs[n] : TRUE) = mac /\ macs[n] # {}
    BY DEF MacsOK
  <1>2. a \in Seq(Characters) /\ c \in Seq(Characters) /\ mac \in Seq(Characters)
    BY <1>1, CharactersAre, ShortSeqs DEF Text
  <1>3. Len(a) = 2 /\ Len(c) = 2 /\ a[1] = "connect"
    OBVIOUS
  <1>4. MainLines(n) = <<a \o mac \o c>>
    BY <1>1 DEF MainLines
  <1> HIDE DEF a, c
  <1>5. a \o mac \in Seq(Characters) /\ Len(a \o mac) = 2 + Len(mac) /\ (a \o mac)[1] = "connect"
        /\ Len(mac) \in Nat
    <2>1. /\ a \o mac \in Seq(Characters) /\ Len(a \o mac) = Len(a) + Len(mac) /\ Len(mac) \in Nat
          /\ \A i \in 1..Len(a) : (a \o mac)[i] = a[i]
      BY <1>2, ConcatIs
    <2>2. 1 \in 1..Len(a)
      BY <1>3
    <2> QED
      BY <1>3, <2>1, <2>2
  <1> DEFINE b == a \o mac
  <1> HIDE DEF b
  <1>6. b \in Seq(Characters) /\ Len(b) = 2 + Len(mac) /\ b[1] = "connect"
    BY <1>5 DEF b
  <1>7. b \o c \in Seq(Characters) /\ Len(b \o c) = Len(b) + Len(c) /\ (b \o c)[1] = b[1]
    <2>1. /\ b \o c \in Seq(Characters) /\ Len(b \o c) = Len(b) + Len(c)
          /\ \A i \in 1..Len(b) : (b \o c)[i] = b[i]
      <3>1. b \in Seq(Characters) /\ c \in Seq(Characters)
        BY <1>2, <1>6
      <3> QED
        BY <3>1, ConcatIs
    <2>2. 1 \in 1..Len(b)
      BY <1>5, <1>6
    <2> QED
      BY <2>1, <2>2
  <1>8. b \o c \in Text /\ (b \o c)[1] = "connect" /\ Len(b \o c) = Len(mac) + 4
    BY <1>3, <1>5, <1>6, <1>7 DEF Text
  <1> QED
    BY <1>4, <1>8 DEF a, b, c

LEMMA TypeInit == Init => TypeOK
  <1> SUFFICES ASSUME Init PROVE TypeOK
    OBVIOUS
  <1>1. MacsOK /\ typed \in Text
    BY GivenIs DEF Init
  <1>2. 0 \in 0..(Len(macs) + MaxEpochs + 1)
    BY <1>1, LinesFromIs DEF LastStep
  <1>3. <<>> \in Text /\ <<>> \in Seq(Text) /\ Len(<<>>) = 0 /\ DOMAIN <<>> = {} /\ <<>> \in Seq(ToSet(<<>>))
    BY DEF Text
  <1>4. pc = Caller /\ pc \in {"main", "linein"}
    BY DEF Init, Caller
  <1> QED
    BY <1>1, <1>2, <1>3, <1>4 DEF Init, TypeOK, LineOK, BytesOK, Text

\* What a step that leaves the bytes alone has to keep.
LEMMA BytesStay ==
  ASSUME BytesOK, UNCHANGED <<wire, frame>>, frame # <<>> => pc' \in {"write", "exited"}
  PROVE  BytesOK'
  BY DEF BytesOK

LEMMA CallTypes ==
  ASSUME TypeOK, GetInfo \/ Connect \/ NoButton \/ Linein
  PROVE  TypeOK'
  <1>0. MacsOK /\ typed \in Text
    BY GivenIs DEF TypeOK
  <1>1. /\ UNCHANGED <<given, wire, frame>> /\ pc \in {"main", "linein"} /\ pc = Caller
        /\ Caller' = Caller
    BY DEF GetInfo, Connect, NoButton, Linein, given, TypeOK, LineOK, Caller
  <1>2. BytesOK'
    <2>1. frame = <<>>
      BY <1>1 DEF TypeOK, BytesOK
    <2> QED
      BY <1>1, <2>1, BytesStay DEF TypeOK
  <1>3. LastStep \in Nat \ {0} /\ Len(macs) \in Nat /\ MaxEpochs \in Nat /\ WordSize \in Nat
    BY <1>0, LinesFromIs, CommandLineAssumption DEF MacsOK, CommandLineAssumption
  <1> USE DEF LineOK
  <1>4. CASE GetInfo
    <2>1. <<"getInfo">> \in Seq(Characters)
      BY CharactersAre, ShortSeqs
    <2>2. step + 1 \in 0..(Len(macs) + MaxEpochs + 1)
      BY <1>3, <1>4 DEF GetInfo, TypeOK
    <2>3. LineOK'
      BY <1>1, <1>3, <1>4, <2>1, <2>2 DEF GetInfo, Handle, TypeOK, given
    <2> QED
      BY <1>1, <1>2, <2>3 DEF TypeOK, given
  <1>5. CASE Connect
    <2>1. step \in DOMAIN macs /\ step + 1 \in 0..(Len(macs) + MaxEpochs + 1)
      BY <1>0, <1>3, <1>5 DEF Connect, MacsOK
    <2>2. PICK mac \in macs[step] :
            LET text == <<"connect", Blank>> \o mac \o <<Blank, Digit(step)>>
            IN  IF Len(text) <= CmdSize THEN Handle(text)
                  ELSE pc' = "overrun" /\ UNCHANGED splitter
      BY <1>5 DEF Connect
    <2> DEFINE text == <<"connect", Blank>> \o mac \o <<Blank, Digit(step)>>
    <2>3. text \in Seq(Characters)
      BY <1>0, <2>1, ConnectText DEF Text
    <2>4. Handle(text) \/ (pc' = "overrun" /\ UNCHANGED splitter)
      BY <2>2
    <2> HIDE DEF text
    <2>5. UNCHANGED input /\ step' = step + 1
      BY <1>5 DEF Connect
    <2>6. CASE Handle(text)
      <3>1. LineOK'
        BY <1>1, <1>3, <2>1, <2>3, <2>5, <2>6 DEF Handle, TypeOK, given
      <3> QED
        BY <1>1, <1>2, <3>1 DEF TypeOK, given
    <2>7. CASE pc' = "overrun" /\ UNCHANGED splitter
      <3>1. LineOK'
        BY <1>1, <1>3, <2>1, <2>5, <2>7 DEF TypeOK, given, splitter
      <3> QED
        BY <1>1, <1>2, <3>1 DEF TypeOK, given
    <2> QED
      BY <2>4, <2>6, <2>7
  <1>6. CASE NoButton
    <2>1. step + 1 \in 0..(Len(macs) + MaxEpochs + 1)
      BY <1>0, <1>3, <1>6 DEF NoButton, MacsOK
    <2>2. LineOK'
      BY <1>1, <1>3, <1>6, <2>1 DEF NoButton, TypeOK, given, splitter
    <2> QED
      BY <1>1, <1>2, <2>2 DEF TypeOK, given
  <1>7. CASE Linein
    <2>1. UNCHANGED <<step, macs, mode>>
      BY <1>7 DEF Linein, given
    <2>2. CASE pc' = "returned" /\ UNCHANGED <<input, splitter>>
      <3>1. LineOK'
        BY <1>1, <1>3, <2>1, <2>2 DEF TypeOK, splitter
      <3> QED
        BY <1>1, <1>2, <3>1 DEF TypeOK, given
    <2>3. CASE /\ input # <<>> /\ input' = Tail(input)
               /\ IF Head(input) = "\n"
                    THEN Handle(line)
                    ELSE /\ line' = CASE Head(input) = "\r" -> line
                                      [] Head(input) = "\t" -> Append(line, Blank)
                                      [] OTHER -> Append(line, Head(input))
                         /\ UNCHANGED <<pc, at, words, word>>
      <3>1. input' \in Seq(Characters) /\ Head(input) \in Characters
        BY <2>3 DEF TypeOK
      <3>2. CASE Handle(line)
        <4>1. LineOK'
          BY <1>1, <1>3, <2>1, <3>1, <3>2 DEF Handle, TypeOK
        <4> QED
          BY <1>1, <1>2, <4>1 DEF TypeOK, given
      <3>3. CASE /\ line' \in {line, Append(line, Blank), Append(line, Head(input))}
                 /\ UNCHANGED <<pc, at, words, word>>
        <4>1. line' \in Seq(Characters)
          <5>1. /\ line \in Seq(Characters) /\ Blank \in Characters
                /\ Head(input) \in Characters
            BY <3>1, CharactersAre DEF TypeOK
          <5>2. /\ Append(line, Blank) \in Seq(Characters)
                /\ Append(line, Head(input)) \in Seq(Characters)
            BY <5>1, AppendProperties
          <5> QED
            BY <3>3, <5>1, <5>2
        <4>2. LineOK'
          BY <1>1, <1>3, <2>1, <3>1, <3>3, <4>1 DEF TypeOK
        <4> QED
          BY <1>1, <1>2, <4>2 DEF TypeOK, given
      <3> QED
        BY <2>3, <3>2, <3>3
    <2> QED
      BY <1>7, <2>2, <2>3 DEF Linein
  <1> QED
    BY <1>4, <1>5, <1>6, <1>7

LEMMA SplitTypes ==
  ASSUME TypeOK, Letter \/ Space \/ EndOfLine
  PROVE  TypeOK'
  <1>0. MacsOK /\ typed \in Text
    BY GivenIs DEF TypeOK
  <1>1. /\ UNCHANGED <<given, input, step, line, wire, frame>> /\ pc = "split"
        /\ pc' \notin {"main", "linein"} /\ Caller' = Caller
        /\ UNCHANGED <<mode, typed, macs>>
    BY DEF Letter, Space, EndOfLine, given, Caller
  <1>2. BytesOK'
    <2>1. frame = <<>>
      BY <1>1 DEF TypeOK, BytesOK
    <2> QED
      BY <1>1, <2>1, BytesStay DEF TypeOK
  <1>3. WordSize \in Nat \ {0} /\ Len(line) \in Nat
    BY CommandLineAssumption DEF CommandLineAssumption, TypeOK, LineOK
  <1>4. /\ word \in Seq(Characters) /\ words \in Seq(Seq(Characters)) /\ line \in Seq(Characters)
        /\ at \in Nat \ {0} /\ at <= Len(line) + 1 /\ Len(word) <= WordSize
        /\ (word # <<>> => Len(words) < 4) /\ Len(words) <= 4
        /\ \A n \in DOMAIN words : Len(words[n]) \in 1..WordSize
    BY <1>1 DEF TypeOK, LineOK
  <1>5. ASSUME word # <<>>
        PROVE  /\ Append(words, word) \in Seq(Seq(Characters)) /\ Len(Append(words, word)) <= 4
               /\ \A n \in DOMAIN Append(words, word) : Len(Append(words, word)[n]) \in 1..WordSize
    <2>1. Len(word) \in 1..WordSize
      BY <1>3, <1>4, <1>5
    <2>2. /\ Append(words, word) \in Seq(Seq(Characters))
          /\ Len(Append(words, word)) = Len(words) + 1
          /\ DOMAIN Append(words, word) = 1..(Len(words) + 1)
          /\ \A n \in 1..Len(words) : Append(words, word)[n] = words[n]
          /\ Append(words, word)[Len(words) + 1] = word
          /\ Len(words) \in Nat
      BY <1>4, AppendProperties
    <2> QED
      BY <1>4, <1>5, <2>1, <2>2
  <1>6. CASE Letter
    <2>1. word' = Append(word, line[at]) /\ at' = at + 1 /\ words' = words /\ at <= Len(line)
          /\ pc' = IF Len(words) >= 4 THEN "overrun"
                   ELSE IF Len(word) >= WordSize THEN "aborted" ELSE "split"
      BY <1>6 DEF Letter
    <2>2. word' \in Seq(Characters) /\ Len(word') = Len(word) + 1 /\ Len(word) \in Nat
          /\ Len(words) \in Nat
      <3>1. line[at] \in Characters
        BY <1>3, <1>4, <2>1
      <3> QED
        BY <1>4, <2>1, <3>1, AppendProperties
    <2>3. /\ pc' \in {"overrun", "aborted", "split"}
          /\ pc' = "split" => Len(words) < 4 /\ Len(word) < WordSize
      BY <1>3, <2>1, <2>2
    <2>4. LineOK'
      BY <1>1, <1>3, <1>4, <2>1, <2>2, <2>3 DEF LineOK, TypeOK
    <2> QED
      BY <1>1, <1>2, <2>4 DEF TypeOK
  <1>7. CASE Space
    <2>1. at <= Len(line) /\ at' = at + 1 /\ pc' = "split"
      BY <1>1, <1>7 DEF Space
    <2>2. word' = <<>> /\ words' = IF word = <<>> THEN words ELSE Append(words, word)
      BY <1>7 DEF Space
    <2>3. LineOK'
      BY <1>1, <1>3, <1>4, <1>5, <2>1, <2>2 DEF LineOK, TypeOK
    <2> QED
      BY <1>1, <1>2, <2>3 DEF TypeOK
  <1>8. CASE EndOfLine
    <2>1. at' = at /\ pc' = "dispatch"
      BY <1>8 DEF EndOfLine
    <2>2. word' = <<>> /\ words' = IF word = <<>> THEN words ELSE Append(words, word)
      BY <1>8 DEF EndOfLine
    <2>3. LineOK'
      BY <1>1, <1>3, <1>4, <1>5, <2>1, <2>2 DEF LineOK, TypeOK
    <2> QED
      BY <1>1, <1>2, <2>3 DEF TypeOK
  <1> QED
    BY <1>6, <1>7, <1>8

\* What Packets makes is a packet of the command.
LEMMA PacketIs ==
  ASSUME NEW c \in Names, NEW text, NEW p \in Packets(c, text)
  PROVE  p.command \in Names
  BY DEF Packets

LEMMA DispatchIs ==
  ASSUME TypeOK, Dispatch
  PROVE  /\ UNCHANGED <<mode, typed, macs, input, step, wire, at, words, word>> /\ pc = "dispatch"
         /\ frame = <<>>
         /\ \/ UNCHANGED <<line, frame>> /\ pc' \in {"returned", "aborted", "overrun"}
            \/ pc' = Caller /\ line' = <<>> /\ UNCHANGED frame
            \/ /\ UNCHANGED line /\ pc' = "write"
               /\ \E c \in Named(words[1]) : \E p \in Packets(c, words) :
                    frame' = Frame(p) /\ Len(words) = Commands[c].words
                    /\ words # <<>>
                    /\ ~\E f \in Copied(c) : Len(words[f.word]) > CopySize
  <1>1. UNCHANGED <<mode, typed, macs, input, step, wire>> /\ pc = "dispatch" /\ frame = <<>>
    BY DEF Dispatch, given, TypeOK, BytesOK
  <1> DEFINE name == IF words = <<>> THEN <<>> ELSE words[1]
  <1>2. \/ \E how \in {"returned", "aborted", "overrun"} : End(how)
        \/ Return
        \/ \E c \in Named(name) : /\ Len(words) = Commands[c].words
                                  /\ ~\E f \in Copied(c) : Len(words[f.word]) > CopySize
                                  /\ Encode(c)
    BY DEF Dispatch
  <1>3. CASE \E how \in {"returned", "aborted", "overrun"} : End(how)
    BY <1>1, <1>3 DEF End, splitter
  <1>4. CASE Return
    BY <1>1, <1>4 DEF Return
  <1>5. CASE \E c \in Named(name) : /\ Len(words) = Commands[c].words
                                    /\ ~\E f \in Copied(c) : Len(words[f.word]) > CopySize
                                    /\ Encode(c)
    <2>1. PICK c \in Named(name) : /\ Len(words) = Commands[c].words
                                   /\ ~\E f \in Copied(c) : Len(words[f.word]) > CopySize
                                   /\ Encode(c)
      BY <1>5
    <2>2. words # <<>>
      <3>1. name = <<c>>
        BY NamedIs
      <3> QED
        BY <3>1
    <2>3. c \in Named(words[1])
      BY <2>2
    <2> HIDE DEF name
    <2>4. UNCHANGED <<line, at, words, word>> /\ pc' = "write"
          /\ \E p \in Packets(c, words) : frame' = Frame(p)
      BY <2>1 DEF Encode, splitter
    <2> QED
      BY <1>1, <2>1, <2>2, <2>3, <2>4
  <1> QED
    BY <1>2, <1>3, <1>4, <1>5

LEMMA DispatchTypes ==
  ASSUME TypeOK, Dispatch
  PROVE  TypeOK'
  <1>1. /\ UNCHANGED <<mode, typed, macs, input, step, wire, at, words, word>> /\ pc = "dispatch"
        /\ frame = <<>> /\ Caller' = Caller /\ Caller \in {"main", "linein"}
    BY DispatchIs DEF Caller
  <1>2. CASE UNCHANGED <<line, frame>> /\ pc' \in {"returned", "aborted", "overrun"}
    <2>1. LineOK'
      BY <1>1, <1>2 DEF TypeOK, LineOK
    <2>2. BytesOK'
      BY <1>1, <1>2, BytesStay DEF TypeOK
    <2> QED
      BY <1>1, <2>1, <2>2 DEF TypeOK
  <1>3. CASE pc' = Caller /\ line' = <<>> /\ UNCHANGED frame
    <2>1. <<>> \in Seq(Characters)
      OBVIOUS
    <2>2. LineOK'
      BY <1>1, <1>3, <2>1 DEF TypeOK, LineOK
    <2>3. BytesOK'
      BY <1>1, <1>3, BytesStay DEF TypeOK
    <2> QED
      BY <1>1, <2>2, <2>3 DEF TypeOK
  <1>4. CASE /\ UNCHANGED line /\ pc' = "write"
             /\ \E c \in Named(words[1]) : \E p \in Packets(c, words) : frame' = Frame(p)
    <2>1. LineOK'
      BY <1>1, <1>4 DEF TypeOK, LineOK
    <2>0. PICK c \in Named(words[1]) : \E p \in Packets(c, words) : frame' = Frame(p)
      BY <1>4
    <2>2. PICK p \in Packets(c, words) : frame' = Frame(p)
      BY <2>0
    <2>3. p.command \in Names
      BY NamedIs, PacketIs
    <2>4. /\ Size(p) \in Nat \ {0} /\ Len(frame') = 2 + Size(p)
          /\ DOMAIN frame' = 1..(2 + Size(p))
          /\ \A n \in DOMAIN frame' : frame'[n] = [of |-> p, byte |-> n]
      BY <2>2, <2>3, FrameIs
    <2>5. frame' \in Seq(ToSet(frame'))
      <3>1. ToSet(Frame(p)) = {[of |-> p, byte |-> n] : n \in 1..(2 + Size(p))}
        BY DEF ToSet, Frame
      <3>2. Frame(p) \in Seq({[of |-> p, byte |-> n] : n \in 1..(2 + Size(p))})
        BY <2>4 DEF Frame
      <3> QED
        BY <2>2, <3>1, <3>2
    <2>6. frame'[1] = [of |-> p, byte |-> 1] /\ frame'[1].of = p /\ frame'[1].byte = 1
      BY <2>4
    <2>7. IsByte(frame[1])'
      <3>1. DOMAIN frame'[1] = {"of", "byte"}
        BY <2>6
      <3>2. frame'[1].of.command \in DOMAIN Commands
        BY <2>3, <2>6 DEF Names
      <3>3. frame'[1].byte \in 1..(2 + Size(frame'[1].of))
        BY <2>4, <2>6
      <3> QED
        BY <3>1, <3>2, <3>3 DEF IsByte
    <2>8. wire' = wire /\ pc' = "write"
      BY <1>1, <1>4
    <2>9. frame'[1].byte + Len(frame') = 3 + Size(frame'[1].of)
      BY <2>4, <2>6
    <2>10. \A n \in DOMAIN frame' :
             frame'[n] = [of |-> frame'[1].of, byte |-> frame'[1].byte + n - 1]
      BY <2>4, <2>6
    <2>11. wire' \in Seq(ToSet(wire')) /\ \A n \in DOMAIN wire' : IsByte(wire'[n])
      BY <2>8 DEF TypeOK, BytesOK, IsByte
    <2>12. BytesOK'
      BY <2>5, <2>7, <2>8, <2>9, <2>10, <2>11 DEF BytesOK
    <2> QED
      BY <1>1, <2>1, <2>12 DEF TypeOK
  <1> QED
    BY <1>2, <1>3, <1>4, DispatchIs

LEMMA OwnSet ==
  ASSUME NEW X, NEW s \in Seq(X)
  PROVE  s \in Seq(ToSet(s))
  BY DEF ToSet

\* The bytes that wait are those of one packet, to its last.
LEMMA FrameBytes ==
  ASSUME BytesOK, frame # <<>>
  PROVE  /\ frame[1].of.command \in Names /\ Size(frame[1].of) \in Nat \ {0}
         /\ frame[1].byte \in Nat \ {0}
         /\ Len(frame) \in Nat \ {0} /\ frame[1].byte + Len(frame) = 3 + Size(frame[1].of)
         /\ BytesOf(frame, frame[1].of, frame[1].byte)
  <1>1. IsByte(frame[1]) /\ frame[1].byte + Len(frame) = 3 + Size(frame[1].of)
        /\ \A n \in DOMAIN frame :
             frame[n] = [of |-> frame[1].of, byte |-> frame[1].byte + n - 1]
    BY DEF BytesOK
  <1>2. frame[1].of.command \in Names /\ frame[1].byte \in 1..(2 + Size(frame[1].of))
    BY <1>1 DEF IsByte, Names
  <1>3. Size(frame[1].of) \in Nat \ {0}
    BY <1>2, SizeIs
  <1>4. Len(frame) \in Nat \ {0} /\ DOMAIN frame = 1..Len(frame)
    BY DEF BytesOK
  <1> QED
    BY <1>1, <1>2, <1>3, <1>4 DEF BytesOf

\* What Send does: it takes part of the bytes of p, n of them from number k on.
Sending(X, p, k, n, part) ==
  /\ p.command \in Names /\ Size(p) \in Nat \ {0}
  /\ k \in Nat \ {0} /\ n \in Nat \ {0} /\ Len(frame) \in Nat \ {0} /\ n <= Len(frame)
  /\ k + Len(frame) = 3 + Size(p)
  /\ wire \in Seq(X) /\ frame \in Seq(X) /\ frame' \in Seq(X)
  /\ frame # <<>> /\ frame[1].of = p /\ frame[1].byte = k
  /\ part \in Seq(X) /\ Len(part) = n /\ BytesOf(part, p, k)
  /\ Len(frame') = Len(frame) - n /\ BytesOf(frame', p, k + n)
  /\ wire' \in Seq(X) /\ wire' = wire \o part

LEMMA SendIs ==
  ASSUME TypeOK, Send
  PROVE  \E n \in 1..Len(frame) :
           Sending(ToSet(wire) \union ToSet(frame), frame[1].of, frame[1].byte, n,
                   SubSeq(frame, 1, n))
  <1> DEFINE X == ToSet(wire) \union ToSet(frame)
             p == frame[1].of
             k == frame[1].byte
  <1>1. frame # <<>> /\ BytesOK
    BY DEF Send, TypeOK
  <1>2. /\ p.command \in Names /\ Size(p) \in Nat \ {0} /\ k \in Nat \ {0}
        /\ Len(frame) \in Nat \ {0} /\ k + Len(frame) = 3 + Size(p) /\ BytesOf(frame, p, k)
    BY <1>1, FrameBytes
  <1>3. PICK n \in 1..Len(frame) : wire' = wire \o SubSeq(frame, 1, n)
                                /\ frame' = SubSeq(frame, n + 1, Len(frame))
    BY DEF Send
  <1> DEFINE part == SubSeq(frame, 1, n)
             size == Size(p)
  <1>4. wire \in Seq(X) /\ frame \in Seq(X)
    <2>1. wire \in Seq(ToSet(wire)) /\ frame \in Seq(ToSet(frame))
      BY <1>1 DEF BytesOK
    <2> DEFINE A == ToSet(wire)
               B == ToSet(frame)
    <2> HIDE DEF A, B
    <2>2. wire \in Seq(A) /\ frame \in Seq(B)
      BY <2>1 DEF A, B
    <2>3. wire \in Seq(A \union B) /\ frame \in Seq(A \union B)
      BY <2>2
    <2> QED
      BY <2>3 DEF A, B
  <1> HIDE DEF X
  <1>5. part \in Seq(X) /\ Len(part) = n /\ \A i \in 1..n : part[i] = frame[i]
    <2>1. Len(frame) \in Nat /\ n \in 1..Len(frame)
      BY <1>2
    <2> HIDE DEF p, k, size
    <2> QED
      BY <1>4, <2>1
  <1>6. BytesOf(part, p, k)
    BY <1>2, <1>3, <1>5 DEF BytesOf
  <1> DEFINE m == n + 1
  <1>7. m \in 1..(Len(frame) + 1) /\ Len(frame) + 1 - m = Len(frame) - n
        /\ n \in Nat \ {0} /\ n <= Len(frame)
    BY <1>2, <1>3
  <1> HIDE DEF m, p, k, part
  <1>8. /\ SubSeq(frame, m, Len(frame)) \in Seq(X)
        /\ Len(SubSeq(frame, m, Len(frame))) = Len(frame) + 1 - m
        /\ \A i \in 1..Len(SubSeq(frame, m, Len(frame))) :
             SubSeq(frame, m, Len(frame))[i] = frame[i + m - 1]
    BY <1>4, <1>7, SuffixIs
  <1>9. /\ frame' \in Seq(X) /\ Len(frame') = Len(frame) - n
        /\ \A i \in 1..Len(frame') : frame'[i] = frame[i + n]
    <2>1. /\ frame' \in Seq(X) /\ Len(frame') = Len(frame) - n
          /\ \A i \in 1..Len(frame') : frame'[i] = frame[i + m - 1]
      BY <1>3, <1>7, <1>8 DEF m
    <2>2. \A i \in 1..Len(frame') : i + m - 1 = i + n
      BY <1>2, <1>3, <2>1 DEF m
    <2> QED
      BY <2>1, <2>2
  <1>10. BytesOf(frame', p, k + n)
    <2> SUFFICES ASSUME NEW i \in 1..Len(frame')
                 PROVE  frame'[i] = [of |-> p, byte |-> (k + n) + i - 1]
      BY DEF BytesOf
    <2>1. i + n \in 1..Len(frame) /\ k + (i + n) - 1 = (k + n) + i - 1
      BY <1>2, <1>7, <1>9
    <2>2. frame[i + n] = [of |-> p, byte |-> k + (i + n) - 1]
      BY <1>2, <2>1 DEF BytesOf
    <2> QED
      BY <1>9, <2>1, <2>2
  <1>11. wire' = wire \o part /\ wire' \in Seq(X)
    BY <1>3, <1>4, <1>5, ConcatProperties DEF part
  <1>12. frame[1].of = p /\ frame[1].byte = k
    BY DEF p, k
  <1>13. Sending(X, p, k, n, part)
    BY <1>1, <1>2, <1>4, <1>5, <1>6, <1>7, <1>9, <1>10, <1>11, <1>12 DEF Sending
  <1> QED
    BY <1>3, <1>13 DEF X, p, k, part

LEMMA SendTypes ==
  ASSUME TypeOK, Send \/ SendFails \/ Written
  PROVE  TypeOK'
  <1>1. CASE Send
    <2>1. UNCHANGED <<mode, typed, macs, input, step, pc, line, at, words, word>> /\ pc = "write"
      BY <1>1 DEF Send, given, splitter
    <2>2. LineOK'
      BY <2>1 DEF TypeOK, LineOK, Caller
    <2> DEFINE X == ToSet(wire) \union ToSet(frame)
               p == frame[1].of
               k == frame[1].byte
    <2>3. PICK n \in 1..Len(frame) : Sending(X, p, k, n, SubSeq(frame, 1, n))
      BY <1>1, SendIs
    <2> DEFINE part == SubSeq(frame, 1, n)
    <2>4. wire' \in Seq(ToSet(wire')) /\ frame' \in Seq(ToSet(frame'))
      BY <2>3, OwnSet DEF Sending
    <2>5. \A x \in X : IsByte(x)
      <3> SUFFICES ASSUME NEW x \in X PROVE IsByte(x)
        OBVIOUS
      <3>1. CASE x \in ToSet(wire)
        BY <3>1 DEF TypeOK, BytesOK, ToSet
      <3>2. CASE x \in ToSet(frame)
        <4>1. PICK i \in DOMAIN frame : x = frame[i]
          BY <3>2 DEF ToSet
        <4>2. /\ p.command \in Names /\ Size(p) \in Nat \ {0} /\ k \in Nat \ {0}
              /\ Len(frame) \in Nat /\ k + Len(frame) = 3 + Size(p) /\ BytesOf(frame, p, k)
          BY <2>3, FrameBytes DEF TypeOK, Sending
        <4> HIDE DEF p, k
        <4>3. i \in 1..Len(frame)
          BY <2>3, <4>1 DEF Sending
        <4>4. x = [of |-> p, byte |-> k + i - 1]
          BY <4>1, <4>2, <4>3 DEF BytesOf
        <4>5. k + i - 1 \in 1..(2 + Size(p))
          BY <4>2, <4>3
        <4>6. x.of = p /\ x.byte = k + i - 1 /\ DOMAIN x = {"of", "byte"}
          BY <4>4
        <4> QED
          BY <4>2, <4>5, <4>6 DEF IsByte, Names
      <3> QED
        BY <3>1, <3>2
    <2> HIDE DEF X, p, k, part
    <2>6. \A i \in DOMAIN wire' : IsByte(wire[i])'
      <3>1. wire' \in Seq(X)
        BY <2>3 DEF Sending
      <3>2. \A i \in DOMAIN wire' : wire'[i] \in X
        BY <3>1
      <3> QED
        BY <2>5, <3>2 DEF IsByte
    <2>7. ASSUME frame' # <<>>
          PROVE  /\ frame'[1] = [of |-> p, byte |-> k + n]
                 /\ k + n \in 1..(2 + Size(p)) /\ (k + n) + Len(frame') = 3 + Size(p)
                 /\ \A i \in DOMAIN frame' : frame'[i] = [of |-> p, byte |-> (k + n) + i - 1]
      <3>1. /\ Len(frame') \in Nat \ {0} /\ DOMAIN frame' = 1..Len(frame')
            /\ Len(frame') = Len(frame) - n /\ BytesOf(frame', p, k + n)
            /\ k \in Nat \ {0} /\ n \in Nat \ {0} /\ Len(frame) \in Nat /\ Size(p) \in Nat
            /\ k + Len(frame) = 3 + Size(p)
        BY <2>3, <2>7 DEF Sending
      <3>2. \A i \in DOMAIN frame' : frame'[i] = [of |-> p, byte |-> (k + n) + i - 1]
        BY <3>1 DEF BytesOf
      <3>3. 1 \in DOMAIN frame' /\ (k + n) + 1 - 1 = k + n
        BY <3>1
      <3>4. frame'[1] = [of |-> p, byte |-> k + n]
        BY <3>2, <3>3
      <3> QED
        BY <3>1, <3>2, <3>4
    <2>8. ASSUME frame' # <<>>
          PROVE  /\ IsByte(frame[1])' /\ frame'[1].byte + Len(frame') = 3 + Size(frame'[1].of)
                 /\ \A i \in DOMAIN frame' :
                      frame'[i] = [of |-> frame'[1].of, byte |-> frame'[1].byte + i - 1]
      <3>1. frame'[1].of = p /\ frame'[1].byte = k + n /\ DOMAIN frame'[1] = {"of", "byte"}
        BY <2>7, <2>8
      <3>2. p.command \in DOMAIN Commands
        BY <2>3 DEF Sending, Names
      <3> QED
        BY <2>7, <2>8, <3>1, <3>2 DEF IsByte
    <2>9. BytesOK'
      BY <2>1, <2>4, <2>6, <2>8 DEF BytesOK
    <2> QED
      BY <2>1, <2>2, <2>9 DEF TypeOK
  <1>2. CASE SendFails
    <2>1. UNCHANGED <<mode, typed, macs, input, step, line, at, words, word, frame, wire>>
          /\ pc' = "exited"
      BY <1>2 DEF SendFails, given, splitter
    <2>2. LineOK'
      BY <2>1 DEF TypeOK, LineOK
    <2>3. BytesOK'
      BY <2>1, BytesStay DEF TypeOK
    <2> QED
      BY <2>1, <2>2, <2>3 DEF TypeOK
  <1>3. CASE Written
    <2>1. UNCHANGED <<mode, typed, macs, input, step, at, words, word, frame, wire>>
          /\ pc' = Caller /\ line' = <<>> /\ frame = <<>> /\ pc' \in {"main", "linein"}
          /\ Caller' = Caller
      BY <1>3 DEF Written, Return, given, Caller
    <2>2. <<>> \in Seq(Characters)
      OBVIOUS
    <2>3. LineOK'
      BY <2>1, <2>2 DEF TypeOK, LineOK
    <2>4. BytesOK'
      BY <2>1, BytesStay DEF TypeOK
    <2> QED
      BY <2>1, <2>3, <2>4 DEF TypeOK
  <1> QED
    BY <1>1, <1>2, <1>3

LEMMA TypeStep == ASSUME TypeOK, Next PROVE TypeOK'
  BY CallTypes, SplitTypes, DispatchTypes, SendTypes DEF Next

\* The line, its words and the bytes are what they should be: no more than four words,
\* each within its array, and the unsent bytes are the end of one packet.
THEOREM CommandTypes == Spec => []TypeOK
  <1>1. ASSUME TypeOK, UNCHANGED vars PROVE TypeOK'
    BY <1>1 DEF TypeOK, LineOK, BytesOK, Caller, IsByte, vars, given, splitter
  <1>2. TypeOK /\ [Next]_vars => TypeOK'
    BY <1>1, TypeStep
  <1> QED
    BY <1>2, TypeInit, PTL DEF Spec

-----------------------------------------------------------------------------
(* The line and its words. *)

\* What is behind a place begins with the element there.
LEMMA SuffixStep ==
  ASSUME NEW X, NEW s \in Seq(X), NEW k \in 1..Len(s)
  PROVE  /\ s[k] \in X /\ SubSeq(s, k + 1, Len(s)) \in Seq(X)
         /\ SubSeq(s, k, Len(s)) = <<s[k]>> \o SubSeq(s, k + 1, Len(s))
  <1> DEFINE x == SubSeq(s, k, Len(s))
             m == k + 1
             r == SubSeq(s, m, Len(s))
             y == <<s[k]>> \o r
             h == <<s[k]>>
  <1>1. Len(s) \in Nat /\ k \in Nat \ {0} /\ k <= Len(s) /\ s[k] \in X
    OBVIOUS
  <1>2. k \in 1..(Len(s) + 1) /\ m \in 1..(Len(s) + 1)
    BY <1>1
  <1>3. x \in Seq(X) /\ Len(x) = Len(s) + 1 - k /\ \A n \in 1..Len(x) : x[n] = s[n + k - 1]
    BY <1>2, SuffixIs
  <1> HIDE DEF m
  <1>4. r \in Seq(X) /\ Len(r) = Len(s) + 1 - m /\ \A n \in 1..Len(r) : r[n] = s[n + m - 1]
    BY <1>2, SuffixIs
  <1>5. h \in Seq(X) /\ Len(h) = 1 /\ h[1] = s[k]
    BY <1>1, ShortSeqs
  <1> HIDE DEF x, r, h
  <1>6. /\ h \o r \in Seq(X) /\ Len(h \o r) = 1 + Len(r) /\ (h \o r)[1] = s[k]
        /\ \A n \in 1..Len(r) : (h \o r)[1 + n] = r[n]
    <2>1. /\ h \o r \in Seq(X) /\ Len(h \o r) = Len(h) + Len(r)
          /\ \A n \in 1..Len(h) : (h \o r)[n] = h[n]
          /\ \A n \in 1..Len(r) : (h \o r)[Len(h) + n] = r[n]
      <3>1. h \in Seq(X) /\ r \in Seq(X)
        BY <1>4, <1>5
      <3> QED
        BY <3>1, ConcatIs
    <2> QED
      BY <1>5, <2>1
  <1> DEFINE u == h \o r
  <1> HIDE DEF u
  <1>7. u \in Seq(X) /\ Len(u) = Len(x)
    BY <1>1, <1>3, <1>4, <1>6 DEF u, m
  <1>8. ASSUME NEW n \in 1..Len(x) PROVE x[n] = u[n]
    <2>1. CASE n = 1
      <3>1. x[1] = s[1 + k - 1] /\ 1 + k - 1 = k
        BY <1>1, <1>3, <2>1
      <3> QED
        BY <1>6, <2>1, <3>1 DEF u
    <2>2. CASE n # 1
      <3> DEFINE j == n - 1
      <3>1. j \in 1..Len(r) /\ 1 + j = n /\ j + m - 1 = n + k - 1
        BY <1>1, <1>3, <1>4, <2>2 DEF m
      <3> HIDE DEF j
      <3>2. u[n] = r[j]
        BY <1>6, <3>1 DEF u
      <3>3. r[j] = s[n + k - 1]
        BY <1>4, <3>1
      <3> QED
        BY <1>3, <3>2, <3>3
    <2> QED
      BY <2>1, <2>2
  <1>9. x = u
    BY <1>3, <1>7, <1>8, SeqEqual
  <1>10. x = h \o r
    BY <1>9 DEF u
  <1> QED
    BY <1>1, <1>4, <1>10 DEF x, h, r, m

LEMMA AppendIs ==
  ASSUME NEW X, NEW s \in Seq(X), NEW x \in X
  PROVE  Append(s, x) = s \o <<x>>
  OBVIOUS

\* handle_line begins with all of its text.
LEMMA HandleSplits ==
  ASSUME NEW text \in Text, Handle(text), UNCHANGED mode,
         mode = "mqtt" => text # <<>> /\ text[1] \in {"getInfo", "connect"}
  PROVE  Splitting'
  <1>1. line' = text /\ at' = 1 /\ words' = <<>> /\ word' = <<>> /\ pc' = "split"
    BY DEF Handle
  <1>2. <<>> \o SubSeq(text, 1, Len(text)) = text
    <2>1. text \in Seq(Characters)
      BY DEF Text
    <2>2. SubSeq(text, 1, Len(text)) = text /\ <<>> \o text = text
      BY <2>1, SeqIs
    <2> QED
      BY <2>2
  <1>3. <<>> \o WordsOf[text] = WordsOf[text]
    <2>1. WordsOf[text] \in Seq(Text)
      BY WordsOfIs
    <2> QED
      BY <2>1, SeqIs
  <1>4. WordsOf[line'] = words' \o WordsOf[word' \o SubSeq(line', at', Len(line'))]
    BY <1>1, <1>2, <1>3
  <1>5. \A n \in DOMAIN word' : word'[n] # Blank
    BY <1>1
  <1> QED
    BY <1>1, <1>4, <1>5 DEF Splitting

LEMMA CallSplits ==
  ASSUME TypeOK, Splitting, GetInfo \/ Connect \/ NoButton \/ Linein
  PROVE  Splitting'
  <1>0. MacsOK
    BY GivenIs DEF TypeOK
  <1>1. UNCHANGED <<mode, macs>> /\ pc = Caller
    BY DEF GetInfo, Connect, NoButton, Linein, given, TypeOK, LineOK, Caller
  <1>2. CASE GetInfo
    <2> DEFINE text == <<"getInfo">>
    <2>1. text \in Text /\ text # <<>> /\ text[1] = "getInfo"
      <3>1. text \in Seq(Characters)
        BY CharactersAre, ShortSeqs
      <3> QED
        BY <3>1 DEF Text
    <2>2. Handle(text)
      BY <1>2 DEF GetInfo
    <2> HIDE DEF text
    <2> QED
      BY <1>1, <2>1, <2>2, HandleSplits
  <1>3. CASE Connect
    <2>1. step \in DOMAIN macs /\ pc = "main"
      BY <1>3 DEF Connect
    <2>2. PICK mac \in macs[step] :
            LET text == <<"connect", Blank>> \o mac \o <<Blank, Digit(step)>>
            IN  IF Len(text) <= CmdSize THEN Handle(text)
                  ELSE pc' = "overrun" /\ UNCHANGED splitter
      BY <1>3 DEF Connect
    <2> DEFINE text == <<"connect", Blank>> \o mac \o <<Blank, Digit(step)>>
    <2>3. text \in Text /\ text[1] = "connect" /\ Len(text) = Len(mac) + 4
      BY <1>0, <2>1, ConnectText
    <2>4. Handle(text) \/ (pc' = "overrun" /\ UNCHANGED splitter)
      BY <2>2
    <2>5. Len(mac) \in Nat
      <3>1. macs[step] \subseteq Text
        BY <1>0, <2>1 DEF MacsOK
      <3> HIDE DEF text
      <3>2. mac \in Seq(Characters)
        BY <3>1 DEF Text
      <3> QED
        BY <3>2
    <2> HIDE DEF text
    <2>6. text # <<>>
      BY <2>3, <2>5 DEF Text
    <2>7. CASE Handle(text)
      BY <1>1, <2>3, <2>6, <2>7, HandleSplits
    <2>8. CASE pc' = "overrun" /\ UNCHANGED splitter
      BY <2>8 DEF Splitting
    <2> QED
      BY <2>4, <2>7, <2>8
  <1>4. CASE NoButton
    BY <1>1, <1>4 DEF NoButton, Splitting, splitter
  <1>5. CASE Linein
    <2>1. pc = "linein" /\ mode # "mqtt" /\ line \in Text /\ input \in Seq(Characters)
          /\ \A n \in DOMAIN line : line[n] # "\n"
      BY <1>1, <1>5 DEF Linein, Caller, TypeOK, LineOK, Text, Splitting
    <2>2. CASE pc' = "returned"
      BY <2>2 DEF Splitting
    <2>3. CASE Handle(line)
      BY <1>1, <2>1, <2>3, HandleSplits
    <2>4. CASE /\ input # <<>> /\ Head(input) # "\n" /\ pc' = pc
               /\ line' \in {line, Append(line, Blank), Append(line, Head(input))}
      <3>1. Blank # "\n" /\ Blank \in Characters /\ Head(input) \in Characters
        BY <2>1, <2>4, BlankIs, CharactersAre
      <3>2. ASSUME NEW c \in Characters, c # "\n"
            PROVE  \A n \in DOMAIN Append(line, c) : Append(line, c)[n] # "\n"
        <4>1. line \in Seq(Characters)
          BY <2>1 DEF Text
        <4>2. /\ DOMAIN Append(line, c) = 1..(Len(line) + 1) /\ Len(line) \in Nat
              /\ \A n \in 1..Len(line) : Append(line, c)[n] = line[n]
              /\ Append(line, c)[Len(line) + 1] = c
          BY <4>1, AppendProperties
        <4>3. DOMAIN line = 1..Len(line)
          BY <4>1
        <4> QED
          BY <2>1, <3>2, <4>2, <4>3
      <3>3. \A n \in DOMAIN line' : line'[n] # "\n"
        BY <2>1, <2>4, <3>1, <3>2
      <3>4. pc' = "linein"
        BY <2>1, <2>4
      <3> QED
        BY <3>3, <3>4 DEF Splitting
    <2> QED
      BY <1>5, <2>2, <2>3, <2>4 DEF Linein
  <1> QED
    BY <1>2, <1>3, <1>4, <1>5

LEMMA SplitSplits ==
  ASSUME TypeOK, Splitting, Letter \/ Space \/ EndOfLine
  PROVE  Splitting'
  <1> DEFINE rest == SubSeq(line, at, Len(line))
             next == SubSeq(line, at + 1, Len(line))
  <1>1. UNCHANGED <<mode, line>> /\ pc = "split"
    BY DEF Letter, Space, EndOfLine, given
  <1>2. /\ line \in Seq(Characters) /\ word \in Seq(Characters) /\ words \in Seq(Text)
        /\ at \in 1..(Len(line) + 1) /\ Len(line) \in Nat
    <2>1. /\ line \in Seq(Characters) /\ word \in Seq(Characters) /\ words \in Seq(Seq(Characters))
          /\ at \in Nat \ {0} /\ at <= Len(line) + 1
      BY <1>1 DEF TypeOK, LineOK
    <2> QED
      BY <2>1 DEF Text
  <1>3. /\ \A n \in DOMAIN word : word[n] # Blank
        /\ WordsOf[line] = words \o WordsOf[word \o rest]
        /\ mode = "mqtt" => line # <<>> /\ line[1] \in {"getInfo", "connect"}
    BY <1>1 DEF Splitting
  <1>4. DOMAIN word = 1..Len(word) /\ Len(word) \in Nat
    BY <1>2
  <1>5. word \in Text /\ \A n \in 1..Len(word) : word[n] # Blank
    BY <1>2, <1>3, <1>4 DEF Text
  <1>6. WordsOf[word] = WordOrNone(word)
        /\ \A r \in Text : WordsOf[word \o <<Blank>> \o r] = WordOrNone(word) \o WordsOf[r]
    BY <1>5, WordsFirst
  <1>7. ASSUME at <= Len(line)
        PROVE  line[at] \in Characters /\ next \in Seq(Characters) /\ rest = <<line[at]>> \o next
    <2>1. at \in 1..Len(line)
      BY <1>2, <1>7
    <2> QED
      BY <1>2, <2>1, SuffixStep
  <1>8. WordOrNone(word) \in Seq(Text)
    BY <1>5, ShortSeqs DEF WordOrNone
  <1>9. words \o WordOrNone(word) = IF word = <<>> THEN words ELSE Append(words, word)
    <2>1. word = <<>> => words \o <<>> = words
      BY <1>2, SeqIs
    <2>2. Append(words, word) = words \o <<word>>
      BY <1>2, <1>5, AppendIs
    <2> QED
      BY <2>1, <2>2 DEF WordOrNone
  <1> HIDE DEF rest, next
  <1>10. CASE Letter
    <2>1. at <= Len(line) /\ line[at] # Blank /\ word' = Append(word, line[at]) /\ at' = at + 1
          /\ words' = words /\ pc' \in {"overrun", "aborted", "split"}
      BY <1>10 DEF Letter
    <2>2. word' = word \o <<line[at]>>
      BY <1>2, <1>7, <2>1, AppendIs
    <2>3. (word \o <<line[at]>>) \o next = word \o (<<line[at]>> \o next)
      <3>1. <<line[at]>> \in Seq(Characters) /\ next \in Seq(Characters) /\ word \in Seq(Characters)
        BY <1>2, <1>7, <2>1, ShortSeqs
      <3>2. Associates(Characters)
        BY ConcatAssoc
      <3> QED
        BY <3>1, <3>2 DEF Associates
    <2>4. word' \o next = word \o rest
      BY <1>7, <2>1, <2>2, <2>3
    <2>5. next = SubSeq(line', at', Len(line'))
      BY <1>1, <2>1 DEF next
    <2>6. WordsOf[line'] = words' \o WordsOf[word' \o SubSeq(line', at', Len(line'))]
      BY <1>1, <1>3, <2>1, <2>4, <2>5
    <2>7. \A n \in DOMAIN word' : word'[n] # Blank
      <3>1. /\ DOMAIN Append(word, line[at]) = 1..(Len(word) + 1)
            /\ \A n \in 1..Len(word) : Append(word, line[at])[n] = word[n]
            /\ Append(word, line[at])[Len(word) + 1] = line[at]
        BY <1>2, <1>7, <2>1, AppendProperties
      <3> QED
        BY <1>4, <1>5, <2>1, <3>1
    <2> QED
      BY <1>1, <1>3, <2>1, <2>6, <2>7 DEF Splitting
  <1>11. CASE Space
    <2>1. at <= Len(line) /\ line[at] = Blank /\ word' = <<>> /\ at' = at + 1 /\ pc' = "split"
          /\ words' = IF word = <<>> THEN words ELSE Append(words, word)
      BY <1>1, <1>11 DEF Space
    <2>2. WordsOf[word \o (<<Blank>> \o next)] = WordOrNone(word) \o WordsOf[next]
      <3>1. <<Blank>> \in Seq(Characters) /\ next \in Seq(Characters) /\ word \in Seq(Characters)
        BY <1>2, <1>7, <2>1, ShortSeqs
      <3>2. Associates(Characters)
        BY ConcatAssoc
      <3>3. (word \o <<Blank>>) \o next = word \o (<<Blank>> \o next)
        BY <3>1, <3>2 DEF Associates
      <3>4. WordsOf[word \o <<Blank>> \o next] = WordOrNone(word) \o WordsOf[next]
        BY <1>6, <3>1 DEF Text
      <3> QED
        BY <3>3, <3>4
    <2>3. WordsOf[line] = words \o (WordOrNone(word) \o WordsOf[next])
      BY <1>3, <1>7, <2>1, <2>2
    <2>4. WordsOf[line] = words' \o WordsOf[next]
      <3>1. WordsOf[next] \in Seq(Text)
        BY <1>7, <2>1, WordsOfIs DEF Text
      <3>2. Associates(Text)
        BY ConcatAssoc
      <3>3. (words \o WordOrNone(word)) \o WordsOf[next] = words \o (WordOrNone(word) \o WordsOf[next])
        BY <1>2, <1>8, <3>1, <3>2 DEF Associates
      <3> QED
        BY <1>9, <2>1, <2>3, <3>3
    <2>5. word' \o next = next
      BY <1>7, <2>1, SeqIs
    <2>6. next = SubSeq(line', at', Len(line'))
      BY <1>1, <2>1 DEF next
    <2>7. WordsOf[line'] = words' \o WordsOf[word' \o SubSeq(line', at', Len(line'))]
      BY <1>1, <2>4, <2>5, <2>6
    <2>8. \A n \in DOMAIN word' : word'[n] # Blank
      BY <2>1
    <2> QED
      BY <1>1, <1>3, <2>1, <2>7, <2>8 DEF Splitting
  <1>12. CASE EndOfLine
    <2>1. at > Len(line) /\ pc' = "dispatch"
          /\ words' = IF word = <<>> THEN words ELSE Append(words, word)
      BY <1>12 DEF EndOfLine
    <2>2. rest = <<>>
      BY <1>2, <2>1 DEF rest
    <2>3. word \o rest = word
      BY <1>2, <2>2, SeqIs
    <2>4. words' = WordsOf[line']
      BY <1>1, <1>3, <1>6, <1>9, <2>1, <2>3
    <2> QED
      BY <1>1, <1>3, <2>1, <2>4 DEF Splitting
  <1> QED
    BY <1>10, <1>11, <1>12

LEMMA SplittingStep == ASSUME TypeOK, Splitting, Next PROVE Splitting'
  <1>1. CASE Dispatch
    <2>1. \/ pc' \in {"returned", "aborted", "overrun", "write"}
          \/ pc' = Caller /\ line' = <<>>
      BY <1>1, DispatchIs
    <2>2. pc' = Caller => pc' \notin {"split", "dispatch"}
      BY DEF Caller
    <2> QED
      BY <2>1, <2>2 DEF Splitting
  <1>2. CASE Send \/ SendFails
    <2>1. pc' \in {"write", "exited"}
      BY <1>2 DEF Send, SendFails
    <2> QED
      BY <2>1 DEF Splitting
  <1>3. CASE Written
    <2>1. pc' = Caller /\ line' = <<>>
      BY <1>3 DEF Written, Return
    <2>2. pc' \notin {"split", "dispatch"}
      BY <2>1 DEF Caller
    <2> QED
      BY <2>1, <2>2 DEF Splitting
  <1> QED
    BY <1>1, <1>2, <1>3, CallSplits, SplitSplits DEF Next

LEMMA SplittingInit == Init => Splitting
  BY DEF Init, Splitting

-----------------------------------------------------------------------------
(* The bytes. *)

LEMMA FollowingInit == Init => Following
  BY DEF Init, Following, PacketsWhole

LEMMA FollowingStay ==
  ASSUME Following, UNCHANGED <<wire, frame>>
  PROVE  Following'
  BY DEF Following, PacketsWhole

LEMMA FollowingDispatch ==
  ASSUME TypeOK, Following, Dispatch
  PROVE  Following'
  <1>1. wire' = wire /\ frame = <<>>
    BY DispatchIs
  <1>2. CASE frame' = frame
    BY <1>1, <1>2, FollowingStay
  <1>3. CASE frame' # frame
    <2>0. PICK c \in Named(words[1]) : \E p \in Packets(c, words) : frame' = Frame(p)
      BY <1>3, DispatchIs
    <2>1. PICK p \in Packets(c, words) : frame' = Frame(p)
      BY <2>0
    <2>2. p.command \in Names
      BY NamedIs, PacketIs
    <2>3. 1 \in DOMAIN frame' /\ frame'[1] = [of |-> p, byte |-> 1]
      BY <2>1, <2>2, FrameIs
    <2>4. frame'[1].byte = 1
      BY <2>3
    <2> QED
      BY <1>1, <2>4 DEF Following, PacketsWhole
  <1> QED
    BY <1>2, <1>3

LEMMA FollowingSend ==
  ASSUME TypeOK, Following, Send
  PROVE  Following'
  <1> DEFINE X == ToSet(wire) \union ToSet(frame)
             p == frame[1].of
             k == frame[1].byte
             size == Size(p)
             l == Len(wire)
             end == wire[l].byte = 2 + Size(wire[l].of)
  <1>1. PICK n \in 1..Len(frame) : Sending(X, p, k, n, SubSeq(frame, 1, n))
    BY SendIs
  <1> DEFINE part == SubSeq(frame, 1, n)
             m == Len(frame)
  <1>2. Sending(X, p, k, n, part)
    BY <1>1
  <1>3. /\ PacketsWhole
        /\ k = 1 => (wire # <<>> => end)
        /\ k # 1 => wire # <<>> /\ wire[l] = [of |-> p, byte |-> k - 1]
    BY <1>2 DEF Following, Sending
  <1> HIDE DEF X, p, k, part
  <1>4. /\ size \in Nat \ {0} /\ k \in Nat \ {0} /\ n \in Nat \ {0} /\ m \in Nat /\ n <= m
        /\ k + m = 3 + size /\ Len(frame') = m - n /\ l \in Nat /\ Len(part) = n
    BY <1>2 DEF Sending
  <1>5. /\ \A i \in 1..n : part[i] = [of |-> p, byte |-> k + i - 1]
        /\ \A i \in 1..(m - n) : frame'[i] = [of |-> p, byte |-> (k + n) + i - 1]
    BY <1>2, <1>4 DEF Sending, BytesOf
  <1>6. /\ wire' = wire \o part /\ wire \in Seq(X) /\ part \in Seq(X) /\ wire' \in Seq(X)
    BY <1>2 DEF Sending
  <1>7. /\ Len(wire') = l + n /\ DOMAIN wire' = 1..(l + n) /\ DOMAIN wire = 1..l
        /\ \A i \in 1..l : wire'[i] = wire[i]
        /\ \A i \in 1..n : wire'[l + i] = [of |-> p, byte |-> k + i - 1]
    <2>1. /\ Len(wire \o part) = Len(wire) + Len(part)
          /\ \A i \in 1..Len(wire) : (wire \o part)[i] = wire[i]
          /\ \A i \in 1..Len(part) : (wire \o part)[Len(wire) + i] = part[i]
      BY <1>6, ConcatIs
    <2>2. /\ Len(wire') = l + n
          /\ \A i \in 1..l : wire'[i] = wire[i]
          /\ \A i \in 1..n : wire'[l + i] = part[i]
      BY <1>4, <1>6, <2>1
    <2>3. \A i \in 1..n : wire'[l + i] = [of |-> p, byte |-> k + i - 1]
      BY <1>5, <2>2
    <2>4. DOMAIN wire' = 1..(l + n) /\ DOMAIN wire = 1..l
      BY <1>6, <2>2
    <2> QED
      BY <2>2, <2>3, <2>4
  <1>8. wire # <<>> <=> l > 0
    BY <1>6
  <1> HIDE DEF l, m, size
  <1>9. ASSUME NEW i \in DOMAIN wire'
        PROVE  IF wire'[i].byte = 1
                 THEN i > 1 => wire'[i - 1].byte = 2 + Size(wire'[i - 1].of)
                 ELSE i > 1 /\ wire'[i - 1] = [of |-> wire'[i].of, byte |-> wire'[i].byte - 1]
    <2>0. i \in 1..(l + n)
      BY <1>7
    <2>1. CASE i \in 1..l
      <3>1. wire'[i] = wire[i] /\ i \in DOMAIN wire
        BY <1>7, <2>1
      <3>2. i > 1 => wire'[i - 1] = wire[i - 1]
        <4>1. i > 1 => i - 1 \in 1..l
          BY <1>4, <2>1
        <4> QED
          BY <1>7, <4>1
      <3>3. IF wire[i].byte = 1
              THEN i > 1 => wire[i - 1].byte = 2 + Size(wire[i - 1].of)
              ELSE i > 1 /\ wire[i - 1] = [of |-> wire[i].of, byte |-> wire[i].byte - 1]
        BY <1>3, <3>1 DEF PacketsWhole
      <3> QED
        BY <3>1, <3>2, <3>3
    <2>2. CASE i = l + 1
      <3>1. wire'[i] = [of |-> p, byte |-> k]
        <4>1. 1 \in 1..n /\ k + 1 - 1 = k
          BY <1>4
        <4> QED
          BY <1>7, <2>2, <4>1
      <3>2. wire'[i].of = p /\ wire'[i].byte = k
        BY <3>1
      <3>3. i > 1 => wire # <<>> /\ i - 1 = l /\ wire'[i - 1] = wire[l]
        <4>1. i > 1 => l \in 1..l /\ i - 1 = l
          BY <1>4, <2>2
        <4> QED
          BY <1>4, <1>7, <1>8, <2>2, <4>1
      <3>4. wire # <<>> => i > 1
        BY <1>4, <1>8, <2>2
      <3>5. CASE k = 1
        BY <1>3, <3>2, <3>3, <3>5
      <3>6. CASE k # 1
        BY <1>3, <3>2, <3>3, <3>4, <3>6
      <3> QED
        BY <3>5, <3>6
    <2>3. CASE i > l + 1
      <3> DEFINE j == i - l
                 h == j - 1
      <3>1. j \in 1..n /\ h \in 1..n /\ i = l + j /\ i - 1 = l + h /\ k + j - 1 # 1 /\ i > 1
            /\ (k + j - 1) - 1 = k + h - 1
        <4>1. l \in Nat /\ n \in Nat \ {0} /\ k \in Nat \ {0} /\ i \in Nat /\ i > l + 1 /\ i <= l + n
          BY <1>4, <2>0, <2>3
        <4>2. j \in Nat /\ j > 1 /\ j <= n /\ i = l + j
          BY <4>1
        <4> HIDE DEF j
        <4>3. h \in Nat \ {0} /\ h <= n /\ i - 1 = l + h /\ (k + j - 1) - 1 = k + h - 1
          BY <4>1, <4>2
        <4> QED
          BY <4>1, <4>2, <4>3
      <3> HIDE DEF j, h
      <3>2. wire'[i] = [of |-> p, byte |-> k + j - 1] /\ wire'[i - 1] = [of |-> p, byte |-> k + h - 1]
        BY <1>7, <3>1
      <3>3. wire'[i].of = p /\ wire'[i].byte = k + j - 1
        BY <3>2
      <3> QED
        BY <3>1, <3>2, <3>3
    <2> QED
      BY <1>4, <2>0, <2>1, <2>2, <2>3
  <1>10. PacketsWhole'
    BY <1>9 DEF PacketsWhole
  <1>11. wire' # <<>> /\ wire'[Len(wire')] = [of |-> p, byte |-> k + n - 1]
    <2>1. n \in 1..n /\ Len(wire') > 0
      BY <1>4, <1>7
    <2> QED
      BY <1>6, <1>7, <2>1
  <1>12. CASE frame' = <<>>
    <2>1. m = n /\ k + n - 1 = 2 + size
      <3>1. Len(frame') = 0
        BY <1>12
      <3> QED
        BY <1>4, <3>1
    <2>2. wire'[Len(wire')].byte = k + n - 1 /\ wire'[Len(wire')].of = p
      BY <1>11
    <2>3. wire'[Len(wire')].byte = 2 + Size(wire'[Len(wire')].of)
      BY <2>1, <2>2 DEF size
    <2> QED
      BY <1>10, <1>12, <2>3 DEF Following
  <1>13. CASE frame' # <<>>
    <2>1. 1 \in 1..(m - n)
      <3>1. frame' \in Seq(X)
        BY <1>2 DEF Sending
      <3>2. Len(frame') # 0
        BY <1>13, <3>1
      <3> QED
        BY <1>4, <3>2
    <2>2. frame'[1] = [of |-> p, byte |-> k + n]
      <3>1. (k + n) + 1 - 1 = k + n
        BY <1>4
      <3> QED
        BY <1>5, <2>1, <3>1
    <2>3. frame'[1].of = p /\ frame'[1].byte = k + n
      BY <2>2
    <2>4. k + n # 1 /\ (k + n) - 1 = k + n - 1
      BY <1>4
    <2> QED
      BY <1>10, <1>11, <1>13, <2>3, <2>4 DEF Following
  <1> QED
    BY <1>12, <1>13

LEMMA FollowingStep == ASSUME TypeOK, Following, Next PROVE Following'
  <1>1. CASE GetInfo \/ Connect \/ NoButton \/ Linein \/ Letter \/ Space \/ EndOfLine
             \/ SendFails \/ Written
    <2>1. UNCHANGED <<wire, frame>>
      BY <1>1 DEF GetInfo, Connect, NoButton, Linein, Letter, Space, EndOfLine,
         SendFails, Written, Return
    <2> QED
      BY <2>1, FollowingStay
  <1> QED
    BY <1>1, FollowingDispatch, FollowingSend DEF Next

-----------------------------------------------------------------------------
(* The lines that are left, and what they ask for. *)

\* The lines behind the one in hand.
Behind == IF mode = "interact" THEN LinesOf[Plain(input)] ELSE LinesFrom(step)

LeftOK ==
  /\ Behind \in Seq(Text) /\ LinesLeft \in Seq(Text) /\ Demands \in Seq(Text)
  /\ pc \in {"split", "dispatch"} => LinesLeft = <<line>> \o Behind
  /\ pc \in {"main", "write"} => LinesLeft = Behind
  /\ pc = "linein" => LinesLeft = LinesOf[line \o Plain(input)]
  /\ pc = "linein" /\ line = <<>> => LinesLeft = Behind

LEMMA LeftIs == TypeOK => LeftOK
  <1> SUFFICES ASSUME TypeOK PROVE LeftOK
    OBVIOUS
  <1>0. MacsOK /\ typed \in Text
    BY GivenIs DEF TypeOK
  <1>1. /\ input \in Text /\ line \in Text /\ step \in 0..LastStep
        /\ pc = "main" => mode # "interact"
        /\ pc = "linein" => mode = "interact"
    BY CommandLineAssumption
       DEF TypeOK, LineOK, Caller, Text, LastStep, CommandLineAssumption
  <1>2. Plain(input) \in Text /\ Plain(typed) \in Text
    BY <1>0, <1>1, PlainIs
  <1>3. Behind \in Seq(Text)
    <2>1. LinesFrom(step) \in Seq(Text)
      BY <1>0, <1>1, LinesFromIs
    <2> QED
      BY <1>2, <2>1, LinesOfIs DEF Behind
  <1>4. <<>> \o Plain(input) = Plain(input) /\ line \o Plain(input) \in Text
    <2>1. Plain(input) \in Seq(Characters) /\ line \in Seq(Characters)
      BY <1>1, <1>2 DEF Text
    <2>2. <<>> \o Plain(input) = Plain(input)
      BY <2>1, SeqIs
    <2>3. line \o Plain(input) \in Seq(Characters)
      BY <2>1, ConcatProperties
    <2> QED
      BY <2>2, <2>3 DEF Text
  <1> DEFINE rest == IF mode = "interact"
                       THEN LinesOf[(IF pc = "linein" THEN line ELSE <<>>) \o Plain(input)]
                       ELSE LinesFrom(step)
  <1>5. rest = (IF pc = "linein" THEN LinesOf[line \o Plain(input)] ELSE Behind)
    BY <1>1, <1>4 DEF Behind
  <1>6. LinesLeft = (IF pc \in {"split", "dispatch"} THEN <<line>> ELSE <<>>) \o rest
    BY DEF LinesLeft
  <1> HIDE DEF rest
  <1>7. LinesOf[line \o Plain(input)] \in Seq(Text)
    BY <1>4, LinesOfIs
  <1>8. rest \in Seq(Text)
    BY <1>3, <1>5, <1>7
  <1>9. <<>> \o rest = rest /\ <<line>> \in Seq(Text)
    BY <1>1, <1>8, SeqIs, ShortSeqs
  <1>10. LinesLeft = IF pc \in {"split", "dispatch"} THEN <<line>> \o rest ELSE rest
    BY <1>6, <1>9
  <1>11. LinesLeft \in Seq(Text)
    BY <1>8, <1>9, <1>10, ConcatProperties
  <1>12. pc = "linein" /\ line = <<>> => LinesLeft = Behind
    BY <1>1, <1>4, <1>5, <1>10 DEF Behind
  <1>13. Demands \in Seq(Text)
    <2>1. LinesOf[Plain(typed)] \in Seq(Text)
      BY <1>2, LinesOfIs
    <2>2. 0 \in 0..LastStep
      BY <1>0, LinesFromIs
    <2>3. LinesFrom(0) \in Seq(Text)
      BY <1>0, <2>2, LinesFromIs
    <2>4. LinesGiven \in Seq(Text)
      BY <2>1, <2>3 DEF LinesGiven
    <2> QED
      BY <2>4, AskingIs DEF Demands
  <1> QED
    BY <1>3, <1>5, <1>10, <1>11, <1>12, <1>13 DEF LeftOK

LEMMA LeftNext == TypeOK' => LeftOK'
  BY LeftIs, PTL

LEMMA GivenStays ==
  ASSUME UNCHANGED <<mode, typed, macs>>
  PROVE  /\ Demands' = Demands /\ LinesFrom(step)' = LinesFrom(step')
         /\ MainLines(step)' = MainLines(step')
  BY DEF Demands, LinesGiven, LinesFrom, MainLines

\* Where nothing is sent, it is enough that the lines left ask for the same.
Active == {"main", "linein", "split", "dispatch", "write"}

LEMMA AnsweringStays ==
  ASSUME Answering, UNCHANGED <<mode, typed, macs, wire, frame>>,
         pc' \in Active => pc \in Active /\ Asking(LinesLeft') = Asking(LinesLeft)
  PROVE  Answering'
  <1>1. Demands' = Demands
    BY GivenStays
  <1>2. Begun' = Begun /\ Whole' = Whole /\ Asked' = Asked /\ frame' = frame
    BY DEF Begun, Whole, Asked
  <1>3. Asking(LinesLeft)' = Asking(LinesLeft')
    BY DEF Asking
  <1> QED
    BY <1>1, <1>2, <1>3 DEF Answering, Active

LEMMA AnsweringMain ==
  ASSUME TypeOK, TypeOK', Answering, GetInfo \/ Connect \/ NoButton
  PROVE  Answering'
  <1>0. MacsOK /\ LeftOK /\ LeftOK'
    BY GivenIs, LeftIs, LeftNext DEF TypeOK
  <1>1. UNCHANGED <<mode, typed, macs, wire, frame, input>> /\ pc = "main" /\ step' = step + 1
        /\ mode = "mqtt"
    BY DEF GetInfo, Connect, NoButton, given, TypeOK, LineOK, Caller
  <1>2. step \in Nat /\ step \in 0..(LastStep - 1)
    <2>1. LastStep \in Nat \ {0} /\ Len(macs) \in Nat /\ MaxEpochs \in Nat
      BY <1>0, LinesFromIs, CommandLineAssumption DEF MacsOK, CommandLineAssumption
    <2>2. step' \in 0..LastStep
      BY <1>1 DEF TypeOK, LineOK, LastStep
    <2>3. step \in Nat
      BY <2>1 DEF TypeOK, LineOK
    <2> QED
      BY <1>1, <2>1, <2>2, <2>3
  <1>3. LinesFrom(step) = MainLines(step) \o LinesFrom(step')
    BY <1>0, <1>1, <1>2, LinesFromIs
  <1>4. Behind = LinesFrom(step) /\ Behind' = LinesFrom(step')
    BY <1>1, GivenStays DEF Behind
  <1>5. LinesLeft = MainLines(step) \o Behind'
    BY <1>0, <1>1, <1>3, <1>4 DEF LeftOK
  <1>6. pc' \in Active => LinesLeft' = MainLines(step) \o Behind'
    <2>1. CASE GetInfo
      <3>1. line' = <<"getInfo">> /\ pc' = "split"
        BY <2>1 DEF GetInfo, Handle
      <3>2. step \notin DOMAIN macs
        BY <1>0, <2>1 DEF GetInfo, MacsOK
      <3>3. MainLines(step) = <<line'>>
        BY <3>1, <3>2 DEF MainLines
      <3>4. LinesLeft' = <<line'>> \o Behind'
        BY <1>0, <3>1 DEF LeftOK
      <3> QED
        BY <3>3, <3>4
    <2>2. CASE Connect
      <3>1. step \in DOMAIN macs
        BY <2>2 DEF Connect
      <3>2. PICK mac \in macs[step] :
              LET text == <<"connect", Blank>> \o mac \o <<Blank, Digit(step)>>
              IN  IF Len(text) <= CmdSize THEN Handle(text)
                    ELSE pc' = "overrun" /\ UNCHANGED splitter
        BY <2>2 DEF Connect
      <3> DEFINE text == <<"connect", Blank>> \o mac \o <<Blank, Digit(step)>>
      <3>3. MainLines(step) = <<text>>
        BY <1>0, <3>1, ConnectText
      <3>4. Handle(text) \/ pc' = "overrun"
        BY <3>2
      <3> HIDE DEF text
      <3>5. CASE Handle(text)
        <4>1. line' = text /\ pc' = "split"
          BY <3>5 DEF Handle
        <4>2. LinesLeft' = <<line'>> \o Behind'
          BY <1>0, <4>1 DEF LeftOK
        <4> QED
          BY <3>3, <4>1, <4>2
      <3>6. CASE pc' = "overrun"
        BY <3>6 DEF Active
      <3> QED
        BY <3>4, <3>5, <3>6
    <2>3. CASE NoButton
      <3>1. step \in DOMAIN macs /\ macs[step] = {} /\ pc' = "main"
        BY <1>1, <2>3 DEF NoButton
      <3>2. MainLines(step) = <<>>
        BY <3>1 DEF MainLines
      <3>3. <<>> \o Behind' = Behind'
        BY <1>0, SeqIs DEF LeftOK
      <3>4. LinesLeft' = Behind'
        BY <1>0, <3>1 DEF LeftOK
      <3> QED
        BY <3>2, <3>3, <3>4
    <2> QED
      BY <2>1, <2>2, <2>3
  <1>7. pc' \in Active => pc \in Active /\ Asking(LinesLeft') = Asking(LinesLeft)
    BY <1>1, <1>5, <1>6 DEF Active
  <1> QED
    BY <1>1, <1>7, AnsweringStays

LEMMA AnsweringLinein ==
  ASSUME TypeOK, TypeOK', Splitting, Answering, Linein
  PROVE  Answering'
  <1>0. LeftOK /\ LeftOK'
    BY LeftIs, LeftNext
  <1>1. UNCHANGED <<mode, typed, macs, wire, frame>> /\ pc = "linein" /\ mode = "interact"
        /\ line \in Text /\ input \in Text
    BY CommandLineAssumption
       DEF Linein, given, TypeOK, LineOK, Caller, Text, CommandLineAssumption
  <1>2. LinesLeft = LinesOf[line \o Plain(input)]
    BY <1>0, <1>1 DEF LeftOK
  <1>3. CASE pc' = "returned"
    <2>1. pc' \notin Active
      BY <1>3 DEF Active
    <2> QED
      BY <1>1, <2>1, AnsweringStays
  <1>4. CASE /\ input # <<>> /\ input' = Tail(input)
             /\ IF Head(input) = "\n"
                  THEN Handle(line)
                  ELSE /\ line' = CASE Head(input) = "\r" -> line
                                    [] Head(input) = "\t" -> Append(line, Blank)
                                    [] OTHER -> Append(line, Head(input))
                       /\ UNCHANGED <<pc, at, words, word>>
    <2> DEFINE c == Head(input)
               tail == Plain(input')
               part == PlainOf[c]
    <2>1. c \in Characters /\ input' \in Text
      BY <1>1, <1>4 DEF Text
    <2>2. Plain(input) = part \o tail /\ tail \in Text
      BY <1>1, <1>4, <2>1, PlainIs
    <2>3. Plain(input)' = tail
      BY DEF Plain
    <2>4. part = CASE c = "\r" -> <<>> [] c = "\t" -> <<Blank>> [] OTHER -> <<c>>
      BY <2>1 DEF PlainOf
    <2>5. <<c>> \in Text /\ <<Blank>> \in Text /\ <<>> \in Text
      BY <2>1, CharactersAre, ShortSeqs DEF Text
    <2> HIDE DEF c, tail, part
    <2>6. part \in Text
      BY <2>4, <2>5
    <2>7. line \o (part \o tail) = (line \o part) \o tail
      <3>1. line \in Seq(Characters) /\ part \in Seq(Characters) /\ tail \in Seq(Characters)
        BY <1>1, <2>2, <2>6 DEF Text
      <3>2. Associates(Characters)
        BY ConcatAssoc
      <3> QED
        BY <3>1, <3>2 DEF Associates
    <2>8. LinesLeft = LinesOf[(line \o part) \o tail]
      BY <1>2, <2>2, <2>7
    <2>9. CASE c = "\n"
      <3>1. Handle(line)
        BY <1>4, <2>9 DEF c
      <3>2. line' = line /\ pc' = "split"
        BY <3>1 DEF Handle
      <3>3. LinesLeft' = <<line>> \o Behind' /\ Behind' = LinesOf[tail]
        <4>1. mode' = "interact"
          BY <1>1
        <4> QED
          BY <1>0, <2>3, <3>2, <4>1 DEF LeftOK, Behind
      <3>4. part = <<"\n">>
        BY <2>4, <2>9
      <3>5. \A n \in 1..Len(line) : line[n] # "\n"
        <4>1. DOMAIN line = 1..Len(line)
          BY <1>1 DEF Text
        <4> QED
          BY <1>1, <4>1 DEF Splitting
      <3>6. LinesOf[line \o <<"\n">> \o tail] = <<line>> \o LinesOf[tail]
        BY <1>1, <2>2, <3>5, LinesFirst
      <3>7. LinesLeft' = LinesLeft
        BY <2>8, <3>3, <3>4, <3>6
      <3> QED
        BY <1>1, <3>7, AnsweringStays DEF Active
    <2>10. CASE c # "\n"
      <3>1. pc' = "linein" /\ line' = CASE c = "\r" -> line
                                        [] c = "\t" -> Append(line, Blank)
                                        [] OTHER -> Append(line, c)
        BY <1>1, <1>4, <2>10 DEF c
      <3>2. line' = line \o part
        <4>1. line \in Seq(Characters) /\ Blank \in Characters /\ c \in Characters
          BY <1>1, <2>1, CharactersAre DEF Text
        <4>2. line \o <<>> = line
          BY <4>1, SeqIs
        <4>3. Append(line, Blank) = line \o <<Blank>> /\ Append(line, c) = line \o <<c>>
          BY <4>1, AppendIs
        <4> QED
          BY <2>4, <3>1, <4>2, <4>3
      <3>3. LinesLeft' = LinesOf[line' \o tail]
        BY <1>0, <2>3, <3>1 DEF LeftOK
      <3>4. LinesLeft' = LinesLeft
        BY <2>8, <3>2, <3>3
      <3> QED
        BY <1>1, <3>4, AnsweringStays DEF Active
    <2> QED
      BY <2>9, <2>10
  <1> QED
    BY <1>3, <1>4 DEF Linein

LEMMA AnsweringSplit ==
  ASSUME TypeOK, TypeOK', Answering, Letter \/ Space \/ EndOfLine
  PROVE  Answering'
  <1>0. LeftOK /\ LeftOK'
    BY LeftIs, LeftNext
  <1>1. UNCHANGED <<mode, typed, macs, wire, frame, input, step, line>> /\ pc = "split"
        /\ pc' \in {"split", "dispatch", "aborted", "overrun"}
    BY DEF Letter, Space, EndOfLine, given
  <1>2. Behind' = Behind
    BY <1>1, GivenStays DEF Behind, Plain
  <1>3. pc' \in Active => LinesLeft' = LinesLeft
    BY <1>0, <1>1, <1>2 DEF LeftOK, Active
  <1> QED
    BY <1>1, <1>3, AnsweringStays DEF Active

LEMMA AnsweringWritten ==
  ASSUME TypeOK, TypeOK', Answering, SendFails \/ Written
  PROVE  Answering'
  <1>0. LeftOK /\ LeftOK'
    BY LeftIs, LeftNext
  <1>1. /\ UNCHANGED <<mode, typed, macs, wire, frame, input, step>> /\ pc = "write"
        /\ pc' \in Active => pc' \in {"main", "linein"} /\ line' = <<>>
    BY DEF SendFails, Written, Return, Caller, given, Active
  <1>2. Behind' = Behind
    BY <1>1, GivenStays DEF Behind, Plain
  <1>3. pc' \in Active => LinesLeft' = LinesLeft
    BY <1>0, <1>1, <1>2 DEF LeftOK
  <1> QED
    BY <1>1, <1>3, AnsweringStays DEF Active

\* What comes of a line says what it was.
LEMMA DispatchReasons ==
  ASSUME TypeOK, Splitting, Dispatch
  PROVE  /\ words = WordsOf[line]
         /\ pc' \in {"aborted", "returned", "main", "linein"} => ~Proper(line)
         /\ pc' = "overrun" => line # <<>> /\ LongWord(CopySize)
         /\ pc' = "write" => Proper(line)
         /\ pc' = "returned" => words # <<>> /\ words[1] = <<"quit">>
  <1> DEFINE name == IF words = <<>> THEN <<>> ELSE words[1]
  <1>1. words = WordsOf[line] /\ words \in Seq(Text)
    BY DEF Dispatch, Splitting, TypeOK, LineOK, Text
  <1>2. ASSUME NEW c \in Names, Len(words) = Commands[c].words, words[1] = <<c>>
        PROVE  words # <<>> /\ name = <<c>> /\ c # "quit"
    <2>1. Commands[c].words \in 1..4 /\ c # "quit"
      BY TableIs
    <2>2. words # <<>>
      <3>1. words = <<>> => Len(words) = 0
        OBVIOUS
      <3> QED
        BY <1>2, <2>1, <3>1
    <2> QED
      BY <1>2, <2>1, <2>2
  <1>3. Proper(line) <=>
          \E c \in Names : Len(words) = Commands[c].words /\ words[1] = <<c>>
    BY <1>1 DEF Proper, Names
  <1>4. /\ name # <<>> => words # <<>> /\ name = words[1]
        /\ \A c : <<c>> # <<>>
    OBVIOUS
  <1>5. \/ /\ name = <<"quit">>
           /\ pc' = IF Len(words) = 1 THEN "returned" ELSE "aborted"
        \/ Named(name) = {} /\ pc' = Caller
        \/ \E c \in Named(name) :
             \/ Len(words) # Commands[c].words /\ pc' = "aborted"
             \/ /\ \E f \in Copied(c) : Len(words[f.word]) > CopySize
                /\ Len(words) = Commands[c].words /\ pc' = "overrun"
             \/ Len(words) = Commands[c].words /\ pc' = "write"
    <2>1. \/ name = <<"quit">> /\ End(IF Len(words) = 1 THEN "returned" ELSE "aborted")
          \/ Named(name) = {} /\ Return
          \/ \E c \in Named(name) :
               IF Len(words) # Commands[c].words
                 THEN End("aborted")
                 ELSE IF \E f \in Copied(c) : Len(words[f.word]) > CopySize
                   THEN End("overrun")
                   ELSE Encode(c)
      BY DEF Dispatch
    <2> HIDE DEF name
    <2>2. ASSUME name = <<"quit">> /\ End(IF Len(words) = 1 THEN "returned" ELSE "aborted")
          PROVE  /\ name = <<"quit">>
                 /\ pc' = IF Len(words) = 1 THEN "returned" ELSE "aborted"
      BY <2>2 DEF End
    <2>3. Return => pc' = Caller
      BY DEF Return
    <2>4. ASSUME NEW c \in Named(name),
                 IF Len(words) # Commands[c].words
                   THEN End("aborted")
                   ELSE IF \E f \in Copied(c) : Len(words[f.word]) > CopySize
                     THEN End("overrun")
                     ELSE Encode(c)
          PROVE  \/ Len(words) # Commands[c].words /\ pc' = "aborted"
                 \/ /\ \E f \in Copied(c) : Len(words[f.word]) > CopySize
                    /\ Len(words) = Commands[c].words /\ pc' = "overrun"
                 \/ Len(words) = Commands[c].words /\ pc' = "write"
      <3>1. /\ End("aborted") => pc' = "aborted"
            /\ End("overrun") => pc' = "overrun"
            /\ Encode(c) => pc' = "write"
        BY DEF End, Encode
      <3> QED
        BY <2>4, <3>1
    <2> QED
      BY <2>1, <2>2, <2>3, <2>4
  <1> HIDE DEF name
  <1>6. CASE /\ name = <<"quit">>
             /\ pc' = IF Len(words) = 1 THEN "returned" ELSE "aborted"
    <2>1. ~Proper(line)
      <3> SUFFICES ASSUME Proper(line) PROVE FALSE
        OBVIOUS
      <3>1. PICK c \in Names : Len(words) = Commands[c].words /\ words[1] = <<c>>
        BY <1>3
      <3>2. name = <<c>> /\ c # "quit"
        BY <1>2, <3>1
      <3>3. <<c>>[1] = c /\ <<"quit">>[1] = "quit"
        OBVIOUS
      <3> QED
        BY <1>6, <3>2, <3>3
    <2>2. words # <<>> /\ words[1] = <<"quit">>
      BY <1>4, <1>6
    <2>3. pc' \in {"returned", "aborted"}
      BY <1>6
    <2> QED
      BY <1>1, <2>1, <2>2, <2>3
  <1>7. CASE Named(name) = {} /\ pc' = Caller
    <2>1. ~Proper(line)
      <3> SUFFICES ASSUME Proper(line) PROVE FALSE
        OBVIOUS
      <3>1. PICK c \in Names : Len(words) = Commands[c].words /\ words[1] = <<c>>
        BY <1>3
      <3>2. name = <<c>>
        BY <1>2, <3>1
      <3> QED
        BY <1>7, <3>2, NamedIs
    <2> QED
      BY <1>1, <1>7, <2>1 DEF Caller
  <1>8. CASE \E c \in Named(name) :
             \/ Len(words) # Commands[c].words /\ pc' = "aborted"
             \/ /\ \E f \in Copied(c) : Len(words[f.word]) > CopySize
                /\ Len(words) = Commands[c].words /\ pc' = "overrun"
             \/ Len(words) = Commands[c].words /\ pc' = "write"
    <2>1. PICK c \in Named(name) :
             \/ Len(words) # Commands[c].words /\ pc' = "aborted"
             \/ /\ \E f \in Copied(c) : Len(words[f.word]) > CopySize
                /\ Len(words) = Commands[c].words /\ pc' = "overrun"
             \/ Len(words) = Commands[c].words /\ pc' = "write"
      BY <1>8
    <2>2. c \in Names /\ name = <<c>>
      BY NamedIs
    <2>3. words # <<>> /\ words[1] = <<c>>
      BY <1>4, <2>2
    <2>4. CASE Len(words) # Commands[c].words /\ pc' = "aborted"
      <3>1. ~Proper(line)
        <4> SUFFICES ASSUME Proper(line) PROVE FALSE
          OBVIOUS
        <4>1. PICK d \in Names : Len(words) = Commands[d].words /\ words[1] = <<d>>
          BY <1>3
        <4>2. <<c>>[1] = c /\ <<d>>[1] = d
          OBVIOUS
        <4>3. c = d
          BY <2>3, <4>1, <4>2
        <4> QED
          BY <2>4, <4>1, <4>3
      <3> QED
        BY <1>1, <2>4, <3>1
    <2>5. CASE /\ \E f \in Copied(c) : Len(words[f.word]) > CopySize
               /\ Len(words) = Commands[c].words /\ pc' = "overrun"
      <3>1. PICK f \in Copied(c) : Len(words[f.word]) > CopySize
        BY <2>5
      <3>2. f.word \in 1..Commands[c].words
        BY <2>2, TableIs
      <3>3. f.word \in DOMAIN words
        <4>1. DOMAIN words = 1..Len(words)
          BY <1>1
        <4> QED
          BY <2>5, <3>2, <4>1
      <3>4. LongWord(CopySize)
        BY <1>1, <3>1, <3>3 DEF LongWord
      <3>5. line # <<>>
        BY <1>1, <2>3, WordsOfIs
      <3> QED
        BY <1>1, <2>5, <3>4, <3>5
    <2>6. CASE Len(words) = Commands[c].words /\ pc' = "write"
      <3>1. Proper(line)
        BY <1>3, <2>2, <2>3, <2>6
      <3> QED
        BY <1>1, <2>6, <3>1
    <2> QED
      BY <2>1, <2>4, <2>5, <2>6
  <1> QED
    BY <1>5, <1>6, <1>7, <1>8

\* The elements of Begun and Whole.
LEMMA BegunTypes ==
  ASSUME TypeOK
  PROVE  Begun = BegunIn(wire) /\ Whole = WholeIn(wire)
         /\ Begun \in Seq({b.of : b \in ToSet(wire)}) /\ Whole \in Seq({b.of : b \in ToSet(wire)})
  <1> DEFINE X == ToSet(wire)
             Y == {b.of : b \in X}
             begun == BegunOf(X)
             whole == WholeOf(X)
  <1>1. Begun = BegunIn(wire) /\ Whole = WholeIn(wire)
    BY DEF Begun, Whole, BegunIn, WholeIn
  <1>2. wire \in Seq(X)
    BY DEF TypeOK, BytesOK
  <1>3. begun \in [X -> Seq(Y)] /\ whole \in [X -> Seq(Y)]
    BY MarkTypes
  <1> HIDE DEF X, Y
  <1>4. BegunIn(wire) = Through(begun, wire) /\ WholeIn(wire) = Through(whole, wire)
    BY <1>2, MarksAre
  <1> HIDE DEF begun, whole
  <1>5. Parted(X, Y, begun) /\ Parted(X, Y, whole)
    BY <1>3, ThroughParts
  <1>6. Through(begun, wire) \in Seq(Y) /\ Through(whole, wire) \in Seq(Y)
    BY <1>2, <1>5 DEF Parted
  <1> QED
    BY <1>1, <1>4, <1>6 DEF X, Y

\* If the rest of s begins with x, x is in its place and the rest is the rest behind it.
LEMMA RestBegins ==
  ASSUME NEW X, NEW s \in Seq(X), NEW x \in X, NEW r \in Seq(X), NEW n \in Nat,
         n <= Len(s), <<x>> \o r = SubSeq(s, n + 1, Len(s))
  PROVE  n + 1 <= Len(s) /\ s[n + 1] = x /\ r = SubSeq(s, n + 2, Len(s))
  <1> DEFINE m == n + 1
             t == SubSeq(s, m, Len(s))
  <1>1. Len(s) \in Nat /\ m \in 1..(Len(s) + 1)
    OBVIOUS
  <1>2. /\ <<x>> \in Seq(X) /\ <<x>> \o r # <<>> /\ Head(<<x>> \o r) = x /\ Tail(<<x>> \o r) = r
    BY ShortSeqs, ConcatFirst
  <1>3. t # <<>> /\ Head(t) = x /\ Tail(t) = r
    BY <1>2
  <1> HIDE DEF m
  <1>4. t \in Seq(X) /\ Len(t) = Len(s) + 1 - m /\ \A i \in 1..Len(t) : t[i] = s[i + m - 1]
    BY <1>1, SuffixIs
  <1>5. Len(t) > 0 /\ Head(t) = t[1]
    <2> HIDE DEF t
    <2> QED
      BY <1>3, <1>4
  <1>6. m \in 1..Len(s) /\ 1 \in 1..Len(t) /\ 1 + m - 1 = m
    <2> HIDE DEF t
    <2> QED
      BY <1>1, <1>4, <1>5
  <1>7. s[m] = x
    BY <1>3, <1>4, <1>5, <1>6
  <1>8. t = <<s[m]>> \o SubSeq(s, m + 1, Len(s)) /\ SubSeq(s, m + 1, Len(s)) \in Seq(X)
    BY <1>6, SuffixStep
  <1>9. Tail(<<s[m]>> \o SubSeq(s, m + 1, Len(s))) = SubSeq(s, m + 1, Len(s))
    BY <1>7, <1>8, ConcatFirst
  <1>10. r = SubSeq(s, m + 1, Len(s))
    BY <1>3, <1>8, <1>9
  <1>11. m + 1 = n + 2
    BY DEF m
  <1> QED
    BY <1>6, <1>7, <1>10, <1>11 DEF m

LEMMA AnsweringDispatch ==
  ASSUME TypeOK, TypeOK', Splitting, Answering, Dispatch
  PROVE  Answering'
  <1>0. LeftOK /\ LeftOK' /\ line \in Text
    BY LeftIs, LeftNext DEF TypeOK, LineOK, Text
  <1>1. /\ UNCHANGED <<mode, typed, macs, wire, input, step, words>> /\ pc = "dispatch"
        /\ frame = <<>>
    BY DispatchIs
  <1>2. Behind' = Behind /\ Behind \in Seq(Text)
    BY <1>0, <1>1, GivenStays DEF Behind, Plain, LeftOK
  <1>3. LinesLeft = <<line>> \o Behind
    BY <1>0, <1>1 DEF LeftOK
  <1>4. Asking(LinesLeft) = (IF Proper(line) THEN <<line>> ELSE <<>>) \o Asking(Behind)
        /\ Asking(Behind) \in Seq(Text)
    BY <1>0, <1>2, <1>3, AskingIs
  <1>5. CASE UNCHANGED frame /\ pc' \in {"returned", "aborted", "overrun"}
    BY <1>1, <1>5, AnsweringStays DEF Active
  <1>6. CASE UNCHANGED frame /\ pc' = Caller /\ line' = <<>>
    <2>1. pc' \in {"main", "linein"}
      BY <1>6 DEF Caller
    <2>2. ~Proper(line)
      BY <2>1, DispatchReasons
    <2>3. Asking(LinesLeft) = Asking(Behind)
      BY <1>4, <2>2, SeqIs
    <2>4. LinesLeft' = Behind
      BY <1>0, <1>2, <1>6, <2>1 DEF LeftOK
    <2> QED
      BY <1>1, <1>6, <2>3, <2>4, AnsweringStays DEF Active
  <1>7. CASE /\ pc' = "write"
             /\ \E c \in Named(words[1]) : \E p \in Packets(c, words) : frame' = Frame(p)
    <2>1. PICK c \in Named(words[1]) : \E p \in Packets(c, words) : frame' = Frame(p)
      BY <1>7
    <2>2. PICK p \in Packets(c, words) : frame' = Frame(p)
      BY <2>1
    <2>3. p.command \in Names
      BY NamedIs, PacketIs
    <2>4. frame' # <<>> /\ frame'[1] = [of |-> p, byte |-> 1]
      <3>1. frame' # <<>> /\ 1 \in DOMAIN frame' /\ \A n \in DOMAIN frame' : frame'[n] = [of |-> p, byte |-> n]
        BY <2>2, <2>3, FrameIs
      <3> QED
        BY <3>1
    <2>5. frame'[1].of = p /\ frame'[1].byte = 1
      BY <2>4
    <2>6. p \in Asks(line) /\ Proper(line)
      <3>1. words = WordsOf[line] /\ Proper(line)
        BY <1>7, DispatchReasons
      <3> QED
        BY <3>1 DEF Asks
    <2> DEFINE Y == {b.of : b \in ToSet(wire)} \union {p}
               l == Len(Begun)
    <2>7. Begun \in Seq(Y)
      <3>1. Begun \in Seq({b.of : b \in ToSet(wire)})
        BY BegunTypes
      <3> DEFINE Z == {b.of : b \in ToSet(wire)}
      <3> HIDE DEF Z
      <3>2. Begun \in Seq(Z)
        BY <3>1 DEF Z
      <3>3. Begun \in Seq(Z \union {p})
        BY <3>2
      <3> QED
        BY <3>3 DEF Z
    <2>8. Asked = Begun
      BY <1>1, <2>7, SeqIs DEF Asked
    <2>9. Begun' = Begun /\ Whole' = Whole
      BY <1>1 DEF Begun, Whole
    <2>10. Asked' = Begun \o <<p>>
      BY <2>4, <2>5, <2>9 DEF Asked
    <2> HIDE DEF Y
    <2>11. /\ l \in Nat /\ Len(Asked') = l + 1
           /\ \A n \in 1..l : Asked'[n] = Begun[n]
           /\ Asked'[l + 1] = p
           /\ DOMAIN Asked' = 1..(l + 1) /\ DOMAIN Begun = 1..l
      <3>1. p \in Y
        BY DEF Y
      <3>2. Append(Begun, p) = Begun \o <<p>>
        BY <2>7, <3>1, AppendIs
      <3>3. /\ Len(Append(Begun, p)) = l + 1 /\ DOMAIN Append(Begun, p) = 1..(l + 1) /\ l \in Nat
            /\ \A n \in 1..l : Append(Begun, p)[n] = Begun[n]
            /\ Append(Begun, p)[l + 1] = p
        BY <2>7, <3>1, AppendProperties
      <3>4. DOMAIN Begun = 1..l
        BY <2>7
      <3> QED
        BY <2>10, <3>2, <3>3, <3>4
    <2>12. Demands' = Demands /\ Demands \in Seq(Text)
      BY <1>0, <1>1, GivenStays DEF LeftOK
    <2>13. l <= Len(Demands) /\ \A n \in 1..l : Begun[n] \in Asks(Demands[n])
      BY <2>8, <2>11 DEF Answering
    <2>14. <<line>> \o Asking(Behind) = SubSeq(Demands, l + 1, Len(Demands))
      BY <1>1, <1>4, <2>6, <2>8 DEF Answering
    <2>15. /\ l + 1 <= Len(Demands) /\ Demands[l + 1] = line
           /\ Asking(Behind) = SubSeq(Demands, l + 2, Len(Demands))
      <3> HIDE DEF l
      <3> QED
        <4>1. /\ Demands \in Seq(Text) /\ line \in Text /\ Asking(Behind) \in Seq(Text)
              /\ l \in Nat /\ l <= Len(Demands)
          BY <1>0, <1>4, <2>11, <2>12, <2>13
        <4> QED
          BY <2>14, <4>1, RestBegins
    <2>16. l = Len(Whole)
      BY <1>1, <2>8, <2>11, BegunTypes DEF Answering
    <2>17. LinesLeft' = Behind
      BY <1>0, <1>2, <1>7 DEF LeftOK
    <2> HIDE DEF l
    <2>18. Asking(LinesLeft)' = Asking(Behind)
      BY <2>17 DEF Asking
    <2>19. Asking(LinesLeft)' = SubSeq(Demands', Len(Asked') + 1, Len(Demands'))
      <3>1. Len(Asked') + 1 = l + 2
        BY <2>11
      <3> QED
        BY <2>12, <2>15, <2>18, <3>1
    <2>20. \A n \in DOMAIN Asked' : Asked'[n] \in Asks(Demands'[n])
      <3> SUFFICES ASSUME NEW n \in 1..(l + 1) PROVE Asked'[n] \in Asks(Demands[n])
        BY <2>11, <2>12
      <3>1. n \in 1..l \/ n = l + 1
        BY <2>11
      <3> QED
        BY <2>6, <2>11, <2>13, <2>15, <3>1
    <2>21. Len(Asked') = Len(Whole') + 1 /\ Len(Asked') <= Len(Demands')
      BY <2>9, <2>11, <2>12, <2>15, <2>16
    <2> QED
      BY <2>4, <2>19, <2>20, <2>21 DEF Answering, Asks
  <1> QED
    BY <1>5, <1>6, <1>7, DispatchIs

\* The bytes sent begin a packet if they are its first, and end it if they are its last.
LEMMA SendMarks ==
  ASSUME TypeOK, NEW X, NEW p, NEW k, NEW n, NEW part, Sending(X, p, k, n, part)
  PROVE  /\ Begun' = Begun \o (IF k = 1 THEN <<p>> ELSE <<>>)
         /\ Whole' = Whole \o (IF frame' = <<>> THEN <<p>> ELSE <<>>)
         /\ Begun \in Seq({b.of : b \in X}) /\ Whole \in Seq({b.of : b \in X})
         /\ p \in {b.of : b \in X}
  <1> DEFINE Y == {b.of : b \in X}
             begun == BegunOf(X)
             whole == WholeOf(X)
             size == Size(p)
  <1>1. /\ wire \in Seq(X) /\ part \in Seq(X) /\ wire' \in Seq(X) /\ wire' = wire \o part
        /\ frame' \in Seq(X) /\ frame \in Seq(X)
        /\ size \in Nat /\ k \in Nat \ {0} /\ n \in Nat \ {0} /\ Len(part) = n
        /\ Len(frame) \in Nat /\ n <= Len(frame) /\ k + Len(frame) = 3 + size
        /\ Len(frame') = Len(frame) - n /\ BytesOf(part, p, k)
        /\ frame # <<>> /\ frame[1].of = p
    BY DEF Sending
  <1>2. /\ Begun = BegunIn(wire) /\ Whole = WholeIn(wire)
        /\ Begun' = BegunIn(wire') /\ Whole' = WholeIn(wire')
    BY DEF Begun, Whole, BegunIn, WholeIn
  <1>3. /\ BegunIn(wire) = Through(begun, wire) /\ WholeIn(wire) = Through(whole, wire)
        /\ BegunIn(wire') = Through(begun, wire') /\ WholeIn(wire') = Through(whole, wire')
    BY <1>1, MarksAre
  <1>4. begun \in [X -> Seq(Y)] /\ whole \in [X -> Seq(Y)]
    BY MarkTypes
  <1>5. part # <<>>
    <2>1. part = <<>> => Len(part) = 0
      OBVIOUS
    <2> QED
      BY <1>1, <2>1
  <1>6. k + Len(part) <= 3 + size /\ (k + Len(part) = 3 + size <=> Len(frame') = 0)
    BY <1>1
  <1>7. frame' = <<>> <=> Len(frame') = 0
    BY <1>1
  <1>8. /\ Through(begun, part) = IF k = 1 THEN <<p>> ELSE <<>>
        /\ Through(whole, part) = IF k + Len(part) = 3 + size THEN <<p>> ELSE <<>>
    BY <1>1, <1>5, <1>6, MarksOfBytes
  <1>9. p \in Y
    BY <1>1
  <1> HIDE DEF Y, begun, whole, size
  <1>10. Splits(X, begun) /\ Splits(X, whole) /\ Parted(X, Y, begun) /\ Parted(X, Y, whole)
    BY <1>4, ThroughSplits, ThroughParts
  <1>11. /\ Through(begun, wire') = Through(begun, wire) \o Through(begun, part)
         /\ Through(whole, wire') = Through(whole, wire) \o Through(whole, part)
    BY <1>1, <1>10 DEF Splits
  <1>12. Through(begun, wire) \in Seq(Y) /\ Through(whole, wire) \in Seq(Y)
    BY <1>1, <1>10 DEF Parted
  <1>13. Begun' = Begun \o (IF k = 1 THEN <<p>> ELSE <<>>)
    BY <1>2, <1>3, <1>8, <1>11
  <1>14. Whole' = Whole \o (IF frame' = <<>> THEN <<p>> ELSE <<>>)
    BY <1>2, <1>3, <1>6, <1>7, <1>8, <1>11
  <1> QED
    BY <1>2, <1>3, <1>9, <1>12, <1>13, <1>14 DEF Y

LEMMA AnsweringSend ==
  ASSUME TypeOK, TypeOK', Answering, Send
  PROVE  Answering'
  <1>0. LeftOK /\ LeftOK'
    BY LeftIs, LeftNext
  <1>1. UNCHANGED <<mode, typed, macs, input, step, line>> /\ pc = "write" /\ pc' = "write"
    BY DEF Send, given, splitter
  <1>2. LinesLeft' = LinesLeft
    <2>1. Behind' = Behind
      BY <1>1, GivenStays DEF Behind, Plain
    <2> QED
      BY <1>0, <1>1, <2>1 DEF LeftOK
  <1> DEFINE X == ToSet(wire) \union ToSet(frame)
             p == frame[1].of
             k == frame[1].byte
  <1>3. PICK n \in 1..Len(frame) : Sending(X, p, k, n, SubSeq(frame, 1, n))
    BY SendIs
  <1> DEFINE part == SubSeq(frame, 1, n)
             Y == {b.of : b \in X}
  <1>4. /\ Begun' = Begun \o (IF k = 1 THEN <<p>> ELSE <<>>)
        /\ Whole' = Whole \o (IF frame' = <<>> THEN <<p>> ELSE <<>>)
        /\ Begun \in Seq(Y) /\ Whole \in Seq(Y) /\ p \in Y
    BY <1>3, SendMarks
  <1>5. frame # <<>> /\ k \in Nat \ {0} /\ n \in Nat \ {0} /\ frame' \in Seq(X)
        /\ BytesOf(frame', p, k + n)
    BY <1>3 DEF Sending
  <1>6. frame' # <<>> => frame'[1].byte # 1
    <2> SUFFICES ASSUME frame' # <<>> PROVE frame'[1].byte # 1
      OBVIOUS
    <2> HIDE DEF X, p, k
    <2>1. 1 \in 1..Len(frame')
      BY <1>5
    <2>2. frame'[1] = [of |-> p, byte |-> (k + n) + 1 - 1]
      BY <1>5, <2>1 DEF BytesOf
    <2>3. frame'[1].byte = (k + n) + 1 - 1
      BY <2>2
    <2> QED
      BY <1>5, <2>3
  <1>7. Asked = Begun \o (IF k = 1 THEN <<p>> ELSE <<>>)
    BY <1>5 DEF Asked
  <1>8. Asked' = Begun' \o <<>>
    BY <1>6 DEF Asked
  <1> HIDE DEF X, p, k, part, Y
  <1>9. Asked' = Asked
    <2>1. <<p>> \in Seq(Y) /\ <<>> \in Seq(Y)
      BY <1>4, ShortSeqs
    <2>2. Begun' \in Seq(Y)
      BY <1>4, <2>1, ConcatProperties
    <2> QED
      BY <1>4, <1>7, <1>8, <2>2, SeqIs
  <1>10. Len(Whole') = Len(Whole) + IF frame' = <<>> THEN 1 ELSE 0
    <2>1. Append(Whole, p) = Whole \o <<p>> /\ Len(Append(Whole, p)) = Len(Whole) + 1
      BY <1>4, AppendIs, AppendProperties
    <2>2. Whole \o <<>> = Whole /\ Len(Whole) \in Nat
      BY <1>4, SeqIs
    <2> QED
      BY <1>4, <2>1, <2>2
  <1>11. Len(Asked) = Len(Whole) + 1 /\ Len(Whole) \in Nat
    <2>1. Len(Whole) \in Nat
      BY <1>4
    <2> QED
      BY <1>5, <2>1 DEF Answering
  <1>12. Len(Asked') = Len(Whole') + IF frame' = <<>> THEN 0 ELSE 1
    BY <1>9, <1>10, <1>11
  <1>13. Demands' = Demands
    BY <1>1, GivenStays
  <1>14. Asking(LinesLeft)' = Asking(LinesLeft)
    BY <1>2 DEF Asking
  <1> QED
    BY <1>1, <1>9, <1>12, <1>13, <1>14 DEF Answering, Asks

LEMMA AnsweringInit == Init => Answering
  <1> SUFFICES ASSUME Init PROVE Answering
    OBVIOUS
  <1>0. TypeOK /\ LeftOK
    BY TypeInit, LeftIs
  <1>1. wire = <<>> /\ frame = <<>> /\ line = <<>> /\ input = typed /\ step = 0
        /\ pc = IF mode = "mqtt" THEN "main" ELSE "linein"
    BY DEF Init
  <1>2. Begun = <<>> /\ Whole = <<>>
    BY <1>1, FlattenType DEF Begun, Whole
  <1>3. Asked = <<>>
    BY <1>1, <1>2 DEF Asked
  <1>4. LinesLeft = Behind
    BY <1>0, <1>1 DEF LeftOK
  <1>5. Behind = LinesGiven
    BY <1>1 DEF Behind, LinesGiven
  <1>6. Asking(LinesLeft) = Demands /\ Demands \in Seq(Text)
    BY <1>0, <1>4, <1>5 DEF Demands, LeftOK
  <1>7. SubSeq(Demands, 1, Len(Demands)) = Demands /\ Len(Demands) \in Nat
    BY <1>6, SeqIs
  <1>8. Len(Asked) = 0 /\ DOMAIN Asked = {} /\ Len(Whole) = 0
    BY <1>2, <1>3
  <1> QED
    BY <1>1, <1>6, <1>7, <1>8 DEF Answering

LEMMA AnsweringStep == ASSUME TypeOK, TypeOK', Splitting, Answering, Next PROVE Answering'
  BY AnsweringMain, AnsweringLinein, AnsweringSplit, AnsweringDispatch, AnsweringSend,
     AnsweringWritten DEF Next

-----------------------------------------------------------------------------
(* The ends. *)

\* If nothing that is left asks for anything, flicd has been sent everything.
LEMMA NothingLeft ==
  ASSUME TypeOK, Answering, frame = <<>>, pc \in Active, Asking(LinesLeft) = <<>>
  PROVE  Len(Whole) = Len(Demands)
  <1> DEFINE l == Len(Asked)
             m == l + 1
             d == Len(Demands)
  <1>1. LeftOK
    BY LeftIs
  <1>2. Demands \in Seq(Text) /\ d \in Nat
    BY <1>1 DEF LeftOK
  <1>3. Len(Whole) \in Nat
    BY BegunTypes
  <1>4. l = Len(Whole) /\ l <= d /\ <<>> = SubSeq(Demands, m, d)
    BY <1>3 DEF Answering, Active
  <1> HIDE DEF l, m
  <1>5. m \in 1..(d + 1) /\ m = l + 1 /\ l \in Nat
    BY <1>2, <1>3, <1>4 DEF m
  <1>6. Len(SubSeq(Demands, m, d)) = d + 1 - m
    BY <1>2, <1>5, SuffixIs
  <1>7. d + 1 - m = 0
    BY <1>4, <1>6
  <1> QED
    BY <1>2, <1>4, <1>5, <1>7

\* main has asked for everything when its epochs are over.
MainAsked == pc = "main" /\ step = LastStep => Len(Whole) = Len(Demands)

LEMMA MainIs == TypeOK /\ Answering => MainAsked
  <1> SUFFICES ASSUME TypeOK, Answering, pc = "main", step = LastStep
               PROVE  Len(Whole) = Len(Demands)
    BY DEF MainAsked
  <1>1. LeftOK /\ MacsOK
    BY LeftIs, GivenIs DEF TypeOK
  <1>2. mode # "interact" /\ frame = <<>>
    BY DEF TypeOK, LineOK, BytesOK, Caller
  <1>3. LinesLeft = <<>>
    BY <1>1, <1>2, LinesFromIs DEF LeftOK, Behind
  <1>4. Asking(LinesLeft) = <<>>
    BY <1>3, AskingIs
  <1> QED
    BY <1>2, <1>4, NothingLeft DEF Active

LEMMA MainNext == TypeOK' /\ Answering' => MainAsked'
  BY MainIs, PTL

\* At the end of the input, and where it has quit, all lines before are handled.
LEMMA ReturnedAsked ==
  ASSUME TypeOK, Splitting, Answering, AllAsked, Next,
         pc' = "returned", input' = <<>>, Len(line') < LineSize
  PROVE  Len(Whole') = Len(Demands')
  <1>0. LeftOK /\ line \in Text
    BY LeftIs DEF TypeOK, LineOK, Text
  <1>1. Linein \/ Dispatch
    BY DEF Next, GetInfo, Connect, NoButton, Letter, Space, EndOfLine, Send, SendFails,
       Written, Handle, Return, Caller, TypeOK, LineOK
  <1>2. /\ UNCHANGED <<mode, typed, macs, wire>> /\ frame = <<>>
    <2>1. CASE Linein
      BY <2>1 DEF Linein, given, TypeOK, BytesOK
    <2>2. CASE Dispatch
      BY <2>2, DispatchIs
    <2> QED
      BY <1>1, <2>1, <2>2
  <1>3. Demands' = Demands /\ Whole' = Whole
    BY <1>2, GivenStays DEF Whole
  <1>4. Plain(<<>>) = <<>> /\ LinesOf[<<>>] = <<>> /\ Asking(<<>>) = <<>>
    <2>1. <<>> \in Text /\ \A n \in 1..Len(<<>>) : <<>>[n] # "\n"
      BY DEF Text
    <2> QED
      BY <2>1, PlainIs, AskingIs, LinesFirst
  <1>5. CASE Linein
    <2>1. pc = "linein" /\ input = <<>> /\ \A n \in DOMAIN line : line[n] # "\n"
      <3>1. pc = "linein"
        BY <1>5 DEF Linein
      <3>2. input = <<>>
        <4>1. CASE UNCHANGED <<input, splitter>>
          BY <4>1
        <4>2. CASE ~(input = <<>> \/ Len(line) >= LineSize)
          BY <1>5, <3>1, <4>2 DEF Linein, Handle
        <4> QED
          BY <1>5, <4>1, <4>2 DEF Linein
      <3> QED
        BY <3>1, <3>2 DEF Splitting
    <2>2. LinesLeft = LinesOf[line \o <<>>]
      BY <1>0, <1>4, <2>1 DEF LeftOK
    <2>3. line \o <<>> = line /\ DOMAIN line = 1..Len(line)
      <3>1. line \in Seq(Characters)
        BY <1>0 DEF Text
      <3> QED
        BY <3>1, SeqIs
    <2>4. LinesOf[line] = <<>>
      BY <1>0, <2>1, <2>3, LinesFirst
    <2>5. Asking(LinesLeft) = <<>>
      BY <1>4, <2>2, <2>3, <2>4
    <2> QED
      BY <1>2, <1>3, <2>1, <2>5, NothingLeft DEF Active
  <1>6. CASE Dispatch
    <2>1. pc = "dispatch" /\ input = <<>>
      BY <1>6, DispatchIs
    <2>2. words = WordsOf[line] /\ ~Proper(line) /\ words # <<>> /\ words[1] = <<"quit">>
      BY <1>6, DispatchReasons
    <2>3. mode = "interact"
      <3> SUFFICES ASSUME mode # "interact" PROVE FALSE
        OBVIOUS
      <3>1. mode = "mqtt"
        BY CommandLineAssumption DEF CommandLineAssumption, TypeOK
      <3>2. line # <<>> /\ line[1] \in {"getInfo", "connect"}
        BY <2>1, <3>1 DEF Splitting
      <3>3. 1 \in 1..Len(line)
        BY <1>0, <3>2 DEF Text
      <3>4. line[1] # Blank
        BY <3>2, BlankIs
      <3>5. \A n \in 1..1 : line[n] # Blank
        BY <3>4
      <3>6. WordsOf[line][1][1] = line[1]
        BY <1>0, <3>3, <3>5, WordsLong
      <3>7. WordsOf[line][1][1] = "quit"
        BY <2>2
      <3> QED
        BY <3>2, <3>6, <3>7
    <2>4. Behind = <<>>
      BY <1>4, <2>1, <2>3 DEF Behind
    <2>5. LinesLeft = <<line>> \o <<>>
      BY <1>0, <2>1, <2>4 DEF LeftOK
    <2>6. Asking(<<line>> \o <<>>) = <<>> \o <<>>
      <3>1. <<>> \in Seq(Text)
        OBVIOUS
      <3> QED
        BY <1>0, <1>4, <2>2, <3>1, AskingIs
    <2>7. <<>> \o <<>> = <<>>
      <3>1. <<>> \in Seq(Text)
        OBVIOUS
      <3> QED
        BY <3>1, SeqIs
    <2> QED
      BY <1>2, <1>3, <2>1, <2>5, <2>6, <2>7, NothingLeft DEF Active
  <1> QED
    BY <1>1, <1>5, <1>6

LEMMA AllAskedStep ==
  ASSUME TypeOK, TypeOK', Splitting, Answering, Answering', AllAsked, Next
  PROVE  AllAsked'
  <1>1. MainAsked'
    BY MainNext
  <1>2. pc' = "returned" /\ input' = <<>> /\ Len(line') < LineSize =>
          Len(Whole') = Len(Demands')
    BY ReturnedAsked
  <1> QED
    BY <1>1, <1>2 DEF AllAsked, MainAsked, LastStep

LEMMA AllAskedInit == Init => AllAsked
  <1> SUFFICES ASSUME Init PROVE AllAsked
    OBVIOUS
  <1>1. MainAsked
    BY TypeInit, AnsweringInit, MainIs
  <1>2. pc # "returned"
    BY DEF Init
  <1> QED
    BY <1>1, <1>2 DEF AllAsked, MainAsked, LastStep

\* A word that is too long, or one too many, is one of the line.
LEMMA LetterReasons ==
  ASSUME TypeOK, Splitting, Letter
  PROVE  /\ line' = line /\ line # <<>>
         /\ pc' = "aborted" => LongWord(WordSize)
         /\ pc' = "overrun" => Len(WordsOf[line]) > 4
  <1> DEFINE rest == SubSeq(line, at, Len(line))
             t == word \o rest
             k == Len(word) + 1
             w == WordsOf[t]
  <1>1. /\ line' = line /\ pc = "split" /\ at <= Len(line) /\ line[at] # Blank
        /\ pc' = IF Len(words) >= 4 THEN "overrun"
                 ELSE IF Len(word) >= WordSize THEN "aborted" ELSE "split"
    BY DEF Letter
  <1>2. /\ line \in Seq(Characters) /\ word \in Seq(Characters) /\ words \in Seq(Text)
        /\ at \in 1..Len(line) /\ Len(words) \in Nat /\ Len(word) \in Nat
    <2>1. /\ line \in Seq(Characters) /\ word \in Seq(Characters) /\ words \in Seq(Seq(Characters))
          /\ at \in Nat \ {0}
      BY DEF TypeOK, LineOK
    <2>2. at \in 1..Len(line) /\ Len(words) \in Nat /\ Len(word) \in Nat
      BY <1>1, <2>1
    <2> QED
      BY <2>1, <2>2 DEF Text
  <1>3. (\A n \in DOMAIN word : word[n] # Blank) /\ WordsOf[line] = words \o w
    BY <1>1 DEF Splitting
  <1>4. rest \in Seq(Characters) /\ Len(rest) \in Nat \ {0} /\ rest[1] = line[at]
    <2>1. at \in 1..(Len(line) + 1) /\ Len(line) \in Nat /\ at \in Nat
      BY <1>2
    <2>2. /\ rest \in Seq(Characters) /\ Len(rest) = Len(line) + 1 - at
          /\ \A n \in 1..Len(rest) : rest[n] = line[n + at - 1]
      BY <1>2, <2>1, SuffixIs
    <2> HIDE DEF rest
    <2>3. 1 \in 1..Len(rest) /\ 1 + at - 1 = at /\ Len(rest) \in Nat \ {0}
      BY <1>1, <2>1, <2>2
    <2>4. rest[1] = line[1 + at - 1]
      BY <2>2, <2>3
    <2> QED
      BY <2>2, <2>3, <2>4
  <1> HIDE DEF rest
  <1>5. /\ t \in Seq(Characters) /\ Len(t) = Len(word) + Len(rest)
        /\ \A n \in 1..Len(word) : t[n] = word[n]
        /\ \A n \in 1..Len(rest) : t[Len(word) + n] = rest[n]
    BY <1>2, <1>4, ConcatIs
  <1> HIDE DEF t
  <1>6. k \in 1..Len(t) /\ t[k] = line[at]
    <2>1. 1 \in 1..Len(rest)
      BY <1>4
    <2> QED
      BY <1>2, <1>4, <1>5, <2>1
  <1>7. \A n \in 1..k : t[n] # Blank
    <2> SUFFICES ASSUME NEW n \in 1..k PROVE t[n] # Blank
      OBVIOUS
    <2>1. n \in 1..Len(word) \/ n = k
      BY <1>2
    <2>2. DOMAIN word = 1..Len(word)
      BY <1>2
    <2> QED
      BY <1>1, <1>3, <1>5, <1>6, <2>1, <2>2
  <1> HIDE DEF k
  <1>8. Len(w) >= 1 /\ Len(w[1]) >= k
    <2>1. t \in Text
      BY <1>5 DEF Text
    <2> QED
      BY <1>6, <1>7, <2>1, WordsLong
  <1>9. w \in Seq(Text)
    BY <1>5, WordsOfIs DEF Text
  <1> HIDE DEF w
  <1>10. /\ Len(WordsOf[line]) = Len(words) + Len(w) /\ Len(w) \in Nat
         /\ DOMAIN WordsOf[line] = 1..Len(WordsOf[line])
         /\ \A n \in 1..Len(w) : WordsOf[line][Len(words) + n] = w[n]
    <2>1. /\ words \o w \in Seq(Text) /\ Len(words \o w) = Len(words) + Len(w) /\ Len(w) \in Nat
          /\ \A n \in 1..Len(w) : (words \o w)[Len(words) + n] = w[n]
      BY <1>2, <1>9, ConcatIs
    <2> DEFINE u == words \o w
    <2> HIDE DEF u
    <2>2. DOMAIN u = 1..Len(u)
      BY <2>1 DEF u
    <2> QED
      BY <1>3, <2>1, <2>2 DEF u
  <1>11. LongWord(Len(word)) /\ Len(WordsOf[line]) > Len(words)
    <2>1. 1 \in 1..Len(w) /\ Len(words) + 1 \in DOMAIN WordsOf[line]
      BY <1>2, <1>8, <1>10
    <2>2. WordsOf[line][Len(words) + 1] = w[1]
      BY <1>10, <2>1
    <2>3. Len(w[1]) \in Nat
      BY <1>9, <2>1 DEF Text
    <2>4. Len(w[1]) > Len(word)
      BY <1>2, <1>8, <2>3 DEF k
    <2>5. Len(WordsOf[line]) > Len(words)
      BY <1>2, <1>8, <1>10
    <2> QED
      BY <2>1, <2>2, <2>4, <2>5 DEF LongWord
  <1>12. Len(word) >= WordSize => LongWord(WordSize)
    <2> SUFFICES ASSUME Len(word) >= WordSize PROVE LongWord(WordSize)
      OBVIOUS
    <2>1. PICK n \in DOMAIN WordsOf[line] : Len(WordsOf[line][n]) > Len(word)
      BY <1>11 DEF LongWord
    <2>2. WordsOf[line][n] \in Text
      <3>1. WordsOf[line] \in Seq(Text)
        BY <1>2, WordsOfIs DEF Text
      <3> QED
        BY <2>1, <3>1
    <2>3. Len(WordsOf[line][n]) \in Nat
      BY <2>2 DEF Text
    <2>4. WordSize \in Nat
      BY CommandLineAssumption DEF CommandLineAssumption
    <2>5. Len(WordsOf[line][n]) > WordSize
      BY <1>2, <2>1, <2>3, <2>4
    <2> QED
      BY <2>5 DEF LongWord
  <1>13. line # <<>>
    BY <1>2
  <1> QED
    BY <1>1, <1>2, <1>10, <1>11, <1>12, <1>13

LEMMA ReasonsStep ==
  ASSUME TypeOK, Splitting, StopsForAReason, Next
  PROVE  StopsForAReason'
  <1> DEFINE stops == pc' \in {"aborted", "overrun"}
  <1>1. CASE ~stops
    BY <1>1 DEF StopsForAReason
  <1>2. CASE Letter /\ stops
    <2>1. line' = line /\ line # <<>>
      BY <1>2, LetterReasons
    <2>2. /\ pc' = "aborted" => LongWord(WordSize)
          /\ pc' = "overrun" => Len(WordsOf[line]) > 4
      BY <1>2, LetterReasons
    <2> QED
      BY <1>2, <2>1, <2>2 DEF StopsForAReason, LongWord, Proper
  <1>3. CASE Dispatch /\ stops
    <2>1. line' = line
      <3>1. pc' \notin {"main", "linein"}
        BY <1>3
      <3> QED
        BY <1>3, <3>1, DispatchIs DEF Caller
    <2>2. /\ pc' = "aborted" => ~Proper(line)
          /\ pc' = "overrun" => line # <<>> /\ LongWord(CopySize)
      BY <1>3, DispatchReasons
    <2> QED
      BY <1>3, <2>1, <2>2 DEF StopsForAReason, LongWord, Proper
  <1>4. CASE Connect /\ stops
    <2>1. pc = "main" /\ line = <<>> /\ step \in DOMAIN macs /\ step' = step + 1 /\ macs' = macs
      BY <1>4 DEF Connect, Splitting, given
    <2>2. PICK mac \in macs[step] :
            LET text == <<"connect", Blank>> \o mac \o <<Blank, Digit(step)>>
            IN  IF Len(text) <= CmdSize THEN Handle(text)
                  ELSE pc' = "overrun" /\ UNCHANGED splitter
      BY <1>4 DEF Connect
    <2> DEFINE text == <<"connect", Blank>> \o mac \o <<Blank, Digit(step)>>
    <2>3. MacsOK
      BY GivenIs DEF TypeOK
    <2>4. Len(text) = Len(mac) + 4
      BY <2>1, <2>3, ConnectText
    <2>5. Handle(text) \/ (~(Len(text) <= CmdSize) /\ pc' = "overrun" /\ UNCHANGED splitter)
      BY <2>2
    <2> HIDE DEF text
    <2>6. ~(Len(text) <= CmdSize) /\ pc' = "overrun" /\ line' = <<>>
      BY <1>4, <2>1, <2>5 DEF Handle, splitter
    <2>7. Len(mac) \in Nat /\ CmdSize \in Nat /\ step' - 1 = step
      <3>1. mac \in Text
        BY <2>1, <2>3 DEF MacsOK
      <3>2. DOMAIN macs = 1..Len(macs)
        BY <2>3 DEF MacsOK
      <3>3. step \in Nat
        BY <2>1, <3>2
      <3>4. CmdSize \in Nat
        BY CommandLineAssumption DEF CommandLineAssumption
      <3> QED
        BY <2>1, <3>1, <3>3, <3>4 DEF Text
    <2>8. mac \in macs'[step' - 1] /\ Len(mac) + 4 > CmdSize
      BY <2>1, <2>4, <2>6, <2>7
    <2> QED
      BY <2>6, <2>8 DEF StopsForAReason
  <1>5. stops => Letter \/ Dispatch \/ Connect
    <2>1. GetInfo \/ Space \/ EndOfLine \/ Send \/ SendFails \/ Written \/ NoButton \/ Linein => ~stops
      BY DEF GetInfo, NoButton, Linein, Space, EndOfLine, Send, SendFails, Written, Return,
         Handle, Caller
    <2> QED
      BY <2>1 DEF Next
  <1> QED
    BY <1>1, <1>2, <1>3, <1>4, <1>5

LEMMA ReasonsInit == Init => StopsForAReason
  BY DEF Init, StopsForAReason

-----------------------------------------------------------------------------
(* The theorems. *)

\* The lines left hold what is still to be asked, in all states.
THEOREM CommandInvariant == Spec => []CommandInv
  <1>1. Init => CommandInv
    BY TypeInit, SplittingInit, FollowingInit, AnsweringInit, AllAskedInit, ReasonsInit
       DEF CommandInv
  <1>2. ASSUME CommandInv, Next PROVE CommandInv'
    <2>1. TypeOK /\ Splitting /\ Following /\ Answering /\ AllAsked /\ StopsForAReason
      BY <1>2 DEF CommandInv
    <2>2. TypeOK' /\ Splitting'
      BY <1>2, <2>1, TypeStep, SplittingStep
    <2>3. Following' /\ Answering'
      BY <1>2, <2>1, <2>2, FollowingStep, AnsweringStep
    <2>4. AllAsked' /\ StopsForAReason'
      BY <1>2, <2>1, <2>2, <2>3, AllAskedStep, ReasonsStep
    <2> QED
      BY <2>2, <2>3, <2>4 DEF CommandInv
  <1>3. ASSUME CommandInv, UNCHANGED vars PROVE CommandInv'
    <2>1. UNCHANGED <<mode, typed, macs, input, step, pc, line, at, words, word, frame, wire>>
      BY <1>3 DEF vars, given, splitter
    <2>2. TypeOK'
      BY <1>3, <2>1 DEF CommandInv, TypeOK, LineOK, BytesOK, Caller, IsByte
    <2>3. Splitting' /\ Following'
      BY <1>3, <2>1 DEF CommandInv, Splitting, Following, PacketsWhole
    <2>4. Answering'
      <3>1. LinesLeft' = LinesLeft
        BY <2>1, GivenStays DEF LinesLeft, Plain
      <3>2. Answering
        BY <1>3 DEF CommandInv
      <3>3. UNCHANGED <<mode, typed, macs, wire, frame>> /\ pc' = pc
        BY <2>1
      <3> QED
        BY <3>1, <3>2, <3>3, AnsweringStays
    <2>5. Demands' = Demands /\ Whole' = Whole
      BY <2>1, GivenStays DEF Whole
    <2>6. AllAsked' /\ StopsForAReason'
      BY <1>3, <2>1, <2>5 DEF CommandInv, AllAsked, StopsForAReason, LongWord, Proper
    <2> QED
      BY <2>2, <2>3, <2>4, <2>6 DEF CommandInv
  <1>4. CommandInv /\ [Next]_vars => CommandInv'
    BY <1>2, <1>3
  <1> QED
    BY <1>1, <1>4, PTL DEF Spec

LEMMA InOrder == CommandInv => AskedInOrder
  <1> SUFFICES ASSUME CommandInv PROVE AskedInOrder
    OBVIOUS
  <1> DEFINE Y == {b.of : b \in ToSet(wire)} \union {frame[1].of}
             more == IF frame # <<>> /\ frame[1].byte = 1 THEN <<frame[1].of>> ELSE <<>>
  <1>1. Begun \in Seq(Y) /\ Demands \in Seq(Text)
    <2> DEFINE Z == {b.of : b \in ToSet(wire)}
    <2>1. Begun \in Seq(Z)
      BY BegunTypes DEF CommandInv
    <2> HIDE DEF Z
    <2>2. Begun \in Seq(Z \union {frame[1].of})
      BY <2>1
    <2>3. Demands \in Seq(Text)
      BY LeftIs DEF CommandInv, LeftOK
    <2> QED
      BY <2>2, <2>3 DEF Z
  <1>2. more \in Seq(Y)
    <2>1. frame[1].of \in Y
      OBVIOUS
    <2> QED
      BY <2>1, ShortSeqs
  <1>3. Asked = Begun \o more
    BY DEF Asked
  <1>4. Len(Asked) <= Len(Demands) /\ \A n \in DOMAIN Asked : Asked[n] \in Asks(Demands[n])
    BY DEF CommandInv, Answering
  <1> HIDE DEF Y, more
  <1>5. /\ Len(Begun \o more) = Len(Begun) + Len(more) /\ Len(Begun) \in Nat /\ Len(more) \in Nat
        /\ \A n \in 1..Len(Begun) : (Begun \o more)[n] = Begun[n]
        /\ Begun \o more \in Seq(Y)
    BY <1>1, <1>2, ConcatIs
  <1> DEFINE u == Begun \o more
  <1> HIDE DEF u
  <1>6. DOMAIN u = 1..Len(u) /\ DOMAIN Begun = 1..Len(Begun) /\ Len(Demands) \in Nat
    BY <1>1, <1>5 DEF u
  <1>7. Asked = u /\ Len(u) = Len(Begun) + Len(more) /\ \A n \in 1..Len(Begun) : u[n] = Begun[n]
    BY <1>3, <1>5 DEF u
  <1>8. Len(Begun) <= Len(Demands) /\ \A n \in 1..Len(Begun) : n \in 1..Len(u)
    BY <1>4, <1>5, <1>6, <1>7
  <1> QED
    BY <1>4, <1>6, <1>7, <1>8 DEF AskedInOrder

\* Flicd is asked for what the lines say, in their order, each once.
THEOREM AskedAsGiven == Spec => []AskedInOrder
  BY CommandInvariant, InOrder, PTL

\* However the socket splits them, flicd receives whole packets.
THEOREM PacketsAreWhole == Spec => []PacketsWhole
  <1>1. CommandInv => PacketsWhole
    BY DEF CommandInv, Following
  <1> QED
    BY <1>1, CommandInvariant, PTL

\* When all lines are handled flicd has been sent all they ask for.
THEOREM AllIsAsked == Spec => []AllAsked
  <1>1. CommandInv => AllAsked
    BY DEF CommandInv
  <1> QED
    BY <1>1, CommandInvariant, PTL

\* The program stops only for a line that asks for it.
THEOREM EndsAreAskedFor == Spec => []StopsForAReason
  <1>1. CommandInv => StopsForAReason
    BY DEF CommandInv
  <1> QED
    BY <1>1, CommandInvariant, PTL
=============================================================================
