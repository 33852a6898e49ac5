-------------------------- MODULE ReadConfigProofs --------------------------
(***************************************************************************)
(* Theorems about the log rotation, for any number of old logs and of      *)
(* starts; then about readConfig, for any keys, files and buffer: the      *)
(* settings it leaves are those written in the file; and it implements the *)
(* log rotation, so that what is proved of LogRotation holds of it.        *)
(***************************************************************************)
EXTENDS ReadConfig, FiniteSetTheorems, SequenceTheorems, WellFoundedInduction, TLAPS

-----------------------------------------------------------------------------
(* The log rotation. *)

\* Before the first start there is no log.
LEMMA RotationInit == Init => RotationInv
  BY LastAssumption DEF Init, RotationInv, TypeOK, NewestFirst, RoomAbove, NotYetOpen, Files

\* Taking a log away leaves the others in order.
LEMMA RemoveInv == RotationInv /\ Remove => RotationInv'
  <1> SUFFICES ASSUME RotationInv, Remove PROVE RotationInv'
    OBVIOUS
  <1> USE LastAssumption DEF RotationInv, TypeOK, Files, Remove
  <1>1. log' \in [Files -> 0..run]
    OBVIOUS
  <1>2. \A n \in Files : log'[n] = 0 \/ log'[n] = log[n]
    OBVIOUS
  <1>3. log'[i + 1] = 0
    OBVIOUS
  <1>4. NewestFirst'
    BY <1>1, <1>2 DEF NewestFirst
  <1>5. RoomAbove'
    BY <1>3 DEF RoomAbove
  <1>6. NotYetOpen'
    BY <1>1, <1>2 DEF NotYetOpen
  <1> QED
    BY <1>1, <1>4, <1>5, <1>6

\* A log moves into the room above it, and past no other.
LEMMA RenameInv == RotationInv /\ Rename => RotationInv'
  <1> SUFFICES ASSUME RotationInv, Rename PROVE RotationInv'
    OBVIOUS
  <1> USE LastAssumption DEF RotationInv, TypeOK, Files
  <1>1. i \in Files /\ i + 1 \in Files /\ log[i + 1] = 0
    BY DEF Rename, Movable, RoomAbove
  <1>2. log'[i] = 0 /\ log'[i + 1] = log[i]
    BY <1>1 DEF Rename, Movable
  <1>3. \A n \in Files \ {i, i + 1} : log'[n] = log[n]
    BY <1>1 DEF Rename, Movable
  <1>4. TypeOK'
    BY <1>1 DEF Rename, Movable
  <1>5. NewestFirst'
    <2> SUFFICES ASSUME NEW m \in Files, NEW n \in Files, m < n, log'[m] # 0, log'[n] # 0
                 PROVE log'[m] > log'[n]
      BY DEF NewestFirst
    <2>1. m # i /\ n # i
      BY <1>2
    <2>2. CASE m = i + 1
      <3>1. log'[m] = log[i] /\ log'[n] = log[n] /\ i < n
        BY <1>2, <1>3, <2>1, <2>2
      <3> QED
        BY <3>1, <1>1 DEF NewestFirst
    <2>3. CASE n = i + 1
      <3>1. log'[n] = log[i] /\ log'[m] = log[m] /\ m < i
        BY <1>2, <1>3, <2>1, <2>3
      <3> QED
        BY <3>1, <1>1 DEF NewestFirst
    <2>4. CASE m # i + 1 /\ n # i + 1
      BY <1>3, <2>1, <2>4 DEF NewestFirst
    <2> QED
      BY <2>2, <2>3, <2>4
  <1>6. RoomAbove'
    <2>1. CASE i = 0
      BY <2>1, <1>2 DEF Rename, Movable, RoomAbove
    <2>2. CASE i # 0
      BY <2>2, <1>2 DEF Rename, Movable, RoomAbove
    <2> QED
      BY <2>1, <2>2
  <1>7. NotYetOpen'
    BY <1>1, <1>2, <1>3 DEF Rename, Movable, NotYetOpen
  <1> QED
    BY <1>4, <1>5, <1>6, <1>7

\* Every step keeps the invariant.
LEMMA RotationStep == RotationInv /\ [Next]_vars => RotationInv'
  <1> SUFFICES ASSUME RotationInv, [Next]_vars PROVE RotationInv'
    OBVIOUS
  <1> USE LastAssumption DEF RotationInv, TypeOK, Files
  <1>1. CASE Start
    BY <1>1 DEF Start, NewestFirst, RoomAbove, NotYetOpen
  <1>2. CASE Remove
    BY <1>2, RemoveInv
  <1>3. CASE Rename
    BY <1>3, RenameInv
  <1>4. CASE Open
    <2>1. TypeOK' /\ RoomAbove' /\ NotYetOpen'
      BY <1>4 DEF Open, RoomAbove, NotYetOpen
    <2>2. log'[0] = run /\ \A n \in Files \ {0} : log'[n] = log[n]
      BY <1>4 DEF Open
    <2>3. \A n \in Files : log[n] < run
      BY <1>4 DEF Open, NotYetOpen
    <2>4. NewestFirst'
      BY <2>2, <2>3 DEF NewestFirst
    <2> QED
      BY <2>1, <2>4
  <1>5. CASE Stop
    BY <1>5 DEF Stop, NewestFirst, RoomAbove, NotYetOpen
  <1>6. CASE UNCHANGED vars
    BY <1>6 DEF vars, NewestFirst, RoomAbove, NotYetOpen
  <1> QED
    BY <1>1, <1>2, <1>3, <1>4, <1>5, <1>6 DEF Next

\* RotationInv is an inductive invariant, wherever the program is stopped.
THEOREM RotationInvariant == Spec => []RotationInv
  BY RotationInit, RotationStep, PTL DEF Spec

\* Whatever starts were cut short, a lower number is a newer log.
THEOREM LogsInOrder == Spec => []NewestFirst
  <1>1. RotationInv => NewestFirst
    BY DEF RotationInv
  <1> QED
    BY <1>1, RotationInvariant, PTL

\* Only the first removal of the loop loses a log, and it is the oldest.
LEMMA StepLosesOldest ==
  RotationInv /\ [Next]_vars => [\A r \in Kept \ Kept' : \A s \in Kept' : s > r]_vars
  <1> SUFFICES ASSUME RotationInv, Next,
                      NEW r \in Kept \ Kept', NEW s \in Kept'
               PROVE s > r
    BY DEF vars, Kept
  <1> USE LastAssumption DEF RotationInv, TypeOK, Files, Kept
  <1>1. PICK m \in Files : log[m] = r /\ r # 0
    OBVIOUS
  <1>2. PICK n \in Files : log'[n] = s /\ s # 0
    OBVIOUS
  <1>3. log' # log
    OBVIOUS
  <1>4. CASE Remove
    <2>1. m = i + 1 /\ log[n] = s
      BY <1>1, <1>2, <1>4 DEF Remove
    <2>2. m = Last
      BY <2>1, <1>1, <1>4 DEF Remove, RoomAbove
    <2>3. n < m
      BY <2>1, <2>2, <1>1, <1>2, <1>4 DEF Remove
    <2> QED
      BY <2>1, <2>3, <1>1, <1>2 DEF NewestFirst
  <1>5. CASE Rename
    <2>1. m # i
      BY <1>1, <1>5 DEF Rename, Movable
    <2>2. m # i + 1
      BY <1>1, <1>5 DEF Rename, Movable, RoomAbove
    <2>3. log'[m] = r
      BY <2>1, <2>2, <1>1, <1>5 DEF Rename, Movable
    <2> QED
      BY <2>3, <1>1
  <1>6. CASE Open
    <2>1. m # 0
      BY <1>1, <1>6 DEF Open, RoomAbove
    <2>2. log'[m] = r
      BY <2>1, <1>1, <1>6 DEF Open
    <2> QED
      BY <2>2, <1>1
  <1> QED
    BY <1>3, <1>4, <1>5, <1>6 DEF Next, Start, Stop

\* No start loses a log while an older one is kept, even after starts that were
\* stopped in the rotation.
THEOREM RotationKeepsNewer == Spec => OnlyOldestLost
  BY RotationInvariant, StepLosesOldest, PTL DEF Spec, OnlyOldestLost

-----------------------------------------------------------------------------
(* The operators. *)

\* A set of numbers has a least one.
LEMMA Least ==
  ASSUME NEW S \in SUBSET Nat, S # {}
  PROVE  /\ Settings!Min(S) \in S
         /\ \A n \in S : Settings!Min(S) <= n
  <1>1. IsWellFoundedOn(OpToRel(<, Nat), Nat)
    BY NatLessThanWellFounded
  <1>2. PICK m \in S : \A n \in S : ~(<<n, m>> \in OpToRel(<, Nat))
    BY <1>1, WFMin
  <1>3. ASSUME NEW n \in S PROVE m <= n
    <2>1. n < m => <<n, m>> \in OpToRel(<, Nat)
      BY DEF OpToRel
    <2>2. ~(n < m)
      BY <1>2, <2>1
    <2> QED
      BY <2>2
  <1> QED
    BY <1>3 DEF Settings!Min

\* LineEnd is the first line break from i on, or the end.
LEMMA LineEndIs ==
  ASSUME NEW s, Len(s) \in Nat, NEW m \in Nat \ {0}, m <= Len(s) + 1
  PROVE  /\ Settings!LineEnd(s, m) \in m..(Len(s) + 1)
         /\ \A n \in m..(Settings!LineEnd(s, m) - 1) : ~Settings!LineBreak(s[n])
         /\ Settings!LineEnd(s, m) <= Len(s) =>
              Settings!LineBreak(s[Settings!LineEnd(s, m)])
  <1> DEFINE I == {n \in m..Len(s) : Settings!LineBreak(s[n])}
  <1>1. I \in SUBSET Nat /\ 0 \notin I
    OBVIOUS
  <1>2. CASE I = {}
    BY <1>2 DEF Settings!LineEnd, Settings!SelectInSubSeq
  <1>3. CASE I # {}
    <2>1. Settings!LineEnd(s, m) = Settings!Min(I)
      <3>1. Settings!SelectInSubSeq(s, m, Len(s), Settings!LineBreak) = Settings!Min(I)
        BY <1>3 DEF Settings!SelectInSubSeq
      <3> QED
        BY <1>1, <1>3, <3>1, Least DEF Settings!LineEnd
    <2>2. Settings!Min(I) \in I /\ \A n \in I : Settings!Min(I) <= n
      BY <1>1, <1>3, Least
    <2> DEFINE e == Settings!Min(I)
    <2>3. e \in m..Len(s) /\ Settings!LineBreak(s[e])
      BY <2>2
    <2>4. \A n \in m..(e - 1) : ~Settings!LineBreak(s[n])
      <3> SUFFICES ASSUME NEW n \in m..(e - 1), Settings!LineBreak(s[n]) PROVE FALSE
        OBVIOUS
      <3>1. n \in I /\ n < e
        BY <2>3
      <3> QED
        BY <2>2, <2>3, <3>1
    <2> QED
      BY <2>1, <2>3, <2>4
  <1> QED
    BY <1>2, <1>3

\* Found(k) is the first place of k in the buffer, or 0.
LEMMA FoundIs ==
  ASSUME Len(buf) \in Nat, NEW k
  PROVE  /\ Settings!Found(k) \in 0..Len(buf)
         /\ Settings!Found(k) = 0 => \A n \in 1..Len(buf) : buf[n] # k
         /\ Settings!Found(k) # 0 =>
              /\ buf[Settings!Found(k)] = k
              /\ \A n \in 1..Len(buf) : buf[n] = k => Settings!Found(k) <= n
  <1> DEFINE I == {n \in 1..Len(buf) : buf[n] = k}
  <1>1. I \in SUBSET Nat /\ 0 \notin I
    OBVIOUS
  <1>2. Settings!Found(k) = IF I # {} THEN Settings!Min(I) ELSE 0
    BY DEF Settings!Found, Settings!SelectInSeq
  <1>3. CASE I = {}
    BY <1>2, <1>3
  <1>4. CASE I # {}
    <2>1. Settings!Min(I) \in I /\ \A n \in I : Settings!Min(I) <= n
      BY <1>1, <1>4, Least
    <2>2. Settings!Found(k) = Settings!Min(I)
      BY <1>2, <1>4
    <2> QED
      BY <2>1, <2>2
  <1> QED
    BY <1>3, <1>4

\* A line break counts, so it is left where it is; and nothing else becomes one.
LEMMA LineBreaksStay ==
  ASSUME NEW n \in Nat, n # 0
  PROVE  Settings!LineBreak(Settings!Blanked(n)) <=> Settings!LineBreak(file[n])
  <1>1. CASE Settings!LineBreak(file[n])
    <2>1. Settings!Counts(n)
      <3> SUFFICES ASSUME NEW h \in 1..n
                   PROVE \E b \in h..n : Settings!LineBreak(file[b])
        BY DEF Settings!Counts
      <3>1. n \in h..n
        OBVIOUS
      <3> QED
        BY <1>1, <3>1
    <2> QED
      BY <1>1, <2>1 DEF Settings!Blanked
  <1>2. CASE ~Settings!LineBreak(file[n])
    BY <1>2 DEF Settings!Blanked, Settings!LineBreak
  <1> QED
    BY <1>1, <1>2

\* In a buffer without its comments, the first k and what follows it in its line
\* are the value written for k.
LEMMA TakenIsWritten ==
  ASSUME file \in Seq(Settings!ToSet(file)), Len(buf) = Len(file), Len(buf) \in Nat,
         DOMAIN buf = 1..Len(buf),
         \A n \in DOMAIN buf : buf[n] = Settings!Blanked(n),
         NEW k, k \notin {"#", "\r", "\n"}, Settings!Found(k) # 0
  PROVE  Settings!Written(k) =
           {Settings!Parsed(k, SubSeq(buf, Settings!Found(k) + 1,
                                      Settings!LineEnd(buf, Settings!Found(k)) - 1))}
  <1> DEFINE p == Settings!Found(k)
             e == Settings!LineEnd(buf, p)
             Places == {n \in DOMAIN file : file[n] = k /\ Settings!Counts(n)}
             InLine(q) == {n \in (q + 1)..Len(file) :
                             \A b \in q..n : ~Settings!LineBreak(file[b])}
             Value(q) == [n \in 1..Settings!Cardinality(InLine(q)) |-> Settings!Blanked(q + n)]
  <1>1. DOMAIN file = 1..Len(buf)
    OBVIOUS
  <1>2. Places = {n \in 1..Len(buf) : buf[n] = k}
    BY <1>1 DEF Settings!Blanked
  <1>3. p \in 1..Len(buf) /\ buf[p] = k /\ \A n \in Places : p <= n
    BY <1>2, FoundIs
  <1>4. {q \in Places : \A o \in Places : q <= o} = {p}
    BY <1>2, <1>3
  <1>5. /\ e \in p..(Len(buf) + 1)
        /\ \A n \in p..(e - 1) : ~Settings!LineBreak(buf[n])
        /\ e <= Len(buf) => Settings!LineBreak(buf[e])
    <2>1. p \in Nat \ {0} /\ p <= Len(buf) + 1
      BY <1>3
    <2> HIDE DEF p
    <2> QED
      BY <2>1, LineEndIs
  <1>6. \A n \in 1..Len(buf) : Settings!LineBreak(buf[n]) <=> Settings!LineBreak(file[n])
    BY LineBreaksStay
  <1>7. e # p
    BY <1>3, <1>5 DEF Settings!LineBreak
  <1>8. InLine(p) = (p + 1)..(e - 1)
    <2>1. ASSUME NEW n \in InLine(p) PROVE n < e
      BY <1>3, <1>5, <1>6, <2>1
    <2>2. ASSUME NEW n \in (p + 1)..(e - 1) PROVE n \in InLine(p)
      BY <1>3, <1>5, <1>6, <2>2
    <2> QED
      BY <1>3, <1>5, <2>1, <2>2
  <1>9. Settings!Cardinality(InLine(p)) = e - 1 - p
    <2>1. p \in Int /\ e \in Int /\ p + 1 <= e
      BY <1>3, <1>5, <1>7
    <2> HIDE DEF p, e, InLine
    <2>2. Cardinality((p + 1)..(e - 1)) =
             IF p + 1 > e - 1 THEN 0 ELSE e - 1 - (p + 1) + 1
      BY <2>1, FS_Interval
    <2>3. Settings!Cardinality((p + 1)..(e - 1)) = Cardinality((p + 1)..(e - 1))
      BY DEF Settings!Cardinality, Cardinality
    <2>4. (IF p + 1 > e - 1 THEN 0 ELSE e - 1 - (p + 1) + 1) = e - 1 - p
      BY <2>1
    <2> QED
      BY <1>8, <2>2, <2>3, <2>4
  <1>10. Value(p) = SubSeq(buf, p + 1, e - 1)
    <2>1. \A n \in 1..(e - 1 - p) : p + n \in DOMAIN buf /\ buf[p + n] = Settings!Blanked(p + n)
      BY <1>3, <1>5
    <2>2. SubSeq(buf, p + 1, e - 1) = [n \in 1..(e - 1 - p) |-> buf[p + n]]
      BY <1>3, <1>5, <1>7
    <2> QED
      BY <1>9, <2>1, <2>2
  <1>11. Settings!Written(k) =
           {Settings!Parsed(k, Value(q)) : q \in {q \in Places : \A o \in Places : q <= o}}
    BY DEF Settings!Written
  <1> HIDE DEF Places, Value
  <1> QED
    BY <1>4, <1>10, <1>11

\* If the buffer has no k, none is written.
LEMMA NoneIsWritten ==
  ASSUME Len(buf) = Len(file), file \in Seq(Settings!ToSet(file)),
         \A n \in DOMAIN buf : buf[n] = Settings!Blanked(n), DOMAIN buf = 1..Len(buf),
         NEW k, Settings!Found(k) = 0
  PROVE  Settings!Written(k) = {}
  <1>1. \A n \in DOMAIN file : ~(file[n] = k /\ Settings!Counts(n))
    <2>1. DOMAIN file = 1..Len(buf) /\ Len(buf) \in Nat
      OBVIOUS
    <2> QED
      BY <2>1, FoundIs DEF Settings!Blanked
  <1> QED
    BY <1>1 DEF Settings!Written

\* A sequence is one of its elements.
LEMMA SeqOfItself ==
  ASSUME NEW X, NEW s \in Seq(X)
  PROVE  s \in Seq(Settings!ToSet(s))
  <1>1. s \in [1..Len(s) -> Settings!ToSet(s)] /\ Len(s) \in Nat
    BY DEF Settings!ToSet
  <1> QED
    BY <1>1, SeqDef

-----------------------------------------------------------------------------
(* The settings. *)

\* Before the first start there is no file and no setting.
LEMMA SettingsInit == Settings!Init => SettingsInv
  <1> SUFFICES ASSUME Settings!Init PROVE SettingsInv
    OBVIOUS
  <1> USE DEF Settings!Init
  <1>1. Settings!TypeOK
    <2>1. Len(Keys) \in Nat /\ Cap \in Nat
      BY ReadConfigAssumption DEF Settings!ConfigAssumption
    <2>2. Len(buf) = 0 /\ Len(file) = 0 /\ at = 1 /\ cpc = "off"
      OBVIOUS
    <2>3. Len(buf) <= Len(file) /\ Len(buf) <= Cap
      BY <2>1, <2>2
    <2>4. at \in 1..(IF cpc = "hash" THEN Len(buf) + 1 ELSE Len(Keys) + 1)
      BY <2>1, <2>2
    <2>5. /\ opened \in BOOLEAN /\ DOMAIN setting = Settings!ToSet(Keys)
          /\ \A k \in Settings!ToSet(Keys) : \A v, w \in setting[k] : v = w
      OBVIOUS
    <2> QED
      BY <2>2, <2>3, <2>4, <2>5 DEF Settings!TypeOK
  <1>2. Settings!ReadSoFar /\ Settings!HashedSoFar /\ Settings!KeysSoFar
    BY DEF Settings!ReadSoFar, Settings!HashedSoFar, Settings!KeysSoFar
  <1>3. Settings!EndsForAReason
    BY DEF Settings!EndsForAReason
  <1> QED
    BY <1>1, <1>2, <1>3 DEF SettingsInv, Settings!ConfigInv

\* What is a sequence has a length, and its places are those up to it.
LEMMA Sequences ==
  ASSUME SettingsInv
  PROVE  /\ Len(file) \in Nat /\ DOMAIN file = 1..Len(file)
         /\ Len(buf) \in Nat /\ DOMAIN buf = 1..Len(buf)
         /\ Len(Keys) \in Nat /\ DOMAIN Keys = 1..Len(Keys)
  BY ReadConfigAssumption DEF SettingsInv, Settings!ConfigInv, Settings!ConfigAssumption

\* Starting and ending set everything afresh.
LEMMA BeginQuitInv ==
  ASSUME SettingsInv, Settings!Begin \/ Settings!NoFile \/ Settings!Quit
  PROVE  SettingsInv'
  <1> USE DEF SettingsInv, Settings!ConfigInv, Settings!TypeOK,
      Settings!ReadSoFar, Settings!HashedSoFar, Settings!KeysSoFar, Settings!EndsForAReason
  <1>1. CASE Settings!Begin
    <2>1. file' \in Seq(Settings!ToSet(file'))
      BY <1>1, ReadConfigAssumption DEF Settings!Begin, Settings!ConfigAssumption
    <2>2. \A k \in Settings!ToSet(Keys) : setting'[k] = Settings!Default(k)
      BY <1>1 DEF Settings!Begin
    <2>3. \A k : \A v, w \in Settings!Default(k) : v = w
      BY DEF Settings!Default
    <2> QED
      BY <1>1, <2>1, <2>2, <2>3, Sequences, ReadConfigAssumption
         DEF Settings!Begin, Settings!ConfigAssumption
  <1>2. CASE Settings!NoFile
    <2>1. /\ UNCHANGED <<opened, file, buf, at>> /\ cpc = "off" /\ cpc' = "exit"
          /\ setting' = [k \in Settings!ToSet(Keys) |-> Settings!Default(k)]
      BY <1>2 DEF Settings!NoFile
    <2>2. \A k : \A v, w \in Settings!Default(k) : v = w
      BY DEF Settings!Default
    <2>3. DOMAIN setting' = Settings!ToSet(Keys)
          /\ \A k \in Settings!ToSet(Keys) : \A v, w \in setting'[k] : v = w
      BY <2>1, <2>2
    <2>4. ~opened /\ at = 1 /\ buf = <<>>
      BY <2>1
    <2>5. Settings!TypeOK'
      BY <2>1, <2>3, Sequences
    <2>6. Settings!EndsForAReason'
      BY <2>1, <2>4
    <2> QED
      BY <2>1, <2>5, <2>6
  <1>3. CASE Settings!Quit
    <2>1. /\ ~opened' /\ file' = <<>> /\ buf' = <<>> /\ at' = 1 /\ cpc' = "off"
          /\ setting' = [k \in Settings!ToSet(Keys) |-> {}]
      BY <1>3 DEF Settings!Quit
    <2>2. Cap \in Nat
      BY ReadConfigAssumption DEF Settings!ConfigAssumption
    <2>3. opened' \in BOOLEAN
      BY <1>3 DEF Settings!Quit
    <2>4. Settings!TypeOK'
      BY <2>1, <2>2, <2>3, Sequences
    <2> QED
      BY <2>1, <2>4
  <1> QED
    BY <1>1, <1>2, <1>3

\* Reading a character, the end of the file, or too many of them.
LEMMA ReadInv ==
  ASSUME SettingsInv, Settings!ReadChar \/ Settings!ReadEof \/ Settings!TooLong
  PROVE  SettingsInv'
  <1> USE DEF SettingsInv, Settings!ConfigInv, Settings!TypeOK,
      Settings!ReadSoFar, Settings!HashedSoFar, Settings!KeysSoFar, Settings!EndsForAReason
  <1>1. CASE Settings!ReadChar
    <2>1. /\ buf' = Append(buf, file[Len(buf) + 1])
          /\ cpc = "read" /\ cpc' = "read"
          /\ UNCHANGED <<opened, file, at, setting>>
      BY <1>1 DEF Settings!ReadChar
    <2>2. /\ buf' \in Seq(Settings!ToSet(buf'))
          /\ Len(buf') = Len(buf) + 1
          /\ DOMAIN buf' = 1..(Len(buf) + 1)
          /\ \A n \in DOMAIN buf : buf'[n] = buf[n]
          /\ buf'[Len(buf) + 1] = file[Len(buf) + 1]
      <3> DEFINE c == file[Len(buf) + 1]
                 X == Settings!ToSet(buf) \union {c}
      <3>1. buf \in Seq(X)
        BY SeqMonotonic
      <3>2. /\ Append(buf, c) \in Seq(X)
            /\ Len(Append(buf, c)) = Len(buf) + 1
            /\ \A n \in 1..Len(buf) : Append(buf, c)[n] = buf[n]
            /\ Append(buf, c)[Len(buf) + 1] = c
        BY <3>1, AppendProperties
      <3> HIDE DEF X, c
      <3>3. buf' = Append(buf, c)
        BY <2>1 DEF c
      <3>4. DOMAIN buf' = 1..Len(buf')
        BY <3>2, <3>3
      <3> QED
        BY <3>2, <3>3, <3>4, Sequences, SeqOfItself DEF c
    <2>3. \A n \in DOMAIN buf' : buf'[n] = file[n]
      BY <2>1, <2>2, Sequences
    <2>4. Len(buf') <= Len(file) /\ Len(buf') <= Cap
      BY <1>1, <2>2, Sequences, ReadConfigAssumption
         DEF Settings!ReadChar, Settings!ConfigAssumption
    <2> QED
      BY <2>1, <2>2, <2>3, <2>4, Sequences
  <1>2. CASE Settings!ReadEof
    BY <1>2, Sequences DEF Settings!ReadEof
  <1>3. CASE Settings!TooLong
    BY <1>3, Sequences DEF Settings!TooLong
  <1> QED
    BY <1>1, <1>2, <1>3

\* Hashing out goes over the file position by position, or comment by comment.
LEMMA HashInv ==
  ASSUME SettingsInv, Settings!PassChar \/ Settings!HashOut \/ Settings!HashedOut
  PROVE  SettingsInv'
  <1> USE DEF SettingsInv, Settings!ConfigInv, Settings!TypeOK,
      Settings!ReadSoFar, Settings!KeysSoFar, Settings!EndsForAReason
  <1>1. /\ cpc = "hash" /\ Len(buf) = Len(file) /\ at \in 1..(Len(buf) + 1)
        /\ \A n \in DOMAIN buf :
             buf[n] = IF n < at THEN Settings!Blanked(n) ELSE file[n]
        /\ at \in DOMAIN file =>
             \A h \in 1..(at - 1) :
               file[h] = "#" => \E b \in h..at : Settings!LineBreak(file[b])
    BY DEF Settings!HashedSoFar, Settings!PassChar, Settings!HashOut, Settings!HashedOut
  <1>2. CASE Settings!PassChar
    <2>1. /\ at' = at + 1 /\ at \in DOMAIN buf /\ file[at] # "#"
          /\ UNCHANGED <<opened, file, buf, cpc, setting>>
      BY <1>1, <1>2, Sequences DEF Settings!PassChar
    <2>2. Settings!Counts(at)
      BY <1>1, <2>1, Sequences DEF Settings!Counts
    <2>3. \A n : Settings!Blanked(n)' = Settings!Blanked(n)
      BY <2>1 DEF Settings!Blanked, Settings!Counts
    <2>4. Settings!Blanked(at) = file[at]
      BY <2>2 DEF Settings!Blanked
    <2>5. \A n \in DOMAIN buf' :
            buf'[n] = IF n < at' THEN Settings!Blanked(n)' ELSE file'[n]
      BY <1>1, <2>1, <2>3, <2>4, Sequences
    <2>6. ASSUME at' \in DOMAIN file', NEW h \in 1..(at' - 1), file'[h] = "#"
          PROVE  \E b \in h..at' : Settings!LineBreak(file'[b])
      <3>1. h \in 1..(at - 1)
        BY <1>1, <2>1, <2>6
      <3>2. PICK b \in h..at : Settings!LineBreak(file[b])
        BY <1>1, <2>1, <2>6, <3>1, Sequences
      <3>3. b \in h..at'
        BY <1>1, <2>1, <3>1
      <3>4. Settings!LineBreak(file'[b])
        BY <2>1, <3>2
      <3> QED
        BY <3>3, <3>4
    <2>7. Settings!HashedSoFar'
      BY <1>1, <2>1, <2>5, <2>6 DEF Settings!HashedSoFar
    <2> QED
      BY <1>1, <2>1, <2>7, Sequences
  <1>3. CASE Settings!HashOut
    <2> DEFINE e == Settings!LineEnd(buf, at)
    <2>1. /\ at \in DOMAIN buf /\ file[at] = "#" /\ at' = e
          /\ buf' = [n \in DOMAIN buf |-> IF n \in at..(e - 1) THEN "#" ELSE buf[n]]
          /\ UNCHANGED <<opened, file, cpc, setting>>
      BY <1>1, <1>3, Sequences DEF Settings!HashOut
    <2>2. /\ e \in at..(Len(buf) + 1)
          /\ \A n \in at..(e - 1) : ~Settings!LineBreak(buf[n])
          /\ e <= Len(buf) => Settings!LineBreak(buf[e])
      <3>1. at \in Nat \ {0} /\ at <= Len(buf) + 1
        BY <2>1, Sequences
      <3> QED
        BY <3>1, LineEndIs, Sequences
    <2> HIDE DEF e
    <2>3. buf' \in Seq(Settings!ToSet(buf')) /\ Len(buf') = Len(buf) /\ DOMAIN buf' = DOMAIN buf
      <3>1. buf' \in Seq(Settings!ToSet(buf) \union {"#"}) /\ Len(buf') = Len(buf)
        <4>1. \A n \in DOMAIN buf : buf[n] \in Settings!ToSet(buf)
          BY DEF Settings!ToSet
        <4>2. buf' \in [1..Len(buf) -> Settings!ToSet(buf) \union {"#"}] /\ Len(buf) \in Nat
          BY <2>1, <4>1, Sequences
        <4> QED
          BY ONLY <4>2
      <3> QED
        BY <2>1, <3>1, SeqOfItself
    <2>4. \A n : Settings!Blanked(n)' = Settings!Blanked(n)
      BY <2>1 DEF Settings!Blanked, Settings!Counts
    <2>5. ASSUME NEW n \in at..(e - 1) PROVE Settings!Blanked(n) = "#"
      <3>1. \A b \in at..n : ~Settings!LineBreak(file[b])
        <4> SUFFICES ASSUME NEW b \in at..n PROVE ~Settings!LineBreak(file[b])
          OBVIOUS
        <4>1. at \in Nat \ {0} /\ e \in Nat /\ e <= Len(buf) + 1 /\ Len(buf) \in Nat
          BY <2>1, <2>2, Sequences
        <4>2. b \in at..(e - 1) /\ b \in 1..Len(buf)
          BY ONLY <4>1, n \in at..(e - 1), b \in at..n
        <4>3. file[b] = buf[b]
          BY <1>1, <2>1, <4>1, <4>2, Sequences
        <4> QED
          BY <2>2, <4>2, <4>3
      <3>2. ~Settings!Counts(n)
        <4>1. at \in 1..n /\ file[at] = "#"
          BY <2>1, <2>2, Sequences
        <4> QED
          BY ONLY <3>1, <4>1 DEF Settings!Counts
      <3> QED
        BY <3>2 DEF Settings!Blanked
    <2>6. \A n \in DOMAIN buf' :
            buf'[n] = IF n < at' THEN Settings!Blanked(n)' ELSE file'[n]
      BY <1>1, <2>1, <2>2, <2>3, <2>4, <2>5, Sequences
    <2>7. ASSUME at' \in DOMAIN file', NEW h \in 1..(at' - 1)
          PROVE  \E b \in h..at' : Settings!LineBreak(file'[b])
      <3>1. Settings!LineBreak(file[e])
        BY <1>1, <2>1, <2>2, <2>7, Sequences
      <3>2. e \in h..e
        BY <2>1, <2>2, Sequences
      <3> QED
        BY <2>1, <3>1, <3>2
    <2>8. Settings!HashedSoFar'
      BY <1>1, <2>1, <2>3, <2>6, <2>7 DEF Settings!HashedSoFar
    <2> QED
      BY <1>1, <2>1, <2>2, <2>3, <2>8, Sequences
  <1>4. CASE Settings!HashedOut
    <2>1. /\ cpc' = "keys" /\ at = Len(buf) + 1 /\ at' = 1
          /\ UNCHANGED <<opened, file, buf, setting>>
      BY <1>1, <1>4, Sequences DEF Settings!HashedOut
    <2>2. \A n \in DOMAIN buf : buf[n] = Settings!Blanked(n)
      BY <1>1, <2>1, Sequences
    <2> QED
      BY <1>1, <2>1, <2>2, Sequences DEF Settings!HashedSoFar, Settings!Blanked, Settings!Counts
  <1> QED
    BY <1>2, <1>3, <1>4

\* Looking up the keys: the settings come to be those written, key by key.
LEMMA KeysInv ==
  ASSUME SettingsInv, Settings!LookUp \/ Settings!Done
  PROVE  SettingsInv'
  <1> USE DEF SettingsInv, Settings!ConfigInv, Settings!TypeOK,
      Settings!ReadSoFar, Settings!HashedSoFar, Settings!EndsForAReason
  <1>1. /\ cpc = "keys" /\ Len(buf) = Len(file) /\ at \in 1..(Len(Keys) + 1)
        /\ \A n \in DOMAIN buf : buf[n] = Settings!Blanked(n)
        /\ \A k \in Settings!ToSet(Keys) :
             setting[k] = IF \E n \in 1..(at - 1) : Keys[n] = k
                            THEN Settings!InForce(k) ELSE Settings!Default(k)
    BY DEF Settings!KeysSoFar, Settings!LookUp, Settings!Done
  <1>2. UNCHANGED <<opened, file, buf>>
    BY DEF Settings!LookUp, Settings!Take, Settings!Skip, Settings!Crash, Settings!Done
  <1>3. /\ \A n : Settings!Blanked(n)' = Settings!Blanked(n)
        /\ \A k : Settings!Written(k)' = Settings!Written(k)
        /\ \A k : Settings!InForce(k)' = Settings!InForce(k)
    BY <1>2 DEF Settings!Blanked, Settings!Counts, Settings!Written, Settings!InForce
  <1>4. CASE Settings!Done
    BY <1>1, <1>2, <1>3, <1>4, Sequences DEF Settings!Done, Settings!KeysSoFar
  <1>5. CASE Settings!LookUp
    <2> DEFINE key == Keys[at]
    <2>1. at \in DOMAIN Keys /\ key \in Settings!ToSet(Keys) /\ key \notin {"#", "\r", "\n"}
      <3>1. at \in DOMAIN Keys
        BY <1>1, <1>5, Sequences DEF Settings!LookUp
      <3>2. key \in Settings!ToSet(Keys)
        BY <3>1 DEF Settings!ToSet
      <3> QED
        BY <3>1, <3>2, ReadConfigAssumption DEF Settings!ConfigAssumption
    <2> HIDE DEF key
    <2>2. CASE Settings!Take(key) \/ Settings!Skip(key)
      <3>1. /\ DOMAIN setting' = Settings!ToSet(Keys)
            /\ \A k \in Settings!ToSet(Keys) \ {key} : setting'[k] = setting[k]
            /\ setting'[key] = Settings!InForce(key)
            /\ \A v, w \in setting'[key] : v = w
            /\ at' = at + 1 /\ cpc' = cpc
        <4>1. CASE Settings!Take(key)
          <5> DEFINE value == Settings!Parsed(key,
                        SubSeq(buf, Settings!Found(key) + 1,
                               Settings!LineEnd(buf, Settings!Found(key)) - 1))
          <5>1. /\ Settings!Found(key) # 0 /\ setting' = [setting EXCEPT ![key] = {value}]
                /\ at' = at + 1 /\ cpc' = cpc
            BY <4>1 DEF Settings!Take
          <5>2. Settings!Written(key) = {value}
            BY <1>1, <2>1, <5>1, Sequences, TakenIsWritten
          <5> HIDE DEF value
          <5>3. Settings!InForce(key) = {value}
            BY <5>2 DEF Settings!InForce
          <5>4. DOMAIN setting = Settings!ToSet(Keys)
            OBVIOUS
          <5> QED
            BY <2>1, <5>1, <5>3, <5>4
        <4>2. CASE Settings!Skip(key)
          <5>1. Settings!InForce(key) = Settings!Default(key)
            BY <1>1, <4>2, Sequences, NoneIsWritten DEF Settings!Skip, Settings!InForce
          <5> QED
            BY <1>1, <2>1, <4>2, <5>1 DEF Settings!Skip
        <4> QED
          BY <2>2, <4>1, <4>2
      <3>2. ASSUME NEW k \in Settings!ToSet(Keys)
            PROVE  setting'[k] = IF \E n \in 1..at : Keys[n] = k
                                   THEN Settings!InForce(k) ELSE Settings!Default(k)
        <4>1. CASE k = key
          BY <1>1, <3>1, <4>1 DEF key
        <4>2. CASE k # key
          <5>1. (\E n \in 1..at : Keys[n] = k) <=> (\E n \in 1..(at - 1) : Keys[n] = k)
            BY <1>1, <4>2 DEF key
          <5> QED
            BY <1>1, <3>1, <4>2, <5>1
        <4> QED
          BY <4>1, <4>2
      <3>3. /\ at \in 1..Len(Keys) /\ Len(Keys) \in Nat
            /\ at' - 1 = at
        BY <1>1, <2>1, <3>1, Sequences
      <3>4. Settings!KeysSoFar'
        BY <1>1, <1>2, <1>3, <3>1, <3>2, <3>3 DEF Settings!KeysSoFar
      <3>5. Settings!TypeOK'
        BY <1>1, <1>2, <3>1, <3>3
      <3> QED
        BY <1>1, <1>2, <3>1, <3>4, <3>5
    <2>3. CASE Settings!Crash(key)
      BY <1>1, <1>2, <1>3, <2>3, Sequences, NoneIsWritten DEF Settings!Crash, Settings!KeysSoFar
    <2> QED
      BY <1>5, <2>2, <2>3 DEF Settings!LookUp, key
  <1> QED
    BY <1>4, <1>5

\* A step of the whole takes the settings one step further, or leaves them alone.
LEMMA SettingsSteps ==
  ASSUME SettingsInv, [ReadNext]_<<vars, settings>>
  PROVE  SettingsInv'
  <1>1. CASE Settings!Next
    BY <1>1, BeginQuitInv, ReadInv, HashInv, KeysInv DEF Settings!Next
  <1>2. CASE Settings!Quit
    BY <1>2, BeginQuitInv
  <1>3. CASE UNCHANGED settings
    <2>1. UNCHANGED <<opened, file, buf, at, cpc, setting>>
      BY <1>3 DEF settings
    <2>2. /\ \A n : Settings!Blanked(n)' = Settings!Blanked(n)
          /\ \A k : Settings!Written(k)' = Settings!Written(k)
          /\ \A k : Settings!InForce(k)' = Settings!InForce(k)
      BY <2>1 DEF Settings!Blanked, Settings!Counts, Settings!Written, Settings!InForce
    <2>3. Settings!TypeOK' /\ Settings!ReadSoFar' /\ Settings!EndsForAReason'
      BY <2>1, <2>2
         DEF SettingsInv, Settings!ConfigInv, Settings!TypeOK, Settings!ReadSoFar,
             Settings!EndsForAReason
    <2>4. Settings!HashedSoFar'
      BY <2>1, <2>2 DEF SettingsInv, Settings!ConfigInv, Settings!HashedSoFar
    <2>5. Settings!KeysSoFar'
      BY <2>1, <2>2 DEF SettingsInv, Settings!ConfigInv, Settings!KeysSoFar
    <2> QED
      BY <2>1, <2>3, <2>4, <2>5 DEF SettingsInv, Settings!ConfigInv
  <1> QED
    BY <1>1, <1>2, <1>3 DEF ReadNext, Settle, Rotate, End

\* The invariant holds of every start, whatever the earlier ones left.
THEOREM SettingsInvariant == ReadSpec => []SettingsInv
  <1>1. ReadInit => SettingsInv
    BY SettingsInit DEF ReadInit
  <1> QED
    BY <1>1, SettingsSteps, PTL DEF ReadSpec

\* For any keys, files and buffer, the settings are values of their keys and the
\* loops stay in their buffer.
THEOREM SettingsTyped == ReadSpec => []SettingsTypeOK
  <1>1. SettingsInv => SettingsTypeOK
    BY DEF SettingsInv, Settings!ConfigInv, SettingsTypeOK
  <1> QED
    BY <1>1, SettingsInvariant, PTL

\* For any keys, files and buffer, readConfig leaves the settings the format
\* says line by line, and no others: the loops over the buffer compute them.
THEOREM SettingsAreWritten == ReadSpec => []SettingsAsWritten
  <1>1. SettingsInv => SettingsAsWritten
    <2> SUFFICES ASSUME SettingsInv, cpc = "done", NEW k \in Settings!ToSet(Keys)
                 PROVE  setting[k] = Settings!InForce(k)
      BY DEF SettingsAsWritten, Settings!SettingsAsWritten
    <2>1. \E n \in 1..Len(Keys) : Keys[n] = k
      BY Sequences DEF Settings!ToSet
    <2>2. at - 1 = Len(Keys)
      BY Sequences DEF SettingsInv, Settings!ConfigInv, Settings!KeysSoFar
    <2> QED
      BY <2>1, <2>2 DEF SettingsInv, Settings!ConfigInv, Settings!KeysSoFar
  <1> QED
    BY <1>1, SettingsInvariant, PTL

\* Without a file readConfig gives up at once; with one it gives up only if the file
\* does not fit, and crashes only for want of a mandatory key.
THEOREM SettingsEnd == ReadSpec => []EndsForAReason
  <1>1. SettingsInv => EndsForAReason
    BY DEF SettingsInv, Settings!ConfigInv, EndsForAReason
  <1> QED
    BY <1>1, SettingsInvariant, PTL

-----------------------------------------------------------------------------
(* The logs. *)

\* The program rotates its logs by LogRotation.
THEOREM ReadConfigRotates == ReadSpec => Spec
  <1>1. ReadInit => Init
    BY DEF ReadInit
  <1>2. [ReadNext]_<<vars, settings>> => [Next]_vars
    BY DEF ReadNext, Settle, Rotate, End, Next
  <1> QED
    BY <1>1, <1>2, PTL DEF ReadSpec, Spec

\* Its logs are in order, and it loses the oldest only, with any settings.
THEOREM ReadConfigKeepsLogs == ReadSpec => []NewestFirst /\ OnlyOldestLost
  BY ReadConfigRotates, LogsInOrder, RotationKeepsNewer, PTL
=============================================================================
