----------------------------- MODULE ConfigFile -----------------------------
(***************************************************************************)
(* Config::readConfig: the file is read into a buffer of fixed size, what  *)
(* stands behind a hash mark is overwritten, and each setting is looked up *)
(* in the buffer by its key.  The rotation of the logs, which the setting  *)
(* LOGFILE sets off, is LogRotation.                                       *)
(*                                                                         *)
(* A file is a sequence of characters, where a whole key, a number or a    *)
(* word of a value counts as one.                                          *)
(***************************************************************************)
EXTENDS Integers, SequencesExt

CONSTANTS
  Keys,       \* the keys, in the order they are looked up
  Mandatory,  \* those dereferenced whether they are found or not
  Numbers,    \* characters that are a number
  Files,      \* files the program may be started with
  Cap         \* the read loop's bound: 4095

\* Keys and files are sequences; no key is a hash mark or ends a line.
ConfigAssumption ==
  /\ Cap \in Nat
  /\ Keys \in Seq(ToSet(Keys))
  /\ \A k \in ToSet(Keys) : k \notin {"#", "\r", "\n"}
  /\ \A f \in Files : f \in Seq(ToSet(f))

VARIABLES
  opened,   \* has fopen found the file
  file,     \* external: the file
  buf,      \* buf, up to its terminating zero
  at,       \* the loops' position in buf, then in Keys
  pc,       \* "off", "read", "hash", "keys", and how it ended: "done", "exit" (with a
            \* message) or "crashed" (a null pointer is dereferenced)
  setting   \* setting[k]: the value in force, as a set of none or one

LineBreak(c) == c \in {"\r", "\n"}

\* The first line break of s at or after i, or the end of s.
LineEnd(s, i) ==
  LET e == SelectInSubSeq(s, i, Len(s), LineBreak) IN IF e = 0 THEN Len(s) + 1 ELSE e

\* flicdPort is 5551 until a FLICD_PORT is found; the others are null pointers.
Default(k) == IF k = "FLICD_PORT=" THEN {<<"5551">>} ELSE {}

\* atoi: the number in front, or 0.
Atoi(value) == IF value # <<>> /\ value[1] \in Numbers THEN <<value[1]>> ELSE <<"0">>

Parsed(k, value) == IF k = "FLICD_PORT=" THEN Atoi(value) ELSE value

Init ==
  /\ opened = FALSE
  /\ file = <<>> /\ buf = <<>>
  /\ at = 1
  /\ pc = "off"
  /\ setting = [k \in ToSet(Keys) |-> {}]

\* The file as it is when the program starts, and the settings before it is read.
Begin ==
  /\ pc = "off"
  /\ opened' = TRUE
  /\ file' \in Files
  /\ pc' = "read"
  /\ setting' = [k \in ToSet(Keys) |-> Default(k)]
  /\ UNCHANGED <<buf, at>>

\* A slip: a file that is not there is taken for an empty one.
NoFileIsEmpty ==
  /\ pc = "off"
  /\ pc' = "read"
  /\ setting' = [k \in ToSet(Keys) |-> Default(k)]
  /\ UNCHANGED <<opened, file, buf, at>>

\* The file cannot be opened.
NoFile ==
  /\ pc = "off"
  /\ pc' = "exit"
  /\ setting' = [k \in ToSet(Keys) |-> Default(k)]
  /\ UNCHANGED <<opened, file, buf, at>>

\* The program ends.
Quit ==
  /\ pc # "off"
  /\ opened' = FALSE
  /\ file' = <<>> /\ buf' = <<>>
  /\ at' = 1
  /\ pc' = "off"
  /\ setting' = [k \in ToSet(Keys) |-> {}]

-----------------------------------------------------------------------------
(* Reading the file. *)

\* A slip: the buffer takes one character more than its room.
ReadCharOneMore ==
  /\ pc = "read" /\ Len(buf) <= Cap /\ Len(buf) < Len(file)
  /\ buf' = Append(buf, file[Len(buf) + 1])
  /\ UNCHANGED <<opened, file, at, pc, setting>>

ReadChar ==
  /\ pc = "read" /\ Len(buf) < Cap /\ Len(buf) < Len(file)
  /\ buf' = Append(buf, file[Len(buf) + 1])
  /\ UNCHANGED <<opened, file, at, pc, setting>>

ReadEof ==
  /\ pc = "read" /\ Len(buf) < Cap /\ Len(buf) = Len(file)
  /\ pc' = "hash"
  /\ UNCHANGED <<opened, file, buf, at, setting>>

\* A slip: a file that does not fit is cut.
TooLongIsCut ==
  /\ pc = "read" /\ Len(buf) = Cap
  /\ pc' = "hash"
  /\ UNCHANGED <<opened, file, buf, at, setting>>

TooLong ==
  /\ pc = "read" /\ Len(buf) = Cap
  /\ pc' = "exit"
  /\ UNCHANGED <<opened, file, buf, at, setting>>

-----------------------------------------------------------------------------
(* Hashing out what stands behind a hash mark. *)

PassChar ==
  /\ pc = "hash" /\ at <= Len(buf) /\ buf[at] # "#"
  /\ at' = at + 1
  /\ UNCHANGED <<opened, file, buf, pc, setting>>

\* A slip: only the lines that begin with a hash mark are hashed out.
HashOutWholeLines ==
  /\ pc = "hash" /\ at <= Len(buf) /\ buf[at] = "#"
  /\ buf' = IF at = 1 \/ LineBreak(buf[at - 1])
              THEN [n \in DOMAIN buf |-> IF n \in at..(LineEnd(buf, at) - 1) THEN "#" ELSE buf[n]]
              ELSE buf
  /\ at' = LineEnd(buf, at)
  /\ UNCHANGED <<opened, file, pc, setting>>

HashOut ==
  /\ pc = "hash" /\ at <= Len(buf) /\ buf[at] = "#"
  /\ buf' = [n \in DOMAIN buf |-> IF n \in at..(LineEnd(buf, at) - 1) THEN "#" ELSE buf[n]]
  /\ at' = LineEnd(buf, at)
  /\ UNCHANGED <<opened, file, pc, setting>>

HashedOut ==
  /\ pc = "hash" /\ at > Len(buf)
  /\ at' = 1
  /\ pc' = "keys"
  /\ UNCHANGED <<opened, file, buf, setting>>

-----------------------------------------------------------------------------
(* Looking up the keys, one after the other: strstr, then up to the end of *)
(* the line.                                                               *)

Found(k) == SelectInSeq(buf, LAMBDA c : c = k)

\* A slip: the value goes on to the end of the file.
TakeToTheEnd(k) ==
  /\ Found(k) # 0
  /\ setting' = [setting EXCEPT ![k] = {Parsed(k, SubSeq(buf, Found(k) + 1, Len(buf)))}]
  /\ at' = at + 1
  /\ UNCHANGED <<opened, file, buf, pc>>

Take(k) ==
  /\ Found(k) # 0
  /\ setting' = [setting EXCEPT ![k] =
                   {Parsed(k, SubSeq(buf, Found(k) + 1, LineEnd(buf, Found(k)) - 1))}]
  /\ at' = at + 1
  /\ UNCHANGED <<opened, file, buf, pc>>

Skip(k) ==
  /\ Found(k) = 0 /\ k \notin Mandatory
  /\ at' = at + 1
  /\ UNCHANGED <<opened, file, buf, pc, setting>>

\* strstr has returned null, and the search for the end of the line reads there.
Crash(k) ==
  /\ Found(k) = 0 /\ k \in Mandatory
  /\ pc' = "crashed"
  /\ UNCHANGED <<opened, file, buf, at, setting>>

LookUp ==
  /\ pc = "keys" /\ at <= Len(Keys)
  /\ Take(Keys[at]) \/ Skip(Keys[at]) \/ Crash(Keys[at])

Done ==
  /\ pc = "keys" /\ at > Len(Keys)
  /\ pc' = "done"
  /\ UNCHANGED <<opened, file, buf, at, setting>>

Next ==
  \/ Begin \/ NoFile
  \/ ReadChar \/ ReadEof \/ TooLong
  \/ PassChar \/ HashOut \/ HashedOut
  \/ LookUp \/ Done

-----------------------------------------------------------------------------
(* Properties. *)

\* The settings are values of their keys, and the loops stay in range.
TypeOK ==
  /\ Len(buf) <= Len(file) /\ Len(buf) <= Cap
  /\ at \in 1..(IF pc = "hash" THEN Len(buf) + 1 ELSE Len(Keys) + 1)
  /\ pc \in {"off", "read", "hash", "keys", "done", "exit", "crashed"}
  /\ opened \in BOOLEAN
  /\ DOMAIN setting = ToSet(Keys)
  /\ \A k \in ToSet(Keys) : \A v, w \in setting[k] : v = w

\* What the format says, line by line.  A character counts unless a hash mark
\* stands before it in its line.
Counts(n) ==
  \A h \in 1..n : file[h] = "#" => \E b \in h..n : LineBreak(file[b])

\* The character that is left of the n-th.
Blanked(n) == IF Counts(n) THEN file[n] ELSE "#"

\* The value written for k: what follows the first k that counts, to the end of
\* its line, comments blanked.
Written(k) ==
  LET Places == {n \in DOMAIN file : file[n] = k /\ Counts(n)}
      InLine(p) == {n \in (p + 1)..Len(file) : \A b \in p..n : ~LineBreak(file[b])}
  IN  {Parsed(k, [n \in 1..Cardinality(InLine(p)) |-> Blanked(p + n)]) :
         p \in {p \in Places : \A o \in Places : p <= o}}

\* The value k is to have.
InForce(k) == IF Written(k) = {} THEN Default(k) ELSE Written(k)

\* The program runs with the settings that are written in its file: a setting
\* that is commented out is not taken, a comment behind a value hides nothing but
\* itself, a key that is not written keeps its default, no value runs into
\* the next line, and a file that is too long is not taken for what fits of it.
SettingsAsWritten ==
  pc = "done" => \A k \in ToSet(Keys) : setting[k] = InForce(k)

\* A start without a file goes no further, and one with a file ends early only if the
\* file does not fit or a mandatory key is not written in it.
EndsForAReason ==
  /\ ~opened => pc \in {"off", "exit"}
  /\ pc = "exit" /\ opened => Len(file) >= Cap
  /\ pc = "crashed" => \E k \in Mandatory : Written(k) = {}

\* The buffer holds the file as far as it was read.
ReadSoFar ==
  pc = "read" => at = 1 /\ \A n \in DOMAIN buf : buf[n] = file[n]

\* What is hashed out are the comments before this position, all of them; and the
\* position is in none.
HashedSoFar ==
  pc = "hash" =>
    /\ Len(buf) = Len(file)
    /\ \A n \in DOMAIN buf : buf[n] = IF n < at THEN Blanked(n) ELSE file[n]
    /\ at \in DOMAIN file =>
         \A h \in 1..(at - 1) : file[h] = "#" => \E b \in h..at : LineBreak(file[b])

\* The keys are looked up in the file without its comments, and the settings are
\* those of the keys looked up so far.
KeysSoFar ==
  /\ pc = "read" \/ pc = "hash" => \A k \in ToSet(Keys) : setting[k] = Default(k)
  /\ pc = "keys" \/ pc = "done" =>
       /\ Len(buf) = Len(file)
       /\ \A n \in DOMAIN buf : buf[n] = Blanked(n)
       /\ \A k \in ToSet(Keys) :
            setting[k] = IF \E n \in 1..(at - 1) : Keys[n] = k THEN InForce(k) ELSE Default(k)
  /\ pc = "done" => at = Len(Keys) + 1

\* The inductive invariant.
ConfigInv ==
  /\ TypeOK
  /\ file \in Seq(ToSet(file)) /\ buf \in Seq(ToSet(buf))
  /\ pc = "off" => ~opened /\ at = 1 /\ buf = <<>>
  /\ ReadSoFar /\ HashedSoFar /\ KeysSoFar
  /\ EndsForAReason
=============================================================================
