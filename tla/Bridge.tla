------------------------------- MODULE Bridge -------------------------------
(***************************************************************************)
(* The bridge as its subscribers see it: main composed with PahoWrapper,   *)
(* the broker behind it, and starts after crashes.  Of looper there is     *)
(* what it hands to the wrapper: Online for an answer of flicd to getInfo, *)
(* and a message for each event of a button.                               *)
(*                                                                         *)
(* The broker is external, and is what MQTT says of it: messages of a      *)
(* session arrive in order; a session that ends without a farewell has its *)
(* will published, at the latest before the same client id is connected    *)
(* again.                                                                  *)
(***************************************************************************)
EXTENDS Integers, Sequences

CONSTANTS
  HighWater, MaxOutstanding, MaxUnsettled,   \* of PahoWrapper
  MaxCrashes                                 \* bound on the crashes

ASSUME BridgeAssumption ==
  /\ HighWater \in Nat /\ MaxOutstanding \in Nat /\ MaxUnsettled \in Nat
  /\ MaxCrashes \in Nat

\* What is written of a button is one message: only the LWT topic is retained.
Messages == {"Online", "Offline", "State"}

VARIABLES
  pahoUp, pahoOutstanding, pc, sending,
  client, wire, news, acks, fails, running,
  place,     \* where main is when it is not in the wrapper: "start", "hello",
             \* "top" (of an epoch), "loop" (in looper)
  due,       \* an answer to getInfo is on its way to looper
  crashes,   \* how often the program crashed
  seen,      \* messages of wire the broker has received
  session,   \* external: the broker's session of this client, "none" or "open"
  stale,     \* external: there is an older one, with its will
  retained,  \* external: the retained message of the LWT topic
  online     \* Online was received in the broker's session

Paho == INSTANCE PahoWrapper

wrapper == <<pahoUp, pahoOutstanding, pc, sending,
             client, wire, news, acks, fails, running>>
main == <<place, due, crashes>>
broker == <<seen, session, stale, retained, online>>
vars == <<wrapper, main, broker>>

Init ==
  /\ Paho!Init
  /\ place = "start"
  /\ due = FALSE
  /\ crashes = 0
  /\ seen = 0
  /\ session = "none" /\ stale = FALSE
  /\ retained \in {"Online", "Offline"}
  /\ online = FALSE

-----------------------------------------------------------------------------
(* main, where it is not in the wrapper. *)

\* After the constructor: markAvailable(false).
SayOffline ==
  /\ place = "start"
  /\ Paho!Send("Offline")
  /\ place' = "hello"
  /\ UNCHANGED <<due, crashes, broker>>

Hello ==
  /\ place = "hello" /\ pc = "run"
  /\ place' = "top"
  /\ due' = TRUE
  /\ UNCHANGED <<wrapper, crashes, broker>>

\* isUp is read once; looper is called after the reconnect has returned.
Top ==
  /\ place = "top" /\ pc = "run"
  /\ place' = "loop"
  /\ IF pahoUp THEN UNCHANGED wrapper ELSE Paho!Reconnect
  /\ UNCHANGED <<due, crashes, broker>>

ReadInfo ==
  /\ place = "loop" /\ due
  /\ Paho!Send("Online")
  /\ due' = FALSE
  /\ UNCHANGED <<place, crashes, broker>>

ReadPress ==
  /\ place = "loop"
  /\ Paho!Send("State")
  /\ UNCHANGED <<main, broker>>

\* A slip: main does not ask for information any more.
EpochEndsNotAsking ==
  /\ place = "loop" /\ pc = "run"
  /\ place' = "top"
  /\ UNCHANGED <<wrapper, due, crashes, broker>>

\* looper returns, and main asks for information.  An answer still due is not told
\* from the new one.
EpochEnds ==
  /\ place = "loop" /\ pc = "run"
  /\ place' = "top"
  /\ due' = TRUE
  /\ UNCHANGED <<wrapper, crashes, broker>>

\* An assertion, an exit, a kill: what the program keeps in memory is gone, and its
\* connection.
Crash ==
  /\ crashes < MaxCrashes
  /\ crashes' = crashes + 1
  /\ pahoUp' = FALSE /\ pahoOutstanding' = 0
  /\ pc' = "create" /\ UNCHANGED sending
  /\ client' = "none" /\ wire' = <<>> /\ news' = {} /\ acks' = 0 /\ fails' = 0
  /\ running' = "none"
  /\ place' = "start" /\ due' = FALSE
  /\ seen' = 0
  /\ session' = "none" /\ stale' = (stale \/ session = "open")
  /\ online' = FALSE
  /\ UNCHANGED retained

-----------------------------------------------------------------------------
(* The wrapper, where the broker has no part in it. *)

InWrapper ==
  /\ \/ Paho!SendMessage \/ Paho!Refused
     \/ Paho!Create \/ Paho!Connect \/ Paho!WaitOver
     \/ Paho!Callback \/ Paho!ConnectFails
  /\ UNCHANGED <<main, broker>>

\* MQTTAsync_destroy may take leave of the broker, and may not.
Destroy ==
  /\ Paho!Destroy
  /\ seen' = 0
  /\ session' = "none"
  /\ stale' \in IF session = "open" THEN BOOLEAN ELSE {stale}
  /\ online' = FALSE
  /\ UNCHANGED <<main, retained>>

\* A slip: every connection has a client id of its own.
ConnectedAnew ==
  /\ Paho!Connected
  /\ session' = "open"
  /\ online' = FALSE
  /\ UNCHANGED <<main, seen, stale, retained>>

\* The client id is always the same: an older session ends here.
Connected ==
  /\ Paho!Connected
  /\ session' = "open"
  /\ stale' = FALSE
  /\ retained' = IF stale THEN "Offline" ELSE retained
  /\ online' = FALSE
  /\ UNCHANGED <<main, seen>>

\* The client loses its connection; the broker may know already.
Lost ==
  /\ Paho!Lost
  /\ session' = "none"
  /\ stale' = (stale \/ session = "open")
  /\ online' = FALSE
  /\ UNCHANGED <<main, seen, retained>>

Acknowledge ==
  /\ seen > 0 /\ session = "open"
  /\ Paho!Acknowledge
  /\ seen' = seen - 1
  /\ UNCHANGED <<main, session, stale, retained, online>>

GiveUp ==
  /\ Paho!GiveUp
  /\ seen' = IF seen > 0 THEN seen - 1 ELSE 0
  /\ UNCHANGED <<main, session, stale, retained, online>>

-----------------------------------------------------------------------------
(* The broker. *)

Deliver ==
  /\ session = "open" /\ seen < Len(wire)
  /\ seen' = seen + 1
  /\ LET msg == wire[seen + 1]
     IN  IF msg \in {"Online", "Offline"}
           THEN retained' = msg /\ online' = (online \/ msg = "Online")
           ELSE UNCHANGED <<retained, online>>
  /\ UNCHANGED <<wrapper, main, session, stale>>

\* The broker has not heard of the client for too long.
Drop ==
  /\ session = "open"
  /\ session' = "none"
  /\ retained' = "Offline"
  /\ online' = FALSE
  /\ UNCHANGED <<wrapper, main, seen, stale>>

Will ==
  /\ stale
  /\ stale' = FALSE
  /\ retained' = "Offline"
  /\ UNCHANGED <<wrapper, main, seen, session, online>>

Main == SayOffline \/ Hello \/ Top \/ ReadInfo \/ ReadPress \/ EpochEnds

Next ==
  \/ Main \/ Crash
  \/ InWrapper \/ Destroy \/ Connected \/ Lost \/ Acknowledge \/ GiveUp
  \/ Deliver \/ Drop \/ Will

Spec == Init /\ [][Next]_vars

\* The threads run; epochs end (EpochsEnd) and looper reads (ReadReturns); of
\* connects tried again and again one succeeds in time (as in PahoWrapper); the
\* broker receives what it is sent, and a client without a session learns of it.
Fairness ==
  /\ WF_vars(SayOffline) /\ WF_vars(Hello) /\ WF_vars(Top)
  /\ SF_vars(ReadInfo) /\ SF_vars(EpochEnds)
  /\ WF_vars(InWrapper /\ pc' # pc) /\ WF_vars(Destroy)
  /\ SF_vars(InWrapper /\ client' = "connecting" /\ client # client')
  /\ SF_vars(Connected)
  /\ WF_vars(Paho!Callback /\ UNCHANGED <<main, broker>>)
  /\ SF_vars(Paho!OnConnect /\ UNCHANGED <<main, broker>>)
  /\ WF_vars(Deliver) /\ WF_vars(Acknowledge) /\ WF_vars(Lost /\ session = "none")

FairSpec == Spec /\ Fairness

-----------------------------------------------------------------------------
(* Properties. *)

\* The wrapper keeps its types, and the broker has received no more than was sent.
TypeOK ==
  /\ Paho!TypeOK
  /\ place \in {"start", "hello", "top", "loop"}
  /\ due \in BOOLEAN
  /\ crashes \in 0..MaxCrashes
  /\ seen \in 0..Len(wire)
  /\ session \in {"none", "open"} /\ stale \in BOOLEAN
  /\ retained \in {"Online", "Offline"}
  /\ online \in BOOLEAN

\* Once a session of the broker has received Online, nothing calls the bridge
\* offline while it lasts: no will of an older session, whatever was lost,
\* destroyed or crashed before, and no Offline of the start-up.
OnlineStays == online => retained = "Online"

\* A session that is open is the last: the older one's will was published before it.
OneSession ==
  /\ online => session = "open"
  /\ stale => session = "none"

\* The Offline of the start-up is handed over before the first Online of the process.
StartUp ==
  /\ place \in {"start", "hello"} =>
       /\ ~online /\ \A n \in DOMAIN wire : wire[n] # "Online"
       /\ pc = "sending" => sending # "Online"
  /\ place \in {"top", "loop"} /\ pc = "sending" => sending # "Offline"

\* So no Offline comes behind an Online, received or on its way.
OfflineFirst ==
  /\ \A m, n \in DOMAIN wire : m < n /\ wire[m] = "Online" => wire[n] # "Offline"
  /\ online => \A n \in DOMAIN wire : n > seen => wire[n] # "Offline"

\* The inductive invariant.
BridgeInv ==
  /\ sending \in Messages /\ wire \in Seq(Messages) /\ seen \in 0..Len(wire)
  /\ place \in {"start", "hello", "top", "loop"}
  /\ OnlineStays /\ OneSession /\ StartUp /\ OfflineFirst

\* looper has a message to send while as many as the high-water mark are not
\* settled: buttons are pressed faster than the broker acknowledges.  pahoOnSend
\* takes this for a dead connection if the next acknowledgement finds them waiting.
Burst ==
  /\ ReadInfo \/ ReadPress
  /\ Paho!Unsettled >= HighWater

\* What keeps the bridge from coming back, or ends what it has: the network, the
\* broker, a crash, a burst, and two races of a connection that comes when it is
\* not waited for: between a refusal and the line that notes it, and between the
\* reading of isUp and the destruction.
Trouble ==
  \/ Drop \/ GiveUp \/ Crash \/ Burst
  \/ Lost /\ session = "open"
  \/ InWrapper /\ Paho!ConnectFails
  \/ InWrapper /\ Paho!Refused /\ client = "up"
  \/ InWrapper /\ Paho!OnConnectUp /\ pc = "destroy"

Calm == <>[][~Trouble]_vars

\* However the start, the losses and the crashes went, once the network is calm the
\* bridge is announced Online for good.
OnlineAgain == Calm => <>[](retained = "Online")
=============================================================================
