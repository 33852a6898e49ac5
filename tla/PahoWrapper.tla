---------------------------- MODULE PahoWrapper ----------------------------
(***************************************************************************)
(* PahoWrapper.cpp: the main thread sends messages and reconnects, the     *)
(* threads of the Paho library call back, and the two sides share the      *)
(* volatile fields pahoUp and pahoOutstanding without a lock.  Every       *)
(* access to one of them is a step of its own where the other side can     *)
(* come in between.                                                        *)
(*                                                                         *)
(* The library, the network and the broker are external, and known only    *)
(* from how the code uses them:                                            *)
(*   - sendMessage is refused exactly when the client is not connected;    *)
(*   - callbacks run one at a time, that of the connection first, and      *)
(*     destroy waits for the one that runs and drops the others;           *)
(*   - a message that was accepted is acknowledged, fails, or is never     *)
(*     heard of again.                                                     *)
(***************************************************************************)
EXTENDS Integers, Sequences

CONSTANTS
  Messages,        \* what the main thread sends
  HighWater,       \* outstanding messages that count as a dead connection: 16
  MaxOutstanding,  \* bound: send is called with fewer outstanding
  MaxUnsettled     \* bound: and with fewer messages the library has to settle

ASSUME BoundsAssumption ==
  HighWater \in Nat /\ MaxOutstanding \in Nat /\ MaxUnsettled \in Nat

VARIABLES
  pahoUp,
  pahoOutstanding,
  pc,        \* the main thread: "run" (elsewhere), in send "sending" and "refused",
             \* in reconnect "destroy", "create", "connect" and "wait"
  sending,   \* the message in the call of send
  client,    \* external: pahoClient, "none", "idle", "connecting" or "up"
  wire,      \* external: messages accepted and not settled, oldest first
  news,      \* external: callbacks about the connection that wait to run
  acks,      \* external: calls of pahoOnSend that wait to run
  fails,     \* external: calls of pahoOnSendFailure that wait to run
  running    \* the callback stopped between two accesses, or "none"

fields == <<pahoUp, pahoOutstanding>>
thread == <<pc, sending>>
library == <<client, wire, news, acks, fails, running>>
vars == <<fields, thread, library>>

Bounded ==
  pahoOutstanding < MaxOutstanding /\ Len(wire) + acks + fails < MaxUnsettled

\* The constructor sets the fields and calls reconnect with no client.
Init ==
  /\ pahoUp = FALSE
  /\ pahoOutstanding = 0
  /\ pc = "create"
  /\ sending \in Messages
  /\ client = "none"
  /\ wire = <<>>
  /\ news = {}
  /\ acks = 0
  /\ fails = 0
  /\ running = "none"

-----------------------------------------------------------------------------
(* The main thread: send. *)

Send(msg) ==
  /\ pc = "run"
  /\ Bounded
  /\ pahoOutstanding' = pahoOutstanding + 1
  /\ sending' = msg
  /\ pc' = "sending"
  /\ UNCHANGED <<pahoUp, library>>

\* MQTTAsync_sendMessage.
SendMessage ==
  /\ pc = "sending"
  /\ IF client = "up"
       THEN pc' = "run" /\ wire' = Append(wire, sending)
       ELSE pc' = "refused" /\ UNCHANGED wire
  /\ UNCHANGED <<fields, sending, client, news, acks, fails, running>>

Refused ==
  /\ pc = "refused"
  /\ pahoUp' = FALSE
  /\ pc' = "run"
  /\ UNCHANGED <<pahoOutstanding, sending, library>>

-----------------------------------------------------------------------------
(* The main thread: reconnect, called between epochs when isUp() is false. *)

\* A slip: reconnect only if there never was a client.
ReconnectOnce ==
  /\ pc = "run" /\ ~pahoUp /\ client = "none"
  /\ pc' = "create"
  /\ UNCHANGED <<fields, sending, library>>

Reconnect ==
  /\ pc = "run" /\ ~pahoUp
  /\ pc' = IF client = "none" THEN "create" ELSE "destroy"
  /\ UNCHANGED <<fields, sending, library>>

\* MQTTAsync_destroy and the second of sleep after it.
Destroy ==
  /\ pc = "destroy" /\ running = "none"
  /\ pc' = "create"
  /\ client' = "none"
  /\ wire' = <<>> /\ news' = {} /\ acks' = 0 /\ fails' = 0
  /\ UNCHANGED <<fields, sending, running>>

\* A slip: the flag keeps the value it had for the old client.
CreateKeepingFlag ==
  /\ pc = "create"
  /\ client' = "idle"
  /\ pc' = "connect"
  /\ UNCHANGED <<fields, sending, wire, news, acks, fails, running>>

\* No callback of the new client can come before it connects, so the flag is
\* cleared together with the creation.
Create ==
  /\ pc = "create"
  /\ client' = "idle"
  /\ pahoUp' = FALSE
  /\ pc' = "connect"
  /\ UNCHANGED <<pahoOutstanding, sending, wire, news, acks, fails, running>>

Connect ==
  /\ pc = "connect"
  /\ \/ client' = "connecting" /\ pc' = "wait"
     \/ client' = "idle" /\ pc' = "run"
  /\ UNCHANGED <<fields, sending, wire, news, acks, fails, running>>

\* Five seconds, or less once pahoUp is seen set.
WaitOver ==
  /\ pc = "wait"
  /\ pc' = "run"
  /\ UNCHANGED <<fields, sending, library>>

-----------------------------------------------------------------------------
(* The callbacks, on a thread of the library. *)

\* A slip: the counter of the old connection is kept.
OnConnectKeepingCount ==
  /\ running = "none" /\ "connected" \in news
  /\ news' = news \ {"connected"}
  /\ running' = "onConnect"
  /\ UNCHANGED <<fields, thread, client, wire, acks, fails>>

OnConnect ==
  /\ running = "none" /\ "connected" \in news
  /\ news' = news \ {"connected"}
  /\ pahoOutstanding' = 0
  /\ running' = "onConnect"
  /\ UNCHANGED <<pahoUp, thread, client, wire, acks, fails>>

OnConnectUp ==
  /\ running = "onConnect"
  /\ pahoUp' = TRUE
  /\ running' = "none"
  /\ UNCHANGED <<pahoOutstanding, thread, client, wire, news, acks, fails>>

OnConnectFailure ==
  /\ running = "none" /\ "failed" \in news
  /\ news' = news \ {"failed"}
  /\ pahoUp' = FALSE
  /\ UNCHANGED <<pahoOutstanding, thread, client, wire, acks, fails, running>>

\* A slip: the loss of the connection is only logged.
OnConnLostOnlyLogged ==
  /\ running = "none" /\ "lost" \in news /\ "connected" \notin news
  /\ news' = news \ {"lost"}
  /\ UNCHANGED <<fields, thread, client, wire, acks, fails, running>>

OnConnLost ==
  /\ running = "none" /\ "lost" \in news /\ "connected" \notin news
  /\ news' = news \ {"lost"}
  /\ pahoUp' = FALSE
  /\ UNCHANGED <<pahoOutstanding, thread, client, wire, acks, fails, running>>

\* A slip: one completion subtracts twice.
OnSendTwice ==
  /\ running = "none" /\ acks > 0 /\ "connected" \notin news
  /\ acks' = acks - 1
  /\ pahoOutstanding' = pahoOutstanding - 2
  /\ running' = "onSend"
  /\ UNCHANGED <<pahoUp, thread, client, wire, news, fails>>

OnSend ==
  /\ running = "none" /\ acks > 0 /\ "connected" \notin news
  /\ acks' = acks - 1
  /\ pahoOutstanding' = pahoOutstanding - 1
  /\ running' = "onSend"
  /\ UNCHANGED <<pahoUp, thread, client, wire, news, fails>>

\* The counter is read again: sends may have come since the decrement.
OnSendCheck ==
  /\ running = "onSend"
  /\ pahoUp' = (pahoUp /\ pahoOutstanding <= HighWater)
  /\ running' = "none"
  /\ UNCHANGED <<pahoOutstanding, thread, client, wire, news, acks, fails>>

\* A slip: the failure is only logged.
OnSendFailureOnlyLogged ==
  /\ running = "none" /\ fails > 0 /\ "connected" \notin news
  /\ fails' = fails - 1
  /\ UNCHANGED <<fields, thread, client, wire, news, acks, running>>

OnSendFailure ==
  /\ running = "none" /\ fails > 0 /\ "connected" \notin news
  /\ fails' = fails - 1
  /\ pahoUp' = FALSE
  /\ UNCHANGED <<pahoOutstanding, thread, client, wire, news, acks, running>>

-----------------------------------------------------------------------------
(* The library's own steps, driven by the network and the broker. *)

Connected ==
  /\ client = "connecting"
  /\ client' = "up"
  /\ news' = news \union {"connected"}
  /\ UNCHANGED <<fields, thread, wire, acks, fails, running>>

ConnectFails ==
  /\ client = "connecting"
  /\ client' = "idle"
  /\ news' = news \union {"failed"}
  /\ UNCHANGED <<fields, thread, wire, acks, fails, running>>

\* The client notices that the connection is gone.
Lost ==
  /\ client = "up"
  /\ client' = "idle"
  /\ news' = news \union {"lost"}
  /\ UNCHANGED <<fields, thread, wire, acks, fails, running>>

\* The oldest message is acknowledged.
Acknowledge ==
  /\ client = "up" /\ wire # <<>>
  /\ wire' = Tail(wire)
  /\ acks' = acks + 1
  /\ UNCHANGED <<fields, thread, client, news, fails, running>>

\* The library gives a message up.
GiveUp ==
  /\ wire # <<>> /\ client # "none"
  /\ wire' = Tail(wire)
  /\ fails' = fails + 1
  /\ UNCHANGED <<fields, thread, client, news, acks, running>>

-----------------------------------------------------------------------------

Main ==
  \/ \E msg \in Messages : Send(msg)
  \/ SendMessage \/ Refused
  \/ Reconnect \/ Destroy \/ Create \/ Connect \/ WaitOver

Callback ==
  \/ OnConnect \/ OnConnectUp \/ OnConnectFailure \/ OnConnLost
  \/ OnSend \/ OnSendCheck \/ OnSendFailure

Library ==
  Connected \/ ConnectFails \/ Lost \/ Acknowledge \/ GiveUp

Next == Main \/ Callback \/ Library

Spec == Init /\ [][Next]_vars

\* isUp() is read at the top of every epoch (SF: main is in send when it is not
\* there).  A started connect ends and callbacks run; of the connects started
\* again and again one succeeds, and of the calls of onConnect one comes before
\* the next epoch, an hour later, has destroyed the client.
Fairness ==
  /\ WF_vars(SendMessage) /\ WF_vars(Refused)
  /\ SF_vars(Reconnect) /\ WF_vars(Destroy) /\ WF_vars(Create) /\ WF_vars(WaitOver)
  /\ WF_vars(Connect) /\ SF_vars(Connect /\ client' = "connecting")
  /\ WF_vars(Connected \/ ConnectFails) /\ SF_vars(Connected)
  /\ WF_vars(Callback) /\ SF_vars(OnConnect)

FairSpec == Spec /\ Fairness

-----------------------------------------------------------------------------
(* Properties. *)

\* The fields of the wrapper, the main thread's place and the library's queues
\* keep their types.  The counter is at most what send may count, and goes below
\* zero by no more than the messages that wait when onConnect resets it.
TypeOK ==
  /\ pahoUp \in BOOLEAN
  /\ pahoOutstanding \in (-MaxUnsettled)..MaxOutstanding
  /\ pc \in {"run", "sending", "refused", "destroy", "create", "connect", "wait"}
  /\ sending \in Messages
  /\ client \in {"none", "idle", "connecting", "up"}
  /\ wire \in Seq(Messages)
  /\ news \in SUBSET {"connected", "failed", "lost"}
  /\ acks \in Nat
  /\ fails \in Nat
  /\ running \in {"none", "onConnect", "onSend"}

\* onConnect has reset the counter and will set the flag, or it is set.
UpOrAboutToBe == pahoUp \/ running = "onConnect"

\* The wrapper says it is up only while the client is connected, or while the
\* callback that will say otherwise is on its way, or inside reconnect: no order
\* of late callbacks, refused sends and reconnects leaves it up on a dead client.
UpMeansConnected ==
  UpOrAboutToBe => client = "up" \/ "lost" \in news \/ pc = "create"

\* Messages that a call of pahoOnSend will still subtract.
Unsettled == Len(wire) + acks + (IF pc = "sending" THEN 1 ELSE 0)

\* Something is under way that will take the flag down.
ClearingPending ==
  pc \in {"destroy", "create"} \/ "lost" \in news \/ fails > 0

\* While the wrapper is up, pahoOutstanding counts no message that will never be
\* subtracted: refused and failed sends leave their increment behind, but the
\* wrapper goes down on a failure, and on the loss that makes the library refuse,
\* and comes up with the counter reset.
UpHasNoLeak ==
  UpOrAboutToBe /\ ~ClearingPending => pahoOutstanding <= Unsettled

\* Between the two assignments of onConnect the counter is exact or low, even if
\* the main thread counts, sends and is refused in between.
ResetHasNoLeak ==
  running = "onConnect" /\ "lost" \notin news /\ fails = 0 => pahoOutstanding <= Unsettled

\* Below zero the counter has room for the calls of pahoOnSend that are still to
\* come: each message is subtracted once, counted before the reset or after it.
CounterHasFloor ==
  /\ Unsettled + fails <= MaxUnsettled
  /\ pahoOutstanding + MaxUnsettled >= Unsettled

\* The call of onConnect waits while the connection it tells of lives, or with
\* the call that tells of its loss behind it.
NewsInOrder == "connected" \in news => client = "up" \/ "lost" \in news

\* Nothing of an old client is left when the new one is created and connected.
FreshClient ==
  /\ client = "none" <=> pc = "create"
  /\ pc = "connect" => client = "idle" /\ ~pahoUp
  /\ pc \in {"create", "connect"} =>
       wire = <<>> /\ news = {} /\ acks = 0 /\ fails = 0 /\ running = "none"

\* The inductive invariant.
PahoInv ==
  /\ TypeOK
  /\ UpMeansConnected
  /\ UpHasNoLeak
  /\ ResetHasNoLeak
  /\ CounterHasFloor
  /\ NewsInOrder
  /\ FreshClient

\* A connection that is gone is noticed, whatever callbacks wait before the one
\* that tells of it.
LossIsNoticed == pahoUp /\ client # "up" ~> ~pahoUp

\* "If Paho connection is down, reconnect it": unless connections go on being
\* lost, the client is connected with the wrapper up again and again.
ComesBackUp == <>[][~Lost]_vars => []<>(pahoUp /\ client = "up")
=============================================================================
