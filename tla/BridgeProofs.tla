---------------------------- MODULE BridgeProofs ----------------------------
(***************************************************************************)
(* Theorems about Bridge, for every high-water mark and every bound on     *)
(* what is outstanding and on the crashes.                                 *)
(***************************************************************************)
EXTENDS Bridge, TLAPS

\* When the program is first started nothing is on its way.
LEMMA BridgeInit == Init => BridgeInv
  BY DEF Init, Paho!Init, BridgeInv, OnlineStays, OneSession, StartUp, OfflineFirst

\* A message leaves the front of the wire, and with it one the broker has seen.
LEMMA TailInv ==
  ASSUME BridgeInv, wire # <<>>, wire' = Tail(wire),
         seen' = IF seen > 0 THEN seen - 1 ELSE 0,
         UNCHANGED <<place, pc, sending, session, stale, retained, online>>
  PROVE  BridgeInv'
  <1> USE DEF BridgeInv
  <1>1. wire' \in Seq(Messages) /\ Len(wire') = Len(wire) - 1 /\ Len(wire) \in Nat
    OBVIOUS
  <1>2. \A n \in DOMAIN wire' : n + 1 \in DOMAIN wire /\ wire'[n] = wire[n + 1]
    OBVIOUS
  <1>3. DOMAIN wire' \subseteq Int /\ seen \in Int
    OBVIOUS
  <1>4. seen' \in 0..Len(wire')
    BY <1>1
  <1>5. StartUp'
    BY <1>2 DEF StartUp
  <1>6. OfflineFirst'
    <2>1. ASSUME NEW m \in DOMAIN wire', NEW n \in DOMAIN wire', m < n, wire'[m] = "Online"
          PROVE  wire'[n] # "Offline"
      BY <1>2, <1>3, <2>1 DEF OfflineFirst
    <2>2. ASSUME online, NEW n \in DOMAIN wire', n > seen'
          PROVE  wire'[n] # "Offline"
      <3>1. n + 1 > seen
        BY <1>3, <2>2
      <3> QED
        BY <1>2, <2>2, <3>1 DEF OfflineFirst
    <2> QED
      BY <2>1, <2>2 DEF OfflineFirst
  <1> QED
    BY <1>1, <1>4, <1>5, <1>6 DEF OnlineStays, OneSession

\* The steps of main keep the invariant.
LEMMA MainInv == BridgeInv /\ (Main \/ Crash) => BridgeInv'
  <1> SUFFICES ASSUME BridgeInv, Main \/ Crash PROVE BridgeInv'
    OBVIOUS
  <1> USE DEF BridgeInv, OnlineStays, OneSession, StartUp, OfflineFirst,
              wrapper, main, broker, Paho!library, Messages
  <1>1. CASE SayOffline
    BY <1>1 DEF SayOffline, Paho!Send
  <1>2. CASE Hello
    BY <1>2 DEF Hello
  <1>3. CASE Top
    <2>1. /\ pc' \in {"run", "create", "destroy"} /\ place' = "loop"
          /\ UNCHANGED <<wire, sending, seen, session, stale, retained, online>>
      BY <1>3 DEF Top, Paho!Reconnect
    <2> QED
      BY <2>1
  <1>4. CASE ReadInfo
    BY <1>4 DEF ReadInfo, Paho!Send
  <1>5. CASE ReadPress
    BY <1>5 DEF ReadPress, Paho!Send
  <1>6. CASE EpochEnds
    BY <1>6 DEF EpochEnds
  <1>7. CASE Crash
    BY <1>7 DEF Crash
  <1> QED
    BY <1>1, <1>2, <1>3, <1>4, <1>5, <1>6, <1>7 DEF Main

\* So does the wrapper: what it hands over is behind what it handed over before.
LEMMA WrapperInv == BridgeInv /\ InWrapper => BridgeInv'
  <1> SUFFICES ASSUME BridgeInv, InWrapper PROVE BridgeInv'
    OBVIOUS
  <1> USE DEF BridgeInv, OnlineStays, OneSession, StartUp, OfflineFirst
  <1>1. UNCHANGED <<place, seen, session, stale, retained, online>>
    BY DEF InWrapper, main, broker
  <1>2. CASE Paho!SendMessage /\ client = "up"
    <2>1. /\ pc = "sending" /\ pc' = "run" /\ wire' = Append(wire, sending)
          /\ sending \in Messages /\ sending' = sending
      BY <1>2 DEF Paho!SendMessage
    <2>2. /\ wire' \in Seq(Messages) /\ Len(wire') = Len(wire) + 1
          /\ Len(wire) \in Nat
          /\ \A n \in DOMAIN wire : wire'[n] = wire[n]
          /\ wire'[Len(wire) + 1] = sending
          /\ DOMAIN wire' = DOMAIN wire \union {Len(wire) + 1}
          /\ DOMAIN wire = 1..Len(wire)
      BY <2>1
    <2>3. StartUp'
      BY <1>1, <2>1, <2>2
    <2>4. OfflineFirst'
      BY <1>1, <2>1, <2>2
    <2> QED
      BY <1>1, <2>1, <2>2, <2>3, <2>4
  <1>3. CASE ~(Paho!SendMessage /\ client = "up")
    <2>1. wire' = wire /\ sending' = sending /\ (pc' = "sending" => pc = "sending")
      BY <1>3 DEF InWrapper, Paho!SendMessage, Paho!Refused, Paho!Create, Paho!Connect,
         Paho!WaitOver, Paho!Callback, Paho!OnConnect, Paho!OnConnectUp,
         Paho!OnConnectFailure, Paho!OnConnLost, Paho!OnSend, Paho!OnSendCheck,
         Paho!OnSendFailure, Paho!ConnectFails, Paho!library, Paho!fields, Paho!thread
    <2> QED
      BY <1>1, <2>1
  <1> QED
    BY <1>2, <1>3

\* So do the network and the broker.
LEMMA BrokerInv ==
  BridgeInv /\ (\/ Destroy \/ Connected \/ Lost \/ Acknowledge \/ GiveUp
               \/ Deliver \/ Drop \/ Will) => BridgeInv'
  <1> SUFFICES ASSUME BridgeInv,
                      \/ Destroy \/ Connected \/ Lost \/ Acknowledge \/ GiveUp
                      \/ Deliver \/ Drop \/ Will
               PROVE BridgeInv'
    OBVIOUS
  <1> USE DEF BridgeInv, OnlineStays, OneSession, StartUp, OfflineFirst,
              wrapper, main, Paho!fields, Paho!thread
  <1>1. CASE Destroy
    BY <1>1 DEF Destroy, Paho!Destroy
  <1>2. CASE Connected
    BY <1>2 DEF Connected, Paho!Connected
  <1>3. CASE Lost
    BY <1>3 DEF Lost, Paho!Lost
  <1>4. CASE Acknowledge
    BY <1>4, TailInv DEF Acknowledge, Paho!Acknowledge
  <1>5. CASE GiveUp
    BY <1>5, TailInv DEF GiveUp, Paho!GiveUp
  <1>6. CASE Deliver
    <2>1. seen + 1 \in DOMAIN wire /\ seen' = seen + 1 /\ session = "open"
          /\ sending' = sending
          /\ UNCHANGED <<wire, place, pc, session, stale>>
      BY <1>6 DEF Deliver
    <2>2. CASE wire[seen + 1] = "Online"
      BY <1>6, <2>1, <2>2 DEF Deliver
    <2>3. CASE wire[seen + 1] = "Offline"
      <3>1. ~online
        BY <2>1, <2>3
      <3>2. ~online'
        BY <1>6, <2>3, <3>1 DEF Deliver
      <3> QED
        BY <1>6, <2>1, <3>2
    <2>4. CASE wire[seen + 1] \notin {"Online", "Offline"}
      BY <1>6, <2>1, <2>4 DEF Deliver
    <2> QED
      BY <2>2, <2>3, <2>4
  <1>7. CASE Drop
    BY <1>7 DEF Drop
  <1>8. CASE Will
    BY <1>8 DEF Will
  <1> QED
    BY <1>1, <1>2, <1>3, <1>4, <1>5, <1>6, <1>7, <1>8

\* Every step, of whichever actor, keeps the invariant.
LEMMA BridgeStep == BridgeInv /\ [Next]_vars => BridgeInv'
  <1> SUFFICES ASSUME BridgeInv, [Next]_vars PROVE BridgeInv'
    OBVIOUS
  <1>1. CASE UNCHANGED vars
    BY <1>1 DEF vars, wrapper, main, broker, BridgeInv, OnlineStays, OneSession,
       StartUp, OfflineFirst
  <1> QED
    BY <1>1, MainInv, WrapperInv, BrokerInv DEF Next

\* BridgeInv is an inductive invariant of main, wrapper, broker and crashes.
THEOREM BridgeInvariant == Spec => []BridgeInv
  BY BridgeInit, BridgeStep, PTL DEF Spec

\* In a session that has received Online nothing calls the bridge offline, however
\* the program crashed, reconnected or lost its connection before.
THEOREM OnlineIsKept == Spec => []OnlineStays
  <1>1. BridgeInv => OnlineStays
    BY DEF BridgeInv
  <1> QED
    BY <1>1, BridgeInvariant, PTL

-----------------------------------------------------------------------------
(* The wrapper inside the bridge: what PahoWrapperProofs proves of it alone *)
(* survives the broker and the crashes.                                    *)

Alone == INSTANCE PahoWrapperProofs

\* The invariant proved of the wrapper alone speaks of the bridge's wrapper.
LEMMA SameInv ==
  (Alone!PahoInv <=> Paho!PahoInv) /\ (Alone!PahoInv' <=> Paho!PahoInv')
  BY DEF Alone!PahoInv, Alone!TypeOK, Alone!UpMeansConnected, Alone!UpHasNoLeak,
     Alone!ResetHasNoLeak, Alone!CounterHasFloor, Alone!NewsInOrder, Alone!FreshClient,
     Alone!UpOrAboutToBe, Alone!Unsettled, Alone!ClearingPending,
     Paho!PahoInv, Paho!TypeOK, Paho!UpMeansConnected, Paho!UpHasNoLeak,
     Paho!ResetHasNoLeak, Paho!CounterHasFloor, Paho!NewsInOrder, Paho!FreshClient,
     Paho!UpOrAboutToBe, Paho!Unsettled, Paho!ClearingPending

\* So do its actions.
LEMMA SameSteps == Paho!Next => Alone!Next
  <1>1. Paho!Main => Alone!Main
    BY DEF Paho!Main, Paho!Send, Paho!SendMessage, Paho!Refused, Paho!Reconnect,
       Paho!Destroy, Paho!Create, Paho!Connect, Paho!WaitOver, Paho!Bounded,
       Paho!fields, Paho!thread, Paho!library,
       Alone!Main, Alone!Send, Alone!SendMessage, Alone!Refused, Alone!Reconnect,
       Alone!Destroy, Alone!Create, Alone!Connect, Alone!WaitOver, Alone!Bounded,
       Alone!fields, Alone!thread, Alone!library
  <1>2. Paho!Callback => Alone!Callback
    BY DEF Paho!Callback, Paho!OnConnect, Paho!OnConnectUp, Paho!OnConnectFailure,
       Paho!OnConnLost, Paho!OnSend, Paho!OnSendCheck, Paho!OnSendFailure,
       Paho!fields, Paho!thread,
       Alone!Callback, Alone!OnConnect, Alone!OnConnectUp, Alone!OnConnectFailure,
       Alone!OnConnLost, Alone!OnSend, Alone!OnSendCheck, Alone!OnSendFailure,
       Alone!fields, Alone!thread
  <1>3. Paho!Library => Alone!Library
    BY DEF Paho!Library, Paho!Connected, Paho!ConnectFails, Paho!Lost,
       Paho!Acknowledge, Paho!GiveUp, Paho!fields, Paho!thread,
       Alone!Library, Alone!Connected, Alone!ConnectFails, Alone!Lost,
       Alone!Acknowledge, Alone!GiveUp, Alone!fields, Alone!thread
  <1> QED
    BY <1>1, <1>2, <1>3 DEF Paho!Next, Alone!Next

\* Every step of the bridge but a crash is a step of the wrapper or leaves it alone.
LEMMA StepsOfWrapper == [Next]_vars => [Paho!Next]_wrapper \/ Crash
  <1> SUFFICES ASSUME [Next]_vars PROVE [Paho!Next]_wrapper \/ Crash
    OBVIOUS
  <1>1. CASE Main
    BY <1>1 DEF Main, SayOffline, Hello, Top, ReadInfo, ReadPress, EpochEnds,
       Messages, Paho!Next, Paho!Main
  <1>2. CASE InWrapper
    BY <1>2 DEF InWrapper, Paho!Next, Paho!Main, Paho!Library
  <1>3. CASE Destroy \/ Connected \/ Lost \/ Acknowledge \/ GiveUp
    BY <1>3 DEF Destroy, Connected, Lost, Acknowledge, GiveUp,
       Paho!Next, Paho!Main, Paho!Library
  <1>4. CASE Deliver \/ Drop \/ Will \/ UNCHANGED vars
    BY <1>4 DEF Deliver, Drop, Will, vars
  <1> QED
    BY <1>1, <1>2, <1>3, <1>4 DEF Next

\* They keep its invariant; a crash leaves a wrapper as it is first started.
LEMMA WrapperStep == Paho!PahoInv /\ [Next]_vars => Paho!PahoInv'
  <1> SUFFICES ASSUME Paho!PahoInv, [Next]_vars PROVE Paho!PahoInv'
    OBVIOUS
  <1>1. CASE [Paho!Next]_wrapper
    <2>1. Alone!PahoInv /\ [Alone!Next]_(Alone!vars)
      BY <1>1, SameInv, SameSteps DEF wrapper, Alone!vars, Alone!fields, Alone!thread,
         Alone!library
    <2>2. Alone!PahoInv'
      BY <2>1, Alone!PahoInvStep, BridgeAssumption
    <2> QED
      BY <2>2, SameInv
  <1>2. CASE Crash
    <2> USE <1>2 DEF Crash
    <2>1. Paho!TypeOK'
      <3>1. pahoUp' = FALSE /\ wire' \in Seq(Messages)
        OBVIOUS
      <3>2. /\ pahoOutstanding' \in (-MaxUnsettled)..MaxOutstanding
            /\ acks' \in Nat /\ fails' \in Nat
            /\ news' \in SUBSET {"connected", "failed", "lost"}
        BY BridgeAssumption
      <3>3. sending' \in Messages
        BY DEF Paho!PahoInv, Paho!TypeOK
      <3> QED
        BY <3>1, <3>2, <3>3 DEF Paho!TypeOK
    <2>2. ~Paho!UpOrAboutToBe'
      BY DEF Paho!UpOrAboutToBe
    <2>3. Paho!ResetHasNoLeak' /\ Paho!NewsInOrder' /\ Paho!FreshClient'
      BY DEF Paho!ResetHasNoLeak, Paho!NewsInOrder, Paho!FreshClient
    <2>4. Paho!CounterHasFloor'
      BY BridgeAssumption DEF Paho!CounterHasFloor, Paho!Unsettled
    <2> QED
      BY <2>1, <2>2, <2>3, <2>4 DEF Paho!PahoInv, Paho!UpMeansConnected, Paho!UpHasNoLeak
  <1> QED
    BY <1>1, <1>2, StepsOfWrapper

\* Whatever the broker does, and after every crash: the wrapper is not up on a dead
\* connection, and its counter holds nothing that nobody will subtract.
THEOREM WrapperInBridge == Spec => []Paho!PahoInv
  <1>1. Init => Paho!PahoInv
    <2>1. Init => Alone!Init
      BY DEF Init, Paho!Init, Alone!Init
    <2> QED
      BY <2>1, Alone!PahoInvInit, SameInv, BridgeAssumption
  <1> QED
    BY <1>1, WrapperStep, PTL DEF Spec

\* What the broker has received is of this session and no more than was sent, and
\* everything keeps its type.
THEOREM BridgeTypes == Spec => []TypeOK
  <1> DEFINE Types ==
        /\ due \in BOOLEAN /\ crashes \in 0..MaxCrashes
        /\ session \in {"none", "open"} /\ stale \in BOOLEAN
        /\ retained \in {"Online", "Offline"}
        /\ online \in BOOLEAN
  <1>1. Init => Types
    <2>1. Init => crashes \in 0..MaxCrashes
      BY BridgeAssumption DEF Init
    <2> QED
      BY <2>1, Zenon DEF Init
  <1>2. Types /\ BridgeInv /\ [Next]_vars => Types'
    <2> SUFFICES ASSUME Types, BridgeInv, [Next]_vars PROVE Types'
      OBVIOUS
    <2>1. CASE Main
      BY <2>1 DEF Main, SayOffline, Hello, Top, ReadInfo, ReadPress, EpochEnds, main, broker
    <2>2. CASE Crash
      <3>1. crashes' \in 0..MaxCrashes
        BY <2>2, BridgeAssumption DEF Crash
      <3>2. stale' \in BOOLEAN
        BY <2>2, Zenon DEF Crash
      <3> QED
        BY <2>2, <3>1, <3>2 DEF Crash
    <2>3. CASE InWrapper \/ UNCHANGED vars
      BY <2>3 DEF InWrapper, main, broker, vars
    <2>4. CASE Destroy \/ Connected \/ Lost \/ Acknowledge \/ GiveUp
      BY <2>4 DEF Destroy, Connected, Lost, Acknowledge, GiveUp, main
    <2>5. CASE Deliver
      <3>1. wire[seen + 1] \in Messages
        BY <2>5 DEF Deliver, BridgeInv
      <3> QED
        BY <2>5, <3>1 DEF Deliver, main, Messages
    <2>6. CASE Drop \/ Will
      BY <2>6 DEF Drop, Will, main
    <2> QED
      BY <2>1, <2>2, <2>3, <2>4, <2>5, <2>6 DEF Next
  <1>3. Types /\ BridgeInv /\ Paho!PahoInv => TypeOK
    BY DEF TypeOK, BridgeInv, Paho!PahoInv
  <1> QED
    BY <1>1, <1>2, <1>3, BridgeInvariant, WrapperInBridge, PTL DEF Spec
=============================================================================
