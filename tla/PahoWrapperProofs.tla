-------------------------- MODULE PahoWrapperProofs --------------------------
(***************************************************************************)
(* For every high-water mark and every bound on what is outstanding: the   *)
(* inductive invariant of PahoWrapper, and that the flag and the counter   *)
(* keep to what the connection and the library's messages say.             *)
(***************************************************************************)
EXTENDS PahoWrapper, TLAPS

\* Before the first reconnect there is no client and no message.
LEMMA PahoInvInit == Init => PahoInv
<1> SUFFICES ASSUME Init PROVE PahoInv
  OBVIOUS
<1>1. TypeOK
  <2>1. wire \in Seq(Messages) /\ acks \in Nat /\ fails \in Nat
    BY DEF Init
  <2>0. pahoOutstanding \in (-MaxUnsettled)..MaxOutstanding
    BY BoundsAssumption DEF Init
  <2>2. pahoUp \in BOOLEAN /\ news \in SUBSET {"connected", "failed", "lost"}
    BY DEF Init
  <2>3. QED
    BY <2>0, <2>1, <2>2 DEF Init, TypeOK
<1>2. ~UpOrAboutToBe
  BY DEF Init, UpOrAboutToBe
<1>3. ResetHasNoLeak /\ NewsInOrder /\ FreshClient
  BY DEF Init, ResetHasNoLeak, NewsInOrder, FreshClient
<1>4. CounterHasFloor
  BY BoundsAssumption DEF Init, CounterHasFloor, Unsettled
<1>5. QED
  BY <1>1, <1>2, <1>3, <1>4 DEF PahoInv, UpMeansConnected, UpHasNoLeak

\* The length of what the library has to settle is a natural number.
LEMMA UnsettledNat == PahoInv => Len(wire) \in Nat /\ Unsettled \in Nat
<1> SUFFICES ASSUME PahoInv PROVE Len(wire) \in Nat /\ Unsettled \in Nat
  OBVIOUS
<1>1. Len(wire) \in Nat
  BY DEF PahoInv, TypeOK
<1>2. QED
  BY <1>1 DEF PahoInv, TypeOK, Unsettled

\* The steps of the main thread keep the invariant.
LEMMA MainInv == PahoInv /\ Main => PahoInv'
<1> SUFFICES ASSUME PahoInv, Main PROVE PahoInv'
  OBVIOUS
<1> USE BoundsAssumption
        DEF PahoInv, TypeOK, UpMeansConnected, UpHasNoLeak, ResetHasNoLeak,
           CounterHasFloor, NewsInOrder, FreshClient, UpOrAboutToBe, Unsettled, ClearingPending,
           fields, thread, library
<1>0. Len(wire) \in Nat
  BY UnsettledNat
<1>1. ASSUME NEW msg \in Messages, Send(msg) PROVE PahoInv'
  BY <1>0, <1>1 DEF Send, Bounded
<1>2. CASE SendMessage
  <2>1. CASE client = "up"
    <3>1. /\ pc = "sending" /\ pc' = "run" /\ wire' = Append(wire, sending)
          /\ UNCHANGED <<fields, sending, client, news, acks, fails, running>>
      BY <1>2, <2>1 DEF SendMessage
    <3>2. wire' \in Seq(Messages) /\ Len(wire') = Len(wire) + 1
      BY <3>1
    <3>3. QED
      BY <1>0, <3>1, <3>2
  <2>2. CASE client # "up"
    BY <1>0, <1>2, <2>2 DEF SendMessage
  <2>3. QED
    BY <2>1, <2>2
<1>3. CASE Refused
  <2>1. /\ pc = "refused" /\ pc' = "run" /\ ~pahoUp'
        /\ UNCHANGED <<pahoOutstanding, sending, library>>
    BY <1>3 DEF Refused
  <2>2. TypeOK'
    BY <1>3, <2>1 DEF Refused
  <2>3. /\ UpMeansConnected' /\ UpHasNoLeak' /\ ResetHasNoLeak'
        /\ CounterHasFloor' /\ NewsInOrder' /\ FreshClient'
    BY <1>0, <2>1
  <2>4. QED
    BY <2>2, <2>3
<1>4. CASE Reconnect
  BY <1>0, <1>4 DEF Reconnect
<1>5. CASE Destroy
  BY <1>5 DEF Destroy
<1>6. CASE Create
  BY <1>6 DEF Create
<1>7. CASE Connect
  BY <1>7 DEF Connect
<1>8. CASE WaitOver
  BY <1>0, <1>8 DEF WaitOver
<1>9. QED
  BY <1>1, <1>2, <1>3, <1>4, <1>5, <1>6, <1>7, <1>8 DEF Main

\* So do the callbacks.
LEMMA CallbackInv == PahoInv /\ Callback => PahoInv'
<1> SUFFICES ASSUME PahoInv, Callback PROVE PahoInv'
  OBVIOUS
<1> USE BoundsAssumption
        DEF PahoInv, TypeOK, UpMeansConnected, UpHasNoLeak, ResetHasNoLeak,
           CounterHasFloor, NewsInOrder, FreshClient, UpOrAboutToBe, Unsettled, ClearingPending,
           fields, thread, library
<1>0. Len(wire) \in Nat
  BY UnsettledNat
<1>1. CASE OnConnect
  BY <1>0, <1>1 DEF OnConnect
<1>2. CASE OnConnectUp
  BY <1>0, <1>2 DEF OnConnectUp
<1>3. CASE OnConnectFailure
  BY <1>0, <1>3 DEF OnConnectFailure
<1>4. CASE OnConnLost
  BY <1>0, <1>4 DEF OnConnLost
<1>5. CASE OnSend
  BY <1>0, <1>5 DEF OnSend
<1>6. CASE OnSendCheck
  BY <1>0, <1>6 DEF OnSendCheck
<1>7. CASE OnSendFailure
  <2>1. /\ running = "none" /\ fails > 0 /\ fails' = fails - 1 /\ ~pahoUp'
        /\ UNCHANGED <<pahoOutstanding, thread, client, wire, news, acks, running>>
    BY <1>7 DEF OnSendFailure
  <2>2. TypeOK'
    <3>1. pahoUp' \in BOOLEAN
      BY <1>7 DEF OnSendFailure
    <3>2. fails' \in Nat
      BY <2>1
    <3>3. QED
      BY <2>1, <3>1, <3>2
  <2>3. /\ UpMeansConnected' /\ UpHasNoLeak' /\ ResetHasNoLeak'
        /\ CounterHasFloor' /\ NewsInOrder' /\ FreshClient'
    BY <1>0, <2>1
  <2>4. QED
    BY <2>2, <2>3
<1>8. QED
  BY <1>1, <1>2, <1>3, <1>4, <1>5, <1>6, <1>7 DEF Callback

\* So do the library's own steps.
LEMMA LibraryInv == PahoInv /\ Library => PahoInv'
<1> SUFFICES ASSUME PahoInv, Library PROVE PahoInv'
  OBVIOUS
<1> USE BoundsAssumption
        DEF PahoInv, TypeOK, UpMeansConnected, UpHasNoLeak, ResetHasNoLeak,
           CounterHasFloor, NewsInOrder, FreshClient, UpOrAboutToBe, Unsettled, ClearingPending,
           fields, thread, library
<1>0. Len(wire) \in Nat
  BY UnsettledNat
<1>1. CASE Connected
  BY <1>0, <1>1 DEF Connected
<1>2. CASE ConnectFails
  BY <1>0, <1>2 DEF ConnectFails
<1>3. CASE Lost
  BY <1>0, <1>3 DEF Lost
<1>4. wire # <<>> => Tail(wire) \in Seq(Messages) /\ Len(Tail(wire)) = Len(wire) - 1
  OBVIOUS
<1>5. CASE Acknowledge
  BY <1>0, <1>4, <1>5 DEF Acknowledge
<1>6. CASE GiveUp
  BY <1>0, <1>4, <1>6 DEF GiveUp
<1>7. QED
  BY <1>1, <1>2, <1>3, <1>5, <1>6 DEF Library

\* Every step, of whichever thread, keeps the invariant.
LEMMA PahoInvStep == PahoInv /\ [Next]_vars => PahoInv'
<1> SUFFICES ASSUME PahoInv, [Next]_vars PROVE PahoInv'
  OBVIOUS
<1>1. CASE Main
  BY <1>1, MainInv
<1>2. CASE Callback
  BY <1>2, CallbackInv
<1>3. CASE Library
  BY <1>3, LibraryInv
<1>4. CASE UNCHANGED vars
  BY <1>4 DEF vars, fields, thread, library, PahoInv, TypeOK, UpMeansConnected,
     UpHasNoLeak, ResetHasNoLeak, CounterHasFloor, NewsInOrder, FreshClient,
     UpOrAboutToBe, Unsettled, ClearingPending
<1>5. QED
  BY <1>1, <1>2, <1>3, <1>4 DEF Next

\* PahoInv is an inductive invariant of the wrapper and the library.
THEOREM PahoInvariant == Spec => []PahoInv
<1>1. QED
  BY PahoInvInit, PahoInvStep, PTL DEF Spec

\* No interleaving of sends, reconnects and callbacks leaves the wrapper up on a
\* client that is not connected, but for the time a callback takes to run.
THEOREM FlagIsRight == Spec => []UpMeansConnected
<1>1. PahoInv => UpMeansConnected
  BY DEF PahoInv
<1>2. QED
  BY <1>1, PahoInvariant, PTL

\* No interleaving leaves a message counted that nobody will subtract while the
\* wrapper is up: the high-water mark never condemns a connection for an old leak.
THEOREM CounterHasNoLeak == Spec => []UpHasNoLeak
<1>1. PahoInv => UpHasNoLeak
  BY DEF PahoInv
<1>2. QED
  BY <1>1, PahoInvariant, PTL

\* The library's queues and the fields keep their types, and the counter its range:
\* no completion is subtracted that was not due.
THEOREM PahoTypes == Spec => []TypeOK
<1>1. PahoInv => TypeOK
  BY DEF PahoInv
<1>2. QED
  BY <1>1, PahoInvariant, PTL
=============================================================================
