-------------------------- MODULE PushClient_proofs --------------------------
(***************************************************************************)
(* For any number of appliances and client objects the safety properties   *)
(* of module PushClient hold.  The inductive invariant adds what ties the  *)
(* threads together: an unused client is offline and has no subscription,  *)
(* and a topic remembered is subscribed or about to be.                    *)
(***************************************************************************)
EXTENDS PushClient, TLAPS

\* The client of the coordinator is the one that runs.
ClientInv ==
    /\ \A c \in Clients : loop[c] # "none" => c = mqtt
    /\ mqtt # NoClient => loop[mqtt] # "none"
    /\ phase \in {"down", "setup"} => mqtt = NoClient
    /\ phase = "stopping" => mqtt # NoClient

\* What there is of a connection.
SessionInv ==
    \A c \in Clients :
        /\ c \in session <=> loop[c] = "online"
        /\ loop[c] # "online" => subscribed[c] = {} /\ again[c] = {}

\* A topic remembered is subscribed, or one of the two threads is about to request it.
TopicInv ==
    \A c \in Clients :
        loop[c] = "online" => remembered[c] \subseteq subscribed[c] \cup again[c] \cup {asking}

\* An appliance of the inventory is remembered, or about to be.
InventoryInv ==
    phase \in {"subscribing", "polling", "up"} /\ mqtt # NoClient =>
        devices \subseteq remembered[mqtt] \cup todo \cup UNION resolving

IInv == TypeOK /\ ClientInv /\ SessionInv /\ TopicInv /\ InventoryInv

-----------------------------------------------------------------------------
LEMMA InitIInv == Init => IInv
  BY ConstantsAssumption, SMT
  DEF Init, IInv, TypeOK, ClientInv, SessionInv, TopicInv, InventoryInv, Phases,
      Loops, Yielding

\* The coordinator's own steps, network threads left alone.
LEMMA PhaseSteps ==
  ASSUME IInv,
         \/ PushUnavailable \/ Subscribed \/ FirstPoll \/ SetUpFails \/ Unload \/ NothingToStop
         \/ \E D \in SUBSET Devices : SetUp(D) \/ Scan(D)
         \/ \E added \in SUBSET Devices : Resolved(added)
  PROVE  IInv'
<1> USE ConstantsAssumption DEF IInv, coordinatorVars, clientVars
<1>1. CASE PushUnavailable
  BY <1>1, SMT DEF PushUnavailable, TypeOK, ClientInv, SessionInv, TopicInv, InventoryInv,
      Phases, Loops, Yielding
<1>2. CASE Subscribed
  BY <1>2, SMT DEF Subscribed, TypeOK, ClientInv, SessionInv, TopicInv, InventoryInv,
      Phases, Loops, Yielding
<1>3. CASE FirstPoll
  BY <1>3, SMT DEF FirstPoll, TypeOK, ClientInv, SessionInv, TopicInv, InventoryInv,
      Phases, Loops, Yielding
<1>4. CASE SetUpFails
  BY <1>4, SMT DEF SetUpFails, TypeOK, ClientInv, SessionInv, TopicInv, InventoryInv,
      Phases, Loops, Yielding
<1>5. CASE Unload
  BY <1>5, SMT DEF Unload, TypeOK, ClientInv, SessionInv, TopicInv, InventoryInv,
      Phases, Loops, Yielding
<1>6. CASE NothingToStop
  BY <1>6, SMT DEF NothingToStop, TypeOK, ClientInv, SessionInv, TopicInv, InventoryInv,
      Phases, Loops, Yielding
<1>7. ASSUME NEW D \in SUBSET Devices, SetUp(D)
      PROVE  IInv'
  <2>1. TypeOK'
    BY <1>7, SMT DEF SetUp, TypeOK, Phases, Loops, Yielding
  <2> QED
    BY <2>1, <1>7, SMT DEF SetUp, ClientInv, SessionInv, TopicInv, InventoryInv
<1>8. ASSUME NEW D \in SUBSET Devices, Scan(D)
      PROVE  IInv'
  <2>1. TypeOK'
    BY <1>8, SMT DEF Scan, TypeOK, Phases, Loops, Yielding
  <2>2. InventoryInv'
    <3> SUFFICES ASSUME mqtt # NoClient, NEW d \in D
                 PROVE  d \in remembered[mqtt] \cup todo \cup UNION resolving'
      BY <1>8, SMT DEF Scan, InventoryInv
    <3>1. CASE d \in devices
      <4>1. UNION resolving \subseteq UNION resolving'
        BY <1>8 DEF Scan
      <4> QED BY <3>1, <4>1, <1>8 DEF Scan, InventoryInv
    <3>2. CASE d \notin devices
      <4>1. D \ devices \in resolving' /\ d \in D \ devices
        BY <3>2, <1>8 DEF Scan
      <4> QED BY <4>1
    <3> QED BY <3>1, <3>2
  <2> QED
    BY <2>1, <2>2, <1>8, SMT DEF Scan, ClientInv, SessionInv, TopicInv
<1>9. ASSUME NEW added \in SUBSET Devices, Resolved(added)
      PROVE  IInv'
  <2>1. TypeOK'
    BY <1>9, SMT DEF Resolved, TypeOK, Phases, Loops, Yielding
  <2>2. InventoryInv'
    BY <1>9, SMT DEF Resolved, TypeOK, InventoryInv, Yielding
  <2> QED
    BY <2>1, <2>2, <1>9, SMT DEF Resolved, ClientInv, SessionInv, TopicInv
<1> QED
  BY <1>1, <1>2, <1>3, <1>4, <1>5, <1>6, <1>7, <1>8, <1>9

\* The steps that start, subscribe and stop a client.
LEMMA ClientSteps ==
  ASSUME IInv,
         \/ Request \/ Goodbye \/ LoopStop
         \/ \E c \in Clients : StartPush(c)
         \/ \E d \in Devices : Remember(d)
  PROVE  IInv'
<1> USE ConstantsAssumption DEF IInv, coordinatorVars, clientVars
<1>1. CASE Request
  BY <1>1, SMT DEF Request, TypeOK, ClientInv, SessionInv, TopicInv, InventoryInv,
      Phases, Loops, Yielding
<1>2. CASE Goodbye
  BY <1>2, SMT DEF Goodbye, TypeOK, ClientInv, SessionInv, TopicInv, InventoryInv,
      Phases, Loops, Yielding
<1>3. CASE LoopStop
  BY <1>3, SMT DEF LoopStop, TypeOK, ClientInv, SessionInv, TopicInv, InventoryInv,
      Phases, Loops, Yielding
<1>4. ASSUME NEW c \in Clients, StartPush(c)
      PROVE  IInv'
  BY <1>4, SMT DEF StartPush, TypeOK, ClientInv, SessionInv, TopicInv, InventoryInv, Phases, Loops, Yielding
<1>5. ASSUME NEW d \in Devices, Remember(d)
      PROVE  IInv'
  <2>1. TypeOK'
    BY <1>5, SMT DEF Remember, TypeOK, Phases, Loops, Yielding
  <2>2. TopicInv'
    BY <1>5, SMT DEF Remember, TypeOK, TopicInv, SessionInv, Yielding
  <2> QED
    BY <2>1, <2>2, <1>5, SMT DEF Remember, TypeOK, ClientInv, SessionInv, InventoryInv, Yielding
<1> QED
  BY <1>1, <1>2, <1>3, <1>4, <1>5

\* The network threads.
LEMMA NetworkSteps ==
  ASSUME IInv, NEW c \in Clients,
         \/ Connected(c) \/ Dropped(c) \/ SendGoodbye(c)
         \/ \E d \in Devices : RequestAgain(c, d)
  PROVE  IInv'
<1> USE ConstantsAssumption DEF IInv, coordinatorVars, clientVars
<1>1. CASE Connected(c)
  BY <1>1, SMT DEF Connected, TypeOK, ClientInv, SessionInv, TopicInv, InventoryInv,
      Phases, Loops, Yielding
<1>2. CASE Dropped(c) \/ SendGoodbye(c)
  <2>1. Offline(c) /\ loop[c] = "online"
    BY <1>2 DEF Dropped, SendGoodbye
  <2>2. TypeOK'
    BY <2>1, SMT DEF Offline, TypeOK, Phases, Loops, Yielding
  <2>3. ClientInv'
    BY <2>1, SMT DEF Offline, TypeOK, ClientInv
  <2>4. SessionInv' /\ TopicInv'
    BY <2>1, SMT DEF Offline, TypeOK, SessionInv, TopicInv
  <2> QED
    BY <2>1, <2>2, <2>3, <2>4, SMT DEF Offline, InventoryInv
<1>3. ASSUME NEW d \in Devices, RequestAgain(c, d)
      PROVE  IInv'
  BY <1>3, SMT DEF RequestAgain, TypeOK, ClientInv, SessionInv, TopicInv, InventoryInv,
      Phases, Loops, Yielding
<1> QED
  BY <1>1, <1>2, <1>3

LEMMA NextIInv == IInv /\ [Next]_vars => IInv'
<1> SUFFICES ASSUME IInv, [Next]_vars PROVE IInv'
  OBVIOUS
<1>1. CASE CoordinatorNext
  BY <1>1, PhaseSteps, ClientSteps DEF CoordinatorNext
<1>2. ASSUME NEW c \in Clients, NetworkNext(c) PROVE IInv'
  BY <1>2, NetworkSteps DEF NetworkNext
<1>3. CASE UNCHANGED vars
  BY <1>3, SMT DEF vars, coordinatorVars, clientVars, IInv, TypeOK, ClientInv, SessionInv,
      TopicInv, InventoryInv, Yielding
<1> QED
  BY <1>1, <1>2, <1>3 DEF Next

\* The inductive invariant holds of every behaviour.
THEOREM Invariance == Spec => []IInv
<1>1. Init => IInv BY InitIInv
<1>2. IInv /\ [Next]_vars => IInv' BY NextIInv
<1> QED BY <1>1, <1>2, PTL DEF Spec

\* Type correctness of the push channel.
THEOREM TypeCorrect == Spec => []TypeOK
<1>1. IInv => TypeOK BY DEF IInv
<1> QED BY <1>1, Invariance, PTL

\* No order of subscribing, connecting and dropping loses an appliance (NothingUnsubscribed).
THEOREM SubscriptionsKept == Spec => []NothingUnsubscribed
<1>1. IInv => NothingUnsubscribed
  BY ConstantsAssumption, SMT DEF IInv, NothingUnsubscribed, InventoryInv, TopicInv, TypeOK
<1> QED BY <1>1, Invariance, PTL

\* The entry has one network loop at a time (OneLoop).
THEOREM SingleLoop == Spec => []OneLoop
<1>1. IInv => OneLoop BY DEF IInv, ClientInv, OneLoop
<1> QED BY <1>1, Invariance, PTL

\* A network loop that has ended leaves no session at the broker (NoSessionLeft).
THEOREM SessionEnds == Spec => []NoSessionLeft
<1>1. IInv => NoSessionLeft
  BY SMT DEF IInv, SessionInv, NoSessionLeft, TypeOK
<1> QED BY <1>1, Invariance, PTL
=============================================================================
