------------------------------ MODULE PushClient ------------------------------
(***************************************************************************)
(* The push channel of one account: the coordinator of the entry, on the   *)
(* event loop, and the MQTT client of transport/mqtt.py, whose network     *)
(* loop is a thread of paho.  Subscribing is two steps, remembering the    *)
(* topic and sending the request, and the network thread connects, drops   *)
(* and subscribes again between any two of them.  Every set-up of the      *)
(* entry builds a coordinator and a client of its own, always with the     *)
(* client id of the entry.                                                 *)
(*                                                                         *)
(* External, as the code uses it: paho.  A request made without a          *)
(* connection is lost; a session is clean, so a connection starts with no  *)
(* subscription; the network loop alone puts packets on the wire, and      *)
(* loop_stop waits until it has sent what is queued.                       *)
(***************************************************************************)
CONSTANTS
    Devices,
    Clients,     \* MqttClient objects
    NoClient,
    NoDevice

ASSUME ConstantsAssumption == NoClient \notin Clients /\ NoDevice \notin Devices

VARIABLES
    phase,       \* of the coordinator of the entry
    devices,     \* HolabrainCoordinator.devices
    mqtt,        \* HolabrainCoordinator._mqtt
    resolving,   \* per scan under way, the devices it added
    todo,        \* the devices a loop of the coordinator has still to subscribe
    asking,      \* the topic remembered whose request is not sent yet
    remembered,  \* MqttClient._subscriptions, per client
    loop,        \* per client: its network loop, "none", "offline" or "online"
    again,       \* per client: the topics _handle_connect has still to request
    leaving,     \* per client: DISCONNECT is queued
    subscribed,  \* per client: the topics the broker sends it
    session      \* the clients whose session the broker holds

coordinatorVars == <<phase, devices, mqtt, resolving, todo, asking>>
clientVars      == <<remembered, loop, again, leaving, subscribed, session>>
vars            == <<coordinatorVars, clientVars>>

Phases == {"down", "setup", "subscribing", "polling", "up", "goodbye", "stopping"}
Loops  == {"none", "offline", "online"}

Init ==
    /\ phase = "down" /\ devices = {} /\ mqtt = NoClient
    /\ resolving = {} /\ todo = {} /\ asking = NoDevice
    /\ remembered = [c \in Clients |-> {}]
    /\ loop = [c \in Clients |-> "none"]
    /\ again = [c \in Clients |-> {}]
    /\ leaving = [c \in Clients |-> FALSE]
    /\ subscribed = [c \in Clients |-> {}]
    /\ session = {}

-----------------------------------------------------------------------------
(* The coordinator, on the event loop.  While it subscribes it does not yield. *)

Yielding == todo = {} /\ asking = NoDevice

\* async_setup_entry, and the inventory read of _async_setup.
SetUp(D) ==
    /\ phase = "down"
    /\ phase' = "setup" /\ devices' = D /\ resolving' = {}
    /\ UNCHANGED <<mqtt, todo, asking, clientVars>>

\* _async_start_push, with a new client.
StartPush(c) ==
    /\ phase = "setup" /\ loop[c] = "none"
    /\ phase' = "subscribing" /\ mqtt' = c /\ todo' = devices
    /\ loop' = [loop EXCEPT ![c] = "offline"]
    /\ UNCHANGED <<devices, resolving, asking, remembered, again, leaving, subscribed, session>>

\* No certificate or no TLS context: polling only.
PushUnavailable ==
    /\ phase = "setup"
    /\ phase' = "polling" /\ mqtt' = NoClient
    /\ UNCHANGED <<devices, resolving, todo, asking, clientVars>>

\* A topic remembered only when its request could be sent.
RememberIfSent(d) ==
    /\ d \in todo /\ asking = NoDevice
    /\ asking' = d /\ todo' = todo \ {d}
    /\ remembered' = IF loop[mqtt] = "online"
                     THEN [remembered EXCEPT ![mqtt] = @ \cup {d}] ELSE remembered
    /\ UNCHANGED <<phase, devices, mqtt, resolving, loop, again, leaving, subscribed, session>>

\* MqttClient.subscribe: remember the topic, which the network thread may then find in the
\* list it is going through ...
Remember(d) ==
    /\ d \in todo /\ asking = NoDevice
    /\ asking' = d /\ todo' = todo \ {d}
    /\ remembered' = [remembered EXCEPT ![mqtt] = @ \cup {d}]
    /\ again' = [again EXCEPT ![mqtt] = 
                    IF @ = {} \/ d \in remembered[mqtt] THEN @ ELSE @ \cup {d}]
    /\ UNCHANGED <<phase, devices, mqtt, resolving, loop, leaving, subscribed, session>>

\* ... and send the request, if there is a connection.
Request ==
    /\ asking # NoDevice
    /\ asking' = NoDevice
    /\ subscribed' = IF loop[mqtt] = "online"
                     THEN [subscribed EXCEPT ![mqtt] = @ \cup {asking}] ELSE subscribed
    /\ UNCHANGED <<phase, devices, mqtt, resolving, todo, remembered, loop, again, leaving,
                   session>>

Subscribed ==
    /\ phase = "subscribing" /\ Yielding
    /\ phase' = "polling"
    /\ UNCHANGED <<devices, mqtt, resolving, todo, asking, clientVars>>

\* The first poll of the entry.
FirstPoll ==
    /\ phase = "polling"
    /\ phase' = "up"
    /\ UNCHANGED <<devices, mqtt, resolving, todo, asking, clientVars>>

\* A set-up that fails, before or after the push connection was opened, shuts the
\* coordinator down.
SetUpFailsLeaking ==
    /\ phase \in {"setup", "polling"}
    /\ phase' = "down"
    /\ UNCHANGED <<devices, mqtt, resolving, todo, asking, clientVars>>

SetUpFails ==
    /\ phase \in {"setup", "polling"}
    /\ phase' = "goodbye"
    /\ UNCHANGED <<devices, mqtt, resolving, todo, asking, clientVars>>

\* async_scan_devices: the new inventory at once, then the capabilities of what it adds
\* are awaited.
Scan(D) ==
    /\ phase = "up" /\ Yielding
    /\ devices' = D
    /\ resolving' = IF D \subseteq devices THEN resolving ELSE resolving \cup {D \ devices}
    /\ UNCHANGED <<phase, mqtt, todo, asking, clientVars>>

\* The client not looked at again after the await; scans that wait for each other.
ResolvedUnchecked(added) ==
    /\ added \in resolving /\ Yielding /\ phase \in {"up", "goodbye", "stopping", "down"}
    /\ resolving' = resolving \ {added} /\ todo' = added
    /\ UNCHANGED <<phase, devices, mqtt, asking, clientVars>>

ResolvedAlone(added) ==
    /\ resolving = {added} /\ Yielding /\ phase \in {"up", "goodbye", "stopping", "down"}
    /\ resolving' = {}
    /\ todo' = IF mqtt = NoClient THEN {} ELSE added
    /\ UNCHANGED <<phase, devices, mqtt, asking, clientVars>>

\* Once the capabilities are there: the subscriptions, if there is still a client.
Resolved(added) ==
    /\ added \in resolving /\ Yielding /\ phase \in {"up", "goodbye", "stopping", "down"}
    /\ resolving' = resolving \ {added}
    /\ todo' = IF mqtt = NoClient THEN {} ELSE added
    /\ UNCHANGED <<phase, devices, mqtt, asking, clientVars>>

\* async_unload_entry: async_shutdown of the coordinator.
Unload ==
    /\ phase = "up" /\ Yielding
    /\ phase' = "goodbye"
    /\ UNCHANGED <<devices, mqtt, resolving, todo, asking, clientVars>>

-----------------------------------------------------------------------------
(* MqttClient.disconnect, in the executor, awaited by async_shutdown. *)

NothingToStopRaises == phase = "goodbye" /\ mqtt = NoClient /\ UNCHANGED vars

NothingToStop ==
    /\ phase = "goodbye" /\ mqtt = NoClient
    /\ phase' = "down" /\ devices' = {}
    /\ UNCHANGED <<mqtt, resolving, todo, asking, clientVars>>

\* The loop stopped before DISCONNECT is queued.
StopFirst ==
    /\ phase = "goodbye" /\ mqtt # NoClient
    /\ phase' = "stopping"
    /\ loop' = [loop EXCEPT ![mqtt] = "none"]
    /\ again' = [again EXCEPT ![mqtt] = {}]
    /\ UNCHANGED <<devices, mqtt, resolving, todo, asking, remembered, leaving, subscribed,
                   session>>

Goodbye ==
    /\ phase = "goodbye" /\ mqtt # NoClient
    /\ phase' = "stopping"
    /\ leaving' = [leaving EXCEPT ![mqtt] = TRUE]
    /\ UNCHANGED <<devices, mqtt, resolving, todo, asking, remembered, loop, again, subscribed,
                   session>>

\* loop_stop joins the network thread, which has nothing left to send; the client and the
\* coordinator are dropped.
LoopStop ==
    /\ phase = "stopping" /\ Yielding
    /\ loop[mqtt] # "online"
    /\ loop' = [loop EXCEPT ![mqtt] = "none"]
    /\ phase' = "down" /\ mqtt' = NoClient /\ devices' = {}
    /\ remembered' = [remembered EXCEPT ![mqtt] = {}]
    /\ leaving' = [leaving EXCEPT ![mqtt] = FALSE]
    /\ UNCHANGED <<resolving, todo, asking, again, subscribed, session>>

-----------------------------------------------------------------------------
(* The network thread of a client. *)

\* _handle_connect goes through the topics remembered.
Connected(c) ==
    /\ loop[c] = "offline" /\ ~leaving[c]
    /\ loop' = [loop EXCEPT ![c] = "online"]
    /\ again' = [again EXCEPT ![c] = remembered[c]]
    /\ session' = session \cup {c}
    /\ UNCHANGED <<coordinatorVars, remembered, leaving, subscribed>>

RequestAgain(c, d) ==
    /\ d \in again[c]
    /\ again' = [again EXCEPT ![c] = @ \ {d}]
    /\ subscribed' = [subscribed EXCEPT ![c] = @ \cup {d}]
    /\ UNCHANGED <<coordinatorVars, remembered, loop, leaving, session>>

\* The connection is lost, or DISCONNECT has gone out: the broker ends the session.
Offline(c) ==
    /\ loop' = [loop EXCEPT ![c] = "offline"]
    /\ again' = [again EXCEPT ![c] = {}]
    /\ subscribed' = [subscribed EXCEPT ![c] = {}]
    /\ session' = session \ {c}
    /\ UNCHANGED <<coordinatorVars, remembered, leaving>>

Dropped(c) == loop[c] = "online" /\ Offline(c)

SendGoodbye(c) == loop[c] = "online" /\ leaving[c] /\ again[c] = {} /\ Offline(c)

-----------------------------------------------------------------------------
CoordinatorNext ==
    \/ \E D \in SUBSET Devices : SetUp(D) \/ Scan(D)
    \/ \E c \in Clients : StartPush(c)
    \/ \E d \in Devices : Remember(d)
    \/ \E added \in SUBSET Devices : Resolved(added)
    \/ PushUnavailable \/ Request \/ Subscribed \/ FirstPoll \/ SetUpFails
    \/ Unload \/ NothingToStop \/ Goodbye \/ LoopStop

NetworkNext(c) ==
    \/ Connected(c) \/ Dropped(c) \/ SendGoodbye(c)
    \/ \E d \in Devices : RequestAgain(c, d)

Next ==
    \/ CoordinatorNext
    \/ \E c \in Clients : NetworkNext(c)

\* The event loop runs its callbacks, the executor what it is given, the network thread
\* what is queued; the awaits of a scan end (its requests time out), and the event loop takes
\* its ready callbacks in turn, however many scans there are (SF).  Nothing is assumed of
\* the connection, of the person, or of a set-up.
Fairness ==
    /\ WF_vars(\E d \in Devices : Remember(d)) /\ WF_vars(Request)
    /\ \A added \in (SUBSET Devices) \ {{}} : SF_vars(Resolved(added))
    /\ WF_vars(NothingToStop) /\ WF_vars(Goodbye) /\ WF_vars(LoopStop)
    /\ \A c \in Clients :
           /\ WF_vars(\E d \in Devices : RequestAgain(c, d))
           /\ WF_vars(SendGoodbye(c))

Spec == Init /\ [][Next]_vars
FairSpec == Spec /\ Fairness

-----------------------------------------------------------------------------
(* Properties. *)

\* The network thread requests only remembered topics, a subscription is one of a
\* connection, and the coordinator subscribes only while it has a client.
TypeOK ==
    /\ phase \in Phases /\ devices \subseteq Devices /\ mqtt \in Clients \cup {NoClient}
    /\ resolving \subseteq SUBSET Devices /\ todo \subseteq Devices
    /\ asking \in Devices \cup {NoDevice}
    /\ remembered \in [Clients -> SUBSET Devices]
    /\ loop \in [Clients -> Loops] /\ leaving \in [Clients -> BOOLEAN]
    /\ again \in [Clients -> SUBSET Devices] /\ subscribed \in [Clients -> SUBSET Devices]
    /\ session \subseteq Clients
    /\ ~Yielding => mqtt # NoClient

\* With the connection up, every appliance of the inventory is subscribed, or a step of
\* the event loop or of the network thread that is under way will do it: no order of
\* subscribing, connecting and dropping loses one.
NothingUnsubscribed ==
    phase \in {"polling", "up"} /\ mqtt # NoClient /\ loop[mqtt] = "online" =>
        devices \subseteq subscribed[mqtt] \cup again[mqtt] \cup todo \cup {asking}
                            \cup UNION resolving

\* The entry has one network loop at a time, that of its coordinator, however often a
\* set-up fails after the push connection was opened: every client has the same id, and the
\* broker would throw out the one for the other.
OneLoop == \A c \in Clients : loop[c] # "none" => c = mqtt

\* A network loop that has ended leaves no session behind, which would block the next
\* connection under the same client id (disconnect).
NoSessionLeft == \A c \in session : loop[c] # "none"

\* While the connection stays up, an appliance of the inventory is subscribed in the end.
StaysOnline == phase = "up" /\ mqtt # NoClient /\ loop[mqtt] = "online"

EventuallySubscribed ==
    \A d \in Devices :
        <>[](StaysOnline /\ d \in devices)
            => <>[](mqtt # NoClient /\ d \in subscribed[mqtt])

\* A shutdown ends: the thread it waits for does not wait for the event loop.
ShutdownEnds == phase = "goodbye" ~> phase = "down"
=============================================================================
