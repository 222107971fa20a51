-------------------------------- MODULE Uplink --------------------------------
(***************************************************************************)
(* The gateway's way to the internet: the WiFi station and the services    *)
(* that are started and stopped with it (tollgate_main.c), the networks it *)
(* tries (config.c), the portal's WiFi pages (captive_portal.c) and the    *)
(* client that pays an upstream TollGate (tollgate_client.c).              *)
(*                                                                         *)
(* Four tasks: the event loop handles the WiFi and IP events in order, and *)
(* detects and pays the upstream gateway inside a handler; the main loop   *)
(* ticks the client; a task starts the services; the portal's server       *)
(* answers requests.  The radio and the upstream gateway are external.     *)
(* AP_START has been handled: the portal and the API run from the start.   *)
(***************************************************************************)
EXTENDS Integers, Sequences, SequencesExt

CONSTANTS
    MaxNetworks,  \* TOLLGATE_MAX_WIFI_NETWORKS
    MaxRetry,     \* MAX_STA_RETRY
    MaxEvents     \* bound: events not yet handled

ASSUME UplinkAssumption ==
    /\ MaxNetworks \in Nat \ {0} /\ MaxRetry \in Nat \ {0} /\ MaxEvents \in Nat \ {0}

VARIABLES
    reach,    \* external: the networks that can be reached
    count,    \* network_count
    current,  \* current_network
    target,   \* the network the station is set to
    radio,    \* external: off, trying, up
    retries,  \* s_retry_count
    events,   \* the event loop's queue
    loop,     \* where the event loop is in a handler
    starters, \* the tasks running start_services: at GOT_IP, and at boot
    mutex,    \* who holds s_services_mutex
    running,  \* s_services_running
    portal,   \* the portal's server is there
    state,    \* tollgate_client.c's s_state
    gateway,  \* s_gw_ip is set
    seen,     \* s_remaining_ms of s_allotment_ms: unknown, low, high
    tick,     \* where the main loop is in tollgate_client_tick
    session   \* external: what the upstream gateway's session has left

station  == <<reach, count, current, target, radio, retries, events>>
services == <<starters, mutex, running, portal>>
client   == <<state, gateway, seen>>
uplinkVars == <<reach, count, current, target, radio, retries, events, loop, starters, mutex,
                running, portal, state, gateway, seen, tick, session>>

Networks == 0..(MaxNetworks - 1)
Starters == {"svc_start", "svc_start_fb"}
NoNetwork == -1

Room == Len(events) < MaxEvents
Post(e) == events' = Append(events, e)

(* esp_wifi_connect: nothing while it is connecting or connected.          *)
Connecting == IF radio = "off" THEN "trying" ELSE radio

(***************************************************************************)
(* The radio.                                                              *)
(***************************************************************************)
RadioUp ==
    /\ radio = "trying" /\ target \in reach /\ Room
    /\ radio' = "up"
    /\ Post("got_ip")
    /\ UNCHANGED <<reach, count, current, target, retries, loop, services, client, tick, session>>

RadioDown ==
    /\ radio # "off" /\ Room
    /\ radio' = "off"
    /\ Post("disconnected")
    /\ UNCHANGED <<reach, count, current, target, retries, loop, services, client, tick, session>>

(* The address is lost some time after the connection.                     *)
LosesIp ==
    /\ radio = "off" /\ Room /\ ~Contains(events, "lost_ip")
    /\ Post("lost_ip")
    /\ UNCHANGED <<reach, count, current, target, radio, retries, loop, services, client, tick,
                   session>>

(***************************************************************************)
(* The event loop.                                                         *)
(***************************************************************************)
Takes(e) == loop = "idle" /\ events # <<>> /\ Head(events) = e /\ events' = Tail(events)

ClientReset == state' = "IDLE" /\ gateway' = FALSE /\ seen' = "unknown"

(* WIFI_EVENT_STA_DISCONNECTED, with tollgate_client_on_sta_disconnected.  *)
OnDisconnected ==
    /\ Takes("disconnected")
    /\ retries' = retries + 1
    /\ ClientReset
    /\ loop' = IF running THEN "stop_then_retry" ELSE "retry"
    /\ UNCHANGED <<reach, count, current, target, radio, services, tick, session>>

(* IP_EVENT_STA_LOST_IP                                                    *)
OnLostIp ==
    /\ Takes("lost_ip")
    /\ loop' = "stop"
    /\ UNCHANGED <<reach, count, current, target, radio, retries, services, client, tick, session>>

(* stop_services.  The API, the price beacon and the market go on, they    *)
(* belong to the access point's services.                                  *)
StopServices ==
    /\ loop \in {"stop", "stop_then_retry"}
    /\ mutex = "free"
    /\ IF running THEN running' = FALSE /\ portal' = FALSE ELSE UNCHANGED <<running, portal>>
    /\ loop' = IF loop = "stop" THEN "idle" ELSE "retry"
    /\ UNCHANGED <<station, starters, mutex, client, tick, session>>

(* Mutant of Retry: after the last network there is no first one.          *)
RetryToLast ==
    /\ loop = "retry"
    /\ IF retries < MaxRetry
       THEN radio' = Connecting /\ UNCHANGED <<current, target, retries>>
       ELSE /\ radio' = IF current + 1 < count THEN Connecting ELSE radio
            /\ current' = IF current + 1 < count THEN current + 1 ELSE current
            /\ target' = IF current + 1 < count THEN current' ELSE target
            /\ retries' = IF current + 1 < count THEN 0 ELSE retries
    /\ loop' = "idle"
    /\ UNCHANGED <<reach, count, events, services, client, tick, session>>

(* tollgate_config_get_next_wifi.                                          *)
NextNetwork == (current + 1) % count

(* The rest of the handler: after MAX_STA_RETRY attempts the next network. *)
Retry ==
    /\ loop = "retry"
    /\ IF retries < MaxRetry
       THEN radio' = Connecting /\ UNCHANGED <<current, target, retries>>
       ELSE IF count = 0
       THEN UNCHANGED <<radio, current, target, retries>>
       ELSE /\ current' = NextNetwork
            /\ target' = current'
            /\ retries' = 0
            /\ radio' = Connecting
    /\ loop' = "idle"
    /\ UNCHANGED <<reach, count, events, services, client, tick, session>>

(* IP_EVENT_STA_GOT_IP: the task that starts the services is created once; *)
(* then tollgate_client_on_sta_connected.                                  *)
OnGotIp ==
    /\ Takes("got_ip")
    /\ retries' = 0
    /\ starters' = [starters EXCEPT !.svc_start = IF @ = "none" THEN "delay" ELSE @]
    /\ state' = "DETECTING" /\ gateway' = TRUE /\ UNCHANGED seen
    /\ loop' = "detect"
    /\ UNCHANGED <<reach, count, current, target, radio, mutex, running, portal, tick, session>>

(* tollgate_client_detect: the gateway's discovery, within ten seconds.    *)
NotDetected ==
    /\ loop = "detect"
    /\ state' = "NO_TOLLGATE"
    /\ loop' = "idle"
    /\ UNCHANGED <<station, services, gateway, seen, tick, session>>

Detected ==
    /\ loop = "detect"
    /\ state' = "PAYING"
    /\ loop' = "pay"
    /\ UNCHANGED <<station, services, gateway, seen, tick, session>>

(* tollgate_client_pay makes a token and posts it; up to fifteen seconds.  *)
(* When that fails the token may have been taken all the same, or is lost. *)
Paid == state' = "PAID" /\ seen' = "high" /\ session' = "high"

PayFailed == state' = "ERROR" /\ UNCHANGED seen /\ session' \in {session, "high"}

ConnectPays ==
    /\ loop = "pay"
    /\ Paid \/ PayFailed
    /\ loop' = "idle"
    /\ UNCHANGED <<station, services, gateway, tick>>

(***************************************************************************)
(* tollgate_client_tick, once a second.                                    *)
(***************************************************************************)

TickRetries ==
    /\ tick = "idle" /\ state = "ERROR" /\ gateway
    /\ state' = "PAYING"
    /\ tick' = "pay"
    /\ UNCHANGED <<station, loop, services, gateway, seen, session>>

TickAsks ==
    /\ tick = "idle" /\ state \in {"PAID", "RENEWING"} /\ gateway
    /\ tick' = "usage"
    /\ UNCHANGED <<station, loop, services, client, session>>

(* Mutant of TickRenews: what is low now has to have been low before.      *)
TickRenewsLate(known) ==
    /\ tick = "usage"
    /\ seen' = IF known = "low" THEN seen ELSE known
    /\ IF seen = "low" THEN state' = "RENEWING" /\ tick' = "pay"
       ELSE UNCHANGED state /\ tick' = "idle"
    /\ UNCHANGED <<station, loop, services, gateway, session>>

(* tollgate_client_query_usage and tollgate_core_client_should_renew: an   *)
(* answer replaces what is known, -1/-1 of a session that ended too, and   *)
(* without one what is known stays.                                        *)
TickRenews(known) ==
    /\ tick = "usage"
    /\ seen' = known
    /\ IF known = "low" THEN state' = "RENEWING" /\ tick' = "pay"
       ELSE UNCHANGED state /\ tick' = "idle"
    /\ UNCHANGED <<station, loop, services, gateway, session>>

UsageAnswer == IF session = "none" THEN "unknown" ELSE session

TickAnswered == gateway /\ TickRenews(UsageAnswer)

TickUnanswered == TickRenews(seen)

(* Mutant of TickPays: a failure leaves the state.                         *)
TickPaysOrNot ==
    /\ tick = "pay"
    /\ Paid \/ (UNCHANGED <<state, seen>> /\ session' \in {session, "high"})
    /\ tick' = "idle"
    /\ UNCHANGED <<station, loop, services, gateway>>

TickPays ==
    /\ tick = "pay"
    /\ Paid \/ PayFailed
    /\ tick' = "idle"
    /\ UNCHANGED <<station, loop, services, gateway>>

(***************************************************************************)
(* start_services, three seconds after its task was created.               *)
(***************************************************************************)

(* Mutant of StartBegins: the early return keeps the mutex.                *)
StartBeginsKeeping(t) ==
    /\ starters[t] = "delay" /\ mutex = "free"
    /\ mutex' = t
    /\ starters' = [starters EXCEPT ![t] = IF running THEN "done" ELSE "starting"]
    /\ UNCHANGED <<station, loop, running, portal, client, tick, session>>

StartBegins(t) ==
    /\ starters[t] = "delay" /\ mutex = "free"
    /\ IF running THEN starters' = [starters EXCEPT ![t] = "done"] /\ UNCHANGED mutex
       ELSE starters' = [starters EXCEPT ![t] = "starting"] /\ mutex' = t
    /\ UNCHANGED <<station, loop, running, portal, client, tick, session>>

StartEnds(t) ==
    /\ starters[t] = "starting"
    /\ running' = TRUE /\ portal' = TRUE
    /\ starters' = [starters EXCEPT ![t] = "done"]
    /\ mutex' = "free"
    /\ UNCHANGED <<station, loop, client, tick, session>>

(***************************************************************************)
(* The portal's pages /wifi/connect and /wifi/scan, and the upstream       *)
(* gateway's session.                                                      *)
(***************************************************************************)

(* wifi_connect_handler with tollgate_config_add_wifi.                     *)
WifiConnect ==
    /\ portal /\ count < MaxNetworks
    /\ count' = count + 1
    /\ target' = count
    /\ radio' = Connecting
    /\ UNCHANGED <<reach, current, retries, events, loop, services, client, tick, session>>

(* wifi_scan_handler disconnects, scans, and connects to the current       *)
(* network; not when the scan failed.                                      *)
WifiScan ==
    /\ portal /\ Room /\ radio # "off"
    /\ Post("disconnected")
    /\ \/ count > 0 /\ target' = current % count /\ radio' = "trying"
       \/ radio' = "off" /\ UNCHANGED target
    /\ UNCHANGED <<reach, count, current, retries, loop, services, client, tick, session>>

SessionWanes ==
    /\ session # "none"
    /\ session' = IF session = "high" THEN "low" ELSE "none"
    /\ UNCHANGED <<station, loop, services, client, tick>>

(* app_main: with a network the station connects, without one the services *)
(* are started at once.                                                    *)
UplinkInit ==
    /\ reach \in SUBSET Networks
    /\ count \in 0..MaxNetworks
    /\ current = 0 /\ target = IF count = 0 THEN NoNetwork ELSE 0
    /\ radio = IF count = 0 THEN "off" ELSE "trying"
    /\ retries = 0 /\ events = <<>> /\ loop = "idle"
    /\ starters = [t \in Starters |-> IF t = "svc_start_fb" /\ count = 0 THEN "delay" ELSE "none"]
    /\ mutex = "free" /\ running = FALSE /\ portal = TRUE
    /\ state = "IDLE" /\ gateway = FALSE /\ seen = "unknown"
    /\ tick = "idle" /\ session = "none"

EventLoop ==
    \/ OnDisconnected \/ OnLostIp \/ StopServices \/ Retry \/ OnGotIp
    \/ NotDetected \/ Detected \/ ConnectPays

Tick == TickRetries \/ TickAsks \/ TickAnswered \/ TickUnanswered \/ TickPays

UplinkNext ==
    \/ RadioUp \/ RadioDown \/ LosesIp
    \/ EventLoop \/ Tick
    \/ \E t \in Starters : StartBegins(t) \/ StartEnds(t)
    \/ WifiConnect \/ WifiScan \/ SessionWanes

UplinkSpec == UplinkInit /\ [][UplinkNext]_uplinkVars

(* All tasks run on.  An attempt ends one way or the other, and one at a   *)
(* network that can be reached succeeds some time; a usage query is        *)
(* answered some time.                                                     *)
UplinkFairness ==
    /\ WF_uplinkVars(EventLoop) /\ WF_uplinkVars(Tick)
    /\ \A t \in Starters : WF_uplinkVars(StartBegins(t) \/ StartEnds(t))
    /\ WF_uplinkVars(radio = "trying" /\ RadioDown) /\ SF_uplinkVars(RadioUp)
    /\ SF_uplinkVars(TickAnswered)

UplinkFairSpec == UplinkSpec /\ UplinkFairness

(***************************************************************************)
(* Properties.                                                             *)
(***************************************************************************)
States == {"IDLE", "DETECTING", "NO_TOLLGATE", "PAYING", "PAID", "RENEWING", "ERROR"}

(* Type invariant.                                                         *)
UplinkTypeOK ==
    /\ reach \subseteq Networks
    /\ count \in 0..MaxNetworks /\ current \in Networks /\ target \in Networks \cup {NoNetwork}
    /\ radio \in {"off", "trying", "up"} /\ retries \in Nat
    /\ events \in BoundedSeq({"got_ip", "disconnected", "lost_ip"}, MaxEvents)
    /\ loop \in {"idle", "stop", "stop_then_retry", "retry", "detect", "pay"}
    /\ starters \in [Starters -> {"none", "delay", "starting", "done"}]
    /\ mutex \in Starters \cup {"free"} /\ running \in BOOLEAN /\ portal \in BOOLEAN
    /\ state \in States /\ gateway \in BOOLEAN /\ seen \in {"unknown", "low", "high"}
    /\ tick \in {"idle", "usage", "pay"} /\ session \in {"none", "low", "high"}

(* The client is never left in a state in which something is under way     *)
(* that is not: whenever it detects, pays or renews, the event loop or the *)
(* main loop is at it, however the two overwrite each other's state (and   *)
(* the types are kept).                                                    *)
NotStuck ==
    /\ UplinkTypeOK
    /\ state \in {"DETECTING", "PAYING", "RENEWING"}
         => loop \in {"detect", "pay"} \/ tick = "pay"

(* The event loop, which waits for the services' mutex, for the upstream   *)
(* gateway and for a payment inside its handlers, always comes back to     *)
(* its queue.                                                              *)
EventsHandled == []<>(loop = "idle")

(* If some network that was configured can be reached, the station gets an *)
(* address again and again, whichever networks it has to try before.       *)
FindsNetwork == <>[](reach \cap 0..(count - 1) # {}) => []<>(radio = "up")

(* A session that is known to run out does not stay so: it is renewed, or  *)
(* ends, or the connection does.                                           *)
LowRenewed == ~<>[](state = "PAID" /\ gateway /\ session = "low")
=============================================================================
