-------------------------------- MODULE Gate --------------------------------
(***************************************************************************)
(* The paid gate of a TollGate: the session table                          *)
(* (tollgate_core_session.c) over the access lists of Firewall.tla, and    *)
(* the four tasks of the firmware that change them:                        *)
(*                                                                         *)
(*   - the API server (port 2121): api_post_payment, api_post_mining_share *)
(*   - the portal server (port 80): /grant_access, /reset_authentication   *)
(*   - the main loop, once a second: tollgate_core_tick                    *)
(*   - the WiFi events: start_services and stop_services                   *)
(*                                                                         *)
(* One step is one handler.  (GateRace.tla takes two of them apart.)  The  *)
(* unit of time is one period of the main loop.  The clock is              *)
(* xTaskGetTickCount: it wraps.  An address, an amount and a metric are    *)
(* all that is left of a request; what makes api_post_payment accept a     *)
(* token is in Settlement.tla.                                             *)
(***************************************************************************)
EXTENDS Firewall, Integers

CONSTANTS
    NoIP,           \* the address of a slot that was never used
    MaxSessions,    \* TG_SESSION_MAX_CLIENTS
    IntMax,         \* INT64_MAX
    TickWrap,       \* the tick counter wraps here (2^32)
    Metrics,        \* the values the operator gives cfg->metric
    Allotments,     \* what a token or an accepted share can be worth
    Traffic,        \* what one call of tollgate_core_session_add_bytes adds
    MaxAllot,       \* bound: no session holds more than this
    MaxBytes,       \* bound: no more bytes than this are counted
    MaxLag          \* bound: the main loop is at most this late

Word == 2 * (IntMax + 1)        \* uint64_t

ASSUME GateAssumption ==
    /\ NoIP \notin IP
    /\ MaxSessions \in Nat \ {0}
    /\ IntMax \in Nat
    /\ TickWrap \in 1..IntMax
    /\ Metrics \subseteq {"milliseconds", "bytes"} /\ Metrics # {}
    /\ Allotments \subseteq Nat \ {0}
    /\ Traffic \subseteq Nat
    /\ MaxAllot \in Nat /\ MaxAllot < IntMax
    /\ MaxBytes \in Nat
    /\ MaxLag \in Nat \ {0}

VARIABLES
    sessions,       \* s_sessions
    session_count,  \* s_session_count
    access,         \* the firewall's s_clients and the DNS server's s_auth_list
    metric,         \* cfg->metric
    now,            \* xTaskGetTickCount
    lag,            \* clock units since the last tollgate_core_tick
    inited,         \* s_platform is set: tollgate_core_init has run
    running,        \* s_services_running
    portal,         \* the portal's s_server is up
    spawned,        \* ip_event_handler's s_svc_task is not NULL
    starters,       \* services_start_tasks that have not run yet
    free,           \* history: addresses let in by /grant_access alone
    carried,        \* history: the DNS list as the last tollgate_core_init left it
    age             \* history: each session's true age, which does not wrap

sessVars == <<sessions, session_count>>
svcVars  == <<inited, running, portal, spawned, starters>>
timeVars == <<now, lag, age>>
vars == <<sessVars, access, metric, timeVars, svcVars, free, carried>>

Slots == 1..MaxSessions

MaxAge == MaxAllot + 1          \* ages saturate here

(***************************************************************************)
(* The session table.                                                      *)
(***************************************************************************)

(* tg_session_t; the MAC is left out, it is only displayed.                *)
Session == [active : BOOLEAN, client_ip : IP \cup {NoIP},
            allotment_ms : 0..(Word - 1), start_time_ms : 0..(TickWrap - 1),
            payment_method : {"cashu", "mining", "bytes"},
            allotment_bytes : Nat, bytes_consumed : Nat]

(* A slot after the memset of tollgate_core_session_init.                  *)
ZeroSession == [active |-> FALSE, client_ip |-> NoIP, allotment_ms |-> 0,
                start_time_ms |-> 0, payment_method |-> "cashu",
                allotment_bytes |-> 0, bytes_consumed |-> 0]

Active == {i \in Slots : sessions[i].active}

AddressesOf(S) == {sessions[i].client_ip : i \in S}

(* (int64_t)x of a uint64_t.                                               *)
ToInt64(x) == IF x <= IntMax THEN x ELSE x - Word

(* Mutants of IsExpired: unsigned elapsed time; one period too late.       *)
IsExpiredUnsigned(s) ==
    ~s.active \/ (now - s.start_time_ms) % Word >= s.allotment_ms

IsExpiredLate(s) ==
    ~s.active \/ now - s.start_time_ms > ToInt64(s.allotment_ms)

(* tollgate_core_session_is_expired.  A session bought by the byte goes by *)
(* its bytes; any other one goes by whatever the metric is now, and before *)
(* tollgate_core_init has set the platform, by its time.                   *)
IsExpired(s) ==
    \/ ~s.active
    \/ /\ s.active
       /\ IF s.payment_method = "bytes" \/ (inited /\ metric = "bytes")
          THEN s.bytes_consumed >= s.allotment_bytes
          ELSE now - s.start_time_ms >= ToInt64(s.allotment_ms)

(* tollgate_core_session_find_by_ip: the first of these slots.             *)
SlotsOf(ip) == {i \in Active : sessions[i].client_ip = ip}

First(S) == CHOOSE i \in S : \A j \in S : i <= j

(* Mutant of Released: the slot stays active.                              *)
ReleasedActive(s) == s

(* tollgate_core_session_revoke of a slot.  The code only clears the flag; *)
(* of the rest, everything but the two byte counts is dead (whoever reads  *)
(* it asks for the flag first, and tollgate_core_session_create writes it  *)
(* anew) and is dropped here.                                              *)
Released(s) == [ZeroSession EXCEPT !.allotment_bytes = s.allotment_bytes,
                                   !.bytes_consumed = s.bytes_consumed]

(* tollgate_core_session_extend.                                           *)
Extended(s, a) == [s EXCEPT !.allotment_ms = (@ + a) % Word]

(* What tollgate_core_session_create writes into the slot it takes: the    *)
(* byte counts are not among it.                                           *)
Opened(s, ip, a) == [s EXCEPT !.active = TRUE, !.client_ip = ip,
                              !.allotment_ms = a, !.start_time_ms = now,
                              !.payment_method = "cashu"]

(* What the caller does to the session tollgate_core_session_create        *)
(* returned, be it new or not: api_post_payment leaves it as it is,        *)
(* api_post_mining_share relabels it, tollgate_core_session_create_bytes   *)
(* (which asked for 0 ms) turns it into one of a bytes.                    *)
Finished(s, method, a) ==
    CASE method = "cashu"  -> s
      [] method = "mining" -> [s EXCEPT !.payment_method = "mining"]
      [] method = "bytes"  -> [s EXCEPT !.allotment_bytes = a,
                                        !.bytes_consumed = 0,
                                        !.allotment_ms = IntMax,
                                        !.payment_method = "bytes"]

Millis(method, a) == IF method = "bytes" THEN 0 ELSE a

(* Bound: an extension keeps the session within MaxAllot of 0 or of the    *)
(* IntMax that tollgate_core_session_create_bytes writes.  With 64 bits    *)
(* neither limit is ever met.                                              *)
WithinBounds(s, a) ==
    /\ s.allotment_ms < IntMax => s.allotment_ms + a <= MaxAllot
    /\ s.allotment_ms + a <= IntMax + MaxAllot

(* tollgate_core_session_create on a client that has a session.  The       *)
(* firewall is not touched.                                                *)
TopUp(ip, method, a) ==
    /\ SlotsOf(ip) # {}
    /\ LET i == First(SlotsOf(ip))
           ms == Millis(method, a)
       IN  /\ WithinBounds(sessions[i], ms)
           /\ sessions' = [sessions EXCEPT
                              ![i] = Finished(Extended(@, ms), method, a)]
    /\ UNCHANGED <<session_count, access, free, age>>

(* The slots tollgate_core_session_create clears when the table is full:   *)
(* the first one that is expired, if any is.                               *)
Evicted ==
    LET E == {i \in Slots : IsExpired(sessions[i])}
    IN  IF session_count >= MaxSessions /\ E # {}
        THEN {First(E)} \cap Active
        ELSE {}

(* tollgate_core_session_create on a client without a session.             *)
Open(ip, method, a) ==
    /\ SlotsOf(ip) = {}
    /\ Millis(method, a) <= MaxAllot
    /\ LET gone == Evicted
           unused == (Slots \ Active) \cup gone
           i == First(unused)
       IN  /\ unused # {}
           /\ sessions' = [j \in Slots |->
                IF j = i
                THEN Finished(Opened(sessions[j], ip, Millis(method, a)), method, a)
                ELSE IF j \in gone THEN Released(sessions[j]) ELSE sessions[j]]
           /\ session_count' = session_count - Cardinality(gone) + 1
           /\ access' = FwGrant(FwRevoke(access, AddressesOf(gone)), ip)
           /\ free' = (free \ AddressesOf(gone)) \ {ip}
           /\ age' = [j \in Slots |-> IF j \in gone \cup {i} THEN 0 ELSE age[j]]

Create(ip, method, a) ==
    /\ TopUp(ip, method, a) \/ Open(ip, method, a)
    /\ UNCHANGED <<metric, now, lag, svcVars, carried>>

(***************************************************************************)
(* The API server.                                                         *)
(***************************************************************************)

(* api_post_payment with a token it accepts, worth a units of the metric.  *)
(* No slot for the session (503) changes nothing.                          *)
Pay(ip, a) == Create(ip, IF metric = "bytes" THEN "bytes" ELSE "cashu", a)

(* api_post_mining_share with an accepted share.  Its worth may be 0.  A   *)
(* session paid for otherwise is extended and becomes a mining session.    *)
MiningShare(ip, a) == Create(ip, "mining", a)

(***************************************************************************)
(* The portal server, while it is up.                                      *)
(***************************************************************************)

(* grant_access_handler: in without a session.                             *)
GrantAccess(ip) ==
    /\ portal
    /\ access' = FwGrant(access, ip)
    /\ free' = IF ip \in access'.fw /\ ip \notin AddressesOf(Active)
               THEN free \cup {ip} ELSE free
    /\ UNCHANGED <<sessVars, metric, timeVars, svcVars, carried>>

(* reset_auth_handler: tollgate_core_session_revoke_all, then              *)
(* tollgate_core_fw_revoke_all.                                            *)
ResetAuth ==
    /\ portal
    /\ sessions' = [i \in Slots |-> IF i \in Active THEN Released(sessions[i])
                                    ELSE sessions[i]]
    /\ session_count' = session_count - Cardinality(Active)
    /\ access' = FwRevokeAll(FwRevoke(access, AddressesOf(Active)))
    /\ free' = {}
    /\ age' = [i \in Slots |-> 0]
    /\ UNCHANGED <<metric, now, lag, svcVars, carried>>

(***************************************************************************)
(* The main loop and the clock.                                            *)
(***************************************************************************)

(* tollgate_core_tick, that is check_expiry.                               *)
Tick ==
    /\ lag > 0
    /\ lag' = 0
    /\ LET gone == {i \in Active : IsExpired(sessions[i])}
       IN  /\ sessions' = [i \in Slots |-> IF i \in gone
                                           THEN Released(sessions[i])
                                           ELSE sessions[i]]
           /\ session_count' = session_count - Cardinality(gone)
           /\ access' = FwRevoke(access, AddressesOf(gone))
           /\ free' = free \ AddressesOf(gone)
           /\ age' = [i \in Slots |-> IF i \in gone THEN 0 ELSE age[i]]
    /\ UNCHANGED <<metric, now, svcVars, carried>>

(* The tick counter of FreeRTOS.                                           *)
Clock ==
    /\ lag < MaxLag
    /\ lag' = lag + 1
    /\ now' = (now + 1) % TickWrap
    /\ age' = [i \in Slots |-> IF i \in Active /\ age[i] < MaxAge
                               THEN age[i] + 1 ELSE age[i]]
    /\ UNCHANGED <<sessVars, access, metric, svcVars, free, carried>>

(***************************************************************************)
(* The operator, the network stack, and the service lifecycle.             *)
(***************************************************************************)

(* mcp_handle_set_metric, and the metric item of mcp_handle_set_config:    *)
(* tools of the CVM server, which start_services starts.                   *)
SetMetric(m) ==
    /\ inited
    /\ metric' = m
    /\ UNCHANGED <<sessVars, access, timeVars, svcVars, free, carried>>

(* tollgate_core_session_add_bytes.  Nothing in the firmware calls it; it  *)
(* is there for a platform that counts traffic.                            *)
AddBytes(ip, n) ==
    /\ SlotsOf(ip) # {}
    /\ LET i == First(SlotsOf(ip))
       IN  /\ sessions[i].bytes_consumed + n <= MaxBytes
           /\ sessions' = [sessions EXCEPT ![i].bytes_consumed = @ + n]
    /\ UNCHANGED <<session_count, access, metric, timeVars, svcVars, free, carried>>

(* ip_event_handler, IP_EVENT_STA_GOT_IP: the task that starts the         *)
(* services is created once in the life of the firmware, its handle is     *)
(* never cleared.                                                          *)
GotIp ==
    /\ ~spawned
    /\ spawned' = TRUE
    /\ starters' = starters + 1
    /\ UNCHANGED <<sessVars, access, metric, timeVars, inited, running, portal,
                   free, carried>>

(* start_services: tollgate_core_init empties the session table and the    *)
(* firewall; the portal is started if it is down.                          *)
StartServices ==
    /\ starters > 0
    /\ starters' = starters - 1
    /\ IF running
       THEN UNCHANGED <<sessVars, access, age, inited, running, portal, free, carried>>
       ELSE /\ sessions' = [i \in Slots |-> ZeroSession]
            /\ session_count' = 0
            /\ access' = FwInit(access)
            /\ age' = [i \in Slots |-> 0]
            /\ inited' = TRUE
            /\ running' = TRUE
            /\ portal' = TRUE
            /\ free' = {}
            /\ carried' = access.auth
    /\ UNCHANGED <<metric, now, lag, spawned>>

(* stop_services, on a lost IP or a lost association: the firewall is      *)
(* emptied, the session table is not, and the API server stays up because  *)
(* the access point's services are still running.                          *)
StopServices ==
    /\ running
    /\ running' = FALSE
    /\ portal' = FALSE
    /\ access' = FwRevokeAll(access)
    /\ free' = {}
    /\ UNCHANGED <<sessVars, metric, timeVars, inited, spawned, starters, carried>>

(***************************************************************************)
(* The specification.  It begins when the access point is up               *)
(* (start_ap_services): both servers run, the tables are in their static   *)
(* initial state, and if no upstream network is configured app_main has    *)
(* created a services_start_task already.                                  *)
(***************************************************************************)
Init ==
    /\ sessions = [i \in Slots |-> ZeroSession]
    /\ session_count = 0
    /\ access = NoAccess
    /\ metric \in Metrics
    /\ now = 0 /\ lag = 0
    /\ inited = FALSE /\ running = FALSE /\ portal = TRUE /\ spawned = FALSE
    /\ starters \in {0, 1}
    /\ free = {} /\ carried = {}
    /\ age = [i \in Slots |-> 0]

Next ==
    \/ \E ip \in IP, a \in Allotments : Pay(ip, a)
    \/ \E ip \in IP, a \in Allotments \cup {0} : MiningShare(ip, a)
    \/ \E ip \in IP : GrantAccess(ip)
    \/ ResetAuth
    \/ Tick
    \/ Clock
    \/ \E m \in Metrics : SetMetric(m)
    \/ \E ip \in IP, n \in Traffic : AddBytes(ip, n)
    \/ GotIp
    \/ StartServices
    \/ StopServices

Spec == Init /\ [][Next]_vars

(* The counter runs and the main loop is scheduled.                        *)
FairSpec == Spec /\ WF_vars(Clock) /\ WF_vars(Tick)

(***************************************************************************)
(* Properties.                                                             *)
(***************************************************************************)

(* Type invariant of every variable.                                       *)
TypeOK ==
    /\ sessions \in [Slots -> Session]
    /\ session_count \in 0..MaxSessions
    /\ access \in Access
    /\ metric \in Metrics
    /\ now \in 0..(TickWrap - 1) /\ lag \in 0..MaxLag
    /\ inited \in BOOLEAN /\ running \in BOOLEAN /\ portal \in BOOLEAN
    /\ spawned \in BOOLEAN
    /\ starters \in 0..2
    /\ free \subseteq IP /\ carried \subseteq IP
    /\ age \in [Slots -> 0..MaxAge]

(* s_session_count, which decides whether tollgate_core_session_create     *)
(* evicts, is the number of active slots whatever mix of payment,          *)
(* eviction, expiry, reset and restart led here: if it drifted upwards a   *)
(* table with room would evict, if downwards a full one never would.       *)
CountIsActive == session_count = Cardinality(Active)

(* A client has at most one session.  find_by_ip, extend and the firewall  *)
(* all take this for granted: with two, expiry of one would close the      *)
(* firewall on the other.                                                  *)
OneSessionPerClient ==
    \A i, j \in Active : sessions[i].client_ip = sessions[j].client_ip => i = j

(* Nobody is let through who does not have a session or was not let in by  *)
(* /grant_access: every way a session ends (expiry, eviction, reset,       *)
(* restart) takes its firewall entry with it.                              *)
AccessIsOwed == access.fw \subseteq AddressesOf(Active) \cup free

(* The DNS server's list and the firewall's table are the same set until a *)
(* tollgate_core_init, which clears only the table, finds someone in them; *)
(* later the DNS list still holds nobody the firewall does not allow,      *)
(* except those whom that tollgate_core_init left behind.                  *)
AuthAgrees ==
    /\ carried = {} => access.auth = access.fw
    /\ access.auth \ access.fw \subseteq carried

(* A client whose session goes on keeps its access, whatever happens to    *)
(* other clients' sessions in the meantime (their expiry, eviction, a full *)
(* table): only stop_services closes the gate on a running session.        *)
PaidAccessKept ==
    [][\A ip \in AddressesOf(Active) \cap AddressesOf(Active)' :
            ip \in access.fw => ip \in access'.fw \/ (running /\ ~running')]_vars

(* Slot i's session ends in this step.                                     *)
Ends(i) ==
    /\ i \in Active
    /\ sessions'[i].active => sessions'[i].client_ip # sessions[i].client_ip

(* Slot i's session goes by its time, and its allotment is an int64_t      *)
(* (a mining share on a session sold by the byte makes it more).           *)
Timed(i) ==
    /\ sessions[i].payment_method # "bytes" /\ metric = "milliseconds"
    /\ sessions[i].allotment_ms <= IntMax

(* Outside /reset_authentication and a restart of the services, no session *)
(* that goes by its time ends, by expiry or by eviction, before its client *)
(* had all the time it was sold, also when the tick counter wraps and when *)
(* the metric is switched meanwhile.                                       *)
NoEarlyCutoff ==
    [][\A i \in Slots : Ends(i) /\ Timed(i) =>
            age[i] >= sessions[i].allotment_ms \/ ResetAuth \/ StartServices]_vars

(* The session of ip goes by its time and ends at least MaxLag before the  *)
(* tick counter wraps.                                                     *)
EndsBeforeWrap(ip) ==
    \E i \in SlotsOf(ip) :
        /\ Timed(i)
        /\ sessions[i].start_time_ms + sessions[i].allotment_ms + MaxLag <= TickWrap

(* Every such session ends, or is extended into the wrap of the counter.   *)
SessionsEnd ==
    \A ip \in IP : EndsBeforeWrap(ip) ~> ~EndsBeforeWrap(ip)
=============================================================================
