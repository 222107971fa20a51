------------------------------ MODULE GateRace ------------------------------
(***************************************************************************)
(* The session table (tollgate_core_session.c) under two tasks that share  *)
(* it without a lock: the main loop in check_expiry, the API server in     *)
(* tollgate_core_session_create and _create_bytes.  Gate.tla runs each of  *)
(* them in one step; here a task can be preempted between its test of a    *)
(* slot and what it does to it, between the calls of                       *)
(* tollgate_core_session_revoke, in s_session_count++ and --, and between  *)
(* create and the four assignments of create_bytes, which are one step.    *)
(* The operations on the access lists stay whole; the other users of the   *)
(* table are left out.                                                     *)
(*                                                                         *)
(* Of a session's time and bytes only what is left of them is kept.        *)
(***************************************************************************)
EXTENDS Firewall, Integers

CONSTANTS
    NoIP,           \* the address of a slot that was never used
    MaxSessions,    \* TG_SESSION_MAX_CLIENTS
    Allotment,      \* what a payment buys, of time or of bytes
    MaxPayments     \* bound: payments that are begun

ASSUME GateRaceAssumption ==
    /\ NoIP \notin IP
    /\ MaxSessions \in Nat \ {0}
    /\ Allotment \in Nat \ {0}
    /\ MaxPayments \in Nat

VARIABLES
    sessions,       \* s_sessions: active, client_ip, what is left, payment_method
    session_count,  \* s_session_count
    access,         \* the firewall's and the DNS server's lists
    metric,         \* the configured metric
    at,             \* where each task is
    slot,           \* the slot each task is at
    reg,            \* s_session_count as each task has loaded it
    payer,          \* the client the API server is serving
    unit,           \* the metric its payment is counted in
    payments,       \* payments begun
    evicted,        \* history: a session has been evicted
    hasty,          \* history: the main loop found a session expired before
                    \* its client was granted access
    late            \* history: the clients granted access when their slot was
                    \* already being revoked, and not revoked since

payVars == <<payer, unit, payments>>
history == <<evicted, hasty, late>>
vars == <<sessions, session_count, access, metric, at, slot, reg, payVars, history>>

Tasks == {"loop", "api"}
Slots == 1..MaxSessions
Metrics == {"milliseconds", "bytes"}

(* Where a task can be: outside, in check_expiry, in                       *)
(* tollgate_core_session_revoke, or in the creation of a session.          *)
Places == {"idle", "scan", "revoke", "clear", "subtract",
           "extend", "evict", "place", "add", "grant", "bytes"}

Session == [active : BOOLEAN, client_ip : IP \cup {NoIP}, left : Nat,
            by_bytes : BOOLEAN, bytes : Nat]

Active == {i \in Slots : sessions[i].active}

AddressesOf(S) == {sessions[i].client_ip : i \in S}

(* tollgate_core_session_find_by_ip.                                       *)
SlotsOf(ip) == {i \in Active : sessions[i].client_ip = ip}

(* tollgate_core_session_is_expired: by bytes if the session is, or if the *)
(* metric is; else by time.                                                *)
IsExpired(s) ==
    \/ ~s.active
    \/ IF s.by_bytes \/ metric = "bytes" THEN s.bytes = 0 ELSE s.left = 0

First(S) == CHOOSE i \in S : \A j \in S : i <= j

Goto(p, l) == at' = [at EXCEPT ![p] = l]

(* The API server has made the payer's slot active and not granted yet.    *)
Making == at["api"] \in {"add", "grant"}

(***************************************************************************)
(* tollgate_core_session_revoke of task p's slot.                          *)
(***************************************************************************)

(* Where p goes on: check_expiry with its next slot,                       *)
(* tollgate_core_session_create with its search for a free one.            *)
Return(p) ==
    CASE p = "api" -> Goto(p, "place") /\ UNCHANGED slot
      [] p = "loop" /\ slot[p] < MaxSessions ->
            Goto(p, "scan") /\ slot' = [slot EXCEPT ![p] = @ + 1]
      [] OTHER -> Goto(p, "idle") /\ UNCHANGED slot

(* Mutant of RevokeAccess: no look at the flag, no call of the firewall.   *)
RevokeAccessSkipped(p) ==
    /\ at[p] = "revoke"
    /\ Goto(p, "clear")
    /\ UNCHANGED <<sessions, session_count, access, metric, slot, reg, payVars, history>>

(* The flag is tested: nothing to do, or the firewall is told.             *)
RevokeAccess(p) ==
    /\ at[p] = "revoke"
    /\ IF sessions[slot[p]].active
       THEN /\ access' = FwRevoke(access, {sessions[slot[p]].client_ip})
            /\ late' = late \ {sessions[slot[p]].client_ip}
            /\ Goto(p, "clear")
            /\ UNCHANGED slot
       ELSE Return(p) /\ UNCHANGED <<access, late>>
    /\ UNCHANGED <<sessions, session_count, metric, reg, payVars, evicted, hasty>>

(* The flag is cleared and s_session_count loaded ...                      *)
RevokeSlot(p) ==
    /\ at[p] = "clear"
    /\ sessions' = [sessions EXCEPT ![slot[p]].active = FALSE]
    /\ reg' = [reg EXCEPT ![p] = session_count]
    /\ Goto(p, "subtract")
    /\ UNCHANGED <<session_count, access, metric, slot, payVars, history>>

(* ... and stored.                                                         *)
RevokeCount(p) ==
    /\ at[p] = "subtract"
    /\ session_count' = reg[p] - 1
    /\ Return(p)
    /\ UNCHANGED <<sessions, access, metric, reg, payVars, history>>

(***************************************************************************)
(* The main loop: check_expiry.                                            *)
(***************************************************************************)

Tick ==
    /\ at["loop"] = "idle"
    /\ Goto("loop", "scan")
    /\ slot' = [slot EXCEPT !["loop"] = 1]
    /\ UNCHANGED <<sessions, session_count, access, metric, reg, payVars, history>>

TestSlot ==
    /\ at["loop"] = "scan"
    /\ LET s == sessions[slot["loop"]]
       IN  IF s.active /\ IsExpired(s)
           THEN /\ Goto("loop", "revoke")
                /\ hasty' = (hasty \/ (Making /\ slot["loop"] = slot["api"]))
                /\ UNCHANGED slot
           ELSE Return("loop") /\ UNCHANGED hasty
    /\ UNCHANGED <<sessions, session_count, access, metric, reg, payVars, evicted, late>>

(***************************************************************************)
(* The API server: tollgate_core_session_create and _create_bytes.         *)
(***************************************************************************)

(* Mutant of Pay: no look for a session of the client.                     *)
PayUnseen(ip) ==
    /\ at["api"] = "idle"
    /\ payments < MaxPayments
    /\ payments' = payments + 1
    /\ payer' = ip
    /\ unit' = metric
    /\ Goto("api", IF session_count >= MaxSessions THEN "evict" ELSE "place")
    /\ UNCHANGED <<sessions, session_count, access, metric, slot, reg, history>>

(* A payment in the metric that is set.  The client has a session, or the  *)
(* table is full, or it is not.                                            *)
Pay(ip) ==
    /\ at["api"] = "idle"
    /\ payments < MaxPayments
    /\ payments' = payments + 1
    /\ payer' = ip
    /\ unit' = metric
    /\ IF SlotsOf(ip) # {}
       THEN /\ Goto("api", "extend")
            /\ slot' = [slot EXCEPT !["api"] = First(SlotsOf(ip))]
       ELSE /\ Goto("api", IF session_count >= MaxSessions THEN "evict" ELSE "place")
            /\ UNCHANGED slot
    /\ UNCHANGED <<sessions, session_count, access, metric, reg, history>>

(* allotment_ms of the call: none for a session by bytes.                  *)
Millis == IF unit = "bytes" THEN 0 ELSE Allotment

(* What comes after tollgate_core_session_create has returned a session.   *)
Created == IF unit = "bytes" THEN "bytes" ELSE "idle"

(* tollgate_core_session_extend tests the flag; the payer is answered with *)
(* a session either way.                                                   *)
Extend ==
    /\ at["api"] = "extend"
    /\ sessions' = IF sessions[slot["api"]].active
                   THEN [sessions EXCEPT ![slot["api"]].left = @ + Millis]
                   ELSE sessions
    /\ Goto("api", Created)
    /\ UNCHANGED <<session_count, access, metric, slot, reg, payVars, history>>

(* The first slot that is inactive or expired is revoked, if there is one. *)
Evict ==
    /\ at["api"] = "evict"
    /\ LET E == {i \in Slots : IsExpired(sessions[i])}
       IN  /\ IF E # {} THEN Goto("api", "revoke") /\ slot' = [slot EXCEPT !["api"] = First(E)]
                        ELSE Goto("api", "place") /\ UNCHANGED slot
           /\ evicted' = (evicted \/ E # {})
    /\ UNCHANGED <<sessions, session_count, access, metric, reg, payVars, hasty, late>>

(* The first inactive slot becomes the payer's session, with the byte      *)
(* counts of its former owner; without one the answer is 503.              *)
(* s_session_count is loaded ...                                           *)
Place ==
    /\ at["api"] = "place"
    /\ IF Active # Slots
       THEN LET i == First(Slots \ Active)
            IN  /\ sessions' = [sessions EXCEPT ![i] =
                        [active |-> TRUE, client_ip |-> payer, left |-> Millis,
                         by_bytes |-> FALSE, bytes |-> @.bytes]]
                /\ slot' = [slot EXCEPT !["api"] = i]
                /\ reg' = [reg EXCEPT !["api"] = session_count]
                /\ Goto("api", "add")
       ELSE Goto("api", "idle") /\ UNCHANGED <<sessions, slot, reg>>
    /\ UNCHANGED <<session_count, access, metric, payVars, history>>

(* ... and stored ...                                                      *)
AddCount ==
    /\ at["api"] = "add"
    /\ session_count' = reg["api"] + 1
    /\ Goto("api", "grant")
    /\ UNCHANGED <<sessions, access, metric, slot, reg, payVars, history>>

(* The new slot is being given up already.                                 *)
Overtaken ==
    \/ ~sessions[slot["api"]].active
    \/ at["loop"] = "clear" /\ slot["loop"] = slot["api"]

(* ... and the firewall told.                                              *)
GrantAccess ==
    /\ at["api"] = "grant"
    /\ access' = FwGrant(access, payer)
    /\ late' = IF Overtaken THEN late \cup {payer} ELSE late
    /\ Goto("api", Created)
    /\ UNCHANGED <<sessions, session_count, metric, slot, reg, payVars, evicted, hasty>>

(* The rest of tollgate_core_session_create_bytes, through its pointer.    *)
(* allotment_ms is not looked at again in a session by bytes.              *)
SetBytes ==
    /\ at["api"] = "bytes"
    /\ sessions' = [sessions EXCEPT ![slot["api"]].bytes = Allotment,
                                    ![slot["api"]].by_bytes = TRUE]
    /\ Goto("api", "idle")
    /\ UNCHANGED <<session_count, access, metric, slot, reg, payVars, history>>

(***************************************************************************)
(* Time, traffic, and the operator.                                        *)
(***************************************************************************)

Clock ==
    /\ \E i \in Active : sessions[i].left > 0
    /\ sessions' = [i \in Slots |->
            IF i \in Active /\ sessions[i].left > 0
            THEN [sessions[i] EXCEPT !.left = @ - 1] ELSE sessions[i]]
    /\ UNCHANGED <<session_count, access, metric, at, slot, reg, payVars, history>>

(* tollgate_core_session_add_bytes.                                        *)
AddBytes(i) ==
    /\ i \in Active
    /\ sessions[i].bytes > 0
    /\ sessions' = [sessions EXCEPT ![i].bytes = @ - 1]
    /\ UNCHANGED <<session_count, access, metric, at, slot, reg, payVars, history>>

SetMetric ==
    /\ metric' \in Metrics \ {metric}
    /\ UNCHANGED <<sessions, session_count, access, at, slot, reg, payVars, history>>

Init ==
    /\ sessions = [i \in Slots |-> [active |-> FALSE, client_ip |-> NoIP, left |-> 0,
                                    by_bytes |-> FALSE, bytes |-> 0]]
    /\ session_count = 0
    /\ access = NoAccess
    /\ metric \in Metrics
    /\ at = [p \in Tasks |-> "idle"]
    /\ slot = [p \in Tasks |-> 1]
    /\ reg = [p \in Tasks |-> 0]
    /\ payer = NoIP
    /\ unit = "milliseconds"
    /\ payments = 0
    /\ evicted = FALSE
    /\ hasty = FALSE
    /\ late = {}

Next ==
    \/ \E p \in Tasks : RevokeAccess(p) \/ RevokeSlot(p) \/ RevokeCount(p)
    \/ Tick \/ TestSlot
    \/ \E ip \in IP : Pay(ip)
    \/ Extend \/ Evict \/ Place \/ AddCount \/ GrantAccess \/ SetBytes
    \/ Clock \/ SetMetric
    \/ \E i \in Slots : AddBytes(i)

Spec == Init /\ [][Next]_vars

(***************************************************************************)
(* Properties.                                                             *)
(***************************************************************************)

(* Type invariant.                                                         *)
TypeOK ==
    /\ sessions \in [Slots -> Session]
    /\ session_count \in Int
    /\ access \in Access
    /\ metric \in Metrics
    /\ at \in [Tasks -> Places]
    /\ slot \in [Tasks -> Slots]
    /\ reg \in [Tasks -> Int]
    /\ payer \in IP \cup {NoIP}
    /\ unit \in Metrics
    /\ payments \in 0..MaxPayments
    /\ evicted \in BOOLEAN /\ hasty \in BOOLEAN
    /\ late \subseteq IP

(* The task that opens sessions is alone in doing so: whatever the main    *)
(* loop does meanwhile, no client gets two (and the types are kept).       *)
OneSessionPerClient ==
    /\ TypeOK
    /\ \A i, j \in Active : sessions[i].client_ip = sessions[j].client_ip => i = j

(* Nobody is let through without a session (PLAN.md, test 22: session      *)
(* expiry, internet blocked), but for a client whose grant came when the   *)
(* main loop had its new slot in hand already, and nobody else, however    *)
(* slots change hands and s_session_count is miscounted.  It takes one of  *)
(* two things for that: an eviction, after which the main loop may revoke  *)
(* a slot that has a new owner, or a session tested before it is complete, *)
(* as one by bytes can be, which has neither time nor bytes when its slot  *)
(* becomes active.                                                         *)
AccessIsOwed ==
    /\ access.fw \subseteq AddressesOf(Active) \cup late
    /\ late # {} => evicted \/ hasty
=============================================================================
