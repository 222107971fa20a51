----------------------------- MODULE AccessList -----------------------------
(***************************************************************************)
(* The access lists of tollgate_core as the code keeps them: s_clients     *)
(* with s_client_count (tollgate_core_firewall.c), s_auth_list with        *)
(* s_auth_count (tollgate_core_dns.c).  A list is an array whose first     *)
(* count entries are in use.  An entry is removed by moving the last one   *)
(* into its place, so entries change places under their readers, and what  *)
(* lies beyond the count is whatever was left there.                       *)
(*                                                                         *)
(* tollgate_core_fw_revoke_all walks over the clients: each turn of its    *)
(* loop is a step.  Calls do not overlap here; AccessRace.tla lets them.   *)
(***************************************************************************)
EXTENDS Firewall

CONSTANT NoIP       \* the address in an entry that was never written

ASSUME NoIPAssumption == NoIP \notin IP

VARIABLES
    clients,    \* s_clients, s_client_count
    auth,       \* s_auth_list, s_auth_count
    turn,       \* the client tollgate_core_fw_revoke_all is at, 0 outside it
    before      \* history: the addresses in auth when the walk began

vars == <<clients, auth, turn, before>>

List(max) == [at : [1..max -> IP \cup {NoIP}], count : 0..max]

Empty(max) == [at |-> [i \in 1..max |-> NoIP], count |-> 0]

Used(l) == 1..l.count

(* find_client_by_ip, is_authenticated: whether ip is one of these.        *)
Listed(l) == {l.at[i] : i \in Used(l)}

Appended(l, ip) == [at |-> [l.at EXCEPT ![l.count + 1] = ip],
                    count |-> l.count + 1]

(* Mutant of Removed: the entry before the last one is moved.              *)
RemovedByWrongEntry(l, ip) ==
    IF ip \in Listed(l)
    THEN LET i == CHOOSE i \in Used(l) : l.at[i] = ip
         IN  [at |-> [l.at EXCEPT ![i] = IF l.count > 1 THEN l.at[l.count - 1] ELSE @],
              count |-> l.count - 1]
    ELSE l

(* The entry of ip, if there is one, is overwritten with the last one.     *)
Removed(l, ip) ==
    IF ip \in Listed(l)
    THEN LET i == CHOOSE i \in Used(l) : l.at[i] = ip
         IN  [at |-> [l.at EXCEPT ![i] = l.at[l.count]], count |-> l.count - 1]
    ELSE l

(* tollgate_core_dns_set_authenticated(ip, true); with false it is Removed.*)
Authenticated(l, ip) ==
    IF ip \in Listed(l) \/ l.count >= MaxAuth THEN l ELSE Appended(l, ip)

(* tollgate_core_fw_grant.                                                 *)
Grant(ip) ==
    /\ turn = 0
    /\ IF ip \in Listed(clients) \/ clients.count >= MaxFw
       THEN UNCHANGED <<clients, auth>>
       ELSE /\ clients' = Appended(clients, ip)
            /\ auth' = Authenticated(auth, ip)
    /\ UNCHANGED <<turn, before>>

(* Mutant of Revoke: the DNS server is not told.                           *)
RevokeSilently(ip) ==
    /\ turn = 0
    /\ ip \in Listed(clients)
    /\ clients' = Removed(clients, ip)
    /\ UNCHANGED <<auth, turn, before>>

(* tollgate_core_fw_revoke.                                                *)
Revoke(ip) ==
    /\ turn = 0
    /\ ip \in Listed(clients)
    /\ clients' = Removed(clients, ip)
    /\ auth' = Removed(auth, ip)
    /\ UNCHANGED <<turn, before>>

(* tollgate_core_fw_revoke_all: entry, one turn, and the end of its loop.  *)
RevokeAllBegin ==
    /\ turn = 0
    /\ turn' = 1
    /\ before' = Listed(auth)
    /\ UNCHANGED <<clients, auth>>

RevokeAllTurn ==
    /\ turn \in Used(clients)
    /\ auth' = Removed(auth, clients.at[turn])
    /\ turn' = turn + 1
    /\ UNCHANGED <<clients, before>>

RevokeAllEnd ==
    /\ turn > clients.count
    /\ clients' = [clients EXCEPT !.count = 0]
    /\ turn' = 0
    /\ before' = {}
    /\ UNCHANGED auth

(* tollgate_core_fw_init: s_clients is cleared, s_auth_list is not.        *)
Restart ==
    /\ turn = 0
    /\ clients' = Empty(MaxFw)
    /\ UNCHANGED <<auth, turn, before>>

Init ==
    /\ clients = Empty(MaxFw)
    /\ auth = Empty(MaxAuth)
    /\ turn = 0
    /\ before = {}

Next ==
    \/ \E ip \in IP : Grant(ip) \/ Revoke(ip)
    \/ RevokeAllBegin \/ RevokeAllTurn \/ RevokeAllEnd
    \/ Restart

Spec == Init /\ [][Next]_vars

(***************************************************************************)
(* Properties.                                                             *)
(***************************************************************************)

(* Type invariant; the counts stay within the arrays.                      *)
TypeOK ==
    /\ clients \in List(MaxFw)
    /\ auth \in List(MaxAuth)
    /\ turn \in 0..(MaxFw + 1)
    /\ before \subseteq IP

Distinct(l) == \A i, j \in Used(l) : l.at[i] = l.at[j] => i = j

(* Every used entry holds a client, and no client is in a list twice: a    *)
(* second entry would outlive tollgate_core_fw_revoke, which removes one   *)
(* and returns, and the client would keep its access for ever.             *)
NoDuplicates ==
    /\ Listed(clients) \subseteq IP /\ Distinct(clients)
    /\ Listed(auth) \subseteq IP /\ Distinct(auth)

(* While tollgate_core_fw_revoke_all walks, the DNS list is the old one    *)
(* without the clients walked over, although removals move its entries.    *)
WalkRemoves ==
    turn > 0 => /\ turn <= clients.count + 1
                /\ Listed(auth) = before \ {clients.at[i] : i \in 1..(turn - 1)}

(* The lists as sets.  The DNS list is what it was until the walk of       *)
(* tollgate_core_fw_revoke_all is over.                                    *)
AsSets == [fw |-> Listed(clients),
           auth |-> IF turn = 0 THEN Listed(auth) ELSE before]

Abstract == INSTANCE AccessSpec WITH access <- AsSets

(* The arrays with their counts, filled and emptied in any order, behave   *)
(* as the two sets that Gate.tla is written over: no client is lost when   *)
(* entries are moved, none comes back, and each operation touches no       *)
(* client but its own.                                                     *)
ImplementsSets == Abstract!Spec
=============================================================================
